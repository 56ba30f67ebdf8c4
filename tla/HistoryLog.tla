----------------------------- MODULE HistoryLog -----------------------------
(***************************************************************************)
(* What a governing history log promises its readers: entries are only     *)
(* ever appended, each by one who saw the whole log, under controller      *)
(* views that never go back.                                               *)
(***************************************************************************)
EXTENDS Sequences, Naturals

VARIABLE log  \* the entries, each with its id, its predecessor, its view

Extends(entries, e) ==
    \/ entries = <<>>
    \/ LET head == entries[Len(entries)]
       IN e.prev = head.id /\ e.view >= head.view

Init == log = <<>> \/ Len(log) = 1

Extend ==
    /\ Len(log') = Len(log) + 1
    /\ SubSeq(log', 1, Len(log)) = log
    /\ Extends(log, log'[Len(log')])

Spec == Init /\ [][Extend]_log
=============================================================================
