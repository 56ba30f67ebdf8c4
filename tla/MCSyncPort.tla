----------------------------- MODULE MCSyncPort -----------------------------
(* Small instances of SyncPort: a replica and a reader over a shared note,  *)
(* a picture and a record of the Collection, and two pushers.               *)
EXTENDS SyncPort

MCReplicas == {"phone"}
MCReaders == {"report"}
MCAllowed == [w \in {"phone", "report"} |-> IF w = "phone" THEN {"GET"} ELSE {"GET", "POST"}]
MCPushers == {"p1", "p2"}
MCCasts == {{"p1", "p2"}, {"phone", "p1"}, {"report", "p1"}}
MCScript == [p \in MCPushers |-> IF p = "p1" THEN <<"put", "meta">> ELSE <<"put", "delete">>]
MCInitial ==
    {[doc |-> [i \in {"note", "picture"} |->
                 IF i = "picture" THEN [Absence EXCEPT !.rev = 1, !.live = TRUE, !.json = FALSE, !.metaRev = 1]
                 ELSE [Absence EXCEPT !.rev = start, !.live = start = 3]],
      record |-> [r \in {"meta"} |-> 2], clock |-> 3] : start \in {0, 3}}
=============================================================================
