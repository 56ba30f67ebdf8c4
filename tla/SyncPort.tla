------------------------------ MODULE SyncPort ------------------------------
(***************************************************************************)
(* The writes and the reads of the sync port (src/sync/port.ts), beside    *)
(* the change feed.                                                        *)
(*                                                                         *)
(* A pusher (external) carries out its edits of one Resource one after the *)
(* other: it reads the Resource, makes a conditional write pinned to what  *)
(* it knows, records the acknowledged validator, and on a conflict reads   *)
(* again.  A request is answered in one step and the answer settles in     *)
(* another; get sends two requests at once, answered in either order.      *)
(***************************************************************************)
EXTENDS ChangeFeed, Sequences

CONSTANTS Pushers, Target,  \* who writes, and the Resource they share
          Script,           \* each one's edits: put, meta, delete
          Restricted,       \* the pushers whose capability may be revoked
          MaxLosses         \* answers that may be lost

VARIABLES push,   \* the pushers
          lost,
          kept,   \* the edits that were reported done
          buried  \* the edits that were deleted by one who had seen them

vars == <<feedVars, push, lost, kept, buried>>

ASSUME PushersTyped == Restricted \subseteq Pushers /\ Target \in Ids /\ MaxLosses \in Nat

Edits == {"put", "meta", "delete"}

Resources == [rev : Nat, live : BOOLEAN, json : BOOLEAN, data : SUBSET Pushers,
              metaRev : Nat, custom : SUBSET Pushers]

(* A Resource is as old as its revisions; one that is gone holds nothing,  *)
(* and without a metadata revision there is no metadata.                   *)
Grounded(resource, now) ==
    /\ resource \in Resources /\ resource.rev <= now /\ resource.metaRev <= now
    /\ ~resource.live => resource.data = {} /\ resource.custom = {}
    /\ resource.metaRev = 0 => resource.custom = {}

ASSUME ScriptTyped == Script \in [Pushers -> Seq(Edits)]
ASSUME InitialGrounded ==
    \A start \in Initial :
      /\ start.clock \in Nat /\ start.doc \in [Ids -> Resources]
      /\ \A i \in Ids : Grounded(start.doc[i], start.clock)
      /\ \A i \in Ids : start.doc[i].live => start.doc[i].rev > 0
      /\ start.record \in [Records -> 0 .. start.clock]

Shut(p) == p \in Restricted /\ ~granted

(* Ports of restricted pushers map denials, the others do not.             *)
Maps(p) == p \in Restricted

Doing(p) == Script[p][push[p].step]

(* The state a write builds on: a MasterState, an ack, or nothing.         *)
Nothing == [live |-> FALSE, etag |-> 0, stamp |-> 0, data |-> {}, metaEtag |-> 0, custom |-> {}]

Unasked == [at |-> "unread", step |-> 1, base |-> Nothing, content |-> None, meta |-> None, got |-> None]

Become(p, now) == push' = [push EXCEPT ![p] = now]
Pending(p) == push[p].step <= Len(Script[p])

(* On to the next edit, from what is known of the Resource.                *)
Settled(p, base) ==
    Become(p, [Unasked EXCEPT !.at = "idle", !.step = push[p].step + 1, !.base = base])

(* The edit is sent, or sent again, from another state.                    *)
Rebased(p, base) ==
    Become(p, [Unasked EXCEPT !.at = "idle", !.step = push[p].step, !.base = base])

Stopped(p) == Become(p, [Unasked EXCEPT !.at = "stopped", !.step = push[p].step])
-----------------------------------------------------------------------------
(* Reads.                                                                  *)

StartGet(p) ==
    /\ push[p].at = "unread" /\ Pending(p)
    /\ Become(p, [push[p] EXCEPT !.at = "reading"])
    /\ UNCHANGED <<feedVars, lost, kept, buried>>

ServeContent(p) ==
    LET now == doc[Target]
        Got(answer) == Become(p, [push[p] EXCEPT !.content = [answer |-> answer, of |-> now]])
    IN /\ push[p].at = "reading" /\ push[p].content = None
       /\ \/ Shut(p) /\ \E denial \in Denials : Got(denial)
          \/ ~Shut(p) /\ ~now.live /\ Got(Answer(404, "not-found"))
          \/ ~Shut(p) /\ now.live /\ Got(Ok)
       /\ UNCHANGED <<feedVars, lost, kept, buried>>

(* A Resource that has no metadata yet has no metadata document.           *)
ServeMeta(p) ==
    LET now == doc[Target]
        Got(answer) == Become(p, [push[p] EXCEPT !.meta = [answer |-> answer, of |-> now]])
    IN /\ push[p].at = "reading" /\ push[p].meta = None
       /\ \/ Shut(p) /\ \E denial \in Denials : Got(denial)
          \/ ~Shut(p) /\ ~(now.live /\ now.metaRev > 0) /\ Got(Answer(404, "not-found"))
          \/ ~Shut(p) /\ now.live /\ now.metaRev > 0 /\ Got(Ok)
       /\ UNCHANGED <<feedVars, lost, kept, buried>>

(* Faulty variant: the master state takes its validator from the later     *)
(* answer.                                                                 *)
StampedMaster(content, meta) ==
    [live |-> TRUE, etag |-> meta.of.rev, stamp |-> meta.of.rev, data |-> content.of.data,
     metaEtag |-> meta.of.metaRev, custom |-> meta.of.custom]

(* The two answers, put together: each part keeps its own validator.       *)
Master(content, meta) ==
    IF meta.answer # Ok
    THEN [Nothing EXCEPT !.live = TRUE, !.etag = content.of.rev, !.data = content.of.data]
    ELSE [live |-> TRUE, etag |-> content.of.rev, stamp |-> meta.of.rev, data |-> content.of.data,
          metaEtag |-> meta.of.metaRev, custom |-> meta.of.custom]

(* A master state that shows the edit already made needs no write.         *)
Shows(p, base) ==
    CASE Doing(p) = "put" -> p \in base.data
      [] Doing(p) = "meta" -> p \in base.custom
      [] OTHER -> ~base.live

ReadBack(p, base) ==
    IF Shows(p, base)
    THEN Settled(p, base) /\ kept' = kept \union {<<p, Doing(p)>>}
    ELSE Rebased(p, base) /\ UNCHANGED kept

(* readContent throws what is neither an absence nor a JSON body.          *)
Unreadable(content) ==
    IF content.answer = Ok THEN ~content.of.json ELSE ~IsNotFound(content.answer)

(* An absence of content is null, and then the other answer is not waited  *)
(* for.  A null read after a failed write drops the edit: a deletion wins. *)
SettleGet(p) ==
    LET content == push[p].content
        meta == push[p].meta
    IN /\ push[p].at = "reading" /\ content # None
       /\ UNCHANGED <<feedVars, lost, buried>>
       /\ \/ /\ IsNotFound(content.answer)
             /\ IF push[p].got = None /\ Doing(p) = "put" THEN Rebased(p, Nothing) ELSE Settled(p, Nothing)
             /\ UNCHANGED kept
          \/ Unreadable(content) /\ Stopped(p) /\ UNCHANGED kept
          \/ /\ content.answer = Ok /\ content.of.json /\ meta # None
             /\ IF meta.answer = Ok \/ IsNotFound(meta.answer)
                THEN ReadBack(p, Master(content, meta))
                ELSE Stopped(p) /\ UNCHANGED kept
-----------------------------------------------------------------------------
(* Writes.                                                                 *)

Send(p) ==
    /\ push[p].at = "idle" /\ Pending(p)
    /\ IF Doing(p) # "put" /\ ~push[p].base.live
       THEN Settled(p, Nothing)
       ELSE Become(p, [push[p] EXCEPT !.at = "sent"])
    /\ UNCHANGED <<feedVars, lost, kept, buried>>

(* A write that knows of no Resource, or of no metadata, is a create.      *)
Precondition(p) ==
    LET base == push[p].base
        now == doc[Target]
    IN CASE Doing(p) = "meta" -> base.metaEtag = now.metaRev
         [] OTHER -> IF base.live THEN now.live /\ base.etag = now.rev ELSE ~now.live

Effect(p) ==
    LET base == push[p].base
        now == doc[Target]
    IN CASE Doing(p) = "put" /\ now.live -> [now EXCEPT !.rev = clock + 1, !.json = TRUE, !.data = base.data \union {p}]
         [] Doing(p) = "put" /\ ~now.live ->
              [Absence EXCEPT !.rev = clock + 1, !.live = TRUE, !.data = {p}, !.metaRev = clock + 1]
         [] Doing(p) = "meta" -> [now EXCEPT !.metaRev = clock + 1, !.custom = base.custom \union {p}]
         [] OTHER -> [now EXCEPT !.rev = clock + 1, !.live = FALSE, !.data = {}, !.custom = {}]

ServeWrite(p) ==
    LET now == doc[Target]
        vanished == Doing(p) # "put" /\ ~now.live
        Got(answer) == Become(p, [push[p] EXCEPT !.at = "answered", !.got = [answer |-> answer, rev |-> clock']]) 
    IN /\ push[p].at = "sent"
       /\ UNCHANGED <<record, issue, granted, faults, others, replica, walk, kept>>
       /\ \/ /\ Shut(p) /\ \E denial \in Denials : UNCHANGED clock /\ Got(denial)
             /\ UNCHANGED <<doc, lost, buried>>
          \/ /\ ~Shut(p) /\ vanished
             /\ UNCHANGED clock /\ Got(Answer(404, "not-found")) /\ UNCHANGED <<doc, lost, buried>>
          \/ /\ ~Shut(p) /\ ~vanished /\ ~Precondition(p)
             /\ UNCHANGED clock /\ Got(Answer(412, "precondition-failed")) /\ UNCHANGED <<doc, lost, buried>>
          \/ /\ ~Shut(p) /\ ~vanished /\ Precondition(p)
             /\ doc' = [doc EXCEPT ![Target] = Effect(p)] /\ clock' = clock + 1
             /\ buried' = IF Doing(p) # "delete" THEN buried
                          ELSE buried \union {<<q, "put">> : q \in push[p].base.data}
                                      \union {<<q, "meta">> : q \in now.custom}
             /\ \/ Got(Ok) /\ UNCHANGED lost
                \/ lost < MaxLosses /\ lost' = lost + 1 /\ Got(NoAnswer)

(* writeAck: the acknowledged validator, to pin the next write with.       *)
Ack(p) ==
    LET base == push[p].base
        rev == push[p].got.rev
    IN CASE Doing(p) = "put" /\ base.live -> [base EXCEPT !.etag = rev, !.stamp = rev, !.data = @ \union {p}]
         [] Doing(p) = "put" /\ ~base.live -> [Nothing EXCEPT !.live = TRUE, !.etag = rev, !.stamp = rev, !.data = {p}]
         [] Doing(p) = "meta" -> [base EXCEPT !.metaEtag = rev, !.custom = @ \union {p}]
         [] OTHER -> Nothing

(* mapWriteError: the signal a failed write becomes.                       *)
WriteSignal(p, answer) ==
    CASE Doing(p) = "delete" /\ Maps(p) /\ IsNotFound(answer) -> "settled"
      [] Doing(p) # "put" /\ ~Maps(p) /\ IsNotFound(answer) -> "not found"
      [] IsPreconditionFailed(answer) -> "conflict"
      [] Maps(p) /\ IsAuthStatus(answer) /\ ~(Doing(p) = "delete" /\ IsNotFound(answer)) -> "auth"
      [] OTHER -> "error"

(* What the pusher does with it: an edit whose Resource is gone is         *)
(* settled, a conflict and an ambiguous absence are read again, and a      *)
(* request that failed without an answer is sent again.                    *)
SettleWrite(p) ==
    LET answer == push[p].got.answer
        tells == WriteSignal(p, answer)
        ambiguous == tells = "auth" /\ Doing(p) = "meta" /\ answer.status = 404
    IN /\ push[p].at = "answered" /\ UNCHANGED <<feedVars, lost, buried>>
       /\ \/ answer = Ok /\ Settled(p, Ack(p)) /\ kept' = kept \union {<<p, Doing(p)>>}
          \/ answer = NoAnswer /\ Become(p, [push[p] EXCEPT !.at = "sent"]) /\ UNCHANGED kept
          \/ /\ answer \notin {Ok, NoAnswer} /\ UNCHANGED kept
             /\ \/ tells = "settled" /\ Settled(p, Nothing)
                \/ /\ tells \in {"conflict", "not found"} \/ ambiguous
                   /\ Become(p, [push[p] EXCEPT !.at = "unread"])
                \/ tells \in {"auth", "error"} /\ ~ambiguous /\ Stopped(p)
-----------------------------------------------------------------------------
Push(p) ==
    StartGet(p) \/ ServeContent(p) \/ ServeMeta(p) \/ SettleGet(p) \/ Send(p) \/ ServeWrite(p) \/ SettleWrite(p)

Foreign == Others /\ UNCHANGED <<push, lost, kept, buried>>

Poll(w) == Walk(w) /\ UNCHANGED <<push, lost, kept, buried>>

Init ==
    /\ \E cast \in Casts :
         /\ FeedInit(cast)
         /\ push = [p \in Pushers |-> IF p \in cast THEN Unasked ELSE [Unasked EXCEPT !.at = "stopped"]]
    /\ lost = 0 /\ kept = {} /\ buried = {}

(* Nothing is under way.                                                   *)
Quiet ==
    /\ \A p \in Pushers : push[p].at = "stopped" \/ ~Pending(p)
    /\ \A w \in Walkers : walk[w].at \notin {"asked", "got"}
    /\ UNCHANGED vars

Next == Quiet \/ Foreign \/ (\E w \in Walkers : Poll(w)) \/ \E p \in Pushers : Push(p)

(* A replica polls for as long as it lives, and requests are answered.     *)
Fairness == \A w \in Replicas : WF_vars(Poll(w))

Spec == Init /\ [][Next]_vars /\ Fairness
-----------------------------------------------------------------------------
(* Properties.                                                             *)

(* An edit that was reported done is in the Resource, unless one who had   *)
(* seen it deleted it: whatever answers were lost, and though get puts     *)
(* together two answers that may be of two different revisions.            *)
EditsKept ==
    \A p \in Pushers :
      /\ <<p, "put">> \in kept => p \in doc[Target].data \/ <<p, "put">> \in buried
      /\ <<p, "meta">> \in kept => p \in doc[Target].custom \/ <<p, "meta">> \in buried

(* A promise that does not hold under a racing write (README, Departures): *)
(* the stamp a master state carries is the one of the content it carries.  *)
StampOfItsContent ==
    \A p \in Pushers : push[p].base.stamp \in {0, push[p].base.etag}
=============================================================================
