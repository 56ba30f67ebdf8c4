-------------------------- MODULE SyncPort_proofs --------------------------
(***************************************************************************)
(* Proofs about SyncPort: an edit that was reported done is in the         *)
(* Resource, for any number of pushers, whatever they mean to do, whoever  *)
(* else writes, and however many answers are lost; and who is told of the  *)
(* end of the feed has all of it, for any Collection and any pages.        *)
(***************************************************************************)
EXTENDS SyncPort, TLAPS, FiniteSetTheorems, NaturalsInduction, WellFoundedInduction

(* What a write may be pinned to: each validator, while it is the one in   *)
(* force, stands for the members it came with.                             *)
Bases == [live : BOOLEAN, etag : Nat, stamp : Nat, data : SUBSET Pushers,
          metaEtag : Nat, custom : SUBSET Pushers]

ContentPinned(etag, data, now, tick) ==
    etag <= tick /\ (now.live /\ now.rev = etag => now.data = data)

MetaPinned(etag, custom, now, tick) ==
    etag <= tick /\ (now.live /\ now.metaRev = etag => now.custom = custom)

Pinned(base, now, tick) ==
    /\ base.live => ContentPinned(base.etag, base.data, now, tick)
    /\ MetaPinned(base.metaEtag, base.custom, now, tick)

(* Edits that are in the Resource, or were deleted by one who saw them.    *)
Held(names, kind, present, gone) == \A q \in names : q \in present \/ <<q, kind>> \in gone

(* The answers a pusher may be told.                                       *)
Answers == Denials \union {Ok, NoAnswer, Answer(404, "not-found"), Answer(412, "precondition-failed")}
Parts == [answer : Answers, of : Resources]
Acks == [answer : Answers, rev : Nat]

Pushes == [at : {"unread", "reading", "idle", "sent", "answered", "stopped"}, step : Nat \ {0},
           base : Bases, content : {None} \union Parts, meta : {None} \union Parts,
           got : {None} \union Acks]

Shaped ==
    /\ doc \in [Ids -> Resources] /\ clock \in Nat /\ Grounded(doc[Target], clock)
    /\ push \in [Pushers -> Pushes]

(* The content that a pusher read, and the metadata that it read.          *)
Reading(p) ==
    /\ push[p].content # None /\ push[p].content.answer = Ok =>
         LET of == push[p].content.of
         IN /\ ContentPinned(of.rev, of.data, doc[Target], clock)
            /\ Held(of.data, "put", doc[Target].data, buried)
    /\ push[p].meta # None /\ push[p].meta.answer = Ok =>
         LET of == push[p].meta.of
         IN /\ MetaPinned(of.metaRev, of.custom, doc[Target], clock)
            /\ Held(of.custom, "meta", doc[Target].custom, buried)

(* A write that was acknowledged, and the state its pusher takes from it.  *)
Acked(p) ==
    push[p].at = "answered" =>
      /\ push[p].got \in Acks
      /\ push[p].got.answer = Ok =>
           /\ Pinned(Ack(p), doc[Target], clock)
           /\ Doing(p) = "put" => Held({p}, "put", doc[Target].data, buried)
           /\ Doing(p) = "meta" => Held({p}, "meta", doc[Target].custom, buried)

Knows(p) ==
    /\ push[p].at \in {"reading", "sent", "answered"} => Doing(p) \in Edits
    /\ Pinned(push[p].base, doc[Target], clock)
    /\ Reading(p)
    /\ Acked(p)

IInv == Shaped /\ EditsKept /\ \A p \in Pushers : Knows(p)
-----------------------------------------------------------------------------
(* What a step does to the Resource: a validator that is still, or again,  *)
(* in force stands for the same members, and nothing is lost unseen.       *)

Evolves(now, next, tick, tock, gone, after) ==
    /\ tock \in Nat /\ tick <= tock /\ Grounded(next, tock)
    /\ next.live /\ next.rev <= tick =>
         now.live /\ next.rev = now.rev /\ next.data = now.data
    /\ next.live /\ next.metaRev <= tick =>
         now.live /\ next.metaRev = now.metaRev /\ next.custom = now.custom
    /\ Held(now.data, "put", next.data, after)
    /\ Held(now.custom, "meta", next.custom, after)
    /\ gone \subseteq after

Serves ==
    /\ doc' \in [Ids -> Resources]
    /\ Evolves(doc[Target], doc'[Target], clock, clock', buried, buried')

LEMMA HeldStays ==
    ASSUME NEW now, NEW next, NEW tick, NEW tock, NEW gone, NEW after,
           Evolves(now, next, tick, tock, gone, after), NEW names
    PROVE  /\ Held(names, "put", now.data, gone) => Held(names, "put", next.data, after)
           /\ Held(names, "meta", now.custom, gone) => Held(names, "meta", next.custom, after)
  BY DEF Evolves, Held

LEMMA PinnedStays ==
    ASSUME NEW now, NEW next, NEW tick \in Nat, NEW tock, NEW gone, NEW after,
           Evolves(now, next, tick, tock, gone, after), NEW etag \in Nat, NEW names
    PROVE  /\ ContentPinned(etag, names, now, tick) => ContentPinned(etag, names, next, tock)
           /\ MetaPinned(etag, names, now, tick) => MetaPinned(etag, names, next, tock)
  BY DEF Evolves, ContentPinned, MetaPinned

LEMMA BaseStays ==
    ASSUME NEW now, NEW next, NEW tick \in Nat, NEW tock, NEW gone, NEW after,
           Evolves(now, next, tick, tock, gone, after), NEW base \in Bases, Pinned(base, now, tick)
    PROVE  Pinned(base, next, tock)
<1>1. base.etag \in Nat /\ base.metaEtag \in Nat
  BY DEF Bases
<1> QED
  BY <1>1, PinnedStays DEF Pinned

LEMMA Typed ==
    ASSUME Shaped, NEW p \in Pushers
    PROVE  /\ push[p] \in Pushes /\ push[p].base \in Bases
           /\ doc[Target] \in Resources /\ Target \in Ids /\ clock \in Nat
           /\ push[p].step \in Nat \ {0}
  BY PushersTyped DEF PushersTyped, Shaped, Pushes

(* What an acknowledged write leaves its pusher with.                      *)
LEMMA AckTyped ==
    ASSUME Shaped, NEW p \in Pushers, push[p].got \in Acks
    PROVE  Ack(p) \in Bases
<1>1. push[p].base \in Bases /\ push[p].got.rev \in Nat
  BY Typed DEF Acks
<1>2. Nothing \in Bases
  BY DEF Nothing, Bases
<1>3. CASE Doing(p) = "put" /\ push[p].base.live
  BY <1>1, <1>3 DEF Ack, Bases
<1>4. CASE Doing(p) = "put" /\ ~push[p].base.live
  BY <1>1, <1>2, <1>4 DEF Ack, Bases, Nothing
<1>5. CASE Doing(p) = "meta"
  BY <1>1, <1>5 DEF Ack, Bases
<1>6. CASE Doing(p) \notin {"put", "meta"}
  BY <1>2, <1>6 DEF Ack
<1> QED
  BY <1>1, <1>3, <1>4, <1>5, <1>6 DEF Bases

(* What a pusher has read, later writes leave true.                        *)
LEMMA ReadingStays ==
    ASSUME Shaped, Serves, NEW p \in Pushers, Reading(p),
           push'[p].content = push[p].content, push'[p].meta = push[p].meta
    PROVE  Reading(p)'
<1>1. /\ push[p] \in Pushes /\ clock \in Nat
      /\ Evolves(doc[Target], doc'[Target], clock, clock', buried, buried')
  BY Typed DEF Serves
<1>2. ASSUME push[p].content # None, push[p].content.answer = Ok
      PROVE  LET of == push[p].content.of
             IN /\ ContentPinned(of.rev, of.data, doc'[Target], clock')
                /\ Held(of.data, "put", doc'[Target].data, buried')
  <2> DEFINE of == push[p].content.of
  <2>1. of.rev \in Nat
    BY <1>1, <1>2 DEF Pushes, Parts, Resources
  <2>2. /\ ContentPinned(of.rev, of.data, doc[Target], clock)
        /\ Held(of.data, "put", doc[Target].data, buried)
    BY <1>2 DEF Reading
  <2> HIDE DEF of
  <2>3. /\ ContentPinned(of.rev, of.data, doc'[Target], clock')
        /\ Held(of.data, "put", doc'[Target].data, buried')
    BY <1>1, <2>1, <2>2, HeldStays, PinnedStays
  <2> QED
    BY <2>3 DEF of
<1>3. ASSUME push[p].meta # None, push[p].meta.answer = Ok
      PROVE  LET of == push[p].meta.of
             IN /\ MetaPinned(of.metaRev, of.custom, doc'[Target], clock')
                /\ Held(of.custom, "meta", doc'[Target].custom, buried')
  <2> DEFINE of == push[p].meta.of
  <2>1. of.metaRev \in Nat
    BY <1>1, <1>3 DEF Pushes, Parts, Resources
  <2>2. /\ MetaPinned(of.metaRev, of.custom, doc[Target], clock)
        /\ Held(of.custom, "meta", doc[Target].custom, buried)
    BY <1>3 DEF Reading
  <2> HIDE DEF of
  <2>3. /\ MetaPinned(of.metaRev, of.custom, doc'[Target], clock')
        /\ Held(of.custom, "meta", doc'[Target].custom, buried')
    BY <1>1, <2>1, <2>2, HeldStays, PinnedStays
  <2> QED
    BY <2>3 DEF of
<1> QED
  BY <1>2, <1>3 DEF Reading

(* What a pusher knows, the step of another leaves true.                   *)
LEMMA KnowsStays ==
    ASSUME Shaped, Serves, NEW p \in Pushers, Knows(p), push'[p] = push[p]
    PROVE  Knows(p)'
<1>1. /\ push[p] \in Pushes /\ push[p].base \in Bases /\ clock \in Nat
      /\ Evolves(doc[Target], doc'[Target], clock, clock', buried, buried')
  BY Typed DEF Serves
<1>2. Doing(p)' = Doing(p) /\ Ack(p)' = Ack(p)
  BY DEF Doing, Ack
<1>3. Pinned(push[p].base, doc'[Target], clock')
  BY <1>1, BaseStays DEF Knows
<1>4. Reading(p)'
  BY ReadingStays DEF Knows
<1>5. Acked(p)'
  <2>1. ASSUME push[p].at = "answered", push[p].got.answer = Ok
        PROVE  /\ Pinned(Ack(p), doc'[Target], clock')
               /\ Doing(p) = "put" => Held({p}, "put", doc'[Target].data, buried')
               /\ Doing(p) = "meta" => Held({p}, "meta", doc'[Target].custom, buried')
    <3>1. Ack(p) \in Bases
      BY <2>1, AckTyped DEF Knows, Acked
    <3>2. /\ Pinned(Ack(p), doc[Target], clock)
          /\ Doing(p) = "put" => Held({p}, "put", doc[Target].data, buried)
          /\ Doing(p) = "meta" => Held({p}, "meta", doc[Target].custom, buried)
      BY <2>1 DEF Knows, Acked
    <3> QED
      BY <1>1, <3>1, <3>2, BaseStays, HeldStays
  <2>2. push[p].at = "answered" => push[p].got \in Acks
    BY DEF Knows, Acked
  <2> QED
    BY <1>2, <2>1, <2>2 DEF Acked
<1> QED
  BY <1>2, <1>3, <1>4, <1>5 DEF Knows

LEMMA HeldOne ==
    ASSUME NEW q, NEW kind, NEW present, NEW gone
    PROVE  Held({q}, kind, present, gone) <=> (q \in present \/ <<q, kind>> \in gone)
  BY DEF Held

(* Nothing is lost that was reported done before.                          *)
LEMMA KeptStays ==
    ASSUME IInv, Serves, NEW more,
           kept' = kept \union more,
           \A q \in Pushers :
             /\ <<q, "put">> \in more => Held({q}, "put", doc'[Target].data, buried')
             /\ <<q, "meta">> \in more => Held({q}, "meta", doc'[Target].custom, buried')
    PROVE  EditsKept'
<1>1. Evolves(doc[Target], doc'[Target], clock, clock', buried, buried') /\ EditsKept
  BY DEF Serves, IInv
<1>2. ASSUME NEW q \in Pushers, <<q, "put">> \in kept'
      PROVE  q \in doc'[Target].data \/ <<q, "put">> \in buried'
  <2>1. Held({q}, "put", doc'[Target].data, buried')
    <3>1. CASE <<q, "put">> \in more
      BY <3>1
    <3>2. CASE <<q, "put">> \in kept
      <4>1. q \in doc[Target].data \/ <<q, "put">> \in buried
        BY <1>1, <3>2 DEF EditsKept
      <4>2. Held({q}, "put", doc[Target].data, buried)
        BY <4>1, HeldOne
      <4> QED
        BY <1>1, <4>2, HeldStays
    <3> QED
      BY <1>2, <3>1, <3>2
  <2> QED
    BY <2>1, HeldOne
<1>3. ASSUME NEW q \in Pushers, <<q, "meta">> \in kept'
      PROVE  q \in doc'[Target].custom \/ <<q, "meta">> \in buried'
  <2>1. Held({q}, "meta", doc'[Target].custom, buried')
    <3>1. CASE <<q, "meta">> \in more
      BY <3>1
    <3>2. CASE <<q, "meta">> \in kept
      <4>1. q \in doc[Target].custom \/ <<q, "meta">> \in buried
        BY <1>1, <3>2 DEF EditsKept
      <4>2. Held({q}, "meta", doc[Target].custom, buried)
        BY <4>1, HeldOne
      <4> QED
        BY <1>1, <4>2, HeldStays
    <3> QED
      BY <1>3, <3>1, <3>2
  <2> QED
    BY <2>1, HeldOne
<1> QED
  BY <1>2, <1>3 DEF EditsKept
-----------------------------------------------------------------------------
(* What a step does to its pusher.                                         *)

PushKept(p) ==
    /\ push' \in [Pushers -> Pushes] /\ \A q \in Pushers \ {p} : push'[q] = push[q]
    /\ Knows(p)'

LEMMA Becomes ==
    ASSUME Shaped, NEW p \in Pushers, NEW k \in Pushes, Become(p, k)
    PROVE  /\ push' \in [Pushers -> Pushes] /\ push'[p] = k
           /\ \A q \in Pushers \ {p} : push'[q] = push[q]
  BY DEF Shaped, Become

LEMMA DoingEdit ==
    ASSUME Shaped, NEW p \in Pushers, Pending(p)
    PROVE  Doing(p) \in Edits
<1>1. Script[p] \in Seq(Edits) /\ push[p].step \in 1 .. Len(Script[p])
  BY Typed, ScriptTyped DEF ScriptTyped, Pending
<1> QED
  BY <1>1 DEF Doing

(* A step that leaves the Resource alone.                                  *)
LEMMA Still ==
    ASSUME Shaped, UNCHANGED <<doc, clock, buried>>
    PROVE  Serves
  BY DEF Shaped, Serves, Evolves, Held

(* A pusher that has put its answers away.                                 *)
LEMMA Parked ==
    ASSUME Shaped, NEW p \in Pushers, NEW k \in Pushes, Become(p, k),
           k.at \in {"idle", "stopped"}, k.content = None, k.meta = None,
           Pinned(k.base, doc'[Target], clock')
    PROVE  PushKept(p)
<1>1. /\ push' \in [Pushers -> Pushes] /\ push'[p] = k
      /\ \A q \in Pushers \ {p} : push'[q] = push[q]
  BY Becomes
<1> QED
  BY <1>1 DEF PushKept, Knows, Reading, Acked

LEMMA NothingPinned ==
    ASSUME Shaped
    PROVE  Nothing \in Bases /\ Pinned(Nothing, doc[Target], clock)
<1>1. Nothing \in Bases /\ ~Nothing.live /\ Nothing.metaEtag = 0 /\ Nothing.custom = {}
  BY DEF Nothing, Bases
<1>2. 0 <= clock /\ (doc[Target].metaRev = 0 => doc[Target].custom = {})
  BY DEF Shaped, Grounded
<1> HIDE DEF Nothing
<1> QED
  BY <1>1, <1>2 DEF Pinned, MetaPinned

LEMMA UnaskedTyped == Unasked \in Pushes /\ Unasked.content = None /\ Unasked.meta = None
                      /\ Unasked.base = Nothing
<1>1. Nothing \in Bases
  BY DEF Nothing, Bases
<1> QED
  BY <1>1 DEF Unasked, Pushes

LEMMA SettledKept ==
    ASSUME Shaped, NEW p \in Pushers, NEW base \in Bases, UNCHANGED <<doc, clock>>,
           Pinned(base, doc[Target], clock), Settled(p, base) \/ Rebased(p, base)
    PROVE  PushKept(p)
<1>1. push[p].step \in Nat \ {0}
  BY Typed
<1>2. PICK step \in Nat \ {0} :
        Become(p, [Unasked EXCEPT !.at = "idle", !.step = step, !.base = base])
  <2> DEFINE At(step) == Become(p, [Unasked EXCEPT !.at = "idle", !.step = step, !.base = base])
  <2>1. At(push[p].step + 1) \/ At(push[p].step)
    BY DEF Settled, Rebased
  <2> HIDE DEF At
  <2>2. \E step \in Nat \ {0} : At(step)
    BY <1>1, <2>1
  <2> QED
    BY <2>2 DEF At
<1> DEFINE k == [Unasked EXCEPT !.at = "idle", !.step = step, !.base = base]
<1>3. /\ k \in Pushes /\ k.at = "idle" /\ k.base = base /\ k.content = None /\ k.meta = None
  BY UnaskedTyped DEF Pushes
<1>4. Become(p, k)
  BY <1>2
<1> HIDE DEF k
<1> QED
  BY <1>3, <1>4, Parked

LEMMA StoppedKept ==
    ASSUME Shaped, NEW p \in Pushers, UNCHANGED <<doc, clock>>, Stopped(p)
    PROVE  PushKept(p)
<1> DEFINE k == [Unasked EXCEPT !.at = "stopped", !.step = push[p].step]
<1>1. push[p].step \in Nat \ {0}
  BY Typed
<1>2. /\ k \in Pushes /\ k.at = "stopped" /\ k.base = Nothing /\ k.content = None /\ k.meta = None
  BY <1>1, UnaskedTyped DEF Pushes
<1>3. Become(p, k)
  BY DEF Stopped
<1> HIDE DEF k
<1> QED
  BY <1>2, <1>3, NothingPinned, Parked
-----------------------------------------------------------------------------
(* One lemma per step.                                                     *)

(* What a step must do for the invariant.                                  *)
Upheld(p) == Serves /\ PushKept(p) /\ EditsKept'

LEMMA Unreported ==
    ASSUME IInv, Serves, UNCHANGED kept
    PROVE  EditsKept'
<1> DEFINE more == {}
<1>1. kept' = kept \union more /\ \A edit : edit \notin more
  OBVIOUS
<1> HIDE DEF more
<1> QED
  BY <1>1, KeptStays

LEMMA StartGetKept ==
    ASSUME IInv, NEW p \in Pushers, StartGet(p)
    PROVE  Upheld(p)
<1> DEFINE k == [push[p] EXCEPT !.at = "reading"]
<1>1. Shaped /\ Knows(p) /\ Pending(p)
  BY DEF IInv, StartGet
<1>2. Serves /\ UNCHANGED <<doc, clock, buried, kept>>
  BY <1>1, Still DEF StartGet, feedVars, server
<1>3. push[p] \in Pushes /\ Doing(p) \in Edits
  BY <1>1, Typed, DoingEdit
<1>4. Become(p, k)
  BY DEF StartGet
<1>5. /\ k \in Pushes /\ k.at = "reading" /\ k.step = push[p].step /\ k.base = push[p].base
      /\ k.content = push[p].content /\ k.meta = push[p].meta
  BY <1>3 DEF Pushes
<1> HIDE DEF k
<1>6. /\ push' \in [Pushers -> Pushes] /\ push'[p] = k
      /\ \A q \in Pushers \ {p} : push'[q] = push[q]
  BY <1>1, <1>4, <1>5, Becomes
<1>7. Knows(p)'
  BY <1>1, <1>2, <1>3, <1>5, <1>6 DEF Knows, Reading, Acked, Doing
<1> QED
  BY <1>2, <1>6, <1>7, Unreported DEF Upheld, PushKept

LEMMA AnswersTyped ==
    /\ Denials \subseteq Answers /\ Ok \in Answers /\ NoAnswer \in Answers
    /\ Answer(404, "not-found") \in Answers /\ Answer(412, "precondition-failed") \in Answers
    /\ Ok # NoAnswer
    /\ \A denial \in Denials : denial # Ok
    /\ Answer(404, "not-found") # Ok /\ Answer(412, "precondition-failed") # Ok
<1>1. Ok.status = 200 /\ NoAnswer.status = 0
      /\ Answer(404, "not-found").status = 404 /\ Answer(412, "precondition-failed").status = 412
      /\ \A denial \in Denials : denial.status \in {403, 404}
  BY DEF Ok, NoAnswer, Answer, Denials
<1> QED
  BY <1>1 DEF Answers

(* The server answers one of the two reads of get with the Resource as it  *)
(* is then.                                                                *)
LEMMA ServeContentKept ==
    ASSUME IInv, NEW p \in Pushers, ServeContent(p)
    PROVE  Upheld(p)
<1>1. Shaped /\ Knows(p) /\ push[p].at = "reading"
  BY DEF IInv, ServeContent
<1>2. Serves /\ UNCHANGED <<doc, clock, buried, kept>>
  BY <1>1, Still DEF ServeContent, feedVars, server
<1>3. push[p] \in Pushes /\ doc[Target] \in Resources
  BY <1>1, Typed
<1>4. PICK answer \in Answers :
        Become(p, [push[p] EXCEPT !.content = [answer |-> answer, of |-> doc[Target]]])
  BY AnswersTyped DEF ServeContent
<1> DEFINE part == [answer |-> answer, of |-> doc[Target]]
           k == [push[p] EXCEPT !.content = part]
<1>5. part \in Parts /\ part.of = doc[Target]
  BY <1>3 DEF Parts
<1>6. Become(p, k)
  BY <1>4
<1> HIDE DEF part
<1>7. /\ k \in Pushes /\ k.at = "reading" /\ k.step = push[p].step /\ k.base = push[p].base
      /\ k.content = part /\ k.meta = push[p].meta
  BY <1>1, <1>3, <1>5 DEF Pushes
<1> HIDE DEF k
<1>8. /\ push' \in [Pushers -> Pushes] /\ push'[p] = k
      /\ \A q \in Pushers \ {p} : push'[q] = push[q]
  BY <1>1, <1>6, <1>7, Becomes
<1>9. /\ ContentPinned(part.of.rev, part.of.data, doc[Target], clock)
      /\ Held(part.of.data, "put", doc[Target].data, buried)
  BY <1>1, <1>5 DEF ContentPinned, Held, Shaped, Grounded
<1>10. Knows(p)'
  BY <1>1, <1>2, <1>7, <1>8, <1>9 DEF Knows, Reading, Acked, Doing
<1> QED
  BY <1>2, <1>8, <1>10, Unreported DEF Upheld, PushKept

LEMMA ServeMetaKept ==
    ASSUME IInv, NEW p \in Pushers, ServeMeta(p)
    PROVE  Upheld(p)
<1>1. Shaped /\ Knows(p) /\ push[p].at = "reading"
  BY DEF IInv, ServeMeta
<1>2. Serves /\ UNCHANGED <<doc, clock, buried, kept>>
  BY <1>1, Still DEF ServeMeta, feedVars, server
<1>3. push[p] \in Pushes /\ doc[Target] \in Resources
  BY <1>1, Typed
<1>4. PICK answer \in Answers :
        Become(p, [push[p] EXCEPT !.meta = [answer |-> answer, of |-> doc[Target]]])
  BY AnswersTyped DEF ServeMeta
<1> DEFINE part == [answer |-> answer, of |-> doc[Target]]
           k == [push[p] EXCEPT !.meta = part]
<1>5. part \in Parts /\ part.of = doc[Target]
  BY <1>3 DEF Parts
<1>6. Become(p, k)
  BY <1>4
<1> HIDE DEF part
<1>7. /\ k \in Pushes /\ k.at = "reading" /\ k.step = push[p].step /\ k.base = push[p].base
      /\ k.content = push[p].content /\ k.meta = part
  BY <1>1, <1>3, <1>5 DEF Pushes
<1> HIDE DEF k
<1>8. /\ push' \in [Pushers -> Pushes] /\ push'[p] = k
      /\ \A q \in Pushers \ {p} : push'[q] = push[q]
  BY <1>1, <1>6, <1>7, Becomes
<1>9. /\ MetaPinned(part.of.metaRev, part.of.custom, doc[Target], clock)
      /\ Held(part.of.custom, "meta", doc[Target].custom, buried)
  BY <1>1, <1>5 DEF MetaPinned, Held, Shaped, Grounded
<1>10. Knows(p)'
  BY <1>1, <1>2, <1>7, <1>8, <1>9 DEF Knows, Reading, Acked, Doing
<1> QED
  BY <1>2, <1>8, <1>10, Unreported DEF Upheld, PushKept

(* The state that get puts together: each part keeps its own validator.    *)
LEMMA MasterPinned ==
    ASSUME Shaped, NEW content \in Parts, NEW meta \in Parts,
           ContentPinned(content.of.rev, content.of.data, doc[Target], clock),
           meta.answer = Ok => MetaPinned(meta.of.metaRev, meta.of.custom, doc[Target], clock)
    PROVE  LET base == Master(content, meta)
           IN /\ base \in Bases /\ Pinned(base, doc[Target], clock) /\ base.live
              /\ base.data = content.of.data
              /\ base.custom = IF meta.answer = Ok THEN meta.of.custom ELSE {}
<1> DEFINE base == Master(content, meta)
<1>1. content.of \in Resources /\ meta.of \in Resources
  BY DEF Parts
<1>2. Nothing \in Bases /\ Nothing.metaEtag = 0 /\ Nothing.custom = {}
      /\ Pinned(Nothing, doc[Target], clock)
  BY NothingPinned DEF Nothing
<1>3. /\ base \in Bases /\ base.live
      /\ base.etag = content.of.rev /\ base.data = content.of.data
      /\ base.metaEtag = IF meta.answer = Ok THEN meta.of.metaRev ELSE 0
      /\ base.custom = IF meta.answer = Ok THEN meta.of.custom ELSE {}
  BY <1>1, <1>2 DEF Master, Bases, Resources
<1> HIDE DEF base
<1>4. MetaPinned(0, {}, doc[Target], clock)
  BY <1>2 DEF Pinned
<1>5. Pinned(base, doc[Target], clock)
  BY <1>3, <1>4 DEF Pinned
<1> QED
  BY <1>3, <1>5 DEF base

(* An edit is reported done.                                               *)
LEMMA Reported ==
    ASSUME IInv, Serves, NEW p \in Pushers, kept' = kept \union {<<p, Doing(p)>>},
           Doing(p) = "put" => Held({p}, "put", doc'[Target].data, buried'),
           Doing(p) = "meta" => Held({p}, "meta", doc'[Target].custom, buried')
    PROVE  EditsKept'
<1> DEFINE more == {<<p, Doing(p)>>}
<1>1. ASSUME NEW q \in Pushers, NEW kind \in {"put", "meta"}, <<q, kind>> \in more
      PROVE  q = p /\ Doing(p) = kind
  BY <1>1
<1>2. kept' = kept \union more
  OBVIOUS
<1> HIDE DEF more
<1>3. \A q \in Pushers :
        /\ <<q, "put">> \in more => Held({q}, "put", doc'[Target].data, buried')
        /\ <<q, "meta">> \in more => Held({q}, "meta", doc'[Target].custom, buried')
  BY <1>1
<1> QED
  BY <1>2, <1>3, KeptStays

(* The answers of get settle: the edit is dropped, found already made, or  *)
(* sent from what they show.                                               *)
LEMMA SettleGetKept ==
    ASSUME IInv, NEW p \in Pushers, SettleGet(p)
    PROVE  Upheld(p)
<1> DEFINE content == push[p].content
           meta == push[p].meta
<1>1. Shaped /\ Knows(p) /\ push[p].at = "reading" /\ content # None
  BY DEF IInv, SettleGet
<1>2. Serves /\ UNCHANGED <<doc, clock, buried>>
  BY <1>1, Still DEF SettleGet, feedVars, server
<1>3. content \in Parts /\ meta \in {None} \union Parts /\ Doing(p) \in Edits
  BY <1>1, Typed DEF Pushes, Knows
<1>4. CASE (Settled(p, Nothing) \/ Rebased(p, Nothing)) /\ UNCHANGED kept
  <2>1. PushKept(p)
    BY <1>1, <1>2, <1>4, NothingPinned, SettledKept
  <2> QED
    BY <1>2, <1>4, <2>1, Unreported DEF Upheld
<1>5. CASE Stopped(p) /\ UNCHANGED kept
  BY <1>1, <1>2, <1>5, StoppedKept, Unreported DEF Upheld
<1>6. CASE content.answer = Ok /\ meta # None /\ ReadBack(p, Master(content, meta))
  <2> DEFINE base == Master(content, meta)
  <2>1. /\ ContentPinned(content.of.rev, content.of.data, doc[Target], clock)
        /\ Held(content.of.data, "put", doc[Target].data, buried)
        /\ meta.answer = Ok =>
             /\ MetaPinned(meta.of.metaRev, meta.of.custom, doc[Target], clock)
             /\ Held(meta.of.custom, "meta", doc[Target].custom, buried)
    BY <1>1, <1>6 DEF Knows, Reading
  <2>2. /\ base \in Bases /\ Pinned(base, doc[Target], clock) /\ base.live
        /\ base.data = content.of.data
        /\ base.custom = IF meta.answer = Ok THEN meta.of.custom ELSE {}
    <3> HIDE DEF content, meta
    <3> QED
      BY <1>1, <1>3, <1>6, <2>1, MasterPinned
  <2> HIDE DEF base
  <2>3. PushKept(p)
    BY <1>1, <1>2, <1>6, <2>2, SettledKept DEF ReadBack, base
  <2>4. CASE ~Shows(p, base)
    BY <1>2, <1>6, <2>3, <2>4, Unreported DEF Upheld, ReadBack, base
  <2>5. CASE Shows(p, base)
    <3>1. kept' = kept \union {<<p, Doing(p)>>}
      BY <1>6, <2>5 DEF ReadBack, base
    <3>2. Doing(p) = "put" => p \in content.of.data
      BY <2>2, <2>5 DEF Shows
    <3>3. Doing(p) = "meta" => p \in meta.of.custom /\ meta.answer = Ok
      BY <2>2, <2>5 DEF Shows
    <3>4. /\ Doing(p) = "put" => Held({p}, "put", doc'[Target].data, buried')
          /\ Doing(p) = "meta" => Held({p}, "meta", doc'[Target].custom, buried')
      BY <1>2, <2>1, <3>2, <3>3 DEF Held
    <3> QED
      BY <1>2, <2>3, <3>1, <3>4, Reported DEF Upheld
  <2> QED
    BY <2>4, <2>5
<1> QED
  BY <1>4, <1>5, <1>6 DEF SettleGet
-----------------------------------------------------------------------------
(* What a write makes of the Resource.                                     *)

LEMMA PutOver ==
    ASSUME NEW tick \in Nat, NEW now, Grounded(now, tick), now.live, NEW p \in Pushers, NEW gone
    PROVE  LET next == [now EXCEPT !.rev = tick + 1, !.json = TRUE, !.data = now.data \union {p}]
           IN /\ next \in Resources /\ Evolves(now, next, tick, tick + 1, gone, gone)
              /\ ContentPinned(tick + 1, now.data \union {p}, next, tick + 1)
              /\ Held({p}, "put", next.data, gone)
<1> DEFINE next == [now EXCEPT !.rev = tick + 1, !.json = TRUE, !.data = now.data \union {p}]
<1>1. now \in Resources /\ now.rev <= tick /\ now.metaRev <= tick /\ tick + 1 \in Nat
      /\ (now.metaRev = 0 => now.custom = {})
  BY DEF Grounded
<1>2. /\ next \in Resources /\ next.rev = tick + 1 /\ next.live
      /\ next.data = now.data \union {p} /\ next.metaRev = now.metaRev /\ next.custom = now.custom
  BY <1>1 DEF Resources
<1> HIDE DEF next
<1>3. now.metaRev \in Nat
  BY <1>1 DEF Resources
<1>4. Grounded(next, tick + 1)
  BY <1>1, <1>2, <1>3 DEF Grounded
<1>5. Evolves(now, next, tick, tick + 1, gone, gone)
  BY <1>1, <1>2, <1>4 DEF Evolves, Held
<1> QED
  BY <1>2, <1>5 DEF ContentPinned, Held, next

LEMMA PutNew ==
    ASSUME NEW tick \in Nat, NEW now, Grounded(now, tick), ~now.live, NEW p \in Pushers, NEW gone
    PROVE  LET next == [Absence EXCEPT !.rev = tick + 1, !.live = TRUE, !.data = {p},
                                       !.metaRev = tick + 1]
           IN /\ next \in Resources /\ Evolves(now, next, tick, tick + 1, gone, gone)
              /\ ContentPinned(tick + 1, {p}, next, tick + 1)
              /\ Held({p}, "put", next.data, gone)
<1> DEFINE next == [Absence EXCEPT !.rev = tick + 1, !.live = TRUE, !.data = {p},
                                   !.metaRev = tick + 1]
<1>1. now.data = {} /\ now.custom = {} /\ tick + 1 \in Nat
  BY DEF Grounded
<1>2. /\ next \in Resources /\ next.rev = tick + 1 /\ next.live /\ next.data = {p}
      /\ next.metaRev = tick + 1 /\ next.custom = {}
  BY <1>1 DEF Resources, Absence
<1> HIDE DEF next
<1>3. Grounded(next, tick + 1)
  BY <1>1, <1>2 DEF Grounded
<1>4. Evolves(now, next, tick, tick + 1, gone, gone)
  BY <1>1, <1>2, <1>3 DEF Evolves, Held
<1> QED
  BY <1>2, <1>4 DEF ContentPinned, Held, next

LEMMA MetaOver ==
    ASSUME NEW tick \in Nat, NEW now, Grounded(now, tick), now.live, NEW p \in Pushers, NEW gone
    PROVE  LET next == [now EXCEPT !.metaRev = tick + 1, !.custom = now.custom \union {p}]
           IN /\ next \in Resources /\ Evolves(now, next, tick, tick + 1, gone, gone)
              /\ MetaPinned(tick + 1, now.custom \union {p}, next, tick + 1)
              /\ Held({p}, "meta", next.custom, gone)
<1> DEFINE next == [now EXCEPT !.metaRev = tick + 1, !.custom = now.custom \union {p}]
<1>1. now \in Resources /\ now.rev <= tick /\ now.metaRev <= tick /\ tick + 1 \in Nat
  BY DEF Grounded
<1>2. /\ next \in Resources /\ next.rev = now.rev /\ next.live /\ next.data = now.data
      /\ next.metaRev = tick + 1 /\ next.custom = now.custom \union {p}
  BY <1>1 DEF Resources
<1> HIDE DEF next
<1>3. now.rev \in Nat
  BY <1>1 DEF Resources
<1>4. Grounded(next, tick + 1)
  BY <1>1, <1>2, <1>3 DEF Grounded
<1>5. Evolves(now, next, tick, tick + 1, gone, gone)
  BY <1>1, <1>2, <1>4 DEF Evolves, Held
<1> QED
  BY <1>2, <1>5 DEF MetaPinned, Held, next

LEMMA BinaryOver ==
    ASSUME NEW tick \in Nat, NEW now, Grounded(now, tick), now.live, NEW gone
    PROVE  LET next == [now EXCEPT !.json = FALSE, !.rev = tick + 1]
           IN Evolves(now, next, tick, tick + 1, gone, gone)
<1> DEFINE next == [now EXCEPT !.json = FALSE, !.rev = tick + 1]
<1>1. now \in Resources /\ now.rev <= tick /\ now.metaRev <= tick /\ tick + 1 \in Nat
      /\ (now.metaRev = 0 => now.custom = {})
  BY DEF Grounded
<1>2. /\ next \in Resources /\ next.rev = tick + 1 /\ next.live /\ next.data = now.data
      /\ next.metaRev = now.metaRev /\ next.custom = now.custom
  BY <1>1 DEF Resources
<1> HIDE DEF next
<1>3. now.metaRev \in Nat
  BY <1>1 DEF Resources
<1>4. Grounded(next, tick + 1)
  BY <1>1, <1>2, <1>3 DEF Grounded
<1>5. Evolves(now, next, tick, tick + 1, gone, gone)
  BY <1>1, <1>2, <1>4 DEF Evolves, Held
<1> QED
  BY <1>5 DEF next

LEMMA DeleteOver ==
    ASSUME NEW tick \in Nat, NEW now, Grounded(now, tick), NEW gone, NEW after,
           after = gone \union {<<q, "put">> : q \in now.data}
                        \union {<<q, "meta">> : q \in now.custom}
    PROVE  LET next == [now EXCEPT !.rev = tick + 1, !.live = FALSE, !.data = {}, !.custom = {}]
           IN next \in Resources /\ Evolves(now, next, tick, tick + 1, gone, after)
<1> DEFINE next == [now EXCEPT !.rev = tick + 1, !.live = FALSE, !.data = {}, !.custom = {}]
<1>1. now \in Resources /\ now.rev <= tick /\ now.metaRev <= tick /\ tick + 1 \in Nat
  BY DEF Grounded
<1>2. /\ next \in Resources /\ next.rev = tick + 1 /\ ~next.live /\ next.data = {}
      /\ next.metaRev = now.metaRev /\ next.custom = {}
  BY <1>1 DEF Resources
<1> HIDE DEF next
<1>3. now.metaRev \in Nat
  BY <1>1 DEF Resources
<1>4. Grounded(next, tick + 1)
  BY <1>1, <1>2, <1>3 DEF Grounded
<1>5. /\ \A q \in now.data : <<q, "put">> \in after
      /\ \A q \in now.custom : <<q, "meta">> \in after
      /\ gone \subseteq after
  OBVIOUS
<1>6. Evolves(now, next, tick, tick + 1, gone, after)
  BY <1>1, <1>2, <1>4, <1>5 DEF Evolves, Held
<1> QED
  BY <1>2, <1>6 DEF next
-----------------------------------------------------------------------------
(* The write, its answer, and what else is done.                           *)

(* The state a write acknowledged at revision rev leaves its pusher with.  *)
AckAt(p, rev) ==
    LET base == push[p].base
    IN CASE Doing(p) = "put" /\ base.live ->
              [base EXCEPT !.etag = rev, !.stamp = rev, !.data = @ \union {p}]
         [] Doing(p) = "put" /\ ~base.live ->
              [Nothing EXCEPT !.live = TRUE, !.etag = rev, !.stamp = rev, !.data = {p}]
         [] Doing(p) = "meta" -> [base EXCEPT !.metaEtag = rev, !.custom = @ \union {p}]
         [] OTHER -> Nothing

(* A write that is applied.                                                *)
LEMMA Applied ==
    ASSUME IInv, NEW p \in Pushers, push[p].at = "sent", Doing(p) # "put" => doc[Target].live,
           Precondition(p), NEW after,
           after = IF Doing(p) # "delete" THEN buried
                   ELSE buried \union {<<q, "put">> : q \in push[p].base.data}
                               \union {<<q, "meta">> : q \in doc[Target].custom}
    PROVE  /\ Effect(p) \in Resources
           /\ Evolves(doc[Target], Effect(p), clock, clock + 1, buried, after)
           /\ Pinned(AckAt(p, clock + 1), Effect(p), clock + 1)
           /\ Doing(p) = "put" => Held({p}, "put", Effect(p).data, after)
           /\ Doing(p) = "meta" => Held({p}, "meta", Effect(p).custom, after)
<1> DEFINE now == doc[Target]
           base == push[p].base
           next == Effect(p)
           ack == AckAt(p, clock + 1)
<1>1. /\ base \in Bases /\ now \in Resources /\ clock \in Nat /\ Grounded(now, clock)
      /\ Pinned(base, now, clock) /\ Doing(p) \in Edits
  BY Typed DEF IInv, Knows, Shaped
<1>2. base.etag \in Nat /\ base.metaEtag \in Nat
  BY <1>1 DEF Bases
<1>3. CASE Doing(p) = "put" /\ now.live
  <2>1. base.live /\ base.etag = now.rev
    BY <1>3 DEF Precondition
  <2>2. base.data = now.data
    BY <1>1, <1>3, <2>1 DEF Pinned, ContentPinned
  <2>3. next = [now EXCEPT !.rev = clock + 1, !.json = TRUE, !.data = now.data \union {p}]
    BY <1>3, <2>2 DEF Effect
  <2>4. ack = [base EXCEPT !.etag = clock + 1, !.stamp = clock + 1, !.data = base.data \union {p}]
    BY <1>3, <2>1 DEF AckAt
  <2>5. /\ ack.etag = clock + 1 /\ ack.data = now.data \union {p}
        /\ ack.metaEtag = base.metaEtag /\ ack.custom = base.custom
    BY <1>1, <2>2, <2>4 DEF Bases
  <2>6. after = buried
    BY <1>3
  <2> HIDE DEF ack, next, now
  <2>7. /\ next \in Resources /\ Evolves(now, next, clock, clock + 1, buried, after)
        /\ ContentPinned(clock + 1, now.data \union {p}, next, clock + 1)
        /\ Held({p}, "put", next.data, after)
    BY <1>1, <1>3, <2>3, <2>6, PutOver
  <2>8. MetaPinned(base.metaEtag, base.custom, next, clock + 1)
    BY <1>1, <1>2, <2>7, PinnedStays DEF Pinned
  <2>9. Pinned(ack, next, clock + 1)
    BY <2>5, <2>7, <2>8 DEF Pinned
  <2> QED
    BY <1>3, <2>7, <2>9 DEF ack, next, now
<1>4. CASE Doing(p) = "put" /\ ~now.live
  <2>1. ~base.live
    BY <1>4 DEF Precondition
  <2>2. next = [Absence EXCEPT !.rev = clock + 1, !.live = TRUE, !.data = {p},
                               !.metaRev = clock + 1]
    BY <1>4 DEF Effect
  <2>3. ack = [Nothing EXCEPT !.live = TRUE, !.etag = clock + 1, !.stamp = clock + 1, !.data = {p}]
    BY <1>4, <2>1 DEF AckAt
  <2>4. ack.etag = clock + 1 /\ ack.data = {p} /\ ack.metaEtag = 0 /\ ack.custom = {}
    BY <2>3 DEF Nothing
  <2>5. after = buried
    BY <1>4
  <2> HIDE DEF ack, next, now
  <2>6. /\ next \in Resources /\ Evolves(now, next, clock, clock + 1, buried, after)
        /\ ContentPinned(clock + 1, {p}, next, clock + 1)
        /\ Held({p}, "put", next.data, after)
    BY <1>1, <1>4, <2>2, <2>5, PutNew
  <2>7. MetaPinned(0, {}, next, clock + 1)
    BY <1>1, <2>6 DEF MetaPinned, Evolves, Grounded
  <2>8. Pinned(ack, next, clock + 1)
    BY <2>4, <2>6, <2>7 DEF Pinned
  <2> QED
    BY <1>4, <2>6, <2>8 DEF ack, next, now
<1>5. CASE Doing(p) = "meta"
  <2>1. now.live /\ base.metaEtag = now.metaRev
    BY <1>5 DEF Precondition
  <2>2. base.custom = now.custom
    BY <1>1, <2>1 DEF Pinned, MetaPinned
  <2>3. next = [now EXCEPT !.metaRev = clock + 1, !.custom = now.custom \union {p}]
    BY <1>5, <2>2 DEF Effect
  <2>4. ack = [base EXCEPT !.metaEtag = clock + 1, !.custom = base.custom \union {p}]
    BY <1>5 DEF AckAt
  <2>5. /\ ack.metaEtag = clock + 1 /\ ack.custom = now.custom \union {p}
        /\ ack.etag = base.etag /\ ack.data = base.data /\ ack.live = base.live
    BY <1>1, <2>2, <2>4 DEF Bases
  <2>6. after = buried
    BY <1>5
  <2> HIDE DEF ack, next, now
  <2>7. now.live /\ Grounded(now, clock) /\ clock \in Nat
    BY <1>1, <2>1
  <2>8. /\ next \in Resources /\ Evolves(now, next, clock, clock + 1, buried, buried)
        /\ MetaPinned(clock + 1, now.custom \union {p}, next, clock + 1)
        /\ Held({p}, "meta", next.custom, buried)
    BY <2>3, <2>7, MetaOver
  <2>9. base.live => ContentPinned(base.etag, base.data, next, clock + 1)
    BY <1>1, <1>2, <2>8, PinnedStays DEF Pinned
  <2>10. Pinned(ack, next, clock + 1)
    BY <2>5, <2>8, <2>9 DEF Pinned
  <2> QED
    BY <1>5, <2>8, <2>10 DEF ack, next, now
<1>6. CASE Doing(p) = "delete"
  <2>1. base.live /\ base.etag = now.rev
    BY <1>6 DEF Precondition
  <2>2. base.data = now.data
    BY <1>1, <1>6, <2>1 DEF Pinned, ContentPinned
  <2>3. next = [now EXCEPT !.rev = clock + 1, !.live = FALSE, !.data = {}, !.custom = {}]
    BY <1>6 DEF Effect
  <2>4. ack = Nothing /\ ~Nothing.live /\ Nothing.metaEtag = 0 /\ Nothing.custom = {}
    BY <1>6 DEF AckAt, Nothing
  <2>5. after = buried \union {<<q, "put">> : q \in now.data}
                       \union {<<q, "meta">> : q \in now.custom}
    BY <1>6, <2>2
  <2> HIDE DEF ack, next, now, Nothing
  <2>6. next \in Resources /\ Evolves(now, next, clock, clock + 1, buried, after)
    BY <1>1, <2>3, <2>5, DeleteOver
  <2>7. MetaPinned(0, {}, next, clock + 1)
    BY <1>1, <2>6 DEF MetaPinned, Evolves, Grounded
  <2>8. Pinned(ack, next, clock + 1)
    BY <2>4, <2>7 DEF Pinned
  <2> QED
    BY <1>6, <2>6, <2>8 DEF ack, next, now
<1> QED
  BY <1>1, <1>3, <1>4, <1>5, <1>6 DEF Edits

(* A write is answered.                                                    *)
LEMMA AnsweredKept ==
    ASSUME IInv, Serves, NEW p \in Pushers, push[p].at = "sent", NEW answer \in Answers,
           Become(p, [push[p] EXCEPT !.at = "answered", !.got = [answer |-> answer, rev |-> clock']]),
           answer = Ok =>
             /\ Pinned(AckAt(p, clock'), doc'[Target], clock')
             /\ Doing(p) = "put" => Held({p}, "put", doc'[Target].data, buried')
             /\ Doing(p) = "meta" => Held({p}, "meta", doc'[Target].custom, buried')
    PROVE  PushKept(p)
<1> DEFINE got == [answer |-> answer, rev |-> clock']
           k == [push[p] EXCEPT !.at = "answered", !.got = got]
<1>1. Shaped /\ Knows(p) /\ push[p] \in Pushes /\ push[p].base \in Bases /\ clock \in Nat
      /\ Evolves(doc[Target], doc'[Target], clock, clock', buried, buried')
  BY Typed DEF IInv, Serves
<1>2. got \in Acks /\ got.rev = clock' /\ got.answer = answer
  BY <1>1 DEF Acks, Evolves
<1>3. Become(p, k)
  OBVIOUS
<1> HIDE DEF got
<1>4. /\ k \in Pushes /\ k.at = "answered" /\ k.step = push[p].step /\ k.base = push[p].base
      /\ k.content = push[p].content /\ k.meta = push[p].meta /\ k.got = got
  BY <1>1, <1>2 DEF Pushes
<1> HIDE DEF k
<1>5. /\ push' \in [Pushers -> Pushes] /\ push'[p] = k
      /\ \A q \in Pushers \ {p} : push'[q] = push[q]
  BY <1>1, <1>3, <1>4, Becomes
<1>6. Doing(p)' = Doing(p) /\ Ack(p)' = AckAt(p, clock')
  BY <1>2, <1>4, <1>5 DEF Doing, Ack, AckAt
<1>7. Pinned(push[p].base, doc'[Target], clock') /\ Doing(p) \in Edits
  BY <1>1, BaseStays DEF Knows
<1>8. Reading(p)'
  BY <1>1, <1>4, <1>5, ReadingStays DEF Knows
<1>9. Acked(p)'
  BY <1>2, <1>4, <1>5, <1>6 DEF Acked
<1> QED
  BY <1>4, <1>5, <1>6, <1>7, <1>8, <1>9 DEF PushKept, Knows

(* A step that takes a pusher on, or back, with what it knows.             *)
LEMMA TurnedKept ==
    ASSUME Shaped, NEW p \in Pushers, Knows(p), Doing(p) \in Edits, UNCHANGED <<doc, clock, buried>>,
           NEW at \in {"unread", "sent"}, Become(p, [push[p] EXCEPT !.at = at])
    PROVE  PushKept(p)
<1> DEFINE k == [push[p] EXCEPT !.at = at]
<1>1. push[p] \in Pushes
  BY Typed
<1>2. /\ k \in Pushes /\ k.at = at /\ k.step = push[p].step /\ k.base = push[p].base
      /\ k.content = push[p].content /\ k.meta = push[p].meta
  BY <1>1 DEF Pushes
<1>3. Become(p, k)
  OBVIOUS
<1> HIDE DEF k
<1>4. /\ push' \in [Pushers -> Pushes] /\ push'[p] = k
      /\ \A q \in Pushers \ {p} : push'[q] = push[q]
  BY <1>2, <1>3, Becomes
<1>5. Doing(p)' = Doing(p) /\ push'[p].at # "answered"
  BY <1>2, <1>4 DEF Doing
<1> QED
  BY <1>2, <1>4, <1>5 DEF PushKept, Knows, Reading, Acked

(* The next edit is sent, or has nothing to change.                        *)
LEMMA SendKept ==
    ASSUME IInv, NEW p \in Pushers, Send(p)
    PROVE  Upheld(p)
<1>1. Shaped /\ Knows(p) /\ Pending(p)
  BY DEF IInv, Send
<1>2. Serves /\ UNCHANGED <<doc, clock, buried, kept>>
  BY <1>1, Still DEF Send, feedVars, server
<1>3. Doing(p) \in Edits
  BY <1>1, DoingEdit
<1>4. CASE Settled(p, Nothing)
  BY <1>1, <1>2, <1>4, NothingPinned, SettledKept, Unreported DEF Upheld
<1>5. CASE Become(p, [push[p] EXCEPT !.at = "sent"])
  BY <1>1, <1>2, <1>3, <1>5, TurnedKept, Unreported DEF Upheld
<1> QED
  BY <1>4, <1>5 DEF Send

(* The server answers a write: refused, or applied.                        *)
LEMMA ServeWriteKept ==
    ASSUME IInv, NEW p \in Pushers, ServeWrite(p)
    PROVE  Upheld(p)
<1> DEFINE Got(answer) ==
             Become(p, [push[p] EXCEPT !.at = "answered", !.got = [answer |-> answer, rev |-> clock']])
           vanished == Doing(p) # "put" /\ ~doc[Target].live
<1>1. Shaped /\ Knows(p) /\ push[p].at = "sent" /\ UNCHANGED kept
  BY DEF IInv, ServeWrite
<1>2. ASSUME UNCHANGED <<doc, clock, buried>>, NEW answer \in Answers, answer # Ok, Got(answer)
      PROVE  Upheld(p)
  <2>1. Serves
    BY <1>1, <1>2, Still
  <2>2. PushKept(p)
    BY <1>1, <1>2, <2>1, AnsweredKept
  <2> QED
    BY <1>1, <2>1, <2>2, Unreported DEF Upheld
<1>3. ASSUME ~vanished, Precondition(p),
             doc' = [doc EXCEPT ![Target] = Effect(p)], clock' = clock + 1,
             buried' = IF Doing(p) # "delete" THEN buried
                       ELSE buried \union {<<q, "put">> : q \in push[p].base.data}
                                   \union {<<q, "meta">> : q \in doc[Target].custom},
             NEW answer \in Answers, Got(answer)
      PROVE  Upheld(p)
  <2>1. doc \in [Ids -> Resources] /\ Target \in Ids
    BY <1>1, Typed DEF Shaped
  <2>2. /\ Effect(p) \in Resources
        /\ Evolves(doc[Target], Effect(p), clock, clock + 1, buried, buried')
        /\ Pinned(AckAt(p, clock + 1), Effect(p), clock + 1)
        /\ Doing(p) = "put" => Held({p}, "put", Effect(p).data, buried')
        /\ Doing(p) = "meta" => Held({p}, "meta", Effect(p).custom, buried')
    BY <1>1, <1>3, Applied
  <2>3. doc' \in [Ids -> Resources] /\ doc'[Target] = Effect(p)
    BY <1>3, <2>1, <2>2
  <2>4. Serves
    BY <1>3, <2>2, <2>3 DEF Serves
  <2>5. PushKept(p)
    BY <1>1, <1>3, <2>2, <2>3, <2>4, AnsweredKept
  <2> QED
    BY <1>1, <2>4, <2>5, Unreported DEF Upheld
<1>4. CASE Shut(p) /\ UNCHANGED <<doc, clock, buried>> /\ \E denial \in Denials : Got(denial)
  BY <1>2, <1>4, AnswersTyped
<1>5. CASE UNCHANGED <<doc, clock, buried>> /\ Got(Answer(404, "not-found"))
  BY <1>2, <1>5, AnswersTyped
<1>6. CASE UNCHANGED <<doc, clock, buried>> /\ Got(Answer(412, "precondition-failed"))
  BY <1>2, <1>6, AnswersTyped
<1>7. CASE /\ ~vanished /\ Precondition(p)
           /\ doc' = [doc EXCEPT ![Target] = Effect(p)] /\ clock' = clock + 1
           /\ buried' = IF Doing(p) # "delete" THEN buried
                        ELSE buried \union {<<q, "put">> : q \in push[p].base.data}
                                    \union {<<q, "meta">> : q \in doc[Target].custom}
           /\ Got(Ok) \/ Got(NoAnswer)
  BY <1>3, <1>7, AnswersTyped
<1> HIDE DEF Got, vanished
<1> QED
  BY <1>4, <1>5, <1>6, <1>7 DEF ServeWrite, Got, vanished

(* The answer to a write settles: the edit is reported done, dropped, sent *)
(* again, or looked up.                                                    *)
LEMMA SettleWriteKept ==
    ASSUME IInv, NEW p \in Pushers, SettleWrite(p)
    PROVE  Upheld(p)
<1>1. Shaped /\ Knows(p) /\ push[p].at = "answered"
  BY DEF IInv, SettleWrite
<1>2. Serves /\ UNCHANGED <<doc, clock, buried>>
  BY <1>1, Still DEF SettleWrite, feedVars, server
<1>3. Doing(p) \in Edits /\ push[p].got \in Acks
  BY <1>1 DEF Knows, Acked
<1>4. CASE push[p].got.answer = Ok /\ Settled(p, Ack(p)) /\ kept' = kept \union {<<p, Doing(p)>>}
  <2>1. /\ Pinned(Ack(p), doc[Target], clock)
        /\ Doing(p) = "put" => Held({p}, "put", doc[Target].data, buried)
        /\ Doing(p) = "meta" => Held({p}, "meta", doc[Target].custom, buried)
    BY <1>1, <1>4 DEF Knows, Acked
  <2>2. Ack(p) \in Bases
    BY <1>1, <1>3, AckTyped
  <2>3. PushKept(p)
    BY <1>1, <1>2, <1>4, <2>1, <2>2, SettledKept
  <2>4. EditsKept'
    BY <1>2, <1>4, <2>1, Reported
  <2> QED
    BY <1>2, <2>3, <2>4 DEF Upheld
<1>5. CASE Become(p, [push[p] EXCEPT !.at = "sent"]) /\ UNCHANGED kept
  BY <1>1, <1>2, <1>3, <1>5, TurnedKept, Unreported DEF Upheld
<1>6. CASE Become(p, [push[p] EXCEPT !.at = "unread"]) /\ UNCHANGED kept
  BY <1>1, <1>2, <1>3, <1>6, TurnedKept, Unreported DEF Upheld
<1>7. CASE Settled(p, Nothing) /\ UNCHANGED kept
  BY <1>1, <1>2, <1>7, NothingPinned, SettledKept, Unreported DEF Upheld
<1>8. CASE Stopped(p) /\ UNCHANGED kept
  BY <1>1, <1>2, <1>8, StoppedKept, Unreported DEF Upheld
<1> QED
  BY <1>4, <1>5, <1>6, <1>7, <1>8 DEF SettleWrite

(* Other clients write, the server is restored, a capability is revoked.   *)
LEMMA ForeignServes ==
    ASSUME IInv, Foreign
    PROVE  Serves /\ UNCHANGED <<push, kept>>
<1>1. Shaped /\ UNCHANGED <<push, kept, buried>> /\ Others
  BY DEF IInv, Foreign
<1>2. CASE UNCHANGED <<doc, clock>>
  BY <1>1, <1>2, Still
<1>3. /\ doc \in [Ids -> Resources] /\ clock \in Nat /\ Target \in Ids
      /\ Grounded(doc[Target], clock) /\ doc[Target] \in Resources
  BY <1>1, PushersTyped DEF PushersTyped, Shaped
<1>4. doc[Target].rev \in Nat /\ doc[Target].metaRev \in Nat
  BY <1>3 DEF Resources
<1>5. CASE UNCHANGED doc /\ clock' = clock + 1
  <2>1. Grounded(doc[Target], clock + 1)
    BY <1>3, <1>4 DEF Grounded
  <2> QED
    BY <1>1, <1>3, <1>5, <2>1 DEF Serves, Evolves, Held
<1>6. ASSUME NEW i \in Ids, doc[i].live,
             doc' = [doc EXCEPT ![i].json = FALSE, ![i].rev = clock + 1], clock' = clock + 1
      PROVE  Serves
  <2> DEFINE next == [doc[i] EXCEPT !.json = FALSE, !.rev = clock + 1]
  <2>1. doc[i] \in Resources
    BY <1>3
  <2>2. doc' = [doc EXCEPT ![i] = next]
    BY <1>3, <1>6, <2>1 DEF Resources
  <2>3. next \in Resources
    <3> DEFINE was == doc[i]
               tick == clock
    <3>1. was \in Resources /\ tick + 1 \in Nat /\ next = [was EXCEPT !.json = FALSE, !.rev = tick + 1]
      BY <1>3, <2>1
    <3> HIDE DEF was, tick, next
    <3> QED
      BY <3>1 DEF Resources
  <2>4. doc' \in [Ids -> Resources] /\ doc'[Target] = IF Target = i THEN next ELSE doc[Target]
    BY <1>3, <2>2, <2>3
  <2>5. CASE Target = i
    <3> DEFINE now == doc[Target]
               after == doc'[Target]
    <3>1. Grounded(now, clock) /\ now.live /\ clock \in Nat
          /\ after = [now EXCEPT !.json = FALSE, !.rev = clock + 1]
      BY <1>3, <1>6, <2>4, <2>5
    <3> HIDE DEF now, after
    <3>2. Evolves(now, after, clock, clock + 1, buried, buried)
      BY <3>1, BinaryOver
    <3> QED
      BY <1>1, <1>3, <1>6, <2>4, <3>2 DEF Serves, now, after
  <2>6. CASE Target # i
    <3>1. Grounded(doc[Target], clock + 1)
      BY <1>3, <1>4 DEF Grounded
    <3>2. doc'[Target] = doc[Target]
      BY <2>4, <2>6
    <3> QED
      BY <1>1, <1>3, <1>6, <2>4, <3>1, <3>2 DEF Serves, Evolves, Held
  <2> QED
    BY <2>5, <2>6
<1> QED
  BY <1>1, <1>2, <1>5, <1>6 DEF Others

(* A replica or a reader walks on.                                         *)
LEMMA PollServes ==
    ASSUME IInv, NEW w \in Walkers, Poll(w)
    PROVE  Serves /\ UNCHANGED <<push, kept>>
<1>1. Shaped /\ UNCHANGED <<push, kept, buried>> /\ Walk(w)
  BY DEF IInv, Poll
<1>2. UNCHANGED <<doc, clock>>
  BY <1>1 DEF Walk, StartQuery, StartDocuments, ServePage, SettleQuery, SettleDocuments, server
<1> QED
  BY <1>1, <1>2, Still
-----------------------------------------------------------------------------
(* The invariant.                                                          *)

LEMMA Served ==
    ASSUME Serves, push' \in [Pushers -> Pushes]
    PROVE  Shaped'
  BY DEF Serves, Evolves, Shaped

(* A step of another, or a pusher's own, upholds the invariant.            *)
LEMMA ElsewhereKept ==
    ASSUME IInv, Serves, UNCHANGED <<push, kept>>
    PROVE  IInv'
<1>1. Shaped /\ \A p \in Pushers : Knows(p)
  BY DEF IInv
<1>2. Shaped'
  BY <1>1, Served DEF Shaped
<1>3. \A p \in Pushers : Knows(p)'
  BY <1>1, KnowsStays
<1> QED
  BY <1>2, <1>3, Unreported DEF IInv

LEMMA UpheldKept ==
    ASSUME IInv, NEW p \in Pushers, Upheld(p)
    PROVE  IInv'
<1>1. Shaped /\ \A q \in Pushers : Knows(q)
  BY DEF IInv
<1>2. Shaped' /\ EditsKept'
  BY Served DEF Upheld, PushKept
<1>3. \A q \in Pushers : Knows(q)'
  BY <1>1, KnowsStays DEF Upheld, PushKept
<1> QED
  BY <1>2, <1>3 DEF IInv

LEMMA InitHolds == Init => IInv
<1> SUFFICES ASSUME Init PROVE IInv
  OBVIOUS
<1>1. PICK start \in Initial : doc = start.doc /\ clock = start.clock
  BY DEF Init, FeedInit
<1>2. /\ clock \in Nat /\ doc \in [Ids -> Resources] /\ Target \in Ids
      /\ \A i \in Ids : Grounded(doc[i], clock)
  BY <1>1, InitialGrounded, PushersTyped DEF InitialGrounded, PushersTyped
<1>3. PICK cast \in Casts :
        push = [p \in Pushers |-> IF p \in cast THEN Unasked ELSE [Unasked EXCEPT !.at = "stopped"]]
  BY DEF Init
<1> DEFINE absent == [Unasked EXCEPT !.at = "stopped"]
<1>4. /\ Unasked.at = "unread"
      /\ absent \in Pushes /\ absent.at = "stopped" /\ absent.content = None /\ absent.meta = None
      /\ absent.base = Nothing
  BY UnaskedTyped DEF Pushes, Unasked
<1>5. \A p \in Pushers : push[p] = Unasked \/ push[p] = absent
  BY <1>3
<1> HIDE DEF absent
<1>6. push \in [Pushers -> Pushes]
  BY <1>3, <1>4, UnaskedTyped DEF absent
<1>7. Shaped
  BY <1>2, <1>6 DEF Shaped
<1>8. \A p \in Pushers : Knows(p)
  BY <1>4, <1>5, <1>7, UnaskedTyped, NothingPinned DEF Knows, Reading, Acked
<1>9. EditsKept
  BY DEF Init, EditsKept
<1> QED
  BY <1>7, <1>8, <1>9 DEF IInv

LEMMA StepHolds == IInv /\ [Next]_vars => IInv'
<1> SUFFICES ASSUME IInv, [Next]_vars PROVE IInv'
  OBVIOUS
<1>1. CASE UNCHANGED vars
  BY <1>1, Still, ElsewhereKept DEF IInv, vars, feedVars, server
<1>2. CASE Foreign
  BY <1>2, ForeignServes, ElsewhereKept
<1>3. ASSUME NEW w \in Walkers, Poll(w) PROVE IInv'
  BY <1>3, PollServes, ElsewhereKept
<1>4. ASSUME NEW p \in Pushers, Push(p) PROVE IInv'
  <2>1. Upheld(p)
    BY <1>4, StartGetKept, ServeContentKept, ServeMetaKept, SettleGetKept, SendKept,
       ServeWriteKept, SettleWriteKept DEF Push
  <2> QED
    BY <2>1, UpheldKept
<1> QED
  BY <1>1, <1>2, <1>3, <1>4 DEF Next, Quiet

(* What was reported done stays: an edit whose write was acknowledged, or  *)
(* which a later read showed to be made, is in the Resource or was deleted *)
(* by one who had seen it.                                                 *)
THEOREM ReportsAreTrue == Spec => []EditsKept
<1>1. IInv => EditsKept
  BY DEF IInv
<1> QED
  BY <1>1, InitHolds, StepHolds, PTL DEF Spec
-----------------------------------------------------------------------------
(* The feed.  What a replica or a reader has met of it, up to the point    *)
(* where its walk is, is what the server has there.                        *)

Stamp(resource) == IF resource.rev > resource.metaRev THEN resource.rev ELSE resource.metaRev

(* At or before a point of the feed.                                       *)
Within(stamp, point) == point # None /\ stamp <= point.at

Points == {None} \union [issue : Nat, at : Nat]

(* What a replica holds: every JSON document up to the point.  What a      *)
(* reader holds: the live ones, and none that is not.                      *)
Copied(held, docs, point) ==
    \A i \in Ids : IsJson(docs[i]) /\ Within(Stamp(docs[i]), point) => held[i] = docs[i]

Collected(latest, docs, point) ==
    /\ DOMAIN latest \subseteq Ids
    /\ \A i \in DOMAIN latest : Stamp(docs[i]) > 0
    /\ \A i \in Ids :
         Stamp(docs[i]) > 0 /\ Within(Stamp(docs[i]), point) =>
           /\ i \in DOMAIN latest <=> docs[i].live /\ docs[i].json
           /\ i \in DOMAIN latest => latest[i] = docs[i]

(* What a page with a next checkpoint tells: all there is up to it, unless *)
(* it has moved on since.  One without: there is nothing after the point.  *)
TellsMore(page, docs, point, tick) ==
    /\ page.next \in Points \ {None} /\ page.next.at <= tick
    /\ \A i \in page.ids \ Records :
         /\ i \in Ids /\ Stamp(docs[i]) > 0
         /\ page.of[i] = docs[i] \/ Stamp(docs[i]) > page.next.at
    /\ \A i \in Ids :
         Stamp(docs[i]) > 0 /\ Within(Stamp(docs[i]), page.next) =>
           Within(Stamp(docs[i]), point) \/ i \in page.ids

TellsEnd(page, point) ==
    /\ page.ids = {} /\ page.of \in [Ids -> Resources]
    /\ \A i \in Ids : /\ page.of[i].live => Stamp(page.of[i]) > 0
                      /\ Stamp(page.of[i]) > 0 => Within(Stamp(page.of[i]), point)

Sound(page) == page.answer = Ok /\ ~Malformed(page)

(* A walk, of whatever its fields hold.                                    *)
Formed(r) ==
    r = [at |-> r.at, method |-> r.method, point |-> r.point, pages |-> r.pages, got |-> r.got,
         seen |-> r.seen, latest |-> r.latest]

Numbered ==
    /\ issue \in Nat /\ record \in [Records -> Nat] /\ \A r \in Records : record[r] <= clock
    /\ \A i \in Ids : /\ doc[i].rev <= clock /\ doc[i].metaRev <= clock
                      /\ doc[i].live => doc[i].rev > 0

Meets(w, docs, point) ==
    /\ w \in Replicas => Copied(copy[w], docs, point)
    /\ w \in Readers => Collected(walk[w].latest, docs, point)

Follows(w) ==
    walk[w].at \in {"asked", "got"} =>
      /\ walk[w].point # None => walk[w].point.at <= clock
      /\ Meets(w, doc, walk[w].point)
      /\ walk[w].at = "got" /\ Sound(walk[w].got) =>
           /\ walk[w].got.next # None => TellsMore(walk[w].got, doc, walk[w].point, clock)
           /\ walk[w].got.next = None =>
                TellsEnd(walk[w].got, walk[w].point) /\ Meets(w, walk[w].got.of, walk[w].point)

Stored(w) ==
    /\ checkpoint[w] # None => checkpoint[w].at <= clock
    /\ Copied(copy[w], doc, checkpoint[w])

Feeds ==
    /\ walk = [w \in Walkers |-> walk[w]]
    /\ \A w \in Walkers : Formed(walk[w]) /\ walk[w].point \in Points
    /\ checkpoint \in [Replicas -> Points] /\ copy = [w \in Replicas |-> copy[w]]

FInv ==
    /\ Numbered /\ Feeds
    /\ \A w \in Walkers : Follows(w)
    /\ \A w \in Replicas : Stored(w)
-----------------------------------------------------------------------------
(* Writes leave behind what a walk has passed.                             *)

Advances(docs, next, tick, tock) ==
    /\ tock \in Nat /\ tick <= tock
    /\ \A i \in Ids : next[i] = docs[i] \/ Stamp(next[i]) > tick

LEMMA StampTyped ==
    ASSUME NEW resource \in Resources
    PROVE  /\ Stamp(resource) \in Nat /\ resource.rev \in Nat /\ resource.metaRev \in Nat
           /\ resource.rev <= Stamp(resource) /\ resource.metaRev <= Stamp(resource)
           /\ IsJson(resource) => Stamp(resource) > 0
  BY DEF Resources, Stamp, IsJson

LEMMA WithinTyped ==
    ASSUME NEW point \in Points, point # None
    PROVE  point.at \in Nat
  BY DEF Points

LEMMA CopiedStays ==
    ASSUME NEW docs \in [Ids -> Resources], NEW next \in [Ids -> Resources],
           NEW tick \in Nat, NEW tock, Advances(docs, next, tick, tock),
           NEW point \in Points, point # None => point.at <= tick, NEW held, Copied(held, docs, point)
    PROVE  Copied(held, next, point)
<1> SUFFICES ASSUME NEW i \in Ids, IsJson(next[i]), Within(Stamp(next[i]), point)
             PROVE  held[i] = next[i]
  BY DEF Copied
<1>1. Stamp(next[i]) \in Nat /\ point.at \in Nat /\ point.at <= tick /\ Stamp(next[i]) <= point.at
  BY StampTyped, WithinTyped DEF Within
<1>2. next[i] = docs[i]
  BY <1>1 DEF Advances
<1> QED
  BY <1>2 DEF Copied

LEMMA CollectedStays ==
    ASSUME NEW docs \in [Ids -> Resources], NEW next \in [Ids -> Resources],
           NEW tick \in Nat, NEW tock, Advances(docs, next, tick, tock),
           NEW point \in Points, point # None => point.at <= tick,
           NEW latest, Collected(latest, docs, point)
    PROVE  Collected(latest, next, point)
<1>1. ASSUME NEW i \in Ids, Stamp(docs[i]) > 0 PROVE Stamp(next[i]) > 0
  <2>1. Stamp(docs[i]) \in Nat /\ Stamp(next[i]) \in Nat
    BY StampTyped
  <2> QED
    BY <1>1, <2>1 DEF Advances
<1>2. ASSUME NEW i \in Ids, Within(Stamp(next[i]), point) PROVE next[i] = docs[i]
  <2>1. Stamp(next[i]) \in Nat /\ point.at \in Nat /\ point.at <= tick /\ Stamp(next[i]) <= point.at
    BY <1>2, StampTyped, WithinTyped DEF Within
  <2> QED
    BY <2>1 DEF Advances
<1>3. DOMAIN latest \subseteq Ids
  BY DEF Collected
<1>4. \A i \in DOMAIN latest : Stamp(next[i]) > 0
  BY <1>1, <1>3 DEF Collected
<1>5. ASSUME NEW i \in Ids, Stamp(next[i]) > 0, Within(Stamp(next[i]), point)
      PROVE  /\ i \in DOMAIN latest <=> next[i].live /\ next[i].json
             /\ i \in DOMAIN latest => latest[i] = next[i]
  BY <1>2, <1>5 DEF Collected
<1> QED
  BY <1>3, <1>4, <1>5 DEF Collected

LEMMA TellsMoreStays ==
    ASSUME NEW docs \in [Ids -> Resources], NEW next \in [Ids -> Resources],
           NEW tick \in Nat, NEW tock, Advances(docs, next, tick, tock),
           NEW point \in Points, NEW page, TellsMore(page, docs, point, tick)
    PROVE  TellsMore(page, next, point, tock)
<1>1. /\ page.next \in Points \ {None} /\ page.next.at \in Nat /\ page.next.at <= tick
      /\ tock \in Nat /\ tick <= tock
  BY WithinTyped DEF TellsMore, Advances
<1>2. page.next.at <= tock
  BY <1>1
<1>3. ASSUME NEW i \in Ids
      PROVE  /\ Stamp(next[i]) \in Nat /\ Stamp(docs[i]) \in Nat
             /\ next[i] = docs[i] \/ Stamp(next[i]) > page.next.at
             /\ Stamp(docs[i]) > 0 => Stamp(next[i]) > 0
  <2>1. Stamp(next[i]) \in Nat /\ Stamp(docs[i]) \in Nat
    BY StampTyped
  <2>2. next[i] = docs[i] \/ Stamp(next[i]) > tick
    BY DEF Advances
  <2> QED
    BY <1>1, <2>1, <2>2
<1>4. ASSUME NEW i \in page.ids \ Records
      PROVE  /\ i \in Ids /\ Stamp(next[i]) > 0
             /\ page.of[i] = next[i] \/ Stamp(next[i]) > page.next.at
  <2>1. i \in Ids /\ Stamp(docs[i]) > 0 /\ (page.of[i] = docs[i] \/ Stamp(docs[i]) > page.next.at)
    BY DEF TellsMore
  <2> QED
    BY <1>3, <2>1
<1>5. ASSUME NEW i \in Ids, Stamp(next[i]) > 0, Within(Stamp(next[i]), page.next)
      PROVE  Within(Stamp(next[i]), point) \/ i \in page.ids
  <2>1. Stamp(next[i]) <= page.next.at
    BY <1>5 DEF Within
  <2>2. next[i] = docs[i]
    BY <1>1, <1>3, <2>1
  <2> QED
    BY <1>5, <2>2 DEF TellsMore
<1> QED
  BY <1>1, <1>2, <1>4, <1>5 DEF TellsMore

LEMMA Pointed ==
    ASSUME Feeds, NEW w \in Walkers
    PROVE  /\ Formed(walk[w]) /\ walk[w].point \in Points
           /\ w \in Replicas => checkpoint[w] \in Points
  BY DEF Feeds

LEMMA FollowsStays ==
    ASSUME Shaped, Feeds, NEW w \in Walkers, Follows(w),
           doc' \in [Ids -> Resources], Advances(doc, doc', clock, clock'),
           walk'[w] = walk[w], w \in Replicas => copy'[w] = copy[w]
    PROVE  Follows(w)'
<1> DEFINE point == walk[w].point
           page == walk[w].got
<1>1. point \in Points /\ doc \in [Ids -> Resources] /\ clock \in Nat
  BY Pointed DEF Shaped
<1> SUFFICES ASSUME walk[w].at \in {"asked", "got"}
             PROVE  /\ point # None => point.at <= clock'
                    /\ (w \in Replicas => Copied(copy'[w], doc', point))
                    /\ (w \in Readers => Collected(walk[w].latest, doc', point))
                    /\ walk[w].at = "got" /\ Sound(page) =>
                         /\ page.next # None => TellsMore(page, doc', point, clock')
                         /\ page.next = None =>
                              /\ TellsEnd(page, point)
                              /\ (w \in Replicas => Copied(copy'[w], page.of, point))
                              /\ (w \in Readers => Collected(walk[w].latest, page.of, point))
  BY DEF Follows, Meets, Sound, Malformed, TellsMore, TellsEnd, Copied, Collected
<1>2. point # None => point.at <= clock
  BY DEF Follows
<1>3. point # None => point.at <= clock'
  <2>1. point # None => point.at \in Nat
    BY <1>1, WithinTyped
  <2> QED
    BY <1>1, <1>2, <2>1 DEF Advances
<1>4. Meets(w, doc, point)
  BY DEF Follows
<1>5. /\ walk[w].at = "got" /\ Sound(page) =>
           /\ page.next # None => TellsMore(page, doc, point, clock)
           /\ page.next = None => TellsEnd(page, point) /\ Meets(w, page.of, point)
  BY DEF Follows
<1> HIDE DEF point, page
<1>6. w \in Replicas => Copied(copy'[w], doc', point)
  BY <1>1, <1>2, <1>4, CopiedStays DEF Meets
<1>7. w \in Readers => Collected(walk[w].latest, doc', point)
  BY <1>1, <1>2, <1>4, CollectedStays DEF Meets
<1>8. TellsMore(page, doc, point, clock) => TellsMore(page, doc', point, clock')
  BY <1>1, TellsMoreStays
<1> QED
  BY <1>3, <1>5, <1>6, <1>7, <1>8 DEF Meets

LEMMA StoredStays ==
    ASSUME Shaped, Feeds, NEW w \in Replicas, Stored(w),
           doc' \in [Ids -> Resources], Advances(doc, doc', clock, clock'),
           copy'[w] = copy[w], checkpoint'[w] = checkpoint[w]
    PROVE  Stored(w)'
<1>1. /\ checkpoint[w] \in Points /\ doc \in [Ids -> Resources] /\ clock \in Nat
      /\ checkpoint[w] # None => checkpoint[w].at <= clock /\ checkpoint[w].at \in Nat
  BY WithinTyped DEF Feeds, Shaped, Stored
<1>2. Copied(copy[w], doc', checkpoint[w])
  BY <1>1, CopiedStays DEF Stored
<1>3. checkpoint[w] # None => checkpoint[w].at <= clock'
  BY <1>1 DEF Advances
<1> QED
  BY <1>2, <1>3 DEF Stored, Copied
-----------------------------------------------------------------------------
(* Pages.                                                                  *)

Under == {pair \in Nat \X Nat : pair[1] < pair[2]}

LEMMA LeastNumber ==
    ASSUME NEW some \in SUBSET Nat, some # {}
    PROVE  \E least \in some : \A n \in some : least <= n
<1>1. IsWellFoundedOn(Under, Nat)
  BY NatLessThanWellFounded DEF OpToRel, Under
<1>2. PICK least \in some : \A n \in some : <<n, least>> \notin Under
  BY <1>1, WFMin
<1>3. ASSUME NEW n \in some PROVE least <= n
  <2>1. n \in Nat /\ least \in Nat
    OBVIOUS
  <2>2. SUFFICES ASSUME n < least PROVE FALSE
    BY <2>1
  <2>3. <<n, least>> \in Under
    BY <2>1, <2>2 DEF Under
  <2> QED
    BY <1>2, <2>3
<1> QED
  BY <1>3

LEMMA Positioned ==
    ASSUME Shaped, Numbered
    PROVE  /\ \A e \in Ids \union Records : Position(e) \in Nat /\ Position(e) <= clock
           /\ \A i \in Ids : Position(i) = Stamp(doc[i])
           /\ Entries \subseteq Ids \union Records /\ IsFiniteSet(Entries)
           /\ \A e \in Entries : Position(e) \in Nat /\ Position(e) <= clock /\ Position(e) > 0
<1>1. ASSUME NEW e \in Records PROVE Position(e) \in Nat /\ Position(e) <= clock
  BY DEF Position, Numbered
<1>2. ASSUME NEW i \in Ids
      PROVE  Position(i) = Stamp(doc[i]) /\ Position(i) \in Nat /\ Position(i) <= clock
  <2>1. doc[i] \in Resources /\ i \notin Records
    BY EntriesTyped DEF EntriesTyped, Shaped
  <2>2. Position(i) = Stamp(doc[i])
    BY <2>1 DEF Position, Stamp
  <2>3. doc[i].rev <= clock /\ doc[i].metaRev <= clock
    BY DEF Numbered
  <2> QED
    BY <2>1, <2>2, <2>3, StampTyped DEF Stamp
<1>3. IsFiniteSet(Ids \union Records)
  BY EntriesTyped, FS_Union DEF EntriesTyped
<1>4. Entries \subseteq Ids \union Records /\ IsFiniteSet(Entries)
  BY <1>3, FS_Subset DEF Entries
<1> QED
  BY <1>1, <1>2, <1>4 DEF Entries

(* The first entries: some, if there are any, and all up to the last.      *)
LEMMA FirstHeld ==
    ASSUME Shaped, Numbered, NEW some \in SUBSET Entries, NEW n \in Nat \ {0}
    PROVE  /\ First(n, some) \subseteq some
           /\ some # {} => First(n, some) # {}
           /\ First(n, some) # {} =>
                /\ Last(First(n, some)) \in Nat /\ Last(First(n, some)) <= clock
                /\ \A e \in some : Position(e) <= Last(First(n, some)) => e \in First(n, some)
<1> DEFINE Before(e) == {f \in some : Position(f) < Position(e)}
           held == First(n, some)
<1>1. /\ \A e \in some : Position(e) \in Nat /\ Position(e) <= clock
      /\ IsFiniteSet(some) /\ clock \in Nat
  BY Positioned, FS_Subset DEF Shaped
<1>2. \A e \in some : IsFiniteSet(Before(e)) /\ Cardinality(Before(e)) \in Nat
  BY <1>1, FS_Subset, FS_CardinalityType
<1>3. held = {e \in some : Cardinality(Before(e)) < n}
  BY DEF First
<1>4. ASSUME some # {} PROVE held # {}
  <2>1. PICK least \in {Position(e) : e \in some} : \A m \in {Position(e) : e \in some} : least <= m
    <3>1. {Position(e) : e \in some} \in SUBSET Nat /\ {Position(e) : e \in some} # {}
      BY <1>1, <1>4
    <3> QED
      BY <3>1, LeastNumber
  <2>2. PICK e \in some : Position(e) = least
    BY <2>1
  <2>3. Before(e) = {}
    <3>1. \A f \in some : Position(e) <= Position(f) /\ Position(e) \in Nat /\ Position(f) \in Nat
      BY <1>1, <2>1, <2>2
    <3> QED
      BY <3>1
  <2>4. Cardinality(Before(e)) = 0
    BY <2>3, FS_EmptySet
  <2>5. e \in held
    BY <1>3, <2>4
  <2> QED
    BY <2>5
<1>5. ASSUME held # {}
      PROVE  Last(held) \in Nat /\ Last(held) <= clock
             /\ \A e \in some : Position(e) <= Last(held) => e \in held
  <2> DEFINE back == {clock - Position(e) : e \in held}
  <2>1. \A e \in held : e \in some /\ Position(e) \in Nat /\ Position(e) <= clock
    BY <1>1, <1>3
  <2>2. PICK least \in back : \A m \in back : least <= m
    <3>1. back \in SUBSET Nat
      BY <1>1, <2>1
    <3>2. back # {}
      BY <1>5
    <3> HIDE DEF back
    <3> QED
      BY <3>1, <3>2, LeastNumber
  <2>3. PICK top \in held : least = clock - Position(top)
    BY <2>2
  <2>4. ASSUME NEW f \in held PROVE Position(f) <= Position(top)
    <3>1. clock - Position(top) <= clock - Position(f)
      BY <2>2, <2>3
    <3> QED
      BY <1>1, <2>1, <3>1
  <2> DEFINE last == CHOOSE e \in held : \A f \in held : Position(f) <= Position(e)
  <2>5. last \in held /\ Last(held) = Position(last)
    BY <2>4 DEF Last
  <2> HIDE DEF last, held
  <2>6. last \in some /\ Position(last) \in Nat /\ Position(last) <= clock
    BY <2>1, <2>5
  <2>7. ASSUME NEW e \in some, Position(e) <= Position(last) PROVE e \in held
    <3>1. Before(e) \subseteq Before(last)
      <4>1. \A f \in some : Position(f) \in Nat
        BY <1>1
      <4> QED
        BY <2>6, <2>7, <4>1
    <3>2. Cardinality(Before(last)) < n
      BY <1>3, <2>5
    <3>3. Cardinality(Before(e)) <= Cardinality(Before(last))
      BY <1>2, <2>6, <3>1, FS_Subset
    <3>4. Cardinality(Before(e)) < n
      <4>1. Cardinality(Before(e)) \in Nat /\ Cardinality(Before(last)) \in Nat
        BY <1>2, <2>6
      <4> HIDE DEF Before
      <4> QED
        BY <3>2, <3>3, <4>1
    <3> QED
      BY <1>3, <3>4
  <2> QED
    BY <2>5, <2>6, <2>7
<1> QED
  BY <1>3, <1>4, <1>5
-----------------------------------------------------------------------------
(* The server answers a walk.                                              *)

(* What an honest page tells, or one that names its own point as the next. *)
LEMMA PageTells ==
    ASSUME Shaped, Numbered, NEW point \in Points, NEW n \in Nat \ {0}, NEW page,
           point # None => point.at <= clock,
           page.of = doc, page.ids = First(n, After(point)),
           \/ page.next = Page(point, n).next
           \/ page.next = point /\ point # None
    PROVE  /\ page.next # None => TellsMore(page, doc, point, clock)
           /\ page.next = None => TellsEnd(page, point)
<1> DEFINE held == First(n, After(point))
           next == page.next
<1>1. After(point) \in SUBSET Entries
  BY DEF After
<1>2. /\ held \subseteq After(point)
      /\ After(point) # {} => held # {}
      /\ held # {} => /\ Last(held) \in Nat /\ Last(held) <= clock
                      /\ \A e \in After(point) : Position(e) <= Last(held) => e \in held
  BY <1>1, FirstHeld
<1>3. /\ \A i \in Ids : Position(i) = Stamp(doc[i]) /\ (Stamp(doc[i]) > 0 => i \in Entries)
      /\ \A i \in Entries \ Records : i \in Ids /\ Stamp(doc[i]) > 0
      /\ \A i \in Ids : doc[i] \in Resources
  BY Positioned DEF Entries, Shaped
<1>4. Page(point, n).next = IF held = {} THEN None ELSE [issue |-> issue, at |-> Last(held)]
  BY DEF Page
<1>5. issue \in Nat /\ clock \in Nat
  BY DEF Numbered, Shaped
<1>6. ASSUME NEW i \in Ids, Stamp(doc[i]) > 0
      PROVE  Within(Stamp(doc[i]), point) \/ i \in After(point)
  <2>1. Stamp(doc[i]) \in Nat /\ Position(i) = Stamp(doc[i]) /\ i \in Entries
    BY <1>3, <1>6, StampTyped
  <2>2. point # None => point.at \in Nat
    BY WithinTyped
  <2> QED
    BY <2>1, <2>2 DEF After, Within
<1>7. ASSUME next # None PROVE TellsMore(page, doc, point, clock)
  <2>1. /\ next \in Points \ {None} /\ next.at <= clock
        /\ \A i \in Ids : i \in After(point) /\ Within(Stamp(doc[i]), next) => i \in held
    <3>1. CASE next = point
      <4>1. \A i \in After(point) : ~(Position(i) <= point.at)
        <5>1. \A i \in After(point) : Position(i) \in Nat /\ Position(i) > point.at
          BY <1>1, <1>7, <3>1, Positioned DEF After
        <5>2. point.at \in Nat
          BY <1>7, <3>1, WithinTyped
        <5> QED
          BY <5>1, <5>2
      <4> QED
        BY <1>3, <1>7, <3>1, <4>1 DEF Within
    <3>2. CASE next = Page(point, n).next
      <4>1. held # {} /\ next = [issue |-> issue, at |-> Last(held)]
        BY <1>4, <1>7, <3>2
      <4>2. next \in Points \ {None} /\ next.at = Last(held)
        <5> HIDE DEF held
        <5>1. next \in [issue : Nat, at : Nat]
          BY <1>2, <1>5, <4>1
        <5> HIDE DEF next
        <5> QED
          BY <1>7, <4>1, <5>1 DEF Points
      <4> HIDE DEF held, next
      <4> QED
        BY <1>2, <1>3, <4>1, <4>2 DEF Within
    <3> QED
      BY <3>1, <3>2
  <2>2. \A i \in page.ids \ Records : i \in Ids /\ Stamp(doc[i]) > 0 /\ page.of[i] = doc[i]
    BY <1>1, <1>2, <1>3
  <2>3. \A i \in Ids : Stamp(doc[i]) > 0 /\ Within(Stamp(doc[i]), next) =>
          Within(Stamp(doc[i]), point) \/ i \in page.ids
    BY <1>6, <2>1
  <2> QED
    BY <2>1, <2>2, <2>3 DEF TellsMore
<1>8. ASSUME next = None PROVE TellsEnd(page, point)
  <2>1. held = {}
    <3> SUFFICES ASSUME held # {} PROVE FALSE
      OBVIOUS
    <3> HIDE DEF held
    <3>1. [issue |-> issue, at |-> Last(held)] \in [issue : Nat, at : Nat]
      BY <1>2, <1>5
    <3> QED
      BY <1>4, <1>8, <3>1, NoneApart DEF NoneApart
  <2>2. After(point) = {}
    BY <1>2, <2>1
  <2>3. \A i \in Ids : /\ doc[i].live => Stamp(doc[i]) > 0
                       /\ Stamp(doc[i]) > 0 => Within(Stamp(doc[i]), point)
    <3>1. \A i \in Ids : doc[i].live => Stamp(doc[i]) > 0
      <4>1. \A i \in Ids : doc[i].live => doc[i].rev > 0
        BY DEF Numbered
      <4>2. \A i \in Ids : Stamp(doc[i]) \in Nat /\ doc[i].rev \in Nat /\ doc[i].rev <= Stamp(doc[i])
        BY <1>3, StampTyped
      <4> QED
        BY <4>1, <4>2
    <3> QED
      BY <1>6, <2>2, <3>1
  <2> QED
    BY <2>1, <2>3 DEF TellsEnd, Shaped
<1> QED
  BY <1>7, <1>8

LEMMA WalkSet ==
    ASSUME Feeds, NEW w \in Walkers, NEW k, walk' = [walk EXCEPT ![w] = k]
    PROVE  walk' = [v \in Walkers |-> walk'[v]] /\ walk'[w] = k
           /\ \A v \in Walkers \ {w} : walk'[v] = walk[v]
<1>1. walk = [v \in Walkers |-> walk[v]]
  BY DEF Feeds
<1>2. DOMAIN walk = Walkers
  BY <1>1
<1> QED
  BY <1>1, <1>2

(* The step of a walker keeps what every walker knows.                     *)
FeedKept(w) ==
    /\ Feeds' /\ UNCHANGED <<doc, record, clock, issue>>
    /\ \A v \in Walkers \ {w} : walk'[v] = walk[v]
    /\ \A v \in Replicas \ {w} : copy'[v] = copy[v] /\ checkpoint'[v] = checkpoint[v]
    /\ Follows(w)'
    /\ w \in Replicas => Stored(w)'

(* A walk that has come to rest, and what it has left with its walker.     *)
LEMMA Rests ==
    ASSUME Feeds, NEW w \in Walkers, NEW k, walk' = [walk EXCEPT ![w] = k],
           Formed(k), k.point \in Points, k.at \notin {"asked", "got"},
           UNCHANGED <<doc, record, clock, issue>>,
           copy' = [v \in Replicas |-> copy'[v]], checkpoint' \in [Replicas -> Points],
           \A v \in Replicas \ {w} : copy'[v] = copy[v] /\ checkpoint'[v] = checkpoint[v],
           w \in Replicas => Stored(w)'
    PROVE  FeedKept(w)
<1>1. walk' = [v \in Walkers |-> walk'[v]] /\ walk'[w] = k /\ \A v \in Walkers \ {w} : walk'[v] = walk[v]
  BY WalkSet
<1>2. Feeds'
  BY <1>1 DEF Feeds
<1>3. Follows(w)'
  BY <1>1 DEF Follows
<1> QED
  BY <1>1, <1>2, <1>3 DEF FeedKept

LEMMA RestsUnchanged ==
    ASSUME Feeds, NEW w \in Walkers, NEW k, walk' = [walk EXCEPT ![w] = k],
           Formed(k), k.point \in Points, k.at \notin {"asked", "got"},
           UNCHANGED <<doc, record, clock, issue, copy, checkpoint>>,
           w \in Replicas => Stored(w)
    PROVE  FeedKept(w)
<1>1. w \in Replicas => Stored(w)'
  BY DEF Stored, Copied
<1>2. copy' = [v \in Replicas |-> copy'[v]] /\ checkpoint' \in [Replicas -> Points]
  BY DEF Feeds
<1> QED
  BY <1>1, <1>2, Rests
LEMMA AskingFormed ==
    ASSUME NEW w, NEW point \in Points
    PROVE  /\ Formed(Asking(w, point)) /\ Asking(w, point).at = "asked" /\ Asking(w, point).point = point
           /\ DOMAIN Asking(w, point).latest = {}
  BY DEF Asking, Formed

LEMMA StartQueryKept ==
    ASSUME Shaped, Feeds, NEW w \in Walkers, w \in Replicas => Stored(w), StartQuery(w)
    PROVE  FeedKept(w)
<1> DEFINE k == Asking(w, checkpoint[w])
<1>1. /\ w \in Replicas /\ w \notin Readers /\ walk' = [walk EXCEPT ![w] = k]
      /\ UNCHANGED <<doc, record, clock, issue, copy, checkpoint>> /\ checkpoint[w] \in Points
  BY WalkersTyped DEF WalkersTyped, StartQuery, Feeds, server, replica
<1>2. Formed(k) /\ k.at = "asked" /\ k.point = checkpoint[w]
  BY <1>1, AskingFormed
<1> HIDE DEF k
<1>3. walk' = [v \in Walkers |-> walk'[v]] /\ walk'[w] = k /\ \A v \in Walkers \ {w} : walk'[v] = walk[v]
  BY <1>1, WalkSet
<1>4. Feeds'
  BY <1>1, <1>2, <1>3 DEF Feeds
<1>5. Follows(w)'
  BY <1>1, <1>2, <1>3 DEF Follows, Meets, Stored, Copied
<1>6. Stored(w)'
  BY <1>1 DEF Stored, Copied
<1> QED
  BY <1>1, <1>3, <1>4, <1>5, <1>6 DEF FeedKept

LEMMA StartDocumentsKept ==
    ASSUME Shaped, Feeds, NEW w \in Walkers, StartDocuments(w)
    PROVE  FeedKept(w)
<1> DEFINE k == Asking(w, None)
<1>1. /\ w \in Readers /\ w \notin Replicas /\ walk' = [walk EXCEPT ![w] = k]
      /\ UNCHANGED <<doc, record, clock, issue, copy, checkpoint>> /\ None \in Points
  BY WalkersTyped DEF WalkersTyped, StartDocuments, Points, server, replica
<1>2. Formed(k) /\ k.at = "asked" /\ k.point = None /\ DOMAIN k.latest = {}
  BY <1>1, AskingFormed
<1> HIDE DEF k
<1>3. walk' = [v \in Walkers |-> walk'[v]] /\ walk'[w] = k /\ \A v \in Walkers \ {w} : walk'[v] = walk[v]
  BY <1>1, WalkSet
<1>4. Feeds'
  BY <1>1, <1>2, <1>3 DEF Feeds
<1>5. Follows(w)'
  BY <1>1, <1>2, <1>3 DEF Follows, Meets, Collected, Within
<1> QED
  BY <1>1, <1>3, <1>4, <1>5 DEF FeedKept

LEMMA FollowsNext ==
    ASSUME NEW w, NEW k, walk'[w] = k,
           k.at \in {"asked", "got"} =>
             /\ k.point # None => k.point.at <= clock'
             /\ w \in Replicas => Copied(copy'[w], doc', k.point)
             /\ w \in Readers => Collected(k.latest, doc', k.point)
             /\ k.at = "got" /\ Sound(k.got) =>
                  /\ k.got.next # None => TellsMore(k.got, doc', k.point, clock')
                  /\ k.got.next = None =>
                       /\ TellsEnd(k.got, k.point)
                       /\ w \in Replicas => Copied(copy'[w], k.got.of, k.point)
                       /\ w \in Readers => Collected(k.latest, k.got.of, k.point)
    PROVE  Follows(w)'
  BY DEF Follows, Meets, Sound, Malformed, TellsMore, TellsEnd, Copied, Collected

(* An answer has come: if it is a page, one that tells the truth.          *)
LEMMA GotKept ==
    ASSUME Shaped, Feeds, NEW w \in Walkers, Follows(w), w \in Replicas => Stored(w),
           walk[w].at = "asked", NEW page,
           walk' = [walk EXCEPT ![w].at = "got", ![w].got = page],
           UNCHANGED <<doc, record, clock, issue, copy, checkpoint>>,
           Sound(page) => /\ page.of = doc
                          /\ page.next # None => TellsMore(page, doc, walk[w].point, clock)
                          /\ page.next = None => TellsEnd(page, walk[w].point)
    PROVE  FeedKept(w)
<1> DEFINE r == walk[w]
           k == [r EXCEPT !.at = "got", !.got = page]
<1>1. Formed(r) /\ r.point \in Points /\ walk' = [walk EXCEPT ![w] = k]
  BY Pointed DEF Feeds
<1> HIDE DEF r
<1>2. Formed(k) /\ k.at = "got" /\ k.got = page /\ k.point = r.point /\ k.latest = r.latest
  <2>1. r \in [at : {r.at}, method : {r.method}, point : {r.point}, pages : {r.pages}, got : {r.got},
               seen : {r.seen}, latest : {r.latest}]
    BY <1>1 DEF Formed
  <2>2. k \in [at : {"got"}, method : {r.method}, point : {r.point}, pages : {r.pages}, got : {page},
               seen : {r.seen}, latest : {r.latest}]
    BY <2>1
  <2> HIDE DEF k
  <2> QED
    BY <2>2 DEF Formed
<1> HIDE DEF k
<1>3. walk' = [v \in Walkers |-> walk'[v]] /\ walk'[w] = k /\ \A v \in Walkers \ {w} : walk'[v] = walk[v]
  BY <1>1, WalkSet
<1>4. Feeds'
  BY <1>1, <1>2, <1>3 DEF Feeds
<1>5. (r.point # None => r.point.at <= clock) /\ Meets(w, doc, r.point)
  BY DEF Follows, r
<1>6. /\ w \in Replicas => Copied(copy'[w], doc', r.point)
      /\ w \in Readers => Collected(walk'[w].latest, doc', r.point)
  BY <1>2, <1>3, <1>5 DEF Meets, r
<1>7. Sound(page) => /\ page.of = doc'
                     /\ page.next # None => TellsMore(page, doc', r.point, clock')
                     /\ page.next = None => TellsEnd(page, r.point)
  BY DEF r
<1>8. Follows(w)'
  <2>1. clock' = clock /\ walk'[w] = k
    BY <1>3
  <2>2. /\ k.point # None => k.point.at <= clock'
        /\ Sound(page) =>
             /\ page.next # None => TellsMore(page, doc', k.point, clock')
             /\ page.next = None =>
                  /\ TellsEnd(page, k.point)
                  /\ w \in Replicas => Copied(copy'[w], page.of, k.point)
                  /\ w \in Readers => Collected(k.latest, page.of, k.point)
    BY <1>2, <1>5, <1>6, <1>7, <2>1
  <2>3. /\ w \in Replicas => Copied(copy'[w], doc', k.point)
        /\ w \in Readers => Collected(k.latest, doc', k.point)
    BY <1>2, <1>6, <2>1
  <2> QED
    BY <1>2, <2>1, <2>2, <2>3, FollowsNext
<1>9. w \in Replicas => Stored(w)'
  BY DEF Stored, Copied
<1> QED
  BY <1>3, <1>4, <1>8, <1>9 DEF FeedKept

LEMMA ServePageKept ==
    ASSUME Shaped, Numbered, Feeds, NEW w \in Walkers, Follows(w), w \in Replicas => Stored(w),
           ServePage(w)
    PROVE  FeedKept(w)
<1> DEFINE point == walk[w].point
           Got(page) == walk' = [walk EXCEPT ![w].at = "got", ![w].got = page]
<1>1. /\ walk[w].at = "asked" /\ UNCHANGED <<doc, record, clock, issue, copy, checkpoint>>
      /\ point \in Points /\ (point # None => point.at <= clock)
  BY Pointed DEF ServePage, Follows, replica
<1>2. ASSUME NEW page, ~Sound(page), Got(page) PROVE FeedKept(w)
  BY <1>1, <1>2, GotKept
<1>3. ASSUME NEW answer, answer # Ok, Got(Refused(answer)) PROVE FeedKept(w)
  <2>1. ~Sound(Refused(answer))
    BY <1>3 DEF Sound, Refused
  <2> QED
    BY <1>2, <1>3, <2>1
<1>4. (\A denial \in Denials : denial # Ok) /\ Answer(400, "invalid-request-body") # Ok
  BY DEF Denials, Ok, Answer
<1>5. ASSUME NEW n \in Nat \ {0}, NEW page, Got(page),
             page.of = doc, page.ids = First(n, After(point)),
             \/ page.next = Page(point, n).next
             \/ page.next = point /\ point # None
      PROVE  FeedKept(w)
  <2>1. /\ page.next # None => TellsMore(page, doc, point, clock)
        /\ page.next = None => TellsEnd(page, point)
    <3> HIDE DEF point
    <3> QED
      BY <1>1, <1>5, PageTells
  <2> QED
    BY <1>1, <1>5, <2>1, GotKept
<1>6. ASSUME NEW n \in 1 .. Limit, Got(Page(point, n)) PROVE FeedKept(w)
  <2>1. n \in Nat \ {0}
    BY BoundsTyped DEF BoundsTyped
  <2>2. Page(point, n).of = doc /\ Page(point, n).ids = First(n, After(point))
    BY DEF Page
  <2> QED
    BY <1>5, <1>6, <2>1, <2>2
<1>7. ASSUME NEW n \in 1 .. Limit, NEW page \in FaultyPages(point, n), Got(page) PROVE FeedKept(w)
  <2> DEFINE honest == Page(point, n)
  <2>1. n \in Nat \ {0}
    BY BoundsTyped DEF BoundsTyped
  <2>2. /\ honest = [answer |-> Ok, ids |-> honest.ids, wrong |-> None, of |-> doc, next |-> honest.next]
        /\ honest.ids = First(n, After(point))
    BY DEF Page
  <2>3. CASE page = [honest EXCEPT !.wrong = "no body", !.ids = {}, !.next = None]
    <3> HIDE DEF honest
    <3>1. page.wrong # None
      BY <2>2, <2>3, NoneApart DEF NoneApart
    <3> QED
      BY <1>2, <1>7, <3>1 DEF Sound, Malformed
  <2>4. CASE page = [honest EXCEPT !.wrong = "no documents", !.ids = {}, !.next = None]
    <3> HIDE DEF honest
    <3>1. page.wrong # None
      BY <2>2, <2>4, NoneApart DEF NoneApart
    <3> QED
      BY <1>2, <1>7, <3>1 DEF Sound, Malformed
  <2>5. CASE page = [honest EXCEPT !.wrong = "no data"]
    <3>1. page.of = doc /\ page.ids = honest.ids /\ page.next = honest.next
      <4> HIDE DEF honest, point
      <4>1. honest \in [answer : {Ok}, ids : {honest.ids}, wrong : {None}, of : {doc}, next : {honest.next}]
        BY <2>2
      <4> QED
        BY <2>5, <4>1
    <3> QED
      BY <1>5, <1>7, <2>1, <2>2, <3>1
  <2>6. CASE point # None /\ page = [honest EXCEPT !.next = point]
    <3>1. page.of = doc /\ page.ids = honest.ids /\ page.next = point
      <4> HIDE DEF honest, point
      <4> QED
        BY <2>2, <2>6
    <3> QED
      BY <1>5, <1>7, <2>1, <2>2, <2>6, <3>1
  <2>7. \/ page \in {[honest EXCEPT !.wrong = "no body", !.ids = {}, !.next = None],
                     [honest EXCEPT !.wrong = "no documents", !.ids = {}, !.next = None],
                     [honest EXCEPT !.wrong = "no data"]}
        \/ point # None /\ page = [honest EXCEPT !.next = point]
    BY <1>7 DEF FaultyPages
  <2> HIDE DEF honest
  <2> QED
    BY <2>3, <2>4, <2>5, <2>6, <2>7
<1>8. \/ \E denial \in Denials : Got(Refused(denial))
      \/ Got(Refused(Answer(400, "invalid-request-body")))
      \/ \E n \in 1 .. Limit : Got(Page(point, n)) \/ \E page \in FaultyPages(point, n) : Got(page)
  BY DEF ServePage
<1> HIDE DEF Got
<1> QED
  BY <1>3, <1>4, <1>6, <1>7, <1>8
-----------------------------------------------------------------------------
(* A page settles.                                                         *)

LEMMA CopiedOn ==
    ASSUME Shaped, NEW point, NEW page, TellsMore(page, doc, point, clock),
           NEW held, Copied(held, doc, point), NEW next,
           \A i \in Ids : next[i] = IF i \in Moved(page) THEN page.of[i] ELSE held[i]
    PROVE  Copied(next, doc, page.next)
<1> SUFFICES ASSUME NEW i \in Ids, IsJson(doc[i]), Within(Stamp(doc[i]), page.next)
             PROVE  next[i] = doc[i]
  BY DEF Copied
<1>1. doc[i] \in Resources /\ Stamp(doc[i]) \in Nat /\ Stamp(doc[i]) > 0 /\ doc[i].json
  BY StampTyped DEF Shaped, IsJson
<1>2. CASE i \in page.ids
  <2>1. i \in page.ids \ Records
    BY <1>2, EntriesTyped DEF EntriesTyped
  <2>2. page.next.at \in Nat /\ Stamp(doc[i]) <= page.next.at
    BY WithinTyped DEF TellsMore, Within
  <2>3. page.of[i] = doc[i]
    BY <1>1, <2>1, <2>2 DEF TellsMore
  <2>4. i \in Moved(page)
    BY <1>1, <2>1, <2>3 DEF Moved
  <2> QED
    BY <2>3, <2>4
<1>3. CASE i \notin page.ids
  <2>1. Within(Stamp(doc[i]), point)
    BY <1>1, <1>3 DEF TellsMore
  <2>2. i \notin Moved(page)
    BY <1>3 DEF Moved
  <2> QED
    BY <2>1, <2>2 DEF Copied
<1> QED
  BY <1>2, <1>3

LEMMA LatestAt ==
    ASSUME NEW w, NEW page
    PROVE  /\ DOMAIN Latest(w, page) =
                {j \in DOMAIN walk[w].latest : j \notin page.ids}
                  \union {j \in page.ids \ Records : page.of[j].live /\ page.of[j].json}
           /\ \A i \in DOMAIN Latest(w, page) :
                Latest(w, page)[i] = IF i \in page.ids THEN page.of[i] ELSE walk[w].latest[i]
  BY DEF Latest

LEMMA CollectedOn ==
    ASSUME Shaped, NEW w, NEW point, NEW page, TellsMore(page, doc, point, clock),
           Collected(walk[w].latest, doc, point)
    PROVE  Collected(Latest(w, page), doc, page.next)
<1> DEFINE latest == walk[w].latest
           next == Latest(w, page)
<1>1. /\ DOMAIN next = {j \in DOMAIN latest : j \notin page.ids}
                         \union {j \in page.ids \ Records : page.of[j].live /\ page.of[j].json}
      /\ \A i \in DOMAIN next : next[i] = IF i \in page.ids THEN page.of[i] ELSE latest[i]
  BY LatestAt
<1> HIDE DEF next
<1>2. /\ DOMAIN latest \subseteq Ids /\ \A i \in DOMAIN latest : Stamp(doc[i]) > 0
      /\ \A i \in page.ids \ Records : i \in Ids /\ Stamp(doc[i]) > 0
  BY DEF Collected, TellsMore
<1>3. DOMAIN next \subseteq Ids /\ \A i \in DOMAIN next : Stamp(doc[i]) > 0
  BY <1>1, <1>2
<1>4. ASSUME NEW i \in Ids, Stamp(doc[i]) > 0, Within(Stamp(doc[i]), page.next)
      PROVE  /\ i \in DOMAIN next <=> doc[i].live /\ doc[i].json
             /\ i \in DOMAIN next => next[i] = doc[i]
  <2>1. CASE i \in page.ids
    <3>1. i \in page.ids \ Records /\ Stamp(doc[i]) \in Nat
      BY <2>1, EntriesTyped, StampTyped DEF EntriesTyped, Shaped
    <3>2. page.next.at \in Nat /\ Stamp(doc[i]) <= page.next.at
      BY <1>4, WithinTyped DEF TellsMore, Within
    <3>3. page.of[i] = doc[i]
      BY <3>1, <3>2 DEF TellsMore
    <3> QED
      BY <1>1, <2>1, <3>1, <3>3
  <2>2. CASE i \notin page.ids
    <3>1. Within(Stamp(doc[i]), point)
      BY <1>4, <2>2 DEF TellsMore
    <3>2. /\ i \in DOMAIN latest <=> doc[i].live /\ doc[i].json
          /\ i \in DOMAIN latest => latest[i] = doc[i]
      BY <1>4, <3>1 DEF Collected
    <3> QED
      BY <1>1, <2>2, <3>2
  <2> QED
    BY <2>1, <2>2
<1> HIDE DEF latest
<1> QED
  BY <1>3, <1>4 DEF Collected, next

(* What a step leaves of a walk.                                           *)
LEMMA Reshaped ==
    ASSUME NEW r, Formed(r), NEW k,
           \/ k = [r EXCEPT !.at = "idle", !.got = Unread, !.seen = {}]
           \/ \E how \in {"null", "failed", "done"} : \E latest :
                k = [r EXCEPT !.at = how, !.latest = latest]
    PROVE  Formed(k) /\ k.point = r.point /\ k.at \notin {"asked", "got"}
<1>1. r \in [at : {r.at}, method : {r.method}, point : {r.point}, pages : {r.pages}, got : {r.got},
             seen : {r.seen}, latest : {r.latest}]
  BY DEF Formed
<1>2. CASE k = [r EXCEPT !.at = "idle", !.got = Unread, !.seen = {}]
  <2>1. k \in [at : {"idle"}, method : {r.method}, point : {r.point}, pages : {r.pages}, got : {Unread},
               seen : {{}}, latest : {r.latest}]
    BY <1>1, <1>2
  <2> QED
    BY <2>1 DEF Formed
<1>3. ASSUME NEW how \in {"null", "failed", "done"}, NEW latest, k = [r EXCEPT !.at = how, !.latest = latest]
      PROVE  Formed(k) /\ k.point = r.point /\ k.at \notin {"asked", "got"}
  <2>1. k \in [at : {how}, method : {r.method}, point : {r.point}, pages : {r.pages}, got : {r.got},
               seen : {r.seen}, latest : {latest}]
    BY <1>1, <1>3
  <2> QED
    BY <2>1 DEF Formed
<1> QED
  BY <1>2, <1>3

LEMMA ResumedFields ==
    ASSUME NEW w, Formed(walk[w]), NEW page
    PROVE  Resumed(w, page) \in
             [at : {"asked"}, method : {walk[w].method}, point : {page.next}, pages : {walk[w].pages + 1},
              got : {Unread}, seen : {walk[w].seen \union {page.next}}, latest : {walk[w].latest}]
<1> DEFINE r == walk[w]
           next == Resumed(w, page)
           seen == r.seen \union {page.next}
           pages == r.pages + 1
<1>1. r \in [at : {r.at}, method : {r.method}, point : {r.point}, pages : {r.pages}, got : {r.got},
             seen : {r.seen}, latest : {r.latest}]
  BY DEF Formed
<1>2. next = [r EXCEPT !.at = "asked", !.point = page.next, !.seen = seen, !.pages = pages, !.got = Unread]
  BY DEF Resumed
<1> HIDE DEF r, next, seen, pages
<1>3. next \in [at : {"asked"}, method : {r.method}, point : {page.next}, pages : {pages}, got : {Unread},
                seen : {seen}, latest : {r.latest}]
  BY <1>1, <1>2
<1> QED
  BY <1>3 DEF next, r, seen, pages
LEMMA ToldKept ==
    ASSUME Feeds, NEW w \in Replicas,
           walk' = [walk EXCEPT ![w].at = "idle", ![w].got = Unread, ![w].seen = {}],
           UNCHANGED <<doc, record, clock, issue>>,
           copy' = [v \in Replicas |-> copy'[v]], checkpoint' \in [Replicas -> Points],
           \A v \in Replicas \ {w} : copy'[v] = copy[v] /\ checkpoint'[v] = checkpoint[v],
           Stored(w)'
    PROVE  FeedKept(w)
<1> DEFINE k == [walk[w] EXCEPT !.at = "idle", !.got = Unread, !.seen = {}]
<1>1. w \in Walkers /\ walk' = [walk EXCEPT ![w] = k] /\ Formed(walk[w]) /\ walk[w].point \in Points
  BY Pointed DEF Walkers
<1>2. k = [walk[w] EXCEPT !.at = "idle", !.got = Unread, !.seen = {}]
  OBVIOUS
<1> HIDE DEF k
<1>3. Formed(k) /\ k.point = walk[w].point /\ k.at \notin {"asked", "got"}
  BY <1>1, <1>2, Reshaped, Zenon
<1> QED
  BY <1>1, <1>3, Rests

LEMMA EndsKept ==
    ASSUME Feeds, NEW w \in Readers, NEW how \in {"null", "failed", "done"}, NEW latest,
           walk' = [walk EXCEPT ![w].at = how, ![w].latest = latest],
           UNCHANGED <<doc, record, clock, issue, copy, checkpoint>>
    PROVE  FeedKept(w)
<1> DEFINE k == [walk[w] EXCEPT !.at = how, !.latest = latest]
<1>1. /\ w \in Walkers /\ w \notin Replicas /\ walk' = [walk EXCEPT ![w] = k]
      /\ Formed(walk[w]) /\ walk[w].point \in Points
  BY Pointed, WalkersTyped DEF Walkers, WalkersTyped
<1>2. k = [walk[w] EXCEPT !.at = how, !.latest = latest]
  OBVIOUS
<1> HIDE DEF k
<1>3. Formed(k) /\ k.point = walk[w].point /\ k.at \notin {"asked", "got"}
  BY <1>1, <1>2, Reshaped, Zenon
<1> QED
  BY <1>1, <1>3, RestsUnchanged

LEMMA ResumedKept ==
    ASSUME Shaped, Feeds, NEW w \in Walkers, NEW page, NEW k, walk' = [walk EXCEPT ![w] = k],
           Formed(k), k.at = "asked", k.point = page.next, TellsMore(page, doc, walk[w].point, clock),
           UNCHANGED <<doc, record, clock, issue, copy, checkpoint>>,
           w \in Replicas => Stored(w) /\ Copied(copy[w], doc, page.next),
           w \in Readers => Collected(k.latest, doc, page.next)
    PROVE  FeedKept(w)
<1>1. walk' = [v \in Walkers |-> walk'[v]] /\ walk'[w] = k /\ \A v \in Walkers \ {w} : walk'[v] = walk[v]
  BY WalkSet
<1>2. page.next \in Points /\ page.next.at <= clock
  BY DEF TellsMore
<1>3. Feeds'
  BY <1>1, <1>2 DEF Feeds
<1>4. Follows(w)'
  BY <1>1, <1>2, FollowsNext
<1>5. w \in Replicas => Stored(w)'
  BY DEF Stored, Copied
<1> QED
  BY <1>1, <1>3, <1>4, <1>5 DEF FeedKept

LEMMA QueryFailedKept ==
    ASSUME Feeds, NEW w \in Replicas, Stored(w), NEW answer, QueryFailed(w, answer),
           UNCHANGED <<doc, record, clock, issue>>
    PROVE  FeedKept(w)
<1>1. /\ copy' = copy
      /\ walk' = [walk EXCEPT ![w].at = "idle", ![w].got = Unread, ![w].seen = {}]
      /\ checkpoint' = checkpoint \/ checkpoint' = [checkpoint EXCEPT ![w] = None]
  BY DEF QueryFailed, Told
<1>2. /\ copy' = [v \in Replicas |-> copy'[v]] /\ checkpoint' \in [Replicas -> Points]
      /\ \A v \in Replicas \ {w} : copy'[v] = copy[v] /\ checkpoint'[v] = checkpoint[v]
      /\ checkpoint'[w] \in {checkpoint[w], None}
  BY <1>1 DEF Feeds, Points
<1>3. Stored(w)'
  BY <1>1, <1>2 DEF Stored, Copied, Within
<1> QED
  BY <1>1, <1>2, <1>3, ToldKept

LEMMA SettleQueryKept ==
    ASSUME Shaped, Feeds, NEW w \in Walkers, Follows(w), w \in Replicas => Stored(w), SettleQuery(w)
    PROVE  FeedKept(w)
<1> DEFINE page == walk[w].got
           point == walk[w].point
<1>1. /\ w \in Replicas /\ w \notin Readers /\ walk[w].at = "got" /\ Stored(w)
      /\ UNCHANGED <<doc, record, clock, issue>> /\ Formed(walk[w])
  BY Pointed, WalkersTyped DEF WalkersTyped, SettleQuery, server
<1>2. /\ Copied(copy[w], doc, point)
      /\ Sound(page) /\ page.next # None => TellsMore(page, doc, point, clock)
  BY <1>1 DEF Follows, Meets
<1>3. ASSUME Told(w, "error") \/ Told(w, "caught up"), UNCHANGED checkpoint,
             copy' = [v \in Replicas |-> copy'[v]], \A v \in Replicas \ {w} : copy'[v] = copy[v],
             \A i \in Ids : copy'[w][i] = copy[w][i]
      PROVE  FeedKept(w)
  <2>1. walk' = [walk EXCEPT ![w].at = "idle", ![w].got = Unread, ![w].seen = {}]
    BY <1>3 DEF Told
  <2>2. Stored(w)'
    BY <1>1, <1>3 DEF Stored, Copied
  <2>3. checkpoint' \in [Replicas -> Points] /\ \A v \in Replicas \ {w} : checkpoint'[v] = checkpoint[v]
    BY <1>3 DEF Feeds
  <2> QED
    BY <1>1, <1>3, <2>1, <2>2, <2>3, ToldKept
<1>4. copy = [v \in Replicas |-> copy[v]]
  BY DEF Feeds
<1>5. CASE page.answer # Ok /\ QueryFailed(w, page.answer)
  BY <1>1, <1>5, QueryFailedKept
<1>6. CASE Told(w, "error") /\ UNCHANGED <<copy, checkpoint>>
  BY <1>3, <1>4, <1>6
<1>7. CASE /\ Sound(page) /\ Returned(page)
           /\ copy' = [copy EXCEPT ![w] = [i \in Ids |-> IF i \in Moved(page) THEN page.of[i] ELSE @[i]]]
           /\ IF Moved(page) = {} THEN Told(w, "caught up") /\ UNCHANGED checkpoint
              ELSE Told(w, "documents") /\ checkpoint' = [checkpoint EXCEPT ![w] = page.next]
  <2>1. /\ copy' = [v \in Replicas |-> copy'[v]] /\ \A v \in Replicas \ {w} : copy'[v] = copy[v]
        /\ \A i \in Ids : copy'[w][i] = IF i \in Moved(page) THEN page.of[i] ELSE copy[w][i]
    <3> HIDE DEF page
    <3>1. DOMAIN copy = Replicas
      BY <1>4
    <3> QED
      BY <1>1, <1>4, <1>7, <3>1
  <2>2. CASE Moved(page) = {}
    BY <1>3, <1>7, <2>1, <2>2
  <2>3. CASE Moved(page) # {}
    <3>1. Told(w, "documents") /\ checkpoint' = [checkpoint EXCEPT ![w] = page.next]
      BY <1>7, <2>3
    <3>2. CASE page.next = None
      <4>1. page.ids = {}
        BY <1>1, <1>7, <3>2 DEF Follows, TellsEnd
      <4> QED
        BY <2>3, <4>1 DEF Moved
    <3>3. CASE page.next # None
      <4>1. TellsMore(page, doc, point, clock)
        BY <1>2, <1>7, <3>3
      <4>2. Copied(copy'[w], doc, page.next)
        <5> HIDE DEF page, point
        <5> QED
          BY <1>2, <2>1, <4>1, CopiedOn
      <4>3. page.next \in Points /\ page.next.at <= clock
        BY <4>1 DEF TellsMore
      <4>4. /\ checkpoint' \in [Replicas -> Points] /\ checkpoint'[w] = page.next
            /\ \A v \in Replicas \ {w} : checkpoint'[v] = checkpoint[v]
        BY <1>1, <3>1, <4>3 DEF Feeds
      <4>5. Stored(w)'
        BY <1>1, <4>2, <4>3, <4>4 DEF Stored, Copied
      <4>6. walk' = [walk EXCEPT ![w].at = "idle", ![w].got = Unread, ![w].seen = {}]
        BY <3>1 DEF Told
      <4> QED
        BY <1>1, <2>1, <4>4, <4>5, <4>6, ToldKept
    <3> QED
      BY <3>2, <3>3
  <2> QED
    BY <2>2, <2>3
<1>8. CASE /\ Sound(page) /\ ~Returned(page) /\ UNCHANGED <<copy, checkpoint>>
           /\ walk' = [walk EXCEPT ![w] = Resumed(w, page)]
  <2>1. Moved(page) = {} /\ page.next # None
    BY <1>8 DEF Returned
  <2>2. TellsMore(page, doc, point, clock)
    BY <1>2, <1>8, <2>1
  <2>3. Copied(copy[w], doc, page.next)
    <3> HIDE DEF page, point
    <3> QED
      BY <1>2, <2>1, <2>2, CopiedOn
  <2> DEFINE k == Resumed(w, page)
  <2>4. Formed(k) /\ k.point = page.next /\ k.at = "asked"
    <3>1. k \in [at : {"asked"}, method : {walk[w].method}, point : {page.next}, pages : {walk[w].pages + 1},
                 got : {Unread}, seen : {walk[w].seen \union {page.next}}, latest : {walk[w].latest}]
      BY <1>1, ResumedFields
    <3> HIDE DEF k, page
    <3> QED
      BY <3>1 DEF Formed
  <2>5. walk' = [walk EXCEPT ![w] = k]
    BY <1>8
  <2> HIDE DEF k
  <2> QED
    BY <1>1, <1>8, <2>2, <2>3, <2>4, <2>5, ResumedKept
<1> QED
  BY <1>5, <1>6, <1>7, <1>8 DEF SettleQuery, Sound

LEMMA SettleDocumentsKept ==
    ASSUME Shaped, Feeds, NEW w \in Walkers, Follows(w), SettleDocuments(w)
    PROVE  FeedKept(w)
<1> DEFINE page == walk[w].got
           point == walk[w].point
           Ends(how) == walk' = [walk EXCEPT ![w].at = how, ![w].latest = Latest(w, page)]
<1>1. /\ w \in Readers /\ w \notin Replicas /\ walk[w].at = "got"
      /\ UNCHANGED <<doc, record, clock, issue, copy, checkpoint>> /\ Formed(walk[w])
  BY Pointed, WalkersTyped DEF WalkersTyped, SettleDocuments, server, replica
<1>2. ASSUME NEW how \in {"null", "failed", "done"}, Ends(how) PROVE FeedKept(w)
  BY <1>1, <1>2, EndsKept
<1>3. CASE /\ Sound(page) /\ page.next # None
           /\ walk' = [walk EXCEPT ![w] = [Resumed(w, page) EXCEPT !.latest = Latest(w, page)]]
  <2>1. TellsMore(page, doc, point, clock) /\ Collected(walk[w].latest, doc, point)
    BY <1>1, <1>3 DEF Follows, Meets
  <2>2. Collected(Latest(w, page), doc, page.next)
    <3> HIDE DEF page, point
    <3> QED
      BY <2>1, CollectedOn
  <2> DEFINE k == [Resumed(w, page) EXCEPT !.latest = Latest(w, page)]
  <2>3. walk' = [walk EXCEPT ![w] = k] /\ k = [Resumed(w, page) EXCEPT !.latest = Latest(w, page)]
    BY <1>3
  <2> HIDE DEF k
  <2>4. Formed(k) /\ k.point = page.next /\ k.at = "asked" /\ k.latest = Latest(w, page)
    <3> DEFINE next == Resumed(w, page)
               latest == Latest(w, page)
    <3>1. next \in [at : {"asked"}, method : {walk[w].method}, point : {page.next}, pages : {walk[w].pages + 1},
                    got : {Unread}, seen : {walk[w].seen \union {page.next}}, latest : {walk[w].latest}]
      BY <1>1, ResumedFields
    <3>2. k = [next EXCEPT !.latest = latest]
      BY <2>3
    <3> HIDE DEF next, latest, page
    <3>3. k \in [at : {"asked"}, method : {walk[w].method}, point : {page.next}, pages : {walk[w].pages + 1},
                 got : {Unread}, seen : {walk[w].seen \union {page.next}}, latest : {latest}]
      BY <3>1, <3>2
    <3>4. Formed(k) /\ k.point = page.next /\ k.at = "asked" /\ k.latest = latest
      BY <3>3 DEF Formed
    <3> QED
      BY <3>4 DEF latest, page
  <2> QED
    BY <1>1, <2>1, <2>2, <2>3, <2>4, ResumedKept
<1>4. \/ \E how \in {"null", "failed", "done"} : Ends(how)
      \/ /\ Sound(page) /\ page.next # None
         /\ walk' = [walk EXCEPT ![w] = [Resumed(w, page) EXCEPT !.latest = Latest(w, page)]]
  <2> HIDE DEF Ends
  <2> QED
    BY DEF SettleDocuments, Sound, Ends
<1> HIDE DEF Ends
<1> QED
  BY <1>2, <1>3, <1>4
-----------------------------------------------------------------------------
(* Writes, of a pusher or of others.                                       *)

(* A resource with new content, or new metadata, is ahead of every walk.   *)
Ahead(resource, tick) ==
    /\ resource \in Resources /\ resource.rev <= tick + 1 /\ resource.metaRev <= tick + 1
    /\ resource.live => resource.rev > 0
    /\ Stamp(resource) > tick

LEMMA StampedAhead ==
    ASSUME NEW tick \in Nat, NEW next \in Resources, next.rev <= tick + 1, next.metaRev <= tick + 1,
           next.rev = tick + 1 \/ next.metaRev = tick + 1, next.live => next.rev > 0
    PROVE  Ahead(next, tick)
<1>1. Stamp(next) \in Nat /\ next.rev <= Stamp(next) /\ next.metaRev <= Stamp(next)
  BY StampTyped
<1>2. Stamp(next) > tick
  BY <1>1
<1> QED
  BY <1>2 DEF Ahead

LEMMA EffectAhead ==
    ASSUME IInv, Numbered, NEW p \in Pushers, push[p].at = "sent", Doing(p) # "put" => doc[Target].live,
           Precondition(p)
    PROVE  Ahead(Effect(p), clock)
<1> DEFINE now == doc[Target]
           next == Effect(p)
           data == push[p].base.data \union {p}
           custom == push[p].base.custom \union {p}
           after == IF Doing(p) # "delete" THEN buried
                    ELSE buried \union {<<q, "put">> : q \in push[p].base.data}
                                \union {<<q, "meta">> : q \in now.custom}
<1>1. /\ now \in Resources /\ clock \in Nat /\ Doing(p) \in Edits /\ Target \in Ids
      /\ now.live => now.rev > 0
  BY Typed DEF IInv, Knows, Numbered
<1>2. next \in Resources /\ Evolves(now, next, clock, clock + 1, buried, after)
  BY Applied
<1>3. next.rev <= clock + 1 /\ next.metaRev <= clock + 1
  BY <1>2 DEF Evolves, Grounded
<1>4. \/ now.live /\ next = [now EXCEPT !.rev = clock + 1, !.json = TRUE, !.data = data]
      \/ next = [Absence EXCEPT !.rev = clock + 1, !.live = TRUE, !.data = {p}, !.metaRev = clock + 1]
      \/ now.live /\ next = [now EXCEPT !.metaRev = clock + 1, !.custom = custom]
      \/ next = [now EXCEPT !.rev = clock + 1, !.live = FALSE, !.data = {}, !.custom = {}]
  BY <1>1 DEF Effect, Edits
<1> HIDE DEF now, next, data, custom, after
<1>5. /\ next.rev = clock + 1 \/ next.metaRev = clock + 1
      /\ next.live => next.rev > 0
  <2>1. CASE now.live /\ next = [now EXCEPT !.rev = clock + 1, !.json = TRUE, !.data = data]
    BY <1>1, <2>1 DEF Resources
  <2>2. CASE next = [Absence EXCEPT !.rev = clock + 1, !.live = TRUE, !.data = {p}, !.metaRev = clock + 1]
    BY <1>1, <2>2 DEF Absence
  <2>3. CASE now.live /\ next = [now EXCEPT !.metaRev = clock + 1, !.custom = custom]
    BY <1>1, <2>3 DEF Resources
  <2>4. CASE next = [now EXCEPT !.rev = clock + 1, !.live = FALSE, !.data = {}, !.custom = {}]
    BY <1>1, <2>4 DEF Resources
  <2> QED
    BY <1>4, <2>1, <2>2, <2>3, <2>4
<1>6. Ahead(next, clock)
  BY <1>1, <1>2, <1>3, <1>5, StampedAhead
<1> QED
  BY <1>6 DEF next

(* What a step of anyone but a walker does to the feed.                    *)
FeedServes ==
    /\ Numbered' /\ Advances(doc, doc', clock, clock') /\ doc' \in [Ids -> Resources]
    /\ UNCHANGED <<walk, copy, checkpoint>>

LEMMA StillServes ==
    ASSUME Shaped, Numbered, UNCHANGED <<doc, clock, record, walk, copy, checkpoint>>, issue' \in Nat
    PROVE  FeedServes
  BY DEF Shaped, Numbered, FeedServes, Advances

LEMMA WriteServes ==
    ASSUME Shaped, Numbered, NEW i \in Ids, NEW next, Ahead(next, clock),
           doc' = [doc EXCEPT ![i] = next], clock' = clock + 1,
           UNCHANGED <<record, issue, walk, copy, checkpoint>>
    PROVE  FeedServes
<1>1. doc \in [Ids -> Resources] /\ clock \in Nat /\ next \in Resources /\ Stamp(next) > clock
  BY DEF Shaped, Ahead
<1>2. doc' \in [Ids -> Resources] /\ doc'[i] = next /\ \A j \in Ids \ {i} : doc'[j] = doc[j]
  BY <1>1
<1>3. Advances(doc, doc', clock, clock')
  BY <1>1, <1>2 DEF Advances
<1>4. Numbered'
  <2>1. \A j \in Ids : /\ doc'[j].rev <= clock + 1 /\ doc'[j].metaRev <= clock + 1
                       /\ doc'[j].live => doc'[j].rev > 0
    <3> SUFFICES ASSUME NEW j \in Ids
                 PROVE  /\ doc'[j].rev <= clock + 1 /\ doc'[j].metaRev <= clock + 1
                        /\ doc'[j].live => doc'[j].rev > 0
      OBVIOUS
    <3>1. CASE j = i
      BY <1>2, <3>1 DEF Ahead
    <3>2. CASE j # i
      <4>1. doc[j].rev \in Nat /\ doc[j].metaRev \in Nat /\ doc'[j] = doc[j]
        BY <1>1, <1>2, <3>2, StampTyped
      <4>2. doc[j].rev <= clock /\ doc[j].metaRev <= clock /\ (doc[j].live => doc[j].rev > 0)
        BY DEF Numbered
      <4> QED
        BY <1>1, <4>1, <4>2
    <3> QED
      BY <3>1, <3>2
  <2>2. \A r \in Records : record[r] <= clock + 1 /\ record[r] \in Nat
    BY <1>1 DEF Numbered
  <2> QED
    BY <2>1, <2>2 DEF Numbered
<1> QED
  BY <1>2, <1>3, <1>4 DEF FeedServes

LEMMA OthersServe ==
    ASSUME IInv, Numbered, Others
    PROVE  FeedServes
<1>1. Shaped /\ UNCHANGED <<walk, copy, checkpoint>> /\ issue \in Nat /\ clock \in Nat
  BY DEF IInv, Others, replica, Numbered, Shaped
<1>2. ASSUME NEW r \in Records, record' = [record EXCEPT ![r] = clock + 1], clock' = clock + 1,
             UNCHANGED <<doc, issue>>
      PROVE  FeedServes
  <2>1. record' \in [Records -> Nat] /\ \A s \in Records : record'[s] <= clock + 1
    BY <1>1, <1>2 DEF Numbered
  <2>2. \A j \in Ids : /\ doc[j].rev <= clock + 1 /\ doc[j].metaRev <= clock + 1
                       /\ doc[j].live => doc[j].rev > 0
    <3>1. \A j \in Ids : doc[j].rev \in Nat /\ doc[j].metaRev \in Nat
      BY <1>1, StampTyped DEF Shaped
    <3>2. \A j \in Ids : /\ doc[j].rev <= clock /\ doc[j].metaRev <= clock
                         /\ doc[j].live => doc[j].rev > 0
      BY DEF Numbered
    <3> QED
      BY <1>1, <3>1, <3>2
  <2>3. Numbered'
    BY <1>1, <1>2, <2>1, <2>2 DEF Numbered
  <2>4. Advances(doc, doc', clock, clock')
    BY <1>1, <1>2 DEF Advances
  <2> QED
    BY <1>1, <1>2, <2>3, <2>4 DEF FeedServes, Shaped
<1>3. ASSUME NEW i \in Ids, doc[i].live,
             doc' = [doc EXCEPT ![i].json = FALSE, ![i].rev = clock + 1], clock' = clock + 1,
             UNCHANGED <<record, issue>>
      PROVE  FeedServes
  <2> DEFINE now == doc[i]
             next == [now EXCEPT !.json = FALSE, !.rev = clock + 1]
  <2>1. now \in Resources /\ doc' = [doc EXCEPT ![i] = next] /\ now.metaRev <= clock
    BY <1>1, <1>3 DEF Shaped, Numbered
  <2>2. next = [now EXCEPT !.json = FALSE, !.rev = clock + 1]
    OBVIOUS
  <2> HIDE DEF now, next
  <2>3. next \in Resources /\ next.rev = clock + 1 /\ next.metaRev = now.metaRev /\ now.metaRev \in Nat
    <3>1. clock + 1 \in Nat
      BY <1>1
    <3> QED
      BY <2>1, <2>2, <3>1 DEF Resources
  <2>4. Ahead(next, clock)
    BY <1>1, <2>1, <2>3, StampedAhead
  <2> QED
    BY <1>1, <1>3, <2>1, <2>4, WriteServes
<1>4. CASE issue' = issue + 1 /\ UNCHANGED <<doc, record, clock, granted>>
  BY <1>1, <1>4, StillServes
<1>5. CASE UNCHANGED <<doc, record, clock, issue>>
  BY <1>1, <1>5, StillServes
<1> QED
  BY <1>2, <1>3, <1>4, <1>5 DEF Others

LEMMA PushServes ==
    ASSUME IInv, Numbered, NEW p \in Pushers, Push(p)
    PROVE  FeedServes
<1>1. Shaped /\ issue \in Nat
  BY DEF IInv, Numbered
<1>2. CASE UNCHANGED <<doc, clock, record, issue, walk, copy, checkpoint>>
  BY <1>1, <1>2, StillServes
<1>3. CASE ServeWrite(p)
  <2>1. /\ push[p].at = "sent" /\ UNCHANGED <<record, issue, walk, copy, checkpoint>> /\ Target \in Ids
    BY <1>3, PushersTyped DEF PushersTyped, ServeWrite, replica
  <2>2. CASE UNCHANGED <<doc, clock>>
    BY <1>2, <2>1, <2>2
  <2>3. CASE /\ (Doing(p) # "put" => doc[Target].live) /\ Precondition(p)
             /\ doc' = [doc EXCEPT ![Target] = Effect(p)] /\ clock' = clock + 1
    BY <1>1, <2>1, <2>3, EffectAhead, WriteServes
  <2> QED
    BY <1>3, <2>2, <2>3 DEF ServeWrite
<1> QED
  BY <1>2, <1>3 DEF Push, StartGet, ServeContent, ServeMeta, SettleGet, Send, SettleWrite,
                    feedVars, server, replica
-----------------------------------------------------------------------------
(* The invariant of the feed.                                              *)

LEMMA FInitHolds == Init => FInv
<1> SUFFICES ASSUME Init PROVE FInv
  OBVIOUS
<1>1. PICK start \in Initial : doc = start.doc /\ record = start.record /\ clock = start.clock
  BY DEF Init, FeedInit
<1>2. PICK cast \in Casts :
        walk = [w \in Walkers |-> [Asking(w, None) EXCEPT !.at = IF w \in cast THEN "idle" ELSE "absent"]]
  BY DEF Init, FeedInit
<1>3. /\ issue = 1 /\ copy = [r \in Replicas |-> [i \in Ids |-> Absence]]
      /\ checkpoint = [r \in Replicas |-> None]
  BY DEF Init, FeedInit
<1>4. /\ clock \in Nat /\ record \in [Records -> 0 .. clock]
      /\ \A i \in Ids : Grounded(doc[i], clock) /\ (doc[i].live => doc[i].rev > 0)
  BY <1>1, InitialGrounded DEF InitialGrounded
<1>5. Numbered
  <2>1. record \in [Records -> Nat] /\ \A r \in Records : record[r] <= clock
    BY <1>4
  <2> QED
    BY <1>3, <1>4, <2>1 DEF Numbered, Grounded
<1>6. ASSUME NEW w \in Walkers
      PROVE  Formed(walk[w]) /\ walk[w].point = None /\ walk[w].at \in {"idle", "absent"}
  <2> DEFINE at == IF w \in cast THEN "idle" ELSE "absent"
  <2>1. walk[w] = [Asking(w, None) EXCEPT !.at = at]
    BY <1>2
  <2>2. at \in {"idle", "absent"}
    OBVIOUS
  <2> HIDE DEF at
  <2>3. walk[w] = [at |-> at, method |-> ChangesMethod(w), point |-> None, pages |-> 0, got |-> Unread,
                   seen |-> {}, latest |-> [i \in {} |-> None]]
    BY <2>1 DEF Asking
  <2> HIDE DEF ChangesMethod, Unread
  <2> QED
    BY <2>2, <2>3 DEF Formed
<1>7. walk = [w \in Walkers |-> walk[w]] /\ copy = [r \in Replicas |-> copy[r]]
  BY <1>2, <1>3
<1>8. Feeds
  BY <1>3, <1>6, <1>7 DEF Feeds, Points
<1>9. \A w \in Walkers : Follows(w)
  BY <1>6 DEF Follows
<1>10. \A w \in Replicas : Stored(w)
  BY <1>3 DEF Stored, Copied, Within
<1> QED
  BY <1>5, <1>8, <1>9, <1>10 DEF FInv

LEMMA FeedServesHolds ==
    ASSUME IInv, FInv, FeedServes
    PROVE  FInv'
<1>1. /\ Shaped /\ Feeds /\ Numbered' /\ Advances(doc, doc', clock, clock')
      /\ doc' \in [Ids -> Resources] /\ UNCHANGED <<walk, copy, checkpoint>>
  BY DEF IInv, FInv, FeedServes
<1>2. ASSUME NEW w \in Walkers PROVE Follows(w)'
  BY <1>1, FollowsStays DEF FInv
<1>3. ASSUME NEW w \in Replicas PROVE Stored(w)'
  BY <1>1, StoredStays DEF FInv
<1>4. Feeds'
  BY <1>1 DEF Feeds
<1> QED
  BY <1>1, <1>2, <1>3, <1>4 DEF FInv

LEMMA PollFeedKept ==
    ASSUME IInv, FInv, NEW w \in Walkers, Poll(w)
    PROVE  FeedKept(w)
<1>1. /\ Shaped /\ Numbered /\ Feeds /\ Follows(w) /\ (w \in Replicas => Stored(w)) /\ Walk(w)
  BY DEF IInv, FInv, Poll
<1> QED
  BY <1>1, StartQueryKept, StartDocumentsKept, ServePageKept, SettleQueryKept, SettleDocumentsKept
     DEF Walk

LEMMA FeedKeptHolds ==
    ASSUME IInv, FInv, NEW w \in Walkers, FeedKept(w)
    PROVE  FInv'
<1>1. /\ Shaped /\ Feeds /\ Numbered /\ Feeds' /\ UNCHANGED <<doc, record, clock, issue>>
      /\ \A v \in Walkers \ {w} : walk'[v] = walk[v]
      /\ \A v \in Replicas \ {w} : copy'[v] = copy[v] /\ checkpoint'[v] = checkpoint[v]
  BY DEF IInv, FInv, FeedKept
<1>2. doc' \in [Ids -> Resources] /\ Advances(doc, doc', clock, clock')
  BY <1>1 DEF Shaped, Advances
<1>3. Numbered'
  BY <1>1 DEF Numbered
<1>4. ASSUME NEW v \in Walkers PROVE Follows(v)'
  <2>1. CASE v = w
    BY <2>1 DEF FeedKept
  <2>2. CASE v # w
    BY <1>1, <1>2, <2>2, FollowsStays DEF FInv
  <2> QED
    BY <2>1, <2>2
<1>5. ASSUME NEW v \in Replicas PROVE Stored(v)'
  <2>1. CASE v = w
    BY <2>1 DEF FeedKept
  <2>2. CASE v # w
    BY <1>1, <1>2, <2>2, StoredStays DEF FInv
  <2> QED
    BY <2>1, <2>2
<1> QED
  BY <1>1, <1>3, <1>4, <1>5 DEF FInv

LEMMA FStepHolds == IInv /\ FInv /\ [Next]_vars => FInv'
<1> SUFFICES ASSUME IInv, FInv, [Next]_vars PROVE FInv'
  OBVIOUS
<1>1. CASE UNCHANGED vars
  BY <1>1, StillServes, FeedServesHolds DEF vars, feedVars, server, replica, IInv, FInv, Numbered
<1>2. CASE Foreign
  BY <1>2, OthersServe, FeedServesHolds DEF Foreign, FInv
<1>3. ASSUME NEW w \in Walkers, Poll(w) PROVE FInv'
  BY <1>3, PollFeedKept, FeedKeptHolds
<1>4. ASSUME NEW p \in Pushers, Push(p) PROVE FInv'
  BY <1>4, PushServes, FeedServesHolds DEF FInv
<1> QED
  BY <1>1, <1>2, <1>3, <1>4 DEF Next, Quiet
-----------------------------------------------------------------------------
(* What the end of a walk tells.                                           *)

Signalled == DOMAIN signal = Replicas

LEMMA SignalledHolds == Signalled /\ [Next]_vars => Signalled'
<1> SUFFICES ASSUME Signalled, [Next]_vars PROVE Signalled'
  OBVIOUS
<1>1. CASE UNCHANGED signal
  BY <1>1 DEF Signalled
<1>2. CASE \E w, what : signal' = [signal EXCEPT ![w] = what]
  BY <1>2 DEF Signalled
<1>3. ASSUME NEW w \in Walkers, SettleQuery(w) PROVE Signalled'
  <2>1. \/ UNCHANGED signal
        \/ Told(w, "auth") \/ Told(w, "checkpoint") \/ Told(w, "error")
        \/ Told(w, "caught up") \/ Told(w, "documents")
    BY <1>3 DEF SettleQuery, QueryFailed
  <2>2. \A what : Told(w, what) => signal' = [signal EXCEPT ![w] = what]
    BY DEF Told
  <2> QED
    BY <1>1, <1>2, <2>1, <2>2
<1>4. ASSUME NEW w \in Walkers, Poll(w) PROVE Signalled'
  BY <1>1, <1>3, <1>4 DEF Poll, Walk, StartQuery, StartDocuments, ServePage, SettleDocuments, replica
<1>5. ASSUME NEW p \in Pushers, Push(p) PROVE UNCHANGED signal
  BY <1>5 DEF Push, StartGet, ServeContent, ServeMeta, SettleGet, Send, ServeWrite, SettleWrite,
              feedVars, replica
<1> QED
  BY <1>1, <1>4, <1>5 DEF Next, Quiet, Foreign, Others, vars, feedVars, replica

ToldRight(w) ==
    walk[w].at = "got" /\ walk'[w].at = "idle" /\ signal'[w] = "caught up" =>
      \A i \in Ids : IsJson(walk[w].got.of[i]) => copy'[w][i] = walk[w].got.of[i]

ReturnedRight(w) ==
    walk[w].at = "got" /\ walk'[w].at = "done" =>
      LET now == walk[w].got.of
      IN walk'[w].latest = [i \in {j \in Ids : now[j].live /\ now[j].json} |-> now[i]]

LEMMA SettlesRight ==
    ASSUME Feeds, Signalled, NEW w \in Replicas, Follows(w), SettleQuery(w)
    PROVE  ToldRight(w)
<1> DEFINE page == walk[w].got
           point == walk[w].point
<1> SUFFICES ASSUME walk'[w].at = "idle", signal'[w] = "caught up", NEW i \in Ids, IsJson(page.of[i])
             PROVE  copy'[w][i] = page.of[i]
  BY DEF ToldRight
<1>1. /\ walk[w].at = "got" /\ Formed(walk[w]) /\ w \in Walkers
      /\ \A what : Told(w, what) => what = "caught up"
  <2>1. DOMAIN signal = Replicas
    BY DEF Signalled
  <2>2. \A what : Told(w, what) => signal'[w] = what
    BY <2>1 DEF Told
  <2> QED
    BY <2>2 DEF SettleQuery, Feeds, Walkers
<1>2. ~QueryFailed(w, page.answer) /\ ~Told(w, "error") /\ ~Told(w, "documents")
  BY <1>1 DEF QueryFailed
<1>3. walk' # [walk EXCEPT ![w] = Resumed(w, page)]
  <2> SUFFICES ASSUME walk' = [walk EXCEPT ![w] = Resumed(w, page)] PROVE FALSE
    OBVIOUS
  <2>1. walk'[w] = Resumed(w, page)
    BY <1>1, WalkSet
  <2>2. Resumed(w, page).at = "asked"
    <3> DEFINE next == Resumed(w, page)
    <3>1. next \in [at : {"asked"}, method : {walk[w].method}, point : {page.next}, pages : {walk[w].pages + 1},
                    got : {Unread}, seen : {walk[w].seen \union {page.next}}, latest : {walk[w].latest}]
      BY <1>1, ResumedFields
    <3> HIDE DEF next
    <3>2. next.at = "asked"
      BY <3>1
    <3> QED
      BY <3>2 DEF next
  <2> QED
    BY <2>1, <2>2
<1>4. /\ Sound(page) /\ Returned(page) /\ Moved(page) = {}
      /\ copy' = [copy EXCEPT ![w] = [j \in Ids |-> IF j \in Moved(page) THEN page.of[j] ELSE @[j]]]
  BY <1>2, <1>3 DEF SettleQuery, Sound
<1>5. TellsEnd(page, point) /\ Copied(copy[w], page.of, point)
  BY <1>1, <1>4 DEF Follows, Meets, Returned
<1>6. copy'[w][i] = copy[w][i]
  <2> HIDE DEF page
  <2>1. DOMAIN copy = Replicas
    BY DEF Feeds
  <2> QED
    BY <1>4, <2>1
<1>7. Within(Stamp(page.of[i]), point)
  BY <1>5, StampTyped DEF TellsEnd
<1> HIDE DEF page, point
<1> QED
  BY <1>5, <1>6, <1>7 DEF Copied

LEMMA ReturnsRight ==
    ASSUME Feeds, NEW w \in Readers, Follows(w), SettleDocuments(w)
    PROVE  ReturnedRight(w)
<1> DEFINE page == walk[w].got
           point == walk[w].point
           latest == walk[w].latest
           Ends(how) == walk' = [walk EXCEPT ![w].at = how, ![w].latest = Latest(w, page)]
<1>1. walk[w].at = "got" /\ Formed(walk[w]) /\ w \in Walkers
  BY DEF SettleDocuments, Feeds, Walkers
<1>2. ASSUME NEW how, Ends(how) PROVE walk'[w].at = how /\ walk'[w].latest = Latest(w, page)
  <2> DEFINE r == walk[w]
             next == Latest(w, page)
             k == [r EXCEPT !.at = how, !.latest = next]
  <2>1. walk' = [walk EXCEPT ![w] = k]
    BY <1>2
  <2>2. r \in [at : {r.at}, method : {r.method}, point : {r.point}, pages : {r.pages}, got : {r.got},
               seen : {r.seen}, latest : {r.latest}]
    BY <1>1 DEF Formed
  <2> HIDE DEF r, next
  <2>3. k.at = how /\ k.latest = next
    BY <2>2
  <2> HIDE DEF k
  <2>4. walk'[w] = k
    BY <1>1, <2>1, WalkSet
  <2> QED
    BY <2>3, <2>4 DEF next
<1>3. CASE Ends("done") /\ Sound(page) /\ page.next = None
  <2>1. TellsEnd(page, point) /\ Collected(latest, page.of, point)
    BY <1>1, <1>3 DEF Follows, Meets
  <2> DEFINE now == page.of
             live == {j \in Ids : now[j].live /\ now[j].json}
  <2>2. Latest(w, page) = [i \in DOMAIN latest |-> latest[i]]
    <3>1. page.ids = {}
      BY <2>1 DEF TellsEnd
    <3> HIDE DEF page
    <3> QED
      BY <3>1 DEF Latest
  <2>3. walk'[w].latest = Latest(w, page)
    BY <1>2, <1>3
  <2> HIDE DEF latest, page, point
  <2>4. \A i \in Ids : Stamp(now[i]) > 0 => Within(Stamp(now[i]), point)
    BY <2>1 DEF TellsEnd
  <2>5. \A i \in Ids : i \in DOMAIN latest <=> now[i].live /\ now[i].json
    BY <2>1, <2>4 DEF Collected, TellsEnd
  <2>6. DOMAIN latest = live /\ \A i \in DOMAIN latest : latest[i] = now[i]
    BY <2>1, <2>4, <2>5 DEF Collected
  <2>7. walk'[w].latest = [i \in live |-> now[i]]
    BY <2>2, <2>3, <2>6
  <2> QED
    BY <2>7 DEF ReturnedRight, page
<1>4. CASE Ends("null") \/ Ends("failed")
  <2>1. walk'[w].at # "done"
    BY <1>2, <1>4
  <2> QED
    BY <2>1 DEF ReturnedRight
<1>5. CASE walk' = [walk EXCEPT ![w] = [Resumed(w, page) EXCEPT !.latest = Latest(w, page)]]
  <2> DEFINE next == Resumed(w, page)
             met == Latest(w, page)
             k == [next EXCEPT !.latest = met]
  <2>1. walk' = [walk EXCEPT ![w] = k]
    BY <1>5
  <2>2. next \in [at : {"asked"}, method : {walk[w].method}, point : {page.next}, pages : {walk[w].pages + 1},
                  got : {Unread}, seen : {walk[w].seen \union {page.next}}, latest : {walk[w].latest}]
    BY <1>1, ResumedFields
  <2> HIDE DEF next, met
  <2>3. k.at = "asked"
    BY <2>2
  <2> HIDE DEF k
  <2>4. walk'[w] = k
    BY <1>1, <2>1, WalkSet
  <2> QED
    BY <2>3, <2>4 DEF ReturnedRight
<1>6. \/ Ends("null") \/ Ends("failed")
      \/ Ends("done") /\ Sound(page) /\ page.next = None
      \/ walk' = [walk EXCEPT ![w] = [Resumed(w, page) EXCEPT !.latest = Latest(w, page)]]
  <2> HIDE DEF Ends
  <2> QED
    BY DEF SettleDocuments, Sound, Ends
<1> HIDE DEF Ends
<1> QED
  BY <1>3, <1>4, <1>5, <1>6

LEMMA EndsRight ==
    ASSUME IInv, FInv, Signalled, [Next]_vars
    PROVE  (\A w \in Replicas : ToldRight(w)) /\ \A w \in Readers : ReturnedRight(w)
<1>1. Feeds /\ \A w \in Walkers : Follows(w)
  BY DEF FInv
<1>2. ASSUME NEW w, walk'[w] = walk[w] PROVE ToldRight(w) /\ ReturnedRight(w)
  BY <1>2 DEF ToldRight, ReturnedRight
<1>3. CASE UNCHANGED walk
  BY <1>2, <1>3
<1>4. ASSUME NEW v \in Walkers, Poll(v)
      PROVE  (\A w \in Replicas : ToldRight(w)) /\ \A w \in Readers : ReturnedRight(w)
  <2>1. \A w \in Walkers \ {v} : walk'[w] = walk[w]
    BY <1>4, PollFeedKept DEF FeedKept
  <2>2. walk[v].at # "got" => ToldRight(v) /\ ReturnedRight(v)
    BY DEF ToldRight, ReturnedRight
  <2>3. CASE v \in Replicas
    <3>1. v \notin Readers
      BY <2>3, WalkersTyped DEF WalkersTyped
    <3>2. walk[v].at = "got" => SettleQuery(v)
      BY <1>4, <3>1 DEF Poll, Walk, StartQuery, StartDocuments, ServePage, SettleDocuments
    <3>3. ToldRight(v)
      BY <1>1, <2>2, <2>3, <3>2, SettlesRight
    <3> QED
      BY <1>2, <2>1, <3>1, <3>3 DEF Walkers
  <2>4. CASE v \in Readers
    <3>1. v \notin Replicas
      BY <2>4, WalkersTyped DEF WalkersTyped
    <3>2. walk[v].at = "got" => SettleDocuments(v)
      BY <1>4, <3>1 DEF Poll, Walk, StartQuery, StartDocuments, ServePage, SettleQuery
    <3>3. ReturnedRight(v)
      BY <1>1, <2>2, <2>4, <3>2, ReturnsRight
    <3> QED
      BY <1>2, <2>1, <3>1, <3>3 DEF Walkers
  <2> QED
    BY <2>3, <2>4 DEF Walkers
<1>5. ASSUME NEW p \in Pushers, Push(p) PROVE UNCHANGED walk
  BY <1>5 DEF Push, StartGet, ServeContent, ServeMeta, SettleGet, Send, ServeWrite, SettleWrite,
              feedVars
<1> QED
  BY <1>3, <1>4, <1>5 DEF Next, Quiet, Foreign, Others, vars, feedVars

(* A replica told it has caught up holds every JSON document as the server *)
(* had it, and documents() returns the Collection as of its last page:     *)
(* for any Collection, pages of any size, any number of faulty pages, and  *)
(* whoever writes, retypes or restores in between.                         *)
THEOREM EndsAreCurrent == Spec => CaughtUpIsCurrent
<1>1. Init => IInv /\ FInv /\ Signalled
  BY InitHolds, FInitHolds DEF Init, FeedInit, Signalled
<1>2. IInv /\ FInv /\ Signalled /\ [Next]_vars => IInv' /\ FInv' /\ Signalled'
  BY StepHolds, FStepHolds, SignalledHolds
<1>3. IInv /\ FInv /\ Signalled /\ [Next]_vars =>
        [/\ \A w \in Replicas :
              walk[w].at = "got" /\ walk'[w].at = "idle" /\ signal'[w] = "caught up" =>
                \A i \in Ids : IsJson(walk[w].got.of[i]) => copy'[w][i] = walk[w].got.of[i]
         /\ \A w \in Readers :
              walk[w].at = "got" /\ walk'[w].at = "done" =>
                LET now == walk[w].got.of
                IN walk'[w].latest = [i \in {j \in Ids : now[j].live /\ now[j].json} |-> now[i]]]_feedVars
  BY EndsRight DEF ToldRight, ReturnedRight
<1> QED
  BY <1>1, <1>2, <1>3, PTL DEF Spec, CaughtUpIsCurrent
=============================================================================
