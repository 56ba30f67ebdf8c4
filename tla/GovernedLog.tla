----------------------------- MODULE GovernedLog -----------------------------
(***************************************************************************)
(* Descriptors governed by a Collection's history log                      *)
(* (src/edv/logGovernedDescriptorStore.ts, src/log/logStore.ts, and the    *)
(* transport methods of src/Collection.ts).                                *)
(*                                                                         *)
(* Clients work through store instances; a store keeps what its last read  *)
(* saw.  The Collection serves two objects: its description, whose         *)
(* descriptor the server (external) projects from the log once there is    *)
(* one, and the log.  A request is answered in one step and the answer     *)
(* settles in another.  The library behind the store (external) verifies   *)
(* an entry's chain and view, and keeps the reader's pin; a controller     *)
(* view is the number of its versions.                                     *)
(***************************************************************************)
EXTENDS Naturals, Sequences, FiniteSets

CONSTANTS Calls, Kinds,  \* calls, and what each may be: update, seeded, create, seal
          Stores, StoreOf, \* store instances, and the one a call works on
          None,
          Starts,        \* descriptors there may be at first: none, client, log, foreign
          MaxTries,      \* attempts of an update or a seal
          MaxViews,      \* versions the controller document reaches
          Lagging,       \* a resolver may answer an earlier view
          Losses,        \* answers to writes that may be lost
          Strangers,     \* another client may append state of another type
          Sharing        \* calls on one store may overlap, and a replace may be
                         \* seeded over what another call left in its store

VARIABLES log, tag,      \* the log served, and its validator
          client, dtag,  \* the client-written descriptor, the description's validator
          view,          \* the controller's newest view
          lost,          \* writes whose answer was lost
          held,          \* what each store verified last, and under which view
          body,          \* the bytes each store read last (lastReadBody)
          described,     \* the description each store read last
          pin,           \* the chain head each store pinned
          pc, call

server == <<log, tag, client, dtag>>
store == <<held, body, described, pin>>
vars == <<server, view, lost, store, pc, call>>

(* A descriptor is the updates made to it.                                 *)
Descriptors == SUBSET Calls
Types == {"epochs", "foreign"}
Ids == (Calls \union {None}) \X (0 .. MaxTries)
EntryType == [id : Ids, prev : Ids \union {None}, type : Types,
              state : Descriptors, view : 1 .. MaxViews]

ASSUME StoresTyped == StoreOf \in [Calls -> Stores]
ASSUME KindsTyped == Kinds \in [Calls -> SUBSET {"update", "seeded", "create", "seal"}]
ASSUME BoundsTyped ==
    /\ MaxTries \in Nat \ {0} /\ MaxViews \in Nat \ {0} /\ Losses \in Nat /\ None \notin Calls
    /\ Starts \subseteq {"none", "client", "log", "foreign"}
    /\ Lagging \in BOOLEAN /\ Strangers \in BOOLEAN /\ Sharing \in BOOLEAN

(* Nothing read, quoted or written is the absence of it.                   *)
Validators == [of : {"log", "description"}, at : Nat]
ASSUME NoneApart ==
    /\ None \notin Validators \union {"none", "client", "governed", "seeded", "seal"}
    /\ \A d \in Descriptors : d # None

HeadOf(entries) == entries[Len(entries)]

Genesis(type) == [id |-> <<None, 0>>, prev |-> None, type |-> type, state |-> {}, view |-> 1]

(* What the description says: nothing, a client's descriptor, or the       *)
(* projection of the log's head.                                           *)
Served ==
    CASE log # <<>> -> [as |-> "governed", state |-> HeadOf(log).state, type |-> HeadOf(log).type]
      [] log = <<>> /\ client # None -> [as |-> "client", state |-> client, type |-> "epochs"]
      [] OTHER -> [as |-> "none", state |-> {}, type |-> "epochs"]

Idle == [kind |-> None, tries |-> 0, desc |-> None, ifMatch |-> None, on |-> None,
         view |-> 0, sent |-> None, got |-> None, next |-> None, out |-> "none"]

NotHeld == [entries |-> <<>>, view |-> 0]

(* Validators (ETags) of the two objects.                                  *)
LogTag == [of |-> "log", at |-> tag]
DescriptionTag == [of |-> "description", at |-> dtag]

(* resolveController: the caller's current view.                           *)
Resolvable == {v \in 1 .. view : v = view \/ (Lagging /\ v = view - 1)}
-----------------------------------------------------------------------------
(* Verification.                                                           *)

Chained(entries) ==
    \A i \in 2 .. Len(entries) :
      entries[i].prev = entries[i - 1].id /\ entries[i].view >= entries[i - 1].view

(* What the library makes of a log under a view and a pin.                 *)
Verdict(entries, v, pinned) ==
    CASE ~Chained(entries) -> "Integrity"
      [] Chained(entries) /\ \E i \in DOMAIN entries : entries[i].view > v -> "Behind"
      [] OTHER -> IF pinned # None /\ \A i \in DOMAIN entries : entries[i].id # pinned
                  THEN "Rollback" ELSE "ok"

(* Faulty variant: whatever a log carries is a descriptor.                 *)
AnyState(entries) == TRUE

(* assertEpochConfigurationState.                                          *)
IsEpochConfiguration(entries) == HeadOf(entries).type = "epochs"

ViewCarriesHeadOf(earlier, v) == v >= earlier.view
-----------------------------------------------------------------------------
(* The requests.                                                           *)

End(c, out) == [call EXCEPT ![c].out = out]
At(c, label) == pc' = [pc EXCEPT ![c] = label]
Ended(c, out) == At(c, "ended") /\ call' = End(c, out)

LastTry(c) == call[c].kind = "seeded" \/ call[c].tries >= MaxTries

(* A conflict is retried from a read.                                      *)
Retried(c) ==
    IF ~LastTry(c)
    THEN /\ At(c, IF call[c].kind = "seal" THEN "readLog" ELSE "describe")
         /\ call' = [call EXCEPT ![c].tries = @ + 1, ![c].ifMatch = None,
                                 ![c].next = IF call[c].kind = "seal" THEN "seal" ELSE "compare"]
    ELSE Ended(c, "conflict")

Describe(c) ==
    /\ pc[c] = "describe"
    /\ At(c, "described")
    /\ call' = [call EXCEPT ![c].got = [desc |-> Served, etag |-> DescriptionTag]]
    /\ UNCHANGED <<server, view, lost, store>>

ReadLog(c) ==
    /\ pc[c] = "readLog"
    /\ At(c, "gotLog")
    /\ call' = [call EXCEPT ![c].got = [entries |-> log, etag |-> LogTag]]
    /\ UNCHANGED <<server, view, lost, store>>

(* The answer to a write may be lost after the server took it.             *)
Answer(c, out) ==
    \/ At(c, out) /\ UNCHANGED <<lost, call>>
    \/ lost < Losses /\ lost' = lost + 1 /\ Ended(c, "lost")

(* A first log is put where there is none, a later one over the one read.  *)
Guarded(c) ==
    IF call[c].ifMatch = None THEN log = <<>> /\ client = None
    ELSE call[c].ifMatch = LogTag /\ log # <<>>

(* The log is replaced whole; the server does not check that its chain     *)
(* continues.                                                              *)
PutLog(c) ==
    LET sent == call[c].sent
        guarded == Guarded(c)
    IN /\ pc[c] = "putLog" /\ UNCHANGED <<client, view, store>>
       /\ \/ /\ guarded
             /\ log' = sent /\ tag' = tag + 1 /\ dtag' = dtag + 1
             /\ Answer(c, "put")
          \/ /\ ~guarded
             /\ UNCHANGED <<log, tag, dtag, lost>>
             /\ IF call[c].kind = "create" /\ log # <<>>
                THEN At(c, "readLog") /\ call' = [call EXCEPT ![c].next = "adopt"]
                ELSE IF call[c].kind = "create" THEN Ended(c, "refused") ELSE Retried(c)

(* replaceDescription of a descriptor no log governs; refused once one     *)
(* does.                                                                   *)
PutDescription(c) ==
    /\ pc[c] = "putDescription" /\ UNCHANGED <<log, tag, view, store>>
    /\ \/ /\ call[c].ifMatch = DescriptionTag /\ log = <<>>
          /\ client' = call[c].desc /\ dtag' = dtag + 1
          /\ Answer(c, "written")
       \/ /\ ~(call[c].ifMatch = DescriptionTag /\ log = <<>>)
          /\ UNCHANGED <<client, dtag, lost>>
          /\ IF call[c].ifMatch = DescriptionTag THEN Ended(c, "refused") ELSE Retried(c)
-----------------------------------------------------------------------------
(* The store.                                                              *)

(* Faulty variant: the change is made to an empty descriptor.              *)
MadeAfresh(c, desc, etag) ==
    IF call[c].kind = "seeded" THEN call[c]
    ELSE [call[c] EXCEPT !.desc = {c}, !.ifMatch = etag]

(* The descriptor the write sends, once it was read.                       *)
Mutated(c, desc, etag) ==
    IF call[c].kind = "seeded" THEN call[c]
    ELSE [call[c] EXCEPT !.desc = desc \union {c}, !.ifMatch = etag]

(* Faulty variant: any mismatch of projection and head is tampering.       *)
NeverBehind(entries, projection) == FALSE

(* The projection is behind the log: it states an earlier entry.           *)
ProjectionBehind(entries, projection) ==
    \E i \in 1 .. Len(entries) - 1 : entries[i].state = projection.state

(* read, up to the pointer.                                                *)
SettleDescribe(c) ==
    LET got == call[c].got.desc
    IN /\ pc[c] = "described"
       /\ described' = [described EXCEPT ![StoreOf[c]] = got.as]
       /\ CASE got.as = "none" -> Ended(c, "absent")
            [] got.as = "client" ->
                 At(c, "replace") /\ call' = [call EXCEPT ![c] = Mutated(c, got.state, call[c].got.etag)]
            [] OTHER -> \E v \in Resolvable :
                 At(c, "readLog") /\ call' = [call EXCEPT ![c].view = v, ![c].on = got,
                                                          ![c].next = "compare"]
       /\ UNCHANGED <<server, view, lost, held, body, pin>>

(* Adopts a verified log, or ends the call.                                *)
Adopt(c, entries, verdict) ==
    LET s == StoreOf[c]
    IN /\ pin' = IF verdict = "ok" THEN [pin EXCEPT ![s] = HeadOf(entries).id] ELSE pin
       /\ held' = IF verdict = "ok" /\ IsEpochConfiguration(entries)
                  THEN [held EXCEPT ![s] = [entries |-> entries, view |-> call[c].view]]
                  ELSE held

Compared(c, entries) ==
    LET projection == call[c].on
    IN IF HeadOf(entries).state = projection.state
       THEN At(c, "replace")
            /\ call' = [call EXCEPT ![c] = Mutated(c, HeadOf(entries).state, call[c].got.etag)]
       ELSE IF ProjectionBehind(entries, projection)
       THEN Retried(c) ELSE Ended(c, "Integrity")

(* The sweep appends the head's state again when the head was written      *)
(* under an earlier view.                                                  *)
Swept(c, entries) ==
    IF HeadOf(entries).view >= call[c].view THEN Ended(c, "noop")
    ELSE /\ At(c, "append")
         /\ call' = [call EXCEPT ![c].on = entries, ![c].desc = HeadOf(entries).state,
                                 ![c].ifMatch = call[c].got.etag]

(* A read of the log settles: its bytes are kept before it is verified.    *)
SettleLog(c) ==
    LET s == StoreOf[c]
        entries == call[c].got.entries
        verdict == Verdict(entries, call[c].view, pin[s])
        ours == IsEpochConfiguration(entries)
        found == \E i \in DOMAIN entries : entries[i].id = HeadOf(call[c].sent).id
    IN /\ pc[c] = "gotLog" /\ UNCHANGED <<server, view, lost>>
       /\ described' = IF verdict = "ok" /\ ours /\ call[c].next = "confirm" /\ call[c].kind = "create"
                       THEN [described EXCEPT ![s] = None] ELSE described
       /\ body' = [body EXCEPT ![s] = entries]
       /\ Adopt(c, entries, verdict)
       /\ CASE verdict # "ok" -> Ended(c, verdict)
            [] verdict = "ok" /\ ~ours -> Ended(c, "Foreign")
            [] OTHER ->
                 CASE call[c].next = "compare" -> Compared(c, entries)
                   [] call[c].next = "acquire" -> At(c, "replace") /\ UNCHANGED call
                   [] call[c].next = "seal" -> Swept(c, entries)
                   [] call[c].next = "adopt" -> Ended(c, "conflict")
                   [] OTHER -> Ended(c, IF found THEN "ok" ELSE "unconfirmed")

(* replace: the head and its view are taken from the store, whoever read   *)
(* them last; an unread store reads first.                                 *)
Replace(c) ==
    LET s == StoreOf[c]
    IN /\ pc[c] = "replace"
       /\ CASE described[s] = None -> At(c, "describe") /\ UNCHANGED call
            [] described[s] \in {"none", "client"} -> At(c, "putDescription") /\ UNCHANGED call
            [] described[s] = "governed" /\ held[s] = NotHeld -> \E v \in Resolvable :
                 At(c, "readLog") /\ call' = [call EXCEPT ![c].view = v, ![c].next = "acquire"]
            [] OTHER -> At(c, "append")
                 /\ call' = [call EXCEPT ![c].on = held[s].entries, ![c].view = held[s].view]
       /\ UNCHANGED <<server, view, lost, store>>

(* Faulty variant: the entry is appended whatever view it is made under.   *)
AnyView(c, v) == TRUE

(* The view resolved for the write extends the one the head was verified   *)
(* under.                                                                  *)
ViewAdmits(c, v) == ViewCarriesHeadOf([view |-> call[c].view], v)

(* The entry is built on the head the call took, and sent after the bytes  *)
(* the store read last.                                                    *)
SendAppend(c) ==
    LET s == StoreOf[c]
        Entry(v) == [id |-> <<c, call[c].tries>>, prev |-> HeadOf(call[c].on).id,
                     type |-> "epochs", state |-> call[c].desc, view |-> v]
    IN /\ pc[c] = "append"
       /\ \E v \in IF call[c].kind = "seal" THEN {call[c].view} ELSE Resolvable :
            IF ViewAdmits(c, v)
            THEN /\ At(c, "putLog")
                 /\ call' = [call EXCEPT ![c].sent = Append(body[s], Entry(v)), ![c].view = v]
            ELSE Retried(c)
       /\ UNCHANGED <<server, view, lost, store>>

(* The write succeeded: the log is read back, to confirm it.               *)
Confirm(c) ==
    /\ pc[c] = "put"
    /\ body' = [body EXCEPT ![StoreOf[c]] = call[c].sent]
    /\ At(c, "readLog")
    /\ call' = [call EXCEPT ![c].next = "confirm"]
    /\ UNCHANGED <<server, view, lost, held, described, pin>>

Written(c) ==
    /\ pc[c] = "written"
    /\ Ended(c, "ok")
    /\ UNCHANGED <<server, view, lost, store>>
-----------------------------------------------------------------------------
(* The sweep trusts what the store holds, if the view extends it, and      *)
(* needs no read when that head is recent enough.                          *)
SealFrom(c, v) ==
    LET s == StoreOf[c]
        trusted == held[s].entries # <<>> /\ ViewCarriesHeadOf(held[s], v)
    IN IF trusted /\ HeadOf(held[s].entries).view >= v
       THEN At(c, "ended") /\ call' = [call EXCEPT ![c].kind = "seal", ![c].out = "noop"]
       ELSE /\ At(c, "readLog")
            /\ call' = [call EXCEPT ![c].kind = "seal", ![c].view = v, ![c].next = "seal"]

(* create sends a first entry, made under the view it resolves.            *)
CreateFrom(c, v) ==
    /\ At(c, "putLog")
    /\ call' = [call EXCEPT ![c].kind = "create", ![c].view = v,
         ![c].sent = <<[Genesis("epochs") EXCEPT !.id = <<c, 0>>, !.view = v, !.state = {c}]>>]

Busy(s) == \E c \in Calls : StoreOf[c] = s /\ pc[c] \notin {"idle", "ended"}

Start(c) ==
    /\ pc[c] = "idle" /\ (Sharing \/ ~Busy(StoreOf[c]))
    /\ \E kind \in Kinds[c] :
         CASE kind = "update" ->
                At(c, "describe") /\ call' = [call EXCEPT ![c].kind = kind]
           [] kind = "seeded" ->
                /\ Served.as = "governed" /\ Served.type = "epochs"
                /\ Sharing \/ held[StoreOf[c]] = NotHeld
                /\ At(c, "replace")
                /\ call' = [call EXCEPT ![c].kind = kind, ![c].ifMatch = LogTag,
                                        ![c].desc = HeadOf(log).state \union {c}]
           [] kind = "create" -> \E v \in Resolvable : CreateFrom(c, v)
           [] OTHER -> \E v \in Resolvable : log # <<>> /\ SealFrom(c, v)
    /\ UNCHANGED <<server, view, lost, store>>

(* The controller document gains a version.                                *)
Rekey ==
    /\ view < MaxViews
    /\ view' = view + 1
    /\ UNCHANGED <<server, lost, store, pc, call>>

(* An older client appends state of another type.                          *)
Foreign ==
    /\ Strangers /\ log # <<>> /\ HeadOf(log).type = "epochs"
    /\ log' = Append(log, [Genesis("foreign") EXCEPT !.id = <<None, 1>>, !.prev = HeadOf(log).id,
                                                     !.view = HeadOf(log).view])
    /\ tag' = tag + 1 /\ dtag' = dtag + 1
    /\ UNCHANGED <<client, view, lost, store, pc, call>>

Init ==
    /\ view = 1 /\ lost = 0 /\ tag = 1 /\ dtag = 1
    /\ \E start \in Starts :
         /\ log = CASE start = "log" -> <<Genesis("epochs")>>
                    [] start = "foreign" -> <<Genesis("foreign")>>
                    [] OTHER -> <<>>
         /\ client = IF start = "client" THEN {} ELSE None
    /\ held = [s \in Stores |-> NotHeld] /\ body = [s \in Stores |-> <<>>]
    /\ described = [s \in Stores |-> None] /\ pin = [s \in Stores |-> None]
    /\ pc = [c \in Calls |-> "idle"]
    /\ call = [c \in Calls |-> Idle]

Step(c) ==
    \/ Describe(c) \/ SettleDescribe(c) \/ ReadLog(c) \/ SettleLog(c) \/ Replace(c)
    \/ SendAppend(c) \/ PutLog(c) \/ PutDescription(c) \/ Confirm(c) \/ Written(c)

Quiet == (\A c \in Calls : pc[c] \in {"idle", "ended"}) /\ UNCHANGED vars

Next == Rekey \/ Foreign \/ Quiet \/ \E c \in Calls : Start(c) \/ Step(c)

Spec == Init /\ [][Next]_vars
-----------------------------------------------------------------------------
(* Properties.                                                             *)

(* Every variable keeps its shape, and a validator counts the writes.      *)
TypeOK ==
    /\ log \in Seq(EntryType) /\ tag \in Nat /\ dtag >= tag
    /\ client \in Descriptors \union {None}
    /\ view \in 1 .. MaxViews /\ lost \in 0 .. Losses
    /\ \A s \in Stores : held[s].entries \in Seq(EntryType) /\ body[s] \in Seq(EntryType)
    /\ \A s \in Stores : held[s].view <= view
    /\ \A c \in Calls : call[c].tries <= MaxTries

(* The log is only ever extended, entry by entry, each on the head before  *)
(* it: a stale head loses the compare-and-swap instead of forking.         *)
AppendOnly == INSTANCE HistoryLog
ExtendsTheLog == AppendOnly!Spec

(* An update that was reported done is in the descriptor in force, however *)
(* many stores, retries and lost answers it took.                          *)
NoUpdateLost ==
    \A c \in Calls :
      call[c].out = "ok" /\ call[c].kind # "seal" /\ Served.type = "epochs" =>
        c \in Served.state

(* An honest server is never accused: a projection read before its log, a  *)
(* racing append or a lost answer is a conflict to retry, not tampering.   *)
NoFalseAlarm ==
    \A c \in Calls : call[c].out \notin {"Integrity", "Rollback", "unconfirmed"}

(* A log whose head is no epoch configuration is never extended, not even  *)
(* by a sweep, which re-appends whatever state it finds.                   *)
ForeignUntouched ==
    [][log # <<>> /\ HeadOf(log).type = "foreign" => log' = log]_vars
=============================================================================
