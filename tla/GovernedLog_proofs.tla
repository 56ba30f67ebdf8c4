------------------------- MODULE GovernedLog_proofs -------------------------
(***************************************************************************)
(* Proofs about GovernedLog, for every set of calls, stores and kinds of   *)
(* call, any number of attempts and views, with and without strangers,     *)
(* lost answers and resolvers that lag behind.                             *)
(*                                                                         *)
(* The first part holds however calls share a store: no update that was    *)
(* reported done is lost, and a foreign log stays as it is.  The second    *)
(* needs each store used by one call at a time: the log is only extended,  *)
(* and nobody is accused falsely.                                          *)
(***************************************************************************)
EXTENDS GovernedLog, SequenceTheorems, TLAPS

Entries == Seq(EntryType)
Logs == Entries \ {<<>>}

CallFields == {"kind", "tries", "desc", "ifMatch", "on", "view", "sent", "got", "next", "out"}

Shaped ==
    /\ DOMAIN pc = Calls /\ DOMAIN call = Calls
    /\ \A c \in Calls : DOMAIN call[c] = CallFields
    /\ DOMAIN held = Stores /\ DOMAIN body = Stores
    /\ DOMAIN described = Stores /\ DOMAIN pin = Stores

(* The objects served: a log or a client's descriptor, never both.         *)
ServerHolds ==
    /\ log \in Entries /\ tag \in Nat /\ dtag \in Nat /\ dtag >= tag
    /\ client \in Descriptors \union {None} /\ (log # <<>> => client = None)
    /\ view \in 1 .. MaxViews /\ lost \in 0 .. Losses

StoreHolds(s) ==
    /\ held[s].entries \in Entries /\ held[s].view \in 0 .. view
    /\ held[s] # NotHeld => held[s].entries # <<>> /\ held[s].view > 0
    /\ body[s] \in Entries
    /\ described[s] \in {None, "none", "client", "governed"}
    /\ described[s] = "governed" => log # <<>>

(* What a call will write over: the validator it quotes is an old one, or  *)
(* the descriptor it sends is the one in force and the call's own change.  *)
Pinned(c) ==
    LET k == call[c]
    IN k.ifMatch # None =>
         /\ k.ifMatch \in Validators
         /\ k.ifMatch.of = "log" => k.ifMatch.at <= tag
         /\ k.ifMatch.of = "description" => k.ifMatch.at <= dtag
         /\ k.desc \in Descriptors /\ (k.kind # "seal" => c \in k.desc)
         /\ k.ifMatch = LogTag =>
              log # <<>> /\ HeadOf(log).type = "epochs" /\ HeadOf(log).state \subseteq k.desc
         /\ k.ifMatch = DescriptionTag /\ client # None => client \subseteq k.desc

(* What a call has read.                                                   *)
Reading(c) ==
    LET got == call[c].got
    IN /\ pc[c] = "described" =>
            /\ got.etag \in Validators /\ got.etag.of = "description" /\ got.etag.at <= dtag
            /\ got.desc.as \in {"none", "client", "governed"} /\ got.desc.state \in Descriptors
            /\ got.desc.as = "governed" => log # <<>>
            /\ got.etag = DescriptionTag => got.desc = Served
       /\ pc[c] = "gotLog" =>
            /\ got.etag \in Validators /\ got.etag.of = "log" /\ got.etag.at <= tag
            /\ got.entries \in Logs /\ (got.etag = LogTag => got.entries = log)
       /\ pc[c] \in {"readLog", "gotLog"} =>
            /\ log # <<>> /\ call[c].view > 0
            /\ call[c].next \in {"compare", "acquire", "seal", "adopt", "confirm"}
            /\ call[c].next = "acquire" => call[c].ifMatch # None
            /\ call[c].next = "seal" => call[c].kind = "seal"

(* What a call is about to send.                                           *)
Sending(c) ==
    LET k == call[c]
    IN /\ k.kind = "seal" => log # <<>> /\ (pc[c] # "ended" => k.view > 0)
       /\ k.kind = "seeded" => k.ifMatch # None
       /\ pc[c] \in {"replace", "append", "putDescription"} => k.ifMatch # None
       /\ pc[c] = "append" => k.on \in Logs /\ k.view > 0
       /\ pc[c] = "putLog" =>
            /\ k.sent \in Logs /\ k.view > 0
            /\ HeadOf(k.sent).type = "epochs"
            /\ k.kind # "seal" => c \in HeadOf(k.sent).state
            /\ k.ifMatch # None => HeadOf(k.sent).state = k.desc
       /\ pc[c] = "put" => k.sent \in Logs /\ k.view > 0 /\ log # <<>>

(* A change that was made is in the descriptor in force.                   *)
Settling(c) ==
    \/ pc[c] \in {"put", "written"}
    \/ pc[c] \in {"readLog", "gotLog"} /\ call[c].next = "confirm"
    \/ call[c].out = "ok"

InForce(c) == Served.type = "epochs" => c \in Served.state

Reported(c) ==
    /\ pc[c] # "ended" => call[c].out = "none"
    /\ pc[c] = "idle" => call[c] = Idle
    /\ call[c].kind # "seal" /\ Settling(c) => InForce(c)

Knows(c) ==
    /\ call[c].tries \in 0 .. MaxTries /\ call[c].view \in 0 .. view
    /\ Pinned(c) /\ Reading(c) /\ Sending(c) /\ Reported(c)

IInv ==
    /\ Shaped /\ ServerHolds
    /\ \A s \in Stores : StoreHolds(s)
    /\ \A c \in Calls : Knows(c)
-----------------------------------------------------------------------------
(* Logs.                                                                   *)

LEMMA HeadTyped ==
    ASSUME NEW entries \in Logs
    PROVE  /\ Len(entries) \in Nat \ {0} /\ DOMAIN entries = 1 .. Len(entries)
           /\ HeadOf(entries) \in EntryType /\ HeadOf(entries) = entries[Len(entries)]
<1>1. entries \in Seq(EntryType) /\ entries # <<>>
  BY DEF Logs, Entries
<1>2. Len(entries) \in Nat /\ DOMAIN entries = 1 .. Len(entries) /\ Len(entries) # 0
  BY <1>1, LenProperties, EmptySeq
<1> QED
  BY <1>1, <1>2, ElementOfSeq DEF HeadOf

LEMMA Appended ==
    ASSUME NEW entries \in Entries, NEW e \in EntryType
    PROVE  /\ Append(entries, e) \in Logs /\ HeadOf(Append(entries, e)) = e
           /\ Len(Append(entries, e)) = Len(entries) + 1
           /\ \A i \in DOMAIN entries : Append(entries, e)[i] = entries[i]
<1>1. entries \in Seq(EntryType) /\ Len(entries) \in Nat
  BY LenProperties DEF Entries
<1>2. /\ Append(entries, e) \in Seq(EntryType)
      /\ Len(Append(entries, e)) = Len(entries) + 1
      /\ \A i \in 1 .. Len(entries) : Append(entries, e)[i] = entries[i]
      /\ Append(entries, e)[Len(entries) + 1] = e
  BY <1>1, AppendProperties
<1>3. Append(entries, e) # <<>>
  BY <1>1, <1>2, EmptySeq
<1> QED
  BY <1>1, <1>2, <1>3, LenProperties DEF Logs, Entries, HeadOf

LEMMA Alone1 ==
    ASSUME NEW e \in EntryType
    PROVE  <<e>> \in Logs /\ HeadOf(<<e>>) = e /\ Len(<<e>>) = 1
  BY DEF Logs, Entries, HeadOf

(* What the description says follows from what is served.                  *)
LEMMA ServedTyped ==
    ASSUME ServerHolds
    PROVE  /\ Served.as \in {"none", "client", "governed"}
           /\ Served.state \in Descriptors /\ Served.type \in Types
           /\ Served.as = "governed" <=> log # <<>>
           /\ log # <<>> => Served.state = HeadOf(log).state /\ Served.type = HeadOf(log).type
           /\ log = <<>> /\ client # None => Served.state = client /\ Served.as = "client"
           /\ Served.as = "client" => client # None
           /\ log = <<>> => Served.type = "epochs"
<1>1. CASE log # <<>>
  <2>1. Served = [as |-> "governed", state |-> HeadOf(log).state, type |-> HeadOf(log).type]
    BY <1>1 DEF Served
  <2>2. HeadOf(log) \in EntryType
    BY <1>1, HeadTyped DEF ServerHolds, Logs
  <2> QED
    BY <1>1, <2>1, <2>2 DEF EntryType
<1>2. CASE log = <<>> /\ client # None
  <2>1. Served = [as |-> "client", state |-> client, type |-> "epochs"]
    BY <1>2 DEF Served
  <2> QED
    BY <1>2, <2>1 DEF ServerHolds, Types
<1>3. CASE log = <<>> /\ client = None
  <2>1. Served = [as |-> "none", state |-> {}, type |-> "epochs"]
    BY <1>3 DEF Served
  <2> QED
    BY <1>3, <2>1 DEF Descriptors, Types
<1> QED
  BY <1>1, <1>2, <1>3
-----------------------------------------------------------------------------
(* What any step does to the server: every write gives its object a new    *)
(* validator, and what the descriptor in force states is kept, unless the  *)
(* log is no longer one of epochs.                                         *)
ServerMoves ==
    /\ tag' \in {tag, tag + 1} /\ dtag' \in {dtag, dtag + 1} /\ view' \in {view, view + 1}
    /\ tag' = tag => log' = log
    /\ dtag' = dtag => log' = log /\ client' = client
    /\ log # <<>> => log' # <<>>
    /\ Served'.type = "epochs" => Served.type = "epochs" /\ Served.state \subseteq Served'.state

LEMMA ServedAgain ==
    ASSUME log' = log, client' = client
    PROVE  Served' = Served
  BY DEF Served, HeadOf

LEMMA ServerStill ==
    ASSUME ServerHolds, UNCHANGED <<server, view>>
    PROVE  ServerMoves
  BY ServedAgain DEF server, ServerMoves

LEMMA PinnedStable ==
    ASSUME ServerHolds, ServerMoves, NEW c \in Calls, Pinned(c),
           call'[c].ifMatch = call[c].ifMatch, call'[c].desc = call[c].desc,
           call'[c].kind = call[c].kind
    PROVE  Pinned(c)'
<1> DEFINE m == call[c].ifMatch
           desc == call[c].desc
<1> SUFFICES ASSUME m # None PROVE Pinned(c)'
  BY DEF Pinned
<1>1. /\ m \in Validators
      /\ m.of = "log" => m.at <= tag
      /\ m.of = "description" => m.at <= dtag
      /\ desc \in Descriptors /\ (call[c].kind # "seal" => c \in desc)
  BY DEF Pinned
<1>2. m.of \in {"log", "description"} /\ m.at \in Nat
  BY <1>1 DEF Validators
<1>3. tag \in Nat /\ dtag \in Nat /\ tag <= tag' /\ dtag <= dtag' /\ tag' \in Nat /\ dtag' \in Nat
  BY DEF ServerHolds, ServerMoves
<1>4. m = LogTag' => m = LogTag /\ log' = log
  BY <1>1, <1>2, <1>3 DEF LogTag, ServerMoves
<1>5. m = DescriptionTag' => m = DescriptionTag /\ client' = client
  BY <1>1, <1>2, <1>3 DEF DescriptionTag, ServerMoves
<1>6. m = LogTag' => log' # <<>> /\ HeadOf(log').type = "epochs" /\ HeadOf(log').state \subseteq desc
  BY <1>4 DEF Pinned
<1>7. m = DescriptionTag' /\ client' # None => client' \subseteq desc
  BY <1>5 DEF Pinned
<1>8. (m.of = "log" => m.at <= tag') /\ (m.of = "description" => m.at <= dtag')
  BY <1>1, <1>2, <1>3
<1>9. call'[c].ifMatch = m /\ call'[c].desc = desc /\ call'[c].kind = call[c].kind
  OBVIOUS
<1> HIDE DEF m, desc
<1> QED
  BY <1>1, <1>6, <1>7, <1>8, <1>9 DEF Pinned

LEMMA KnowsStable ==
    ASSUME ServerHolds, ServerMoves, NEW c \in Calls, Knows(c),
           pc'[c] = pc[c], call'[c] = call[c]
    PROVE  Knows(c)'
<1>1. Pinned(c)'
  BY PinnedStable DEF Knows
<1>2. tag \in Nat /\ dtag \in Nat /\ tag <= tag' /\ dtag <= dtag' /\ view \in Nat /\ view <= view'
      /\ tag' \in Nat /\ dtag' \in Nat /\ view' \in Nat
  BY DEF ServerHolds, ServerMoves
<1>3. Reading(c)'
  <2> DEFINE got == call[c].got
  <2>1. pc[c] = "described" =>
            /\ got.etag \in Validators /\ got.etag.of = "description" /\ got.etag.at <= dtag'
            /\ got.desc.as \in {"none", "client", "governed"} /\ got.desc.state \in Descriptors
            /\ got.desc.as = "governed" => log' # <<>>
            /\ got.etag = DescriptionTag' => got.desc = Served'
    <3> SUFFICES ASSUME pc[c] = "described"
                 PROVE  /\ got.etag \in Validators /\ got.etag.of = "description" /\ got.etag.at <= dtag'
                        /\ got.desc.as \in {"none", "client", "governed"} /\ got.desc.state \in Descriptors
                        /\ got.desc.as = "governed" => log' # <<>>
                        /\ got.etag = DescriptionTag' => got.desc = Served'
      OBVIOUS
    <3>1. /\ got.etag \in Validators /\ got.etag.of = "description" /\ got.etag.at <= dtag
          /\ got.desc.as \in {"none", "client", "governed"} /\ got.desc.state \in Descriptors
          /\ got.desc.as = "governed" => log # <<>>
          /\ got.etag = DescriptionTag => got.desc = Served
      BY DEF Knows, Reading
    <3>2. got.etag.at \in Nat
      BY <3>1 DEF Validators
    <3>3. got.etag = DescriptionTag' => got.etag = DescriptionTag /\ Served' = Served
      BY <1>2, <3>1, <3>2, ServedAgain DEF DescriptionTag, ServerMoves
    <3> HIDE DEF got
    <3> QED
      BY <1>2, <3>1, <3>2, <3>3 DEF ServerMoves
  <2>2. pc[c] = "gotLog" =>
            /\ got.etag \in Validators /\ got.etag.of = "log" /\ got.etag.at <= tag'
            /\ got.entries \in Logs /\ (got.etag = LogTag' => got.entries = log')
    <3> SUFFICES ASSUME pc[c] = "gotLog"
                 PROVE  /\ got.etag \in Validators /\ got.etag.of = "log" /\ got.etag.at <= tag'
                        /\ got.entries \in Logs /\ (got.etag = LogTag' => got.entries = log')
      OBVIOUS
    <3>1. /\ got.etag \in Validators /\ got.etag.of = "log" /\ got.etag.at <= tag
          /\ got.entries \in Logs /\ (got.etag = LogTag => got.entries = log)
      BY DEF Knows, Reading
    <3>2. got.etag.at \in Nat
      BY <3>1 DEF Validators
    <3>3. got.etag = LogTag' => got.etag = LogTag /\ log' = log
      BY <1>2, <3>1, <3>2 DEF LogTag, ServerMoves
    <3> HIDE DEF got
    <3> QED
      BY <1>2, <3>1, <3>2, <3>3
  <2>3. pc[c] \in {"readLog", "gotLog"} =>
            /\ log' # <<>> /\ call[c].view > 0
            /\ call[c].next \in {"compare", "acquire", "seal", "adopt", "confirm"}
            /\ call[c].next = "acquire" => call[c].ifMatch # None
            /\ call[c].next = "seal" => call[c].kind = "seal"
    BY DEF Knows, Reading, ServerMoves
  <2> HIDE DEF got
  <2> QED
    BY <2>1, <2>2, <2>3 DEF Reading, got
<1>4. Sending(c)'
  BY DEF Knows, Sending, ServerMoves
<1>5. Reported(c)'
  <2>1. InForce(c) => InForce(c)'
    BY DEF InForce, ServerMoves
  <2>2. Settling(c)' => Settling(c)
    BY DEF Settling
  <2> QED
    BY <2>1, <2>2 DEF Knows, Reported
<1>6. call[c].tries \in 0 .. MaxTries /\ call[c].view \in 0 .. view'
  BY <1>2 DEF Knows
<1> QED
  BY <1>1, <1>3, <1>4, <1>5, <1>6 DEF Knows
-----------------------------------------------------------------------------
(* A step of one call.                                                     *)
OnlyCall(c) ==
    /\ DOMAIN pc' = Calls /\ DOMAIN call' = Calls /\ DOMAIN call'[c] = CallFields
    /\ \A d \in Calls \ {c} : pc'[d] = pc[d] /\ call'[d] = call[d]

StoresHold ==
    /\ DOMAIN held = Stores /\ DOMAIN body = Stores
    /\ DOMAIN described = Stores /\ DOMAIN pin = Stores
    /\ \A s \in Stores : StoreHolds(s)

LEMMA CallStep ==
    ASSUME IInv, NEW c \in Calls, OnlyCall(c), ServerHolds', ServerMoves, StoresHold', Knows(c)'
    PROVE  IInv'
<1>1. \A d \in Calls : Knows(d)'
  <2> TAKE d \in Calls
  <2>1. CASE d = c
    BY <2>1
  <2>2. CASE d # c
    BY <2>2, KnowsStable DEF IInv, OnlyCall
  <2> QED
    BY <2>1, <2>2
<1>2. \A d \in Calls : DOMAIN call'[d] = CallFields
  BY DEF IInv, Shaped, OnlyCall
<1> QED
  BY <1>1, <1>2 DEF IInv, Shaped, OnlyCall, StoresHold

LEMMA Still ==
    ASSUME IInv, UNCHANGED <<server, view, lost>>
    PROVE  /\ ServerMoves /\ ServerHolds' /\ Served' = Served
           /\ UNCHANGED store => StoresHold'
<1>1. ServerMoves
  BY ServerStill DEF IInv
<1>2. ServerHolds'
  BY DEF IInv, ServerHolds, server
<1>3. Served' = Served
  BY ServedAgain DEF server
<1>4. UNCHANGED store => StoresHold'
  BY DEF IInv, StoresHold, StoreHolds, store, server, Shaped
<1> QED
  BY <1>1, <1>2, <1>3, <1>4

(* Where a call goes, and what it becomes.                                 *)
LEMMA Moved ==
    ASSUME Shaped, NEW c \in Calls, NEW label, At(c, label), NEW k, DOMAIN k = CallFields,
           call' = [call EXCEPT ![c] = k]
    PROVE  OnlyCall(c) /\ pc'[c] = label /\ call'[c] = k
  BY DEF Shaped, OnlyCall, At

LEMMA EndedCall ==
    ASSUME Shaped, NEW c \in Calls, NEW out, Ended(c, out)
    PROVE  /\ OnlyCall(c) /\ pc'[c] = "ended"
           /\ call'[c] = [call[c] EXCEPT !.out = out]
  BY DEF Shaped, OnlyCall, At, Ended, End

(* A call that ends knows what it knew, and says its change was made only  *)
(* when it is.                                                             *)
LEMMA EndKnows ==
    ASSUME ServerHolds, ServerMoves, NEW c \in Calls, Knows(c), NEW out,
           DOMAIN call[c] = CallFields, pc'[c] = "ended", call'[c] = [call[c] EXCEPT !.out = out],
           out = "ok" /\ call[c].kind # "seal" => InForce(c)'
    PROVE  Knows(c)'
<1>1. /\ call'[c].ifMatch = call[c].ifMatch /\ call'[c].desc = call[c].desc
      /\ call'[c].kind = call[c].kind /\ call'[c].out = out
      /\ call'[c].tries = call[c].tries /\ call'[c].view = call[c].view
  BY DEF CallFields
<1>2. Pinned(c)'
  BY <1>1, PinnedStable DEF Knows
<1>3. Reading(c)'
  BY DEF Reading
<1>4. Sending(c)'
  BY <1>1 DEF Knows, Sending, ServerMoves
<1>5. Reported(c)'
  BY <1>1 DEF Reported, Settling
<1>6. view \in Nat /\ view' \in {view, view + 1}
  BY DEF ServerHolds, ServerMoves
<1>7. call'[c].tries \in 0 .. MaxTries /\ call'[c].view \in 0 .. view'
  BY <1>1, <1>6 DEF Knows
<1> QED
  BY <1>2, <1>3, <1>4, <1>5, <1>7 DEF Knows

(* A call that tries again quotes nothing.                                 *)
LEMMA RetriedKnows ==
    ASSUME Shaped, ServerHolds, ServerMoves, NEW c \in Calls, Knows(c), Retried(c),
           pc[c] \notin {"idle", "ended"}
    PROVE  OnlyCall(c) /\ Knows(c)'
<1>0. view \in Nat /\ view' \in {view, view + 1}
  BY DEF ServerHolds, ServerMoves
<1>1. CASE LastTry(c)
  <2>1. Ended(c, "conflict")
    BY <1>1 DEF Retried
  <2> QED
    BY <2>1, EndedCall, EndKnows DEF Shaped
<1>2. CASE ~LastTry(c)
  <2> DEFINE seal == call[c].kind = "seal"
             label == IF seal THEN "readLog" ELSE "describe"
             k == [call[c] EXCEPT !.tries = @ + 1, !.ifMatch = None,
                                  !.next = IF seal THEN "seal" ELSE "compare"]
  <2>1. At(c, label) /\ call' = [call EXCEPT ![c] = k]
    BY <1>2 DEF Retried
  <2>2. DOMAIN k = CallFields
    BY DEF Shaped
  <2>4. /\ k.tries = call[c].tries + 1 /\ k.ifMatch = None /\ k.kind = call[c].kind
        /\ k.view = call[c].view /\ k.out = call[c].out
    BY DEF Shaped, CallFields
  <2>5. k.next = IF seal THEN "seal" ELSE "compare"
    BY DEF Shaped, CallFields
  <2>6. label \in {"readLog", "describe"} /\ (label = "readLog" => seal)
    OBVIOUS
  <2>7. k.tries \in 0 .. MaxTries /\ k.kind # "seeded"
    BY <1>2, <2>4, BoundsTyped DEF LastTry, Knows
  <2>8. seal => log' # <<>> /\ call[c].view > 0
    BY DEF Knows, Sending, ServerMoves
  <2>9. call[c].out = "none"
    BY DEF Knows, Reported
  <2> HIDE DEF k, label
  <2>3. OnlyCall(c) /\ pc'[c] = label /\ call'[c] = k
    BY <2>1, <2>2, Moved
  <2>10. Pinned(c)'
    BY <2>3, <2>4 DEF Pinned
  <2>11. Reading(c)'
    BY <2>3, <2>4, <2>5, <2>6, <2>8 DEF Reading
  <2>12. Sending(c)'
    BY <2>3, <2>4, <2>6, <2>7, <2>8 DEF Sending
  <2>13. k.next # "confirm"
    BY <2>5
  <2>14. Reported(c)'
    BY <2>3, <2>4, <2>6, <2>9, <2>13 DEF Reported, Settling
  <2>15. k.tries \in 0 .. MaxTries /\ k.view \in 0 .. view'
    BY <1>0, <2>4, <2>7 DEF Knows
  <2> QED
    BY <2>3, <2>10, <2>11, <2>12, <2>14, <2>15 DEF Knows
<1> QED
  BY <1>1, <1>2
-----------------------------------------------------------------------------
(* One lemma for each action.                                              *)

LEMMA DescribeHolds ==
    ASSUME IInv, NEW c \in Calls, Describe(c)
    PROVE  IInv'
<1> DEFINE g == [desc |-> Served, etag |-> DescriptionTag]
           k == [call[c] EXCEPT !.got = g]
<1>1. Shaped /\ ServerHolds /\ Knows(c) /\ pc[c] = "describe" /\ dtag \in Nat
  BY DEF IInv, Describe, ServerHolds
<1>2. At(c, "described") /\ call' = [call EXCEPT ![c] = k] /\ DOMAIN k = CallFields
  BY <1>1 DEF Describe, Shaped
<1>3. /\ k.tries = call[c].tries /\ k.ifMatch = call[c].ifMatch /\ k.kind = call[c].kind
      /\ k.view = call[c].view /\ k.out = call[c].out /\ k.desc = call[c].desc /\ k.got = g
  BY <1>1 DEF Shaped, CallFields
<1> HIDE DEF k
<1>4. OnlyCall(c) /\ pc'[c] = "described" /\ call'[c] = k
  BY <1>1, <1>2, Moved
<1>5. ServerMoves /\ ServerHolds' /\ Served' = Served /\ StoresHold' /\ UNCHANGED <<server, view>>
  BY Still DEF Describe
<1>6. Pinned(c)'
  BY <1>1, <1>3, <1>4, <1>5, PinnedStable DEF Knows
<1>7. Reading(c)'
  <2>1. g.desc = Served' /\ g.etag = DescriptionTag' /\ dtag' = dtag /\ log' = log
    BY <1>5 DEF DescriptionTag, server
  <2>2. g.etag \in Validators /\ g.etag.of = "description" /\ g.etag.at <= dtag'
    BY <1>1, <2>1 DEF DescriptionTag, Validators
  <2>3. /\ g.desc.as \in {"none", "client", "governed"} /\ g.desc.state \in Descriptors
        /\ g.desc.as = "governed" => log' # <<>>
    BY <1>1, <2>1, ServedTyped
  <2> HIDE DEF g
  <2> QED
    BY <1>3, <1>4, <2>1, <2>2, <2>3 DEF Reading
<1>8. Sending(c)'
  BY <1>1, <1>3, <1>4, <1>5 DEF Knows, Sending, ServerMoves
<1>9. Reported(c)'
  BY <1>1, <1>3, <1>4 DEF Knows, Reported, Settling
<1>10. k.tries \in 0 .. MaxTries /\ k.view \in 0 .. view'
  BY <1>1, <1>3, <1>5 DEF Knows
<1>11. Knows(c)'
  BY <1>4, <1>6, <1>7, <1>8, <1>9, <1>10 DEF Knows
<1> QED
  BY <1>4, <1>5, <1>11, CallStep

LEMMA ReadLogHolds ==
    ASSUME IInv, NEW c \in Calls, ReadLog(c)
    PROVE  IInv'
<1> DEFINE g == [entries |-> log, etag |-> LogTag]
           k == [call[c] EXCEPT !.got = g]
<1>1. Shaped /\ ServerHolds /\ Knows(c) /\ pc[c] = "readLog" /\ tag \in Nat
  BY DEF IInv, ReadLog, ServerHolds
<1>2. At(c, "gotLog") /\ call' = [call EXCEPT ![c] = k] /\ DOMAIN k = CallFields
  BY <1>1 DEF ReadLog, Shaped
<1>3. /\ k.tries = call[c].tries /\ k.ifMatch = call[c].ifMatch /\ k.kind = call[c].kind
      /\ k.view = call[c].view /\ k.out = call[c].out /\ k.desc = call[c].desc /\ k.got = g
      /\ k.next = call[c].next
  BY <1>1 DEF Shaped, CallFields
<1> HIDE DEF k
<1>4. OnlyCall(c) /\ pc'[c] = "gotLog" /\ call'[c] = k
  BY <1>1, <1>2, Moved
<1>5. ServerMoves /\ ServerHolds' /\ Served' = Served /\ StoresHold' /\ UNCHANGED <<server, view>>
  BY Still DEF ReadLog
<1>6. Pinned(c)'
  BY <1>1, <1>3, <1>4, <1>5, PinnedStable DEF Knows
<1>7. Reading(c)'
  <2>1. /\ log # <<>> /\ k.view > 0
        /\ k.next \in {"compare", "acquire", "seal", "adopt", "confirm"}
        /\ k.next = "acquire" => k.ifMatch # None
        /\ k.next = "seal" => k.kind = "seal"
    BY <1>1, <1>3 DEF Knows, Reading
  <2>2. log' = log /\ g.entries = log' /\ g.etag = LogTag' /\ tag' = tag
    BY <1>5 DEF LogTag, server
  <2>3. g.etag \in Validators /\ g.etag.of = "log" /\ g.etag.at <= tag'
    BY <1>1, <2>2 DEF LogTag, Validators
  <2>4. g.entries \in Logs
    BY <1>1, <2>1, <2>2 DEF ServerHolds, Logs
  <2> HIDE DEF g
  <2> QED
    BY <1>3, <1>4, <2>1, <2>2, <2>3, <2>4 DEF Reading
<1>8. Sending(c)'
  BY <1>1, <1>3, <1>4, <1>5 DEF Knows, Sending, ServerMoves
<1>9. Reported(c)'
  <2>1. InForce(c) => InForce(c)'
    BY <1>5 DEF InForce
  <2> QED
    BY <1>1, <1>3, <1>4, <2>1 DEF Knows, Reported, Settling
<1>10. k.tries \in 0 .. MaxTries /\ k.view \in 0 .. view'
  BY <1>1, <1>3, <1>5 DEF Knows
<1>11. Knows(c)'
  BY <1>4, <1>6, <1>7, <1>8, <1>9, <1>10 DEF Knows
<1> QED
  BY <1>4, <1>5, <1>11, CallStep

(* What a call that read the descriptor in force is about to write.        *)
LEMMA MutatedPins ==
    ASSUME ServerHolds, NEW c \in Calls, Knows(c), DOMAIN call[c] = CallFields,
           NEW desc \in Descriptors, NEW etag \in Validators,
           etag.of = "log" => etag.at <= tag, etag.of = "description" => etag.at <= dtag,
           etag = LogTag => log # <<>> /\ HeadOf(log).type = "epochs" /\ HeadOf(log).state = desc,
           etag = DescriptionTag /\ client # None => desc = client,
           UNCHANGED <<server, view>>, ServerMoves, call'[c] = Mutated(c, desc, etag)
    PROVE  /\ Pinned(c)' /\ DOMAIN call'[c] = CallFields /\ call'[c].ifMatch # None
           /\ call'[c].kind = call[c].kind /\ call'[c].out = call[c].out
           /\ call'[c].tries = call[c].tries /\ call'[c].view = call[c].view
           /\ call'[c].next = call[c].next
<1>1. CASE call[c].kind = "seeded"
  <2>1. call'[c] = call[c]
    BY <1>1 DEF Mutated
  <2> QED
    BY <1>1, <2>1, PinnedStable DEF Knows, Sending
<1>2. CASE call[c].kind # "seeded"
  <2>1. call'[c] = [call[c] EXCEPT !.desc = desc \union {c}, !.ifMatch = etag]
    BY <1>2 DEF Mutated
  <2>2. /\ call'[c].ifMatch = etag /\ call'[c].desc = desc \union {c}
        /\ call'[c].kind = call[c].kind /\ call'[c].out = call[c].out
        /\ call'[c].tries = call[c].tries /\ call'[c].view = call[c].view
        /\ call'[c].next = call[c].next /\ DOMAIN call'[c] = CallFields
    BY <2>1 DEF CallFields
  <2>3. etag # None /\ desc \union {c} \in Descriptors
    BY NoneApart DEF Descriptors
  <2>4. tag' = tag /\ dtag' = dtag /\ log' = log /\ client' = client /\ LogTag' = LogTag
        /\ DescriptionTag' = DescriptionTag
    BY DEF server, LogTag, DescriptionTag
  <2>5. Pinned(c)'
    BY <2>2, <2>3, <2>4 DEF Pinned
  <2> QED
    BY <2>2, <2>3, <2>5
<1> QED
  BY <1>1, <1>2

(* A call that goes to write, or to read a log, as it was.                 *)
LEMMA Goes ==
    ASSUME ServerHolds, ServerMoves, NEW c \in Calls, Knows(c), Pinned(c)', NEW k,
           pc[c] # "ended", call'[c] = k,
           k.kind = call[c].kind, k.out = call[c].out, k.tries = call[c].tries,
           k.kind = "seeded" => k.ifMatch # None, k.view \in 0 .. view',
           k.view = call[c].view \/ k.view > 0,
           \/ pc'[c] \in {"replace", "putDescription"} /\ k.ifMatch # None
           \/ pc'[c] = "append" /\ k.ifMatch # None /\ k.on \in Logs /\ k.view > 0
           \/ pc'[c] = "describe"
           \/ /\ pc'[c] = "readLog" /\ log' # <<>> /\ k.view > 0
              /\ k.next \in {"compare", "acquire", "seal", "adopt"}
              /\ k.next = "acquire" => k.ifMatch # None
              /\ k.next = "seal" => k.kind = "seal"
    PROVE  Knows(c)'
<1>1. pc'[c] \in {"replace", "putDescription", "append", "describe", "readLog"}
  OBVIOUS
<1>2. Reading(c)'
  <2>1. pc'[c] = "readLog" =>
          /\ log' # <<>> /\ k.view > 0
          /\ k.next \in {"compare", "acquire", "seal", "adopt", "confirm"}
          /\ k.next = "acquire" => k.ifMatch # None
          /\ k.next = "seal" => k.kind = "seal"
    OBVIOUS
  <2> QED
    BY <1>1, <2>1 DEF Reading
<1>3. Sending(c)'
  <2>1. k.kind = "seal" => log' # <<>> /\ k.view > 0
    BY DEF Knows, Sending, ServerMoves
  <2>2. /\ pc'[c] \in {"replace", "append", "putDescription"} => k.ifMatch # None
        /\ pc'[c] = "append" => k.on \in Logs /\ k.view > 0
    OBVIOUS
  <2> QED
    BY <1>1, <2>1, <2>2 DEF Sending
<1>4. Reported(c)'
  <2>1. k.out = "none"
    BY DEF Knows, Reported
  <2>2. ~(pc'[c] \in {"readLog", "gotLog"} /\ k.next = "confirm")
    BY <1>1
  <2> QED
    BY <1>1, <2>1, <2>2 DEF Reported, Settling
<1>5. k.tries \in 0 .. MaxTries
  BY DEF Knows
<1> QED
  BY <1>2, <1>3, <1>4, <1>5 DEF Knows

LEMMA SettleDescribeHolds ==
    ASSUME IInv, NEW c \in Calls, SettleDescribe(c)
    PROVE  IInv'
<1> DEFINE got == call[c].got.desc
           etag == call[c].got.etag
           s == StoreOf[c]
<1>1. Shaped /\ ServerHolds /\ Knows(c) /\ pc[c] = "described" /\ s \in Stores
      /\ DOMAIN call[c] = CallFields
  BY StoresTyped DEF IInv, SettleDescribe, Shaped
<1>2. /\ etag \in Validators /\ etag.of = "description" /\ etag.at <= dtag
      /\ got.as \in {"none", "client", "governed"} /\ got.state \in Descriptors
      /\ got.as = "governed" => log # <<>>
      /\ etag = DescriptionTag => got = Served
  BY <1>1 DEF Knows, Reading
<1>3. ServerMoves /\ ServerHolds' /\ Served' = Served /\ UNCHANGED <<server, view, lost>>
  BY Still DEF SettleDescribe
<1>4. StoresHold'
  <2>1. UNCHANGED <<held, body, pin, view>> /\ described' = [described EXCEPT ![s] = got.as]
    BY DEF SettleDescribe
  <2>2. \A r \in Stores :
          /\ described'[r] \in {None, "none", "client", "governed"}
          /\ described'[r] = "governed" => log # <<>>
    BY <1>1, <1>2, <2>1 DEF IInv, StoreHolds, Shaped
  <2>3. log' = log
    BY <1>3 DEF server
  <2> QED
    BY <2>1, <2>2, <2>3 DEF IInv, StoresHold, StoreHolds, Shaped
<1>5. OnlyCall(c) /\ Knows(c)'
  <2>1. CASE got.as = "none"
    <3>1. Ended(c, "absent")
      BY <2>1 DEF SettleDescribe
    <3> QED
      BY <1>1, <1>3, <3>1, EndedCall, EndKnows
  <2>2. CASE got.as = "client"
    <3> DEFINE k == Mutated(c, got.state, etag)
    <3>1. At(c, "replace") /\ call' = [call EXCEPT ![c] = k]
      BY <2>2 DEF SettleDescribe
    <3>2. call'[c] = k /\ pc'[c] = "replace"
      BY <1>1, <3>1 DEF Shaped, At
    <3>3. etag = DescriptionTag /\ client # None => got.state = client
      BY <1>1, <1>2, <2>2, ServedTyped
    <3>4. etag # LogTag
      BY <1>2 DEF LogTag
    <3> HIDE DEF got, etag
    <3>5. /\ Pinned(c)' /\ DOMAIN k = CallFields /\ k.ifMatch # None
          /\ k.kind = call[c].kind /\ k.out = call[c].out
          /\ k.tries = call[c].tries /\ k.view = call[c].view
      BY <1>1, <1>2, <1>3, <3>2, <3>3, <3>4, MutatedPins
    <3> HIDE DEF k
    <3>6. OnlyCall(c)
      BY <1>1, <3>1, <3>5, Moved
    <3>7. k.view \in 0 .. view'
      BY <1>1, <1>3, <3>5 DEF Knows
    <3>8. Knows(c)'
      BY <1>1, <1>3, <3>2, <3>5, <3>7, Goes
    <3> QED
      BY <3>6, <3>8
  <2>3. CASE got.as = "governed"
    <3>1. PICK v \in Resolvable :
            /\ At(c, "readLog")
            /\ call' = [call EXCEPT ![c].view = v, ![c].on = got, ![c].next = "compare"]
      BY <2>3 DEF SettleDescribe
    <3>2. v \in 0 .. view' /\ v > 0
      BY <1>1, <1>3 DEF Resolvable, ServerHolds
    <3> DEFINE k == [call[c] EXCEPT !.view = v, !.on = got, !.next = "compare"]
    <3>3. DOMAIN k = CallFields /\ call' = [call EXCEPT ![c] = k]
      BY <1>1, <3>1
    <3>4. /\ k.ifMatch = call[c].ifMatch /\ k.desc = call[c].desc /\ k.kind = call[c].kind
          /\ k.out = call[c].out /\ k.tries = call[c].tries /\ k.view = v /\ k.next = "compare"
      BY <1>1 DEF CallFields
    <3> HIDE DEF k
    <3>5. OnlyCall(c) /\ pc'[c] = "readLog" /\ call'[c] = k
      BY <1>1, <3>1, <3>3, Moved
    <3>6. Pinned(c)'
      BY <1>1, <1>3, <3>4, <3>5, PinnedStable DEF Knows
    <3>7. log' # <<>> /\ (k.kind = "seeded" => k.ifMatch # None)
      BY <1>1, <1>2, <1>3, <2>3, <3>4 DEF server, Knows, Sending
    <3>8. Knows(c)'
      BY <1>1, <1>3, <3>2, <3>4, <3>5, <3>6, <3>7, Goes
    <3> QED
      BY <3>5, <3>8
  <2> QED
    BY <1>2, <2>1, <2>2, <2>3
<1> QED
  BY <1>3, <1>4, <1>5, CallStep

LEMMA ReplaceHolds ==
    ASSUME IInv, NEW c \in Calls, Replace(c)
    PROVE  IInv'
<1> DEFINE s == StoreOf[c]
<1>1. Shaped /\ ServerHolds /\ Knows(c) /\ pc[c] = "replace" /\ s \in Stores
      /\ DOMAIN call[c] = CallFields /\ StoreHolds(s) /\ DOMAIN call = Calls /\ DOMAIN pc = Calls
  BY StoresTyped DEF IInv, Replace, Shaped
<1>2. ServerMoves /\ ServerHolds' /\ Served' = Served /\ UNCHANGED <<server, view, lost>> /\ StoresHold'
  BY Still DEF Replace
<1>3. call[c].ifMatch # None /\ call[c].view \in 0 .. view' /\ (call[c].kind = "seal" => log # <<>>)
  BY <1>1, <1>2 DEF Knows, Sending
<1>4. OnlyCall(c) /\ Knows(c)'
  <2>1. CASE described[s] = None \/ described[s] \in {"none", "client"}
    <3>1. PICK label \in {"describe", "putDescription"} : At(c, label) /\ UNCHANGED call
      <4>1. CASE described[s] = None
        <5>1. At(c, "describe") /\ UNCHANGED call
          BY <4>1, NoneApart DEF Replace
        <5> QED
          BY <5>1
      <4>2. CASE described[s] \in {"none", "client"}
        <5>1. At(c, "putDescription") /\ UNCHANGED call
          BY <4>2, NoneApart DEF Replace
        <5> QED
          BY <5>1
      <4> QED
        BY <2>1, <4>1, <4>2
    <3>2. OnlyCall(c) /\ pc'[c] = label /\ call'[c] = call[c]
      BY <1>1, <3>1 DEF Shaped, OnlyCall, At
    <3>3. Pinned(c)'
      BY <1>1, <1>2, <3>2, PinnedStable DEF Knows
    <3>4. Knows(c)'
      BY <1>1, <1>2, <1>3, <3>2, <3>3, Goes
    <3> QED
      BY <3>2, <3>4
  <2>2. CASE described[s] = "governed" /\ held[s] = NotHeld
    <3>1. PICK v \in Resolvable :
            At(c, "readLog") /\ call' = [call EXCEPT ![c].view = v, ![c].next = "acquire"]
      BY <2>2, NoneApart DEF Replace
    <3>2. v \in 0 .. view' /\ v > 0
      BY <1>1, <1>2 DEF Resolvable, ServerHolds
    <3> DEFINE k == [call[c] EXCEPT !.view = v, !.next = "acquire"]
    <3>3. DOMAIN k = CallFields /\ call' = [call EXCEPT ![c] = k]
      BY <1>1, <3>1
    <3>4. /\ k.ifMatch = call[c].ifMatch /\ k.desc = call[c].desc /\ k.kind = call[c].kind
          /\ k.out = call[c].out /\ k.tries = call[c].tries /\ k.view = v /\ k.next = "acquire"
      BY <1>1 DEF CallFields
    <3> HIDE DEF k
    <3>5. OnlyCall(c) /\ pc'[c] = "readLog" /\ call'[c] = k
      BY <1>1, <3>1, <3>3, Moved
    <3>6. Pinned(c)'
      BY <1>1, <1>2, <3>4, <3>5, PinnedStable DEF Knows
    <3>7. log' # <<>>
      BY <1>1, <1>2, <2>2 DEF StoreHolds, server
    <3>8. Knows(c)'
      BY <1>1, <1>2, <1>3, <3>2, <3>4, <3>5, <3>6, <3>7, Goes
    <3> QED
      BY <3>5, <3>8
  <2>3. CASE described[s] = "governed" /\ held[s] # NotHeld
    <3>1. At(c, "append")
          /\ call' = [call EXCEPT ![c].on = held[s].entries, ![c].view = held[s].view]
      BY <2>3, NoneApart DEF Replace
    <3>2. held[s].entries \in Logs /\ held[s].view \in 0 .. view' /\ held[s].view > 0
      BY <1>1, <1>2, <2>3 DEF StoreHolds, Logs
    <3> DEFINE k == [call[c] EXCEPT !.on = held[s].entries, !.view = held[s].view]
    <3>3. DOMAIN k = CallFields /\ call' = [call EXCEPT ![c] = k]
      BY <1>1, <3>1
    <3>4. /\ k.ifMatch = call[c].ifMatch /\ k.desc = call[c].desc /\ k.kind = call[c].kind
          /\ k.out = call[c].out /\ k.tries = call[c].tries /\ k.view = held[s].view
          /\ k.on = held[s].entries
      BY <1>1 DEF CallFields
    <3> HIDE DEF k
    <3>5. OnlyCall(c) /\ pc'[c] = "append" /\ call'[c] = k
      BY <1>1, <3>1, <3>3, Moved
    <3>6. Pinned(c)'
      BY <1>1, <1>2, <3>4, <3>5, PinnedStable DEF Knows
    <3>7. Knows(c)'
      BY <1>1, <1>2, <1>3, <3>2, <3>4, <3>5, <3>6, Goes
    <3> QED
      BY <3>5, <3>7
  <2> QED
    BY <1>1, <2>1, <2>2, <2>3 DEF StoreHolds
<1> QED
  BY <1>2, <1>4, CallStep

LEMMA SettleLogHolds ==
    ASSUME IInv, NEW c \in Calls, SettleLog(c)
    PROVE  IInv'
<1> DEFINE s == StoreOf[c]
           entries == call[c].got.entries
           etag == call[c].got.etag
           verdict == Verdict(entries, call[c].view, pin[s])
           ours == IsEpochConfiguration(entries)
           found == \E i \in DOMAIN entries : entries[i].id = HeadOf(call[c].sent).id
           next == call[c].next
<1>1. Shaped /\ ServerHolds /\ Knows(c) /\ pc[c] = "gotLog" /\ s \in Stores
      /\ DOMAIN call[c] = CallFields /\ StoreHolds(s) /\ DOMAIN call = Calls /\ DOMAIN pc = Calls
  BY StoresTyped DEF IInv, SettleLog, Shaped
<1>2. /\ etag \in Validators /\ etag.of = "log" /\ etag.at <= tag
      /\ entries \in Logs /\ (etag = LogTag => entries = log)
      /\ log # <<>> /\ call[c].view > 0
      /\ next \in {"compare", "acquire", "seal", "adopt", "confirm"}
      /\ next = "acquire" => call[c].ifMatch # None
      /\ next = "seal" => call[c].kind = "seal"
  BY <1>1 DEF Knows, Reading
<1>3. ServerMoves /\ ServerHolds' /\ Served' = Served /\ UNCHANGED <<server, view, lost>>
  BY Still DEF SettleLog
<1>4. entries \in Entries /\ entries # <<>> /\ HeadOf(entries) \in EntryType
  BY <1>2, HeadTyped DEF Logs
<1>5. StoresHold'
  <2>1. /\ body' = [body EXCEPT ![s] = entries]
        /\ described' \in {described, [described EXCEPT ![s] = None]}
        /\ pin' = pin \/ pin' = [pin EXCEPT ![s] = HeadOf(entries).id]
        /\ held' \in {held, [held EXCEPT ![s] = [entries |-> entries, view |-> call[c].view]]}
    BY DEF SettleLog, Adopt
  <2>2. log' = log /\ view' = view /\ call[c].view \in 0 .. view
    BY <1>1, <1>3 DEF server, Knows
  <2> DEFINE new == [entries |-> entries, view |-> call[c].view]
  <2>3. /\ new.entries \in Entries /\ new.view \in 0 .. view /\ new.entries # <<>> /\ new.view > 0
    BY <1>2, <1>4, <2>2
  <2>4. held' \in {held, [held EXCEPT ![s] = new]}
    BY <2>1
  <2> HIDE DEF new, entries
  <2>5. ASSUME NEW r \in Stores PROVE StoreHolds(r)'
    <3>1. StoreHolds(r) /\ DOMAIN held = Stores /\ DOMAIN body = Stores /\ DOMAIN described = Stores
      BY DEF IInv, Shaped
    <3>2. /\ body'[r] \in {body[r], entries} /\ described'[r] \in {described[r], None}
          /\ held'[r] \in {held[r], new}
      BY <2>1, <2>4, <3>1
    <3>3. body'[r] \in Entries
      BY <1>4, <3>1, <3>2 DEF StoreHolds, entries
    <3>4. /\ held'[r].entries \in Entries /\ held'[r].view \in 0 .. view
          /\ held'[r] # NotHeld => held'[r].entries # <<>> /\ held'[r].view > 0
      BY <2>3, <3>1, <3>2 DEF StoreHolds
    <3>5. /\ described'[r] \in {None, "none", "client", "governed"}
          /\ described'[r] = "governed" => log # <<>>
      BY <3>1, <3>2, NoneApart DEF StoreHolds
    <3> QED
      BY <2>2, <3>3, <3>4, <3>5 DEF StoreHolds
  <2>6. /\ DOMAIN held' = Stores /\ DOMAIN body' = Stores
        /\ DOMAIN described' = Stores /\ DOMAIN pin' = Stores
    BY <2>1, <2>4 DEF IInv, Shaped
  <2> QED
    BY <2>5, <2>6 DEF StoresHold
<1>6. /\ log' = log /\ call[c].view \in 0 .. view' /\ LogTag' = LogTag
      /\ HeadOf(entries).state \in Descriptors
  BY <1>1, <1>3, <1>4 DEF server, Knows, LogTag, EntryType
<1>7. ServerHolds /\ UNCHANGED <<server, view>>
  BY <1>1, <1>3
<1>8. OnlyCall(c) /\ Knows(c)'
  <2>1. ASSUME NEW out, Ended(c, out), out = "ok" => InForce(c)' \/ call[c].kind = "seal"
        PROVE  OnlyCall(c) /\ Knows(c)'
    BY <1>1, <1>3, <2>1, EndedCall, EndKnows
  <2>2. CASE verdict # "ok"
    <3>1. Ended(c, verdict)
      BY <2>2 DEF SettleLog
    <3> HIDE DEF verdict
    <3> QED
      BY <2>1, <2>2, <3>1
  <2>3. CASE verdict = "ok" /\ ~ours
    <3>1. Ended(c, "Foreign")
      BY <2>3 DEF SettleLog
    <3> QED
      BY <2>1, <3>1
  <2>4. CASE verdict = "ok" /\ ours
    <3>0. HeadOf(entries).type = "epochs"
      BY <2>4 DEF IsEpochConfiguration
    <3>1. CASE next = "compare"
      <4> DEFINE desc == HeadOf(entries).state
                 k == Mutated(c, desc, etag)
      <4>1. Compared(c, entries)
        BY <2>4, <3>1 DEF SettleLog
      <4>2. CASE desc = call[c].on.state
        <5>1. At(c, "replace") /\ call' = [call EXCEPT ![c] = k]
          BY <4>1, <4>2 DEF Compared
        <5>2. call'[c] = k /\ pc'[c] = "replace"
          BY <1>1, <5>1 DEF At
        <5>3. etag = LogTag => log # <<>> /\ HeadOf(log).type = "epochs" /\ HeadOf(log).state = desc
          BY <1>2, <3>0
        <5>4. etag # DescriptionTag
          BY <1>2 DEF DescriptionTag
        <5>5. desc \in Descriptors
          BY <1>6
        <5> HIDE DEF desc, entries, etag
        <5>6. /\ Pinned(c)' /\ DOMAIN k = CallFields /\ k.ifMatch # None
              /\ k.kind = call[c].kind /\ k.out = call[c].out
              /\ k.tries = call[c].tries /\ k.view = call[c].view
          BY <1>1, <1>2, <1>3, <5>2, <5>3, <5>4, <5>5, MutatedPins
        <5> HIDE DEF k
        <5>7. OnlyCall(c)
          BY <1>1, <5>1, <5>6, Moved
        <5>8. k.view \in 0 .. view'
          BY <1>6, <5>6
        <5>9. Knows(c)'
          BY <1>1, <1>3, <5>2, <5>6, <5>8, Goes
        <5> QED
          BY <5>7, <5>9
      <4>3. CASE desc # call[c].on.state
        <5>1. Retried(c) \/ Ended(c, "Integrity")
          BY <4>1, <4>3 DEF Compared
        <5>2. CASE Retried(c)
          BY <1>1, <1>2, <1>3, <5>2, RetriedKnows
        <5> QED
          BY <2>1, <5>1, <5>2
      <4> QED
        BY <4>2, <4>3
    <3>2. CASE next = "acquire"
      <4>1. At(c, "replace") /\ UNCHANGED call
        BY <2>4, <3>2 DEF SettleLog
      <4>2. OnlyCall(c) /\ pc'[c] = "replace" /\ call'[c] = call[c]
        BY <1>1, <4>1 DEF OnlyCall, At
      <4>3. Pinned(c)'
        BY <1>1, <1>3, <4>2, PinnedStable DEF Knows
      <4>4. call[c].ifMatch # None
        BY <1>2, <3>2
      <4>5. Knows(c)'
        BY <1>1, <1>3, <1>6, <4>2, <4>3, <4>4, Goes
      <4> QED
        BY <4>2, <4>5
    <3>3. CASE next = "seal"
      <4>1. Swept(c, entries)
        BY <2>4, <3>3 DEF SettleLog
      <4>2. CASE HeadOf(entries).view >= call[c].view
        <5>1. Ended(c, "noop")
          BY <4>1, <4>2 DEF Swept
        <5> QED
          BY <2>1, <5>1
      <4>3. CASE ~(HeadOf(entries).view >= call[c].view)
        <5> DEFINE desc == HeadOf(entries).state
                   k == [call[c] EXCEPT !.on = entries, !.desc = desc, !.ifMatch = etag]
        <5>1. At(c, "append") /\ call' = [call EXCEPT ![c] = k] /\ DOMAIN k = CallFields
          BY <1>1, <4>1, <4>3 DEF Swept
        <5>2. /\ k.on = entries /\ k.desc = desc /\ k.ifMatch = etag
              /\ k.kind = call[c].kind /\ k.out = call[c].out /\ k.tries = call[c].tries
              /\ k.view = call[c].view
          BY <1>1 DEF CallFields
        <5>3. etag # None /\ etag # DescriptionTag /\ DescriptionTag' = DescriptionTag /\ tag' = tag
          BY <1>2, <1>3, NoneApart DEF DescriptionTag, server
        <5>4. etag = LogTag' => log' # <<>> /\ HeadOf(log').type = "epochs" /\ HeadOf(log').state = desc
          BY <1>2, <1>6, <3>0
        <5>5. desc \in Descriptors /\ call[c].kind = "seal"
          BY <1>2, <1>6, <3>3
        <5> HIDE DEF k, desc, entries, etag
        <5>6. OnlyCall(c) /\ pc'[c] = "append" /\ call'[c] = k
          BY <1>1, <5>1, Moved
        <5>7. Pinned(c)'
          BY <1>2, <5>2, <5>3, <5>4, <5>5, <5>6 DEF Pinned
        <5>8. Knows(c)'
          BY <1>1, <1>2, <1>3, <1>6, <5>2, <5>3, <5>6, <5>7, Goes
        <5> QED
          BY <5>6, <5>8
      <4> QED
        BY <4>2, <4>3
    <3>4. CASE next = "adopt"
      <4>1. Ended(c, "conflict")
        BY <2>4, <3>4 DEF SettleLog
      <4> QED
        BY <2>1, <4>1
    <3>5. CASE next = "confirm"
      <4>1. Ended(c, IF found THEN "ok" ELSE "unconfirmed")
        BY <2>4, <3>5 DEF SettleLog
      <4>2. call[c].kind = "seal" \/ InForce(c)'
        BY <1>1, <1>3, <3>5 DEF Knows, Reported, Settling, InForce
      <4> QED
        BY <2>1, <4>1, <4>2
    <3> QED
      BY <1>2, <3>1, <3>2, <3>3, <3>4, <3>5
  <2> QED
    BY <2>2, <2>3, <2>4
<1> QED
  BY <1>3, <1>5, <1>8, CallStep

LEMMA SendAppendHolds ==
    ASSUME IInv, NEW c \in Calls, SendAppend(c)
    PROVE  IInv'
<1> DEFINE s == StoreOf[c]
<1>1. Shaped /\ ServerHolds /\ Knows(c) /\ pc[c] = "append" /\ s \in Stores
      /\ DOMAIN call[c] = CallFields /\ body[s] \in Entries
  BY StoresTyped DEF IInv, SendAppend, Shaped, StoreHolds
<1>2. ServerMoves /\ ServerHolds' /\ Served' = Served /\ UNCHANGED <<server, view, lost>> /\ StoresHold'
  BY Still DEF SendAppend
<1>3. /\ call[c].ifMatch # None /\ call[c].on \in Logs /\ call[c].view \in 1 .. view
      /\ call[c].desc \in Descriptors /\ (call[c].kind # "seal" => c \in call[c].desc)
      /\ call[c].tries \in 0 .. MaxTries /\ view \in 1 .. MaxViews
  <2>1. call[c].ifMatch # None /\ call[c].on \in Logs /\ call[c].view \in 0 .. view /\ call[c].view > 0
        /\ call[c].tries \in 0 .. MaxTries /\ view \in 1 .. MaxViews
    BY <1>1 DEF Knows, Sending, ServerHolds
  <2>2. call[c].desc \in Descriptors /\ (call[c].kind # "seal" => c \in call[c].desc)
    BY <1>1, <2>1 DEF Knows, Pinned
  <2> QED
    BY <2>1, <2>2
<1>4. PICK v \in (IF call[c].kind = "seal" THEN {call[c].view} ELSE Resolvable) :
        IF ViewAdmits(c, v)
        THEN /\ At(c, "putLog")
             /\ call' = [call EXCEPT ![c].sent = Append(body[s],
                           [id |-> <<c, call[c].tries>>, prev |-> HeadOf(call[c].on).id,
                            type |-> "epochs", state |-> call[c].desc, view |-> v]),
                                     ![c].view = v]
        ELSE Retried(c)
  BY DEF SendAppend
<1>5. v \in 1 .. view
  BY <1>3, <1>4 DEF Resolvable
<1>6. OnlyCall(c) /\ Knows(c)'
  <2>1. CASE ~ViewAdmits(c, v)
    <3>1. Retried(c) /\ call[c].view > 0
      BY <1>3, <1>4, <2>1
    <3> QED
      BY <1>1, <1>2, <3>1, RetriedKnows
  <2>2. CASE ViewAdmits(c, v)
    <3> DEFINE e == [id |-> <<c, call[c].tries>>, prev |-> HeadOf(call[c].on).id,
                     type |-> "epochs", state |-> call[c].desc, view |-> v]
               k == [call[c] EXCEPT !.sent = Append(body[s], e), !.view = v]
    <3>1. At(c, "putLog") /\ call' = [call EXCEPT ![c] = k] /\ DOMAIN k = CallFields
      BY <1>1, <1>4, <2>2 DEF Shaped
    <3>2. /\ k.ifMatch = call[c].ifMatch /\ k.desc = call[c].desc /\ k.kind = call[c].kind
          /\ k.out = call[c].out /\ k.tries = call[c].tries /\ k.view = v
          /\ k.sent = Append(body[s], e)
      BY <1>1 DEF CallFields
    <3>3. e \in EntryType
      <4>1. HeadOf(call[c].on).id \in Ids
        BY <1>3, HeadTyped DEF EntryType
      <4>2. <<c, call[c].tries>> \in Ids
        <5> DEFINE n == call[c].tries
        <5>1. n \in 0 .. MaxTries /\ c \in Calls \union {None}
          BY <1>3
        <5> HIDE DEF n
        <5>2. <<c, n>> \in (Calls \union {None}) \X (0 .. MaxTries)
          BY <5>1
        <5> QED
          BY <5>2 DEF Ids, n
      <4>3. v \in 1 .. MaxViews
        BY <1>3, <1>5, BoundsTyped
      <4>4. "epochs" \in Types
        BY DEF Types
      <4> QED
        BY <1>3, <4>1, <4>2, <4>3, <4>4 DEF EntryType
    <3>4. e.type = "epochs" /\ e.state = call[c].desc
      OBVIOUS
    <3> HIDE DEF k, e
    <3>5. k.sent \in Logs /\ HeadOf(k.sent) = e
      BY <1>1, <3>2, <3>3, Appended
    <3>6. OnlyCall(c) /\ pc'[c] = "putLog" /\ call'[c] = k
      BY <1>1, <3>1, Moved
    <3>7. Pinned(c)'
      BY <1>1, <1>2, <3>2, <3>6, PinnedStable DEF Knows
    <3>8. Reading(c)'
      BY <3>6 DEF Reading
    <3>9. Sending(c)'
      <4>1. k.kind = "seal" => log' # <<>>
        BY <1>1, <1>2, <3>2 DEF Knows, Sending, server
      <4>2. HeadOf(k.sent).type = "epochs" /\ HeadOf(k.sent).state = k.desc /\ k.ifMatch # None
            /\ (k.kind # "seal" => c \in HeadOf(k.sent).state) /\ k.view > 0
        BY <1>3, <1>5, <3>2, <3>4, <3>5
      <4> QED
        BY <3>5, <3>6, <4>1, <4>2 DEF Sending
    <3>10. Reported(c)'
      BY <1>1, <3>2, <3>6 DEF Knows, Reported, Settling
    <3>11. k.tries \in 0 .. MaxTries /\ k.view \in 0 .. view'
      BY <1>2, <1>3, <1>5, <3>2
    <3> QED
      BY <3>6, <3>7, <3>8, <3>9, <3>10, <3>11 DEF Knows
  <2> QED
    BY <2>1, <2>2
<1> QED
  BY <1>2, <1>6, CallStep

LEMMA ConfirmHolds ==
    ASSUME IInv, NEW c \in Calls, Confirm(c)
    PROVE  IInv'
<1> DEFINE s == StoreOf[c]
           k == [call[c] EXCEPT !.next = "confirm"]
<1>1. Shaped /\ ServerHolds /\ Knows(c) /\ pc[c] = "put" /\ s \in Stores
      /\ DOMAIN call[c] = CallFields
  BY StoresTyped DEF IInv, Confirm, Shaped
<1>2. call[c].sent \in Logs /\ call[c].view > 0 /\ log # <<>> /\ (call[c].kind # "seal" => InForce(c))
  BY <1>1 DEF Knows, Sending, Reported, Settling
<1>3. ServerMoves /\ ServerHolds' /\ Served' = Served /\ UNCHANGED <<server, view, lost>>
  BY Still DEF Confirm
<1>4. StoresHold'
  <2>1. body' = [body EXCEPT ![s] = call[c].sent] /\ UNCHANGED <<held, described, pin, view>>
    BY DEF Confirm
  <2>2. \A r \in Stores : body'[r] \in Entries
    BY <1>1, <1>2, <2>1 DEF IInv, Shaped, StoreHolds, Logs
  <2>3. log' = log
    BY <1>3 DEF server
  <2> QED
    BY <2>1, <2>2, <2>3 DEF IInv, StoresHold, StoreHolds, Shaped
<1>5. At(c, "readLog") /\ call' = [call EXCEPT ![c] = k] /\ DOMAIN k = CallFields
  BY <1>1 DEF Confirm, Shaped
<1>6. /\ k.ifMatch = call[c].ifMatch /\ k.desc = call[c].desc /\ k.kind = call[c].kind
      /\ k.out = call[c].out /\ k.tries = call[c].tries /\ k.view = call[c].view
      /\ k.next = "confirm"
  BY <1>1 DEF CallFields
<1> HIDE DEF k
<1>7. OnlyCall(c) /\ pc'[c] = "readLog" /\ call'[c] = k
  BY <1>1, <1>5, Moved
<1>8. Pinned(c)'
  BY <1>1, <1>3, <1>6, <1>7, PinnedStable DEF Knows
<1>9. Reading(c)'
  BY <1>2, <1>3, <1>6, <1>7 DEF Reading, server
<1>10. Sending(c)'
  BY <1>1, <1>3, <1>6, <1>7 DEF Knows, Sending, server
<1>11. Reported(c)'
  <2>1. InForce(c) => InForce(c)'
    BY <1>3 DEF InForce
  <2> QED
    BY <1>1, <1>2, <1>6, <1>7, <2>1 DEF Knows, Reported
<1>12. k.tries \in 0 .. MaxTries /\ k.view \in 0 .. view'
  BY <1>1, <1>3, <1>6 DEF Knows
<1>13. Knows(c)'
  BY <1>7, <1>8, <1>9, <1>10, <1>11, <1>12 DEF Knows
<1> QED
  BY <1>3, <1>4, <1>7, <1>13, CallStep

LEMMA WrittenHolds ==
    ASSUME IInv, NEW c \in Calls, Written(c)
    PROVE  IInv'
<1>1. Shaped /\ ServerHolds /\ Knows(c) /\ DOMAIN call[c] = CallFields /\ pc[c] = "written"
  BY DEF IInv, Shaped, Written
<1>2. ServerMoves /\ ServerHolds' /\ Served' = Served /\ StoresHold'
  BY Still DEF Written
<1>3. Ended(c, "ok")
  BY DEF Written
<1>4. call[c].kind # "seal" => InForce(c)'
  BY <1>1, <1>2 DEF Knows, Reported, Settling, InForce
<1> QED
  BY <1>1, <1>2, <1>3, <1>4, EndedCall, EndKnows, CallStep
-----------------------------------------------------------------------------
(* The writes.                                                             *)

(* A write of the log gives it a new validator, and keeps what is stated.  *)
LEMMA LogPut ==
    ASSUME IInv, NEW c \in Calls, pc[c] = "putLog", Guarded(c),
           log' = call[c].sent, tag' = tag + 1, dtag' = dtag + 1,
           UNCHANGED <<client, view, store>>, lost' \in 0 .. Losses
    PROVE  /\ ServerMoves /\ ServerHolds' /\ StoresHold' /\ log' \in Logs
           /\ call[c].kind # "seal" => InForce(c)'
<1>1. ServerHolds /\ Knows(c)
  BY DEF IInv
<1>2. /\ log' \in Logs /\ HeadOf(log').type = "epochs"
      /\ call[c].kind # "seal" => c \in HeadOf(log').state
      /\ call[c].ifMatch # None => HeadOf(log').state = call[c].desc
  BY <1>1 DEF Knows, Sending
<1>3. log' \in Entries /\ log' # <<>> /\ client' = None
  BY <1>1, <1>2 DEF Guarded, ServerHolds, Logs
<1>4. ServerHolds'
  BY <1>1, <1>3 DEF ServerHolds
<1>5. Served'.type = "epochs" /\ Served'.state = HeadOf(log').state
  BY <1>2, <1>3, <1>4, ServedTyped DEF Served, HeadOf
<1>6. Served.type = "epochs" /\ Served.state \subseteq HeadOf(log').state
  <2>1. CASE call[c].ifMatch = None
    <3>1. Served = [as |-> "none", state |-> {}, type |-> "epochs"]
      BY <2>1 DEF Guarded, Served
    <3> QED
      BY <3>1
  <2>2. CASE call[c].ifMatch # None
    <3>1. call[c].ifMatch = LogTag /\ log # <<>>
      BY <2>2 DEF Guarded
    <3>2. HeadOf(log).type = "epochs" /\ HeadOf(log).state \subseteq call[c].desc
      BY <1>1, <2>2, <3>1 DEF Knows, Pinned
    <3> QED
      BY <1>1, <1>2, <2>2, <3>1, <3>2, ServedTyped
  <2> QED
    BY <2>1, <2>2
<1>7. ServerMoves
  <2>1. tag' # tag /\ dtag' # dtag
    BY <1>1 DEF ServerHolds
  <2> QED
    BY <1>3, <1>5, <1>6, <2>1 DEF ServerMoves
<1>8. StoresHold'
  BY <1>3 DEF IInv, StoresHold, StoreHolds, store, Shaped
<1> QED
  BY <1>2, <1>4, <1>5, <1>7, <1>8 DEF InForce

LEMMA PutLogHolds ==
    ASSUME IInv, NEW c \in Calls, PutLog(c)
    PROVE  IInv'
<1>1. Shaped /\ ServerHolds /\ Knows(c) /\ pc[c] = "putLog" /\ DOMAIN call[c] = CallFields
      /\ DOMAIN call = Calls /\ DOMAIN pc = Calls
  BY DEF IInv, Shaped, PutLog
<1>2. call[c].sent \in Logs /\ call[c].view \in 0 .. view /\ call[c].view > 0
  BY <1>1 DEF Knows, Sending
<1>3. CASE /\ Guarded(c)
           /\ log' = call[c].sent /\ tag' = tag + 1 /\ dtag' = dtag + 1
           /\ Answer(c, "put")
  <2>1. UNCHANGED <<client, view, store>> /\ lost' \in 0 .. Losses
    BY <1>1, <1>3, BoundsTyped DEF PutLog, Answer, ServerHolds
  <2>2. /\ ServerMoves /\ ServerHolds' /\ StoresHold' /\ log' \in Logs
        /\ call[c].kind # "seal" => InForce(c)'
    BY <1>1, <1>3, <2>1, LogPut
  <2>3. CASE At(c, "put") /\ UNCHANGED <<lost, call>>
    <3>1. OnlyCall(c) /\ pc'[c] = "put" /\ call'[c] = call[c]
      BY <1>1, <2>3 DEF OnlyCall, At
    <3>2. Pinned(c)'
      BY <1>1, <2>2, <3>1, PinnedStable DEF Knows
    <3>3. Reading(c)'
      BY <3>1 DEF Reading
    <3>4. Sending(c)'
      BY <1>1, <1>2, <2>2, <3>1 DEF Knows, Sending, Logs
    <3>5. Reported(c)'
      BY <1>1, <2>2, <3>1 DEF Knows, Reported
    <3>6. Knows(c)'
      BY <1>1, <1>2, <2>1, <3>1, <3>2, <3>3, <3>4, <3>5 DEF Knows
    <3> QED
      BY <2>2, <3>1, <3>6, CallStep
  <2>4. CASE Ended(c, "lost")
    BY <1>1, <2>2, <2>4, EndedCall, EndKnows, CallStep
  <2> QED
    BY <1>3, <2>3, <2>4 DEF Answer
<1>4. CASE /\ ~Guarded(c)
           /\ UNCHANGED <<log, tag, dtag, lost>>
           /\ IF call[c].kind = "create" /\ log # <<>>
              THEN At(c, "readLog") /\ call' = [call EXCEPT ![c].next = "adopt"]
              ELSE IF call[c].kind = "create" THEN Ended(c, "refused") ELSE Retried(c)
  <2>1. UNCHANGED <<server, view, lost>> /\ UNCHANGED store
    BY <1>4 DEF PutLog, server
  <2>2. ServerMoves /\ ServerHolds' /\ StoresHold' /\ view' = view
    BY <2>1, Still
  <2>3. OnlyCall(c) /\ Knows(c)'
    <3>1. CASE call[c].kind = "create" /\ log # <<>>
      <4> DEFINE k == [call[c] EXCEPT !.next = "adopt"]
      <4>1. At(c, "readLog") /\ call' = [call EXCEPT ![c] = k] /\ DOMAIN k = CallFields
        BY <1>1, <1>4, <3>1
      <4>2. /\ k.ifMatch = call[c].ifMatch /\ k.desc = call[c].desc /\ k.kind = call[c].kind
            /\ k.out = call[c].out /\ k.tries = call[c].tries /\ k.view = call[c].view
            /\ k.next = "adopt"
        BY <1>1 DEF CallFields
      <4> HIDE DEF k
      <4>3. OnlyCall(c) /\ pc'[c] = "readLog" /\ call'[c] = k
        BY <1>1, <4>1, Moved
      <4>4. Pinned(c)'
        BY <1>1, <2>2, <4>2, <4>3, PinnedStable DEF Knows
      <4>5. log' # <<>> /\ k.kind # "seeded" /\ k.view \in 0 .. view' /\ k.view > 0
        BY <1>2, <2>2, <3>1, <4>2 DEF ServerMoves
      <4>6. Knows(c)'
        BY <1>1, <2>2, <4>2, <4>3, <4>4, <4>5, Goes
      <4> QED
        BY <4>3, <4>6
    <3>2. CASE call[c].kind = "create" /\ log = <<>>
      <4>1. Ended(c, "refused")
        BY <1>4, <3>2
      <4> QED
        BY <1>1, <2>2, <4>1, EndedCall, EndKnows
    <3>3. CASE call[c].kind # "create"
      <4>1. Retried(c)
        BY <1>4, <3>3
      <4> QED
        BY <1>1, <1>2, <2>2, <4>1, RetriedKnows
    <3> QED
      BY <3>1, <3>2, <3>3
  <2> QED
    BY <2>2, <2>3, CallStep
<1> QED
  BY <1>3, <1>4 DEF PutLog

LEMMA PutDescriptionHolds ==
    ASSUME IInv, NEW c \in Calls, PutDescription(c)
    PROVE  IInv'
<1>1. Shaped /\ ServerHolds /\ Knows(c) /\ pc[c] = "putDescription" /\ DOMAIN call[c] = CallFields
      /\ DOMAIN call = Calls /\ DOMAIN pc = Calls /\ UNCHANGED <<log, tag, view, store>>
  BY DEF IInv, Shaped, PutDescription
<1>2. call[c].ifMatch # None
  BY <1>1 DEF Knows, Sending
<1>3. call[c].desc \in Descriptors /\ (call[c].kind # "seal" => c \in call[c].desc)
  BY <1>1, <1>2 DEF Knows, Pinned
<1>4. CASE /\ call[c].ifMatch = DescriptionTag /\ log = <<>>
           /\ client' = call[c].desc /\ dtag' = dtag + 1
           /\ Answer(c, "written")
  <2>1. lost' \in 0 .. Losses
    BY <1>1, <1>4, BoundsTyped DEF Answer, ServerHolds
  <2>2. ServerHolds'
    BY <1>1, <1>3, <1>4, <2>1 DEF ServerHolds
  <2>3. client' # None /\ log' = <<>>
    BY <1>1, <1>3, <1>4, NoneApart
  <2>4. Served'.type = "epochs" /\ Served'.state = call[c].desc
    BY <1>4, <2>3 DEF Served
  <2>5. Served.type = "epochs" /\ Served.state \subseteq call[c].desc
    <3>1. client # None => client \subseteq call[c].desc
      BY <1>1, <1>2, <1>4 DEF Knows, Pinned
    <3>2. CASE client = None
      BY <1>4, <3>2 DEF Served
    <3>3. CASE client # None
      BY <1>1, <1>4, <3>1, <3>3, ServedTyped
    <3> QED
      BY <3>2, <3>3
  <2>6. ServerMoves
    <3>1. dtag' # dtag
      BY <1>1, <1>4 DEF ServerHolds
    <3> QED
      BY <1>1, <1>4, <2>4, <2>5, <3>1 DEF ServerMoves
  <2>7. StoresHold'
    BY <1>1 DEF IInv, StoresHold, StoreHolds, store, Shaped
  <2>8. call[c].kind # "seal" => InForce(c)'
    BY <1>3, <2>4 DEF InForce
  <2>9. CASE At(c, "written") /\ UNCHANGED <<lost, call>>
    <3>1. OnlyCall(c) /\ pc'[c] = "written" /\ call'[c] = call[c]
      BY <1>1, <2>9 DEF OnlyCall, At
    <3>2. Pinned(c)'
      BY <1>1, <2>6, <3>1, PinnedStable DEF Knows
    <3>3. Reading(c)'
      BY <3>1 DEF Reading
    <3>4. Sending(c)'
      BY <1>1, <2>6, <3>1 DEF Knows, Sending, ServerMoves
    <3>5. Reported(c)'
      BY <1>1, <2>8, <3>1 DEF Knows, Reported
    <3>6. Knows(c)'
      BY <1>1, <3>1, <3>2, <3>3, <3>4, <3>5 DEF Knows
    <3> QED
      BY <2>2, <2>6, <2>7, <3>1, <3>6, CallStep
  <2>10. CASE Ended(c, "lost")
    BY <1>1, <2>2, <2>6, <2>7, <2>10, EndedCall, EndKnows, CallStep
  <2> QED
    BY <1>4, <2>9, <2>10 DEF Answer
<1>5. CASE /\ ~(call[c].ifMatch = DescriptionTag /\ log = <<>>)
           /\ UNCHANGED <<client, dtag, lost>>
           /\ IF call[c].ifMatch = DescriptionTag THEN Ended(c, "refused") ELSE Retried(c)
  <2>1. UNCHANGED <<server, view, lost>> /\ UNCHANGED store
    BY <1>1, <1>5 DEF server
  <2>2. ServerMoves /\ ServerHolds' /\ StoresHold'
    BY <2>1, Still
  <2>3. CASE Ended(c, "refused")
    BY <1>1, <2>2, <2>3, EndedCall, EndKnows, CallStep
  <2>4. CASE Retried(c)
    BY <1>1, <2>2, <2>4, RetriedKnows, CallStep
  <2> QED
    BY <1>5, <2>3, <2>4
<1> QED
  BY <1>4, <1>5 DEF PutDescription
-----------------------------------------------------------------------------
(* How calls start, and what happens without them.                         *)

LEMMA GenesisTyped ==
    ASSUME NEW type \in Types
    PROVE  /\ Genesis(type) \in EntryType
           /\ Genesis(type).type = type /\ Genesis(type).state = {}
<1>1. 0 \in 0 .. MaxTries /\ None \in Calls \union {None} /\ 1 \in 1 .. MaxViews
  BY BoundsTyped
<1>2. <<None, 0>> \in Ids
  BY <1>1 DEF Ids
<1> QED
  BY <1>1, <1>2 DEF Genesis, EntryType, Descriptors

LEMMA IdleShape ==
    /\ DOMAIN Idle = CallFields /\ Idle.tries = 0 /\ Idle.view = 0 /\ Idle.out = "none"
    /\ Idle.kind = None /\ Idle.ifMatch = None /\ Idle.next = None
  BY DEF Idle, CallFields

LEMMA StartHolds ==
    ASSUME IInv, NEW c \in Calls, Start(c)
    PROVE  IInv'
<1>1. Shaped /\ ServerHolds /\ Knows(c) /\ pc[c] = "idle" /\ DOMAIN call = Calls /\ DOMAIN pc = Calls
  BY DEF IInv, Shaped, Start, CreateFrom
<1>2. call[c] = Idle /\ MaxTries \in Nat \ {0}
  BY <1>1, BoundsTyped DEF Knows, Reported
<1>3. ServerMoves /\ ServerHolds' /\ Served' = Served /\ UNCHANGED <<server, view, lost>> /\ StoresHold'
  BY Still DEF Start, CreateFrom
<1>4. PICK kind \in Kinds[c] :
         CASE kind = "update" ->
                At(c, "describe") /\ call' = [call EXCEPT ![c].kind = kind]
           [] kind = "seeded" ->
                /\ Served.as = "governed" /\ Served.type = "epochs"
                /\ Sharing \/ held[StoreOf[c]] = NotHeld
                /\ At(c, "replace")
                /\ call' = [call EXCEPT ![c].kind = kind, ![c].ifMatch = LogTag,
                                        ![c].desc = HeadOf(log).state \union {c}]
           [] kind = "create" -> \E v \in Resolvable :
                /\ At(c, "putLog")
                /\ call' = [call EXCEPT ![c].kind = kind, ![c].view = v,
                     ![c].sent = <<[Genesis("epochs") EXCEPT !.id = <<c, 0>>, !.view = v, !.state = {c}]>>]
           [] OTHER -> \E v \in Resolvable : log # <<>> /\ SealFrom(c, v)
  BY DEF Start, CreateFrom
<1>5. kind \in {"update", "seeded", "create", "seal"}
  BY <1>4, KindsTyped
<1>6. \A v \in Resolvable : v \in 0 .. view' /\ v > 0 /\ v \in 1 .. MaxViews
  BY <1>1, <1>3, BoundsTyped DEF Resolvable, ServerHolds
<1>7. OnlyCall(c) /\ Knows(c)'
  <2>1. CASE kind = "update"
    <3> DEFINE k == [call[c] EXCEPT !.kind = kind]
    <3>1. At(c, "describe") /\ call' = [call EXCEPT ![c] = k]
      BY <1>1, <1>4, <2>1
    <3>2. /\ k.ifMatch = None /\ k.kind = "update" /\ k.out = "none" /\ k.tries = 0
          /\ k.view = 0 /\ k.next = None /\ DOMAIN k = CallFields
      BY <1>2, <2>1, IdleShape DEF CallFields
    <3> HIDE DEF k
    <3>3. OnlyCall(c) /\ pc'[c] = "describe" /\ call'[c] = k
      BY <1>1, <3>1, <3>2, Moved
    <3>4. Pinned(c)' /\ Reading(c)' /\ Sending(c)'
      BY <3>2, <3>3 DEF Pinned, Reading, Sending
    <3>5. Reported(c)'
      BY <3>2, <3>3 DEF Reported, Settling
    <3>6. k.tries \in 0 .. MaxTries /\ k.view \in 0 .. view'
      BY <1>1, <1>2, <1>3, <3>2 DEF ServerHolds
    <3> QED
      BY <3>3, <3>4, <3>5, <3>6 DEF Knows
  <2>2. CASE kind = "seeded"
    <3> DEFINE k == [call[c] EXCEPT !.kind = kind, !.ifMatch = LogTag,
                                    !.desc = HeadOf(log).state \union {c}]
    <3>1. At(c, "replace") /\ call' = [call EXCEPT ![c] = k]
          /\ Served.as = "governed" /\ Served.type = "epochs"
      BY <1>1, <1>4, <2>2
    <3>2. /\ k.ifMatch = LogTag /\ k.kind = "seeded" /\ k.out = "none" /\ k.tries = 0
          /\ k.view = 0 /\ k.next = None /\ k.desc = HeadOf(log).state \union {c}
          /\ DOMAIN k = CallFields
      BY <1>2, <2>2, IdleShape DEF CallFields
    <3> HIDE DEF k
    <3>3. OnlyCall(c) /\ pc'[c] = "replace" /\ call'[c] = k
      BY <1>1, <3>1, <3>2, Moved
    <3>4. log # <<>> /\ HeadOf(log).type = "epochs" /\ HeadOf(log).state \in Descriptors
      BY <1>1, <3>1, ServedTyped
    <3>5. /\ LogTag \in Validators /\ LogTag # None /\ LogTag.of = "log" /\ LogTag.at = tag
          /\ LogTag # DescriptionTag
      BY <1>1, NoneApart DEF LogTag, DescriptionTag, Validators, ServerHolds
    <3>6. UNCHANGED <<log, client, tag, dtag>> /\ LogTag' = LogTag /\ DescriptionTag' = DescriptionTag
          /\ tag \in Nat
      BY <1>1, <1>3 DEF server, LogTag, DescriptionTag, ServerHolds
    <3>7. k.desc \in Descriptors
      BY <3>2, <3>4 DEF Descriptors
    <3>8. Pinned(c)'
      <4>1. call'[c].ifMatch = LogTag /\ call'[c].desc = k.desc /\ call'[c].kind = k.kind
        BY <3>2, <3>3
      <4>2. c \in k.desc /\ HeadOf(log).state \subseteq k.desc
        BY <3>2
      <4>3. LogTag.at <= tag
        BY <3>5, <3>6
      <4> HIDE DEF k
      <4> QED
        BY <3>4, <3>5, <3>6, <3>7, <4>1, <4>2, <4>3 DEF Pinned
    <3>9. Reading(c)' /\ Sending(c)'
      BY <3>2, <3>3, <3>5 DEF Reading, Sending
    <3>10. Reported(c)'
      BY <3>2, <3>3 DEF Reported, Settling
    <3>11. k.tries \in 0 .. MaxTries /\ k.view \in 0 .. view'
      BY <1>1, <1>2, <1>3, <3>2 DEF ServerHolds
    <3> QED
      BY <3>3, <3>8, <3>9, <3>10, <3>11 DEF Knows
  <2>3. CASE kind = "create"
    <3>1. PICK v \in Resolvable :
            /\ At(c, "putLog")
            /\ call' = [call EXCEPT ![c].kind = kind, ![c].view = v,
                 ![c].sent = <<[Genesis("epochs") EXCEPT !.id = <<c, 0>>, !.view = v, !.state = {c}]>>]
      BY <1>4, <2>3
    <3> DEFINE e == [Genesis("epochs") EXCEPT !.id = <<c, 0>>, !.view = v, !.state = {c}]
               k == [call[c] EXCEPT !.kind = kind, !.view = v, !.sent = <<e>>]
    <3>2. call' = [call EXCEPT ![c] = k]
      BY <1>1, <3>1
    <3>3. /\ k.ifMatch = None /\ k.kind = "create" /\ k.out = "none" /\ k.tries = 0
          /\ k.view = v /\ k.next = None /\ k.sent = <<e>> /\ DOMAIN k = CallFields
      BY <1>2, <2>3, IdleShape DEF CallFields
    <3>4. <<c, 0>> \in Ids
      <4>1. 0 \in 0 .. MaxTries /\ c \in Calls \union {None}
        BY <1>2
      <4> QED
        BY <4>1 DEF Ids
    <3>5. {c} \in Descriptors /\ "epochs" \in Types /\ v \in 1 .. MaxViews
      BY <1>6 DEF Descriptors, Types
    <3>6. e \in EntryType /\ e.type = "epochs" /\ e.state = {c}
      <4> DEFINE g == Genesis("epochs")
                 id == <<c, 0>>
      <4>1. g \in EntryType /\ g.type = "epochs" /\ id \in Ids
        BY <3>4, <3>5, GenesisTyped
      <4>2. e = [g EXCEPT !.id = id, !.view = v, !.state = {c}]
        OBVIOUS
      <4> HIDE DEF g, id, e
      <4> QED
        BY <3>5, <4>1, <4>2 DEF EntryType
    <3> HIDE DEF k, e
    <3>7. OnlyCall(c) /\ pc'[c] = "putLog" /\ call'[c] = k
      BY <1>1, <3>1, <3>2, <3>3, Moved
    <3>8. k.sent \in Logs /\ HeadOf(k.sent) = e
      BY <3>3, <3>6, Alone1
    <3>9. Pinned(c)' /\ Reading(c)'
      BY <3>3, <3>7 DEF Pinned, Reading
    <3>10. v > 0 /\ v \in 0 .. view'
      BY <1>6
    <3>11. Sending(c)'
      BY <3>3, <3>6, <3>7, <3>8, <3>10 DEF Sending
    <3>12. Reported(c)'
      BY <3>3, <3>7 DEF Reported, Settling
    <3>13. k.tries \in 0 .. MaxTries
      BY <1>2, <3>3
    <3> QED
      BY <3>3, <3>7, <3>9, <3>10, <3>11, <3>12, <3>13 DEF Knows
  <2>4. CASE kind = "seal"
    <3>1. PICK v \in Resolvable : log # <<>> /\ SealFrom(c, v)
      BY <1>4, <2>4
    <3>2. CASE At(c, "ended") /\ call' = [call EXCEPT ![c].kind = "seal", ![c].out = "noop"]
      <4> DEFINE k == [call[c] EXCEPT !.kind = "seal", !.out = "noop"]
      <4>1. call' = [call EXCEPT ![c] = k]
        BY <1>1, <3>2
      <4>2. /\ k.ifMatch = None /\ k.kind = "seal" /\ k.out = "noop" /\ k.tries = 0
            /\ k.view = 0 /\ k.next = None /\ DOMAIN k = CallFields
        BY <1>2, IdleShape DEF CallFields
      <4> HIDE DEF k
      <4>3. OnlyCall(c) /\ pc'[c] = "ended" /\ call'[c] = k
        BY <1>1, <3>2, <4>1, <4>2, Moved
      <4>4. Pinned(c)' /\ Reading(c)'
        BY <4>2, <4>3 DEF Pinned, Reading
      <4>5. Sending(c)'
        BY <1>3, <3>1, <4>2, <4>3 DEF Sending, server
      <4>6. Reported(c)'
        BY <4>2, <4>3 DEF Reported
      <4>7. k.tries \in 0 .. MaxTries /\ k.view \in 0 .. view'
        BY <1>1, <1>2, <1>3, <4>2 DEF ServerHolds
      <4> QED
        BY <4>3, <4>4, <4>5, <4>6, <4>7 DEF Knows
    <3>3. CASE /\ At(c, "readLog")
               /\ call' = [call EXCEPT ![c].kind = "seal", ![c].view = v, ![c].next = "seal"]
      <4> DEFINE k == [call[c] EXCEPT !.kind = "seal", !.view = v, !.next = "seal"]
      <4>1. call' = [call EXCEPT ![c] = k]
        BY <1>1, <3>3
      <4>2. /\ k.ifMatch = None /\ k.kind = "seal" /\ k.out = "none" /\ k.tries = 0
            /\ k.view = v /\ k.next = "seal" /\ DOMAIN k = CallFields
        BY <1>2, IdleShape DEF CallFields
      <4> HIDE DEF k
      <4>3. OnlyCall(c) /\ pc'[c] = "readLog" /\ call'[c] = k
        BY <1>1, <3>3, <4>1, <4>2, Moved
      <4>4. Pinned(c)' /\ log' # <<>> /\ v > 0 /\ v \in 0 .. view'
        BY <1>3, <1>6, <3>1, <4>2, <4>3 DEF Pinned, server
      <4>5. Reading(c)' /\ Sending(c)'
        BY <4>2, <4>3, <4>4 DEF Reading, Sending
      <4>6. Reported(c)'
        BY <4>2, <4>3 DEF Reported, Settling
      <4>7. k.tries \in 0 .. MaxTries
        BY <1>2, <4>2
      <4> QED
        BY <4>2, <4>3, <4>4, <4>5, <4>6, <4>7 DEF Knows
    <3> QED
      BY <3>1, <3>2, <3>3 DEF SealFrom
  <2> QED
    BY <1>5, <2>1, <2>2, <2>3, <2>4
<1> QED
  BY <1>3, <1>7, CallStep

(* A step of the server's side alone.                                      *)
LEMMA ServerStep ==
    ASSUME IInv, ServerMoves, ServerHolds', UNCHANGED <<store, pc, call>>
    PROVE  IInv'
<1>1. \A c \in Calls : Knows(c)'
  BY KnowsStable DEF IInv
<1>2. \A s \in Stores : StoreHolds(s)'
  BY DEF IInv, StoreHolds, store, ServerHolds, ServerMoves
<1> QED
  BY <1>1, <1>2 DEF IInv, Shaped, store

LEMMA RekeyHolds ==
    ASSUME IInv, Rekey
    PROVE  IInv'
<1>1. UNCHANGED server /\ view' = view + 1 /\ view < MaxViews /\ ServerHolds /\ lost' = lost
  BY DEF IInv, Rekey
<1>2. ServerHolds'
  BY <1>1, BoundsTyped DEF ServerHolds, server
<1>3. ServerMoves
  BY <1>1, ServedAgain DEF ServerMoves, server
<1> QED
  BY <1>2, <1>3, ServerStep DEF Rekey

LEMMA ForeignHolds ==
    ASSUME IInv, Foreign
    PROVE  IInv'
<1> DEFINE e == [Genesis("foreign") EXCEPT !.id = <<None, 1>>, !.prev = HeadOf(log).id,
                                            !.view = HeadOf(log).view]
<1>1. ServerHolds /\ log \in Logs /\ log \in Entries
  BY DEF IInv, Foreign, ServerHolds, Logs
<1>2. HeadOf(log) \in EntryType
  BY <1>1, HeadTyped
<1>3. <<None, 1>> \in Ids
  <2>1. 1 \in 0 .. MaxTries /\ None \in Calls \union {None}
    BY BoundsTyped
  <2> QED
    BY <2>1 DEF Ids
<1>4. e \in EntryType /\ e.type = "foreign"
  <2>1. "foreign" \in Types
    BY DEF Types
  <2> QED
    BY <1>2, <1>3, <2>1, GenesisTyped DEF EntryType
<1>5. log' = Append(log, e)
  BY DEF Foreign
<1> HIDE DEF e
<1>6. log' \in Logs /\ HeadOf(log') = e
  BY <1>1, <1>4, <1>5, Appended
<1>7. ServerHolds'
  BY <1>1, <1>6 DEF ServerHolds, Foreign, Logs
<1>8. Served'.type = "foreign"
  BY <1>4, <1>6 DEF Served, HeadOf, Logs
<1>9. ServerMoves
  <2>1. tag' = tag + 1 /\ dtag' = dtag + 1 /\ view' = view /\ log' # <<>>
    BY <1>6 DEF Foreign, Logs
  <2>2. tag' # tag /\ dtag' # dtag
    BY <1>1, <2>1 DEF ServerHolds
  <2> QED
    BY <1>8, <2>1, <2>2 DEF ServerMoves
<1> QED
  BY <1>7, <1>9, ServerStep DEF Foreign
-----------------------------------------------------------------------------
LEMMA InitHolds ==
    ASSUME Init
    PROVE  IInv
<1>1. Shaped
  <2>1. DOMAIN Idle = CallFields
    BY IdleShape
  <2> QED
    BY <2>1 DEF Init, Shaped
<1>3. ServerHolds
  <2>1. PICK start \in Starts :
         /\ log = CASE start = "log" -> <<Genesis("epochs")>>
                    [] start = "foreign" -> <<Genesis("foreign")>>
                    [] OTHER -> <<>>
         /\ client = IF start = "client" THEN {} ELSE None
    BY DEF Init
  <2>2. log = <<>> \/ \E type \in Types : log = <<Genesis(type)>> /\ start \in {"log", "foreign"}
    BY <2>1 DEF Types
  <2>3. log \in Entries
    <3>1. CASE log = <<>>
      BY <3>1 DEF Entries
    <3>2. CASE \E type \in Types : log = <<Genesis(type)>>
      <4>1. PICK type \in Types : log = <<Genesis(type)>>
        BY <3>2
      <4> DEFINE g == Genesis(type)
      <4>2. g \in EntryType /\ log = <<g>>
        BY <4>1, GenesisTyped
      <4> HIDE DEF g
      <4> QED
        BY <4>2, Alone1 DEF Logs
    <3> QED
      BY <2>2, <3>1, <3>2
  <2>4. client \in Descriptors \union {None} /\ (log # <<>> => client = None)
    BY <2>1, <2>2 DEF Descriptors
  <2> QED
    BY <2>3, <2>4, BoundsTyped DEF Init, ServerHolds
<1>4. \A s \in Stores : StoreHolds(s)
  <2> TAKE s \in Stores
  <2>1. held[s] = NotHeld /\ body[s] = <<>> /\ described[s] = None /\ view = 1
    BY DEF Init
  <2>2. NotHeld.entries = <<>> /\ NotHeld.view = 0 /\ <<>> \in Entries
    BY DEF NotHeld, Entries
  <2> QED
    BY <2>1, <2>2, NoneApart DEF StoreHolds
<1>5. \A c \in Calls : Knows(c)
  <2> TAKE c \in Calls
  <2>1. pc[c] = "idle" /\ call[c] = Idle /\ view = 1
    BY DEF Init
  <2>2. Pinned(c) /\ Reading(c)
    BY <2>1, IdleShape DEF Pinned, Reading
  <2>3. Sending(c)
    <3>1. Idle.kind \notin {"seal", "seeded"}
      BY IdleShape, NoneApart
    <3> QED
      BY <2>1, <3>1 DEF Sending
  <2>4. Reported(c)
    BY <2>1, IdleShape DEF Reported, Settling
  <2> QED
    BY <2>1, <2>2, <2>3, <2>4, IdleShape, BoundsTyped DEF Knows
<1> QED
  BY <1>1, <1>3, <1>4, <1>5 DEF IInv

LEMMA NextHolds ==
    ASSUME IInv, [Next]_vars
    PROVE  IInv'
<1>1. CASE \E c \in Calls : Start(c) \/ Step(c)
  <2>1. PICK c \in Calls : Start(c) \/ Step(c)
    BY <1>1
  <2> QED
    BY <2>1, StartHolds, DescribeHolds, SettleDescribeHolds, ReadLogHolds, SettleLogHolds,
       ReplaceHolds, SendAppendHolds, PutLogHolds, PutDescriptionHolds, ConfirmHolds,
       WrittenHolds DEF Step
<1>2. CASE UNCHANGED vars
  <2>1. UNCHANGED <<server, view, lost, store, pc, call>>
    BY <1>2 DEF vars
  <2> QED
    BY <2>1, Still, ServerStep
<1> QED
  BY <1>1, <1>2, RekeyHolds, ForeignHolds DEF Next, Quiet

LEMMA IInvAlways == Spec => []IInv
<1> QED
  BY InitHolds, NextHolds, PTL DEF Spec

(* Type correctness: every variable keeps its shape, and a validator       *)
(* counts the writes of its object.                                        *)
THEOREM TypeCorrect == Spec => []TypeOK
<1>1. IInv => TypeOK
  BY DEF IInv, ServerHolds, StoreHolds, Knows, TypeOK, Entries
<1> QED
  BY <1>1, IInvAlways, PTL

(* An update that was reported done is in the descriptor in force, for any *)
(* number of calls, stores, retries and lost answers, and whether or not   *)
(* calls share a store (replace, append and seal).                         *)
THEOREM UpdatesKept == Spec => []NoUpdateLost
<1>1. IInv => NoUpdateLost
  BY DEF IInv, Knows, Reported, Settling, InForce, NoUpdateLost
<1> QED
  BY <1>1, IInvAlways, PTL

(* A log whose head is another application's state is never written again: *)
(* no update, retry or sweep re-appends it (assertEpochConfigurationState).*)
THEOREM ForeignKept == Spec => ForeignUntouched
<1>1. ASSUME IInv, [Next]_vars
      PROVE  [log # <<>> /\ HeadOf(log).type = "foreign" => log' = log]_vars
  <2> SUFFICES ASSUME log # <<>>, HeadOf(log).type = "foreign", log' # log PROVE FALSE
    OBVIOUS
  <2>1. Next /\ ~UNCHANGED server
    BY <1>1 DEF vars, server
  <2>2. \E c \in Calls : PutLog(c)
    BY <2>1 DEF Next, Rekey, Foreign, Quiet, vars, server, Start, CreateFrom, Step, Describe, SettleDescribe,
       ReadLog, SettleLog, Replace, SendAppend, PutDescription, Confirm, Written
  <2>3. PICK c \in Calls : PutLog(c)
    BY <2>2
  <2>4. pc[c] = "putLog" /\ Guarded(c)
    BY <2>3 DEF PutLog
  <2>5. call[c].ifMatch = LogTag /\ call[c].ifMatch # None
    BY <2>4 DEF Guarded
  <2>6. HeadOf(log).type = "epochs"
    BY <1>1, <2>5 DEF IInv, Knows, Pinned
  <2> QED
    BY <2>6
<1> QED
  BY <1>1, IInvAlways, PTL DEF Spec, ForeignUntouched
-----------------------------------------------------------------------------
(* What holds besides when each store is used by one call at a time.       *)

(* One log is the beginning of another.                                    *)
Begins(entries, longer) ==
    Len(entries) <= Len(longer) /\ \A i \in 1 .. Len(entries) : longer[i] = entries[i]

Has(entries, id) == \E i \in DOMAIN entries : entries[i].id = id
Stated(entries, state) == \E i \in DOMAIN entries : entries[i].state = state

Alone ==
    \A c, d \in Calls :
      c # d /\ StoreOf[c] = StoreOf[d] => pc[c] \in {"idle", "ended"} \/ pc[d] \in {"idle", "ended"}

StoreKeeps(s) ==
    /\ pin[s] # None => Has(log, pin[s])
    /\ held[s] # NotHeld => \A i \in DOMAIN held[s].entries : held[s].entries[i].view <= held[s].view

(* What a call reads continues what its store has seen.                    *)
Continues(c) ==
    LET k == call[c]
    IN /\ pc[c] = "described" /\ k.got.desc.as = "governed" => Stated(log, k.got.desc.state)
       /\ pc[c] = "put" => Has(log, HeadOf(k.sent).id)
       /\ pc[c] = "readLog" =>
            /\ k.next = "compare" => Stated(log, k.on.state)
            /\ k.next = "confirm" => Has(log, HeadOf(k.sent).id)
       /\ pc[c] = "gotLog" =>
            /\ Begins(k.got.entries, log)
            /\ pin[StoreOf[c]] # None => Has(k.got.entries, pin[StoreOf[c]])
            /\ k.next = "compare" => Stated(k.got.entries, k.on.state)
            /\ k.next = "confirm" => Has(k.got.entries, HeadOf(k.sent).id)

(* What a call appends to is the log, or is no longer current.             *)
Follows(entries, e) == e.prev = HeadOf(entries).id /\ e.view >= HeadOf(entries).view

Builds(c) ==
    LET k == call[c]
        s == StoreOf[c]
    IN /\ pc[c] \notin {"idle", "ended"} /\ k.ifMatch = LogTag =>
            /\ held[s] # NotHeld => held[s].entries = log /\ body[s] = log
            /\ pc[c] # "put"
            /\ pc[c] = "gotLog" => k.got.entries = log
            /\ pc[c] = "append" => k.on = log /\ body[s] = log /\ HeadOf(log).view <= k.view
            /\ pc[c] = "putLog" =>
                 Len(k.sent) = Len(log) + 1 /\ Begins(log, k.sent) /\ Follows(log, HeadOf(k.sent))
       /\ pc[c] = "putLog" /\ k.ifMatch = None => Len(k.sent) = 1

Unaccused(c) == call[c].out \notin {"Integrity", "Rollback", "unconfirmed"}

Exact ==
    /\ Chained(log) /\ Alone
    /\ \A s \in Stores : StoreKeeps(s)
    /\ \A c \in Calls : Continues(c) /\ Builds(c) /\ Unaccused(c)
-----------------------------------------------------------------------------
(* Logs that begin others.                                                 *)

LEMMA BeginsItself ==
    ASSUME NEW entries \in Entries
    PROVE  Begins(entries, entries)
  BY LenProperties DEF Begins, Entries

LEMMA BeginsOn ==
    ASSUME NEW first \in Entries, NEW second \in Entries, NEW third \in Entries,
           Begins(first, second), Begins(second, third)
    PROVE  Begins(first, third)
<1>1. Len(first) \in Nat /\ Len(second) \in Nat /\ Len(third) \in Nat
  BY LenProperties DEF Entries
<1> QED
  BY <1>1 DEF Begins

LEMMA HasOn ==
    ASSUME NEW entries \in Entries, NEW longer \in Entries, Begins(entries, longer)
    PROVE  /\ \A id : Has(entries, id) => Has(longer, id)
           /\ \A state : Stated(entries, state) => Stated(longer, state)
<1>1. /\ DOMAIN entries = 1 .. Len(entries) /\ DOMAIN longer = 1 .. Len(longer)
      /\ Len(entries) \in Nat /\ Len(longer) \in Nat
  BY LenProperties DEF Entries
<1>2. \A i \in DOMAIN entries : i \in DOMAIN longer /\ longer[i] = entries[i]
  BY <1>1 DEF Begins
<1> QED
  BY <1>2 DEF Has, Stated

LEMMA HeadHas ==
    ASSUME NEW entries \in Logs
    PROVE  Has(entries, HeadOf(entries).id) /\ Stated(entries, HeadOf(entries).state)
<1>1. Len(entries) \in DOMAIN entries /\ HeadOf(entries) = entries[Len(entries)]
  BY HeadTyped
<1> QED
  BY <1>1 DEF Has, Stated

(* The beginning of a chained log is chained.                              *)
LEMMA ChainedBeginning ==
    ASSUME NEW entries \in Entries, NEW longer \in Entries, Begins(entries, longer), Chained(longer)
    PROVE  Chained(entries)
<1>1. Len(entries) \in Nat /\ Len(longer) \in Nat
  BY LenProperties DEF Entries
<1>2. \A i \in 2 .. Len(entries) :
        i \in 2 .. Len(longer) /\ longer[i] = entries[i] /\ longer[i - 1] = entries[i - 1]
  BY <1>1 DEF Begins
<1> QED
  BY <1>2 DEF Chained

(* One entry more on the head.                                             *)
LEMMA ChainedOn ==
    ASSUME NEW entries \in Logs, NEW longer \in Logs, Begins(entries, longer), Chained(entries),
           Len(longer) = Len(entries) + 1, Follows(entries, HeadOf(longer))
    PROVE  Chained(longer)
<1>1. /\ Len(entries) \in Nat \ {0} /\ Len(longer) \in Nat \ {0}
      /\ HeadOf(longer) = longer[Len(longer)] /\ HeadOf(entries) = entries[Len(entries)]
  BY HeadTyped
<1> SUFFICES ASSUME NEW i \in 2 .. Len(longer)
             PROVE  longer[i].prev = longer[i - 1].id /\ longer[i].view >= longer[i - 1].view
  BY DEF Chained
<1>2. CASE i = Len(longer)
  <2>1. longer[i - 1] = HeadOf(entries) /\ longer[i] = HeadOf(longer)
    BY <1>1, <1>2 DEF Begins
  <2> QED
    BY <2>1 DEF Follows
<1>3. CASE i # Len(longer)
  <2>1. i \in 2 .. Len(entries) /\ longer[i] = entries[i] /\ longer[i - 1] = entries[i - 1]
    BY <1>1, <1>3 DEF Begins
  <2> QED
    BY <2>1 DEF Chained
<1> QED
  BY <1>2, <1>3
-----------------------------------------------------------------------------
(* Steps of one call, as the others see them.                              *)
Grown ==
    /\ Begins(log, log') /\ Chained(log') /\ log' \in Entries
    /\ tag' \in {tag, tag + 1} /\ (tag' = tag => log' = log)

Others(c) == \A d \in Calls \ {c} : pc'[d] = pc[d] /\ call'[d] = call[d]

Apart(c) ==
    \A s \in Stores \ {StoreOf[c]} : held'[s] = held[s] /\ body'[s] = body[s] /\ pin'[s] = pin[s]

LEMMA OnlyOthers ==
    ASSUME NEW c \in Calls, OnlyCall(c)
    PROVE  Others(c)
  BY DEF OnlyCall, Others

LEMMA GrownStill ==
    ASSUME IInv, Exact, UNCHANGED server
    PROVE  Grown
  BY BeginsItself DEF IInv, Exact, ServerHolds, Grown, server

LEMMA StoreKeepsOn ==
    ASSUME IInv, Grown, NEW s \in Stores, StoreKeeps(s), held'[s] = held[s], pin'[s] = pin[s]
    PROVE  StoreKeeps(s)'
<1>1. pin[s] # None => Has(log', pin[s])
  BY HasOn DEF IInv, ServerHolds, Grown, StoreKeeps
<1> QED
  BY <1>1 DEF StoreKeeps

LEMMA OthersKeep ==
    ASSUME IInv, Exact, Grown, NEW d \in Calls, pc'[d] = pc[d], call'[d] = call[d],
           pc[d] \notin {"idle", "ended"} =>
             LET s == StoreOf[d]
             IN held'[s] = held[s] /\ body'[s] = body[s] /\ pin'[s] = pin[s]
    PROVE  Continues(d)' /\ Builds(d)' /\ Unaccused(d)'
<1> DEFINE k == call[d]
           s == StoreOf[d]
<1>1. log \in Entries /\ log' \in Entries /\ tag \in Nat /\ tag' \in Nat /\ tag <= tag'
      /\ Begins(log, log')
  BY DEF IInv, ServerHolds, Grown
<1>2. /\ \A id : Has(log, id) => Has(log', id)
      /\ \A state : Stated(log, state) => Stated(log', state)
  BY <1>1, HasOn
<1>3. Continues(d) /\ Builds(d) /\ Unaccused(d) /\ Knows(d)
  BY DEF Exact, IInv
<1>4. Continues(d)'
  <2>1. pc[d] = "described" /\ k.got.desc.as = "governed" => Stated(log', k.got.desc.state)
    BY <1>2, <1>3 DEF Continues
  <2>2. pc[d] = "put" => Has(log', HeadOf(k.sent).id)
    BY <1>2, <1>3 DEF Continues
  <2>3. pc[d] = "readLog" =>
            /\ k.next = "compare" => Stated(log', k.on.state)
            /\ k.next = "confirm" => Has(log', HeadOf(k.sent).id)
    BY <1>2, <1>3 DEF Continues
  <2>4. pc[d] = "gotLog" => Begins(k.got.entries, log')
    <3> SUFFICES ASSUME pc[d] = "gotLog" PROVE Begins(k.got.entries, log')
      OBVIOUS
    <3> DEFINE entries == k.got.entries
    <3>1. entries \in Entries /\ Begins(entries, log)
      BY <1>3 DEF Continues, Knows, Reading, Logs
    <3> HIDE DEF entries
    <3>2. Begins(entries, log')
      BY <1>1, <3>1, BeginsOn
    <3> QED
      BY <3>2 DEF entries
  <2>5. pc[d] = "gotLog" =>
            /\ pin'[s] # None => Has(k.got.entries, pin'[s])
            /\ k.next = "compare" => Stated(k.got.entries, k.on.state)
            /\ k.next = "confirm" => Has(k.got.entries, HeadOf(k.sent).id)
    BY <1>3 DEF Continues
  <2> HIDE DEF k
  <2>6. call'[d] = k
    BY DEF k
  <2> QED
    BY <2>1, <2>2, <2>3, <2>4, <2>5, <2>6 DEF Continues, HeadOf
<1>5. Builds(d)'
  <2>1. k.ifMatch = LogTag' => k.ifMatch = LogTag /\ log' = log
    <3> SUFFICES ASSUME k.ifMatch = LogTag' PROVE k.ifMatch = LogTag /\ log' = log
      OBVIOUS
    <3>1. k.ifMatch # None /\ k.ifMatch.of = "log" /\ k.ifMatch.at = tag'
      BY <1>1, NoneApart DEF LogTag, Validators
    <3>2. tag' <= tag
      BY <1>3, <3>1 DEF Knows, Pinned
    <3> QED
      BY <1>1, <3>2 DEF Grown, LogTag
  <2> QED
    BY <1>3, <2>1 DEF Builds
<1> QED
  BY <1>3, <1>4, <1>5 DEF Unaccused

(* A step of one call that is under way.                                   *)
LEMMA ExactStep ==
    ASSUME IInv, Exact, NEW c \in Calls, pc[c] \notin {"idle", "ended"}, Others(c), Grown, Apart(c),
           StoreKeeps(StoreOf[c])', Continues(c)', Builds(c)', Unaccused(c)'
    PROVE  Exact'
<1>1. \A d \in Calls : StoreOf[d] \in Stores
  BY StoresTyped
<1>2. \A s \in Stores : StoreKeeps(s)'
  BY StoreKeepsOn DEF Apart, Exact
<1>3. \A d \in Calls : Continues(d)' /\ Builds(d)' /\ Unaccused(d)'
  <2> TAKE d \in Calls
  <2>1. CASE d = c
    BY <2>1
  <2>2. CASE d # c
    <3>1. pc[d] \notin {"idle", "ended"} => StoreOf[d] # StoreOf[c]
      BY <2>2 DEF Exact, Alone
    <3> QED
      BY <1>1, <2>2, <3>1, OthersKeep DEF Others, Apart
  <2> QED
    BY <2>1, <2>2
<1>4. Alone'
  <2> SUFFICES ASSUME NEW d \in Calls, NEW e \in Calls, d # e, StoreOf[d] = StoreOf[e]
               PROVE  pc'[d] \in {"idle", "ended"} \/ pc'[e] \in {"idle", "ended"}
    BY DEF Alone
  <2>1. pc[d] \in {"idle", "ended"} \/ pc[e] \in {"idle", "ended"}
    BY DEF Exact, Alone
  <2>2. (d # c /\ pc[d] \in {"idle", "ended"}) \/ (e # c /\ pc[e] \in {"idle", "ended"})
    BY <2>1
  <2> QED
    BY <2>2 DEF Others
<1> QED
  BY <1>2, <1>3, <1>4 DEF Exact, Grown

(* A call that ended, or tries again, is bound by nothing it read.         *)
LEMMA EndExact ==
    ASSUME IInv, NEW c \in Calls, NEW out, Ended(c, out),
           out \notin {"Integrity", "Rollback", "unconfirmed"}
    PROVE  Others(c) /\ Continues(c)' /\ Builds(c)' /\ Unaccused(c)'
<1>1. OnlyCall(c) /\ pc'[c] = "ended" /\ call'[c] = [call[c] EXCEPT !.out = out]
  BY EndedCall DEF IInv
<1>2. call'[c].out = out
  BY <1>1 DEF IInv, Shaped, CallFields
<1> QED
  BY <1>1, <1>2, OnlyOthers DEF Continues, Builds, Unaccused

LEMMA RetriedExact ==
    ASSUME IInv, NEW c \in Calls, Retried(c), Unaccused(c), Grown
    PROVE  Others(c) /\ Continues(c)' /\ Builds(c)' /\ Unaccused(c)'
<1>1. CASE LastTry(c)
  BY <1>1, EndExact DEF Retried
<1>2. CASE ~LastTry(c)
  <2> DEFINE seal == call[c].kind = "seal"
             label == IF seal THEN "readLog" ELSE "describe"
             k == [call[c] EXCEPT !.tries = @ + 1, !.ifMatch = None,
                                  !.next = IF seal THEN "seal" ELSE "compare"]
  <2>1. At(c, label) /\ call' = [call EXCEPT ![c] = k] /\ DOMAIN k = CallFields
    BY <1>2 DEF Retried, IInv, Shaped
  <2>2. k.ifMatch = None /\ k.out = call[c].out /\ k.next \in {"seal", "compare"}
        /\ (seal => k.next = "seal")
    BY DEF IInv, Shaped, CallFields
  <2>3. label \in {"readLog", "describe"} /\ (label = "readLog" => seal)
    OBVIOUS
  <2> HIDE DEF k, label, seal
  <2>4. OnlyCall(c) /\ pc'[c] = label /\ call'[c] = k
    BY <2>1, Moved DEF IInv
  <2>5. Continues(c)'
    BY <2>2, <2>3, <2>4 DEF Continues
  <2>6. k.ifMatch # LogTag'
    <3>1. LogTag' \in Validators
      BY DEF LogTag, Validators, Grown, IInv, ServerHolds
    <3> QED
      BY <2>2, <3>1, NoneApart
  <2>7. Builds(c)' /\ Unaccused(c)'
    BY <2>2, <2>3, <2>4, <2>6 DEF Builds, Unaccused
  <2> QED
    BY <2>4, <2>5, <2>7, OnlyOthers
<1> QED
  BY <1>1, <1>2
-----------------------------------------------------------------------------
(* The reads.                                                              *)

(* A call that quotes what it quoted, of a log and a store that stay.      *)
LEMMA BuildsOn ==
    ASSUME NEW c \in Calls, Builds(c), pc[c] \notin {"idle", "ended"},
           UNCHANGED <<log, tag>>, call'[c].ifMatch = call[c].ifMatch,
           held'[StoreOf[c]] = held[StoreOf[c]], body'[StoreOf[c]] = body[StoreOf[c]],
           pc'[c] \in {"describe", "described", "readLog", "replace", "putDescription", "written"}
    PROVE  Builds(c)'
<1>1. LogTag' = LogTag
  BY DEF LogTag
<1>2. pc'[c] \notin {"gotLog", "append", "putLog", "put"}
  OBVIOUS
<1>3. call[c].ifMatch = LogTag /\ held[StoreOf[c]] # NotHeld =>
        held[StoreOf[c]].entries = log /\ body[StoreOf[c]] = log
  BY DEF Builds
<1> QED
  BY <1>1, <1>2, <1>3 DEF Builds

LEMMA DescribeExact ==
    ASSUME IInv, Exact, NEW c \in Calls, Describe(c)
    PROVE  Exact'
<1> DEFINE g == [desc |-> Served, etag |-> DescriptionTag]
           k == [call[c] EXCEPT !.got = g]
<1>1. Shaped /\ ServerHolds /\ pc[c] = "describe" /\ StoreOf[c] \in Stores
      /\ StoreKeeps(StoreOf[c]) /\ Builds(c) /\ Unaccused(c)
  BY StoresTyped DEF IInv, Exact, Describe
<1>2. At(c, "described") /\ call' = [call EXCEPT ![c] = k] /\ DOMAIN k = CallFields
  BY <1>1 DEF Describe, Shaped
<1>3. k.ifMatch = call[c].ifMatch /\ k.out = call[c].out /\ k.got.desc = Served
  BY <1>1 DEF Shaped, CallFields
<1> HIDE DEF k
<1>4. OnlyCall(c) /\ pc'[c] = "described" /\ call'[c] = k
  BY <1>1, <1>2, Moved
<1>5. Grown /\ UNCHANGED <<server, store>> /\ UNCHANGED <<log, tag>>
  BY GrownStill DEF Describe, server
<1>6. Apart(c) /\ StoreKeeps(StoreOf[c])'
  BY <1>1, <1>5, StoreKeepsOn DEF Apart, store
<1>7. Continues(c)'
  <2>1. Served.as = "governed" => Stated(log, Served.state)
    BY <1>1, ServedTyped, HeadHas DEF ServerHolds, Logs
  <2> QED
    BY <1>3, <1>4, <1>5, <2>1 DEF Continues
<1>8. Builds(c)' /\ Unaccused(c)'
  BY <1>1, <1>3, <1>4, <1>5, BuildsOn DEF Unaccused, store
<1> QED
  BY <1>1, <1>4, <1>5, <1>6, <1>7, <1>8, OnlyOthers, ExactStep

LEMMA ReadLogExact ==
    ASSUME IInv, Exact, NEW c \in Calls, ReadLog(c)
    PROVE  Exact'
<1> DEFINE g == [entries |-> log, etag |-> LogTag]
           k == [call[c] EXCEPT !.got = g]
<1>1. Shaped /\ ServerHolds /\ pc[c] = "readLog" /\ StoreOf[c] \in Stores
      /\ StoreKeeps(StoreOf[c]) /\ Continues(c) /\ Builds(c) /\ Unaccused(c)
  BY StoresTyped DEF IInv, Exact, ReadLog
<1>2. At(c, "gotLog") /\ call' = [call EXCEPT ![c] = k] /\ DOMAIN k = CallFields
  BY <1>1 DEF ReadLog, Shaped
<1>3. /\ k.ifMatch = call[c].ifMatch /\ k.out = call[c].out /\ k.got.entries = log
      /\ k.next = call[c].next /\ k.on = call[c].on /\ k.sent = call[c].sent
  BY <1>1 DEF Shaped, CallFields
<1> HIDE DEF k
<1>4. OnlyCall(c) /\ pc'[c] = "gotLog" /\ call'[c] = k
  BY <1>1, <1>2, Moved
<1>5. Grown /\ UNCHANGED <<server, store>> /\ UNCHANGED <<log, tag, held, body, pin>>
  BY GrownStill DEF ReadLog, server, store
<1>6. Apart(c) /\ StoreKeeps(StoreOf[c])'
  BY <1>1, <1>5, StoreKeepsOn DEF Apart, store
<1>7. Continues(c)'
  <2>1. Begins(log, log) /\ (pin[StoreOf[c]] # None => Has(log, pin[StoreOf[c]]))
    BY <1>1, BeginsItself DEF ServerHolds, StoreKeeps
  <2>2. /\ k.next = "compare" => Stated(log, k.on.state)
        /\ k.next = "confirm" => Has(log, HeadOf(k.sent).id)
    BY <1>1, <1>3 DEF Continues
  <2> QED
    BY <1>3, <1>4, <1>5, <2>1, <2>2 DEF Continues, HeadOf
<1>8. Builds(c)'
  <2>1. LogTag' = LogTag
    BY <1>5 DEF LogTag
  <2>2. pc'[c] \notin {"append", "putLog", "put"}
    BY <1>4
  <2>3. call[c].ifMatch = LogTag /\ held[StoreOf[c]] # NotHeld =>
          held[StoreOf[c]].entries = log /\ body[StoreOf[c]] = log
    BY <1>1 DEF Builds
  <2> QED
    BY <1>3, <1>4, <1>5, <2>1, <2>2, <2>3 DEF Builds
<1>9. Unaccused(c)'
  BY <1>1, <1>3, <1>4 DEF Unaccused
<1> QED
  BY <1>1, <1>4, <1>5, <1>6, <1>7, <1>8, <1>9, OnlyOthers, ExactStep

LEMMA SettleDescribeExact ==
    ASSUME IInv, Exact, NEW c \in Calls, SettleDescribe(c)
    PROVE  Exact'
<1> DEFINE got == call[c].got.desc
           etag == call[c].got.etag
<1>1. Shaped /\ ServerHolds /\ pc[c] = "described" /\ StoreOf[c] \in Stores /\ Knows(c)
      /\ StoreKeeps(StoreOf[c]) /\ Continues(c) /\ Builds(c) /\ Unaccused(c)
      /\ DOMAIN call[c] = CallFields
  BY StoresTyped DEF IInv, Exact, SettleDescribe, Shaped
<1>2. /\ etag \in Validators /\ etag.of = "description"
      /\ got.as \in {"none", "client", "governed"}
      /\ got.as = "governed" => Stated(log, got.state)
  BY <1>1 DEF Knows, Reading, Continues
<1>3. Grown /\ UNCHANGED <<held, body, pin>> /\ UNCHANGED <<log, tag>>
  BY GrownStill DEF SettleDescribe, server
<1>4. Apart(c) /\ StoreKeeps(StoreOf[c])'
  BY <1>1, <1>3, StoreKeepsOn DEF Apart
<1>5. Others(c) /\ Continues(c)' /\ Builds(c)' /\ Unaccused(c)'
  <2>1. CASE got.as = "none"
    <3>1. Ended(c, "absent")
      BY <2>1 DEF SettleDescribe
    <3> QED
      BY <3>1, EndExact
  <2>2. CASE got.as = "client"
    <3> DEFINE k == Mutated(c, got.state, etag)
    <3>1. At(c, "replace") /\ call' = [call EXCEPT ![c] = k]
      BY <2>2 DEF SettleDescribe
    <3>2. /\ k.out = call[c].out /\ DOMAIN k = CallFields
          /\ k.ifMatch = call[c].ifMatch \/ k.ifMatch = etag
      BY <1>1 DEF Mutated, CallFields
    <3>3. etag # LogTag'
      BY <1>2 DEF LogTag
    <3> HIDE DEF k, etag
    <3>4. OnlyCall(c) /\ pc'[c] = "replace" /\ call'[c] = k
      BY <1>1, <3>1, <3>2, Moved
    <3>5. Builds(c)'
      <4>1. CASE k.ifMatch = call[c].ifMatch
        BY <1>1, <1>3, <3>4, <4>1, BuildsOn
      <4>2. CASE k.ifMatch = etag
        BY <3>3, <3>4, <4>2 DEF Builds
      <4> QED
        BY <3>2, <4>1, <4>2
    <3> QED
      BY <1>1, <3>2, <3>4, <3>5, OnlyOthers DEF Continues, Unaccused
  <2>3. CASE got.as = "governed"
    <3>1. PICK v \in Resolvable :
            /\ At(c, "readLog")
            /\ call' = [call EXCEPT ![c].view = v, ![c].on = got, ![c].next = "compare"]
      BY <2>3 DEF SettleDescribe
    <3> DEFINE k == [call[c] EXCEPT !.view = v, !.on = got, !.next = "compare"]
    <3>2. DOMAIN k = CallFields /\ call' = [call EXCEPT ![c] = k]
      BY <1>1, <3>1 DEF Shaped
    <3>3. k.ifMatch = call[c].ifMatch /\ k.out = call[c].out /\ k.next = "compare" /\ k.on = got
      BY <1>1 DEF CallFields
    <3> HIDE DEF k, got
    <3>4. OnlyCall(c) /\ pc'[c] = "readLog" /\ call'[c] = k
      BY <1>1, <3>1, <3>2, Moved
    <3>5. Continues(c)'
      BY <1>2, <1>3, <2>3, <3>3, <3>4 DEF Continues
    <3>6. Builds(c)' /\ Unaccused(c)'
      BY <1>1, <1>3, <3>3, <3>4, BuildsOn DEF Unaccused
    <3> QED
      BY <3>4, <3>5, <3>6, OnlyOthers
  <2> QED
    BY <1>2, <2>1, <2>2, <2>3
<1> QED
  BY <1>1, <1>3, <1>4, <1>5, ExactStep

(* A log that begins the one served, under a pin it has, is never refused  *)
(* as forged or rolled back; an accepted one was written under views the   *)
(* reader's view extends.                                                  *)
LEMMA HonestVerdict ==
    ASSUME NEW entries \in Logs, log \in Entries, Chained(log), Begins(entries, log),
           NEW v, NEW pinned, pinned # None => Has(entries, pinned)
    PROVE  /\ Verdict(entries, v, pinned) \in {"Behind", "ok"}
           /\ Verdict(entries, v, pinned) = "ok" => \A i \in DOMAIN entries : ~(entries[i].view > v)
<1>1. Chained(entries)
  BY ChainedBeginning DEF Logs
<1>2. pinned # None => ~ \A i \in DOMAIN entries : entries[i].id # pinned
  BY DEF Has
<1> QED
  BY <1>1, <1>2 DEF Verdict

LEMMA SettleLogExact ==
    ASSUME IInv, Exact, NEW c \in Calls, SettleLog(c)
    PROVE  Exact'
<1> DEFINE s == StoreOf[c]
           entries == call[c].got.entries
           etag == call[c].got.etag
           verdict == Verdict(entries, call[c].view, pin[s])
           ours == IsEpochConfiguration(entries)
           found == \E i \in DOMAIN entries : entries[i].id = HeadOf(call[c].sent).id
           next == call[c].next
           new == [entries |-> entries, view |-> call[c].view]
<1>1. Shaped /\ ServerHolds /\ pc[c] = "gotLog" /\ s \in Stores /\ Knows(c) /\ DOMAIN call[c] = CallFields
      /\ StoreKeeps(s) /\ Continues(c) /\ Builds(c) /\ Unaccused(c) /\ Chained(log) /\ log \in Entries
      /\ DOMAIN held = Stores /\ DOMAIN body = Stores /\ DOMAIN pin = Stores
      /\ DOMAIN call = Calls
  BY StoresTyped DEF IInv, Exact, SettleLog, Shaped, ServerHolds
<1>2. /\ etag \in Validators /\ etag.of = "log" /\ entries \in Logs
      /\ etag = LogTag => entries = log
      /\ next \in {"compare", "acquire", "seal", "adopt", "confirm"}
      /\ call[c].ifMatch = LogTag => entries = log
  BY <1>1 DEF Knows, Reading, Builds
<1>3. /\ Begins(entries, log) /\ (pin[s] # None => Has(entries, pin[s]))
      /\ next = "compare" => Stated(entries, call[c].on.state)
      /\ next = "confirm" => Has(entries, HeadOf(call[c].sent).id)
  BY <1>1 DEF Continues
<1>4. verdict \in {"Behind", "ok"} /\ (verdict = "ok" => \A i \in DOMAIN entries : ~(entries[i].view > call[c].view))
  BY <1>1, <1>2, <1>3, HonestVerdict
<1>5. Grown /\ UNCHANGED <<log, tag>> /\ LogTag' = LogTag
  BY GrownStill DEF SettleLog, server, LogTag
<1>6. /\ body' = [body EXCEPT ![s] = entries]
      /\ pin' = IF verdict = "ok" THEN [pin EXCEPT ![s] = HeadOf(entries).id] ELSE pin
      /\ held' = IF verdict = "ok" /\ ours THEN [held EXCEPT ![s] = new] ELSE held
  BY DEF SettleLog, Adopt
<1>7. Has(log, HeadOf(entries).id)
  BY <1>1, <1>2, <1>3, HeadHas, HasOn DEF Logs
<1>8. \A i \in DOMAIN entries : verdict = "ok" => entries[i].view <= call[c].view
  <2>1. entries \in Seq(EntryType) /\ call[c].view \in Nat /\ MaxViews \in Nat
    BY <1>1, <1>2, BoundsTyped DEF Logs, Entries, Knows, ServerHolds
  <2>2. \A i \in DOMAIN entries : entries[i].view \in 1 .. MaxViews
    <3>1. DOMAIN entries = 1 .. Len(entries)
      BY <2>1, LenProperties
    <3>2. \A i \in DOMAIN entries : entries[i] \in EntryType
      BY <2>1, <3>1, ElementOfSeq
    <3> HIDE DEF entries
    <3> QED
      BY <3>2 DEF EntryType
  <2> HIDE DEF entries, verdict
  <2> QED
    BY <1>4, <2>1, <2>2
<1> HIDE DEF verdict, ours, new
<1>9. Apart(c) /\ StoreKeeps(s)'
  <2>1. Apart(c)
    BY <1>1, <1>6 DEF Apart
  <2>2. pin'[s] \in {pin[s], HeadOf(entries).id} /\ held'[s] \in {held[s], new}
        /\ (verdict = "ok" \/ held'[s] = held[s])
    BY <1>1, <1>6
  <2>3. pin'[s] # None => Has(log', pin'[s])
    BY <1>1, <1>5, <1>7, <2>2 DEF StoreKeeps
  <2>4. new.entries = entries /\ new.view = call[c].view
    BY DEF new
  <2>5. held'[s] # NotHeld => \A i \in DOMAIN held'[s].entries : held'[s].entries[i].view <= held'[s].view
    BY <1>1, <1>8, <2>2, <2>4 DEF StoreKeeps
  <2> QED
    BY <2>1, <2>3, <2>5 DEF StoreKeeps
<1>10. verdict = "ok" /\ ours => held'[s].entries = entries /\ held'[s].view = call[c].view
                                 /\ body'[s] = entries
  BY <1>1, <1>6 DEF new
<1>11. Others(c) /\ Continues(c)' /\ Builds(c)' /\ Unaccused(c)'
  <2>1. CASE verdict # "ok"
    <3>1. Ended(c, "Behind")
      BY <1>4, <2>1 DEF SettleLog, verdict
    <3> QED
      BY <3>1, EndExact
  <2>2. CASE verdict = "ok" /\ ~ours
    <3>1. Ended(c, "Foreign")
      BY <2>2 DEF SettleLog, verdict, ours
    <3> QED
      BY <3>1, EndExact
  <2>3. CASE verdict = "ok" /\ ours
    <3>1. CASE next = "compare"
      <4> DEFINE desc == HeadOf(entries).state
                 k == Mutated(c, desc, etag)
      <4>1. Compared(c, entries)
        BY <2>3, <3>1 DEF SettleLog, verdict, ours
      <4>2. CASE desc = call[c].on.state
        <5>1. At(c, "replace") /\ call' = [call EXCEPT ![c] = k]
          BY <4>1, <4>2 DEF Compared
        <5>2. /\ k.out = call[c].out /\ DOMAIN k = CallFields
              /\ k.ifMatch = call[c].ifMatch \/ k.ifMatch = etag
          BY <1>1 DEF Mutated, CallFields
        <5>3. k.ifMatch = LogTag' => entries = log'
          BY <1>2, <1>5, <5>2
        <5> HIDE DEF k, entries, etag, desc
        <5>4. OnlyCall(c) /\ pc'[c] = "replace" /\ call'[c] = k
          BY <1>1, <5>1, <5>2, Moved
        <5>5. Builds(c)'
          BY <1>10, <2>3, <5>3, <5>4 DEF Builds
        <5> QED
          BY <1>1, <5>2, <5>4, <5>5, OnlyOthers DEF Continues, Unaccused
      <4>3. CASE desc # call[c].on.state
        <5>1. ProjectionBehind(entries, call[c].on)
          <6>1. PICK i \in DOMAIN entries : entries[i].state = call[c].on.state
            BY <1>3, <3>1 DEF Stated
          <6>2. DOMAIN entries = 1 .. Len(entries) /\ Len(entries) \in Nat \ {0} /\ desc = entries[Len(entries)].state
            BY <1>2, HeadTyped
          <6>3. i # Len(entries)
            BY <4>3, <6>1, <6>2
          <6>4. i \in 1 .. Len(entries) - 1
            BY <6>2, <6>3
          <6> QED
            BY <6>1, <6>4 DEF ProjectionBehind
        <5>2. Retried(c)
          BY <4>1, <4>3, <5>1 DEF Compared
        <5> QED
          BY <1>1, <1>5, <5>2, RetriedExact
      <4> QED
        BY <4>2, <4>3
    <3>2. CASE next = "acquire"
      <4>1. At(c, "replace") /\ UNCHANGED call
        BY <2>3, <3>2 DEF SettleLog, verdict, ours
      <4>2. Others(c) /\ pc'[c] = "replace" /\ call'[c] = call[c]
        BY <1>1, <4>1 DEF Others, At, Shaped
      <4>3. Builds(c)'
        BY <1>2, <1>5, <1>10, <2>3, <4>2 DEF Builds
      <4> QED
        BY <1>1, <4>2, <4>3 DEF Continues, Unaccused
    <3>3. CASE next = "seal"
      <4>1. Swept(c, entries)
        BY <2>3, <3>3 DEF SettleLog, verdict, ours
      <4>2. CASE HeadOf(entries).view >= call[c].view
        <5>1. Ended(c, "noop")
          BY <4>1, <4>2 DEF Swept
        <5> QED
          BY <5>1, EndExact
      <4>3. CASE ~(HeadOf(entries).view >= call[c].view)
        <5> DEFINE desc == HeadOf(entries).state
                   k == [call[c] EXCEPT !.on = entries, !.desc = desc, !.ifMatch = etag]
        <5>1. At(c, "append") /\ call' = [call EXCEPT ![c] = k] /\ DOMAIN k = CallFields
          BY <1>1, <4>1, <4>3 DEF Swept
        <5>2. /\ k.on = entries /\ k.ifMatch = etag /\ k.out = call[c].out /\ k.view = call[c].view
          BY <1>1 DEF CallFields
        <5>3. HeadOf(entries).view <= call[c].view
          BY <1>2, <1>8, <2>3, HeadTyped
        <5>4. k.ifMatch = LogTag' => entries = log' /\ entries = log
          BY <1>2, <1>5, <5>2
        <5> HIDE DEF k, desc, entries, etag
        <5>5. OnlyCall(c) /\ pc'[c] = "append" /\ call'[c] = k
          BY <1>1, <5>1, Moved
        <5>6. Builds(c)'
          BY <1>10, <2>3, <5>2, <5>3, <5>4, <5>5 DEF Builds, HeadOf
        <5> QED
          BY <1>1, <5>2, <5>5, <5>6, OnlyOthers DEF Continues, Unaccused
      <4> QED
        BY <4>2, <4>3
    <3>4. CASE next = "adopt"
      <4>1. Ended(c, "conflict")
        BY <2>3, <3>4 DEF SettleLog, verdict, ours
      <4> QED
        BY <4>1, EndExact
    <3>5. CASE next = "confirm"
      <4>1. Ended(c, IF found THEN "ok" ELSE "unconfirmed")
        BY <2>3, <3>5 DEF SettleLog, verdict, ours
      <4>2. found
        BY <1>3, <3>5 DEF Has
      <4>3. Ended(c, "ok")
        BY <4>1, <4>2
      <4> QED
        BY <4>3, EndExact
    <3> QED
      BY <1>2, <3>1, <3>2, <3>3, <3>4, <3>5
  <2> QED
    BY <2>1, <2>2, <2>3
<1> QED
  BY <1>1, <1>5, <1>9, <1>11, ExactStep
-----------------------------------------------------------------------------
(* The writes.                                                             *)

LEMMA ReplaceExact ==
    ASSUME IInv, Exact, NEW c \in Calls, Replace(c)
    PROVE  Exact'
<1> DEFINE s == StoreOf[c]
<1>1. Shaped /\ ServerHolds /\ pc[c] = "replace" /\ s \in Stores
      /\ StoreKeeps(s) /\ StoreHolds(s) /\ Builds(c) /\ Unaccused(c) /\ DOMAIN call[c] = CallFields
      /\ DOMAIN call = Calls /\ DOMAIN pc = Calls
  BY StoresTyped DEF IInv, Exact, Replace, Shaped
<1>2. Grown /\ UNCHANGED <<log, tag, held, body, pin>> /\ LogTag' = LogTag
  BY GrownStill DEF Replace, server, store, LogTag
<1>3. Apart(c) /\ StoreKeeps(s)'
  BY <1>1, <1>2, StoreKeepsOn DEF Apart
<1>4. Others(c) /\ Continues(c)' /\ Builds(c)' /\ Unaccused(c)'
  <2>1. CASE described[s] = None \/ described[s] \in {"none", "client"}
    <3>1. PICK label \in {"describe", "putDescription"} : At(c, label) /\ UNCHANGED call
      <4>1. CASE described[s] = None
        <5>1. At(c, "describe") /\ UNCHANGED call
          BY <4>1, NoneApart DEF Replace
        <5> QED
          BY <5>1
      <4>2. CASE described[s] \in {"none", "client"}
        <5>1. At(c, "putDescription") /\ UNCHANGED call
          BY <4>2, NoneApart DEF Replace
        <5> QED
          BY <5>1
      <4> QED
        BY <2>1, <4>1, <4>2
    <3>2. Others(c) /\ pc'[c] = label /\ call'[c] = call[c]
      BY <1>1, <3>1 DEF Others, At
    <3>3. Builds(c)'
      BY <1>1, <1>2, <3>2, BuildsOn
    <3> QED
      BY <1>1, <3>2, <3>3 DEF Continues, Unaccused
  <2>2. CASE described[s] = "governed" /\ held[s] = NotHeld
    <3>1. PICK v \in Resolvable :
            At(c, "readLog") /\ call' = [call EXCEPT ![c].view = v, ![c].next = "acquire"]
      BY <2>2, NoneApart DEF Replace
    <3> DEFINE k == [call[c] EXCEPT !.view = v, !.next = "acquire"]
    <3>2. DOMAIN k = CallFields /\ call' = [call EXCEPT ![c] = k]
      BY <1>1, <3>1
    <3>3. k.ifMatch = call[c].ifMatch /\ k.out = call[c].out /\ k.next = "acquire"
      BY <1>1 DEF CallFields
    <3> HIDE DEF k
    <3>4. OnlyCall(c) /\ pc'[c] = "readLog" /\ call'[c] = k
      BY <1>1, <3>1, <3>2, Moved
    <3>5. Builds(c)'
      BY <1>1, <1>2, <3>3, <3>4, BuildsOn
    <3> QED
      BY <1>1, <3>3, <3>4, <3>5, OnlyOthers DEF Continues, Unaccused
  <2>3. CASE described[s] = "governed" /\ held[s] # NotHeld
    <3>1. At(c, "append")
          /\ call' = [call EXCEPT ![c].on = held[s].entries, ![c].view = held[s].view]
      BY <2>3, NoneApart DEF Replace
    <3> DEFINE k == [call[c] EXCEPT !.on = held[s].entries, !.view = held[s].view]
    <3>2. DOMAIN k = CallFields /\ call' = [call EXCEPT ![c] = k]
      BY <1>1, <3>1
    <3>3. /\ k.ifMatch = call[c].ifMatch /\ k.out = call[c].out /\ k.view = held[s].view
          /\ k.on = held[s].entries
      BY <1>1 DEF CallFields
    <3> HIDE DEF k
    <3>4. OnlyCall(c) /\ pc'[c] = "append" /\ call'[c] = k
      BY <1>1, <3>1, <3>2, Moved
    <3>5. HeadOf(held[s].entries).view <= held[s].view
      <4> DEFINE entries == held[s].entries
      <4>1. entries \in Logs /\ \A i \in DOMAIN entries : entries[i].view <= held[s].view
        BY <1>1, <2>3 DEF StoreHolds, StoreKeeps, Logs
      <4> HIDE DEF entries
      <4>2. Len(entries) \in DOMAIN entries /\ HeadOf(entries) = entries[Len(entries)]
        BY <4>1, HeadTyped
      <4>3. HeadOf(entries).view <= held[s].view
        BY <4>1, <4>2
      <4> QED
        BY <4>3 DEF entries
    <3>6. Builds(c)'
      <4>1. k.ifMatch = LogTag => held[s].entries = log /\ body[s] = log
        BY <1>1, <2>3, <3>3 DEF Builds
      <4> QED
        BY <1>2, <3>3, <3>4, <3>5, <4>1 DEF Builds, HeadOf
    <3> QED
      BY <1>1, <3>3, <3>4, <3>6, OnlyOthers DEF Continues, Unaccused
  <2> QED
    BY <1>1, <2>1, <2>2, <2>3 DEF StoreHolds
<1> QED
  BY <1>1, <1>2, <1>3, <1>4, ExactStep

LEMMA SendAppendExact ==
    ASSUME IInv, Exact, NEW c \in Calls, SendAppend(c)
    PROVE  Exact'
<1> DEFINE s == StoreOf[c]
           Entry(v) == [id |-> <<c, call[c].tries>>, prev |-> HeadOf(call[c].on).id,
                        type |-> "epochs", state |-> call[c].desc, view |-> v]
<1>1. Shaped /\ ServerHolds /\ pc[c] = "append" /\ s \in Stores /\ Knows(c)
      /\ StoreKeeps(s) /\ StoreHolds(s) /\ Builds(c) /\ Unaccused(c) /\ DOMAIN call[c] = CallFields
      /\ DOMAIN call = Calls /\ DOMAIN pc = Calls
  BY StoresTyped DEF IInv, Exact, SendAppend, Shaped
<1>2. Grown /\ UNCHANGED <<log, tag, held, body, pin>> /\ LogTag' = LogTag
  BY GrownStill DEF SendAppend, server, store, LogTag
<1>3. Apart(c) /\ StoreKeeps(s)'
  BY <1>1, <1>2, StoreKeepsOn DEF Apart
<1>4. PICK v \in (IF call[c].kind = "seal" THEN {call[c].view} ELSE Resolvable) :
        IF ViewAdmits(c, v)
        THEN /\ At(c, "putLog")
             /\ call' = [call EXCEPT ![c].sent = Append(body[s], Entry(v)), ![c].view = v]
        ELSE Retried(c)
  BY DEF SendAppend
<1>5. Others(c) /\ Continues(c)' /\ Builds(c)' /\ Unaccused(c)'
  <2>1. CASE ~ViewAdmits(c, v)
    BY <1>1, <1>2, <1>4, <2>1, RetriedExact
  <2>2. CASE ViewAdmits(c, v)
    <3> DEFINE e == Entry(v)
               k == [call[c] EXCEPT !.sent = Append(body[s], e), !.view = v]
    <3>1. At(c, "putLog") /\ call' = [call EXCEPT ![c] = k] /\ DOMAIN k = CallFields
      BY <1>1, <1>4, <2>2
    <3>2. k.ifMatch = call[c].ifMatch /\ k.out = call[c].out /\ k.sent = Append(body[s], e)
      BY <1>1 DEF CallFields
    <3>3. e.prev = HeadOf(call[c].on).id /\ e.view = v
      OBVIOUS
    <3>4. v >= call[c].view
      BY <2>2 DEF ViewAdmits, ViewCarriesHeadOf
    <3> HIDE DEF k, e
    <3>5. OnlyCall(c) /\ pc'[c] = "putLog" /\ call'[c] = k
      BY <1>1, <3>1, Moved
    <3>6. k.ifMatch # None
      BY <1>1, <3>2 DEF Knows, Sending
    <3>7. k.ifMatch = LogTag =>
            /\ held[s] # NotHeld => held[s].entries = log /\ body[s] = log
            /\ call[c].on = log /\ body[s] = log /\ HeadOf(log).view <= call[c].view
      BY <1>1, <3>2 DEF Builds
    <3>8. k.ifMatch = LogTag =>
            Len(k.sent) = Len(log) + 1 /\ Begins(log, k.sent) /\ Follows(log, HeadOf(k.sent))
      <4> SUFFICES ASSUME k.ifMatch = LogTag
                   PROVE  Len(k.sent) = Len(log) + 1 /\ Begins(log, k.sent) /\ Follows(log, HeadOf(k.sent))
        OBVIOUS
      <4>1. k.sent = Append(log, e) /\ log \in Seq(EntryType) /\ Len(log) \in Nat
        BY <1>1, <3>2, <3>7, LenProperties DEF ServerHolds, Entries
      <4>2. Len(k.sent) = Len(log) + 1 /\ HeadOf(k.sent) = e /\ \A i \in 1 .. Len(log) : k.sent[i] = log[i]
        BY <4>1 DEF HeadOf
      <4>3. log # <<>>
        BY <1>1, <3>2, <3>6 DEF Knows, Pinned
      <4>4. HeadOf(log).view \in Nat /\ call[c].view \in Nat /\ v \in Nat
        <5>1. HeadOf(log) \in EntryType
          BY <4>1, <4>3, HeadTyped DEF Logs, Entries
        <5>2. HeadOf(log).view \in Nat
          BY <5>1, BoundsTyped DEF EntryType
        <5>3. call[c].view \in Nat /\ view \in Nat
          BY <1>1, BoundsTyped DEF Knows, ServerHolds
        <5>4. v \in Nat
          BY <1>4, <5>3 DEF Resolvable
        <5> QED
          BY <5>2, <5>3, <5>4
      <4>5. HeadOf(log).view <= v
        BY <3>4, <3>7, <4>4
      <4>6. Begins(log, k.sent)
        BY <4>1, <4>2 DEF Begins
      <4>7. Follows(log, HeadOf(k.sent))
        BY <3>3, <3>7, <4>2, <4>4, <4>5 DEF Follows
      <4> QED
        BY <4>2, <4>6, <4>7
    <3>9. Builds(c)'
      BY <1>2, <3>5, <3>6, <3>7, <3>8 DEF Builds, Begins, Follows, HeadOf
    <3> QED
      BY <1>1, <3>2, <3>5, <3>9, OnlyOthers DEF Continues, Unaccused
  <2> QED
    BY <2>1, <2>2
<1> QED
  BY <1>1, <1>2, <1>3, <1>5, ExactStep

(* The log a write puts extends the one served by an entry on its head.    *)
LEMMA PutExtends ==
    ASSUME IInv, Exact, NEW c \in Calls, pc[c] = "putLog", Guarded(c)
    PROVE  LET sent == call[c].sent
           IN /\ sent \in Logs /\ Chained(sent) /\ Begins(log, sent) /\ Len(sent) = Len(log) + 1
              /\ log # <<>> => Follows(log, HeadOf(sent))
<1> DEFINE sent == call[c].sent
<1>1. sent \in Logs /\ log \in Entries /\ Chained(log) /\ Builds(c) /\ Knows(c)
  BY DEF IInv, Exact, Knows, Sending, ServerHolds
<1>2. CASE call[c].ifMatch = None
  <2>1. log = <<>> /\ Len(sent) = 1
    BY <1>1, <1>2 DEF Guarded, Builds
  <2> HIDE DEF sent
  <2>2. Len(log) = 0
    BY <2>1
  <2> QED
    BY <1>1, <2>1, <2>2 DEF Begins, Chained, sent
<1>3. CASE call[c].ifMatch # None
  <2>1. call[c].ifMatch = LogTag /\ log # <<>>
    BY <1>3 DEF Guarded
  <2>2. Len(sent) = Len(log) + 1 /\ Begins(log, sent) /\ Follows(log, HeadOf(sent))
    BY <1>1, <2>1 DEF Builds
  <2>3. log \in Logs
    BY <1>1, <2>1 DEF Logs
  <2> HIDE DEF sent
  <2>4. Chained(sent)
    BY <1>1, <2>2, <2>3, ChainedOn
  <2> QED
    BY <1>1, <2>2, <2>4 DEF sent
<1> QED
  BY <1>2, <1>3

LEMMA PutLogExact ==
    ASSUME IInv, Exact, NEW c \in Calls, PutLog(c)
    PROVE  Exact'
<1>1. Shaped /\ ServerHolds /\ pc[c] = "putLog" /\ StoreOf[c] \in Stores /\ Knows(c)
      /\ StoreKeeps(StoreOf[c]) /\ Builds(c) /\ Unaccused(c) /\ DOMAIN call[c] = CallFields
      /\ DOMAIN call = Calls /\ DOMAIN pc = Calls /\ UNCHANGED <<held, body, pin>>
  BY StoresTyped DEF IInv, Exact, PutLog, Shaped, store
<1>2. CASE /\ Guarded(c)
           /\ log' = call[c].sent /\ tag' = tag + 1 /\ dtag' = dtag + 1
           /\ Answer(c, "put")
  <2>1. log' \in Logs /\ Chained(log') /\ Begins(log, log')
    BY <1>1, <1>2, PutExtends
  <2>2. Grown
    BY <1>1, <1>2, <2>1 DEF Grown, Logs, ServerHolds
  <2>3. Apart(c) /\ StoreKeeps(StoreOf[c])'
    BY <1>1, <2>2, StoreKeepsOn DEF Apart
  <2>4. CASE At(c, "put") /\ UNCHANGED <<lost, call>>
    <3>1. Others(c) /\ pc'[c] = "put" /\ call'[c] = call[c]
      BY <1>1, <2>4 DEF Others, At
    <3>2. Has(log', HeadOf(log').id)
      BY <2>1, HeadHas
    <3>3. Continues(c)'
      BY <1>2, <3>1, <3>2 DEF Continues, HeadOf
    <3>4. call[c].ifMatch # LogTag'
      <4>1. tag \in Nat /\ LogTag'.of = "log" /\ LogTag'.at = tag + 1 /\ LogTag' \in Validators
        BY <1>1, <1>2 DEF LogTag, ServerHolds, Validators
      <4>2. call[c].ifMatch # None /\ call[c].ifMatch.of = "log" => call[c].ifMatch.at <= tag
        BY <1>1 DEF Knows, Pinned
      <4> QED
        BY <4>1, <4>2, NoneApart
    <3>5. Builds(c)' /\ Unaccused(c)'
      BY <1>1, <3>1, <3>4 DEF Builds, Unaccused
    <3> QED
      BY <1>1, <2>2, <2>3, <3>1, <3>3, <3>5, ExactStep
  <2>5. CASE Ended(c, "lost")
    BY <1>1, <2>2, <2>3, <2>5, EndExact, ExactStep
  <2> QED
    BY <1>2, <2>4, <2>5 DEF Answer
<1>3. CASE /\ ~Guarded(c)
           /\ UNCHANGED <<log, tag, dtag, lost>>
           /\ IF call[c].kind = "create" /\ log # <<>>
              THEN At(c, "readLog") /\ call' = [call EXCEPT ![c].next = "adopt"]
              ELSE IF call[c].kind = "create" THEN Ended(c, "refused") ELSE Retried(c)
  <2>1. Grown /\ UNCHANGED <<log, tag>>
    BY <1>3, GrownStill DEF PutLog, server
  <2>2. Apart(c) /\ StoreKeeps(StoreOf[c])'
    BY <1>1, <2>1, StoreKeepsOn DEF Apart
  <2>3. Others(c) /\ Continues(c)' /\ Builds(c)' /\ Unaccused(c)'
    <3>1. CASE call[c].kind = "create" /\ log # <<>>
      <4> DEFINE k == [call[c] EXCEPT !.next = "adopt"]
      <4>1. At(c, "readLog") /\ call' = [call EXCEPT ![c] = k] /\ DOMAIN k = CallFields
        BY <1>1, <1>3, <3>1
      <4>2. k.ifMatch = call[c].ifMatch /\ k.out = call[c].out /\ k.next = "adopt"
        BY <1>1 DEF CallFields
      <4> HIDE DEF k
      <4>3. OnlyCall(c) /\ pc'[c] = "readLog" /\ call'[c] = k
        BY <1>1, <4>1, Moved
      <4>4. Builds(c)'
        BY <1>1, <2>1, <4>2, <4>3, BuildsOn
      <4> QED
        BY <1>1, <4>2, <4>3, <4>4, OnlyOthers DEF Continues, Unaccused
    <3>2. CASE call[c].kind = "create" /\ log = <<>>
      <4>1. Ended(c, "refused")
        BY <1>3, <3>2
      <4> QED
        BY <4>1, EndExact
    <3>3. CASE call[c].kind # "create"
      <4>1. Retried(c)
        BY <1>3, <3>3
      <4> QED
        BY <1>1, <2>1, <4>1, RetriedExact
    <3> QED
      BY <3>1, <3>2, <3>3
  <2> QED
    BY <1>1, <2>1, <2>2, <2>3, ExactStep
<1> QED
  BY <1>2, <1>3 DEF PutLog

LEMMA PutDescriptionExact ==
    ASSUME IInv, Exact, NEW c \in Calls, PutDescription(c)
    PROVE  Exact'
<1>1. Shaped /\ pc[c] = "putDescription" /\ StoreOf[c] \in Stores /\ StoreKeeps(StoreOf[c])
      /\ Builds(c) /\ Unaccused(c) /\ DOMAIN call = Calls /\ DOMAIN pc = Calls
      /\ UNCHANGED <<held, body, pin>> /\ UNCHANGED <<log, tag>>
  BY StoresTyped DEF IInv, Exact, PutDescription, Shaped, store
<1>2. Grown
  BY <1>1, BeginsItself DEF IInv, Exact, ServerHolds, Grown
<1>3. Apart(c) /\ StoreKeeps(StoreOf[c])'
  BY <1>1, <1>2, StoreKeepsOn DEF Apart
<1>4. Others(c) /\ Continues(c)' /\ Builds(c)' /\ Unaccused(c)'
  <2>1. CASE At(c, "written") /\ UNCHANGED call
    <3>1. Others(c) /\ pc'[c] = "written" /\ call'[c] = call[c]
      BY <1>1, <2>1 DEF Others, At
    <3> QED
      BY <1>1, <3>1, BuildsOn DEF Continues, Unaccused
  <2>2. CASE Ended(c, "lost") \/ Ended(c, "refused")
    BY <2>2, EndExact
  <2>3. CASE Retried(c)
    BY <1>1, <1>2, <2>3, RetriedExact
  <2> QED
    BY <2>1, <2>2, <2>3 DEF PutDescription, Answer
<1> QED
  BY <1>1, <1>2, <1>3, <1>4, ExactStep

LEMMA ConfirmExact ==
    ASSUME IInv, Exact, NEW c \in Calls, Confirm(c)
    PROVE  Exact'
<1> DEFINE k == [call[c] EXCEPT !.next = "confirm"]
<1>1. Shaped /\ pc[c] = "put" /\ StoreOf[c] \in Stores /\ StoreKeeps(StoreOf[c]) /\ Continues(c)
      /\ Builds(c) /\ Unaccused(c) /\ DOMAIN call = Calls /\ DOMAIN body = Stores
      /\ DOMAIN call[c] = CallFields /\ UNCHANGED <<held, pin>>
      /\ body' = [body EXCEPT ![StoreOf[c]] = call[c].sent]
  BY StoresTyped DEF IInv, Exact, Confirm, Shaped
<1>2. Grown /\ UNCHANGED <<log, tag>> /\ LogTag' = LogTag
  BY GrownStill DEF Confirm, server, LogTag
<1>3. Apart(c) /\ StoreKeeps(StoreOf[c])'
  BY <1>1, <1>2, StoreKeepsOn DEF Apart
<1>4. At(c, "readLog") /\ call' = [call EXCEPT ![c] = k] /\ DOMAIN k = CallFields
  BY <1>1 DEF Confirm
<1>5. k.ifMatch = call[c].ifMatch /\ k.out = call[c].out /\ k.next = "confirm" /\ k.sent = call[c].sent
  BY <1>1 DEF CallFields
<1> HIDE DEF k
<1>6. OnlyCall(c) /\ pc'[c] = "readLog" /\ call'[c] = k
  BY <1>1, <1>4, Moved
<1>7. Continues(c)'
  BY <1>1, <1>2, <1>5, <1>6 DEF Continues, HeadOf
<1>8. Builds(c)' /\ Unaccused(c)'
  <2>1. call[c].ifMatch # LogTag
    BY <1>1 DEF Builds
  <2> QED
    BY <1>1, <1>2, <1>5, <1>6, <2>1 DEF Builds, Unaccused
<1> QED
  BY <1>1, <1>2, <1>3, <1>6, <1>7, <1>8, OnlyOthers, ExactStep

LEMMA WrittenExact ==
    ASSUME IInv, Exact, NEW c \in Calls, Written(c)
    PROVE  Exact'
<1>1. pc[c] = "written" /\ StoreOf[c] \in Stores /\ StoreKeeps(StoreOf[c]) /\ Ended(c, "ok")
      /\ UNCHANGED <<held, body, pin>>
  BY StoresTyped DEF Exact, Written, store
<1>2. Grown
  BY GrownStill DEF Written
<1>3. Apart(c) /\ StoreKeeps(StoreOf[c])'
  BY <1>1, <1>2, StoreKeepsOn DEF Apart
<1> QED
  BY <1>1, <1>2, <1>3, EndExact, ExactStep
-----------------------------------------------------------------------------
(* A call that starts finds its store free.                                *)
LEMMA StartExact ==
    ASSUME ~Sharing, IInv, Exact, NEW c \in Calls, Start(c)
    PROVE  Exact'
<1> DEFINE s == StoreOf[c]
<1>1. Shaped /\ ServerHolds /\ pc[c] = "idle" /\ call[c] = Idle /\ ~Busy(s) /\ s \in Stores
      /\ DOMAIN call = Calls /\ DOMAIN pc = Calls
  BY StoresTyped DEF IInv, Start, CreateFrom, Knows, Reported, Shaped
<1>2. Grown /\ UNCHANGED <<log, tag, held, body, pin>> /\ LogTag' = LogTag
  BY GrownStill DEF Start, CreateFrom, server, store, LogTag
<1>3. PICK kind \in Kinds[c] :
         CASE kind = "update" ->
                At(c, "describe") /\ call' = [call EXCEPT ![c].kind = kind]
           [] kind = "seeded" ->
                /\ Served.as = "governed" /\ Served.type = "epochs"
                /\ Sharing \/ held[s] = NotHeld
                /\ At(c, "replace")
                /\ call' = [call EXCEPT ![c].kind = kind, ![c].ifMatch = LogTag,
                                        ![c].desc = HeadOf(log).state \union {c}]
           [] kind = "create" -> \E v \in Resolvable :
                /\ At(c, "putLog")
                /\ call' = [call EXCEPT ![c].kind = kind, ![c].view = v,
                     ![c].sent = <<[Genesis("epochs") EXCEPT !.id = <<c, 0>>, !.view = v, !.state = {c}]>>]
           [] OTHER -> \E v \in Resolvable : log # <<>> /\ SealFrom(c, v)
  BY DEF Start, CreateFrom
<1>4. kind \in {"update", "seeded", "create", "seal"}
  BY <1>3, KindsTyped
<1>5. LogTag # None
  BY <1>1, NoneApart DEF LogTag, Validators, ServerHolds
<1>6. Others(c) /\ Continues(c)' /\ Builds(c)' /\ Unaccused(c)'
  <2>1. CASE kind = "update"
    <3> DEFINE k == [call[c] EXCEPT !.kind = kind]
    <3>1. At(c, "describe") /\ call' = [call EXCEPT ![c] = k]
      BY <1>1, <1>3, <2>1
    <3>2. k.ifMatch = None /\ k.out = "none" /\ DOMAIN k = CallFields
      BY <1>1, IdleShape DEF CallFields
    <3> HIDE DEF k
    <3>3. OnlyCall(c) /\ pc'[c] = "describe" /\ call'[c] = k
      BY <1>1, <3>1, <3>2, Moved
    <3> QED
      BY <1>2, <1>5, <3>2, <3>3, OnlyOthers DEF Continues, Builds, Unaccused
  <2>2. CASE kind = "seeded"
    <3> DEFINE k == [call[c] EXCEPT !.kind = kind, !.ifMatch = LogTag,
                                    !.desc = HeadOf(log).state \union {c}]
    <3>1. At(c, "replace") /\ call' = [call EXCEPT ![c] = k] /\ (Sharing \/ held[s] = NotHeld)
      BY <1>1, <1>3, <2>2
    <3>2. k.out = "none" /\ DOMAIN k = CallFields
      BY <1>1, IdleShape DEF CallFields
    <3> HIDE DEF k
    <3>3. OnlyCall(c) /\ pc'[c] = "replace" /\ call'[c] = k
      BY <1>1, <3>1, <3>2, Moved
    <3>4. held'[s] = NotHeld
      BY <1>2, <3>1
    <3> QED
      BY <3>2, <3>3, <3>4, OnlyOthers DEF Continues, Builds, Unaccused
  <2>3. CASE kind = "create"
    <3>1. PICK v \in Resolvable :
            /\ At(c, "putLog")
            /\ call' = [call EXCEPT ![c].kind = kind, ![c].view = v,
                 ![c].sent = <<[Genesis("epochs") EXCEPT !.id = <<c, 0>>, !.view = v, !.state = {c}]>>]
      BY <1>3, <2>3
    <3> DEFINE e == [Genesis("epochs") EXCEPT !.id = <<c, 0>>, !.view = v, !.state = {c}]
               k == [call[c] EXCEPT !.kind = kind, !.view = v, !.sent = <<e>>]
    <3>2. call' = [call EXCEPT ![c] = k]
      BY <1>1, <3>1
    <3>3. k.ifMatch = None /\ k.out = "none" /\ k.sent = <<e>> /\ DOMAIN k = CallFields
      BY <1>1, IdleShape DEF CallFields
    <3> HIDE DEF k, e
    <3>4. OnlyCall(c) /\ pc'[c] = "putLog" /\ call'[c] = k
      BY <1>1, <3>1, <3>2, <3>3, Moved
    <3>5. Len(k.sent) = 1
      BY <3>3
    <3> QED
      BY <1>2, <1>5, <3>3, <3>4, <3>5, OnlyOthers DEF Continues, Builds, Unaccused
  <2>4. CASE kind = "seal"
    <3>1. PICK v \in Resolvable : SealFrom(c, v)
      BY <1>3, <2>4
    <3>2. CASE At(c, "ended") /\ call' = [call EXCEPT ![c].kind = "seal", ![c].out = "noop"]
      <4> DEFINE k == [call[c] EXCEPT !.kind = "seal", !.out = "noop"]
      <4>1. call' = [call EXCEPT ![c] = k]
        BY <1>1, <3>2
      <4>2. k.out = "noop" /\ DOMAIN k = CallFields
        BY <1>1, IdleShape DEF CallFields
      <4> HIDE DEF k
      <4>3. OnlyCall(c) /\ pc'[c] = "ended" /\ call'[c] = k
        BY <1>1, <3>2, <4>1, <4>2, Moved
      <4> QED
        BY <4>2, <4>3, OnlyOthers DEF Continues, Builds, Unaccused
    <3>3. CASE /\ At(c, "readLog")
               /\ call' = [call EXCEPT ![c].kind = "seal", ![c].view = v, ![c].next = "seal"]
      <4> DEFINE k == [call[c] EXCEPT !.kind = "seal", !.view = v, !.next = "seal"]
      <4>1. call' = [call EXCEPT ![c] = k]
        BY <1>1, <3>3
      <4>2. k.ifMatch = None /\ k.out = "none" /\ k.next = "seal" /\ DOMAIN k = CallFields
        BY <1>1, IdleShape DEF CallFields
      <4> HIDE DEF k
      <4>3. OnlyCall(c) /\ pc'[c] = "readLog" /\ call'[c] = k
        BY <1>1, <3>3, <4>1, <4>2, Moved
      <4> QED
        BY <1>2, <1>5, <4>2, <4>3, OnlyOthers DEF Continues, Builds, Unaccused
    <3> QED
      BY <3>1, <3>2, <3>3 DEF SealFrom
  <2> QED
    BY <1>4, <2>1, <2>2, <2>3, <2>4
<1>7. \A r \in Stores : StoreKeeps(r)'
  BY <1>2, StoreKeepsOn DEF Exact
<1>8. \A d \in Calls : Continues(d)' /\ Builds(d)' /\ Unaccused(d)'
  <2> TAKE d \in Calls
  <2>1. CASE d = c
    BY <1>6, <2>1
  <2>2. CASE d # c
    BY <1>2, <1>6, <2>2, OthersKeep DEF Others
  <2> QED
    BY <2>1, <2>2
<1>9. Alone'
  <2> SUFFICES ASSUME NEW d \in Calls, NEW e \in Calls, d # e, StoreOf[d] = StoreOf[e]
               PROVE  pc'[d] \in {"idle", "ended"} \/ pc'[e] \in {"idle", "ended"}
    BY DEF Alone
  <2>1. \A b \in Calls : b # c => pc'[b] = pc[b]
    BY <1>6 DEF Others
  <2>2. \A b \in Calls : StoreOf[b] = s => pc[b] \in {"idle", "ended"}
    BY <1>1 DEF Busy
  <2>3. pc[d] \in {"idle", "ended"} \/ pc[e] \in {"idle", "ended"}
    BY DEF Exact, Alone
  <2> QED
    BY <2>1, <2>2, <2>3
<1> QED
  BY <1>2, <1>7, <1>8, <1>9 DEF Exact, Grown

(* A step of the server's side alone.                                      *)
LEMMA ServerExact ==
    ASSUME IInv, Exact, Grown, UNCHANGED <<store, pc, call>>
    PROVE  Exact'
<1>1. UNCHANGED <<held, body, pin>>
  BY DEF store
<1>2. \A s \in Stores : StoreKeeps(s)'
  BY <1>1, StoreKeepsOn DEF Exact
<1>3. \A d \in Calls : Continues(d)' /\ Builds(d)' /\ Unaccused(d)'
  BY <1>1, OthersKeep
<1>4. Alone'
  BY DEF Exact, Alone
<1> QED
  BY <1>2, <1>3, <1>4 DEF Exact, Grown

(* Another client appends to the head it read, under its view.             *)
LEMMA ForeignExtends ==
    ASSUME IInv, Exact, Foreign
    PROVE  /\ log \in Logs /\ log' \in Logs /\ Chained(log') /\ Begins(log, log')
           /\ Len(log') = Len(log) + 1 /\ Follows(log, HeadOf(log'))
<1> DEFINE e == [Genesis("foreign") EXCEPT !.id = <<None, 1>>, !.prev = HeadOf(log).id,
                                            !.view = HeadOf(log).view]
<1>1. log \in Logs /\ log \in Seq(EntryType) /\ Chained(log) /\ ServerHolds'
  BY ForeignHolds DEF IInv, Exact, Foreign, ServerHolds, Logs, Entries
<1>2. log' = Append(log, e) /\ e.prev = HeadOf(log).id /\ e.view = HeadOf(log).view
  BY DEF Foreign, Genesis
<1> HIDE DEF e
<1>3. /\ Len(log') = Len(log) + 1 /\ HeadOf(log') = e /\ Len(log) \in Nat \ {0}
      /\ \A i \in 1 .. Len(log) : log'[i] = log[i]
  BY <1>1, <1>2, HeadTyped DEF HeadOf
<1>4. log' \in Logs
  <2>1. Len(log') # 0
    BY <1>3
  <2> QED
    BY <1>1, <2>1 DEF ServerHolds, Logs
<1>5. HeadOf(log).view \in Nat
  BY <1>1, HeadTyped, BoundsTyped DEF EntryType
<1>6. Begins(log, log') /\ Follows(log, HeadOf(log'))
  BY <1>2, <1>3, <1>5 DEF Begins, Follows
<1> QED
  BY <1>1, <1>3, <1>4, <1>6, ChainedOn

LEMMA InitExact ==
    ASSUME Init
    PROVE  Exact
<1>1. Len(log) \in {0, 1}
  <2>1. log = <<>> \/ \E type \in Types : log = <<Genesis(type)>>
    BY DEF Init, Types
  <2> QED
    BY <2>1
<1>2. Chained(log)
  BY <1>1 DEF Chained
<1>3. Alone
  BY DEF Init, Alone
<1>4. \A s \in Stores : StoreKeeps(s)
  BY DEF Init, StoreKeeps
<1>5. \A c \in Calls : Continues(c) /\ Builds(c) /\ Unaccused(c)
  <2> TAKE c \in Calls
  <2>1. pc[c] = "idle" /\ call[c].out = "none"
    BY IdleShape DEF Init
  <2> QED
    BY <2>1 DEF Continues, Builds, Unaccused
<1> QED
  BY <1>2, <1>3, <1>4, <1>5 DEF Exact

LEMMA NextExact ==
    ASSUME ~Sharing, IInv, Exact, [Next]_vars
    PROVE  Exact'
<1>1. CASE \E c \in Calls : Start(c) \/ Step(c)
  <2>1. PICK c \in Calls : Start(c) \/ Step(c)
    BY <1>1
  <2> QED
    BY <2>1, StartExact, DescribeExact, SettleDescribeExact, ReadLogExact, SettleLogExact,
       ReplaceExact, SendAppendExact, PutLogExact, PutDescriptionExact, ConfirmExact,
       WrittenExact DEF Step
<1>2. CASE Rekey \/ UNCHANGED vars
  <2>1. UNCHANGED server /\ UNCHANGED <<store, pc, call>>
    BY <1>2 DEF Rekey, vars
  <2> QED
    BY <2>1, GrownStill, ServerExact
<1>3. CASE Foreign
  <2>1. Grown
    BY <1>3, ForeignExtends DEF Foreign, Grown, IInv, ServerHolds, Logs
  <2> QED
    BY <1>3, <2>1, ServerExact DEF Foreign
<1> QED
  BY <1>1, <1>2, <1>3 DEF Next, Quiet

(* An honest server is never accused, when each store is used by one call  *)
(* at a time: a projection read before its log, a racing append or a lost  *)
(* answer is a conflict to retry (read, classifyDivergence, confirmHead).  *)
THEOREM NeverAccused ==
    ASSUME ~Sharing
    PROVE  Spec => []NoFalseAlarm
<1>1. Init => IInv /\ Exact
  BY InitHolds, InitExact
<1>2. IInv /\ Exact /\ [Next]_vars => (IInv /\ Exact)'
  BY NextHolds, NextExact
<1>3. IInv /\ Exact => NoFalseAlarm
  BY DEF Exact, Unaccused, NoFalseAlarm
<1> QED
  BY <1>1, <1>2, <1>3, PTL DEF Spec

(* One step of the log, as the history specification allows it.            *)
LEMMA StepExtends ==
    ASSUME IInv, Exact, log' \in Logs, Begins(log, log'), Len(log') = Len(log) + 1,
           log # <<>> => Follows(log, HeadOf(log'))
    PROVE  AppendOnly!Extend
<1>1. log \in Seq(EntryType) /\ log' \in Seq(EntryType) /\ Len(log) \in Nat
      /\ Len(log') \in Nat /\ Len(log) <= Len(log')
  BY LenProperties DEF IInv, ServerHolds, Logs, Entries
<1>2. SubSeq(log', 1, Len(log)) = log
  <2>1. /\ SubSeq(log', 1, Len(log)) \in Seq(EntryType)
        /\ Len(SubSeq(log', 1, Len(log))) = Len(log)
        /\ \A i \in 1 .. Len(log) : SubSeq(log', 1, Len(log))[i] = log'[i]
    BY <1>1, SubSeqProperties
  <2>2. \A i \in 1 .. Len(log) : SubSeq(log', 1, Len(log))[i] = log[i]
    BY <2>1 DEF Begins
  <2> QED
    BY <1>1, <2>1, <2>2, SeqEqual
<1>3. AppendOnly!Extends(log, log'[Len(log')])
  BY DEF AppendOnly!Extends, Follows, HeadOf
<1> QED
  BY <1>2, <1>3 DEF AppendOnly!Extend

(* When each store is used by one call at a time, the log served           *)
(* implements an append-only history: every write adds one entry, to the   *)
(* head it was made on, under a view that extends the head's (append).     *)
THEOREM LogExtends ==
    ASSUME ~Sharing
    PROVE  Spec => ExtendsTheLog
<1>1. Init => IInv /\ Exact
  BY InitHolds, InitExact
<1>2. IInv /\ Exact /\ [Next]_vars => (IInv /\ Exact)'
  BY NextHolds, NextExact
<1>3. Init => AppendOnly!Init
  BY DEF Init, AppendOnly!Init
<1>4. IInv /\ Exact /\ [Next]_vars => [AppendOnly!Extend]_log
  <2> SUFFICES ASSUME IInv, Exact, [Next]_vars, log' # log PROVE AppendOnly!Extend
    OBVIOUS
  <2>1. Foreign \/ \E c \in Calls : PutLog(c)
    BY DEF Next, Rekey, Quiet, vars, server, Start, CreateFrom, Step, Describe, SettleDescribe,
       ReadLog, SettleLog, Replace, SendAppend, PutDescription, Confirm, Written
  <2>2. CASE Foreign
    BY <2>2, ForeignExtends, StepExtends
  <2>3. CASE \E c \in Calls : PutLog(c)
    <3>1. PICK c \in Calls : PutLog(c)
      BY <2>3
    <3>2. pc[c] = "putLog" /\ Guarded(c) /\ log' = call[c].sent
      BY <3>1 DEF PutLog
    <3> QED
      BY <3>2, PutExtends, StepExtends
  <2> QED
    BY <2>1, <2>2, <2>3
<1> QED
  BY <1>1, <1>2, <1>3, <1>4, PTL DEF Spec, ExtendsTheLog, AppendOnly!Spec
=============================================================================
