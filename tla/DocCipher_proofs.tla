-------------------------- MODULE DocCipher_proofs --------------------------
(***************************************************************************)
(* Proofs about EdvEnvelopes and DocCipher, for every history of           *)
(* descriptors a Collection may go through, every set of calls and what    *)
(* they may be asked, every host policy, and whatever wraps are damaged.   *)
(***************************************************************************)
EXTENDS DocCipher, FiniteSetTheorems, WellFoundedInduction, TLAPS

Answers == {"none", "found", "failed", "refused"}
Outs == {"none", "ok", "UnknownEpoch", "KeyUnwrap", "Integrity", "Encryption"}
Unwrapped == {"null", "Integrity", "secret"}
Requests == UNION {RequestsOf[c] : c \in Calls}

BuildType ==
    [pc : {"none", "acquire", "got", "keep", "fallback", "derive", "replay", "done", "failed"},
     got : Versions, answer : Answers, via : {"none", "source", "cache"},
     meta : Calls \union {None}, reachable : BOOLEAN]

CallType ==
    [req : Requests \union {None}, using : Builds \union {None},
     awaits : Builds \union {None}, tries : {0, 1}, out : Outs, missed : BOOLEAN]

TypeOK ==
    /\ mode \in {"cipher", "policy", "sealer"} /\ policy \in PolicyType
    /\ served \in Versions /\ cache \in Versions
    /\ inner \in Builds \union {None} /\ applied \in Calls \union {None}
    /\ guard \in {"armed", "running", "spent"} /\ resets \in Nat
    /\ build \in [Builds -> BuildType]
    /\ keys \in [Builds -> [Mints -> Unwrapped]]
    /\ schema \in [Builds -> Schemas \union {None}]
    /\ pc \in [Calls -> {"idle", "read", "seal", "apply", "waiting", "ended"}]
    /\ call \in [Calls -> CallType]

(* Where a build stands: what it holds so far, and how it came by it.      *)
Holding == {"keep", "derive", "replay", "done"}

Verified(b) ==
    /\ build[b].answer # "refused"
    /\ (build[b].via = "source" \/ build[b].pc = "keep") =>
         (policy.require \/ Served[build[b].got].governed => policy.verifies)

Acquired(b) ==
    /\ build[b].got <= served
    /\ build[b].pc \in Holding => build[b].got # 0 /\ Verified(b)
    /\ build[b].pc \in {"acquire", "got", "fallback"} => build[b].via = "none"
    /\ build[b].pc = "acquire" => build[b].answer = "none"
    /\ build[b].pc = "fallback" => build[b].answer # "refused"
    /\ build[b].pc = "keep" => build[b].answer = "found"
    /\ build[b].pc = "got" =>
         /\ build[b].answer = "found" => build[b].got # 0
         /\ policy.require => policy.verifies

(* A finished build decrypts: its codec was built, and what its read keys  *)
(* remember is what unwrapping comes to when the keystore answers.         *)
Remembers(b) ==
    \A id \in Mints : keys[b][id] # "null" =>
      /\ Lists(build[b].got, id)
      /\ keys[b][id] = UnwrapEpochKey(Served[build[b].got].desc, id, Reader, TRUE)

Usable(b) ==
    /\ build[b].pc \in {"replay", "done"} => Codec(b).error = "ok" /\ Remembers(b)
    /\ build[b].pc = "replay" =>
         build[b].meta # None /\ pc[build[b].meta] # "idle" /\ mode = "cipher"

(* The build in use is finished; before the first, nothing has happened.   *)
Serving ==
    /\ cache <= served
    /\ inner # None => build[inner].pc = "done"
    /\ inner = None =>
         /\ guard = "armed" /\ applied = None /\ build[Boot].pc # "done"
         /\ \A c \in Calls : pc[c] = "idle" /\ build[c].pc = "none"
    /\ inner # None => build[Boot].pc = "done"
    /\ mode # "cipher" => policy.present
    /\ ~policy.present => guard = "armed"
    /\ applied # None =>
         mode = "cipher" /\ pc[applied] # "idle" /\ call[applied].req.kind = "apply"

Called(c) ==
    /\ pc[c] # "idle" =>
         /\ call[c].req \in RequestsOf[c]
         /\ call[c].using # None /\ build[call[c].using].pc = "done"
         /\ call[c].req.kind = "read" => mode # "sealer"
    /\ pc[c] \in {"read", "seal", "apply"} => call[c].req.kind = pc[c]
    /\ pc[c] = "waiting" => call[c].req.kind = "read" /\ call[c].awaits \in InFlight
    /\ pc[c] = "apply" => mode = "cipher"
    /\ pc[c] = "idle" => build[c].pc = "none"
    /\ pc[c] = "read" /\ call[c].tries = 0 => build[c].pc = "none"

(* At most one refresh of a session is under way or done.                  *)
Spending == {b \in Calls : build[b].pc \notin {"none", "failed"}}

Counted ==
    /\ IsFiniteSet(Spending)
    /\ Cardinality(Spending) <= resets + (IF guard = "armed" THEN 0 ELSE 1)
    /\ guard = "spent" => \E b \in Calls : build[b].pc = "done"

(* A cipher that refreshes itself has one build under way at a time, and   *)
(* every read it serves uses the build in use.                             *)
Solo ==
    mode = "cipher" =>
      /\ \A a, b \in InFlight : a = b
      /\ guard = "running" <=> \E b \in Calls : b \in InFlight
      /\ guard # "spent" => inner \in {None, Boot} /\ \A c \in Calls : call[c].tries = 0
      /\ \A c \in Calls :
           /\ pc[c] = "waiting" => guard = "running" /\ call[c].using = Boot
           /\ pc[c] = "read" /\ (call[c].tries = 1 \/ guard # "spent") => call[c].using = inner

(* What it holds is at least as new as what it serves from.                *)
Newer ==
    mode = "cipher" =>
      /\ inner # None => build[inner].got <= cache
      /\ \A b \in InFlight :
           /\ build[b].pc = "got" /\ build[b].answer = "found" => cache <= build[b].got
           /\ build[b].pc = "keep" => cache <= build[b].got
           /\ build[b].pc \in {"derive", "replay"} => build[b].got = cache

(* A read waits because its envelope names no epoch the cipher lists, and  *)
(* is told why it was refused.                                             *)
ToldWhy(req, v, out, missed) ==
    /\ out = "ok" => Authentic(req.env) /\ Placed(req.env, req.slot)
    /\ Honest(req.env) =>
         out = Deserved(req.env, req.slot, v) \/ (missed /\ out = "KeyUnwrap")

Unlisted(env, v) == \A id \in env.kids : ~Lists(v, id)

Told(c) ==
    LET v == build[call[c].using].got
    IN /\ pc[c] = "waiting" => Unlisted(call[c].req.env, v)
       /\ pc[c] = "ended" /\ call[c].req.kind = "read" =>
            ToldWhy(call[c].req, v, call[c].out, call[c].missed)

(* The metadata applied last is in force, or about to be.                  *)
Indexed ==
    ~Overlapping =>
      /\ \A c \in Calls : pc[c] = "apply" =>
           c = applied /\ InFlight = {} /\ call[c].using = inner
      /\ \A b \in InFlight : build[b].pc = "replay" => build[b].meta = applied
      /\ applied # None /\ pc[applied] = "ended" /\ call[applied].out = "ok"
         /\ Codec(inner).blinding # None => schema[inner] = call[applied].req.schema

IInv ==
    /\ TypeOK /\ Serving /\ Counted /\ Solo /\ Newer /\ Indexed /\ WhatIsSealedOpens
    /\ \A b \in Builds : Acquired(b) /\ Usable(b)
    /\ \A c \in Calls : Called(c) /\ Told(c)
-----------------------------------------------------------------------------
(* Codecs: what one is built from, and what it makes of an envelope.       *)

Named(d, kid) == {d.epochs[i].id : i \in {j \in DOMAIN d.epochs : kid \in d.epochs[j].to}}

LEMMA EpochsTyped ==
    ASSUME NEW d \in Descriptors
    PROVE  /\ \A i \in DOMAIN d.epochs : d.epochs[i] \in Epochs
           /\ DOMAIN d.epochs \subseteq Nat
           /\ EpochIds(d) \subseteq Mints
<1>1. d.epochs \in Seq(Epochs)
  BY DEF Descriptors
<1>2. DOMAIN d.epochs = 1 .. Len(d.epochs) /\ \A i \in DOMAIN d.epochs : d.epochs[i] \in Epochs
  BY <1>1
<1> QED
  BY <1>2 DEF EpochIds, Epochs

LEMMA PlaceOf ==
    ASSUME NEW d \in Descriptors, NEW id \in EpochIds(d)
    PROVE  /\ Place(d, id) \in DOMAIN d.epochs /\ Place(d, id) \in Nat
           /\ EpochNamed(d, id) \in Epochs /\ EpochNamed(d, id).id = id
<1>1. \E i \in DOMAIN d.epochs : d.epochs[i].id = id
  BY DEF EpochIds
<1>2. Place(d, id) \in DOMAIN d.epochs /\ d.epochs[Place(d, id)].id = id
  BY <1>1 DEF Place
<1> QED
  BY <1>2, EpochsTyped DEF EpochNamed

(* Unwrapping comes to the same whenever the keystore answers.             *)
LEMMA UnwrapTyped ==
    ASSUME NEW d, NEW id, NEW kid, NEW reachable \in BOOLEAN
    PROVE  /\ UnwrapEpochKey(d, id, kid, reachable) \in Unwrapped
           /\ UnwrapEpochKey(d, id, kid, reachable) # "null" =>
                reachable /\ kid \in EpochNamed(d, id).to
           /\ reachable => UnwrapEpochKey(d, id, kid, reachable) = UnwrapEpochKey(d, id, kid, TRUE)
BY DEF UnwrapEpochKey, UnwrapEpochSecret, Unwrapped

LEMMA EpochKeysResolved ==
    ASSUME NEW d \in Descriptors, NEW kid \in Kids, NEW reachable \in BOOLEAN,
           ResolveEpochKeys(d, kid, reachable).error = "ok"
    PROVE  LET keysOf == ResolveEpochKeys(d, kid, reachable)
           IN /\ keysOf.write = d.current /\ d.current \in EpochIds(d)
              /\ keysOf.reads \in [Named(d, kid) -> Nat]
              /\ keysOf.holds \in BOOLEAN
              /\ keysOf.holds => UnwrapEpochKey(d, d.current, kid, reachable) = "secret"
<1> DEFINE named == Named(d, kid)
           holds == kid \in CurrentEpochOf(d).to
           unwrapped == UnwrapEpochKey(d, d.current, kid, reachable)
           reads == [id \in named |-> IF holds /\ id = d.current THEN 0 ELSE Place(d, id)]
           resolved == [error |-> "ok", write |-> d.current, holds |-> holds, reads |-> reads]
           keysOf == ResolveEpochKeys(d, kid, reachable)
<1>1. \A error : Refusal(error).error = error
  BY DEF Refusal
<1>2. keysOf = CASE named = {} -> Refusal("KeyUnwrap")
                 [] named # {} /\ ~Listed(d) -> Refusal("Encryption")
                 [] named # {} /\ Listed(d) /\ ~holds ->
                      IF EpochWriteStandIn(d.current) # "null" THEN Refusal("Encryption")
                      ELSE IF EpochKeyIds(named) THEN resolved ELSE Refusal("Other")
                 [] OTHER ->
                      CASE unwrapped = "null" -> Refusal("KeyUnwrap")
                        [] unwrapped = "Integrity" -> Refusal("Integrity")
                        [] OTHER -> IF EpochKeyIds(named) THEN resolved ELSE Refusal("Other")
  BY Zenon DEF ResolveEpochKeys, Named
<1>3. unwrapped \in Unwrapped
  BY UnwrapTyped
<1> HIDE DEF named, holds, unwrapped, resolved, keysOf
<1>4. keysOf.error = "ok"
  BY DEF keysOf
<1>5. named # {} /\ Listed(d) /\ keysOf = resolved /\ (holds => unwrapped = "secret")
  <2>1. named # {}
    BY <1>1, <1>2, <1>4
  <2>2. Listed(d)
    BY <2>1, <1>1, <1>2, <1>4
  <2>3. CASE ~holds
    <3>1. keysOf = IF EpochWriteStandIn(d.current) # "null" THEN Refusal("Encryption")
                   ELSE IF EpochKeyIds(named) THEN resolved ELSE Refusal("Other")
      BY <2>1, <2>2, <2>3, <1>2
    <3> QED
      BY <3>1, <1>1, <1>4, <2>1, <2>2, <2>3
  <2>4. CASE holds
    <3>1. keysOf = CASE unwrapped = "null" -> Refusal("KeyUnwrap")
                     [] unwrapped = "Integrity" -> Refusal("Integrity")
                     [] OTHER -> IF EpochKeyIds(named) THEN resolved ELSE Refusal("Other")
      BY <2>1, <2>2, <2>4, <1>2
    <3>2. unwrapped # "null" /\ unwrapped # "Integrity"
      BY <3>1, <1>1, <1>4
    <3>3. keysOf = IF EpochKeyIds(named) THEN resolved ELSE Refusal("Other")
      BY <3>1, <3>2
    <3> QED
      BY <3>2, <3>3, <1>1, <1>3, <1>4, <2>1, <2>2 DEF Unwrapped
  <2> QED
    BY <2>3, <2>4
<1>6. named \subseteq EpochIds(d)
  BY DEF named, Named, EpochIds
<1>7. reads \in [named -> Nat]
  BY <1>6, PlaceOf
<1>8. d.current \in EpochIds(d)
  BY <1>5 DEF Listed, EpochIds
<1>9. holds \in BOOLEAN
  BY DEF holds
<1>10. /\ resolved.write = d.current /\ resolved.holds = holds /\ resolved.reads = reads
  BY DEF resolved
<1> HIDE DEF reads
<1>11. /\ keysOf.write = d.current /\ d.current \in EpochIds(d) /\ keysOf.reads \in [named -> Nat]
       /\ keysOf.holds \in BOOLEAN /\ (keysOf.holds => unwrapped = "secret")
  BY <1>5, <1>7, <1>8, <1>9, <1>10
<1> QED
  BY <1>11, Zenon DEF named, unwrapped, keysOf
(* A codec that was built: its parts come from the descriptor.             *)
CodecOf(codec, d) ==
    /\ codec.write = d.current /\ d.current \in EpochIds(d)
    /\ codec.listed = EpochIds(d)
    /\ DOMAIN codec.reads \subseteq EpochIds(d)
    /\ \A id \in DOMAIN codec.reads : codec.reads[id] \in Nat

CodecFor(codec, d, kid, reachable) ==
    /\ CodecOf(codec, d) /\ DOMAIN codec.reads = Named(d, kid) /\ codec.holds \in BOOLEAN
    /\ codec.holds => UnwrapEpochKey(d, d.current, kid, reachable) = "secret"

LEMMA CodecBuilt ==
    ASSUME NEW d \in Descriptors, NEW version \in Nat, NEW kid \in Kids,
           NEW reachable \in BOOLEAN, BuildEdvCodec(d, version, kid, reachable).error = "ok"
    PROVE  CodecFor(BuildEdvCodec(d, version, kid, reachable), d, kid, reachable)
<1> DEFINE codec == BuildEdvCodec(d, version, kid, reachable)
           epochKeys == ResolveEpochKeys(d, kid, reachable)
           hmac == ResolveHmacKey(d, kid, epochKeys.holds, reachable)
           built == [error |-> "ok", write |-> epochKeys.write, holds |-> epochKeys.holds,
                     reads |-> epochKeys.reads, listed |-> EpochIds(d),
                     blinding |-> hmac.blinding]
<1>1. \A error : Refusal(error).error = error
  BY DEF Refusal
<1>2. codec = IF DescriptorDefect(d, version) THEN Refusal("Encryption")
              ELSE CASE epochKeys.error # "ok" -> Refusal(epochKeys.error)
                     [] epochKeys.error = "ok" /\ hmac.error # "ok" -> Refusal(hmac.error)
                     [] OTHER -> built
  BY Zenon DEF BuildEdvCodec
<1>3. /\ built.write = epochKeys.write /\ built.holds = epochKeys.holds
      /\ built.reads = epochKeys.reads /\ built.listed = EpochIds(d)
  OBVIOUS
<1> HIDE DEF epochKeys, hmac, built, codec
<1>4. codec = built /\ epochKeys.error = "ok"
  <2>1. codec.error = "ok"
    BY DEF codec
  <2>2. ~DescriptorDefect(d, version)
    BY <1>1, <1>2, <2>1
  <2>3. codec = CASE epochKeys.error # "ok" -> Refusal(epochKeys.error)
                  [] epochKeys.error = "ok" /\ hmac.error # "ok" -> Refusal(hmac.error)
                  [] OTHER -> built
    BY <1>2, <2>2
  <2>4. epochKeys.error = "ok"
    BY <1>1, <2>1, <2>3
  <2>5. hmac.error = "ok"
    BY <1>1, <2>1, <2>3, <2>4
  <2> QED
    BY <2>3, <2>4, <2>5
<1>5. /\ epochKeys.write = d.current /\ d.current \in EpochIds(d)
      /\ epochKeys.reads \in [Named(d, kid) -> Nat] /\ epochKeys.holds \in BOOLEAN
      /\ epochKeys.holds => UnwrapEpochKey(d, d.current, kid, reachable) = "secret"
  BY <1>4, EpochKeysResolved, Zenon DEF epochKeys
<1>6. Named(d, kid) \subseteq EpochIds(d)
  BY DEF Named, EpochIds
<1>7. CodecOf(codec, d) /\ DOMAIN codec.reads = Named(d, kid)
  BY <1>3, <1>4, <1>5, <1>6 DEF CodecOf
<1>8. /\ codec.holds \in BOOLEAN
      /\ codec.holds => UnwrapEpochKey(d, d.current, kid, reachable) = "secret"
  BY <1>3, <1>4, <1>5
<1> QED
  BY <1>7, <1>8, Zenon DEF codec, CodecFor

LEMMA SealerBuilt ==
    ASSUME NEW d \in Descriptors, NEW version \in Nat,
           EncryptOnlyEdvCodec(d, version).error = "ok"
    PROVE  LET codec == EncryptOnlyEdvCodec(d, version)
           IN CodecOf(codec, d) /\ codec.holds = FALSE /\ codec.blinding = None
<1> DEFINE codec == EncryptOnlyEdvCodec(d, version)
           built == [Refusal("ok") EXCEPT !.write = d.current, !.listed = EpochIds(d)]
           usable == ~DescriptorDefect(d, version) /\ Listed(d)
<1>1. \A error : Refusal(error).error = error
  BY DEF Refusal
<1>2. codec = IF usable
              THEN IF EpochWriteStandIn(d.current) # "null" THEN Refusal("Encryption") ELSE built
              ELSE Refusal("Encryption")
  BY DEF EncryptOnlyEdvCodec
<1>3. /\ built.write = d.current /\ built.listed = EpochIds(d)
      /\ built.reads = [id \in {} |-> 0] /\ built.holds = FALSE /\ built.blinding = None
  BY DEF Refusal
<1> HIDE DEF built
<1>4. codec = built /\ Listed(d)
  BY <1>1, <1>2
<1>5. d.current \in EpochIds(d)
  BY <1>4 DEF Listed, EpochIds
<1> QED
  BY <1>3, <1>4, <1>5 DEF CodecOf

-----------------------------------------------------------------------------
(* What a codec makes of an envelope.                                      *)

Descending == {pair \in Nat \X Nat : pair[1] < pair[2]}

(* Of the keys whose attempt decides, one is tried first.                  *)
LEMMA SomeFirst ==
    ASSUME NEW S, S # {}, NEW rank, \A id \in S : rank[id] \in Nat
    PROVE  \E id \in S : \A other \in S : ~(rank[other] < rank[id])
<1> DEFINE ranks == {rank[id] : id \in S}
<1>1. IsWellFoundedOn(Descending, Nat)
  BY NatLessThanWellFounded DEF OpToRel, Descending
<1>2. ranks \subseteq Nat /\ ranks # {}
  OBVIOUS
<1>3. PICK least \in ranks : \A r \in ranks : <<r, least>> \notin Descending
  BY <1>1, <1>2, WFMin
<1>4. PICK id \in S : rank[id] = least
  OBVIOUS
<1>5. ASSUME NEW other \in S PROVE ~(rank[other] < rank[id])
  <2>1. rank[other] \in ranks /\ rank[other] \in Nat /\ rank[id] \in Nat
    OBVIOUS
  <2>2. <<rank[other], least>> \notin Descending
    BY <1>3, <2>1
  <2> QED
    BY <1>4, <2>1, <2>2 DEF Descending
<1> QED
  BY <1>5

LEMMA TriedTyped ==
    ASSUME NEW key \in Unwrapped, NEW id, NEW env, env.intact \in BOOLEAN
    PROVE  /\ Tried(key, id, env) \in {"miss", "ok", "Integrity"}
           /\ Tried(key, id, env) = "ok" => key = "secret" /\ env.key = id /\ env.intact
           /\ key = "Integrity" => Tried(key, id, env) = "Integrity"
           /\ key = "null" => Tried(key, id, env) = "miss"
           /\ key = "secret" /\ env.key = id /\ env.intact => Tried(key, id, env) = "ok"
BY DEF Tried, Unwrapped

Readable(codec) ==
    /\ DOMAIN codec.reads \subseteq Mints
    /\ \A id \in DOMAIN codec.reads : codec.reads[id] \in Nat

Outcomes == [error : Outs \ {"none"}, key : Mints \union {None}, used : SUBSET Mints]

LEMMA WhatDecrypts ==
    ASSUME NEW codec, Readable(codec), NEW held \in [Mints -> Unwrapped],
           NEW env, env.intact \in BOOLEAN, env.kids \subseteq Mints
    PROVE  LET outcome == Decrypted(codec, held, env)
           IN /\ outcome \in Outcomes
              /\ outcome.used \subseteq DOMAIN codec.reads
              /\ outcome.error = "ok" => outcome.key = env.key /\ env.intact
              /\ outcome.error = "UnknownEpoch" => env.kids \intersect codec.listed = {}
<1> DEFINE candidates == Preferred(codec, env)
           At(id) == Tried(held[id], id, env)
           Before(id) == {other \in candidates : codec.reads[other] < codec.reads[id]}
           First(id) == At(id) # "miss" /\ \A other \in Before(id) : At(other) = "miss"
           first == CHOOSE id \in candidates : First(id)
           unroutable == candidates = {} /\ env.kids # {}
           decided == candidates # {} /\ \E id \in candidates : At(id) # "miss"
           outcome == Decrypted(codec, held, env)
           lost == [error |-> Unroutable(codec, env), key |-> None, used |-> {}]
           found == [error |-> At(first), key |-> first, used |-> {first} \union Before(first)]
           missed == [error |-> "KeyUnwrap", key |-> None, used |-> candidates]
<1>1. outcome = CASE unroutable -> lost [] decided -> found [] OTHER -> missed
  BY Zenon DEF Decrypted
<1>2. candidates \subseteq DOMAIN codec.reads /\ candidates \subseteq Mints
  BY DEF Preferred, Readable
<1>3. \A id \in candidates : /\ At(id) \in {"miss", "ok", "Integrity"}
                             /\ At(id) = "ok" => env.key = id /\ env.intact
  BY <1>2, TriedTyped
<1>4. CASE unroutable
  <2>1. outcome = lost
    <3> HIDE DEF lost, found, missed, unroutable, outcome, decided
    <3>1. ~decided
      BY <1>4 DEF unroutable, decided
    <3> QED
      BY <1>1, <1>4, <3>1
  <2>2. /\ Unroutable(codec, env) \in {"KeyUnwrap", "UnknownEpoch"}
        /\ Unroutable(codec, env) = "UnknownEpoch" => env.kids \intersect codec.listed = {}
    BY DEF Unroutable
  <2>3. lost.error = Unroutable(codec, env) /\ lost.used = {}
    OBVIOUS
  <2>4. lost \in Outcomes
    BY <2>2 DEF Outcomes, Outs
  <2> QED
    BY <2>1, <2>2, <2>3, <2>4
<1>5. CASE decided
  <2>1. outcome = found
    <3> HIDE DEF lost, found, missed, unroutable, outcome, decided
    <3>1. ~unroutable
      BY <1>5 DEF unroutable, decided
    <3> QED
      BY <1>1, <1>5, <3>1
  <2>2. first \in candidates /\ At(first) # "miss"
    <3> DEFINE S == {id \in candidates : At(id) # "miss"}
    <3> HIDE DEF At, candidates
    <3>1. S # {} /\ \A id \in S : codec.reads[id] \in Nat
      BY <1>2, <1>5 DEF Readable
    <3>2. PICK id \in S : \A other \in S : ~(codec.reads[other] < codec.reads[id])
      BY <3>1, SomeFirst
    <3>3. id \in candidates /\ First(id)
      BY <3>2
    <3> QED
      BY <3>3
  <2> HIDE DEF first, At, candidates, Before
  <2>3. found.error = At(first) /\ found.key = first
        /\ found.used = {first} \union Before(first)
    OBVIOUS
  <2>4. Before(first) \subseteq candidates
    BY DEF Before
  <2>5. At(first) \in {"ok", "Integrity"}
    BY <1>3, <2>2
  <2>6. found \in Outcomes
    BY <1>2, <2>2, <2>4, <2>5 DEF Outcomes, Outs
  <2> HIDE DEF found
  <2> QED
    BY <1>2, <1>3, <2>1, <2>2, <2>3, <2>4, <2>5, <2>6
<1>6. CASE ~unroutable /\ ~decided
  <2>1. outcome = missed
    <3> HIDE DEF lost, found, missed, unroutable, outcome, decided
    <3> QED
      BY <1>1, <1>6
  <2>2. missed.error = "KeyUnwrap" /\ missed.used = candidates
    OBVIOUS
  <2>3. missed \in Outcomes
    BY <1>2 DEF Outcomes, Outs
  <2> QED
    BY <1>2, <2>1, <2>2, <2>3
<1> QED
  BY <1>4, <1>5, <1>6

(* An envelope that names its epoch and nothing else comes to what the key *)
(* of that epoch makes of it.                                              *)
LEMMA WhatHonestDecrypts ==
    ASSUME NEW codec, Readable(codec), NEW held \in [Mints -> Unwrapped],
           NEW env, env.intact = TRUE, env.key \in Mints, env.kids = {env.key}
    PROVE  LET outcome == Decrypted(codec, held, env)
               read == env.key \in DOMAIN codec.reads
           IN /\ ~read => outcome.error = IF env.key \in codec.listed THEN "KeyUnwrap"
                                                                     ELSE "UnknownEpoch"
              /\ read /\ held[env.key] = "null" => outcome.error = "KeyUnwrap"
              /\ read /\ held[env.key] = "Integrity" => outcome.error = "Integrity"
              /\ read /\ held[env.key] = "secret" => outcome.error = "ok" /\ outcome.key = env.key
<1> DEFINE candidates == Preferred(codec, env)
           At(id) == Tried(held[id], id, env)
           Before(id) == {other \in candidates : codec.reads[other] < codec.reads[id]}
           First(id) == At(id) # "miss" /\ \A other \in Before(id) : At(other) = "miss"
           first == CHOOSE id \in candidates : First(id)
           unroutable == candidates = {} /\ env.kids # {}
           decided == candidates # {} /\ \E id \in candidates : At(id) # "miss"
           outcome == Decrypted(codec, held, env)
           lost == [error |-> Unroutable(codec, env), key |-> None, used |-> {}]
           found == [error |-> At(first), key |-> first, used |-> {first} \union Before(first)]
           missed == [error |-> "KeyUnwrap", key |-> None, used |-> candidates]
           read == env.key \in DOMAIN codec.reads
<1>1. outcome = CASE unroutable -> lost [] decided -> found [] OTHER -> missed
  BY Zenon DEF Decrypted
<1>2. candidates = IF read THEN {env.key} ELSE {}
  BY DEF Preferred
<1>3. /\ lost.error = Unroutable(codec, env) /\ missed.error = "KeyUnwrap"
      /\ found.error = At(first) /\ found.key = first
  OBVIOUS
<1>4. held[env.key] \in Unwrapped /\ env.intact \in BOOLEAN
  OBVIOUS
<1>5. /\ held[env.key] = "null" => At(env.key) = "miss"
      /\ held[env.key] = "Integrity" => At(env.key) = "Integrity"
      /\ held[env.key] = "secret" => At(env.key) = "ok"
  BY <1>4, TriedTyped
<1>6. ASSUME ~read
      PROVE  outcome.error = IF env.key \in codec.listed THEN "KeyUnwrap" ELSE "UnknownEpoch"
  <2>1. unroutable /\ ~decided
    BY <1>2, <1>6
  <2>2. outcome = lost
    <3> HIDE DEF lost, found, missed, unroutable, outcome, decided
    <3> QED
      BY <1>1, <2>1
  <2>3. Unroutable(codec, env) = IF env.key \in codec.listed THEN "KeyUnwrap" ELSE "UnknownEpoch"
    BY DEF Unroutable
  <2> QED
    BY <1>3, <2>2, <2>3
<1>7. ASSUME read, held[env.key] = "null" PROVE outcome.error = "KeyUnwrap"
  <2>1. At(env.key) = "miss"
    BY <1>7, <1>5
  <2>2. ~unroutable /\ ~decided
    BY <1>2, <1>7, <2>1
  <2>3. outcome = missed
    <3> HIDE DEF lost, found, missed, unroutable, outcome, decided
    <3> QED
      BY <1>1, <2>2
  <2> QED
    BY <1>3, <2>3
<1>8. ASSUME read, held[env.key] # "null"
      PROVE  outcome.error = At(env.key) /\ outcome.key = env.key
  <2>1. At(env.key) # "miss"
    BY <1>8, <1>4, <1>5 DEF Unwrapped
  <2>2. ~unroutable /\ decided
    BY <1>2, <1>8, <2>1
  <2>3. outcome = found
    <3> HIDE DEF lost, found, missed, unroutable, outcome, decided
    <3> QED
      BY <1>1, <2>2
  <2>4. first = env.key
    <3>1. Before(env.key) = {}
      <4>1. codec.reads[env.key] \in Nat
        BY <1>8 DEF Readable
      <4> QED
        BY <1>2, <4>1
    <3>2. First(env.key)
      BY <2>1, <3>1
    <3> HIDE DEF First
    <3> QED
      BY <1>2, <1>8, <3>2
  <2> QED
    BY <1>3, <2>3, <2>4
<1> QED
  BY <1>6, <1>7, <1>8, <1>5

LEMMA BindingVerified ==
    ASSUME NEW env \in Envelopes, NEW slot \in Slots, NEW key \in Mints
    PROVE  LET verdict == VerifyBinding(env, slot, key)
               placed == IF slot.collection THEN VerifyCollectionSlot(env.binding)
                                            ELSE VerifyResourceSlot(env, slot)
           IN /\ verdict \in {"ok", "Integrity", "Encryption"}
              /\ verdict = "ok" =>
                   /\ env.binding.v \in 1 .. Version /\ env.binding.epoch = key
                   /\ placed = "ok"
              /\ env.binding.v \in 1 .. Version /\ env.binding.epoch = key =>
                   verdict = placed
<1> DEFINE placed == IF slot.collection THEN VerifyCollectionSlot(env.binding)
                                        ELSE VerifyResourceSlot(env, slot)
           known == env.binding.v \in 1 .. Version
           verdict == VerifyBinding(env, slot, key)
<1>1. placed \in {"ok", "Integrity"}
  BY DEF VerifyCollectionSlot, VerifyResourceSlot
<1>2. verdict = IF ~known THEN "Encryption" ELSE IF placed # "ok" THEN placed
                ELSE IF env.binding.epoch = None THEN "Encryption"
                     ELSE IF env.binding.epoch # key THEN "Integrity" ELSE "ok"
  <2>1. verdict = CASE ~known -> "Encryption"
                    [] known /\ placed # "ok" -> placed
                    [] OTHER -> IF env.binding.epoch = None THEN "Encryption"
                                ELSE IF env.binding.epoch # key THEN "Integrity" ELSE "ok"
    BY Zenon DEF VerifyBinding
  <2> HIDE DEF verdict, known, placed
  <2> QED
    BY <2>1
<1>3. key # None
  BY NoneMintsNothing
<1> HIDE DEF verdict, known, placed
<1>4. /\ verdict \in {"ok", "Integrity", "Encryption"}
      /\ verdict = "ok" => known /\ env.binding.epoch = key /\ placed = "ok"
      /\ known /\ env.binding.epoch = key => verdict = placed
  BY <1>1, <1>2, <1>3
<1> QED
  BY <1>4, Zenon DEF verdict, known, placed

(* A slot that says which resource it is admits what was placed there.     *)
LEMMA SlotVerified ==
    ASSUME NEW env \in Envelopes, NEW slot \in Slots, ~slot.collection, slot.id # None
    PROVE  /\ VerifyResourceSlot(env, slot) = "ok" => Placed(env, slot)
           /\ Placed(env, slot) => VerifyResourceSlot(env, slot) = "ok"
           /\ VerifyResourceSlot(env, slot) \in {"ok", "Integrity"}
<1>1. /\ env.binding.resource \in Resources \union {None}
      /\ env.binding.collection \in Collections \union {None} /\ slot.collection \in BOOLEAN
  BY DEF Envelopes, Bindings, Slots
<1>2. Collection # None
  BY PlacesTyped
<1> QED
  BY <1>1, <1>2 DEF VerifyResourceSlot, Placed
-----------------------------------------------------------------------------
(* Builds and their codecs.                                                *)

LEMMA ServedAt ==
    ASSUME NEW v \in Versions, v # 0
    PROVE  /\ v \in DOMAIN Served /\ Served[v].desc \in Descriptors /\ Served[v].version \in Nat
           /\ Listing[v] = EpochIds(Served[v].desc)
<1>1. Len(Served) \in Nat /\ DOMAIN Served = 1 .. Len(Served)
  BY ServedTyped
<1>2. v \in DOMAIN Served
  BY <1>1 DEF Versions
<1>3. Served[v] \in [desc : Descriptors, version : Nat, governed : BOOLEAN]
  <2>1. ASSUME NEW R, Served \in Seq(R) PROVE Served[v] \in R
    BY <1>1, <1>2, <2>1
  <2> QED
    BY <2>1, ServedTyped
<1> QED
  BY <1>2, <1>3 DEF Listing

LEMMA CodecServed ==
    ASSUME NEW v \in Versions, v # 0, NEW kid \in Kids, NEW reachable \in BOOLEAN,
           CodecAt[v][kid][reachable].error = "ok"
    PROVE  LET codec == CodecAt[v][kid][reachable]
               d == Served[v].desc
           IN CodecFor(codec, d, kid, reachable) /\ Readable(codec) /\ codec.write \in Mints
<1> DEFINE d == Served[v].desc
           codec == BuildEdvCodec(d, Served[v].version, kid, reachable)
<1>1. d \in Descriptors /\ Served[v].version \in Nat /\ v \in DOMAIN Served
  BY ServedAt
<1>2. CodecAt[v][kid][reachable] = codec
  BY <1>1 DEF CodecAt
<1>3. codec.error = "ok"
  BY <1>2
<1>4. CodecFor(codec, d, kid, reachable)
  BY <1>1, <1>3, CodecBuilt
<1>5. EpochIds(d) \subseteq Mints
  BY <1>1, EpochsTyped
<1> HIDE DEF d, codec
<1>6. Readable(codec) /\ codec.write \in Mints
  BY <1>4, <1>5 DEF CodecFor, CodecOf, Readable
<1> QED
  BY <1>2, <1>4, <1>6 DEF d

LEMMA SealerServed ==
    ASSUME NEW v \in Versions, v # 0, SealerAt[v].error = "ok"
    PROVE  /\ CodecOf(SealerAt[v], Served[v].desc) /\ Readable(SealerAt[v])
           /\ SealerAt[v].write \in Mints /\ SealerAt[v].holds = FALSE
<1> DEFINE d == Served[v].desc
           codec == EncryptOnlyEdvCodec(d, Served[v].version)
<1>1. d \in Descriptors /\ Served[v].version \in Nat /\ v \in DOMAIN Served
  BY ServedAt
<1>2. SealerAt[v] = codec
  BY <1>1 DEF SealerAt
<1>3. CodecOf(codec, d) /\ codec.holds = FALSE
  BY <1>1, <1>2, SealerBuilt
<1>4. EpochIds(d) \subseteq Mints
  BY <1>1, EpochsTyped
<1> HIDE DEF d, codec
<1> QED
  BY <1>2, <1>3, <1>4 DEF d, CodecOf, Readable

LEMMA BuildTyped ==
    ASSUME TypeOK, NEW b \in Builds
    PROVE  /\ build[b] \in BuildType /\ build[b].got \in Versions
           /\ build[b].reachable \in BOOLEAN /\ keys[b] \in [Mints -> Unwrapped]
           /\ Reader \in Kids /\ Versions \subseteq Nat
<1>1. build[b] \in BuildType /\ keys[b] \in [Mints -> Unwrapped]
  BY DEF TypeOK
<1>2. Versions \subseteq Nat
  BY DEF Versions
<1> QED
  BY <1>1, <1>2, SettingTyped DEF BuildType

LEMMA CodecOfBuild ==
    ASSUME TypeOK, NEW b \in Builds, build[b].got # 0, Codec(b).error = "ok"
    PROVE  LET d == Served[build[b].got].desc
           IN /\ CodecOf(Codec(b), d) /\ Readable(Codec(b)) /\ Codec(b).write \in Mints
              /\ mode # "sealer" => DOMAIN Codec(b).reads = Named(d, Reader)
<1>1. build[b].got \in Versions /\ build[b].reachable \in BOOLEAN /\ Reader \in Kids
  BY BuildTyped
<1>2. CASE mode = "sealer"
  BY <1>1, <1>2, SealerServed DEF Codec
<1>3. CASE mode # "sealer"
  BY <1>1, <1>3, CodecServed DEF Codec, CodecFor
<1> QED
  BY <1>2, <1>3

(* What the read keys of a build are when they are asked for.              *)
Asked(b, reachable) ==
    [id \in Mints |-> IF keys[b][id] # "null" THEN keys[b][id]
       ELSE IF Lists(build[b].got, id)
            THEN UnwrapEpochKey(Served[build[b].got].desc, id, Reader, reachable) ELSE "null"]

LEMMA KeysAskedAre ==
    ASSUME TypeOK, NEW b \in Builds, Remembers(b), NEW reachable \in BOOLEAN
    PROVE  /\ KeysAsked(b, reachable) = Asked(b, reachable)
           /\ Asked(b, reachable) \in [Mints -> Unwrapped]
           /\ \A id \in Mints : Asked(b, reachable)[id] # "null" =>
                /\ Lists(build[b].got, id)
                /\ Asked(b, reachable)[id] =
                     UnwrapEpochKey(Served[build[b].got].desc, id, Reader, TRUE)
           /\ reachable => \A id \in Mints : Lists(build[b].got, id) =>
                Asked(b, reachable)[id] =
                  UnwrapEpochKey(Served[build[b].got].desc, id, Reader, TRUE)
<1> DEFINE d == Served[build[b].got].desc
<1>1. keys[b] \in [Mints -> Unwrapped]
  BY BuildTyped
<1>2. \A id \in Mints : keys[b][id] # "null" => Lists(build[b].got, id)
  BY DEF Remembers
<1>3. KeysAsked(b, reachable) = Asked(b, reachable)
  BY <1>2 DEF KeysAsked, Asked, KeyAsked, LazyEpochKey
<1>4. \A id : /\ UnwrapEpochKey(d, id, Reader, reachable) \in Unwrapped
              /\ UnwrapEpochKey(d, id, Reader, reachable) # "null" => reachable
              /\ reachable => UnwrapEpochKey(d, id, Reader, reachable) =
                                UnwrapEpochKey(d, id, Reader, TRUE)
  BY UnwrapTyped
<1>5. Asked(b, reachable) \in [Mints -> Unwrapped]
  BY <1>1, <1>4 DEF Asked, Unwrapped
<1> HIDE DEF d
<1>6. ASSUME NEW id \in Mints
      PROVE  /\ Asked(b, reachable)[id] # "null" =>
                  /\ Lists(build[b].got, id)
                  /\ Asked(b, reachable)[id] = UnwrapEpochKey(d, id, Reader, TRUE)
             /\ reachable /\ Lists(build[b].got, id) =>
                  Asked(b, reachable)[id] = UnwrapEpochKey(d, id, Reader, TRUE)
  <2>1. Asked(b, reachable)[id] = IF keys[b][id] # "null" THEN keys[b][id]
          ELSE IF Lists(build[b].got, id)
               THEN UnwrapEpochKey(d, id, Reader, reachable) ELSE "null"
    BY DEF Asked, d
  <2>2. keys[b][id] # "null" => /\ Lists(build[b].got, id)
                                /\ keys[b][id] = UnwrapEpochKey(d, id, Reader, TRUE)
    BY DEF Remembers, d
  <2> QED
    BY <1>4, <2>1, <2>2
<1> QED
  BY <1>3, <1>5, <1>6 DEF d

LEMMA WhatOpens ==
    ASSUME NEW codec, Readable(codec), NEW held \in [Mints -> Unwrapped],
           NEW env \in Envelopes, NEW slot \in Slots
    PROVE  LET outcome == OpenEnvelope(codec, held, env, slot)
               decrypted == Decrypted(codec, held, env)
           IN /\ outcome.error \in Outs \ {"none"} /\ outcome.used \subseteq DOMAIN codec.reads
              /\ outcome.error = "UnknownEpoch" => env.kids \intersect codec.listed = {}
              /\ env.jwe => outcome.error = IF decrypted.error # "ok" THEN decrypted.error
                                            ELSE VerifyBinding(env, slot, env.key)
              /\ outcome.error = "ok" =>
                   env.jwe /\ env.intact /\ VerifyBinding(env, slot, env.key) = "ok"
<1> DEFINE outcome == OpenEnvelope(codec, held, env, slot)
           decrypted == Decrypted(codec, held, env)
           verdict == VerifyBinding(env, slot, decrypted.key)
           refused == [error |-> "Encryption", key |-> None, used |-> {}]
           verified == [decrypted EXCEPT !.error = verdict]
<1>1. /\ env.intact \in BOOLEAN /\ env.kids \subseteq Mints /\ env.jwe \in BOOLEAN
      /\ env.key \in Mints
  BY DEF Envelopes
<1>2. /\ decrypted \in Outcomes /\ decrypted.used \subseteq DOMAIN codec.reads
      /\ decrypted.error = "ok" => decrypted.key = env.key /\ env.intact
      /\ decrypted.error = "UnknownEpoch" => env.kids \intersect codec.listed = {}
  BY <1>1, WhatDecrypts
<1>3. outcome = IF ~env.jwe THEN refused ELSE IF decrypted.error # "ok" THEN decrypted
                ELSE verified
  <2>1. outcome = CASE ~env.jwe -> refused
                    [] env.jwe /\ decrypted.error # "ok" -> decrypted
                    [] OTHER -> verified
    BY Zenon DEF OpenEnvelope
  <2> HIDE DEF outcome, refused, decrypted, verified
  <2> QED
    BY <2>1
<1> HIDE DEF decrypted, verdict
<1>4. verified.error = verdict /\ verified.used = decrypted.used
  BY <1>2 DEF Outcomes
<1>5. refused.error = "Encryption" /\ refused.used = {}
  OBVIOUS
<1>6. decrypted.error = "ok" =>
        /\ verdict = VerifyBinding(env, slot, env.key)
        /\ verdict \in {"ok", "Integrity", "Encryption"}
  BY <1>1, <1>2, BindingVerified DEF verdict
<1>7. decrypted.error \in Outs \ {"none"}
  BY <1>2 DEF Outcomes
<1> HIDE DEF refused, verified, outcome
<1>8. CASE ~env.jwe
  BY <1>3, <1>5, <1>8 DEF outcome, Outs
<1>9. CASE env.jwe /\ decrypted.error # "ok"
  BY <1>2, <1>3, <1>7, <1>9 DEF outcome, decrypted
<1>10. CASE env.jwe /\ decrypted.error = "ok"
  BY <1>2, <1>3, <1>4, <1>6, <1>10 DEF outcome, decrypted, Outs
<1> QED
  BY <1>1, <1>8, <1>9, <1>10

(* What a reader is told: the cause, or that its key was out of reach.     *)
LEMMA WhatOpeningTells ==
    ASSUME NEW v \in Versions, v # 0, NEW codec,
           CodecOf(codec, Served[v].desc), Readable(codec),
           DOMAIN codec.reads = Named(Served[v].desc, Reader),
           NEW held \in [Mints -> Unwrapped], NEW reachable \in BOOLEAN,
           \A id \in Mints : /\ held[id] # "null" =>
                                held[id] = UnwrapEpochKey(Served[v].desc, id, Reader, TRUE)
                             /\ reachable /\ Lists(v, id) =>
                                held[id] = UnwrapEpochKey(Served[v].desc, id, Reader, TRUE),
           NEW req, req.env \in Envelopes, req.slot \in Slots,
           ~req.slot.collection, req.slot.id # None
    PROVE  ToldWhy(req, v, OpenEnvelope(codec, held, req.env, req.slot).error, ~reachable)
<1> DEFINE env == req.env
           slot == req.slot
           d == Served[v].desc
           error == OpenEnvelope(codec, held, env, slot).error
           decrypted == Decrypted(codec, held, env)
           unwrapped == UnwrapEpochKey(d, env.key, Reader, TRUE)
           damage == << <<"epoch", env.key>>, Reader>>
<1>1. /\ env.key \in Mints /\ env \in Envelopes /\ slot \in Slots
      /\ env.binding.v \in Nat
  BY DEF Envelopes, Bindings
<1>2. /\ env.jwe => error = IF decrypted.error # "ok" THEN decrypted.error
                            ELSE VerifyBinding(env, slot, env.key)
      /\ error = "ok" => env.jwe /\ env.intact /\ VerifyBinding(env, slot, env.key) = "ok"
  BY WhatOpens
<1>3. /\ VerifyBinding(env, slot, env.key) = "ok" =>
           /\ env.binding.v \in 1 .. Version /\ env.binding.epoch = env.key
           /\ VerifyResourceSlot(env, slot) = "ok"
      /\ env.binding.v \in 1 .. Version /\ env.binding.epoch = env.key =>
           VerifyBinding(env, slot, env.key) = VerifyResourceSlot(env, slot)
  BY <1>1, BindingVerified
<1>4. /\ VerifyResourceSlot(env, slot) = "ok" <=> Placed(env, slot)
      /\ VerifyResourceSlot(env, slot) \in {"ok", "Integrity"}
  BY <1>1, SlotVerified
<1>5. error = "ok" => Authentic(env) /\ Placed(env, slot)
  BY <1>2, <1>3, <1>4 DEF Authentic
<1>6. ASSUME Honest(env)
      PROVE  error = Deserved(env, slot, v) \/ (~reachable /\ error = "KeyUnwrap")
  <2>1. /\ env.jwe /\ env.intact = TRUE /\ env.kids = {env.key}
        /\ env.binding.v \in 1 .. Version /\ env.binding.epoch = env.key
    BY <1>1, <1>6 DEF Honest, Authentic, Envelopes
  <2> DEFINE read == env.key \in DOMAIN codec.reads
             member == Reader \in EpochNamed(d, env.key).to
             placed == Placed(env, slot)
             deserved == Deserved(env, slot, v)
  <2>2. /\ ~read => decrypted.error = IF env.key \in codec.listed THEN "KeyUnwrap"
                                                                 ELSE "UnknownEpoch"
        /\ read /\ held[env.key] = "null" => decrypted.error = "KeyUnwrap"
        /\ read /\ held[env.key] = "Integrity" => decrypted.error = "Integrity"
        /\ read /\ held[env.key] = "secret" => decrypted.error = "ok"
    BY <1>1, <2>1, WhatHonestDecrypts
  <2>3. codec.listed = EpochIds(d) /\ (Lists(v, env.key) <=> env.key \in EpochIds(d))
    BY ServedAt DEF CodecOf, Lists
  <2>4. d \in Descriptors
    BY ServedAt
  <2>5. /\ read => Lists(v, env.key)
        /\ Lists(v, env.key) /\ member => read
    <3>1. read => env.key \in EpochIds(d)
      BY DEF CodecOf
    <3>2. ASSUME Lists(v, env.key), member PROVE env.key \in Named(d, Reader)
      <4>1. Place(d, env.key) \in DOMAIN d.epochs /\ d.epochs[Place(d, env.key)].id = env.key
        BY <2>3, <2>4, <3>2, PlaceOf DEF EpochNamed
      <4> QED
        BY <3>2, <4>1 DEF Named, EpochNamed
    <3> QED
      BY <2>3, <3>1, <3>2
  <2>6. unwrapped = IF ~member \/ damage \in Malformed THEN "null"
                    ELSE IF damage \in Corrupt THEN "Integrity" ELSE "secret"
    BY DEF UnwrapEpochKey, UnwrapEpochSecret
  <2>7. deserved = IF ~Lists(v, env.key) THEN "UnknownEpoch"
                   ELSE IF ~member THEN "KeyUnwrap"
                   ELSE IF damage \notin Malformed \union Corrupt /\ placed THEN "ok"
                   ELSE IF damage \in Malformed THEN "KeyUnwrap" ELSE "Integrity"
    <3> DEFINE sound == Sound(<<"epoch", env.key>>)
               rest == IF sound /\ placed THEN "ok"
                       ELSE IF damage \in Malformed THEN "KeyUnwrap" ELSE "Integrity"
    <3>1. deserved = CASE ~Lists(v, env.key) -> "UnknownEpoch"
                       [] Lists(v, env.key) /\ ~member -> "KeyUnwrap"
                       [] OTHER -> rest
      BY Zenon DEF Deserved
    <3>2. sound <=> damage \notin Malformed \union Corrupt
      BY DEF Sound
    <3> HIDE DEF deserved, rest, member, sound
    <3>3. deserved = IF ~Lists(v, env.key) THEN "UnknownEpoch"
                     ELSE IF ~member THEN "KeyUnwrap" ELSE rest
      BY <3>1
    <3> QED
      BY <3>2, <3>3 DEF rest
  <2>8. held[env.key] \in Unwrapped /\ (held[env.key] # "null" => held[env.key] = unwrapped)
        /\ (reachable /\ Lists(v, env.key) => held[env.key] = unwrapped)
    BY <1>1
  <2>9. error = IF decrypted.error # "ok" THEN decrypted.error
                ELSE IF placed THEN "ok" ELSE "Integrity"
    BY <1>2, <1>3, <1>4, <2>1
  <2> SUFFICES error = deserved \/ (~reachable /\ error = "KeyUnwrap")
    OBVIOUS
  <2> HIDE DEF error, decrypted, unwrapped, damage, read, member, placed, deserved, env, slot, d
  <2>10. CASE ~read
    BY <2>2, <2>3, <2>5, <2>7, <2>9, <2>10
  <2>11. CASE read /\ held[env.key] = "null"
    <3>1. error = "KeyUnwrap" /\ Lists(v, env.key)
      BY <2>2, <2>5, <2>9, <2>11
    <3>2. reachable => ~member \/ damage \in Malformed
      BY <2>6, <2>8, <2>11, <3>1
    <3> QED
      BY <2>7, <3>1, <3>2
  <2>12. CASE read /\ held[env.key] # "null"
    <3>1. held[env.key] = unwrapped /\ unwrapped # "null"
      BY <2>8, <2>12
    <3>2. member /\ damage \notin Malformed /\ Lists(v, env.key)
      BY <2>5, <2>6, <2>12, <3>1
    <3>3. CASE damage \in Corrupt
      BY <2>2, <2>6, <2>7, <2>9, <2>12, <3>1, <3>2, <3>3
    <3>4. CASE damage \notin Corrupt
      BY <2>2, <2>6, <2>7, <2>9, <2>12, <3>1, <3>2, <3>4
    <3> QED
      BY <3>3, <3>4
  <2> QED
    BY <2>10, <2>11, <2>12
<1> QED
  BY <1>5, <1>6, Zenon DEF ToldWhy

(* What opening with a build yields, and leaves in its read keys.          *)
LEMMA OpeningsTell ==
    ASSUME TypeOK, NEW b \in Builds, build[b].got # 0, Codec(b).error = "ok", Remembers(b),
           NEW req, req.env \in Envelopes, req.slot \in Slots,
           NEW o \in Openings(b, req.env, req.slot)
    PROVE  /\ o.error \in Outs \ {"none"} /\ o.missed \in BOOLEAN
           /\ o.keys \in [Mints -> Unwrapped]
           /\ \A id \in Mints : o.keys[id] # "null" =>
                /\ Lists(build[b].got, id)
                /\ o.keys[id] = UnwrapEpochKey(Served[build[b].got].desc, id, Reader, TRUE)
           /\ o.error = "UnknownEpoch" => Unlisted(req.env, build[b].got)
           /\ mode # "sealer" /\ ~req.slot.collection /\ req.slot.id # None =>
                ToldWhy(req, build[b].got, o.error, o.missed)
<1> DEFINE Remembered(asked, used) ==
             [id \in Mints |-> IF id \in used THEN asked[id] ELSE keys[b][id]]
           Opened(asked) == OpenEnvelope(Codec(b), asked, req.env, req.slot)
           v == build[b].got
<1>1. PICK reachable \in Reachable :
        o = [error |-> Opened(KeysAsked(b, reachable)).error, missed |-> ~reachable,
             keys |-> Remembered(KeysAsked(b, reachable), Opened(KeysAsked(b, reachable)).used)]
  <2> DEFINE Attempts == {[asked |-> KeysAsked(b, reachable), missed |-> ~reachable] :
                            reachable \in Reachable}
             Whole == {[opened |-> Opened(a.asked), attempt |-> a] : a \in Attempts}
  <2>1. PICK w \in Whole : o = [error |-> w.opened.error, missed |-> w.attempt.missed,
                                keys |-> Remembered(w.attempt.asked, w.opened.used)]
    BY Zenon DEF Openings
  <2>2. PICK a \in Attempts : w = [opened |-> Opened(a.asked), attempt |-> a]
    BY <2>1, Zenon
  <2>3. PICK reachable \in Reachable :
          a = [asked |-> KeysAsked(b, reachable), missed |-> ~reachable]
    BY <2>2, Zenon
  <2> HIDE DEF Remembered, Opened, Whole, Attempts
  <2>4. w.opened = Opened(a.asked) /\ w.attempt = a
    BY <2>2
  <2>5. a.asked = KeysAsked(b, reachable) /\ a.missed = ~reachable
    BY <2>3
  <2> QED
    BY <2>1, <2>4, <2>5, Zenon
<1> DEFINE asked == Asked(b, reachable)
           opened == Opened(asked)
           remembered == Remembered(asked, opened.used)
<1>2. reachable \in BOOLEAN /\ v \in Versions /\ keys[b] \in [Mints -> Unwrapped]
  BY BuildTyped, SettingTyped DEF Reachable
<1>3. /\ KeysAsked(b, reachable) = asked /\ asked \in [Mints -> Unwrapped]
      /\ \A id \in Mints :
           /\ asked[id] # "null" =>
                /\ Lists(v, id) /\ asked[id] = UnwrapEpochKey(Served[v].desc, id, Reader, TRUE)
           /\ reachable /\ Lists(v, id) =>
                asked[id] = UnwrapEpochKey(Served[v].desc, id, Reader, TRUE)
  BY <1>2, KeysAskedAre
<1>4. /\ CodecOf(Codec(b), Served[v].desc) /\ Readable(Codec(b))
      /\ mode # "sealer" => DOMAIN Codec(b).reads = Named(Served[v].desc, Reader)
  BY CodecOfBuild
<1>5. /\ opened.error \in Outs \ {"none"}
      /\ opened.error = "UnknownEpoch" => req.env.kids \intersect Codec(b).listed = {}
  BY <1>3, <1>4, WhatOpens
<1>6. Codec(b).listed = Listing[v]
  BY <1>2, <1>4, ServedAt DEF CodecOf
<1>7. opened.error = "UnknownEpoch" => Unlisted(req.env, v)
  BY <1>5, <1>6 DEF Unlisted, Lists
<1>8. mode # "sealer" /\ ~req.slot.collection /\ req.slot.id # None =>
        ToldWhy(req, v, opened.error, ~reachable)
  BY <1>2, <1>3, <1>4, WhatOpeningTells
<1> HIDE DEF asked, opened, Opened
<1>9. /\ remembered \in [Mints -> Unwrapped]
      /\ \A id \in Mints : remembered[id] # "null" =>
           /\ Lists(v, id)
           /\ remembered[id] = UnwrapEpochKey(Served[v].desc, id, Reader, TRUE)
  BY <1>2, <1>3 DEF Remembers
<1> HIDE DEF remembered, Remembered
<1>10. o = [error |-> opened.error, missed |-> ~reachable, keys |-> remembered]
  BY <1>1, <1>3 DEF opened, asked, remembered
<1>11. o.error = opened.error /\ o.missed = ~reachable /\ o.keys = remembered
  BY <1>10
<1> QED
  BY <1>2, <1>5, <1>7, <1>8, <1>9, <1>11

(* What is sealed under a descriptor opens from every later one.           *)
SealedOpens(s) ==
    /\ Lists(s.at, s.env.key)
    /\ \A v \in s.at .. Len(Served), kid \in Kids :
         LET codec == CodecAt[v][kid][TRUE]
             held == [id \in Mints |-> IF Lists(v, id)
                        THEN UnwrapEpochKey(Served[v].desc, id, kid, TRUE) ELSE "null"]
         IN codec.error = "ok" /\ held[s.env.key] = "secret" =>
              OpenEnvelope(codec, held, s.env, s.slot).error = "ok"

LEMMA SealedOpensLater ==
    ASSUME TypeOK, NEW b \in Builds, build[b].got # 0, Codec(b).error = "ok",
           NEW slot \in Slots, NEW derives \in BOOLEAN, ~slot.collection => slot.id # None
    PROVE  SealedOpens([env |-> Sealed(Codec(b), slot, derives, slot.id), slot |-> slot,
                        at |-> build[b].got])
<1> DEFINE u == build[b].got
           write == Codec(b).write
           env == Sealed(Codec(b), slot, derives, slot.id)
           s == [env |-> env, slot |-> slot, at |-> u]
<1>1. u \in Versions /\ u \in Nat /\ Len(Served) \in Nat /\ write \in Mints
      /\ CodecOf(Codec(b), Served[u].desc)
  BY BuildTyped, CodecOfBuild, ServedTyped
<1>2. /\ env.key = write /\ env.kids = {write} /\ env.intact = TRUE /\ env.jwe = TRUE
      /\ env.derived = slot.id /\ env.binding.v = Version /\ env.binding.epoch = write
      /\ env.binding.collection = IF slot.collection THEN Collection ELSE None
      /\ slot.collection => env.binding.resource = None
      /\ ~slot.collection => env.binding.resource = IF derives THEN None ELSE slot.id
  BY DEF Sealed, SlotBinding, SealParams
<1>3. s.env = env /\ s.slot = slot /\ s.at = u
  OBVIOUS
<1> HIDE DEF env, s, write
<1>4. Lists(u, write)
  BY <1>1, ServedAt DEF CodecOf, Lists, write
<1>5. VerifyBinding(env, slot, write) = "ok"
  <2> DEFINE placed == IF slot.collection THEN VerifyCollectionSlot(env.binding)
                                          ELSE VerifyResourceSlot(env, slot)
             rest == IF env.binding.epoch = None THEN "Encryption"
                     ELSE IF env.binding.epoch # write THEN "Integrity" ELSE "ok"
  <2>1. placed = "ok"
    BY <1>2 DEF VerifyCollectionSlot, VerifyResourceSlot
  <2>2. env.binding.v \in 1 .. Version
    BY <1>2, PlacesTyped
  <2>3. rest = "ok"
    BY <1>1, <1>2, NoneMintsNothing
  <2>4. VerifyBinding(env, slot, write) =
          CASE env.binding.v \notin 1 .. Version -> "Encryption"
            [] env.binding.v \in 1 .. Version /\ placed # "ok" -> placed
            [] OTHER -> rest
    BY Zenon DEF VerifyBinding
  <2> HIDE DEF placed, rest
  <2> QED
    BY <2>1, <2>2, <2>3, <2>4
<1>6. ASSUME NEW v \in u .. Len(Served), NEW kid \in Kids,
             CodecAt[v][kid][TRUE].error = "ok", NEW held,
             held = [id \in Mints |-> IF Lists(v, id)
                       THEN UnwrapEpochKey(Served[v].desc, id, kid, TRUE) ELSE "null"],
             held[write] = "secret"
      PROVE  OpenEnvelope(CodecAt[v][kid][TRUE], held, env, slot).error = "ok"
  <2> DEFINE codec == CodecAt[v][kid][TRUE]
             d == Served[v].desc
             decrypted == Decrypted(codec, held, env)
  <2>1. v \in Versions /\ v # 0 /\ d \in Descriptors
    <3>1. v \in Versions /\ v # 0
      BY <1>1 DEF Versions
    <3> QED
      BY <3>1, ServedAt
  <2>2. /\ Readable(codec) /\ DOMAIN codec.reads = Named(d, kid)
    BY <1>6, <2>1, CodecServed DEF CodecFor
  <2>3. held \in [Mints -> Unwrapped]
    BY <1>6, UnwrapTyped DEF Unwrapped
  <2>4. Lists(v, write) /\ UnwrapEpochKey(d, write, kid, TRUE) # "null"
    BY <1>1, <1>6
  <2>5. write \in EpochIds(d) /\ kid \in EpochNamed(d, write).to
    BY <2>1, <2>4, ServedAt, UnwrapTyped DEF Lists
  <2>6. write \in Named(d, kid)
    <3>1. Place(d, write) \in DOMAIN d.epochs /\ d.epochs[Place(d, write)].id = write
      BY <2>1, <2>5, PlaceOf DEF EpochNamed
    <3> QED
      BY <2>5, <3>1 DEF Named, EpochNamed
  <2> HIDE DEF codec, d
  <2>7. decrypted.error = "ok" /\ decrypted.key = write
    BY <1>1, <1>2, <1>6, <2>2, <2>3, <2>6, WhatHonestDecrypts
  <2>8. decrypted \in Outcomes
    <3>1. env.intact \in BOOLEAN /\ env.kids \subseteq Mints
      BY <1>1, <1>2
    <3> QED
      BY <2>2, <2>3, <3>1, WhatDecrypts
  <2> HIDE DEF decrypted
  <2>9. OpenEnvelope(codec, held, env, slot) =
          [decrypted EXCEPT !.error = VerifyBinding(env, slot, decrypted.key)]
    BY <1>2, <2>7 DEF OpenEnvelope, decrypted
  <2>10. OpenEnvelope(codec, held, env, slot).error = VerifyBinding(env, slot, decrypted.key)
    BY <2>8, <2>9 DEF Outcomes
  <2> QED
    BY <1>5, <2>7, <2>10 DEF codec
<1>7. Lists(s.at, s.env.key)
  BY <1>2, <1>3, <1>4
<1>8. SealedOpens(s)
  BY <1>2, <1>3, <1>6, <1>7, Zenon DEF SealedOpens
<1> QED
  BY <1>8, Zenon DEF s, env
-----------------------------------------------------------------------------
(* A step of one build leaves the others, and whoever uses them, alone.    *)

OnlyBuild(b) ==
    /\ build' \in [Builds -> BuildType] /\ keys' \in [Builds -> [Mints -> Unwrapped]]
    /\ \A d \in Builds \ {b} : build'[d] = build[d] /\ keys'[d] = keys[d]
    /\ \A c \in Calls : pc[c] # "idle" => pc'[c] # "idle"
    /\ UNCHANGED <<mode, policy, served, applied, resets, sealed>>

LEMMA OthersStand ==
    ASSUME TypeOK, NEW b \in Builds, OnlyBuild(b), NEW d \in Builds \ {b}
    PROVE  /\ Acquired(d) => Acquired(d)'
           /\ Codec(d)' = Codec(d) /\ (Remembers(d) => Remembers(d)')
           /\ Usable(d) => Usable(d)'
<1>1. build'[d] = build[d] /\ keys'[d] = keys[d] /\ mode' = mode /\ policy' = policy
      /\ served' = served
  BY DEF OnlyBuild
<1>2. Codec(d)' = Codec(d)
  BY <1>1 DEF Codec
<1>3. Acquired(d) => Acquired(d)'
  BY <1>1 DEF Acquired, Verified
<1>4. Remembers(d) => Remembers(d)'
  BY <1>1 DEF Remembers, Lists
<1>5. build[d].meta \in Calls \union {None}
  BY BuildTyped DEF BuildType
<1>6. Usable(d) => Usable(d)'
  BY <1>1, <1>2, <1>4, <1>5 DEF Usable, OnlyBuild
<1> QED
  BY <1>2, <1>3, <1>4, <1>6

Moving == {"acquire", "got", "keep", "fallback", "derive", "replay"}

LEMMA FlightOf ==
    ASSUME TypeOK
    PROVE  \A b \in Builds : b \in InFlight <=> build[b].pc \in Moving
BY BuildTyped DEF InFlight, BuildType, Moving

(* What a build of a cipher in flight holds, against what it serves from.  *)
NewerIn(b) ==
    mode = "cipher" =>
      /\ inner # None => build[inner].got <= cache
      /\ build[b].pc = "got" /\ build[b].answer = "found" => cache <= build[b].got
      /\ build[b].pc = "keep" => cache <= build[b].got
      /\ build[b].pc \in {"derive", "replay"} => build[b].got = cache

LEMMA Moved ==
    ASSUME IInv, NEW b \in Builds, build[b].pc \in Moving, OnlyBuild(b),
           build'[b].pc \in Moving, cache' \in Versions, cache' <= served,
           UNCHANGED <<inner, guard, schema, pc, call>>,
           Acquired(b)', Usable(b)', NewerIn(b)',
           build'[b].pc = "replay" => build'[b].meta = applied
    PROVE  IInv'
<1>1. /\ TypeOK /\ Serving /\ Counted /\ Solo /\ Newer /\ Indexed /\ WhatIsSealedOpens
      /\ \A d \in Builds : Acquired(d) /\ Usable(d)
      /\ \A c \in Calls : Called(c) /\ Told(c)
  BY DEF IInv
<1>2. TypeOK'
  BY <1>1 DEF TypeOK, OnlyBuild
<1>3. \A d \in Builds : build[d].pc = "done" => d # b /\ build'[d] = build[d]
  BY DEF OnlyBuild, Moving
<1>4. \A d \in Builds : (Acquired(d) /\ Usable(d))'
  BY <1>1, OthersStand
<1>5. InFlight' = InFlight /\ Spending' = Spending
  <2>1. \A d \in Builds : d \in InFlight' <=> build'[d].pc \in Moving
    BY <1>2 DEF TypeOK, BuildType, InFlight, Moving
  <2>2. \A d \in Builds : build'[d].pc \in Moving <=> build[d].pc \in Moving
    BY DEF OnlyBuild
  <2>3. InFlight' \subseteq Builds /\ InFlight \subseteq Builds
    BY DEF InFlight
  <2>4. \A d \in Calls : d \in Builds
    BY DEF Builds
  <2>5. Spending' = Spending
    BY <2>4 DEF Spending, OnlyBuild, Moving
  <2> QED
    BY <1>1, <2>1, <2>2, <2>3, <2>5, FlightOf
<1>6. /\ mode' = mode /\ policy' = policy /\ served' = served /\ applied' = applied
      /\ resets' = resets /\ sealed' = sealed /\ inner' = inner /\ guard' = guard
      /\ schema' = schema /\ pc' = pc /\ call' = call
  BY DEF OnlyBuild
<1>7. Boot \in Builds /\ \A d \in Calls : d \in Builds
  BY DEF Builds
<1>8. inner # None => inner \in Builds /\ build[inner].pc = "done" /\ build'[inner] = build[inner]
  BY <1>1, <1>3 DEF TypeOK, Serving
<1>9. Serving'
  <2>1. inner = None => build'[Boot].pc # "done" /\ \A c \in Calls : build'[c].pc = "none"
    <3> SUFFICES ASSUME inner = None
                 PROVE  build'[Boot].pc # "done" /\ \A c \in Calls : build'[c].pc = "none"
      OBVIOUS
    <3>1. \A c \in Calls : c # b
      BY <1>1 DEF Serving, Moving
    <3>2. b = Boot
      BY <3>1 DEF Builds
    <3> QED
      BY <3>1, <3>2, <1>1, <1>7 DEF Serving, OnlyBuild, Moving
  <2>2. inner # None => build'[Boot].pc = "done"
    BY <1>1, <1>3, <1>7 DEF Serving
  <2> QED
    BY <1>1, <1>6, <1>8, <2>1, <2>2 DEF Serving
<1>10. Counted'
  <2>1. guard = "spent" => \E d \in Calls : build'[d].pc = "done"
    BY <1>1, <1>3, <1>7 DEF Counted
  <2> QED
    BY <1>1, <1>5, <1>6, <2>1 DEF Counted
<1>11. Solo'
  BY <1>1, <1>5, <1>6 DEF Solo
<1>12. Newer'
  <2>1. b \in InFlight
    BY <1>1, FlightOf
  <2>2. mode = "cipher" => \A d \in InFlight : d = b
    BY <1>1, <2>1 DEF Solo
  <2>3. mode' = "cipher" => mode = "cipher"
    BY <1>6
  <2> QED
    BY <1>5, <2>2, <2>3 DEF Newer, NewerIn
<1>13. Indexed'
  <2>1. applied # None => inner # None
    BY <1>1 DEF Serving
  <2>2. applied # None => Codec(inner)' = Codec(inner)
    BY <1>6, <1>8, <2>1 DEF Codec
  <2>3. ~Overlapping => \A d \in InFlight : build'[d].pc = "replay" => build'[d].meta = applied
    BY <1>1 DEF Indexed, OnlyBuild, InFlight
  <2> QED
    BY <1>1, <1>5, <1>6, <2>2, <2>3 DEF Indexed
<1>14. \A c \in Calls : Called(c)' /\ Told(c)'
  <2> SUFFICES ASSUME NEW c \in Calls PROVE Called(c)' /\ Told(c)'
    OBVIOUS
  <2>1. Called(c) /\ Told(c) /\ c \in Builds
    BY <1>1, <1>7
  <2>2. pc[c] # "idle" => build'[call[c].using] = build[call[c].using]
                          /\ build[call[c].using].pc = "done"
    BY <1>1, <1>3, <2>1 DEF Called, TypeOK, CallType
  <2>3. (pc[c] = "idle" \/ (pc[c] = "read" /\ call[c].tries = 0)) => build'[c].pc = "none"
    BY <2>1 DEF Called, OnlyBuild, Moving
  <2>4. Called(c)'
    BY <1>5, <1>6, <2>1, <2>2, <2>3 DEF Called
  <2>5. Told(c)'
    BY <1>6, <2>1, <2>2 DEF Told, ToldWhy, Deserved, Unlisted, Lists
  <2> QED
    BY <2>4, <2>5
<1>15. WhatIsSealedOpens'
  BY <1>1, <1>6, Zenon DEF WhatIsSealedOpens, Lists
<1> QED
  BY <1>2, <1>4, <1>9, <1>10, <1>11, <1>12, <1>13, <1>14, <1>15 DEF IInv

LEMMA Landed ==
    ASSUME TypeOK, TypeOK', NEW b \in Builds, OnlyBuild(b), build[b].pc \in Moving,
           build'[b].pc \in {"done", "failed"}
    PROVE  InFlight' = InFlight \ {b} /\ b \in InFlight
<1>1. \A d \in Builds : d \in InFlight <=> build[d].pc \in Moving
  BY FlightOf
<1>2. \A d \in Builds : d \in InFlight' <=> build'[d].pc \in Moving
  BY DEF TypeOK, BuildType, InFlight, Moving
<1>3. InFlight' \subseteq Builds /\ InFlight \subseteq Builds
  BY DEF InFlight
<1> QED
  BY <1>1, <1>2, <1>3 DEF OnlyBuild, Moving

LEMMA DeservedUnlisted ==
    ASSUME NEW env, NEW slot, NEW v, ~Lists(v, env.key)
    PROVE  Deserved(env, slot, v) = "UnknownEpoch"
BY Zenon DEF Deserved

(* A build in flight is the only one of a cipher, and precedes its use.    *)
LEMMA InFlightAlone ==
    ASSUME IInv, NEW b \in Builds, build[b].pc \in Moving
    PROVE  /\ b \in InFlight /\ b # inner
           /\ b = Boot => inner = None /\ guard = "armed" /\ \A c \in Calls : pc[c] = "idle"
           /\ b # Boot => b \in Calls /\ inner # None
           /\ mode = "cipher" => /\ \A d \in InFlight : d = b
                                 /\ b \in Calls => guard = "running"
           /\ \A c \in Calls : pc[c] \notin {"idle", "waiting"} => c # b \/ pc[c] # "read"
                                                                   \/ call[c].tries = 1
<1>1. TypeOK /\ Serving /\ Solo /\ \A c \in Calls : Called(c)
  BY DEF IInv
<1>2. b \in InFlight /\ b # inner
  <2>1. b \in InFlight
    BY <1>1, FlightOf
  <2>2. b # None /\ build[b].pc # "done"
    BY SettingTyped DEF Moving
  <2> QED
    BY <1>1, <2>1, <2>2 DEF Serving
<1>3. b = Boot => inner = None /\ guard = "armed" /\ \A c \in Calls : pc[c] = "idle"
  BY <1>1 DEF Serving, Moving
<1>4. b # Boot => b \in Calls /\ inner # None
  BY <1>1 DEF Serving, Moving, Builds
<1>5. mode = "cipher" => /\ \A d \in InFlight : d = b
                         /\ b \in Calls => guard = "running"
  BY <1>1, <1>2 DEF Solo
<1>6. ASSUME NEW c \in Calls, pc[c] = "read", call[c].tries # 1 PROVE c # b
  <2>1. call[c].tries \in {0, 1}
    BY <1>1 DEF TypeOK, CallType
  <2> QED
    BY <1>1, <1>6, <2>1 DEF Called, Moving
<1> QED
  BY <1>2, <1>3, <1>4, <1>5, <1>6

LEMMA Failed ==
    ASSUME IInv, NEW b \in Builds, build[b].pc \in Moving, Fail(b),
           UNCHANGED <<mode, policy, served, applied, resets, sealed>>
    PROVE  IInv'
<1>1. /\ TypeOK /\ Serving /\ Counted /\ Solo /\ Newer /\ Indexed /\ WhatIsSealedOpens
      /\ \A d \in Builds : Acquired(d) /\ Usable(d)
      /\ \A c \in Calls : Called(c) /\ Told(c)
  BY DEF IInv
<1>2. /\ b \in InFlight /\ b # inner
      /\ b = Boot => inner = None /\ guard = "armed" /\ \A c \in Calls : pc[c] = "idle"
      /\ b # Boot => b \in Calls /\ inner # None
      /\ mode = "cipher" => (\A d \in InFlight : d = b) /\ (b \in Calls => guard = "running")
  BY InFlightAlone
<1>3. Boot \notin Calls /\ None \notin Builds /\ Boot \in Builds /\ Calls \subseteq Builds
  BY SettingTyped DEF Builds
<1>4. /\ mode' = mode /\ policy' = policy /\ served' = served /\ applied' = applied
      /\ resets' = resets /\ sealed' = sealed /\ inner' = inner /\ keys' = keys
      /\ schema' = schema /\ cache' = cache
      /\ guard' = IF b = Boot THEN guard ELSE "armed"
  BY DEF Fail, Disarmed
<1>5. /\ build' = [build EXCEPT ![b].pc = "failed"] /\ build \in [Builds -> BuildType]
      /\ keys \in [Builds -> [Mints -> Unwrapped]]
  BY <1>1 DEF Fail, Await, TypeOK
<1>6. /\ build' \in [Builds -> BuildType] /\ build'[b].pc = "failed"
      /\ build'[b].got = build[b].got
      /\ \A d \in Builds \ {b} : build'[d] = build[d]
  BY <1>5 DEF BuildType
<1>7. ASSUME NEW c \in Calls
      PROVE  IF pc[c] = "waiting" /\ call[c].awaits = b
             THEN /\ pc'[c] = "ended" /\ call'[c] \in CallType /\ call'[c].out = "UnknownEpoch"
                  /\ call'[c].req = call[c].req /\ call'[c].using = call[c].using
                  /\ call'[c].tries = call[c].tries
             ELSE pc'[c] = pc[c] /\ call'[c] = call[c]
  <2>1. call[c] \in CallType
    BY <1>1 DEF TypeOK
  <2> DEFINE n == [call[c] EXCEPT !.out = "UnknownEpoch"]
  <2>2. /\ n \in CallType /\ n.out = "UnknownEpoch" /\ n.req = call[c].req
        /\ n.using = call[c].using /\ n.tries = call[c].tries
    BY <2>1 DEF CallType, Outs
  <2> HIDE DEF n
  <2>3. CASE c \in Waiting(b)
    <3>1. pc'[c] = "ended" /\ call'[c] = n
      BY <2>3 DEF Fail, n
    <3> QED
      BY <2>2, <2>3, <3>1 DEF Waiting
  <2>4. CASE c \notin Waiting(b)
    <3>1. pc'[c] = pc[c] /\ call'[c] = call[c]
      BY <2>4 DEF Fail
    <3> QED
      BY <2>4, <3>1 DEF Waiting
  <2> QED
    BY <2>3, <2>4
<1>8. TypeOK'
  <2>1. call' \in [Calls -> CallType]
    <3>1. call' = [c \in Calls |-> call'[c]]
      BY DEF Fail
    <3>2. \A c \in Calls : call[c] \in CallType
      BY <1>1 DEF TypeOK
    <3>3. \A c \in Calls : call'[c] \in CallType
      BY <1>7, <3>2
    <3> QED
      BY <3>1, <3>3
  <2>2. pc' \in [Calls -> {"idle", "read", "seal", "apply", "waiting", "ended"}]
    BY <1>1 DEF Fail, TypeOK
  <2> QED
    BY <1>1, <1>4, <1>6, <2>1, <2>2 DEF TypeOK
<1>9. OnlyBuild(b)
  BY <1>4, <1>5, <1>6, <1>7 DEF OnlyBuild
<1>10. InFlight' = InFlight \ {b}
  BY <1>1, <1>6, <1>8, <1>9, Landed
<1>11. \A d \in Builds : (Acquired(d) /\ Usable(d))'
  <2>1. (Acquired(b) /\ Usable(b))'
    BY <1>1, <1>4, <1>6 DEF Acquired, Usable, Holding
  <2> QED
    BY <1>1, <1>9, <2>1, OthersStand
<1>12. \A d \in Builds : build[d].pc = "done" => d # b /\ build'[d] = build[d]
  BY <1>6 DEF Moving
<1>13. inner # None => inner \in Builds /\ build'[inner] = build[inner] /\ build[inner].pc = "done"
  BY <1>1, <1>12 DEF TypeOK, Serving
<1>14. applied # None => applied \in Calls /\ inner # None /\ pc[applied] # "idle"
                         /\ call[applied].req.kind = "apply"
  BY <1>1 DEF TypeOK, Serving
<1>15. applied # None => pc'[applied] = pc[applied] /\ call'[applied] = call[applied]
  <2> SUFFICES ASSUME applied # None
               PROVE  pc'[applied] = pc[applied] /\ call'[applied] = call[applied]
    OBVIOUS
  <2>1. pc[applied] # "waiting"
    BY <1>1, <1>14 DEF Called
  <2> QED
    BY <1>7, <1>14, <2>1
<1>16. Serving'
  <2>1. inner = None => \A c \in Calls : pc'[c] = "idle"
    BY <1>1, <1>7 DEF Serving
  <2>2. inner = None => /\ build'[Boot].pc # "done" /\ \A c \in Calls : build'[c].pc = "none"
                        /\ guard' = "armed"
    BY <1>1, <1>2, <1>3, <1>4, <1>6 DEF Serving
  <2>3. inner # None => build'[Boot].pc = "done"
    BY <1>1, <1>2, <1>3, <1>6 DEF Serving
  <2>4. ~policy.present => guard' = "armed"
    BY <1>1, <1>4 DEF Serving
  <2> QED
    BY <1>1, <1>4, <1>13, <1>14, <1>15, <2>1, <2>2, <2>3, <2>4 DEF Serving
<1>17. Counted'
  <2>1. Spending' = Spending \ {b}
    BY <1>3, <1>6 DEF Spending
  <2>2. IsFiniteSet(Spending) /\ IsFiniteSet(Spending') /\ resets \in Nat
    BY <1>1, <2>1, FS_RemoveElement DEF Counted, TypeOK
  <2>3. CASE b = Boot
    <3>1. Spending' = Spending /\ guard' = guard
      BY <1>3, <1>4, <2>1, <2>3 DEF Spending
    <3> QED
      BY <1>1, <1>2, <1>4, <2>3, <3>1 DEF Counted
  <2>4. CASE b # Boot
    <3>1. b \in Spending
      BY <1>2, <2>4 DEF Spending, Moving
    <3>2. Cardinality(Spending') = Cardinality(Spending) - 1
      BY <2>1, <2>2, <3>1, FS_RemoveElement
    <3>3. Cardinality(Spending) \in Nat
      BY <2>2, FS_CardinalityType
    <3>4. Cardinality(Spending) <= resets + 1
      BY <1>1, <2>2, <3>3 DEF Counted
    <3>5. guard' = "armed"
      BY <1>4, <2>4
    <3> QED
      BY <1>4, <2>2, <3>2, <3>3, <3>4, <3>5 DEF Counted
  <2> QED
    BY <2>3, <2>4
<1>18. Solo'
  <2> SUFFICES ASSUME mode = "cipher" PROVE Solo'
    BY <1>4 DEF Solo
  <2>1. InFlight' = {}
    BY <1>2, <1>10
  <2>2. guard' = "armed" /\ guard # "spent"
    BY <1>2, <1>4
  <2>3. \A c \in Calls : pc'[c] # "waiting"
    BY <1>1, <1>2, <1>7 DEF Called
  <2>4. inner \in {None, Boot} /\ \A c \in Calls : call'[c].tries = 0
    BY <1>1, <1>7, <2>2 DEF Solo
  <2>5. \A c \in Calls : pc'[c] = "read" => call'[c].using = inner
    BY <1>1, <1>7, <2>2 DEF Solo
  <2> QED
    BY <1>4, <2>1, <2>2, <2>3, <2>4, <2>5 DEF Solo
<1>19. Newer'
  BY <1>1, <1>2, <1>4, <1>10, <1>13 DEF Newer
<1>20. Indexed'
  <2>1. applied # None => Codec(inner)' = Codec(inner)
    BY <1>4, <1>13, <1>14 DEF Codec
  <2>2. \A c \in Calls : pc'[c] = "apply" => pc[c] = "apply" /\ call'[c] = call[c]
    BY <1>7
  <2>3. ~Overlapping => \A c \in Calls : pc'[c] # "apply"
    BY <1>1, <1>2, <2>2 DEF Indexed
  <2>4. ~Overlapping => \A d \in InFlight' : build'[d].pc = "replay" => build'[d].meta = applied
    BY <1>1, <1>6, <1>10 DEF Indexed, InFlight
  <2>5. ~Overlapping /\ applied # None /\ pc'[applied] = "ended" /\ call'[applied].out = "ok"
        /\ Codec(inner)'.blinding # None => schema[inner] = call'[applied].req.schema
    BY <1>1, <1>15, <2>1 DEF Indexed
  <2> QED
    BY <1>4, <2>3, <2>4, <2>5 DEF Indexed
<1>21. ASSUME NEW c \in Calls PROVE Called(c)' /\ Told(c)'
  <2>1. Called(c) /\ Told(c) /\ c \in Builds
    BY <1>1, <1>3
  <2>2. pc[c] # "idle" => build'[call[c].using] = build[call[c].using]
                          /\ build[call[c].using].pc = "done"
    BY <1>1, <1>12, <2>1 DEF Called, TypeOK, CallType
  <2>3. CASE pc[c] = "waiting" /\ call[c].awaits = b
    <3>1. /\ pc'[c] = "ended" /\ call'[c].out = "UnknownEpoch"
          /\ call'[c].req = call[c].req /\ call'[c].using = call[c].using
      BY <1>7, <2>3
    <3>2. Called(c)'
      BY <1>4, <2>1, <2>2, <2>3, <3>1 DEF Called
    <3>3. Unlisted(call[c].req.env, build[call[c].using].got)
      BY <2>1, <2>3 DEF Told
    <3>4. Honest(call[c].req.env) =>
            ~Lists(build[call[c].using].got, call[c].req.env.key)
      BY <3>3 DEF Honest, Unlisted
    <3>5. ToldWhy(call[c].req, build[call[c].using].got, "UnknownEpoch", call'[c].missed)
      BY <3>4, DeservedUnlisted DEF ToldWhy
    <3>6. build'[call'[c].using].got = build[call[c].using].got
      BY <2>2, <2>3, <3>1
    <3> QED
      BY <3>1, <3>2, <3>5, <3>6 DEF Told, ToldWhy, Unlisted, Lists, Deserved
  <2>4. CASE ~(pc[c] = "waiting" /\ call[c].awaits = b)
    <3>1. pc'[c] = pc[c] /\ call'[c] = call[c]
      BY <1>7, <2>4
    <3>2. pc[c] = "idle" => build'[c].pc = "none"
      BY <1>6, <2>1 DEF Called, Moving
    <3>3. pc[c] = "read" /\ call[c].tries = 0 => build'[c].pc = "none"
      BY <1>6, <2>1 DEF Called, Moving
    <3>4. pc[c] = "waiting" => call[c].awaits \in InFlight'
      BY <1>10, <2>1, <2>4 DEF Called
    <3>5. Called(c)'
      BY <1>4, <2>1, <2>2, <3>1, <3>2, <3>3, <3>4 DEF Called
    <3>6. Told(c)'
      BY <1>4, <2>1, <2>2, <3>1 DEF Told, ToldWhy, Deserved, Unlisted, Lists
    <3> QED
      BY <3>5, <3>6
  <2> QED
    BY <2>3, <2>4
<1>22. WhatIsSealedOpens'
  BY <1>1, <1>4, Zenon DEF WhatIsSealedOpens, Lists
<1> QED
  BY <1>8, <1>11, <1>16, <1>17, <1>18, <1>19, <1>20, <1>21, <1>22 DEF IInv

LEMMA Completed ==
    ASSUME IInv, NEW b \in Builds, build[b].pc \in {"derive", "replay"},
           NEW reachable \in BOOLEAN, NEW installed \in Schemas \union {None},
           Complete(b, reachable, installed),
           UNCHANGED <<mode, policy, served, cache, applied, resets, sealed>>,
           keys' \in [Builds -> [Mints -> Unwrapped]],
           \A d \in Builds \ {b} : keys'[d] = keys[d],
           Codec(b)'.error = "ok", Remembers(b)',
           ~Overlapping /\ applied # None /\ Codec(b)'.blinding # None =>
             installed = call[applied].req.schema
    PROVE  IInv'
<1>1. /\ TypeOK /\ Serving /\ Counted /\ Solo /\ Newer /\ Indexed /\ WhatIsSealedOpens
      /\ \A d \in Builds : Acquired(d) /\ Usable(d)
      /\ \A c \in Calls : Called(c) /\ Told(c)
  BY DEF IInv
<1>2. /\ b \in InFlight /\ b # inner
      /\ b = Boot => inner = None /\ guard = "armed" /\ \A c \in Calls : pc[c] = "idle"
      /\ b # Boot => b \in Calls /\ inner # None
      /\ mode = "cipher" => (\A d \in InFlight : d = b) /\ (b \in Calls => guard = "running")
  <2>1. build[b].pc \in Moving
    BY DEF Moving
  <2> QED
    BY <2>1, InFlightAlone
<1>3. Boot \notin Calls /\ None \notin Builds /\ Boot \in Builds /\ Calls \subseteq Builds
  BY SettingTyped DEF Builds
<1>4. /\ mode' = mode /\ policy' = policy /\ served' = served /\ applied' = applied
      /\ resets' = resets /\ sealed' = sealed /\ cache' = cache /\ inner' = b
      /\ schema' = [schema EXCEPT ![b] = installed]
      /\ guard' = IF b # Boot /\ guard = "running" THEN "spent" ELSE guard
  BY DEF Complete
<1>5. /\ build' = [build EXCEPT ![b].pc = "done", ![b].reachable = reachable]
      /\ build \in [Builds -> BuildType]
  BY <1>1 DEF Complete, TypeOK
<1>6. /\ build' \in [Builds -> BuildType] /\ build'[b].pc = "done"
      /\ build'[b].got = build[b].got /\ build'[b].via = build[b].via
      /\ build'[b].answer = build[b].answer
      /\ \A d \in Builds \ {b} : build'[d] = build[d]
  <2> DEFINE n == [build[b] EXCEPT !.pc = "done", !.reachable = reachable]
  <2>1. build' = [build EXCEPT ![b] = n]
    BY <1>5
  <2>2. build[b] \in BuildType
    BY <1>5
  <2>3. /\ n \in BuildType /\ n.pc = "done" /\ n.got = build[b].got
        /\ n.via = build[b].via /\ n.answer = build[b].answer
    BY <2>2 DEF BuildType
  <2> HIDE DEF n
  <2> QED
    BY <1>5, <2>1, <2>3
<1>7. ASSUME NEW c \in Calls
      PROVE  IF pc[c] = "waiting" /\ call[c].awaits = b
             THEN /\ pc'[c] = "read" /\ call'[c] \in CallType /\ call'[c].tries = 1
                  /\ call'[c].using = b /\ call'[c].req = call[c].req
             ELSE pc'[c] = pc[c] /\ call'[c] = call[c]
  <2>1. call[c] \in CallType
    BY <1>1 DEF TypeOK
  <2> DEFINE n == [call[c] EXCEPT !.tries = 1, !.using = RetryCipher(c, b)]
  <2>2. n \in CallType /\ n.tries = 1 /\ n.using = b /\ n.req = call[c].req
    BY <2>1 DEF CallType, RetryCipher
  <2> HIDE DEF n
  <2>3. CASE c \in Waiting(b)
    <3>1. pc'[c] = "read" /\ call'[c] = n
      BY <2>3 DEF Complete, n
    <3> QED
      BY <2>2, <2>3, <3>1 DEF Waiting
  <2>4. CASE c \notin Waiting(b)
    <3>1. pc'[c] = pc[c] /\ call'[c] = call[c]
      BY <2>4 DEF Complete
    <3> QED
      BY <2>4, <3>1 DEF Waiting
  <2> QED
    BY <2>3, <2>4
<1>8. TypeOK'
  <2>1. call' \in [Calls -> CallType]
    <3>1. call' = [c \in Calls |-> call'[c]]
      BY DEF Complete
    <3>2. \A c \in Calls : call[c] \in CallType
      BY <1>1 DEF TypeOK
    <3>3. \A c \in Calls : call'[c] \in CallType
      BY <1>7, <3>2
    <3> QED
      BY <3>1, <3>3
  <2>2. pc' \in [Calls -> {"idle", "read", "seal", "apply", "waiting", "ended"}]
    BY <1>1 DEF Complete, TypeOK
  <2>3. schema' \in [Builds -> Schemas \union {None}]
    BY <1>1, <1>4 DEF TypeOK
  <2>4. guard' \in {"armed", "running", "spent"}
    BY <1>1, <1>4 DEF TypeOK
  <2> QED
    BY <1>1, <1>4, <1>6, <2>1, <2>2, <2>3, <2>4 DEF TypeOK
<1>9. OnlyBuild(b)
  BY <1>4, <1>6, <1>7 DEF OnlyBuild
<1>10. InFlight' = InFlight \ {b}
  BY <1>1, <1>6, <1>8, <1>9, Landed DEF Moving
<1>11. \A d \in Builds : (Acquired(d) /\ Usable(d))'
  <2>1. Acquired(b) /\ build[b].pc \in Holding
    BY <1>1 DEF Holding
  <2>2. Acquired(b)'
    BY <1>4, <1>6, <2>1 DEF Acquired, Verified, Holding
  <2>3. Usable(b)'
    BY <1>6 DEF Usable
  <2> QED
    BY <1>1, <1>9, <2>2, <2>3, OthersStand
<1>12. \A d \in Builds : build[d].pc = "done" => d # b /\ build'[d] = build[d]
  BY <1>6
<1>13. applied # None => /\ applied \in Calls /\ pc[applied] # "idle"
                         /\ mode = "cipher" /\ call[applied].req.kind = "apply"
                         /\ pc'[applied] = pc[applied] /\ call'[applied] = call[applied]
  <2> SUFFICES ASSUME applied # None
               PROVE  /\ applied \in Calls /\ pc[applied] # "idle"
                      /\ mode = "cipher" /\ call[applied].req.kind = "apply"
                      /\ pc'[applied] = pc[applied] /\ call'[applied] = call[applied]
    OBVIOUS
  <2>1. /\ applied \in Calls /\ pc[applied] # "idle"
        /\ mode = "cipher" /\ call[applied].req.kind = "apply"
    BY <1>1 DEF TypeOK, Serving
  <2>2. pc[applied] # "waiting"
    BY <1>1, <2>1 DEF Called
  <2> QED
    BY <1>7, <2>1, <2>2
<1>14. Serving'
  <2>1. inner' # None /\ build'[inner'].pc = "done"
    BY <1>3, <1>4, <1>6
  <2>2. build'[Boot].pc = "done"
    BY <1>1, <1>2, <1>3, <1>6 DEF Serving
  <2>3. ~policy.present => guard' = "armed"
    BY <1>1, <1>4 DEF Serving
  <2>4. cache' <= served' /\ (mode' # "cipher" => policy'.present)
    BY <1>1, <1>4 DEF Serving
  <2>5. applied' # None => /\ mode' = "cipher" /\ pc'[applied'] # "idle"
                           /\ call'[applied'].req.kind = "apply"
    BY <1>4, <1>13
  <2> QED
    BY <1>4, <2>1, <2>2, <2>3, <2>4, <2>5 DEF Serving
<1>15. Counted'
  <2>1. Spending' = Spending
    BY <1>3, <1>6 DEF Spending
  <2>2. guard' = "spent" => \E d \in Calls : build'[d].pc = "done"
    BY <1>1, <1>2, <1>3, <1>4, <1>6, <1>12 DEF Counted
  <2>3. guard' = "armed" <=> guard = "armed"
    BY <1>4
  <2> QED
    BY <1>1, <1>4, <2>1, <2>2, <2>3 DEF Counted
<1>16. Solo'
  <2> SUFFICES ASSUME mode = "cipher" PROVE Solo'
    BY <1>4 DEF Solo
  <2>1. InFlight' = {}
    BY <1>2, <1>10
  <2>2. guard' # "running"
    <3>1. guard = "running" => b # Boot
      BY <1>2
    <3> QED
      BY <1>4, <3>1
  <2>3. \A c \in Calls : pc'[c] # "waiting"
    BY <1>1, <1>2, <1>7 DEF Called
  <2>4. guard' # "spent" => b = Boot
    BY <1>2, <1>4
  <2>5. \A c \in Calls : guard' # "spent" => call'[c].tries = 0
    BY <1>1, <1>2, <1>7, <2>4 DEF Solo
  <2>6. ASSUME NEW c \in Calls, pc'[c] = "read", call'[c].tries = 1 \/ guard' # "spent"
        PROVE  call'[c].using = b
    <3>1. b # Boot
      BY <1>2, <1>7, <2>6
    <3>2. guard = "running" /\ guard' = "spent"
      BY <1>2, <1>4, <3>1
    <3>3. call[c].tries = 0
      BY <1>1, <3>2 DEF Solo
    <3> QED
      BY <1>7, <2>6, <3>2, <3>3
  <2> QED
    BY <1>4, <2>1, <2>2, <2>3, <2>4, <2>5, <2>6 DEF Solo
<1>17. Newer'
  <2> SUFFICES ASSUME mode = "cipher" PROVE Newer'
    BY <1>4 DEF Newer
  <2>1. build[b].got = cache /\ cache \in Nat
    BY <1>1, <1>2, BuildTyped DEF Newer, TypeOK
  <2>2. InFlight' = {}
    BY <1>2, <1>10
  <2> QED
    BY <1>4, <1>6, <2>1, <2>2 DEF Newer
<1>18. Indexed'
  <2>1. Codec(inner)' = Codec(b)'
    BY <1>4 DEF Codec
  <2>2. \A c \in Calls : pc'[c] = "apply" => pc[c] = "apply" /\ call'[c] = call[c]
    BY <1>7
  <2>3. ~Overlapping => \A c \in Calls : pc'[c] # "apply"
    BY <1>1, <1>2, <2>2 DEF Indexed
  <2>4. ~Overlapping => \A d \in InFlight' : build'[d].pc = "replay" => build'[d].meta = applied
    BY <1>1, <1>6, <1>10 DEF Indexed, InFlight
  <2>5. schema'[inner'] = installed
    BY <1>1, <1>4 DEF TypeOK
  <2>6. ~Overlapping /\ applied # None /\ Codec(inner)'.blinding # None =>
          schema'[inner'] = call'[applied].req.schema
    BY <1>13, <2>1, <2>5
  <2> QED
    BY <1>4, <2>3, <2>4, <2>6 DEF Indexed
<1>19. ASSUME NEW c \in Calls PROVE Called(c)' /\ Told(c)'
  <2>1. Called(c) /\ Told(c) /\ c \in Builds
    BY <1>1, <1>3
  <2>2. pc[c] # "idle" => build'[call[c].using] = build[call[c].using]
                          /\ build[call[c].using].pc = "done"
    BY <1>1, <1>12, <2>1 DEF Called, TypeOK, CallType
  <2>3. CASE pc[c] = "waiting" /\ call[c].awaits = b
    <3>1. /\ pc'[c] = "read" /\ call'[c].tries = 1 /\ call'[c].using = b
          /\ call'[c].req = call[c].req
      BY <1>7, <2>3
    <3> QED
      BY <1>3, <1>4, <1>6, <2>1, <2>3, <3>1 DEF Called, Told
  <2>4. CASE ~(pc[c] = "waiting" /\ call[c].awaits = b)
    <3>1. pc'[c] = pc[c] /\ call'[c] = call[c]
      BY <1>7, <2>4
    <3>2. (pc[c] = "idle" \/ (pc[c] = "read" /\ call[c].tries = 0)) => build'[c].pc = "none"
      BY <1>6, <2>1 DEF Called
    <3>3. pc[c] = "waiting" => call[c].awaits \in InFlight'
      BY <1>10, <2>1, <2>4 DEF Called
    <3>4. Called(c)'
      BY <1>4, <2>1, <2>2, <3>1, <3>2, <3>3 DEF Called
    <3>5. Told(c)'
      BY <1>4, <2>1, <2>2, <3>1 DEF Told, ToldWhy, Deserved, Unlisted, Lists
    <3> QED
      BY <3>4, <3>5
  <2> QED
    BY <2>3, <2>4
<1>20. WhatIsSealedOpens'
  BY <1>1, <1>4, Zenon DEF WhatIsSealedOpens, Lists
<1> QED
  BY <1>8, <1>11, <1>14, <1>15, <1>16, <1>17, <1>18, <1>19, <1>20 DEF IInv
-----------------------------------------------------------------------------
(* The steps of a build.                                                   *)

BuildFrame == UNCHANGED <<mode, policy, served, applied, resets, sealed>>

LEMMA Rebuilt ==
    ASSUME IInv, NEW b \in Builds, build[b].pc \in Moving, NEW n \in BuildType,
           build' = [build EXCEPT ![b] = n],
           keys' \in [Builds -> [Mints -> Unwrapped]],
           \A d \in Builds \ {b} : keys'[d] = keys[d], pc' = pc, BuildFrame
    PROVE  /\ OnlyBuild(b) /\ build'[b] = n
           /\ inner # None => build'[inner] = build[inner]
<1>1. TypeOK /\ build \in [Builds -> BuildType] /\ inner \in Builds \union {None}
  BY DEF IInv, TypeOK
<1>2. inner # None => inner \in Builds \ {b}
  BY <1>1, InFlightAlone
<1>3. OnlyBuild(b) /\ build'[b] = n
  BY <1>1 DEF OnlyBuild, BuildFrame
<1> QED
  BY <1>2, <1>3 DEF OnlyBuild

LEMMA AcquireKeeps ==
    ASSUME IInv, NEW b \in Builds, Acquire(b), BuildFrame
    PROVE  IInv'
<1>1. build[b].pc = "acquire" /\ build[b].pc \in Moving
  BY DEF Acquire, Moving
<1>2. TypeOK /\ Serving /\ Acquired(b) /\ Newer /\ build[b] \in BuildType
      /\ keys \in [Builds -> [Mints -> Unwrapped]]
  BY DEF IInv, TypeOK
<1>3. served \in Versions /\ 0 \in Versions /\ served \in Nat
  BY <1>2, ServedTyped DEF TypeOK, Versions
<1>4. CASE policy.present /\ policy.require /\ ~policy.verifies
  <2>1. Fail(b)
    BY <1>4 DEF Acquire
  <2> QED
    BY <1>1, <2>1, Failed DEF BuildFrame
<1>5. CASE ~(policy.present /\ policy.require /\ ~policy.verifies)
  <2>1. UNCHANGED <<cache, inner, guard, keys, schema, pc, call>>
    BY <1>5 DEF Acquire
  <2>2. cache' \in Versions /\ cache' <= served
    BY <1>2, <2>1 DEF TypeOK, Serving
  <2>3. CASE ~policy.present
    <3> DEFINE n == [build[b] EXCEPT !.pc = "fallback"]
    <3>1. build' = [build EXCEPT ![b] = n]
      BY <1>5, <2>3 DEF Acquire, Await
    <3>2. /\ n \in BuildType /\ n.pc = "fallback" /\ n.got = build[b].got
          /\ n.via = build[b].via /\ n.answer = build[b].answer
      BY <1>2 DEF BuildType
    <3> HIDE DEF n
    <3>3. OnlyBuild(b) /\ build'[b] = n /\ (inner # None => build'[inner] = build[inner])
      BY <1>1, <1>2, <2>1, <3>1, <3>2, Rebuilt
    <3>4. Acquired(b)' /\ Usable(b)'
      BY <1>1, <1>2, <2>1, <3>2, <3>3 DEF Acquired, Usable, Holding, BuildFrame
    <3>5. NewerIn(b)'
      BY <1>2, <2>1, <3>2, <3>3 DEF Newer, NewerIn, BuildFrame
    <3> QED
      BY <1>1, <2>1, <2>2, <3>2, <3>3, <3>4, <3>5, Moved DEF Moving
  <2>4. CASE policy.present
    <3>1. PICK answer \in {"found", "none", "failed", "refused"} :
            /\ answer = "found" => served # 0
            /\ build' = [build EXCEPT ![b].pc = "got", ![b].answer = answer,
                           ![b].got = IF answer = "found" THEN served ELSE 0]
      BY <1>5, <2>4 DEF Acquire
    <3> DEFINE version == IF answer = "found" THEN served ELSE 0
               n == [build[b] EXCEPT !.pc = "got", !.answer = answer, !.got = version]
    <3>2. build' = [build EXCEPT ![b] = n]
      BY <3>1
    <3>3. version \in Versions /\ version <= served
      BY <1>3
    <3> HIDE DEF version
    <3>4. /\ n \in BuildType /\ n.pc = "got" /\ n.got = version
          /\ n.via = build[b].via /\ n.answer = answer
      BY <1>2, <3>3 DEF BuildType, Answers
    <3> HIDE DEF n
    <3>5. OnlyBuild(b) /\ build'[b] = n /\ (inner # None => build'[inner] = build[inner])
      BY <1>1, <1>2, <2>1, <3>2, <3>4, Rebuilt
    <3>6. answer = "found" => version = served /\ version # 0
      BY <3>1 DEF version
    <3>7. policy.require => policy.verifies
      BY <1>5, <2>4
    <3>8. Acquired(b)' /\ Usable(b)'
      BY <1>1, <1>2, <2>1, <3>3, <3>4, <3>5, <3>6, <3>7
         DEF Acquired, Usable, Holding, BuildFrame
    <3>9. NewerIn(b)'
      BY <1>2, <2>1, <3>4, <3>5, <3>6 DEF Newer, NewerIn, Serving, BuildFrame
    <3> QED
      BY <1>1, <2>1, <2>2, <3>4, <3>5, <3>8, <3>9, Moved DEF Moving
  <2> QED
    BY <2>3, <2>4
<1> QED
  BY <1>4, <1>5

LEMMA SettleKeeps ==
    ASSUME IInv, NEW b \in Builds, Settle(b), BuildFrame
    PROVE  IInv'
<1>1. build[b].pc = "got" /\ build[b].pc \in Moving
  BY DEF Settle, Moving
<1>2. TypeOK /\ Serving /\ Acquired(b) /\ Newer /\ build[b] \in BuildType
      /\ keys \in [Builds -> [Mints -> Unwrapped]]
  BY DEF IInv, TypeOK
<1>3. CASE Distrusted(b)
  BY <1>1, <1>3, Failed DEF Settle, BuildFrame
<1>4. CASE ~Distrusted(b)
  <2> DEFINE label == IF build[b].answer = "found" THEN "keep" ELSE "fallback"
             n == [build[b] EXCEPT !.pc = label]
  <2>1. UNCHANGED <<cache, inner, guard, keys, schema, pc, call>>
        /\ build' = [build EXCEPT ![b] = n]
    BY <1>4 DEF Settle, Await
  <2>2. cache' \in Versions /\ cache' <= served
    BY <1>2, <2>1 DEF TypeOK, Serving
  <2>3. label \in {"keep", "fallback"} /\ (label = "keep" <=> build[b].answer = "found")
    OBVIOUS
  <2> HIDE DEF label
  <2>4. /\ n \in BuildType /\ n.pc = label /\ n.got = build[b].got
        /\ n.via = build[b].via /\ n.answer = build[b].answer
    BY <1>2, <2>3 DEF BuildType
  <2> HIDE DEF n
  <2>5. OnlyBuild(b) /\ build'[b] = n /\ (inner # None => build'[inner] = build[inner])
    BY <1>1, <1>2, <2>1, <2>4, Rebuilt
  <2>6. Acquired(b)' /\ Usable(b)'
    BY <1>1, <1>2, <1>4, <2>1, <2>3, <2>4, <2>5
       DEF Acquired, Usable, Verified, Distrusted, Holding, BuildFrame
  <2>7. NewerIn(b)'
    <3>1. mode = "cipher" /\ build[b].answer = "found" => cache <= build[b].got
      BY <1>1, <1>2, FlightOf DEF Newer
    <3> QED
      BY <1>2, <2>1, <2>3, <2>4, <2>5, <3>1 DEF Newer, NewerIn, BuildFrame
  <2> QED
    BY <1>1, <2>1, <2>2, <2>3, <2>4, <2>5, <2>6, <2>7, Moved DEF Moving
<1> QED
  BY <1>3, <1>4

LEMMA KeepKeeps ==
    ASSUME IInv, NEW b \in Builds, Keep(b), BuildFrame
    PROVE  IInv'
<1>1. build[b].pc = "keep" /\ build[b].pc \in Moving
  BY DEF Keep, Moving
<1>2. TypeOK /\ Serving /\ Acquired(b) /\ Newer /\ build[b] \in BuildType
      /\ keys \in [Builds -> [Mints -> Unwrapped]] /\ build[b].got \in Versions
      /\ Versions \subseteq Nat
  BY BuildTyped DEF IInv, TypeOK
<1> DEFINE n == [build[b] EXCEPT !.pc = "derive", !.via = "source"]
<1>3. /\ cache' = build[b].got /\ UNCHANGED <<inner, guard, keys, schema, pc, call>>
      /\ build' = [build EXCEPT ![b] = n]
  BY DEF Keep
<1>4. /\ n \in BuildType /\ n.pc = "derive" /\ n.got = build[b].got
      /\ n.via = "source" /\ n.answer = build[b].answer
  BY <1>2 DEF BuildType
<1> HIDE DEF n
<1>5. OnlyBuild(b) /\ build'[b] = n /\ (inner # None => build'[inner] = build[inner])
  BY <1>1, <1>2, <1>3, <1>4, Rebuilt
<1>6. Acquired(b)' /\ Usable(b)'
  BY <1>1, <1>2, <1>3, <1>4, <1>5 DEF Acquired, Usable, Verified, Holding, BuildFrame
<1>7. cache' \in Versions /\ cache' <= served
  BY <1>2, <1>3 DEF Acquired
<1>8. NewerIn(b)'
  <2>1. mode = "cipher" => cache <= build[b].got
    BY <1>1, <1>2, FlightOf DEF Newer
  <2>2. inner # None => build[inner].got \in Nat
    BY <1>2, BuildTyped DEF TypeOK
  <2>3. cache \in Nat /\ build[b].got \in Nat
    BY <1>2 DEF TypeOK
  <2> QED
    BY <1>2, <1>3, <1>4, <1>5, <2>1, <2>2, <2>3 DEF Newer, NewerIn, BuildFrame
<1> QED
  BY <1>1, <1>3, <1>4, <1>5, <1>6, <1>7, <1>8, Moved DEF Moving

LEMMA FallbackKeeps ==
    ASSUME IInv, NEW b \in Builds, Fallback(b), BuildFrame
    PROVE  IInv'
<1>1. build[b].pc = "fallback" /\ build[b].pc \in Moving
  BY DEF Fallback, Moving
<1>2. TypeOK /\ Serving /\ Acquired(b) /\ Newer /\ build[b] \in BuildType
      /\ keys \in [Builds -> [Mints -> Unwrapped]] /\ cache \in Versions
      /\ Versions \subseteq Nat
  BY BuildTyped DEF IInv, TypeOK
<1>3. CASE cache = 0
  BY <1>1, <1>3, Failed DEF Fallback, BuildFrame
<1>4. CASE cache # 0
  <2> DEFINE n == [build[b] EXCEPT !.pc = "derive", !.got = cache, !.via = "cache"]
  <2>1. /\ UNCHANGED <<cache, inner, guard, keys, schema, pc, call>>
        /\ build' = [build EXCEPT ![b] = n]
    BY <1>4 DEF Fallback
  <2>2. /\ n \in BuildType /\ n.pc = "derive" /\ n.got = cache
        /\ n.via = "cache" /\ n.answer = build[b].answer
    BY <1>2 DEF BuildType
  <2> HIDE DEF n
  <2>3. OnlyBuild(b) /\ build'[b] = n /\ (inner # None => build'[inner] = build[inner])
    BY <1>1, <1>2, <2>1, <2>2, Rebuilt
  <2>4. Acquired(b)' /\ Usable(b)'
    BY <1>1, <1>2, <1>4, <2>1, <2>2, <2>3
       DEF Acquired, Usable, Verified, Holding, Serving, BuildFrame
  <2>5. cache' \in Versions /\ cache' <= served
    BY <1>2, <2>1 DEF Serving
  <2>6. NewerIn(b)'
    BY <1>2, <2>1, <2>2, <2>3 DEF Newer, NewerIn, BuildFrame
  <2> QED
    BY <1>1, <2>1, <2>2, <2>3, <2>4, <2>5, <2>6, Moved DEF Moving
<1> QED
  BY <1>3, <1>4

(* The write key of a reader that holds it is unwrapped with the codec.    *)
CodecWith(b, reachable) ==
    IF mode = "sealer" THEN SealerAt[build[b].got]
                       ELSE CodecAt[build[b].got][Reader][reachable]

EnteredWith(codec) ==
    IF codec.holds THEN [NoKeys EXCEPT ![codec.write] = "secret"] ELSE NoKeys

LEMMA EnteredKeys ==
    ASSUME NEW v \in Versions, v # 0, NEW reachable \in BOOLEAN, NEW codec, codec.error = "ok",
           codec = SealerAt[v] \/ codec = CodecAt[v][Reader][reachable]
    PROVE  /\ EnteredWith(codec) \in [Mints -> Unwrapped]
           /\ \A id \in Mints : EnteredWith(codec)[id] # "null" =>
                /\ Lists(v, id)
                /\ EnteredWith(codec)[id] = UnwrapEpochKey(Served[v].desc, id, Reader, TRUE)
<1>1. Reader \in Kids /\ NoKeys \in [Mints -> Unwrapped] /\ \A id \in Mints : NoKeys[id] = "null"
  BY SettingTyped DEF NoKeys, Unwrapped
<1>2. Listing[v] = EpochIds(Served[v].desc)
  BY ServedAt
<1>3. codec.holds =>
        /\ codec.write \in Mints /\ Lists(v, codec.write)
        /\ UnwrapEpochKey(Served[v].desc, codec.write, Reader, reachable) = "secret"
  <2>1. CASE codec = SealerAt[v]
    BY <2>1, SealerServed
  <2>2. CASE codec = CodecAt[v][Reader][reachable]
    <3>1. CodecFor(codec, Served[v].desc, Reader, reachable) /\ codec.write \in Mints
      BY <1>1, <2>2, CodecServed
    <3> QED
      BY <1>2, <3>1 DEF CodecFor, CodecOf, Lists
  <2> QED
    BY <2>1, <2>2
<1>4. codec.holds =>
        UnwrapEpochKey(Served[v].desc, codec.write, Reader, TRUE) = "secret"
  BY <1>3, UnwrapTyped
<1>5. CASE codec.holds
  BY <1>1, <1>3, <1>4, <1>5 DEF Unwrapped, EnteredWith
<1>6. CASE ~codec.holds
  BY <1>1, <1>6 DEF EnteredWith
<1> QED
  BY <1>5, <1>6

LEMMA DeriveKeeps ==
    ASSUME IInv, NEW b \in Builds, Derive(b), BuildFrame
    PROVE  IInv'
<1>1. build[b].pc = "derive" /\ build[b].pc \in Moving /\ cache' = cache
  BY DEF Derive, Moving
<1>2. /\ TypeOK /\ Serving /\ Acquired(b) /\ Newer /\ build[b] \in BuildType
      /\ keys \in [Builds -> [Mints -> Unwrapped]] /\ build[b].got \in Versions
      /\ build[b].got # 0 /\ cache \in Versions
  BY <1>1, BuildTyped DEF IInv, TypeOK, Acquired, Holding
<1>3. PICK reachable \in Reachable :
        IF CodecWith(b, reachable).error # "ok" THEN Fail(b)
        ELSE /\ keys' = [keys EXCEPT ![b] = EnteredWith(CodecWith(b, reachable))]
             /\ IF ToReplay(b) = None THEN Complete(b, reachable, None)
                ELSE /\ build' = [build EXCEPT ![b].pc = "replay", ![b].meta = ToReplay(b),
                                               ![b].reachable = reachable]
                     /\ UNCHANGED <<inner, guard, schema, pc, call>>
  BY DEF Derive, CodecWith, EnteredWith
<1> DEFINE codec == CodecWith(b, reachable)
           entered == EnteredWith(codec)
<1>4. reachable \in BOOLEAN
  BY SettingTyped DEF Reachable
<1>5. CASE codec.error # "ok"
  BY <1>1, <1>3, <1>5, Failed DEF BuildFrame
<1>6. CASE codec.error = "ok"
  <2>1. /\ entered \in [Mints -> Unwrapped]
        /\ \A id \in Mints : entered[id] # "null" =>
             /\ Lists(build[b].got, id)
             /\ entered[id] = UnwrapEpochKey(Served[build[b].got].desc, id, Reader, TRUE)
    <3>1. codec = SealerAt[build[b].got] \/ codec = CodecAt[build[b].got][Reader][reachable]
      BY DEF CodecWith
    <3>2. build[b].got \in Versions /\ build[b].got # 0
      BY <1>2
    <3>3. codec.error = "ok"
      BY <1>6
    <3> HIDE DEF codec
    <3> DEFINE v == build[b].got
    <3> HIDE DEF v
    <3>4. v \in Versions /\ v # 0
      BY <3>2 DEF v
    <3>5. codec = SealerAt[v] \/ codec = CodecAt[v][Reader][reachable]
      BY <3>1 DEF v
    <3>6. EnteredWith(codec) \in [Mints -> Unwrapped]
      BY <1>4, <3>3, <3>4, <3>5, EnteredKeys
    <3>7. \A id \in Mints : EnteredWith(codec)[id] # "null" =>
                /\ Lists(v, id)
                /\ EnteredWith(codec)[id] = UnwrapEpochKey(Served[v].desc, id, Reader, TRUE)
      BY <1>4, <3>3, <3>4, <3>5, EnteredKeys, Zenon
    <3> QED
      BY <3>6, <3>7 DEF v
  <2>2. keys' = [keys EXCEPT ![b] = entered]
    BY <1>3, <1>6
  <2>3. build'[b].got = build[b].got /\ build'[b].reachable = reachable /\ mode' = mode =>
          Codec(b)' = codec
    BY DEF Codec, CodecWith
  <2> HIDE DEF entered, codec
  <2>4. /\ keys' \in [Builds -> [Mints -> Unwrapped]] /\ keys'[b] = entered
        /\ \A d \in Builds \ {b} : keys'[d] = keys[d]
    BY <1>2, <2>1, <2>2
  <2>5. build'[b].got = build[b].got => Remembers(b)'
    BY <2>1, <2>4 DEF Remembers, Lists
  <2>6. CASE ToReplay(b) = None
    <3>1. Complete(b, reachable, None) /\ applied = None
      BY <1>3, <1>6, <2>6 DEF ToReplay, codec
    <3> DEFINE n == [build[b] EXCEPT !.pc = "done", !.reachable = reachable]
    <3>2. build' = [build EXCEPT ![b] = n] /\ n.got = build[b].got /\ n.reachable = reachable
      BY <1>2, <3>1 DEF Complete, BuildType
    <3> HIDE DEF n
    <3>3. build'[b] = n
      BY <1>2, <3>2 DEF TypeOK
    <3>4. Codec(b)'.error = "ok" /\ Remembers(b)'
      BY <1>6, <2>3, <2>5, <3>2, <3>3 DEF BuildFrame
    <3> QED
      BY <1>1, <1>4, <2>4, <3>1, <3>4, Completed DEF BuildFrame
  <2>7. CASE ToReplay(b) # None
    <3> DEFINE n == [build[b] EXCEPT !.pc = "replay", !.meta = ToReplay(b),
                                     !.reachable = reachable]
    <3>1. /\ build' = [build EXCEPT ![b] = n]
          /\ UNCHANGED <<inner, guard, schema, pc, call>>
      BY <1>3, <1>6, <2>7 DEF codec
    <3>2. ToReplay(b) = applied /\ applied \in Calls /\ pc[applied] # "idle" /\ mode = "cipher"
      BY <1>2, <2>7 DEF ToReplay, Serving, TypeOK
    <3>3. /\ n \in BuildType /\ n.pc = "replay" /\ n.got = build[b].got /\ n.meta = applied
          /\ n.via = build[b].via /\ n.answer = build[b].answer /\ n.reachable = reachable
      BY <1>2, <1>4, <3>2 DEF BuildType
    <3> HIDE DEF n
    <3>4. OnlyBuild(b) /\ build'[b] = n /\ (inner # None => build'[inner] = build[inner])
      BY <1>1, <2>4, <3>1, <3>3, Rebuilt
    <3>5. Codec(b)'.error = "ok" /\ Remembers(b)'
      BY <1>6, <2>3, <2>5, <3>3, <3>4 DEF BuildFrame
    <3>6. Acquired(b)'
      BY <1>1, <1>2, <3>3, <3>4 DEF Acquired, Verified, Holding, BuildFrame
    <3>7. Usable(b)'
      BY <2>7, <3>1, <3>2, <3>3, <3>4, <3>5 DEF Usable, BuildFrame
    <3>8. NewerIn(b)'
      <4>1. mode = "cipher" => build[b].got = cache
        BY <1>1, <1>2, FlightOf DEF Newer
      <4> QED
        BY <1>1, <1>2, <3>1, <3>3, <3>4, <4>1 DEF Newer, NewerIn, BuildFrame
    <3>9. cache' \in Versions /\ cache' <= served
      BY <1>1, <1>2 DEF Serving
    <3> QED
      BY <1>1, <3>1, <3>3, <3>4, <3>6, <3>7, <3>8, <3>9, Moved DEF Moving
  <2> QED
    BY <2>6, <2>7
<1> QED
  BY <1>5, <1>6

LEMMA RequestOf ==
    ASSUME IInv, NEW c \in Calls, pc[c] # "idle"
    PROVE  /\ call[c].req \in RequestsOf[c] /\ call[c].req \in RequestType
           /\ call[c].req.env \in Envelopes /\ call[c].req.slot \in Slots
           /\ call[c].req.schema \in Schemas \union {None}
           /\ call[c].req.derives \in BOOLEAN
           /\ call[c].req.kind \in {"read", "seal"} /\ ~call[c].req.slot.collection =>
                call[c].req.slot.id # None
<1>1. Called(c)
  BY DEF IInv
<1>2. call[c].req \in RequestsOf[c]
  BY <1>1 DEF Called
<1>3. call[c].req \in RequestType
  BY <1>2, RequestsTyped
<1> QED
  BY <1>2, <1>3, RequestsTyped DEF RequestType

LEMMA ReplayKeeps ==
    ASSUME IInv, NEW b \in Builds, Replay(b), BuildFrame
    PROVE  IInv'
<1>1. build[b].pc = "replay" /\ build[b].pc \in Moving /\ cache' = cache
  BY DEF Replay, Moving
<1>2. /\ TypeOK /\ Acquired(b) /\ Usable(b) /\ build[b] \in BuildType
      /\ keys \in [Builds -> [Mints -> Unwrapped]] /\ build[b].reachable \in BOOLEAN
      /\ build[b].got # 0 /\ Codec(b).error = "ok" /\ Remembers(b)
  BY <1>1, BuildTyped DEF IInv, TypeOK, Acquired, Usable, Holding
<1>3. ~Overlapping => build[b].meta = applied
  BY <1>1, <1>2, FlightOf DEF IInv, Indexed
<1>4. build[b].meta \in Calls /\ pc[build[b].meta] # "idle"
  BY <1>1, <1>2 DEF Usable, BuildType
<1> DEFINE req == call[build[b].meta].req
           n == [build[b] EXCEPT !.pc = "done", !.reachable = build[b].reachable]
<1>5. ASSUME NEW installed, Complete(b, build[b].reachable, installed)
      PROVE  build'[b].got = build[b].got /\ Codec(b)' = Codec(b)
  <2>1. build' = [build EXCEPT ![b] = n]
    BY <1>5 DEF Complete
  <2>2. n.got = build[b].got /\ n.reachable = build[b].reachable
    BY <1>2 DEF BuildType
  <2> HIDE DEF n
  <2>3. build'[b] = n
    BY <1>2, <2>1 DEF TypeOK
  <2> QED
    BY <2>2, <2>3 DEF Codec, BuildFrame
<1>6. CASE Codec(b).blinding = None
  <2>1. Complete(b, build[b].reachable, None) /\ keys' = keys
    BY <1>6 DEF Replay
  <2>2. Remembers(b)' /\ Codec(b)'.error = "ok" /\ Codec(b)'.blinding = None
    BY <1>2, <1>5, <1>6, <2>1 DEF Remembers, Lists
  <2> QED
    BY <1>1, <1>2, <2>1, <2>2, Completed DEF BuildFrame
<1>7. CASE Codec(b).blinding # None
  <2>1. PICK opened \in Openings(b, req.env, req.slot) :
          IF opened.error # "ok" THEN Fail(b)
          ELSE /\ keys' = [keys EXCEPT ![b] = opened.keys]
               /\ Complete(b, build[b].reachable, req.schema)
    BY <1>7 DEF Replay
  <2>2. req.env \in Envelopes /\ req.slot \in Slots /\ req.schema \in Schemas \union {None}
    BY <1>4, RequestOf
  <2> HIDE DEF req
  <2>3. /\ opened.keys \in [Mints -> Unwrapped]
        /\ \A id \in Mints : opened.keys[id] # "null" =>
             /\ Lists(build[b].got, id)
             /\ opened.keys[id] = UnwrapEpochKey(Served[build[b].got].desc, id, Reader, TRUE)
    BY <1>2, <2>1, <2>2, OpeningsTell
  <2>4. CASE opened.error # "ok"
    BY <1>1, <2>1, <2>4, Failed DEF BuildFrame
  <2>5. CASE opened.error = "ok"
    <3>1. keys' = [keys EXCEPT ![b] = opened.keys] /\ Complete(b, build[b].reachable, req.schema)
      BY <2>1, <2>5
    <3>2. /\ keys' \in [Builds -> [Mints -> Unwrapped]] /\ keys'[b] = opened.keys
          /\ \A d \in Builds \ {b} : keys'[d] = keys[d]
      BY <1>2, <2>3, <3>1
    <3>3. build'[b].got = build[b].got /\ Codec(b)' = Codec(b)
      BY <1>5, <3>1
    <3>4. Remembers(b)' /\ Codec(b)'.error = "ok"
      BY <1>2, <2>3, <3>2, <3>3 DEF Remembers, Lists
    <3>5. ~Overlapping => req.schema = call[applied].req.schema
      BY <1>3 DEF req
    <3> QED
      BY <1>1, <1>2, <2>2, <3>1, <3>2, <3>4, <3>5, Completed DEF BuildFrame
  <2> QED
    BY <2>4, <2>5
<1> QED
  BY <1>6, <1>7

LEMMA BuildKeeps ==
    ASSUME IInv, NEW b \in Builds, Build(b)
    PROVE  IInv'
<1>1. BuildFrame
  BY DEF Build, BuildFrame
<1>2. CASE Acquire(b)
  BY <1>1, <1>2, AcquireKeeps
<1>3. CASE Settle(b)
  BY <1>1, <1>3, SettleKeeps
<1>4. CASE Keep(b)
  BY <1>1, <1>4, KeepKeeps
<1>5. CASE Fallback(b)
  BY <1>1, <1>5, FallbackKeeps
<1>6. CASE Derive(b)
  BY <1>1, <1>6, DeriveKeeps
<1>7. CASE Replay(b)
  BY <1>1, <1>7, ReplayKeeps
<1> QED
  BY <1>2, <1>3, <1>4, <1>5, <1>6, <1>7 DEF Build
-----------------------------------------------------------------------------
(* The steps of a call.                                                    *)

(* What the read keys of the builds remember once a call has used one.     *)
KeysRemember ==
    /\ keys' \in [Builds -> [Mints -> Unwrapped]]
    /\ \A d \in Builds : build[d].pc \in {"replay", "done"} =>
         \A id \in Mints : keys'[d][id] # "null" =>
           /\ Lists(build[d].got, id)
           /\ keys'[d][id] = UnwrapEpochKey(Served[build[d].got].desc, id, Reader, TRUE)

LEMMA KeysRemembered ==
    ASSUME IInv, keys' = keys
    PROVE  KeysRemember
BY DEF IInv, TypeOK, Usable, Remembers, KeysRemember

(* The cipher a call uses was built, and stays.                            *)
LEMMA CipherOf ==
    ASSUME IInv, NEW c \in Calls, pc[c] # "idle"
    PROVE  /\ call[c].using \in Builds /\ build[call[c].using].pc = "done"
           /\ build[call[c].using].got # 0 /\ build[call[c].using].got \in Versions
           /\ Codec(call[c].using).error = "ok" /\ Remembers(call[c].using)
           /\ call[c] \in CallType /\ inner # None /\ inner \in Builds
           /\ build[inner].pc = "done"
<1>1. TypeOK /\ Called(c) /\ Serving
  BY DEF IInv
<1>2. call[c] \in CallType
  BY <1>1 DEF TypeOK
<1>3. call[c].using \in Builds /\ build[call[c].using].pc = "done"
  BY <1>1, <1>2 DEF Called, CallType
<1>4. Acquired(call[c].using) /\ Usable(call[c].using)
  BY <1>3 DEF IInv
<1>5. build[call[c].using].got # 0 /\ build[call[c].using].got \in Versions
  BY <1>1, <1>3, <1>4, BuildTyped DEF Acquired, Holding
<1>6. inner # None /\ inner \in Builds /\ build[inner].pc = "done"
  BY <1>1 DEF Serving, TypeOK
<1> QED
  BY <1>2, <1>3, <1>4, <1>5, <1>6 DEF Usable

LEMMA CallOpens ==
    ASSUME IInv, NEW c \in Calls, pc[c] # "idle",
           NEW o \in Openings(call[c].using, call[c].req.env, call[c].req.slot),
           keys' = [keys EXCEPT ![call[c].using] = o.keys]
    PROVE  /\ KeysRemember /\ o.error \in Outs \ {"none"} /\ o.missed \in BOOLEAN
           /\ o.error = "UnknownEpoch" => Unlisted(call[c].req.env, build[call[c].using].got)
           /\ call[c].req.kind = "read" =>
                ToldWhy(call[c].req, build[call[c].using].got, o.error, o.missed)
<1> DEFINE b == call[c].using
           req == call[c].req
<1>1. /\ b \in Builds /\ build[b].got # 0 /\ Codec(b).error = "ok" /\ Remembers(b)
      /\ TypeOK /\ Called(c) /\ keys \in [Builds -> [Mints -> Unwrapped]]
  BY CipherOf DEF IInv, TypeOK
<1>2. req.env \in Envelopes /\ req.slot \in Slots /\ req \in RequestsOf[c]
  BY RequestOf
<1>3. req.kind = "read" => mode # "sealer" /\ ~req.slot.collection /\ req.slot.id # None
  BY <1>1, <1>2, RequestsTyped DEF Called
<1>4. \A d \in Builds : build[d].pc \in {"replay", "done"} => Remembers(d)
  BY DEF IInv, Usable
<1> HIDE DEF b, req
<1>5. o \in Openings(b, req.env, req.slot) /\ keys' = [keys EXCEPT ![b] = o.keys]
  BY DEF b, req
<1>6. /\ o.error \in Outs \ {"none"} /\ o.missed \in BOOLEAN
      /\ o.keys \in [Mints -> Unwrapped]
      /\ \A id \in Mints : o.keys[id] # "null" =>
           /\ Lists(build[b].got, id)
           /\ o.keys[id] = UnwrapEpochKey(Served[build[b].got].desc, id, Reader, TRUE)
      /\ o.error = "UnknownEpoch" => Unlisted(req.env, build[b].got)
      /\ mode # "sealer" /\ ~req.slot.collection /\ req.slot.id # None =>
           ToldWhy(req, build[b].got, o.error, o.missed)
  BY <1>1, <1>2, <1>5, OpeningsTell
<1>7. keys' \in [Builds -> [Mints -> Unwrapped]]
  BY <1>1, <1>5, <1>6
<1>8. ASSUME NEW d \in Builds, build[d].pc \in {"replay", "done"}
      PROVE  \A id \in Mints : keys'[d][id] # "null" =>
               /\ Lists(build[d].got, id)
               /\ keys'[d][id] = UnwrapEpochKey(Served[build[d].got].desc, id, Reader, TRUE)
  <2>1. CASE d = b
    BY <1>1, <1>5, <1>6, <2>1
  <2>2. CASE d # b
    <3>1. keys'[d] = keys[d]
      BY <1>1, <1>5, <2>2
    <3>2. Remembers(d)
      BY <1>4, <1>8
    <3> QED
      BY <3>1, <3>2, Zenon DEF Remembers
  <2> QED
    BY <2>1, <2>2
<1> QED
  BY <1>3, <1>6, <1>7, <1>8 DEF KeysRemember, b, req

(* A step that moves one call and builds nothing.                          *)
LEMMA CallMoved ==
    ASSUME IInv, TypeOK', NEW c \in Calls, inner # None,
           UNCHANGED <<mode, policy, served, cache, inner, build>>, KeysRemember,
           \/ guard' = guard /\ resets' = resets
           \/ guard' = "armed" /\ mode # "cipher" /\ resets' = resets + 1,
           \A e \in Calls \ {c} : pc'[e] = pc[e] /\ call'[e] = call[e],
           pc'[c] # "idle", pc[c] # "idle" => call'[c].req = call[c].req,
           \/ applied' = applied
           \/ applied' = c /\ mode = "cipher" /\ call'[c].req.kind = "apply",
           pc'[c] = "waiting" => guard = "running" /\ call'[c].using = Boot,
           pc'[c] = "read" => call'[c].using = inner,
           mode = "cipher" /\ guard # "spent" => call'[c].tries = 0,
           Called(c)', Told(c)', Indexed', WhatIsSealedOpens'
    PROVE  IInv'
<1>1. /\ TypeOK /\ Serving /\ Counted /\ Solo /\ Newer
      /\ \A d \in Builds : Acquired(d) /\ Usable(d)
      /\ \A e \in Calls : Called(e) /\ Told(e)
  BY DEF IInv
<1>2. /\ mode' = mode /\ policy' = policy /\ served' = served /\ cache' = cache
      /\ inner' = inner /\ build' = build /\ InFlight' = InFlight /\ Spending' = Spending
  BY DEF InFlight, Spending
<1>3. \A d \in Builds : (Acquired(d) /\ Usable(d))'
  <2> SUFFICES ASSUME NEW d \in Builds PROVE (Acquired(d) /\ Usable(d))'
    OBVIOUS
  <2>1. Acquired(d) /\ Usable(d) /\ build[d] \in BuildType
    BY <1>1, BuildTyped
  <2>2. Acquired(d)'
    BY <1>2, <2>1 DEF Acquired, Verified
  <2>3. Codec(d)' = Codec(d)
    BY <1>2 DEF Codec
  <2>4. build[d].pc \in {"replay", "done"} => Remembers(d)'
    BY <1>2 DEF KeysRemember, Remembers, Lists
  <2>5. build[d].pc = "replay" => pc'[build[d].meta] # "idle"
    <3> SUFFICES ASSUME build[d].pc = "replay" PROVE pc'[build[d].meta] # "idle"
      OBVIOUS
    <3>1. build[d].meta \in Calls /\ pc[build[d].meta] # "idle"
      BY <2>1 DEF Usable, BuildType
    <3> QED
      BY <3>1
  <2>6. Usable(d)'
    BY <1>2, <2>1, <2>3, <2>4, <2>5 DEF Usable
  <2> QED
    BY <2>2, <2>6
<1>4. Serving'
  <2>1. applied' # None => /\ mode = "cipher" /\ pc'[applied'] # "idle"
                           /\ call'[applied'].req.kind = "apply"
    <3>1. CASE applied' = c /\ mode = "cipher" /\ call'[c].req.kind = "apply"
      BY <3>1
    <3>2. CASE applied' = applied
      <4> SUFFICES ASSUME applied # None
                   PROVE  /\ mode = "cipher" /\ pc'[applied] # "idle"
                          /\ call'[applied].req.kind = "apply"
        BY <3>2
      <4>1. /\ applied \in Calls /\ mode = "cipher" /\ pc[applied] # "idle"
            /\ call[applied].req.kind = "apply"
        BY <1>1 DEF Serving, TypeOK
      <4>2. CASE applied = c
        BY <4>1, <4>2
      <4>3. CASE applied # c
        BY <4>1, <4>3
      <4> QED
        BY <4>2, <4>3
    <3> QED
      BY <3>1, <3>2
  <2>2. ~policy.present => guard' = "armed"
    BY <1>1 DEF Serving
  <2> QED
    BY <1>1, <1>2, <2>1, <2>2 DEF Serving
<1>5. Counted'
  <2>1. Cardinality(Spending) \in Nat /\ resets \in Nat
    BY <1>1, FS_CardinalityType DEF Counted, TypeOK
  <2>2. CASE guard' = guard /\ resets' = resets
    BY <1>1, <1>2, <2>2 DEF Counted
  <2>3. CASE guard' = "armed" /\ resets' = resets + 1
    BY <1>1, <1>2, <2>1, <2>3 DEF Counted
  <2> QED
    BY <2>2, <2>3
<1>6. Solo'
  <2> SUFFICES ASSUME mode = "cipher" PROVE Solo'
    BY <1>2 DEF Solo
  <2>1. guard' = guard
    OBVIOUS
  <2>2. \A e \in Calls : guard # "spent" => call'[e].tries = 0
    BY <1>1 DEF Solo
  <2>3. \A e \in Calls : /\ pc'[e] = "waiting" => guard = "running" /\ call'[e].using = Boot
                         /\ pc'[e] = "read" /\ (call'[e].tries = 1 \/ guard # "spent") =>
                              call'[e].using = inner
    BY <1>1 DEF Solo
  <2> QED
    BY <1>1, <1>2, <2>1, <2>2, <2>3 DEF Solo
<1>7. Newer'
  BY <1>1, <1>2 DEF Newer
<1>8. \A e \in Calls : Called(e)' /\ Told(e)'
  <2> SUFFICES ASSUME NEW e \in Calls, e # c PROVE Called(e)' /\ Told(e)'
    OBVIOUS
  <2>1. Called(e) /\ Told(e) /\ pc'[e] = pc[e] /\ call'[e] = call[e]
    BY <1>1
  <2>2. Called(e)'
    BY <1>2, <2>1 DEF Called
  <2>3. Told(e)'
    BY <1>2, <2>1 DEF Told, ToldWhy, Deserved, Unlisted, Lists
  <2> QED
    BY <2>2, <2>3
<1> QED
  BY <1>3, <1>4, <1>5, <1>6, <1>7, <1>8 DEF IInv

(* A step that applies nothing leaves the metadata in force.               *)
LEMMA IndexStands ==
    ASSUME IInv, NEW c \in Calls, inner # None, applied # c, pc'[c] # "apply",
           UNCHANGED <<mode, inner, build, applied, schema>>,
           \A e \in Calls \ {c} : pc'[e] = pc[e] /\ call'[e] = call[e]
    PROVE  Indexed'
<1>1. Indexed /\ applied \in Calls \union {None}
  BY DEF IInv, TypeOK
<1>2. /\ inner' = inner /\ build' = build /\ InFlight' = InFlight /\ applied' = applied
      /\ schema' = schema /\ Codec(inner)' = Codec(inner)
  BY DEF InFlight, Codec
<1>3. applied # None => pc'[applied] = pc[applied] /\ call'[applied] = call[applied]
  BY <1>1
<1>4. \A e \in Calls : pc'[e] = "apply" => pc[e] = "apply" /\ call'[e] = call[e]
  OBVIOUS
<1> QED
  BY <1>1, <1>2, <1>3, <1>4 DEF Indexed

LEMMA StartKeeps ==
    ASSUME IInv, NEW c \in Calls, Start(c)
    PROVE  IInv'
<1>1. /\ TypeOK /\ Serving /\ Indexed /\ WhatIsSealedOpens /\ Called(c)
      /\ pc \in [Calls -> {"idle", "read", "seal", "apply", "waiting", "ended"}]
      /\ call \in [Calls -> CallType] /\ resets \in Nat
  BY DEF IInv, TypeOK
<1>2. /\ pc[c] = "idle" /\ inner # None
      /\ UNCHANGED <<mode, policy, served, cache, inner, build, keys, schema, sealed>>
  BY DEF Start
<1>3. PICK req \in RequestsOf[c] :
         /\ req.kind = "read" => mode # "sealer" /\ Stored(req.env)
         /\ req.kind = "apply" =>
              /\ mode = "cipher" /\ Stored(req.env) /\ Applying = {}
              /\ Overlapping \/ InFlight = {}
         /\ req.kind = "reset" => mode = "policy"
         /\ applied' = IF req.kind = "apply" THEN c ELSE applied
         /\ guard' = IF req.kind = "reset" THEN "armed" ELSE guard
         /\ resets' = IF req.kind = "reset" THEN resets + 1 ELSE resets
         /\ pc' = [pc EXCEPT ![c] = IF req.kind = "reset" THEN "ended" ELSE req.kind]
         /\ call' = [call EXCEPT ![c] = [Idle EXCEPT !.req = req, !.using = inner]]
  BY DEF Start
<1>4. req \in Requests /\ req.kind \in {"read", "seal", "apply", "reset"}
  BY RequestsTyped DEF Requests, RequestType
<1>5. inner \in Builds /\ build[inner].pc = "done"
  BY <1>1, <1>2 DEF Serving, TypeOK
<1> DEFINE n == [Idle EXCEPT !.req = req, !.using = inner]
           label == IF req.kind = "reset" THEN "ended" ELSE req.kind
<1>6. /\ n \in CallType /\ n.req = req /\ n.using = inner /\ n.tries = 0
  BY <1>4, <1>5 DEF CallType, Idle, Outs
<1>7. /\ label \in {"read", "seal", "apply", "ended"}
      /\ label = "ended" <=> req.kind = "reset"
      /\ label # "ended" => label = req.kind
  BY <1>4
<1>8. pc' = [pc EXCEPT ![c] = label] /\ call' = [call EXCEPT ![c] = n]
  BY <1>3
<1> HIDE DEF n, label
<1>9. /\ pc'[c] = label /\ call'[c] = n
      /\ \A e \in Calls \ {c} : pc'[e] = pc[e] /\ call'[e] = call[e]
  BY <1>1, <1>8
<1>10. TypeOK'
  <2>1. /\ pc' \in [Calls -> {"idle", "read", "seal", "apply", "waiting", "ended"}]
        /\ call' \in [Calls -> CallType]
    BY <1>1, <1>6, <1>7, <1>8
  <2>2. applied' \in Calls \union {None} /\ guard' \in {"armed", "running", "spent"}
        /\ resets' \in Nat
    BY <1>1, <1>3 DEF TypeOK
  <2> QED
    BY <1>1, <1>2, <2>1, <2>2 DEF TypeOK
<1>11. KeysRemember
  BY <1>2, KeysRemembered
<1>12. Called(c)'
  BY <1>1, <1>2, <1>3, <1>5, <1>6, <1>7, <1>9 DEF Called
<1>13. Told(c)'
  BY <1>6, <1>7, <1>9 DEF Told
<1>14. applied # None => applied \in Calls /\ applied # c
  BY <1>1, <1>2 DEF Serving, TypeOK
<1>15. Indexed'
  <2>1. CASE req.kind = "apply"
    <3>1. applied' = c /\ Applying = {} /\ (Overlapping \/ InFlight = {})
      BY <1>3, <2>1
    <3>2. InFlight' = InFlight
      BY <1>2 DEF InFlight
    <3>3. \A e \in Calls : pc'[e] = "apply" => e = c
      BY <1>9, <3>1 DEF Applying
    <3>4. pc'[c] # "ended" /\ call'[c].using = inner
      BY <1>6, <1>7, <1>9, <2>1
    <3> QED
      BY <1>2, <3>1, <3>2, <3>3, <3>4 DEF Indexed
  <2>2. CASE req.kind # "apply"
    <3>1. applied' = applied /\ applied # c /\ pc'[c] # "apply"
      BY <1>3, <1>7, <1>9, <1>14, <2>2, SettingTyped DEF Builds
    <3> QED
      BY <1>2, <1>9, <3>1, IndexStands
  <2> QED
    BY <2>1, <2>2
<1>16. WhatIsSealedOpens'
  BY <1>1, <1>2, Zenon DEF WhatIsSealedOpens, Lists
<1>17. \/ guard' = guard /\ resets' = resets
       \/ guard' = "armed" /\ mode # "cipher" /\ resets' = resets + 1
  BY <1>3
<1>18. \/ applied' = applied
       \/ applied' = c /\ mode = "cipher" /\ call'[c].req.kind = "apply"
  BY <1>3, <1>6, <1>9
<1>19. /\ pc'[c] # "idle" /\ pc'[c] # "waiting" /\ call'[c].using = inner
       /\ call'[c].tries = 0
  BY <1>6, <1>7, <1>9
<1> QED
  BY <1>2, <1>9, <1>10, <1>11, <1>12, <1>13, <1>15, <1>16, <1>17, <1>18, <1>19, CallMoved

LEMMA AppliedIs ==
    ASSUME IInv, NEW c \in Calls, pc[c] # "idle", call[c].req.kind # "apply"
    PROVE  applied # c
BY SettingTyped DEF IInv, Serving, TypeOK, Builds

LEMMA SealKeeps ==
    ASSUME IInv, NEW c \in Calls, Seal(c)
    PROVE  IInv'
<1> DEFINE b == call[c].using
           req == call[c].req
           s == [env |-> Sealed(Codec(b), req.slot, req.derives, req.slot.id),
                 slot |-> req.slot, at |-> build[b].got]
           n == [call[c] EXCEPT !.out = "ok"]
<1>1. /\ pc[c] = "seal" /\ sealed' = sealed \union {s}
      /\ pc' = [pc EXCEPT ![c] = "ended"] /\ call' = [call EXCEPT ![c] = n]
      /\ UNCHANGED <<mode, policy, served, cache, inner, applied, guard, resets,
                     build, keys, schema>>
  BY DEF Seal, End
<1>2. /\ TypeOK /\ Called(c) /\ WhatIsSealedOpens /\ Solo
      /\ pc \in [Calls -> {"idle", "read", "seal", "apply", "waiting", "ended"}]
      /\ call \in [Calls -> CallType]
  BY DEF IInv, TypeOK
<1>3. /\ b \in Builds /\ build[b].pc = "done" /\ build[b].got # 0
      /\ Codec(b).error = "ok" /\ call[c] \in CallType /\ inner # None
  BY <1>1, CipherOf
<1>4. /\ req.slot \in Slots /\ req.derives \in BOOLEAN /\ req.kind = "seal"
      /\ ~req.slot.collection => req.slot.id # None
  BY <1>1, <1>2, RequestOf DEF Called
<1>5. /\ n \in CallType /\ n.req = req /\ n.using = b /\ n.tries = call[c].tries
  BY <1>3 DEF CallType, Outs
<1>6. SealedOpens(s)
  <2> HIDE DEF b, req
  <2> QED
    BY <1>2, <1>3, <1>4, SealedOpensLater
<1> HIDE DEF s, n
<1>7. WhatIsSealedOpens'
  <2>1. \A t \in sealed : SealedOpens(t)
    BY <1>2, Zenon DEF WhatIsSealedOpens, SealedOpens
  <2>2. \A t \in sealed' : SealedOpens(t)
    BY <1>1, <1>6, <2>1
  <2> QED
    BY <2>2, Zenon DEF WhatIsSealedOpens, SealedOpens, Lists
<1>8. /\ pc'[c] = "ended" /\ call'[c] = n
      /\ \A e \in Calls \ {c} : pc'[e] = pc[e] /\ call'[e] = call[e]
  BY <1>1, <1>2
<1>9. TypeOK'
  <2>1. /\ pc' \in [Calls -> {"idle", "read", "seal", "apply", "waiting", "ended"}]
        /\ call' \in [Calls -> CallType]
    BY <1>1, <1>2, <1>5
  <2> QED
    BY <1>1, <1>2, <2>1 DEF TypeOK
<1>10. KeysRemember
  BY <1>1, KeysRemembered
<1>11. Called(c)'
  BY <1>1, <1>2, <1>3, <1>5, <1>8 DEF Called
<1>12. Told(c)'
  BY <1>4, <1>5, <1>8 DEF Told
<1>13. applied # c
  BY <1>1, <1>4, AppliedIs
<1>14. Indexed'
  BY <1>1, <1>3, <1>8, <1>13, IndexStands
<1>15. mode = "cipher" /\ guard # "spent" => call'[c].tries = 0
  BY <1>2, <1>5, <1>8 DEF Solo
<1>16. call'[c].req = call[c].req
  BY <1>5, <1>8
<1> QED
  BY <1>1, <1>3, <1>7, <1>8, <1>9, <1>10, <1>11, <1>12, <1>14, <1>15, <1>16, CallMoved

LEMMA ApplyKeeps ==
    ASSUME IInv, NEW c \in Calls, Apply(c)
    PROVE  IInv'
<1> DEFINE b == call[c].using
           req == call[c].req
<1>1. /\ pc[c] = "apply"
      /\ UNCHANGED <<mode, policy, served, cache, inner, applied, guard, resets, build, sealed>>
  BY DEF Apply
<1>2. /\ TypeOK /\ Called(c) /\ Indexed /\ WhatIsSealedOpens /\ Solo
      /\ pc \in [Calls -> {"idle", "read", "seal", "apply", "waiting", "ended"}]
      /\ call \in [Calls -> CallType] /\ schema \in [Builds -> Schemas \union {None}]
  BY DEF IInv, TypeOK
<1>3. /\ b \in Builds /\ build[b].pc = "done" /\ call[c] \in CallType /\ inner # None
  BY <1>1, CipherOf
<1>4. req.kind = "apply" /\ req.schema \in Schemas \union {None}
  BY <1>1, <1>2, RequestOf DEF Called
<1>5. \E out \in Outs :
        /\ End(c, out) /\ KeysRemember /\ schema' \in [Builds -> Schemas \union {None}]
        /\ Codec(b).blinding # None /\ out = "ok" => schema'[b] = req.schema
  <2>1. CASE Codec(b).blinding = None
    <3>1. End(c, "ok") /\ keys' = keys /\ schema' = schema
      BY <2>1 DEF Apply
    <3>2. "ok" \in Outs
      BY DEF Outs
    <3> QED
      BY <1>2, <2>1, <3>1, <3>2, KeysRemembered
  <2>2. CASE Codec(b).blinding # None
    <3>1. PICK opened \in Openings(b, req.env, req.slot) :
             /\ keys' = [keys EXCEPT ![b] = opened.keys]
             /\ schema' = IF opened.error # "ok" THEN schema
                          ELSE [schema EXCEPT ![b] = req.schema]
             /\ End(c, opened.error)
      BY <2>2 DEF Apply
    <3>2. KeysRemember /\ opened.error \in Outs
      BY <1>1, <3>1, CallOpens
    <3> HIDE DEF b, req
    <3>3. schema' \in [Builds -> Schemas \union {None}]
      BY <1>2, <1>3, <1>4, <3>1
    <3>4. opened.error = "ok" => schema'[b] = req.schema
      BY <1>2, <1>3, <3>1
    <3> QED
      BY <3>1, <3>2, <3>3, <3>4
  <2> QED
    BY <2>1, <2>2
<1>6. PICK out \in Outs :
        /\ End(c, out) /\ KeysRemember /\ schema' \in [Builds -> Schemas \union {None}]
        /\ Codec(b).blinding # None /\ out = "ok" => schema'[b] = req.schema
  BY <1>5
<1> DEFINE n == [call[c] EXCEPT !.out = out]
<1>7. pc' = [pc EXCEPT ![c] = "ended"] /\ call' = [call EXCEPT ![c] = n]
  BY <1>6 DEF End
<1>8. /\ n \in CallType /\ n.req = req /\ n.using = b /\ n.tries = call[c].tries
      /\ n.out = out
  BY <1>3 DEF CallType
<1> HIDE DEF n
<1>9. /\ pc'[c] = "ended" /\ call'[c] = n
      /\ \A e \in Calls \ {c} : pc'[e] = pc[e] /\ call'[e] = call[e]
  BY <1>2, <1>7
<1>10. TypeOK'
  <2>1. /\ pc' \in [Calls -> {"idle", "read", "seal", "apply", "waiting", "ended"}]
        /\ call' \in [Calls -> CallType]
    BY <1>2, <1>7, <1>8
  <2> QED
    BY <1>1, <1>2, <1>6, <2>1 DEF TypeOK, KeysRemember
<1>11. Called(c)'
  BY <1>1, <1>2, <1>3, <1>8, <1>9 DEF Called
<1>12. Told(c)'
  BY <1>4, <1>8, <1>9 DEF Told
<1>13. Indexed'
  <2> SUFFICES ASSUME ~Overlapping PROVE Indexed'
    BY DEF Indexed
  <2>1. c = applied /\ InFlight = {} /\ b = inner
    BY <1>1, <1>2 DEF Indexed
  <2>2. InFlight' = {} /\ Codec(inner)' = Codec(inner)
    BY <1>1, <2>1 DEF InFlight, Codec
  <2>3. \A e \in Calls : pc'[e] # "apply"
    BY <1>2, <1>9, <2>1 DEF Indexed
  <2>4. call'[applied].req = req /\ call'[applied].out = out
    BY <1>8, <1>9, <2>1
  <2>5. applied' = applied /\ inner' = inner
    BY <1>1
  <2> QED
    BY <1>6, <2>1, <2>2, <2>3, <2>4, <2>5 DEF Indexed
<1>14. WhatIsSealedOpens'
  BY <1>1, <1>2, Zenon DEF WhatIsSealedOpens, Lists
<1>15. mode = "cipher" /\ guard # "spent" => call'[c].tries = 0
  BY <1>2, <1>8, <1>9 DEF Solo
<1>16. call'[c].req = call[c].req
  BY <1>8, <1>9
<1> QED
  BY <1>1, <1>3, <1>6, <1>9, <1>10, <1>11, <1>12, <1>13, <1>14, <1>15, <1>16, CallMoved

(* A read that waits for nothing new: it ends, joins the refresh under way *)
(* or, once that is spent, reads again.                                    *)
LEMMA ReadMoved ==
    ASSUME IInv, NEW c \in Calls, pc[c] = "read", KeysRemember,
           UNCHANGED <<mode, policy, served, cache, inner, build, applied, guard, resets,
                       schema, sealed>>,
           NEW label \in {"ended", "read", "waiting"}, NEW n \in CallType,
           pc' = [pc EXCEPT ![c] = label], call' = [call EXCEPT ![c] = n],
           n.req = call[c].req,
           label = "ended" =>
             /\ n.using = call[c].using /\ n.tries = call[c].tries
             /\ ToldWhy(call[c].req, build[call[c].using].got, n.out, n.missed),
           label = "read" => mode = "cipher" /\ guard = "spent" /\ n.using = inner /\ n.tries = 1,
           label = "waiting" =>
             /\ mode = "cipher" /\ guard = "running" /\ n.using = call[c].using
             /\ n.tries = call[c].tries /\ n.awaits \in InFlight
             /\ Unlisted(call[c].req.env, build[call[c].using].got)
    PROVE  IInv'
<1>1. /\ TypeOK /\ Called(c) /\ WhatIsSealedOpens /\ Solo /\ Serving
      /\ pc \in [Calls -> {"idle", "read", "seal", "apply", "waiting", "ended"}]
      /\ call \in [Calls -> CallType]
  BY DEF IInv, TypeOK
<1>2. /\ call[c].using \in Builds /\ build[call[c].using].pc = "done" /\ inner # None
      /\ build[inner].pc = "done"
  BY CipherOf
<1>3. /\ pc'[c] = label /\ call'[c] = n
      /\ \A e \in Calls \ {c} : pc'[e] = pc[e] /\ call'[e] = call[e]
  BY <1>1
<1>4. call[c].req.kind = "read" /\ applied # c
  BY <1>1, AppliedIs DEF Called
<1>5. TypeOK'
  <2>1. /\ pc' \in [Calls -> {"idle", "read", "seal", "apply", "waiting", "ended"}]
        /\ call' \in [Calls -> CallType]
    BY <1>1
  <2> QED
    BY <1>1, <2>1 DEF TypeOK, KeysRemember
<1>6. mode = "cipher" /\ guard # "spent" => call[c].using = Boot /\ n.tries = 0
  <2> SUFFICES ASSUME mode = "cipher", guard # "spent"
               PROVE  call[c].using = Boot /\ n.tries = 0
    OBVIOUS
  <2>1. call[c].using = inner /\ inner \in {None, Boot} /\ call[c].tries = 0
    BY <1>1 DEF Solo
  <2> QED
    BY <1>2, <2>1
<1>7. Called(c)'
  <2>1. InFlight' = InFlight
    BY DEF InFlight
  <2>2. CASE label = "ended"
    BY <1>1, <1>2, <1>3, <2>2 DEF Called
  <2>3. CASE label = "read"
    BY <1>1, <1>2, <1>3, <2>3 DEF Called
  <2>4. CASE label = "waiting"
    BY <1>1, <1>2, <1>3, <2>1, <2>4 DEF Called
  <2> QED
    BY <2>2, <2>3, <2>4
<1>8. Told(c)'
  <2>1. build' = build
    OBVIOUS
  <2>2. CASE label = "ended"
    BY <1>3, <2>1, <2>2 DEF Told, ToldWhy, Deserved, Unlisted, Lists
  <2>3. CASE label = "read"
    BY <1>3, <2>3 DEF Told
  <2>4. CASE label = "waiting"
    BY <1>3, <2>1, <2>4 DEF Told, Unlisted, Lists
  <2> QED
    BY <2>2, <2>3, <2>4
<1>9. Indexed'
  BY <1>2, <1>3, <1>4, IndexStands
<1>10. WhatIsSealedOpens'
  BY <1>1, Zenon DEF WhatIsSealedOpens, Lists
<1>11. /\ pc'[c] # "idle" /\ call'[c].req = call[c].req
       /\ pc'[c] = "waiting" => guard = "running" /\ call'[c].using = Boot
       /\ pc'[c] = "read" => call'[c].using = inner
       /\ mode = "cipher" /\ guard # "spent" => call'[c].tries = 0
  BY <1>3, <1>6
<1> QED
  BY <1>2, <1>3, <1>5, <1>7, <1>8, <1>9, <1>10, <1>11, CallMoved

LEMMA Entering ==
    ASSUME NEW label \in {"acquire", "none"}
    PROVE  LET n == [NoBuild EXCEPT !.pc = label]
           IN /\ n \in BuildType /\ n.pc = label /\ n.got = 0 /\ n.answer = "none"
              /\ n.via = "none"
<1> DEFINE n == [NoBuild EXCEPT !.pc = label]
<1>1. 0 \in Versions
  BY ServedTyped DEF Versions
<1>2. /\ NoBuild \in BuildType /\ NoBuild.got = 0 /\ NoBuild.answer = "none"
      /\ NoBuild.via = "none"
  BY <1>1 DEF NoBuild, BuildType, Answers
<1>3. /\ n \in BuildType /\ n.pc = label /\ n.got = 0 /\ n.answer = "none" /\ n.via = "none"
  BY <1>2 DEF BuildType
<1> QED
  BY <1>3 DEF n

(* The read that asks for the refresh.                                     *)
LEMMA Refreshes ==
    ASSUME IInv, NEW c \in Calls, pc[c] = "read", KeysRemember, policy.present,
           UNCHANGED <<mode, policy, served, cache, inner, applied, resets, schema, sealed>>,
           Asks(c), Overlapping \/ Applying = {}, guard' = "running", build' = Entered(c),
           pc' = [pc EXCEPT ![c] = "waiting"], call' = [call EXCEPT ![c].awaits = c],
           Unlisted(call[c].req.env, build[call[c].using].got)
    PROVE  IInv'
<1>1. /\ TypeOK /\ Serving /\ Counted /\ Solo /\ Newer /\ Indexed /\ WhatIsSealedOpens
      /\ \A d \in Builds : Acquired(d) /\ Usable(d)
      /\ \A e \in Calls : Called(e) /\ Told(e)
      /\ pc \in [Calls -> {"idle", "read", "seal", "apply", "waiting", "ended"}]
      /\ call \in [Calls -> CallType] /\ build \in [Builds -> BuildType]
  BY DEF IInv, TypeOK
<1>2. /\ call[c].using \in Builds /\ build[call[c].using].pc = "done" /\ inner # None
      /\ inner \in Builds /\ build[inner].pc = "done" /\ call[c] \in CallType
  BY CipherOf
<1>3. Boot \notin Calls /\ None \notin Builds /\ Boot \in Builds /\ Calls \subseteq Builds
  BY SettingTyped DEF Builds
<1>4. build[c].pc = "none" /\ guard = "armed" /\ call[c].tries = 0 /\ c # inner
      /\ call[c].req.kind = "read" /\ mode # "sealer"
  BY <1>1, <1>2 DEF Called, Asks
<1>5. applied # c
  BY <1>4, AppliedIs
<1> DEFINE n == [NoBuild EXCEPT !.pc = "acquire"]
           m == [call[c] EXCEPT !.awaits = c]
<1>6. /\ n \in BuildType /\ n.pc = "acquire" /\ n.got = 0 /\ n.answer = "none"
      /\ n.via = "none"
  BY Entering
<1>7. /\ m \in CallType /\ m.req = call[c].req /\ m.using = call[c].using
      /\ m.tries = call[c].tries /\ m.awaits = c
  BY <1>2, <1>3 DEF CallType
<1>8. build' = [build EXCEPT ![c] = n] /\ call' = [call EXCEPT ![c] = m]
  BY DEF Entered
<1> HIDE DEF n, m
<1>9. /\ build'[c] = n /\ \A d \in Builds \ {c} : build'[d] = build[d]
      /\ pc'[c] = "waiting" /\ call'[c] = m
      /\ \A e \in Calls \ {c} : pc'[e] = pc[e] /\ call'[e] = call[e]
  BY <1>1, <1>3, <1>8
<1>10. TypeOK'
  <2>1. /\ pc' \in [Calls -> {"idle", "read", "seal", "apply", "waiting", "ended"}]
        /\ call' \in [Calls -> CallType]
    BY <1>1, <1>7, <1>8
  <2>2. build' \in [Builds -> BuildType]
    BY <1>1, <1>6, <1>8
  <2> QED
    BY <1>1, <2>1, <2>2 DEF TypeOK, KeysRemember
<1>11. InFlight' = InFlight \union {c} /\ c \notin InFlight
  <2>1. InFlight \subseteq Builds /\ InFlight' \subseteq Builds
    BY DEF InFlight
  <2>2. \A d \in Builds \ {c} : d \in InFlight' <=> d \in InFlight
    BY <1>9 DEF InFlight
  <2>3. c \in InFlight' /\ c \notin InFlight
    BY <1>3, <1>4, <1>6, <1>9 DEF InFlight
  <2> QED
    BY <1>3, <2>1, <2>2, <2>3
<1>12. mode = "cipher" => /\ InFlight = {} /\ inner = Boot
  <2> SUFFICES ASSUME mode = "cipher" PROVE InFlight = {} /\ inner = Boot
    OBVIOUS
  <2>1. inner = Boot
    BY <1>1, <1>2, <1>4 DEF Solo
  <2>2. \A d \in Calls : d \notin InFlight
    BY <1>1, <1>4 DEF Solo
  <2>3. Boot \notin InFlight
    BY <1>2, <2>1 DEF InFlight
  <2>4. InFlight \subseteq Builds
    BY DEF InFlight
  <2> QED
    BY <2>1, <2>2, <2>3, <2>4 DEF Builds
<1>13. \A d \in Builds : (Acquired(d) /\ Usable(d))'
  <2> SUFFICES ASSUME NEW d \in Builds PROVE (Acquired(d) /\ Usable(d))'
    OBVIOUS
  <2>1. CASE d = c
    <3>1. 0 <= served
      BY <1>1 DEF TypeOK, Versions
    <3> QED
      BY <1>6, <1>9, <2>1, <3>1 DEF Acquired, Usable, Holding
  <2>2. CASE d # c
    <3>1. build'[d] = build[d] /\ Acquired(d) /\ Usable(d) /\ build[d] \in BuildType
      BY <1>1, <1>9, <2>2
    <3>2. Acquired(d)'
      BY <3>1 DEF Acquired, Verified
    <3>3. Codec(d)' = Codec(d)
      BY <3>1 DEF Codec
    <3>4. build[d].pc \in {"replay", "done"} => Remembers(d)'
      BY <3>1 DEF KeysRemember, Remembers, Lists
    <3>5. build[d].pc = "replay" => pc'[build[d].meta] # "idle"
      <4> SUFFICES ASSUME build[d].pc = "replay" PROVE pc'[build[d].meta] # "idle"
        OBVIOUS
      <4>1. build[d].meta \in Calls /\ pc[build[d].meta] # "idle"
        BY <3>1 DEF Usable, BuildType
      <4> QED
        BY <1>9, <4>1
    <3>6. Usable(d)'
      BY <3>1, <3>3, <3>4, <3>5 DEF Usable
    <3> QED
      BY <3>2, <3>6
  <2> QED
    BY <2>1, <2>2
<1>14. applied # None => /\ applied \in Calls \ {c} /\ mode = "cipher" /\ pc[applied] # "idle"
                         /\ call[applied].req.kind = "apply"
                         /\ pc'[applied] = pc[applied] /\ call'[applied] = call[applied]
  <2>1. applied # None => /\ applied \in Calls \ {c} /\ mode = "cipher" /\ pc[applied] # "idle"
                          /\ call[applied].req.kind = "apply"
    BY <1>1, <1>5 DEF Serving, TypeOK
  <2> QED
    BY <1>9, <2>1
<1>15. Serving'
  <2>1. build'[inner] = build[inner] /\ build'[Boot] = build[Boot]
    BY <1>2, <1>3, <1>4, <1>9
  <2> QED
    BY <1>1, <1>2, <1>14, <2>1 DEF Serving
<1>16. Counted'
  <2>1. Spending' = Spending \union {c} /\ c \notin Spending
    BY <1>3, <1>4, <1>6, <1>9 DEF Spending
  <2>2. IsFiniteSet(Spending) /\ IsFiniteSet(Spending')
        /\ Cardinality(Spending') = Cardinality(Spending) + 1
    BY <1>1, <2>1, FS_AddElement DEF Counted
  <2>3. Cardinality(Spending) \in Nat /\ resets \in Nat
    BY <1>1, <2>2, FS_CardinalityType DEF TypeOK
  <2>4. Cardinality(Spending) <= resets
    BY <1>1, <1>4, <2>3 DEF Counted
  <2> QED
    BY <2>2, <2>3, <2>4 DEF Counted
<1>17. Solo'
  <2> SUFFICES ASSUME mode = "cipher" PROVE Solo'
    BY DEF Solo
  <2>1. InFlight' = {c} /\ inner = Boot
    BY <1>11, <1>12
  <2>2. \A e \in Calls : call'[e].tries = 0
    BY <1>1, <1>4, <1>7, <1>9 DEF Solo
  <2>3. ASSUME NEW e \in Calls, pc'[e] = "waiting" PROVE call'[e].using = Boot
    <3>1. CASE e = c
      BY <1>1, <1>4, <1>7, <1>9, <2>1, <3>1 DEF Solo
    <3>2. CASE e # c
      BY <1>1, <1>9, <2>3, <3>2 DEF Solo
    <3> QED
      BY <3>1, <3>2
  <2>4. ASSUME NEW e \in Calls, pc'[e] = "read" PROVE call'[e].using = inner
    BY <1>1, <1>4, <1>9, <2>4 DEF Solo
  <2>5. c \in Calls /\ guard' = "running" /\ inner' = inner
    OBVIOUS
  <2> QED
    BY <2>1, <2>2, <2>3, <2>4, <2>5 DEF Solo
<1>18. Newer'
  <2> SUFFICES ASSUME mode = "cipher" PROVE Newer'
    BY DEF Newer
  <2>1. InFlight' = {c} /\ build'[inner] = build[inner]
    BY <1>2, <1>4, <1>9, <1>11, <1>12
  <2> QED
    BY <1>1, <1>6, <1>9, <2>1 DEF Newer
<1>19. Indexed'
  <2> SUFFICES ASSUME ~Overlapping PROVE Indexed'
    BY DEF Indexed
  <2>1. \A e \in Calls : pc'[e] # "apply"
    BY <1>9 DEF Applying
  <2>2. Codec(inner)' = Codec(inner)
    BY <1>2, <1>4, <1>9 DEF Codec
  <2>3. \A d \in InFlight' : build'[d].pc = "replay" => build'[d].meta = applied
    <3>1. InFlight \subseteq Builds
      BY DEF InFlight
    <3> QED
      BY <1>1, <1>6, <1>9, <1>11, <3>1 DEF Indexed
  <2> QED
    BY <1>1, <1>14, <2>1, <2>2, <2>3 DEF Indexed
<1>20. ASSUME NEW e \in Calls PROVE Called(e)' /\ Told(e)'
  <2>1. Called(e) /\ Told(e) /\ e \in Builds
    BY <1>1, <1>3
  <2>2. pc[e] # "idle" => build'[call[e].using] = build[call[e].using]
                          /\ build[call[e].using].pc = "done"
    <3> SUFFICES ASSUME pc[e] # "idle"
                 PROVE  build'[call[e].using] = build[call[e].using]
                        /\ build[call[e].using].pc = "done"
      OBVIOUS
    <3>1. call[e].using \in Builds /\ build[call[e].using].pc = "done"
      BY CipherOf
    <3> QED
      BY <1>4, <1>9, <3>1
  <2>3. CASE e = c
    <3>1. Called(e)'
      BY <1>4, <1>7, <1>9, <1>11, <2>1, <2>2, <2>3 DEF Called
    <3>2. Told(e)'
      BY <1>7, <1>9, <2>2, <2>3 DEF Told, Unlisted, Lists
    <3> QED
      BY <3>1, <3>2
  <2>4. CASE e # c
    <3>1. pc'[e] = pc[e] /\ call'[e] = call[e] /\ build'[e] = build[e]
      BY <1>3, <1>9, <2>4
    <3>2. Called(e)'
      BY <1>11, <2>1, <2>2, <3>1 DEF Called
    <3>3. Told(e)'
      BY <2>1, <2>2, <3>1 DEF Told, ToldWhy, Deserved, Unlisted, Lists
    <3> QED
      BY <3>2, <3>3
  <2> QED
    BY <2>3, <2>4
<1>21. WhatIsSealedOpens'
  BY <1>1, Zenon DEF WhatIsSealedOpens, Lists
<1> QED
  BY <1>10, <1>13, <1>15, <1>16, <1>17, <1>18, <1>19, <1>20, <1>21 DEF IInv

LEMMA ReadKeeps ==
    ASSUME IInv, NEW c \in Calls, Read(c)
    PROVE  IInv'
<1>1. /\ pc[c] = "read"
      /\ UNCHANGED <<mode, policy, served, cache, inner, applied, resets, schema, sealed>>
  BY DEF Read
<1>2. PICK opened \in Openings(call[c].using, call[c].req.env, call[c].req.slot) :
         /\ keys' = [keys EXCEPT ![call[c].using] = opened.keys]
         /\ IF opened.error = "UnknownEpoch" /\ policy.present
            THEN Refresh(c)
            ELSE /\ pc' = [pc EXCEPT ![c] = "ended"]
                 /\ call' = [call EXCEPT ![c].out = opened.error, ![c].missed = opened.missed]
                 /\ UNCHANGED <<guard, build>>
  BY DEF Read
<1>3. /\ TypeOK /\ Called(c) /\ Solo /\ call[c] \in CallType
      /\ guard \in {"armed", "running", "spent"}
  BY DEF IInv, TypeOK
<1>4. /\ KeysRemember /\ opened.error \in Outs /\ opened.missed \in BOOLEAN
      /\ opened.error = "UnknownEpoch" =>
           Unlisted(call[c].req.env, build[call[c].using].got)
      /\ ToldWhy(call[c].req, build[call[c].using].got, opened.error, opened.missed)
  <2>1. call[c].req.kind = "read"
    BY <1>1, <1>3 DEF Called
  <2> QED
    BY <1>1, <1>2, <2>1, CallOpens
<1>5. CASE ~(opened.error = "UnknownEpoch" /\ policy.present)
  <2> DEFINE n == [call[c] EXCEPT !.out = opened.error, !.missed = opened.missed]
  <2>1. /\ pc' = [pc EXCEPT ![c] = "ended"] /\ call' = [call EXCEPT ![c] = n]
        /\ guard' = guard /\ build' = build
    BY <1>2, <1>5
  <2>2. /\ n \in CallType /\ n.req = call[c].req /\ n.using = call[c].using
        /\ n.tries = call[c].tries /\ n.out = opened.error /\ n.missed = opened.missed
    BY <1>3, <1>4 DEF CallType
  <2> HIDE DEF n
  <2> QED
    BY <1>1, <1>4, <2>1, <2>2, ReadMoved
<1>6. CASE opened.error = "UnknownEpoch" /\ policy.present
  <2>1. Refresh(c) /\ Unlisted(call[c].req.env, build[call[c].using].got)
    BY <1>2, <1>4, <1>6
  <2>2. CASE Asks(c) /\ (Overlapping \/ Applying = {})
    BY <1>1, <1>4, <1>6, <2>1, <2>2, Refreshes DEF Refresh
  <2>3. CASE /\ ~Asks(c) /\ mode = "cipher" /\ call[c].tries = 0
             /\ IF guard = "running"
                THEN /\ pc' = [pc EXCEPT ![c] = "waiting"]
                     /\ call' = [call EXCEPT ![c].awaits = CHOOSE b \in InFlight : TRUE]
                ELSE /\ call' = [call EXCEPT ![c].tries = 1, ![c].using = inner]
                     /\ UNCHANGED pc
             /\ UNCHANGED <<guard, build>>
    <3>1. guard \in {"running", "spent"}
      BY <1>3, <2>3 DEF Asks
    <3>2. CASE guard = "running"
      <4> DEFINE b == CHOOSE b \in InFlight : TRUE
                 n == [call[c] EXCEPT !.awaits = b]
      <4>1. b \in InFlight /\ b \in Builds
        <5>1. InFlight # {} /\ InFlight \subseteq Builds
          BY <1>3, <2>3, <3>2 DEF Solo, InFlight
        <5> QED
          BY <5>1
      <4>2. pc' = [pc EXCEPT ![c] = "waiting"] /\ call' = [call EXCEPT ![c] = n]
        BY <2>3, <3>2
      <4> HIDE DEF b
      <4>3. /\ n \in CallType /\ n.req = call[c].req /\ n.using = call[c].using
            /\ n.tries = call[c].tries /\ n.awaits = b
        BY <1>3, <4>1 DEF CallType
      <4> HIDE DEF n
      <4> QED
        BY <1>1, <1>4, <2>1, <2>3, <3>2, <4>1, <4>2, <4>3, ReadMoved
    <3>3. CASE guard = "spent"
      <4> DEFINE n == [call[c] EXCEPT !.tries = 1, !.using = inner]
      <4>1. inner \in Builds
        BY <1>1, CipherOf
      <4>2. call' = [call EXCEPT ![c] = n] /\ pc' = pc
        BY <2>3, <3>3
      <4>3. pc' = [pc EXCEPT ![c] = "read"]
        BY <1>1, <1>3, <4>2 DEF TypeOK
      <4>4. /\ n \in CallType /\ n.req = call[c].req /\ n.using = inner /\ n.tries = 1
        BY <1>3, <4>1 DEF CallType
      <4> HIDE DEF n
      <4> QED
        BY <1>1, <1>4, <2>3, <3>3, <4>2, <4>3, <4>4, ReadMoved
    <3> QED
      BY <3>1, <3>2, <3>3
  <2>4. CASE /\ ~Asks(c) /\ (mode = "policy" \/ call[c].tries = 1)
             /\ End(c, "UnknownEpoch")
             /\ UNCHANGED <<guard, build>>
    <3> DEFINE n == [call[c] EXCEPT !.out = "UnknownEpoch"]
    <3>1. pc' = [pc EXCEPT ![c] = "ended"] /\ call' = [call EXCEPT ![c] = n]
      BY <2>4 DEF End
    <3>2. /\ n \in CallType /\ n.req = call[c].req /\ n.using = call[c].using
          /\ n.tries = call[c].tries /\ n.out = "UnknownEpoch"
      BY <1>3 DEF CallType, Outs
    <3> HIDE DEF n
    <3>3. ToldWhy(call[c].req, build[call[c].using].got, n.out, n.missed)
      <4>1. Honest(call[c].req.env) =>
              ~Lists(build[call[c].using].got, call[c].req.env.key)
        BY <2>1 DEF Honest, Unlisted
      <4> QED
        BY <3>2, <4>1, DeservedUnlisted DEF ToldWhy
    <3> QED
      BY <1>1, <1>4, <2>4, <3>1, <3>2, <3>3, ReadMoved
  <2> QED
    BY <2>1, <2>2, <2>3, <2>4 DEF Refresh
<1> QED
  BY <1>5, <1>6

LEMMA RotateKeeps ==
    ASSUME IInv, Rotate
    PROVE  IInv'
<1>1. /\ served' = served + 1 /\ served < Len(Served)
      /\ UNCHANGED <<mode, policy, cache, inner, applied, guard, resets, build, keys,
                     schema, sealed, pc, call>>
  BY DEF Rotate
<1>2. /\ TypeOK /\ Serving /\ Counted /\ Solo /\ Newer /\ Indexed /\ WhatIsSealedOpens
      /\ \A d \in Builds : Acquired(d) /\ Usable(d)
      /\ \A c \in Calls : Called(c) /\ Told(c)
  BY DEF IInv
<1>3. served' \in Versions /\ served \in Nat /\ cache \in Nat
  BY <1>1, <1>2, ServedTyped DEF TypeOK, Versions
<1>4. TypeOK'
  BY <1>1, <1>2, <1>3 DEF TypeOK
<1>5. InFlight' = InFlight /\ Spending' = Spending
  BY <1>1 DEF InFlight, Spending
<1>6. Serving'
  BY <1>1, <1>2, <1>3 DEF Serving
<1>7. Counted'
  BY <1>1, <1>2, <1>5 DEF Counted
<1>8. Solo' /\ Newer'
  BY <1>1, <1>2, <1>5 DEF Solo, Newer
<1>9. Indexed'
  BY <1>1, <1>2, <1>5 DEF Indexed, Codec
<1>10. ASSUME NEW d \in Builds PROVE Acquired(d)' /\ Usable(d)'
  <2>1. build[d].got \in Nat /\ build[d].got <= served /\ Acquired(d) /\ Usable(d)
    BY <1>2, BuildTyped DEF Acquired
  <2>2. Acquired(d)'
    BY <1>1, <1>3, <2>1 DEF Acquired, Verified
  <2>3. Codec(d)' = Codec(d) /\ (Remembers(d) => Remembers(d)')
    BY <1>1 DEF Codec, Remembers, Lists
  <2>4. Usable(d)'
    BY <1>1, <2>1, <2>3 DEF Usable
  <2> QED
    BY <2>2, <2>4
<1>11. ASSUME NEW c \in Calls PROVE Called(c)' /\ Told(c)'
  <2>1. Called(c)'
    BY <1>1, <1>2, <1>5 DEF Called
  <2>2. Told(c)'
    BY <1>1, <1>2 DEF Told, ToldWhy, Deserved, Unlisted, Lists
  <2> QED
    BY <2>1, <2>2
<1>12. WhatIsSealedOpens'
  BY <1>1, <1>2, Zenon DEF WhatIsSealedOpens, Lists
<1> QED
  BY <1>4, <1>6, <1>7, <1>8, <1>9, <1>10, <1>11, <1>12 DEF IInv

LEMMA InitHolds ==
    ASSUME Init
    PROVE  IInv
<1>1. Boot \notin Calls /\ None \notin Builds /\ Boot \in Builds /\ Calls \subseteq Builds
      /\ 0 \in Versions /\ 1 \in Versions /\ Cached \subseteq Versions
      /\ Modes \subseteq {"cipher", "policy", "sealer"} /\ Policies \subseteq PolicyType
  BY SettingTyped, ServedTyped DEF Builds, Versions
<1>2. \A b \in Builds : /\ build[b] \in BuildType /\ build[b].got = 0
                        /\ build[b].answer = "none" /\ build[b].via = "none"
                        /\ build[b].pc = IF b = Boot THEN "acquire" ELSE "none"
  <2> SUFFICES ASSUME NEW b \in Builds
               PROVE  /\ build[b] \in BuildType /\ build[b].got = 0
                      /\ build[b].answer = "none" /\ build[b].via = "none"
                      /\ build[b].pc = IF b = Boot THEN "acquire" ELSE "none"
    OBVIOUS
  <2> DEFINE label == IF b = Boot THEN "acquire" ELSE "none"
  <2>1. build[b] = [NoBuild EXCEPT !.pc = label]
    BY DEF Init
  <2>2. label \in {"acquire", "none"}
    OBVIOUS
  <2> HIDE DEF label
  <2>3. /\ build[b] \in BuildType /\ build[b].got = 0 /\ build[b].answer = "none"
        /\ build[b].via = "none" /\ build[b].pc = label
    BY <2>1, <2>2, Entering
  <2> QED
    BY <2>3 DEF label
<1>3. /\ inner = None /\ applied = None /\ guard = "armed" /\ resets = 0 /\ sealed = {}
      /\ mode \in Modes /\ policy \in Policies /\ served \in {0, 1} /\ cache \in Cached
      /\ cache <= served /\ (mode # "cipher" => policy.present)
      /\ \A c \in Calls : pc[c] = "idle" /\ call[c] = Idle
  BY DEF Init
<1>4. Idle \in CallType /\ Idle.tries = 0
  BY DEF Idle, CallType, Outs
<1>5. TypeOK
  <2>1. NoKeys \in [Mints -> Unwrapped]
    BY DEF NoKeys, Unwrapped
  <2>2. build = [b \in Builds |-> build[b]]
    BY DEF Init
  <2>3. build \in [Builds -> BuildType]
    BY <1>2, <2>2
  <2>4. /\ keys \in [Builds -> [Mints -> Unwrapped]]
        /\ schema \in [Builds -> Schemas \union {None}]
        /\ pc \in [Calls -> {"idle", "read", "seal", "apply", "waiting", "ended"}]
        /\ call \in [Calls -> CallType]
    BY <1>4, <2>1 DEF Init
  <2> QED
    BY <1>1, <1>3, <2>3, <2>4 DEF TypeOK
<1>6. InFlight = {Boot} /\ Spending = {}
  BY <1>1, <1>2 DEF InFlight, Spending
<1>7. Serving
  BY <1>1, <1>2, <1>3 DEF Serving
<1>8. Counted
  BY <1>3, <1>6, FS_EmptySet DEF Counted
<1>9. Solo /\ Newer
  BY <1>1, <1>2, <1>3, <1>4, <1>6 DEF Solo, Newer
<1>10. Indexed
  BY <1>1, <1>2, <1>3, <1>6 DEF Indexed
<1>11. \A b \in Builds : Acquired(b) /\ Usable(b)
  <2>1. 0 <= served
    BY <1>3
  <2> QED
    BY <1>2, <2>1 DEF Acquired, Usable, Holding
<1>12. \A c \in Calls : Called(c) /\ Told(c)
  BY <1>1, <1>2, <1>3 DEF Called, Told
<1>13. WhatIsSealedOpens
  BY <1>3 DEF WhatIsSealedOpens
<1> QED
  BY <1>5, <1>7, <1>8, <1>9, <1>10, <1>11, <1>12, <1>13 DEF IInv

LEMMA StepKeeps ==
    ASSUME IInv, [Next]_vars
    PROVE  IInv'
<1>1. CASE Rotate
  BY <1>1, RotateKeeps
<1>2. ASSUME NEW b \in Builds, Build(b) PROVE IInv'
  BY <1>2, BuildKeeps
<1>3. ASSUME NEW c \in Calls, Step(c) PROVE IInv'
  BY <1>3, StartKeeps, ReadKeeps, SealKeeps, ApplyKeeps DEF Step
<1>4. ASSUME UNCHANGED vars PROVE IInv'
  <2>1. /\ mode' = mode /\ policy' = policy /\ served' = served /\ cache' = cache
        /\ inner' = inner /\ applied' = applied /\ guard' = guard /\ resets' = resets
        /\ build' = build /\ keys' = keys /\ schema' = schema /\ sealed' = sealed
        /\ pc' = pc /\ call' = call
    BY <1>4 DEF vars
  <2>2. InFlight' = InFlight /\ Spending' = Spending
    BY <2>1 DEF InFlight, Spending
  <2>3. /\ TypeOK' /\ Serving' /\ Counted' /\ Solo' /\ Newer'
    BY <2>1, <2>2 DEF IInv, TypeOK, Serving, Counted, Solo, Newer
  <2>4. Indexed'
    BY <2>1, <2>2 DEF IInv, Indexed, Codec
  <2>5. \A d \in Builds : Acquired(d)' /\ Usable(d)'
    BY <2>1 DEF IInv, Acquired, Verified, Usable, Codec, Remembers, Lists
  <2>6. ASSUME NEW c \in Calls PROVE Called(c)' /\ Told(c)'
    <3>1. Called(c) /\ Told(c)
      BY DEF IInv
    <3>2. Called(c)'
      BY <2>1, <2>2, <3>1 DEF Called
    <3>3. Told(c)'
      BY <2>1, <3>1 DEF Told, ToldWhy, Deserved, Unlisted, Lists
    <3> QED
      BY <3>2, <3>3
  <2>7. WhatIsSealedOpens'
    BY <2>1, Zenon DEF IInv, WhatIsSealedOpens, Lists
  <2> QED
    BY <2>3, <2>4, <2>5, <2>6, <2>7 DEF IInv
<1> QED
  BY <1>1, <1>2, <1>3, <1>4 DEF Next, Quiet
-----------------------------------------------------------------------------
(* The invariant, and what follows from it.                                *)

THEOREM Inductive == Spec => []IInv
<1>1. Init => IInv
  BY InitHolds
<1>2. IInv /\ [Next]_vars => IInv'
  BY StepKeeps
<1> QED
  BY <1>1, <1>2, PTL DEF Spec

(* Whatever a client seals opens for a reader of its epoch where it was    *)
(* sealed for and nowhere else, from every later descriptor, and a read    *)
(* that is refused is told which of a stale descriptor, no membership or   *)
(* tampering it was (docCipher.ts, EdvCodec.ts).                           *)
THEOREM OpenedWhereSealed == Spec => []OpensWhereSealed
<1>1. IInv => OpensWhereSealed
  <2> SUFFICES ASSUME IInv PROVE RefusalsTellWhy
    BY DEF IInv, OpensWhereSealed
  <2>1. ASSUME NEW c \in Calls, pc[c] = "ended", call[c].req.kind = "read"
        PROVE  ToldWhy(call[c].req, build[call[c].using].got, call[c].out, call[c].missed)
    BY <2>1 DEF IInv, Told
  <2> QED
    BY <2>1 DEF RefusalsTellWhy, ToldWhy
<1> QED
  BY <1>1, Inductive, PTL

(* One refresh per session, whatever reads fail together; what a build     *)
(* adopts was verified where the host or the descriptor asks for it, and a *)
(* refused log is never papered over by the cache (refreshingDocCipher.ts, *)
(* acquire.ts).                                                            *)
THEOREM RefreshedSoundly == Spec => []RefreshesAreSound
<1>1. IInv => RefreshesAreSound
  <2> SUFFICES ASSUME IInv PROVE OneRefresh /\ AdoptedIsVerified
    BY DEF RefreshesAreSound
  <2> DEFINE Done == {b \in Calls : build[b].pc = "done"}
  <2>1. TypeOK /\ Counted /\ \A b \in Builds : Acquired(b)
    BY DEF IInv
  <2>2. Done \subseteq Spending
    BY DEF Spending
  <2> HIDE DEF Done
  <2>3. /\ IsFiniteSet(Spending) /\ IsFiniteSet(Done)
        /\ Cardinality(Done) <= Cardinality(Spending)
    BY <2>1, <2>2, FS_Subset DEF Counted
  <2>4. Cardinality(Done) \in Nat /\ Cardinality(Spending) \in Nat /\ resets \in Nat
    BY <2>1, <2>3, FS_CardinalityType DEF TypeOK
  <2>5. Cardinality(Spending) <= 1 + resets
    BY <2>1, <2>4 DEF Counted
  <2>6. OneRefresh
    BY <2>1, <2>3, <2>4, <2>5 DEF OneRefresh, Counted, Done
  <2>7. AdoptedIsVerified
    BY <2>1 DEF AdoptedIsVerified, Acquired, Verified, Holding
  <2> QED
    BY <2>6, <2>7
<1> QED
  BY <1>1, Inductive, PTL

(* Unless metadata is applied while a refresh is under way, the index      *)
(* schema applied last is in force once nothing is under way, across any   *)
(* refresh in between (refreshingDocCipher.ts).                            *)
THEOREM IndexSchemaKept ==
    ASSUME ~Overlapping
    PROVE  Spec => []KeepsIndexSchema
<1>1. IInv => KeepsIndexSchema
  <2> SUFFICES ASSUME IInv, applied # None, Applying = {}, call[applied].out = "ok",
                      Codec(inner).blinding # None
               PROVE  schema[inner] = call[applied].req.schema
    BY DEF KeepsIndexSchema
  <2>1. TypeOK /\ Serving /\ Indexed /\ \A c \in Calls : Called(c)
    BY DEF IInv
  <2>2. applied \in Calls /\ pc[applied] # "idle" /\ call[applied].req.kind = "apply"
    BY <2>1 DEF Serving, TypeOK
  <2>3. pc[applied] \in {"idle", "read", "seal", "apply", "waiting", "ended"}
    BY <2>1, <2>2 DEF TypeOK
  <2>4. pc[applied] = "ended"
    BY <2>1, <2>2, <2>3 DEF Called, Applying
  <2> QED
    BY <2>1, <2>4 DEF Indexed
<1> QED
  BY <1>1, Inductive, PTL

LEMMA BuildSteps ==
    ASSUME IInv, NEW b \in Builds, Build(b)
    PROVE  /\ build[b].pc \in Moving /\ mode' = mode
           /\ \/ Fail(b)
              \/ /\ build[b].pc \in {"derive", "replay"}
                 /\ \E reachable, installed : Complete(b, reachable, installed)
              \/ /\ UNCHANGED <<inner, call>>
                 /\ \A d \in Builds \ {b} : build'[d] = build[d]
<1>1. build \in [Builds -> BuildType] /\ mode' = mode
  BY DEF IInv, TypeOK, Build
<1>2. CASE Acquire(b)
  BY <1>1, <1>2 DEF Acquire, Await, Moving
<1>3. CASE Settle(b)
  BY <1>1, <1>3 DEF Settle, Await, Moving
<1>4. CASE Keep(b)
  BY <1>1, <1>4 DEF Keep, Moving
<1>5. CASE Fallback(b)
  BY <1>1, <1>5 DEF Fallback, Moving
<1>6. CASE Derive(b)
  BY <1>1, <1>6 DEF Derive, Moving
<1>7. CASE Replay(b)
  BY <1>1, <1>7 DEF Replay, Moving
<1> QED
  BY <1>2, <1>3, <1>4, <1>5, <1>6, <1>7 DEF Build

(* What KeepsUp asks of one step.                                          *)
ToldUpToDate ==
    \A c \in Calls :
      call'[c].out = "UnknownEpoch" /\ call[c].out # "UnknownEpoch"
      /\ call[c].req.kind = "read" =>
        \A id \in call[c].req.env.kids : ~Lists(build'[inner'].got, id)

LEMMA BuildKeepsUp ==
    ASSUME IInv, mode = "cipher", NEW b \in Builds, Build(b)
    PROVE  ToldUpToDate /\ (inner # None => build'[inner'].got >= build[inner].got)
<1>1. /\ TypeOK /\ Serving /\ Solo /\ Newer /\ \A c \in Calls : Called(c) /\ Told(c)
      /\ build \in [Builds -> BuildType]
  BY DEF IInv, TypeOK
<1>2. build[b].pc \in Moving /\ b \in InFlight /\ b # inner
  BY BuildSteps, InFlightAlone
<1>3. inner # None => inner \in Builds \ {b} /\ build[inner].got \in Nat
  BY <1>1, <1>2, BuildTyped DEF TypeOK
<1>4. CASE UNCHANGED <<inner, call>> /\ \A d \in Builds \ {b} : build'[d] = build[d]
  BY <1>3, <1>4 DEF ToldUpToDate
<1>5. CASE Fail(b)
  <2>1. inner' = inner /\ \A d \in Builds \ {b} : build'[d] = build[d]
    BY <1>1, <1>5 DEF Fail, Await
  <2>2. ASSUME NEW c \in Calls, call'[c].out = "UnknownEpoch", call[c].out # "UnknownEpoch",
               NEW id \in call[c].req.env.kids
        PROVE  ~Lists(build'[inner'].got, id)
    <3>1. c \in Waiting(b)
      BY <1>5, <2>2 DEF Fail
    <3>2. pc[c] = "waiting"
      BY <3>1 DEF Waiting
    <3>3. guard = "running" /\ call[c].using = Boot /\ inner \in {None, Boot}
      BY <1>1, <3>2 DEF Solo
    <3>4. call[c].using = inner /\ inner # None
      BY <1>1, <3>2, <3>3 DEF Serving
    <3>5. ~Lists(build[inner].got, id)
      BY <1>1, <2>2, <3>2, <3>4 DEF Told, Unlisted
    <3> QED
      BY <1>3, <2>1, <3>4, <3>5
  <2> QED
    BY <1>3, <2>1, <2>2 DEF ToldUpToDate
<1>6. ASSUME build[b].pc \in {"derive", "replay"}, NEW reachable, NEW installed,
             Complete(b, reachable, installed)
      PROVE  ToldUpToDate /\ (inner # None => build'[inner'].got >= build[inner].got)
  <2> DEFINE n == [build[b] EXCEPT !.pc = "done", !.reachable = reachable]
  <2>1. inner' = b /\ build' = [build EXCEPT ![b] = n]
    BY <1>6 DEF Complete
  <2>2. n.got = build[b].got
    BY <1>1 DEF BuildType
  <2> HIDE DEF n
  <2>3. build'[b].got = build[b].got
    BY <1>1, <2>1, <2>2
  <2>4. build[b].got = cache /\ cache \in Nat
    BY <1>1, <1>2, <1>6, BuildTyped DEF Newer, TypeOK
  <2>5. inner # None => build[inner].got <= cache
    BY <1>1 DEF Newer
  <2>6. \A c \in Calls : call'[c].out = call[c].out
    <3> SUFFICES ASSUME NEW c \in Calls PROVE call'[c].out = call[c].out
      OBVIOUS
    <3> DEFINE m == [call[c] EXCEPT !.tries = 1, !.using = RetryCipher(c, b)]
    <3>1. call'[c] = m \/ call'[c] = call[c]
      BY <1>6 DEF Complete
    <3>2. m.out = call[c].out
      BY <1>1 DEF TypeOK, CallType
    <3> QED
      BY <3>1, <3>2
  <2> QED
    BY <1>3, <2>1, <2>3, <2>4, <2>5, <2>6 DEF ToldUpToDate
<1> QED
  BY <1>4, <1>5, <1>6, BuildSteps

LEMMA CallKeepsUp ==
    ASSUME IInv, mode = "cipher", NEW c \in Calls, Step(c)
    PROVE  ToldUpToDate /\ (inner # None => build'[inner'].got >= build[inner].got)
<1>1. /\ TypeOK /\ Serving /\ Solo /\ Called(c) /\ Told(c)
      /\ build \in [Builds -> BuildType] /\ call \in [Calls -> CallType]
      /\ call[c] \in CallType
  BY DEF IInv, TypeOK
<1>2. inner # None => inner \in Builds /\ build[inner].got \in Nat
  BY <1>1, BuildTyped DEF TypeOK
<1>3. CASE Start(c)
  <2>1. inner' = inner /\ build' = build /\ pc[c] = "idle"
    BY <1>3 DEF Start
  <2>2. \A e \in Calls : call'[e] = call[e] \/ call'[e].out = "none"
    BY <1>1, <1>3 DEF Start, Idle
  <2> QED
    BY <1>2, <2>1, <2>2 DEF ToldUpToDate
<1>4. CASE Seal(c)
  <2>1. inner' = inner /\ build' = build /\ End(c, "ok")
    BY <1>4 DEF Seal
  <2>2. \A e \in Calls : call'[e] = call[e] \/ call'[e].out = "ok"
    BY <1>1, <2>1 DEF End, CallType
  <2> QED
    BY <1>2, <2>1, <2>2 DEF ToldUpToDate
<1>5. CASE Apply(c)
  <2>1. inner' = inner /\ build' = build /\ call[c].req.kind = "apply"
    BY <1>1, <1>5 DEF Apply, Called
  <2>2. \A e \in Calls \ {c} : call'[e] = call[e]
    BY <1>1, <1>5 DEF Apply, End
  <2> QED
    BY <1>2, <2>1, <2>2 DEF ToldUpToDate
<1>6. CASE Read(c)
  <2>1. pc[c] = "read" /\ inner' = inner
    BY <1>6 DEF Read
  <2>2. /\ call[c].using \in Builds /\ inner # None /\ inner \in Builds
        /\ build[inner].pc = "done"
    BY <2>1, CipherOf
  <2>3. PICK opened \in Openings(call[c].using, call[c].req.env, call[c].req.slot) :
          /\ keys' = [keys EXCEPT ![call[c].using] = opened.keys]
          /\ IF opened.error = "UnknownEpoch" /\ policy.present
             THEN Refresh(c)
             ELSE /\ pc' = [pc EXCEPT ![c] = "ended"]
                  /\ call' = [call EXCEPT ![c].out = opened.error, ![c].missed = opened.missed]
                  /\ UNCHANGED <<guard, build>>
    BY <1>6 DEF Read
  <2>4. opened.error = "UnknownEpoch" => Unlisted(call[c].req.env, build[call[c].using].got)
    BY <2>1, <2>3, CallOpens
  <2>5. build'[inner] = build[inner]
    <3>1. CASE build' = build
      BY <3>1
    <3>2. CASE Asks(c) /\ build' = Entered(c)
      BY <1>1, <2>1, <2>2, <3>2 DEF Asks, Called, Entered
    <3> QED
      BY <2>3, <3>1, <3>2 DEF Refresh
  <2>6. \A e \in Calls \ {c} : call'[e] = call[e]
    BY <1>1, <2>3 DEF Refresh, End
  <2>7. ASSUME call'[c].out = "UnknownEpoch", call[c].out # "UnknownEpoch"
        PROVE  opened.error = "UnknownEpoch" /\ call[c].using = inner
    <3>1. CASE opened.error = "UnknownEpoch" /\ policy.present
      <4>1. ~(call' = [call EXCEPT ![c].awaits = c])
        <5> DEFINE m == [call[c] EXCEPT !.awaits = c]
        <5>1. m.out = call[c].out
          BY <1>1 DEF CallType
        <5> HIDE DEF m
        <5>2. call' = [call EXCEPT ![c] = m] => call'[c] = m
          BY <1>1
        <5> QED
          BY <2>7, <5>1, <5>2 DEF m
      <4>2. \A b : ~(call' = [call EXCEPT ![c].awaits = b])
        <5> SUFFICES ASSUME NEW b, call' = [call EXCEPT ![c].awaits = b] PROVE FALSE
          OBVIOUS
        <5> DEFINE m == [call[c] EXCEPT !.awaits = b]
        <5>1. m.out = call[c].out
          BY <1>1 DEF CallType
        <5> HIDE DEF m
        <5>2. call'[c] = m
          BY <1>1 DEF m
        <5> QED
          BY <2>7, <5>1, <5>2
      <4>3. ~(call' = [call EXCEPT ![c].tries = 1, ![c].using = inner])
        <5> SUFFICES ASSUME call' = [call EXCEPT ![c].tries = 1, ![c].using = inner]
                     PROVE FALSE
          OBVIOUS
        <5> DEFINE m == [call[c] EXCEPT !.tries = 1, !.using = inner]
        <5>1. m.out = call[c].out
          BY <1>1 DEF CallType
        <5> HIDE DEF m
        <5>2. call'[c] = m
          BY <1>1 DEF m
        <5> QED
          BY <2>7, <5>1, <5>2
      <4>4. mode = "policy" \/ call[c].tries = 1
        BY <2>3, <3>1, <4>2, <4>3 DEF Refresh
      <4> QED
        BY <1>1, <2>1, <3>1, <4>4 DEF Solo
    <3>2. CASE ~(opened.error = "UnknownEpoch" /\ policy.present)
      <4> DEFINE m == [call[c] EXCEPT !.out = opened.error, !.missed = opened.missed]
      <4>1. call' = [call EXCEPT ![c] = m] /\ m.out = opened.error
        BY <1>1, <2>3, <3>2 DEF CallType
      <4> HIDE DEF m
      <4>2. opened.error = "UnknownEpoch"
        BY <1>1, <2>7, <4>1
      <4>3. guard = "armed"
        BY <1>1, <3>2, <4>2 DEF Serving
      <4> QED
        BY <1>1, <2>1, <4>2, <4>3 DEF Solo
    <3> QED
      BY <3>1, <3>2
  <2>8. ASSUME call'[c].out = "UnknownEpoch", call[c].out # "UnknownEpoch",
               NEW id \in call[c].req.env.kids
        PROVE  ~Lists(build'[inner'].got, id)
    BY <2>1, <2>4, <2>5, <2>7, <2>8 DEF Unlisted
  <2> QED
    BY <1>2, <2>1, <2>5, <2>6, <2>8 DEF ToldUpToDate
<1> QED
  BY <1>3, <1>4, <1>5, <1>6 DEF Step

(* A cipher that refreshes itself tells no read that its epoch is unknown  *)
(* while the descriptor it serves from lists it, and never goes back to an *)
(* older descriptor (refreshingDocCipher.ts: the retry and the swap).      *)
THEOREM ReadsKeepUp == Spec => KeepsUp
<1>1. IInv /\ [Next]_vars =>
        [mode = "cipher" =>
           /\ \A c \in Calls :
                call'[c].out = "UnknownEpoch" /\ call[c].out # "UnknownEpoch"
                /\ call[c].req.kind = "read" =>
                  \A id \in call[c].req.env.kids : ~Lists(build'[inner'].got, id)
           /\ inner # None => build'[inner'].got >= build[inner].got]_vars
  <2> SUFFICES ASSUME IInv, Next, mode = "cipher", ~UNCHANGED vars
               PROVE  ToldUpToDate /\ (inner # None => build'[inner'].got >= build[inner].got)
    BY DEF ToldUpToDate
  <2>1. CASE Rotate
    <3>1. inner # None => build[inner].got \in Nat
      BY BuildTyped DEF IInv, TypeOK
    <3> QED
      BY <2>1, <3>1 DEF Rotate, ToldUpToDate
  <2>2. ASSUME NEW b \in Builds, Build(b)
        PROVE  ToldUpToDate /\ (inner # None => build'[inner'].got >= build[inner].got)
    BY <2>2, BuildKeepsUp
  <2>3. ASSUME NEW c \in Calls, Step(c)
        PROVE  ToldUpToDate /\ (inner # None => build'[inner'].got >= build[inner].got)
    BY <2>3, CallKeepsUp
  <2> QED
    BY <2>1, <2>2, <2>3 DEF Next, Quiet
<1> QED
  BY <1>1, Inductive, PTL DEF Spec, KeepsUp
=============================================================================
