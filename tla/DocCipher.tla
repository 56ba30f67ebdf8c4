------------------------------ MODULE DocCipher ------------------------------
(***************************************************************************)
(* A client's document cipher for one encrypted Collection over one        *)
(* session, and how it keeps up with the Collection's descriptor           *)
(* (src/edv/refreshingDocCipher.ts, src/edv/acquire.ts,                    *)
(* src/edv/refresh.ts, src/edv/docCipher.ts).                              *)
(*                                                                         *)
(* mode says who drives the refresh: the cipher itself ("cipher"), a store *)
(* that scans rows under DescriptorRefreshPolicy ("policy"), or nobody, in *)
(* a client that only seals ("sealer").  A build acquires the descriptor   *)
(* and makes a codec of it: Boot at session start, then one per refresh,   *)
(* named after the read that asked for it.  Every await is a step of its   *)
(* own.  The server (external) rotates from one descriptor of Served to    *)
(* the next; version 0 is none.                                            *)
(***************************************************************************)
EXTENDS EdvEnvelopes, FiniteSets

CONSTANTS Reader,      \* this client's key-agreement key
          Served,      \* the descriptors the Collection goes through
          Cached,      \* versions an earlier session may have cached
          Modes,       \* who drives the refresh
          Policies,    \* what the host configures
          Calls,       \* calls made on the cipher
          RequestsOf,  \* what each may be asked to do
          Schemas,     \* index schemas a Collection's metadata may hold
          Boot,        \* the build at session start
          Flaky,       \* the reader's keystore may be out of reach
          Overlapping  \* metadata is applied while a refresh is under way

VARIABLES mode, policy,
          served,      \* the version the server serves now
          cache,       \* the version in the descriptor cache
          inner,       \* the build the cipher in use came from
          applied,     \* the call that applied metadata last
          guard,       \* the one refresh: "armed", "running", "spent"
          resets,      \* sessions ended (DescriptorRefreshPolicy.reset)
          build, keys, schema, \* each build, its read keys, its index schema
          sealed,      \* envelopes sealed, with the version sealed under
          pc, call     \* where each call is, and its locals

vars == <<mode, policy, served, cache, inner, applied, guard, resets, build,
          keys, schema, sealed, pc, call>>

Versions == 0 .. Len(Served)
Builds == Calls \union {Boot}

(* env is read at slot, or holds the metadata to apply, with its schema;   *)
(* a sealed payload takes the place slot.                                  *)
RequestType ==
    [kind : {"read", "seal", "apply", "reset"}, env : Envelopes, slot : Slots,
     schema : Schemas \union {None}, derives : BOOLEAN]

PolicyType == [present : BOOLEAN, verifies : BOOLEAN, require : BOOLEAN]

ASSUME ServedTyped ==
    /\ Served \in Seq([desc : Descriptors, version : Nat, governed : BOOLEAN])
    /\ Served # <<>>
ASSUME SettingTyped ==
    /\ Reader \in Kids /\ Cached \subseteq Versions
    /\ Boot \notin Calls /\ None \notin Builds
    /\ Modes \subseteq {"cipher", "policy", "sealer"} /\ Policies \subseteq PolicyType
    /\ Flaky \in BOOLEAN /\ Overlapping \in BOOLEAN
ASSUME RequestsTyped == \A c \in Calls : \A r \in RequestsOf[c] :
    /\ r \in RequestType
    /\ r.kind = "read" => ~r.slot.collection
    /\ r.kind \in {"read", "seal"} /\ ~r.slot.collection => r.slot.id # None
    /\ r.kind = "apply" => r.slot.collection

NoBuild == [pc |-> "none", got |-> 0, answer |-> "none", via |-> "none", meta |-> None,
            reachable |-> TRUE]
NoKeys == [id \in Mints |-> "null"]
Idle == [req |-> None, using |-> None, awaits |-> None, tries |-> 0,
         out |-> "none", missed |-> FALSE]

InFlight == {b \in Builds : build[b].pc \notin {"none", "done", "failed"}}

Listing == [v \in Versions |-> IF v = 0 THEN {} ELSE EpochIds(Served[v].desc)]

Lists(v, id) == id \in Listing[v]

Reachable == {TRUE, ~Flaky}

CodecAt ==
    [v \in DOMAIN Served |-> [kid \in Kids |-> [reachable \in BOOLEAN |->
        BuildEdvCodec(Served[v].desc, Served[v].version, kid, reachable)]]]

SealerAt ==
    [v \in DOMAIN Served |-> EncryptOnlyEdvCodec(Served[v].desc, Served[v].version)]

Codec(b) ==
    IF mode = "sealer" THEN SealerAt[build[b].got] ELSE CodecAt[build[b].got][Reader][build[b].reachable]

(* What the read keys of a build are when one is asked for.                *)
KeyAsked(b, id, reachable) ==
    LazyEpochKey(keys[b][id], Served[build[b].got].desc, id, Reader, reachable)

KeysAsked(b, reachable) ==
    [id \in Mints |-> IF Lists(build[b].got, id) THEN KeyAsked(b, id, reachable)
                                                ELSE "null"]

(* What opening an envelope with the cipher of a build comes to: what is   *)
(* made of it, and the read keys held afterwards.                          *)
Openings(b, env, slot) ==
    LET Remembered(asked, used) ==
            [id \in Mints |-> IF id \in used THEN asked[id] ELSE keys[b][id]]
        Attempts == {[asked |-> KeysAsked(b, reachable), missed |-> ~reachable] :
                        reachable \in Reachable}
        Outcomes == {[opened |-> OpenEnvelope(Codec(b), a.asked, env, slot),
                      attempt |-> a] : a \in Attempts}
    IN {[error |-> o.opened.error, missed |-> o.attempt.missed,
         keys |-> Remembered(o.attempt.asked, o.opened.used)] : o \in Outcomes}
-----------------------------------------------------------------------------
(* Builds (acquireDescriptor, then createEdvDocCipher).                    *)

Entered(b) == [build EXCEPT ![b] = [NoBuild EXCEPT !.pc = "acquire"]]

Await(b, label) == build' = [build EXCEPT ![b].pc = label]

(* A refresh ends for the reads that wait for it: they read once more with *)
(* the cipher in use, or are told what they were told before.              *)
Waiting(b) == {c \in Calls : pc[c] = "waiting" /\ call[c].awaits = b}

(* A failed refresh does not count as spent.                               *)
Disarmed(b) == IF b = Boot THEN guard ELSE "armed"

Fail(b) ==
    /\ Await(b, "failed")
    /\ guard' = Disarmed(b)
    /\ pc' = [c \in Calls |-> IF c \in Waiting(b) THEN "ended" ELSE pc[c]]
    /\ call' = [c \in Calls |-> IF c \in Waiting(b)
                  THEN [call[c] EXCEPT !.out = "UnknownEpoch"] ELSE call[c]]
    /\ UNCHANGED <<inner, keys, schema, cache>>

(* Faulty variant: the retry decrypts with the cipher it failed with.      *)
RetriedWith(c, b) == call[c].using

(* The retry takes the cipher in use.                                      *)
RetryCipher(c, b) == b

Complete(b, reachable, installed) ==
    /\ build' = [build EXCEPT ![b].pc = "done", ![b].reachable = reachable]
    /\ inner' = b
    /\ schema' = [schema EXCEPT ![b] = installed]
    /\ guard' = IF b # Boot /\ guard = "running" THEN "spent" ELSE guard
    /\ pc' = [c \in Calls |-> IF c \in Waiting(b) THEN "read" ELSE pc[c]]
    /\ call' = [c \in Calls |-> IF c \in Waiting(b)
                  THEN [call[c] EXCEPT !.tries = 1, !.using = RetryCipher(c, b)]
                  ELSE call[c]]

(* With no source the cache answers alone; a source that does not verify   *)
(* the governing log is refused before it is asked, if the host requires.  *)
Acquire(b) ==
    /\ build[b].pc = "acquire"
    /\ IF policy.present /\ policy.require /\ ~policy.verifies
       THEN Fail(b)
       ELSE /\ IF ~policy.present THEN Await(b, "fallback")
               ELSE \E answer \in {"found", "none", "failed", "refused"} :
                      /\ answer = "refused" => policy.verifies
                      /\ answer = "found" => served # 0
                      /\ build' = [build EXCEPT ![b].pc = "got", ![b].answer = answer,
                                     ![b].got = IF answer = "found" THEN served ELSE 0]
            /\ UNCHANGED <<cache, inner, guard, keys, schema, pc, call>>

(* Faulty variant: the cache papers over a refusal of the log.             *)
RefusalIsOutage(b) == FALSE

(* A log refusal, or a governed descriptor nobody verified.                *)
Distrusted(b) ==
    \/ build[b].answer = "refused"
    \/ build[b].answer = "found" /\ Served[build[b].got].governed /\ ~policy.verifies

Settle(b) ==
    /\ build[b].pc = "got"
    /\ IF Distrusted(b) THEN Fail(b)
       ELSE /\ Await(b, IF build[b].answer = "found" THEN "keep" ELSE "fallback")
            /\ UNCHANGED <<cache, inner, guard, keys, schema, pc, call>>

Keep(b) ==
    /\ build[b].pc = "keep"
    /\ cache' = build[b].got
    /\ build' = [build EXCEPT ![b].pc = "derive", ![b].via = "source"]
    /\ UNCHANGED <<inner, guard, keys, schema, pc, call>>

Fallback(b) ==
    /\ build[b].pc = "fallback"
    /\ IF cache = 0 THEN Fail(b)
       ELSE /\ build' = [build EXCEPT ![b].pc = "derive", ![b].got = cache,
                                      ![b].via = "cache"]
            /\ UNCHANGED <<cache, inner, guard, keys, schema, pc, call>>

(* Faulty variant: a rebuilt cipher starts without the metadata.           *)
NothingToReplay(b) == None

(* The metadata applied so far, read once the codec is built.              *)
ToReplay(b) == applied

Derive(b) ==
    /\ build[b].pc = "derive" /\ UNCHANGED cache
    /\ \E reachable \in Reachable :
         LET codec == IF mode = "sealer" THEN SealerAt[build[b].got]
                      ELSE CodecAt[build[b].got][Reader][reachable]
             entered == IF codec.holds THEN [NoKeys EXCEPT ![codec.write] = "secret"]
                                       ELSE NoKeys
         IN IF codec.error # "ok" THEN Fail(b)
            ELSE /\ keys' = [keys EXCEPT ![b] = entered]
                 /\ IF ToReplay(b) = None THEN Complete(b, reachable, None)
                    ELSE /\ build' = [build EXCEPT ![b].pc = "replay", ![b].meta = ToReplay(b),
                                                   ![b].reachable = reachable]
                         /\ UNCHANGED <<inner, guard, schema, pc, call>>

Replay(b) ==
    /\ build[b].pc = "replay" /\ UNCHANGED cache
    /\ IF Codec(b).blinding = None
       THEN Complete(b, build[b].reachable, None) /\ UNCHANGED keys
       ELSE LET req == call[build[b].meta].req
            IN \E opened \in Openings(b, req.env, req.slot) :
                 IF opened.error # "ok" THEN Fail(b)
                 ELSE /\ keys' = [keys EXCEPT ![b] = opened.keys]
                      /\ Complete(b, build[b].reachable, req.schema)

Build(b) ==
    /\ Acquire(b) \/ Settle(b) \/ Keep(b) \/ Fallback(b) \/ Derive(b) \/ Replay(b)
    /\ UNCHANGED <<mode, policy, served, applied, resets, sealed>>
-----------------------------------------------------------------------------
(* Calls.                                                                  *)

(* An envelope exists once its epoch is on the descriptor, unless no       *)
(* descriptor ever lists it.                                               *)
Stored(env) == Lists(served, env.key) \/ \A v \in Versions : ~Lists(v, env.key)

Applying == {c \in Calls : pc[c] = "apply"}

Start(c) ==
    /\ pc[c] = "idle" /\ inner # None
    /\ \E req \in RequestsOf[c] :
         /\ req.kind = "read" => mode # "sealer" /\ Stored(req.env)
         /\ req.kind = "apply" =>
              /\ mode = "cipher" /\ Stored(req.env) /\ Applying = {}
              /\ Overlapping \/ InFlight = {}
         /\ req.kind = "reset" => mode = "policy"
         /\ applied' = IF req.kind = "apply" THEN c ELSE applied
         /\ guard' = IF req.kind = "reset" THEN "armed" ELSE guard
         /\ resets' = IF req.kind = "reset" THEN resets + 1 ELSE resets
         /\ pc' = [pc EXCEPT ![c] = IF req.kind = "reset" THEN "ended" ELSE req.kind]
         /\ call' = [call EXCEPT ![c] = [Idle EXCEPT !.req = req, !.using = inner]]
    /\ UNCHANGED <<mode, policy, served, cache, inner, build, keys, schema, sealed>>

End(c, out) == pc' = [pc EXCEPT ![c] = "ended"] /\ call' = [call EXCEPT ![c].out = out]

(* The read is the one to ask for the refresh.                             *)
Asks(c) == call[c].tries = 0 /\ guard = "armed"

(* Reads that share the cipher's refresh: one under way is waited for, one *)
(* that is spent means a retry at once.  Rows skipped while the policy has *)
(* spent its refresh are reported as they are.                             *)
Refresh(c) ==
    \/ /\ Asks(c) /\ (Overlapping \/ Applying = {})
       /\ guard' = "running"
       /\ build' = Entered(c)
       /\ pc' = [pc EXCEPT ![c] = "waiting"]
       /\ call' = [call EXCEPT ![c].awaits = c]
    \/ /\ ~Asks(c) /\ mode = "cipher" /\ call[c].tries = 0
       /\ IF guard = "running"
          THEN /\ pc' = [pc EXCEPT ![c] = "waiting"]
               /\ call' = [call EXCEPT ![c].awaits = CHOOSE b \in InFlight : TRUE]
          ELSE /\ call' = [call EXCEPT ![c].tries = 1, ![c].using = inner]
               /\ UNCHANGED pc
       /\ UNCHANGED <<guard, build>>
    \/ /\ ~Asks(c) /\ (mode = "policy" \/ call[c].tries = 1)
       /\ End(c, "UnknownEpoch")
       /\ UNCHANGED <<guard, build>>

Read(c) ==
    /\ pc[c] = "read"
    /\ \E opened \in Openings(call[c].using, call[c].req.env, call[c].req.slot) :
         /\ keys' = [keys EXCEPT ![call[c].using] = opened.keys]
         /\ IF opened.error = "UnknownEpoch" /\ policy.present
            THEN Refresh(c)
            ELSE /\ pc' = [pc EXCEPT ![c] = "ended"]
                 /\ call' = [call EXCEPT ![c].out = opened.error, ![c].missed = opened.missed]
                 /\ UNCHANGED <<guard, build>>
    /\ UNCHANGED <<mode, policy, served, cache, inner, applied, resets, schema, sealed>>

Seal(c) ==
    LET req == call[c].req
    IN /\ pc[c] = "seal"
       /\ sealed' = sealed \union
            {[env |-> Sealed(Codec(call[c].using), req.slot, req.derives, req.slot.id),
              slot |-> req.slot, at |-> build[call[c].using].got]}
       /\ End(c, "ok")
       /\ UNCHANGED <<mode, policy, served, cache, inner, applied, guard, resets,
                      build, keys, schema>>

(* Metadata is applied to the cipher that was in use when the call began.  *)
Apply(c) ==
    LET b == call[c].using
    IN /\ pc[c] = "apply"
       /\ IF Codec(b).blinding = None
          THEN End(c, "ok") /\ UNCHANGED <<keys, schema>>
          ELSE \E opened \in Openings(b, call[c].req.env, call[c].req.slot) :
                 /\ keys' = [keys EXCEPT ![b] = opened.keys]
                 /\ schema' = IF opened.error # "ok" THEN schema
                              ELSE [schema EXCEPT ![b] = call[c].req.schema]
                 /\ End(c, opened.error)
       /\ UNCHANGED <<mode, policy, served, cache, inner, applied, guard, resets,
                      build, sealed>>

(* Another client rotates the epoch.                                       *)
Rotate ==
    /\ served < Len(Served)
    /\ served' = served + 1
    /\ UNCHANGED <<mode, policy, cache, inner, applied, guard, resets, build, keys,
                   schema, sealed, pc, call>>

Init ==
    /\ mode \in Modes /\ policy \in Policies
    /\ mode # "cipher" => policy.present
    /\ served \in {0, 1} /\ cache \in Cached /\ cache <= served
    /\ inner = None /\ applied = None /\ guard = "armed" /\ resets = 0
    /\ build = [b \in Builds |-> [NoBuild EXCEPT !.pc = IF b = Boot THEN "acquire" ELSE "none"]]
    /\ keys = [b \in Builds |-> NoKeys]
    /\ schema = [b \in Builds |-> None]
    /\ sealed = {}
    /\ pc = [c \in Calls |-> "idle"]
    /\ call = [c \in Calls |-> Idle]

Step(c) == Start(c) \/ Read(c) \/ Seal(c) \/ Apply(c)

(* No call is under way, and no more may come.  A read that waits for a    *)
(* refresh nobody runs would deadlock.                                     *)
Quiet ==
    /\ InFlight = {} /\ \A c \in Calls : pc[c] \in {"idle", "ended"}
    /\ UNCHANGED vars

Next == Rotate \/ Quiet \/ \E b \in Builds : Build(b) \/ \E c \in Calls : Step(c)

Spec == Init /\ [][Next]_vars
-----------------------------------------------------------------------------
(* Properties.                                                             *)

(* What this reader ought to be told of an envelope, by the descriptor the *)
(* cipher that answered was built from.                                    *)
Authentic(env) ==
    /\ env.jwe /\ env.intact
    /\ env.binding.v \in 1 .. Version /\ env.binding.epoch = env.key

Honest(env) == Authentic(env) /\ env.kids = {env.key}

Placed(env, slot) ==
    /\ env.binding.collection = IF slot.collection THEN Collection ELSE None
    /\ ~slot.collection => slot.id = IF env.binding.resource # None
                                     THEN env.binding.resource ELSE env.derived

Sound(wrap) == <<wrap, Reader>> \notin Malformed \union Corrupt

Deserved(env, slot, v) ==
    CASE ~Lists(v, env.key) -> "UnknownEpoch"
      [] Lists(v, env.key) /\ Reader \notin EpochNamed(Served[v].desc, env.key).to -> "KeyUnwrap"
      [] OTHER -> IF Sound(<<"epoch", env.key>>) /\ Placed(env, slot) THEN "ok"
                  ELSE IF << <<"epoch", env.key>>, Reader>> \in Malformed THEN "KeyUnwrap"
                  ELSE "Integrity"

(* A read opens what was sealed for its place and nothing else, and a      *)
(* refusal names its cause, whatever reads, refreshes and key failures     *)
(* came before: a stale descriptor, no membership, or tampering.           *)
RefusalsTellWhy ==
    \A c \in Calls :
      LET req == call[c].req
          v == build[call[c].using].got
      IN pc[c] = "ended" /\ req # None /\ req.kind = "read" =>
           /\ call[c].out = "ok" => Authentic(req.env) /\ Placed(req.env, req.slot)
           /\ Honest(req.env) =>
                \/ call[c].out = Deserved(req.env, req.slot, v)
                \/ call[c].missed /\ call[c].out = "KeyUnwrap"

(* Whatever a client seals, a reader of that epoch opens there from every  *)
(* later descriptor, if its own entries are sound (WhatIsSealedOpens); and *)
(* no client seals under an epoch its descriptor does not list.            *)
WhatIsSealedOpens ==
    \A s \in sealed :
      /\ Lists(s.at, s.env.key)
      /\ \A v \in s.at .. Len(Served), kid \in Kids :
           LET codec == CodecAt[v][kid][TRUE]
               held == [id \in Mints |-> IF Lists(v, id)
                          THEN UnwrapEpochKey(Served[v].desc, id, kid, TRUE) ELSE "null"]
           IN codec.error = "ok" /\ held[s.env.key] = "secret" =>
                OpenEnvelope(codec, held, s.env, s.slot).error = "ok"

(* An envelope opens for its reader where it was sealed for and nowhere    *)
(* else, whoever sealed it and whatever rotations, refreshes and key       *)
(* failures lie in between, and a refusal says which of these it was.      *)
OpensWhereSealed == RefusalsTellWhy /\ WhatIsSealedOpens

(* A cipher that refreshes itself never tells a read that its epoch is     *)
(* unknown while the descriptor in use lists it, and its descriptor never  *)
(* goes back to an older one.                                              *)
KeepsUp ==
    [][mode = "cipher" =>
         /\ \A c \in Calls :
              call'[c].out = "UnknownEpoch" /\ call[c].out # "UnknownEpoch"
              /\ call[c].req.kind = "read" =>
                \A id \in call[c].req.env.kids : ~Lists(build'[inner'].got, id)
         /\ inner # None => build'[inner'].got >= build[inner].got]_vars

(* A foreign envelope cannot drive a refetch loop: one refresh per session *)
(* is spent, and only by a refresh that rebuilt the cipher.                *)
OneRefresh ==
    /\ Cardinality({b \in Calls : build[b].pc = "done"}) <= 1 + resets
    /\ guard = "spent" => \E b \in Calls : build[b].pc = "done"

(* What a cipher is built from was verified, where the host or the         *)
(* descriptor asks for it, and a refusal of the log is never papered over. *)
AdoptedIsVerified ==
    \A b \in Builds : build[b].pc = "done" =>
      /\ build[b].answer # "refused"
      /\ build[b].via = "source" /\ (policy.require \/ Served[build[b].got].governed) =>
           policy.verifies

(* A refresh is neither repeated nor trusted beyond its source: concurrent *)
(* failures spend at most one per session, and what it adopts was verified *)
(* wherever verification was asked for.                                    *)
RefreshesAreSound == OneRefresh /\ AdoptedIsVerified

(* The metadata applied last is in force once nothing is under way, across *)
(* a refresh (refreshingDocCipher.ts: a refresh keeps the index schema).   *)
KeepsIndexSchema ==
    /\ applied # None /\ InFlight = {} /\ Applying = {}
    /\ call[applied].out = "ok" /\ Codec(inner).blinding # None
    => schema[inner] = call[applied].req.schema
=============================================================================
