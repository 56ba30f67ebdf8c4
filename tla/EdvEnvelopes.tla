---------------------------- MODULE EdvEnvelopes ----------------------------
(***************************************************************************)
(* How a reader's codec is built from a Collection's encryption descriptor *)
(* (src/edv/epochKeys.ts, src/edv/hmacKey.ts, src/edv/EdvCodec.ts), what   *)
(* it seals, and what it makes of a stored envelope.                       *)
(*                                                                         *)
(* An epoch stands for its key.  The protected header of an envelope (its  *)
(* binding) is authenticated; the recipient ids are not.  A wrapped secret *)
(* is sound unless it is listed as malformed or corrupt.  The reader's own *)
(* key may be out of reach for a while (a remote keystore).                *)
(***************************************************************************)
EXTENDS KeyRoster

CONSTANTS Collection, Collections, \* this codec's Collection, and all of them
          Resources,               \* resource ids
          Version,                 \* EDV_SCHEME_VERSION
          Malformed, Corrupt,      \* damaged wraps, as <<wrap, kid>>
          Unparsable               \* epoch ids that are no did:key

Bindings ==
    [v : 0 .. Version + 1, resource : Resources \union {None},
     collection : Collections \union {None}, epoch : Mints \union {None}]
NoBinding == [v |-> 0, resource |-> None, collection |-> None, epoch |-> None]

(* kids: the epochs the recipient headers name; key: the epoch it is       *)
(* sealed to; derived: the id its content derives to; jwe: it is an        *)
(* envelope at all; intact: its ciphertext authenticates.                  *)
Envelopes ==
    [jwe : BOOLEAN, kids : SUBSET Mints, key : Mints, intact : BOOLEAN,
     binding : Bindings, derived : Resources]

(* Where an envelope is read from: the Collection's metadata, or the       *)
(* resource id, if the caller knows one.                                   *)
Slots == [collection : BOOLEAN, id : Resources \union {None}]

Wraps == {"epoch", "index"} \X Mints

ASSUME DamageTyped == Malformed \subseteq Wraps \X Kids /\ Corrupt \subseteq Wraps \X Kids
ASSUME PlacesTyped ==
    /\ Collection \in Collections /\ Version \in Nat \ {0}
    /\ None \notin Resources \union Collections /\ Unparsable \subseteq Mints
-----------------------------------------------------------------------------
(* Unwrapping.                                                             *)

UnwrapEpochSecret(wrap, to, kid, reachable) ==
    IF kid \notin to \/ <<wrap, kid>> \in Malformed \/ ~reachable THEN "null"
    ELSE IF <<wrap, kid>> \in Corrupt THEN "Integrity" ELSE "secret"

Place(d, id) == CHOOSE i \in DOMAIN d.epochs : d.epochs[i].id = id

EpochNamed(d, id) == d.epochs[Place(d, id)]

UnwrapEpochKey(d, id, kid, reachable) ==
    UnwrapEpochSecret(<<"epoch", id>>, EpochNamed(d, id).to, kid, reachable)

(* A read key unwraps at its first use and remembers a key, or a failed    *)
(* key-wrap check; "null" is tried again.                                  *)
LazyEpochKey(held, d, id, kid, reachable) ==
    IF held # "null" THEN held ELSE UnwrapEpochKey(d, id, kid, reachable)

EpochIds(d) == {d.epochs[i].id : i \in DOMAIN d.epochs}

(* The id of a key is read off the epoch id, at once.                      *)
EpochKeyIds(ids) == ids \intersect Unparsable = {}

(* The key to seal with when the reader is not named: it derives nothing.  *)
EpochWriteStandIn(id) == IF id \in Unparsable THEN "Encryption" ELSE "null"
-----------------------------------------------------------------------------
(* Building a codec: error is "ok" or why there is none; reads gives the   *)
(* epoch of each read key its place among the candidates.                  *)

Refusal(error) ==
    [error |-> error, write |-> None, holds |-> FALSE, reads |-> [id \in {} |-> 0],
     listed |-> {}, blinding |-> None]

DescriptorDefect(d, version) ==
    version > Version \/ d.epochs = <<>> \/ d.current = None

ResolveEpochKeys(d, kid, reachable) ==
    LET named == {d.epochs[i].id : i \in {j \in DOMAIN d.epochs : kid \in d.epochs[j].to}}
        holds == kid \in CurrentEpochOf(d).to
        unwrapped == UnwrapEpochKey(d, d.current, kid, reachable)
        resolved == [error |-> "ok", write |-> d.current, holds |-> holds,
                     reads |-> [id \in named |-> IF holds /\ id = d.current THEN 0
                                                                           ELSE Place(d, id)]]
    IN CASE named = {} -> Refusal("KeyUnwrap")
         [] named # {} /\ ~Listed(d) -> Refusal("Encryption")
         [] named # {} /\ Listed(d) /\ ~holds ->
              IF EpochWriteStandIn(d.current) # "null" THEN Refusal("Encryption")
              ELSE IF EpochKeyIds(named) THEN resolved ELSE Refusal("Other")
         [] OTHER ->
              CASE unwrapped = "null" -> Refusal("KeyUnwrap")
                [] unwrapped = "Integrity" -> Refusal("Integrity")
                [] OTHER -> IF EpochKeyIds(named) THEN resolved ELSE Refusal("Other")

(* The blinded-index key: "ok" with or without one, or why there is none.  *)
ResolveHmacKey(d, kid, required, reachable) ==
    LET secret == UnwrapEpochSecret(<<"index", d.hmac.id>>, d.hmac.to, kid, reachable)
    IN CASE d.hmac.id = None -> [error |-> "ok", blinding |-> None]
         [] d.hmac.id # None /\ secret = "secret" ->
              [error |-> "ok", blinding |-> d.hmac.id]
         [] d.hmac.id # None /\ secret = "Integrity" ->
              [error |-> "Integrity", blinding |-> None]
         [] OTHER -> [error |-> IF required THEN "Encryption" ELSE "ok",
                      blinding |-> None]

BuildEdvCodec(d, version, kid, reachable) ==
    IF DescriptorDefect(d, version) THEN Refusal("Encryption")
    ELSE LET keys == ResolveEpochKeys(d, kid, reachable)
             hmac == ResolveHmacKey(d, kid, keys.holds, reachable)
         IN CASE keys.error # "ok" -> Refusal(keys.error)
              [] keys.error = "ok" /\ hmac.error # "ok" -> Refusal(hmac.error)
              [] OTHER -> [error |-> "ok", write |-> keys.write,
                           holds |-> keys.holds, reads |-> keys.reads,
                           listed |-> EpochIds(d), blinding |-> hmac.blinding]

(* A codec built from the descriptor alone seals and opens nothing.        *)
EncryptOnlyEdvCodec(d, version) ==
    CASE DescriptorDefect(d, version) \/ ~Listed(d) -> Refusal("Encryption")
      [] ~DescriptorDefect(d, version) /\ Listed(d) ->
           IF EpochWriteStandIn(d.current) # "null" THEN Refusal("Encryption")
           ELSE [Refusal("ok") EXCEPT !.write = d.current, !.listed = EpochIds(d)]
-----------------------------------------------------------------------------
(* Sealing: content derived to an id binds no resource; the Collection's   *)
(* own metadata binds the Collection.                                      *)

SealParams(codec, resource, collection) ==
    [v |-> Version, resource |-> resource, collection |-> collection,
     epoch |-> codec.write]

(* An envelope is bound to the Resource it is written to, or, in the       *)
(* Collection's slot, to the Collection.                                   *)
SlotBinding(codec, slot) ==
    IF slot.collection THEN SealParams(codec, None, Collection) ELSE SealParams(codec, slot.id, None)

(* An id derived from the envelope is not there to bind yet.               *)
Sealed(codec, slot, derives, content) ==
    [jwe |-> TRUE, kids |-> {codec.write}, key |-> codec.write, intact |-> TRUE,
     derived |-> content,
     binding |-> IF derives /\ ~slot.collection THEN SealParams(codec, None, None)
                 ELSE SlotBinding(codec, slot)]
-----------------------------------------------------------------------------
(* Opening.                                                                *)

(* The read keys that the envelope's recipient headers name.               *)
Preferred(codec, env) == DOMAIN codec.reads \intersect env.kids

(* What one candidate key makes of the envelope.                           *)
Tried(key, id, env) ==
    CASE key = "Integrity" -> "Integrity"
      [] key = "null" -> "miss"
      [] OTHER -> IF env.key # id THEN "miss"
                  ELSE IF env.intact THEN "ok" ELSE "Integrity"

(* No candidate: not a recipient of a listed epoch, or the descriptor is   *)
(* stale.                                                                  *)
Unroutable(codec, env) ==
    IF env.kids \intersect codec.listed # {} THEN "KeyUnwrap" ELSE "UnknownEpoch"

(* keys: what each read key is, now that it is asked; used: those asked.   *)
(* The first candidate that is no miss decides; a key no header names is a *)
(* miss.                                                                   *)
Decrypted(codec, keys, env) ==
    LET candidates == Preferred(codec, env)
        At(id) == Tried(keys[id], id, env)
        Before(id) == {other \in candidates : codec.reads[other] < codec.reads[id]}
    IN CASE candidates = {} /\ env.kids # {} ->
              [error |-> Unroutable(codec, env), key |-> None, used |-> {}]
         [] candidates # {} /\ \E id \in candidates : At(id) # "miss" ->
              LET first == CHOOSE id \in candidates :
                             At(id) # "miss" /\ \A other \in Before(id) : At(other) = "miss"
              IN [error |-> At(first), key |-> first, used |-> {first} \union Before(first)]
         [] OTHER -> [error |-> "KeyUnwrap", key |-> None, used |-> candidates]

VerifyCollectionSlot(binding) ==
    IF binding.resource = None /\ binding.collection = Collection
    THEN "ok" ELSE "Integrity"

(* Faulty variant: an envelope that binds no resource is taken anywhere.   *)
VerifyBoundOnly(env, slot) ==
    IF /\ env.binding.collection = None
       /\ slot.id = None \/ env.binding.resource \in {None, slot.id}
    THEN "ok" ELSE "Integrity"

VerifyResourceSlot(env, slot) ==
    IF /\ env.binding.collection = None
       /\ \/ slot.id = None
          \/ env.binding.resource = slot.id
          \/ env.binding.resource = None /\ env.derived = slot.id
    THEN "ok" ELSE "Integrity"

VerifyBinding(env, slot, key) ==
    LET placed == IF slot.collection THEN VerifyCollectionSlot(env.binding)
                                     ELSE VerifyResourceSlot(env, slot)
    IN CASE env.binding.v \notin 1 .. Version -> "Encryption"
         [] env.binding.v \in 1 .. Version /\ placed # "ok" -> placed
         [] OTHER -> IF env.binding.epoch = None THEN "Encryption"
                     ELSE IF env.binding.epoch # key THEN "Integrity" ELSE "ok"

OpenEnvelope(codec, keys, env, slot) ==
    LET decrypted == Decrypted(codec, keys, env)
    IN CASE ~env.jwe -> [error |-> "Encryption", key |-> None, used |-> {}]
         [] env.jwe /\ decrypted.error # "ok" -> decrypted
         [] OTHER -> [decrypted EXCEPT !.error = VerifyBinding(env, slot, decrypted.key)]
=============================================================================
