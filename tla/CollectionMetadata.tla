------------------------- MODULE CollectionMetadata -------------------------
(***************************************************************************)
(* The Collection Metadata object and the calls that read and write it.    *)
(*                                                                         *)
(* A handle (src/Collection.ts) keeps two things between calls: the read   *)
(* its next write may compose over (#recentRead) and the memoized codec    *)
(* (#codecHolder).  Calls are asynchronous: each is a chain of steps that  *)
(* meets the server once per request and that other calls, on the same     *)
(* handle or on other clients' handles, interleave with.                   *)
(*                                                                         *)
(* The server (external) keeps one object under one ETag.  hist is the     *)
(* sequence of objects it has ever stored; a version, which is also its    *)
(* ETag, is an index into hist, and 0 stands for no object.                *)
(***************************************************************************)
EXTENDS MetadataBodies, Sequences

CONSTANTS Handles,        \* Collection handles
          Calls,          \* invocations of their methods
          HandleOf,       \* the handle each call is made on
          Readers,        \* handles whose capability can read the object
          Keyholders,     \* handles whose client can build the EDV codec
          Requests,       \* what a call may be asked to do
          InitialObjects, \* what may be stored at first
          ServesEtag,     \* reads carry their validator
          Overlapping,    \* calls on one handle may overlap
          Attempts        \* DEFAULT_CAS_ATTEMPTS

VARIABLES
    hist,    \* every object stored so far, with the call that wrote it
    stored,  \* the version stored now
    recent,  \* #recentRead per handle: version, and codec custom was opened with
    memo,    \* #codecHolder's memo per handle: an index into codecs, 0 if reset
    codecs,  \* every codec resolution started
    pc, call \* where each call is, and its locals

vars == <<hist, stored, recent, memo, codecs, pc, call>>

Versions == 0 .. Len(hist)

Kinds == {"configure", "replace", "set", "patch", "index",
          "meta", "describe", "delete"}

(* fields, force: configure and replaceDescription; name, tags: setMeta    *)
(* and setName/setTags; decls: declareIndexes; absent: ifNoneMatch;        *)
(* pinned, seeded: the caller passes an ETag or an object it once read.    *)
RequestType ==
    [kind : Kinds \union {None}, fields : Fields, force : BOOLEAN,
     name : Texts \union {None}, tags : Texts \union {None},
     decls : SUBSET Declarations,
     absent : BOOLEAN, pinned : BOOLEAN, seeded : BOOLEAN]

ASSUME CallsOnHandles == HandleOf \in [Calls -> Handles]
ASSUME NoneIsNoCall == None \notin Calls
ASSUME HandleSets == Readers \subseteq Handles /\ Keyholders \subseteq Handles
(* Only the methods that take a precondition or a baseline are given one.  *)
ASSUME RequestsTyped ==
    Requests \subseteq
      {r \in RequestType :
         /\ r.kind # None
         /\ r.absent => r.kind \in {"replace", "set"} /\ ~r.pinned
         /\ r.pinned => r.kind \in {"configure", "replace", "set"}
         /\ r.seeded => r.kind = "configure"}
(* Only a declaration by a client puts a schema into an object, sealed.    *)
ASSUME ObjectsTyped ==
    /\ InitialObjects \subseteq Objects
    /\ \A o \in InitialObjects :
         /\ o.custom.seal \in {o.enc, None}
         /\ o.custom.schema # {} => o.custom.seal = "edv"
         /\ ~Conflicting(o.custom.schema, o.custom.schema)
ASSUME SwitchesTyped == ServesEtag \in BOOLEAN /\ Overlapping \in BOOLEAN
ASSUME AttemptsPositive == Attempts \in Nat \ {0}

(* A handle that remembers no read.                                        *)
Nothing == [version |-> 0, lens |-> None]

Unresolved == 0

NoRequest == [kind |-> None, fields |-> [enc |-> None, conf |-> None],
              force |-> FALSE, name |-> None, tags |-> None, decls |-> {},
              absent |-> FALSE, pinned |-> FALSE, seeded |-> FALSE]

(* The locals of a call.                                                   *)
(*   pin, seed        the ETag and the baseline it was given, 0 for none   *)
(*   aim              what the codec or the read under way is for          *)
(*   codec, index     the codecs captured: last, and by declareIndexes     *)
(*   seen             the version the last GET answered                    *)
(*   got, gotLens     the meta() read a read-modify-write builds on        *)
(*   base, baseLens   the read the body is composed over                   *)
(*   tries            attempts already lost                                *)
(*   ack              the version its write created                        *)
Locals(req, pin, seed, aim) ==
    [req |-> req, pin |-> pin, seed |-> seed, aim |-> aim,
     codec |-> Unresolved, index |-> Unresolved, seen |-> 0,
     got |-> 0, gotLens |-> None, base |-> 0, baseLens |-> None,
     tries |-> 0, ack |-> 0]
-----------------------------------------------------------------------------
(* Shared vocabulary.                                                      *)

Handle(c) == HandleOf[c]

Object(v) == IF v = 0 THEN Blank ELSE hist[v].object

Visible(h) == IF h \in Readers THEN stored ELSE 0

(* The scheme of a resolved codec; the guarded create uses the plaintext   *)
(* codec without resolving one.                                            *)
SchemeOf(i) == IF i = Unresolved THEN "plain" ELSE Object(codecs[i].version).enc

(* #remember: a read without a validator is no baseline.                   *)
Remember(h, v, lens) ==
    recent' = [recent EXCEPT ![h] =
        IF ServesEtag /\ v # 0 THEN [version |-> v, lens |-> lens]
                               ELSE Nothing]

Forget(h) == recent' = [recent EXCEPT ![h] = Nothing]

(* Faulty variant: a declaration does not reach the codec.                 *)
WithSchemaUnchanged(cs, i, schema) == cs

(* applySchema on a codec with a search index.                             *)
WithSchema(cs, i, schema) ==
    IF SchemeOf(i) = "edv" THEN [cs EXCEPT ![i].schema = schema] ELSE cs

Goto(c, label) == pc' = [pc EXCEPT ![c] = label]

(* The meta() custom a setName, setTags or declareIndexes call builds on.  *)
Fetched(c) == Opened(call[c].gotLens, Object(call[c].got).custom)

(* The custom an annotation write sends, before it is sealed.              *)
Sent(c) ==
    LET k == call[c]
        r == k.req
        base == Object(k.base)
        lens == IF k.baseLens = None THEN SchemeOf(k.codec) ELSE k.baseLens
        stated == CASE r.kind = "set" ->
                         [NoCustom EXCEPT !.name = r.name, !.tags = r.tags]
                    [] r.kind = "patch" ->
                         [Fetched(c) EXCEPT !.name = Stated(r.name, @),
                                            !.tags = Stated(r.tags, @)]
                    [] OTHER ->
                         [Fetched(c) EXCEPT !.schema = @ \union r.decls]
    IN IF stated.schema # {} THEN stated
       ELSE WithStoredSchema(stated, lens, base)

(* The body of the PUT a call sends, composed over its baseline.           *)
Body(c) ==
    LET k == call[c]
        base == Object(k.base)
        keyed == Handle(c) \in Keyholders
    IN CASE k.req.kind = "configure" -> Configured(base, k.req.fields, keyed)
         [] k.req.kind = "replace" -> Replaced(base, k.req.fields, keyed)
         [] OTHER -> Annotated(base, SchemeOf(k.codec), Sent(c))

IsConfiguration(kind) == kind \in {"configure", "replace"}
IsReadModifyWrite(kind) == kind \in {"patch", "index"}

(* Whether a write may compose over nothing when its read answers null.    *)
AllowAbsent(c) ==
    /\ IsConfiguration(call[c].req.kind)
    /\ call[c].pin = 0
    /\ call[c].req.kind = "configure" =>
         BlindMergeAllowed(call[c].req.fields, call[c].req.force)

(* Faulty variant: an unconditional PUT.                                   *)
Unconditional(c) == stored

(* The version a PUT is conditional on: 0 is If-None-Match.                *)
Precondition(c) == IF call[c].pin # 0 THEN call[c].pin ELSE call[c].base

Finished(c) == pc[c] \in {"idle", "done", "failed"}

(* Faulty variant: one attempt too many.                                   *)
PastLastAttempt(c) == call[c].tries >= Attempts

(* compareAndSwap gives up after its last attempt.                         *)
LastAttempt(c) == call[c].tries + 1 >= Attempts

(* Faulty variant: a lost answer is retried as if it were a 412.           *)
AnyFailure(c) == pc[c] \in {"conflict", "acked"}

(* Only a 412 says that the write was not applied.                         *)
PreconditionFailed(c) == pc[c] = "conflict"

(* Faulty variant: the codec outlives the description it came from.        *)
KeepCodec(h) == UNCHANGED memo

(* Drop the memoized codec; a resolution under way settles for its waiters. *)
ResetCodec(h) == memo' = [memo EXCEPT ![h] = Unresolved]

(* A resolution whose descriptor read is under way.                        *)
Asked(i) == codecs[i].state = "asked"

(* A call that returns or throws drops its locals.                         *)
Finish(c, label, ack) ==
    /\ Goto(c, label)
    /\ call' = [call EXCEPT ![c] =
                   [Locals(call[c].req, 0, 0, None) EXCEPT !.ack = ack]]

Fail(c) == Finish(c, "failed", 0)
-----------------------------------------------------------------------------
(* A call begins.                                                          *)

Entry(req) ==
    CASE IsConfiguration(req.kind) \/ req.absent -> "baseline"
      [] req.kind = "describe" -> "get"
      [] req.kind = "delete" -> "delete"
      [] OTHER -> "resolve"

EntryAim(req) ==
    CASE req.kind \in {"meta", "patch"} -> "meta"
      [] req.kind = "index" -> "index"
      [] req.kind = "describe" -> "describe"
      [] OTHER -> "write"

(* The versions a caller may quote: any it could have been shown.          *)
Quotable(wanted) == IF wanted THEN 1 .. Len(hist) ELSE {0}

Start(c) ==
    /\ pc[c] = "idle"
    /\ Overlapping \/ \A d \in Calls : Handle(d) = Handle(c) => Finished(d)
    /\ \E req \in Requests :
         \E pin \in Quotable(req.pinned), seed \in Quotable(req.seeded) :
           /\ Goto(c, Entry(req))
           /\ call' = [call EXCEPT ![c] = Locals(req, pin, seed, EntryAim(req))]
    /\ UNCHANGED <<hist, stored, recent, memo, codecs>>
-----------------------------------------------------------------------------
(* Resolving the codec (CodecHolder, Memo, resolveCodec).                  *)

(* Join the resolution under way or kept, or start one.                    *)
Acquire(c) ==
    /\ pc[c] = "resolve"
    /\ Goto(c, "resolving")
    /\ IF memo[Handle(c)] = Unresolved
       THEN /\ codecs' = Append(codecs, [handle |-> Handle(c), owner |-> c,
                              state |-> "asked", version |-> 0,
                              schema |-> {}, snapshot |-> FALSE])
            /\ memo' = [memo EXCEPT ![Handle(c)] = Len(codecs')]
       ELSE UNCHANGED <<codecs, memo>>
    /\ call' = [call EXCEPT ![c].codec = memo'[Handle(c)]]
    /\ UNCHANGED <<hist, stored, recent>>

(* The server answers the descriptor read, or the read is lost.            *)
ServeResolution(i) ==
    /\ Asked(i)
    /\ \E v \in {Visible(codecs[i].handle), 0} :
         codecs' = [codecs EXCEPT ![i].state = "answered", ![i].version = v]
    /\ UNCHANGED <<hist, stored, recent, memo, pc, call>>

(* buildEncryptingCodec: no provider, or one that holds no keys.           *)
Keyless(handle, object) == object.enc = "edv" /\ handle \notin Keyholders

(* An unreadable description, or an encrypted one without keys, rejects    *)
(* and leaves the memo unless it was reset meanwhile; otherwise the codec  *)
(* is ready, with the stored schema and a snapshot for its initiator.      *)
SettleResolution(i) ==
    LET k == codecs[i]
        object == Object(k.version)
        opened == CanOpen(object.enc, object.custom)
    IN /\ k.state = "answered"
       /\ IF k.version = 0 \/ Keyless(k.handle, object)
          THEN /\ codecs' = [codecs EXCEPT ![i].state = "failed"]
               /\ memo' = IF memo[k.handle] = i
                          THEN [memo EXCEPT ![k.handle] = Unresolved] ELSE memo
          ELSE /\ codecs' = [codecs EXCEPT ![i].state = "ready",
                               ![i].snapshot = opened,
                               ![i].schema = IF object.enc = "edv"
                                  THEN StoredSchema("edv", object.custom) ELSE {}]
               /\ memo' = memo
       /\ UNCHANGED <<hist, stored, recent, pc, call>>

(* What setName, setTags, declareIndexes and meta do with the annotations  *)
(* version v holds, as opened through lens: k are the call's locals and cs *)
(* the codecs so far.  A write goes on pinned to v.                        *)
MetaRead(c, k, cs, v, lens) ==
    LET kind == k.req.kind
        schema == Opened(lens, Object(v).custom).schema
        settled == kind = "index" /\ k.req.decls \subseteq schema
        refused == \/ kind = "index" /\ Conflicting(schema, k.req.decls)
                   \/ v = 0 \/ ~ServesEtag
    IN \/ /\ kind = "meta" \/ settled
          /\ Finish(c, "done", 0)
          /\ codecs' = IF settled THEN WithSchema(cs, k.index, schema) ELSE cs
       \/ /\ IsReadModifyWrite(kind) /\ ~settled /\ refused
          /\ Fail(c)
          /\ codecs' = cs
       \/ /\ IsReadModifyWrite(kind) /\ ~settled /\ ~refused
          /\ Goto(c, "resolve")
          /\ call' = [call EXCEPT ![c] =
               [k EXCEPT !.got = v, !.gotLens = lens, !.pin = v, !.aim = "write"]]
          /\ codecs' = cs

(* declareIndexes is refused without a search index, or when it names one  *)
(* attribute on both terms (normalizeIndexRequests).                       *)
Undeclarable(scheme, decls) == scheme = "plain" \/ Conflicting(decls, decls)

(* The continuations of a settled resolution, its initiator's first: only  *)
(* that one is handed the snapshot, and any of them discards it.           *)
Resolved(c) ==
    LET k == call[c]
        i == k.codec
        handed == codecs[i].owner = c /\ codecs[i].snapshot
        cs == [codecs EXCEPT ![i].snapshot = FALSE]
        scheme == SchemeOf(i)
        version == codecs[i].version
    IN /\ pc[c] = "resolving"
       /\ IF codecs[i].state = "ready" /\ handed /\ k.aim # "write"
          THEN Remember(Handle(c), version, scheme) ELSE UNCHANGED recent
       /\ \/ /\ codecs[i].state = "failed"
             /\ Fail(c)
             /\ UNCHANGED codecs
          \/ /\ codecs[i].state = "ready"
             /\ codecs[i].owner = c \/ ~codecs[i].snapshot
             /\ \/ /\ k.aim = "write"
                   /\ Goto(c, "baseline")
                   /\ codecs' = cs /\ UNCHANGED call
                \/ /\ k.aim = "index" /\ Undeclarable(scheme, k.req.decls)
                   /\ Fail(c)
                   /\ codecs' = cs
                \/ /\ k.aim = "meta" /\ handed
                   /\ MetaRead(c, k, cs, version, scheme)
                \/ /\ k.aim = "index" /\ ~Undeclarable(scheme, k.req.decls) /\ handed
                   /\ MetaRead(c, [k EXCEPT !.index = i], cs, version, scheme)
                \/ /\ k.aim = "meta" /\ ~handed
                   /\ Goto(c, "get")
                   /\ codecs' = cs /\ UNCHANGED call
                \/ /\ k.aim = "index" /\ ~Undeclarable(scheme, k.req.decls) /\ ~handed
                   /\ Goto(c, "resolve")
                   /\ call' = [call EXCEPT ![c].index = i, ![c].aim = "meta"]
                   /\ codecs' = cs
       /\ UNCHANGED <<hist, stored, memo>>
-----------------------------------------------------------------------------
(* Reading the object (readCollectionMetadata, readMeta).                  *)

ServeGet(c) ==
    /\ pc[c] = "get"
    /\ Goto(c, "got")
    /\ call' = [call EXCEPT ![c].seen = Visible(Handle(c))]
    /\ UNCHANGED <<hist, stored, recent, memo, codecs>>

GotDescription(c) ==
    /\ pc[c] = "got" /\ call[c].aim = "describe"
    /\ Remember(Handle(c), call[c].seen, None)
    /\ Finish(c, "done", 0)
    /\ UNCHANGED <<hist, stored, memo, codecs>>

(* A custom the codec cannot open throws out of meta() before the read is  *)
(* remembered, and a null answer is not remembered either.                 *)
GotMeta(c) ==
    LET v == call[c].seen
        scheme == SchemeOf(call[c].codec)
    IN /\ pc[c] = "got" /\ call[c].aim = "meta"
       /\ IF v # 0 /\ ~CanOpen(scheme, Object(v).custom)
          THEN Fail(c) /\ UNCHANGED <<recent, codecs>>
          ELSE /\ IF v = 0 THEN UNCHANGED recent
                           ELSE Remember(Handle(c), v, scheme)
               /\ MetaRead(c, call[c], codecs, v, scheme)
       /\ UNCHANGED <<hist, stored, memo>>
-----------------------------------------------------------------------------
(* #writeStored.                                                           *)

(* The read the body is composed over is settled, so the PUT goes out,     *)
(* which forgets the handle's remembered read.                             *)
Send(c, v, lens) ==
    /\ Goto(c, "put")
    /\ call' = [call EXCEPT ![c].base = v, ![c].baseLens = lens, ![c].seed = 0]

(* Faulty variant: any read will do, whatever the caller pinned.           *)
AnyBaseline(c, v) == v # 0

(* A read is a baseline for the version the caller pinned, or for any.     *)
Matches(c, v) == v # 0 /\ call[c].pin \in {0, v}

(* The baseline: none for the guarded create; the caller's object, then    *)
(* the remembered read, each only if it is the version the caller pinned;  *)
(* a fresh read otherwise.  The remembered read is used up either way.     *)
Baseline(c) ==
    LET k == call[c]
        r == recent[Handle(c)]
        seeded == Matches(c, k.seed)
        remembered == Matches(c, r.version)
    IN /\ pc[c] = "baseline"
       /\ Forget(Handle(c))
       /\ \/ /\ k.req.absent
             /\ Send(c, 0, None)
          \/ /\ ~k.req.absent /\ seeded
             /\ IF ServesEtag THEN Send(c, k.seed, None) ELSE Fail(c)
          \/ /\ ~k.req.absent /\ ~seeded /\ remembered
             /\ Send(c, r.version, r.lens)
          \/ /\ ~k.req.absent /\ ~seeded /\ ~remembered
             /\ Goto(c, "get")
             /\ call' = [call EXCEPT ![c].seed = 0]
       /\ UNCHANGED <<hist, stored, memo, codecs>>

(* A null read is composed over only by a write that states its own        *)
(* absence; an unpinned write is refused over a read without a validator.  *)
GotBaseline(c) ==
    LET v == call[c].seen
    IN /\ pc[c] = "got" /\ call[c].aim = "write"
       /\ Forget(Handle(c))
       /\ IF \/ v = 0 /\ ~AllowAbsent(c)
             \/ v # 0 /\ call[c].pin = 0 /\ ~ServesEtag
          THEN Fail(c)
          ELSE Send(c, v, None)
       /\ UNCHANGED <<hist, stored, memo, codecs>>

(* The server checks the precondition, then its own rules.                 *)
ServePut(c) ==
    /\ pc[c] = "put"
    /\ \/ /\ Precondition(c) # stored
          /\ Goto(c, "conflict")
          /\ UNCHANGED <<hist, stored, call>>
       \/ /\ Precondition(c) = stored
          /\ stored # 0 /\ ~ServerAdmits(Object(stored), Body(c))
          /\ Fail(c)
          /\ UNCHANGED <<hist, stored>>
       \/ /\ Precondition(c) = stored
          /\ stored # 0 => ServerAdmits(Object(stored), Body(c))
          /\ hist' = Append(hist, [object |-> Body(c), by |-> c])
          /\ stored' = Len(hist')
          /\ Goto(c, "acked")
          /\ call' = [call EXCEPT ![c].ack = stored']
    /\ UNCHANGED <<recent, memo, codecs>>

(* A 412 is the caller's when it named the precondition itself; otherwise  *)
(* the write rebases: a read-modify-write from its meta(), any other write *)
(* from #writeStored's own read.                                           *)
Conflict(c) ==
    LET k == call[c]
    IN /\ PreconditionFailed(c)
       /\ IF k.req.absent \/ k.req.pinned \/ LastAttempt(c)
          THEN Fail(c)
          ELSE /\ Goto(c, IF IsReadModifyWrite(k.req.kind) THEN "resolve" ELSE "baseline")
               /\ call' = [call EXCEPT ![c] =
                    [Locals(k.req, 0, 0, IF IsReadModifyWrite(k.req.kind)
                                         THEN "meta" ELSE "write")
                       EXCEPT !.tries = k.tries + 1, !.index = k.index,
                              !.codec = k.codec]]
       /\ UNCHANGED <<hist, stored, recent, memo, codecs>>

(* A configuration write resets the codec; an annotation write installs    *)
(* the schema it sent on the codecs it captured.                           *)
Acked(c) ==
    LET k == call[c]
        schema == Sent(c).schema
    IN /\ pc[c] = "acked"
       /\ IF IsConfiguration(k.req.kind)
          THEN ResetCodec(Handle(c)) /\ UNCHANGED codecs
          ELSE /\ codecs' = WithSchema(WithSchema(codecs, k.codec, schema),
                                       k.index, schema)
               /\ UNCHANGED memo
       /\ Finish(c, "done", k.ack)
       /\ UNCHANGED <<hist, stored, recent>>
-----------------------------------------------------------------------------
(* delete: idempotent, so a 404 succeeds as well.                          *)
ServeDelete(c) ==
    /\ pc[c] = "delete"
    /\ stored' = 0
    /\ Goto(c, "deleted")
    /\ UNCHANGED <<hist, recent, memo, codecs, call>>

Deleted(c) ==
    /\ pc[c] = "deleted"
    /\ ResetCodec(Handle(c))
    /\ Finish(c, "done", 0)
    /\ UNCHANGED <<hist, stored, recent, codecs>>

(* A request or its answer is lost, or the server fails it: the call       *)
(* throws, whether or not the server has acted.                            *)
Lose(c) ==
    /\ pc[c] \in {"get", "got", "put", "acked", "conflict", "delete", "deleted"}
    /\ Fail(c)
    /\ UNCHANGED <<hist, stored, recent, memo, codecs>>
-----------------------------------------------------------------------------
Init ==
    /\ \/ hist = <<>> /\ stored = 0
       \/ \E object \in InitialObjects :
            hist = <<[object |-> object, by |-> None]>> /\ stored = 1
    /\ recent = [h \in Handles |-> Nothing]
    /\ memo = [h \in Handles |-> Unresolved]
    /\ codecs = <<>>
    /\ pc = [c \in Calls |-> "idle"]
    /\ call = [c \in Calls |-> Locals(NoRequest, 0, 0, None)]

Step(c) ==
    \/ Acquire(c) \/ Resolved(c)
    \/ ServeGet(c) \/ GotDescription(c) \/ GotMeta(c) \/ GotBaseline(c)
    \/ Baseline(c) \/ ServePut(c) \/ Conflict(c) \/ Acked(c)
    \/ ServeDelete(c) \/ Deleted(c)

Resolution == \E i \in DOMAIN codecs : ServeResolution(i) \/ SettleResolution(i)

(* Every call has returned.                                                *)
Quiet == (\A c \in Calls : pc[c] \in {"done", "failed"}) /\ UNCHANGED vars

Next == \/ \E c \in Calls : Start(c) \/ Step(c) \/ Lose(c)
        \/ Resolution
        \/ Quiet

Spec == Init /\ [][Next]_vars
-----------------------------------------------------------------------------
(* Properties.                                                             *)

Labels == {"idle", "resolve", "resolving", "get", "got", "baseline", "put",
           "conflict", "acked", "delete", "deleted", "done", "failed"}

Lenses == Schemes \union {None}

Aims == {None, "meta", "index", "describe", "write"}

CodecIds == 0 .. Len(codecs)

CallType ==
    [req : Requests \union {NoRequest}, pin : Versions, seed : Versions,
     aim : Aims,
     codec : CodecIds, index : CodecIds, seen : Versions,
     got : Versions, gotLens : Lenses, base : Versions, baseLens : Lenses,
     tries : 0 .. Attempts - 1, ack : Versions]

CodecType ==
    [handle : Handles, owner : Calls,
     state : {"asked", "answered", "ready", "failed"}, version : Versions,
     schema : SUBSET Declarations, snapshot : BOOLEAN]

Remembered == [version : Versions, lens : Lenses]

Entries == [object : Objects, by : Calls \union {None}]

(* Every variable keeps its shape, whatever mix of calls is under way, and *)
(* no call exceeds its compare-and-swap attempts.                          *)
TypeOK ==
    /\ hist \in Seq(Entries)
    /\ stored \in Versions
    /\ recent \in [Handles -> Remembered]
    /\ memo \in [Handles -> CodecIds]
    /\ codecs \in Seq(CodecType)
    /\ pc \in [Calls -> Labels]
    /\ call \in [Calls -> CallType]

(* A merge is never applied over a version the write did not observe       *)
(* (ARCHITECTURE.md, Conditional writes): when the server applies a PUT,   *)
(* the object its body was composed over is the one it replaces, and for   *)
(* setName, setTags and declareIndexes so is the one whose custom it       *)
(* extends.  A write composed over nothing only ever creates.              *)
NoLostUpdate ==
    [][\A c \in Calls :
         pc[c] = "put" /\ pc'[c] = "acked" =>
           /\ call[c].base = stored
           /\ IsReadModifyWrite(call[c].req.kind) => call[c].got = stored]_vars

Returned(c) == pc[c] = "done"

(* Why it holds: a write that quotes an ETag is either composed over that   *)
(* very version, or the version is gone for good, since no write brings an *)
(* old ETag back; and a read-modify-write quotes the version it read.      *)
PinnedWrite(c) ==
    LET k == call[c]
    IN /\ pc[c] = "resolving" => k.codec # Unresolved
       /\ k.req.absent => k.pin = 0
       /\ pc[c] \in {"baseline", "put"} => k.aim = "write"
       /\ k.aim = "write" /\ IsReadModifyWrite(k.req.kind) =>
            k.pin = k.got /\ k.pin # 0
       /\ pc[c] = "got" /\ k.aim = "write" /\ k.seen # 0 =>
            k.pin \in {0, k.seen} \/ k.pin # stored
       /\ pc[c] = "put" => k.pin \in {0, k.base} \/ k.pin # stored

PinnedWrites == \A c \in Calls : PinnedWrite(c)

IsWrite(req) == IsConfiguration(req.kind) \/ req.kind \in {"set", "patch"}

(* No write is applied twice, retries included, and a write that returned  *)
(* was applied; a lost answer is reported, never retried into a second     *)
(* application.                                                            *)
AppliedOnce ==
    /\ \A v, w \in 1 .. Len(hist) : hist[v].by = hist[w].by => v = w
    /\ \A c \in Calls :
         Returned(c) /\ IsWrite(call[c].req) =>
           \E v \in 1 .. Len(hist) : hist[v].by = c

(* The codec a handle works with, once it is resolved.                     *)
Held(h) == {i \in {memo[h]} \ {Unresolved} : codecs[i].state = "ready"}

(* Once configure or replaceDescription has returned, the handle never     *)
(* works with a codec resolved from an older description, even when a      *)
(* resolution was under way while the write was.                           *)
CodecNotOlderThanConfiguration ==
    \A c \in Calls : Returned(c) /\ IsConfiguration(call[c].req.kind) =>
        \A i \in Held(Handle(c)) : codecs[i].version >= call[c].ack

(* After declareIndexes returns, the handle can search what it declared:   *)
(* the codec it holds has the declarations in its schema.                  *)
DeclaredIsSearchable ==
    \A c \in Calls : Returned(c) /\ call[c].req.kind = "index" =>
        \A i \in Held(Handle(c)) : call[c].req.decls \subseteq codecs[i].schema

(* The stored schema never holds one attribute as both unique and not.     *)
UniquenessSettled ==
    stored # 0 => \A d, e \in Object(stored).custom.schema :
                     d.attr = e.attr => d.unique = e.unique

(* However the declarations of several clients race, a returned one is in  *)
(* force on its handle (ARCHITECTURE.md: declareIndex updates the          *)
(* persisted copy and this handle's codec together), and the stored schema *)
(* never contradicts itself: an index cannot change uniqueness in place.   *)
IndexesHold == DeclaredIsSearchable /\ UniquenessSettled

(* A declared index is never lost from the stored schema, nor its terms    *)
(* changed, by a racing declaration, rename or configuration of another    *)
(* handle: while one handle makes one call at a time.                      *)
SchemaOnlyGrows ==
    [][stored # 0 /\ stored' # 0 =>
         Object(stored).custom.schema \subseteq hist'[stored'].object.custom.schema]_vars

(* Every interleaving of the calls amounts to whole reads-modify-writes of *)
(* one register, in the order the server applied them, while one handle    *)
(* makes one call at a time: overlapping calls of one handle share its     *)
(* codec, and one of them can write without the schema (#writeStored).     *)
Register == INSTANCE MetadataRegister
                WITH cell <- IF stored = 0 THEN {} ELSE {Object(stored)}

AtomicRegister == Register!Spec

(* A promise that does not hold when calls overlap (README, Departures):   *)
(* setName keeps any existing tags and setTags any existing name           *)
(* (src/Collection.ts, README.md), and neither touches the index schema.   *)
PatchKeepsTheRest ==
    [][\A c \in Calls :
         pc[c] = "put" /\ pc'[c] = "acked" /\ call[c].req.kind = "patch" =>
           LET old == Object(stored).custom
               new == hist'[stored'].object.custom
           IN /\ new.name = Stated(call[c].req.name, old.name)
              /\ new.tags = Stated(call[c].req.tags, old.tags)
              /\ new.schema = old.schema]_vars
=============================================================================
