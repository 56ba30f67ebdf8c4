---------------------- MODULE CollectionMetadata_proofs ----------------------
(***************************************************************************)
(* Proofs about CollectionMetadata, for every set of handles and calls,    *)
(* every request they may carry and every number of attempts.              *)
(***************************************************************************)
EXTENDS CollectionMetadata, SequenceTheorems, TLAPS

(* A configuration body composed over an object is an object.              *)
LEMMA ConfigurationTyped ==
    ASSUME NEW stored0 \in Objects, NEW fields \in Fields, NEW keyed \in BOOLEAN
    PROVE  /\ Configured(stored0, fields, keyed) \in Objects
           /\ Replaced(stored0, fields, keyed) \in Objects
<1> DEFINE scheme == Stated(fields.enc, stored0.enc)
<1>1. ASSUME NEW s \in Schemes
      PROVE  ResealedCustom(stored0, s, keyed) \in Custom
  BY DEF ResealedCustom, Objects, Custom, NoCustom, Schemes, None
<1>2. scheme \in Schemes /\ Stated(fields.enc, "plain") \in Schemes
  BY DEF Stated, Fields, Objects, Schemes, None
<1>3. Stated(fields.conf, stored0.conf) \in Confs \union {None}
  BY DEF Stated, Fields, Objects, None
<1>4. fields.conf \in Confs \union {None}
  BY DEF Fields
<1> QED
  BY <1>1, <1>2, <1>3, <1>4 DEF Configured, Replaced, ConfigurationBody, Objects

(* An annotation body composed over an object is an object.                *)
LEMMA AnnotationTyped ==
    ASSUME NEW stored0 \in Objects, NEW codec \in Schemes, NEW custom \in Custom
    PROVE  Annotated(stored0, codec, custom) \in Objects
  BY DEF Annotated, Objects, Custom, Schemes

(* What a codec reads out of a custom is a custom, its schema a set.       *)
LEMMA OpenedTyped ==
    ASSUME NEW codec \in Lenses, NEW custom \in Custom
    PROVE  /\ Opened(codec, custom) \in Custom
           /\ StoredSchema(codec, custom) \in SUBSET Declarations
<1>1. NoCustom \in Custom
  BY DEF NoCustom, Custom, None, Schemes
<1> QED
  BY <1>1 DEF Opened, StoredSchema, CanOpen, Custom

(* The object of any version, the absent one included, is an object.       *)
LEMMA ObjectTyped ==
    ASSUME TypeOK, NEW v \in Versions
    PROVE  Object(v) \in Objects
<1>1. Blank \in Objects
  BY DEF Blank, NoCustom, Objects, Custom, Schemes, None
<1>2. CASE v = 0
  BY <1>1, <1>2 DEF Object
<1>3. CASE v # 0
  <2>1. hist \in Seq(Entries) /\ v \in 1 .. Len(hist)
    BY <1>3 DEF TypeOK, Versions
  <2>2. hist[v] \in Entries
    BY <2>1
  <2> QED
    BY <1>3, <2>2 DEF Object, Entries
<1> QED
  BY <1>2, <1>3

(* A codec, the unresolved one included, has one of the two schemes.       *)
LEMMA SchemeTyped ==
    ASSUME TypeOK, NEW i \in CodecIds
    PROVE  SchemeOf(i) \in Schemes
<1>1. CASE i = Unresolved
  BY <1>1 DEF SchemeOf, Schemes
<1>2. CASE i # Unresolved
  <2>1. codecs \in Seq(CodecType) /\ i \in 1 .. Len(codecs)
    BY <1>2 DEF TypeOK, CodecIds, Unresolved
  <2>2. codecs[i] \in CodecType
    BY <2>1
  <2>3. codecs[i].version \in Versions
    BY <2>2 DEF CodecType
  <2> QED
    BY <1>2, <2>3, ObjectTyped DEF SchemeOf, Objects
<1> QED
  BY <1>1, <1>2

(* What a write sends is a custom, and its body an object.                 *)
LEMMA BodyTyped ==
    ASSUME TypeOK, NEW c \in Calls
    PROVE  Sent(c) \in Custom /\ Body(c) \in Objects
<1> DEFINE k == call[c]
<1>1. k \in CallType
  BY DEF TypeOK
<1>2. /\ k.base \in Versions /\ k.got \in Versions /\ k.codec \in CodecIds
      /\ k.baseLens \in Lenses /\ k.gotLens \in Lenses
      /\ k.req \in Requests \union {NoRequest}
  BY <1>1 DEF CallType
<1>3. k.req \in RequestType
  <2>1. NoRequest \in RequestType
    BY DEF NoRequest, RequestType, Fields, None
  <2>2. Requests \subseteq RequestType
    BY RequestsTyped DEF RequestsTyped
  <2> QED
    BY <1>2, <2>1, <2>2
<1>4. Object(k.base) \in Objects /\ Object(k.got) \in Objects
  BY <1>2, ObjectTyped
<1>5. SchemeOf(k.codec) \in Schemes
  BY <1>2, SchemeTyped
<1>6. Fetched(c) \in Custom
  <2>1. Object(k.got).custom \in Custom
    BY <1>4 DEF Objects
  <2> QED
    BY <1>2, <2>1, OpenedTyped DEF Fetched
<1>7. Sent(c) \in Custom
  <2> DEFINE r == k.req
             lens == IF k.baseLens = None THEN SchemeOf(k.codec) ELSE k.baseLens
             set == [NoCustom EXCEPT !.name = r.name, !.tags = r.tags]
             patch == [Fetched(c) EXCEPT !.name = Stated(r.name, @),
                                         !.tags = Stated(r.tags, @)]
             index == [Fetched(c) EXCEPT !.schema = @ \union r.decls]
             stated == CASE r.kind = "set" -> set
                         [] r.kind = "patch" -> patch
                         [] OTHER -> index
  <2>1. set \in Custom
    BY <1>3 DEF RequestType, NoCustom, Custom, None
  <2>2. patch \in Custom
    BY <1>3, <1>6 DEF RequestType, Custom, Stated, None
  <2>3. index \in Custom
    BY <1>3, <1>6 DEF RequestType, Custom
  <2>4. stated \in Custom
    BY <2>1, <2>2, <2>3
  <2>5. lens \in Lenses
    BY <1>2, <1>5 DEF Lenses
  <2>6. WithStoredSchema(stated, lens, Object(k.base)) \in Custom
    <3>1. Object(k.base).custom \in Custom
      BY <1>4 DEF Objects
    <3>2. StoredSchema(lens, Object(k.base).custom) \in SUBSET Declarations
      BY <2>5, <3>1, OpenedTyped
    <3> HIDE DEF stated, lens
    <3> QED
      BY <2>4, <3>2 DEF WithStoredSchema, Custom
  <2>7. Sent(c) = IF stated.schema # {} THEN stated
                  ELSE WithStoredSchema(stated, lens, Object(k.base))
    BY DEF Sent
  <2> HIDE DEF stated, lens
  <2> QED
    BY <2>4, <2>6, <2>7
<1>8. Annotated(Object(k.base), SchemeOf(k.codec), Sent(c)) \in Objects
  BY <1>4, <1>5, <1>7, AnnotationTyped
<1>9. k.req.fields \in Fields
  BY <1>3 DEF RequestType
<1>10. /\ Configured(Object(k.base), k.req.fields, Handle(c) \in Keyholders) \in Objects
       /\ Replaced(Object(k.base), k.req.fields, Handle(c) \in Keyholders) \in Objects
  <2>1. (Handle(c) \in Keyholders) \in BOOLEAN
    OBVIOUS
  <2> QED
    BY <1>4, <1>9, <2>1, ConfigurationTyped, Zenon
<1> QED
  BY <1>7, <1>8, <1>10 DEF Body
-----------------------------------------------------------------------------
(* Type correctness.                                                       *)

(* The types only depend on the lengths of the history and of codecs.      *)
LEMMA SameTypes ==
    ASSUME hist' = hist, Len(codecs') = Len(codecs)
    PROVE  /\ Versions' = Versions /\ CodecIds' = CodecIds
           /\ CallType' = CallType /\ CodecType' = CodecType
           /\ Remembered' = Remembered
  BY DEF Versions, CodecIds, CallType, CodecType, Remembered

(* A step that leaves the history and the number of codecs alone need only *)
(* keep each variable in its present type.                                 *)
LEMMA Framed ==
    ASSUME TypeOK, hist' = hist, Len(codecs') = Len(codecs),
           codecs' \in Seq(CodecType), stored' \in Versions,
           recent' \in [Handles -> Remembered], memo' \in [Handles -> CodecIds],
           pc' \in [Calls -> Labels], call' \in [Calls -> CallType]
    PROVE  TypeOK'
  BY SameTypes DEF TypeOK

(* The values a fresh call starts from are in range.                       *)
LEMMA ZeroTyped ==
    ASSUME TypeOK
    PROVE  /\ 0 \in Versions /\ 0 \in CodecIds /\ 0 \in 0 .. Attempts - 1
           /\ Unresolved \in CodecIds
<1>1. Len(hist) \in Nat /\ Len(codecs) \in Nat
  BY DEF TypeOK
<1> QED
  BY <1>1, AttemptsPositive DEF AttemptsPositive, Versions, CodecIds, Unresolved

(* The locals a call starts with are typed.                                *)
LEMMA LocalsTyped ==
    ASSUME TypeOK, NEW req \in Requests \union {NoRequest},
           NEW pin \in Versions, NEW seed \in Versions, NEW aim \in Aims
    PROVE  Locals(req, pin, seed, aim) \in CallType
  BY ZeroTyped DEF Locals, CallType, Lenses, Unresolved

(* A call that returns leaves pc and call typed.                           *)
LEMMA FinishTyped ==
    ASSUME TypeOK, NEW c \in Calls, NEW label \in Labels, NEW ack \in Versions,
           Finish(c, label, ack)
    PROVE  pc' \in [Calls -> Labels] /\ call' \in [Calls -> CallType]
<1>1. call[c].req \in Requests \union {NoRequest}
  BY DEF TypeOK, CallType
<1>2. Locals(call[c].req, 0, 0, None) \in CallType
  BY <1>1, ZeroTyped, LocalsTyped DEF Aims
<1>3. [Locals(call[c].req, 0, 0, None) EXCEPT !.ack = ack] \in CallType
  BY <1>2 DEF CallType
<1> QED
  BY <1>3 DEF Finish, Goto, TypeOK

(* So does a call that throws.                                             *)
LEMMA FailTyped ==
    ASSUME TypeOK, NEW c \in Calls, Fail(c)
    PROVE  pc' \in [Calls -> Labels] /\ call' \in [Calls -> CallType]
  BY ZeroTyped, FinishTyped DEF Fail, Labels

(* Moving a call to a label leaves pc typed.                               *)
LEMMA GotoTyped ==
    ASSUME TypeOK, NEW c \in Calls, NEW label \in Labels, Goto(c, label)
    PROVE  pc' \in [Calls -> Labels]
  BY DEF Goto, TypeOK

(* Remembering or forgetting a read leaves recent typed.                   *)
LEMMA RememberTyped ==
    ASSUME TypeOK, NEW h \in Handles, NEW v \in Versions, NEW lens \in Lenses
    PROVE  /\ Remember(h, v, lens) => recent' \in [Handles -> Remembered]
           /\ Forget(h) => recent' \in [Handles -> Remembered]
<1>1. Nothing \in Remembered
  BY ZeroTyped DEF Nothing, Remembered, Lenses
<1>2. [version |-> v, lens |-> lens] \in Remembered
  BY DEF Remembered
<1> QED
  BY <1>1, <1>2 DEF Remember, Forget, TypeOK

(* Every call is made on a handle.                                         *)
LEMMA HandleTyped ==
    ASSUME NEW c \in Calls
    PROVE  Handle(c) \in Handles
  BY CallsOnHandles DEF CallsOnHandles, Handle

(* What a handle can read is a version.                                    *)
LEMMA VisibleTyped ==
    ASSUME TypeOK, NEW h \in Handles
    PROVE  Visible(h) \in Versions
  BY ZeroTyped DEF Visible, TypeOK

(* Installing a schema on a codec leaves codecs typed.                     *)
LEMMA WithSchemaTyped ==
    ASSUME TypeOK, NEW cs \in Seq(CodecType), Len(cs) = Len(codecs),
           NEW i \in CodecIds, NEW schema \in SUBSET Declarations
    PROVE  /\ WithSchema(cs, i, schema) \in Seq(CodecType)
           /\ Len(WithSchema(cs, i, schema)) = Len(codecs)
<1>1. CASE SchemeOf(i) # "edv"
  BY <1>1 DEF WithSchema
<1>2. CASE SchemeOf(i) = "edv"
  <2>1. i \in 1 .. Len(cs)
    BY <1>2 DEF SchemeOf, CodecIds, Unresolved
  <2>2. cs[i] \in CodecType
    BY <2>1
  <2>3. [cs[i] EXCEPT !.schema = schema] \in CodecType
    BY <2>2 DEF CodecType
  <2> QED
    BY <1>2, <2>1, <2>3, ExceptSeq DEF WithSchema
<1> QED
  BY <1>1, <1>2

(* A call carries a request it may have been given, or none yet.           *)
LEMMA RequestTyped ==
    ASSUME TypeOK, NEW c \in Calls
    PROVE  /\ call[c] \in CallType
           /\ call[c].req \in Requests \union {NoRequest}
           /\ call[c].req \in RequestType
<1>1. call[c] \in CallType /\ call[c].req \in Requests \union {NoRequest}
  BY DEF TypeOK, CallType
<1>2. NoRequest \in RequestType
  BY DEF NoRequest, RequestType, Fields, None
<1>3. Requests \subseteq RequestType
  BY RequestsTyped DEF RequestsTyped
<1> QED
  BY <1>1, <1>2, <1>3

(* What a read-modify-write does with its read leaves its state typed.     *)
LEMMA MetaReadTyped ==
    ASSUME TypeOK, NEW c \in Calls, NEW k \in CallType,
           NEW cs \in Seq(CodecType), Len(cs) = Len(codecs),
           NEW v \in Versions, NEW lens \in Lenses, MetaRead(c, k, cs, v, lens)
    PROVE  /\ codecs' \in Seq(CodecType) /\ Len(codecs') = Len(codecs)
           /\ pc' \in [Calls -> Labels] /\ call' \in [Calls -> CallType]
<1> DEFINE schema == Opened(lens, Object(v).custom).schema
           settled == k.req.kind = "index" /\ k.req.decls \subseteq schema
           pinned == [k EXCEPT !.got = v, !.gotLens = lens, !.pin = v, !.aim = "write"]
<1>1. schema \in SUBSET Declarations
  <2>1. Object(v).custom \in Custom
    BY ObjectTyped DEF Objects
  <2>2. Opened(lens, Object(v).custom) \in Custom
    BY <2>1, OpenedTyped
  <2> QED
    BY <2>2 DEF Custom
<1>2. CASE Finish(c, "done", 0) /\ codecs' = IF settled THEN WithSchema(cs, k.index, schema) ELSE cs
  <2>1. k.index \in CodecIds
    BY DEF CallType
  <2>2. codecs' \in Seq(CodecType) /\ Len(codecs') = Len(codecs)
    BY <1>1, <1>2, <2>1, WithSchemaTyped
  <2> QED
    BY <1>2, <2>2, ZeroTyped, FinishTyped DEF Labels
<1>3. CASE Fail(c) /\ codecs' = cs
  BY <1>3, FailTyped
<1>4. CASE Goto(c, "resolve") /\ call' = [call EXCEPT ![c] = pinned] /\ codecs' = cs
  <2>1. pinned \in CallType
    BY DEF CallType, Aims
  <2>2. call' \in [Calls -> CallType]
    BY <1>4, <2>1 DEF TypeOK
  <2>3. pc' \in [Calls -> Labels]
    BY <1>4, GotoTyped DEF Labels
  <2> QED
    BY <1>4, <2>2, <2>3
<1> QED
  BY <1>2, <1>3, <1>4 DEF MetaRead

(* Starting a call keeps the types.                                        *)
LEMMA StartTyped ==
    ASSUME TypeOK, NEW c \in Calls, Start(c)
    PROVE  TypeOK'
<1>1. PICK req \in Requests :
        \E pin \in Quotable(req.pinned), seed \in Quotable(req.seeded) :
           /\ Goto(c, Entry(req))
           /\ call' = [call EXCEPT ![c] = Locals(req, pin, seed, EntryAim(req))]
  BY DEF Start
<1>2. PICK pin \in Quotable(req.pinned), seed \in Quotable(req.seeded) :
           /\ Goto(c, Entry(req))
           /\ call' = [call EXCEPT ![c] = Locals(req, pin, seed, EntryAim(req))]
  BY <1>1
<1>3. pin \in Versions /\ seed \in Versions
  BY ZeroTyped DEF Quotable, Versions
<1>4. Entry(req) \in Labels /\ EntryAim(req) \in Aims
  BY DEF Entry, EntryAim, Labels, Aims
<1>5. Locals(req, pin, seed, EntryAim(req)) \in CallType
  BY <1>3, <1>4, LocalsTyped
<1>6. pc' \in [Calls -> Labels] /\ call' \in [Calls -> CallType]
  BY <1>2, <1>4, <1>5, GotoTyped DEF TypeOK
<1> QED
  BY <1>6, Framed DEF Start, TypeOK

(* Joining or starting a resolution keeps the types.                       *)
LEMMA AcquireTyped ==
    ASSUME TypeOK, NEW c \in Calls, Acquire(c)
    PROVE  TypeOK'
<1> DEFINE new == [handle |-> Handle(c), owner |-> c, state |-> "asked",
                   version |-> 0, schema |-> {}, snapshot |-> FALSE]
<1>1. pc' \in [Calls -> Labels]
  BY GotoTyped DEF Acquire, Labels
<1>2. Handle(c) \in Handles
  BY HandleTyped
<1>3. new \in CodecType
  BY <1>2, ZeroTyped DEF CodecType
<1>4. hist' = hist /\ Versions' = Versions
  BY DEF Acquire, Versions
<1>5. CodecType' = CodecType /\ Remembered' = Remembered
  BY <1>4 DEF CodecType, Remembered
<1>6. CASE memo[Handle(c)] = Unresolved
  <2>1. /\ codecs' = Append(codecs, new)
        /\ memo' = [memo EXCEPT ![Handle(c)] = Len(codecs')]
    BY <1>6 DEF Acquire
  <2>2. codecs' \in Seq(CodecType) /\ Len(codecs') = Len(codecs) + 1
    BY <1>3, <2>1, AppendProperties DEF TypeOK
  <2>3. Len(codecs) \in Nat
    BY DEF TypeOK
  <2>4. CodecIds \subseteq CodecIds' /\ Len(codecs') \in CodecIds'
    BY <2>2, <2>3 DEF CodecIds
  <2>5. memo' \in [Handles -> CodecIds']
    BY <2>1, <2>4 DEF TypeOK
  <2>6. CallType \subseteq CallType'
    BY <1>4, <2>4 DEF CallType
  <2>7. call' \in [Calls -> CallType']
    <3>1. memo'[Handle(c)] \in CodecIds'
      BY <1>2, <2>5
    <3>2. [call[c] EXCEPT !.codec = memo'[Handle(c)]] \in CallType'
      <4>1. call[c] \in CallType'
        BY <2>6 DEF TypeOK
      <4> QED
        BY <3>1, <4>1 DEF CallType
    <3> QED
      BY <2>6, <3>2 DEF Acquire, TypeOK
  <2> QED
    BY <1>1, <1>4, <1>5, <2>2, <2>5, <2>7 DEF Acquire, TypeOK
<1>7. CASE memo[Handle(c)] # Unresolved
  <2>1. codecs' = codecs /\ memo' = memo
    BY <1>7 DEF Acquire
  <2>2. memo[Handle(c)] \in CodecIds
    BY <1>2 DEF TypeOK
  <2>3. [call[c] EXCEPT !.codec = memo[Handle(c)]] \in CallType
    BY <2>2, RequestTyped DEF CallType
  <2>4. call' \in [Calls -> CallType]
    BY <2>1, <2>3 DEF Acquire, TypeOK
  <2> QED
    BY <1>1, <1>4, <2>1, <2>4, Framed DEF Acquire, TypeOK
<1> QED
  BY <1>6, <1>7

(* Answering and settling a resolution keeps the types.                    *)
LEMMA ResolutionTyped ==
    ASSUME TypeOK, NEW i \in DOMAIN codecs,
           ServeResolution(i) \/ SettleResolution(i)
    PROVE  TypeOK'
<1>1. i \in 1 .. Len(codecs) /\ codecs \in Seq(CodecType)
  BY DEF TypeOK
<1>2. codecs[i] \in CodecType
  BY <1>1
<1>3. codecs[i].version \in Versions /\ codecs[i].handle \in Handles
  BY <1>2 DEF CodecType
<1>4. CASE ServeResolution(i)
  <2>1. PICK v \in {Visible(codecs[i].handle), 0} :
          codecs' = [codecs EXCEPT ![i].state = "answered", ![i].version = v]
    BY <1>4 DEF ServeResolution
  <2>2. v \in Versions
    BY <1>3, ZeroTyped, VisibleTyped
  <2>3. [codecs[i] EXCEPT !.state = "answered", !.version = v] \in CodecType
    BY <1>2, <2>2 DEF CodecType
  <2>4. codecs' = [codecs EXCEPT ![i] = [codecs[i] EXCEPT !.state = "answered", !.version = v]]
    BY <1>1, <2>1
  <2>5. codecs' \in Seq(CodecType) /\ Len(codecs') = Len(codecs)
    BY <1>1, <2>3, <2>4, ExceptSeq
  <2> QED
    BY <1>4, <2>5, Framed DEF ServeResolution, TypeOK
<1>5. CASE SettleResolution(i)
  <2> DEFINE object == Object(codecs[i].version)
             schema == IF object.enc = "edv" THEN StoredSchema("edv", object.custom) ELSE {}
             failed == [codecs[i] EXCEPT !.state = "failed"]
             ready == [codecs[i] EXCEPT !.state = "ready",
                         !.snapshot = CanOpen(object.enc, object.custom),
                         !.schema = schema]
  <2>1. object.custom \in Custom /\ object.enc \in Schemes
    BY <1>3, ObjectTyped DEF Objects
  <2>2. schema \in SUBSET Declarations
    BY <2>1, OpenedTyped DEF Lenses, Schemes
  <2>3. failed \in CodecType
    BY <1>2 DEF CodecType
  <2>4. CanOpen(object.enc, object.custom) \in BOOLEAN
    BY DEF CanOpen
  <2>5. ready \in CodecType
    <3> DEFINE opened == CanOpen(object.enc, object.custom)
    <3> HIDE DEF opened, schema
    <3> QED
      BY <1>2, <2>2, <2>4 DEF CodecType, opened
  <2>6. \/ codecs' = [codecs EXCEPT ![i] = failed]
        \/ codecs' = [codecs EXCEPT ![i] = ready]
    BY <1>1, <1>5 DEF SettleResolution, Keyless
  <2>7. codecs' \in Seq(CodecType) /\ Len(codecs') = Len(codecs)
    <3> HIDE DEF failed, ready
    <3> QED
      BY <1>1, <2>3, <2>5, <2>6, ExceptSeq
  <2>8. memo' \in [Handles -> CodecIds]
    BY <1>3, <1>5, ZeroTyped DEF SettleResolution, Keyless, TypeOK
  <2> QED
    BY <1>5, <2>7, <2>8, Framed DEF SettleResolution, Keyless, TypeOK
<1> QED
  BY <1>4, <1>5

(* Going on with a resolved codec keeps the types.                         *)
LEMMA ResolvedTyped ==
    ASSUME TypeOK, NEW c \in Calls, Resolved(c),
           call[c].codec \in DOMAIN codecs
    PROVE  TypeOK'
<1> DEFINE k == call[c]
           i == k.codec
           spent == [codecs[i] EXCEPT !.snapshot = FALSE]
           cs == [codecs EXCEPT ![i] = spent]
           scheme == SchemeOf(i)
           version == codecs[i].version
<1>1. i \in 1 .. Len(codecs) /\ codecs \in Seq(CodecType) /\ i \in CodecIds
  <2>1. codecs \in Seq(CodecType) /\ i \in DOMAIN codecs
    BY DEF TypeOK
  <2> HIDE DEF i
  <2>2. i \in 1 .. Len(codecs) /\ Len(codecs) \in Nat
    BY <2>1
  <2> QED
    BY <2>1, <2>2 DEF CodecIds
<1>2. codecs[i] \in CodecType /\ version \in Versions
  <2>1. codecs[i] \in CodecType
    BY <1>1
  <2> QED
    BY <2>1 DEF CodecType
<1>3. spent \in CodecType
  BY <1>2 DEF CodecType
<1>4. cs \in Seq(CodecType) /\ Len(cs) = Len(codecs)
  BY <1>1, <1>3, ExceptSeq
<1>5. cs = [codecs EXCEPT ![i].snapshot = FALSE]
  BY <1>1
<1>6. k \in CallType
  BY RequestTyped
<1>7. scheme \in Lenses
  BY <1>1, SchemeTyped DEF Lenses
<1>8. recent' \in [Handles -> Remembered]
  BY <1>2, <1>7, HandleTyped, RememberTyped DEF Resolved, TypeOK
<1>9. /\ codecs' \in Seq(CodecType) /\ Len(codecs') = Len(codecs)
      /\ pc' \in [Calls -> Labels] /\ call' \in [Calls -> CallType]
  <2>1. CASE Fail(c) /\ codecs' = codecs
    BY <1>1, <2>1, FailTyped
  <2>2. CASE Fail(c) /\ codecs' = cs
    BY <1>4, <2>2, FailTyped
  <2>3. CASE Goto(c, "baseline") /\ codecs' = cs /\ call' = call
    BY <1>4, <2>3, GotoTyped DEF TypeOK, Labels
  <2>4. CASE MetaRead(c, k, cs, version, scheme)
    BY <1>2, <1>4, <1>6, <1>7, <2>4, MetaReadTyped
  <2>5. CASE MetaRead(c, [k EXCEPT !.index = i], cs, version, scheme)
    <3>1. [k EXCEPT !.index = i] \in CallType
      BY <1>1, <1>6 DEF CallType
    <3> HIDE DEF cs, version, scheme, k, i
    <3> QED
      BY <1>2, <1>4, <1>7, <2>5, <3>1, MetaReadTyped
  <2>6. CASE Goto(c, "get") /\ codecs' = cs /\ call' = call
    BY <1>4, <2>6, GotoTyped DEF TypeOK, Labels
  <2>7. CASE /\ Goto(c, "resolve") /\ codecs' = cs
             /\ call' = [call EXCEPT ![c].index = i, ![c].aim = "meta"]
    <3>1. [k EXCEPT !.index = i, !.aim = "meta"] \in CallType
      BY <1>1, <1>6 DEF CallType, Aims
    <3>2. call' = [call EXCEPT ![c] = [k EXCEPT !.index = i, !.aim = "meta"]]
      BY <2>7 DEF TypeOK
    <3>3. call' \in [Calls -> CallType]
      BY <3>1, <3>2 DEF TypeOK
    <3> QED
      BY <1>4, <2>7, <3>3, GotoTyped DEF Labels
  <2> QED
    <3> HIDE DEF scheme, version
    <3>1. \/ Fail(c) /\ codecs' = codecs
          \/ Fail(c) /\ codecs' = cs
          \/ Goto(c, "baseline") /\ codecs' = cs /\ call' = call
          \/ MetaRead(c, k, cs, version, scheme)
          \/ MetaRead(c, [k EXCEPT !.index = i], cs, version, scheme)
          \/ Goto(c, "get") /\ codecs' = cs /\ call' = call
          \/ /\ Goto(c, "resolve") /\ codecs' = cs
             /\ call' = [call EXCEPT ![c].index = i, ![c].aim = "meta"]
      BY <1>5, Zenon DEF Resolved, version, scheme
    <3> QED
      BY <2>1, <2>2, <2>3, <2>4, <2>5, <2>6, <2>7, <3>1
<1> QED
  BY <1>8, <1>9, Framed DEF Resolved, TypeOK

(* Reading the object keeps the types.                                     *)
LEMMA ReadTyped ==
    ASSUME TypeOK, NEW c \in Calls,
           ServeGet(c) \/ GotDescription(c) \/ GotMeta(c)
    PROVE  TypeOK'
<1>1. call[c] \in CallType /\ call[c].seen \in Versions /\ call[c].codec \in CodecIds
  BY RequestTyped DEF CallType
<1>2. CASE ServeGet(c)
  <2>1. [call[c] EXCEPT !.seen = Visible(Handle(c))] \in CallType
    BY <1>1, HandleTyped, VisibleTyped DEF CallType
  <2>2. call' \in [Calls -> CallType] /\ pc' \in [Calls -> Labels]
    BY <1>2, <2>1, GotoTyped DEF ServeGet, TypeOK, Labels
  <2> QED
    BY <1>2, <2>2, Framed DEF ServeGet, TypeOK
<1>3. CASE GotDescription(c)
  <2>1. recent' \in [Handles -> Remembered]
    BY <1>1, <1>3, HandleTyped, RememberTyped DEF GotDescription, Lenses
  <2>2. pc' \in [Calls -> Labels] /\ call' \in [Calls -> CallType]
    BY <1>3, ZeroTyped, FinishTyped DEF GotDescription, Labels
  <2> QED
    BY <1>3, <2>1, <2>2, Framed DEF GotDescription, TypeOK
<1>4. CASE GotMeta(c)
  <2>1. SchemeOf(call[c].codec) \in Lenses
    BY <1>1, SchemeTyped DEF Lenses
  <2>2. recent' \in [Handles -> Remembered]
    BY <1>1, <1>4, <2>1, HandleTyped, RememberTyped DEF GotMeta, TypeOK
  <2>3. CASE Fail(c) /\ codecs' = codecs
    BY <1>4, <2>2, <2>3, FailTyped, Framed DEF GotMeta, TypeOK
  <2>4. CASE MetaRead(c, call[c], codecs, call[c].seen, SchemeOf(call[c].codec))
    <3>1. /\ codecs' \in Seq(CodecType) /\ Len(codecs') = Len(codecs)
          /\ pc' \in [Calls -> Labels] /\ call' \in [Calls -> CallType]
      BY <1>1, <2>1, <2>4, MetaReadTyped DEF TypeOK
    <3> QED
      BY <1>4, <2>2, <3>1, Framed DEF GotMeta, TypeOK
  <2> QED
    BY <1>4, <2>3, <2>4, Zenon DEF GotMeta
<1> QED
  BY <1>2, <1>3, <1>4

(* Sending a PUT leaves the call typed.                                    *)
LEMMA SendTyped ==
    ASSUME TypeOK, NEW c \in Calls, NEW v \in Versions, NEW lens \in Lenses,
           Send(c, v, lens)
    PROVE  pc' \in [Calls -> Labels] /\ call' \in [Calls -> CallType]
<1>1. [call[c] EXCEPT !.base = v, !.baseLens = lens, !.seed = 0] \in CallType
  BY RequestTyped, ZeroTyped DEF CallType
<1>2. call' = [call EXCEPT ![c] = [call[c] EXCEPT !.base = v, !.baseLens = lens, !.seed = 0]]
  BY DEF Send, TypeOK
<1> QED
  BY <1>1, <1>2, GotoTyped DEF Send, TypeOK, Labels

(* Choosing a baseline keeps the types.                                    *)
LEMMA BaselineTyped ==
    ASSUME TypeOK, NEW c \in Calls, Baseline(c) \/ GotBaseline(c)
    PROVE  TypeOK'
<1> DEFINE k == call[c]
           r == recent[Handle(c)]
<1>1. k \in CallType /\ k.seed \in Versions /\ k.seen \in Versions
  BY RequestTyped DEF CallType
<1>2. r.version \in Versions /\ r.lens \in Lenses /\ None \in Lenses
  BY HandleTyped DEF TypeOK, Remembered, Lenses
<1>3. recent' \in [Handles -> Remembered]
  BY <1>2, ZeroTyped, HandleTyped, RememberTyped DEF Baseline, GotBaseline
<1>4. pc' \in [Calls -> Labels] /\ call' \in [Calls -> CallType]
  <2>1. CASE Fail(c)
    BY <2>1, FailTyped
  <2>2. CASE Send(c, 0, None) \/ Send(c, k.seed, None) \/ Send(c, k.seen, None)
    BY <1>1, <1>2, <2>2, ZeroTyped, SendTyped
  <2>3. CASE Send(c, r.version, r.lens)
    BY <1>2, <2>3, SendTyped
  <2>4. CASE Goto(c, "get") /\ call' = [call EXCEPT ![c].seed = 0]
    <3>1. [k EXCEPT !.seed = 0] \in CallType
      BY <1>1, ZeroTyped DEF CallType
    <3> QED
      BY <2>4, <3>1, GotoTyped DEF TypeOK, Labels
  <2> QED
    BY <2>1, <2>2, <2>3, <2>4, Zenon DEF Baseline, GotBaseline
<1> QED
  BY <1>3, <1>4, Framed DEF Baseline, GotBaseline, TypeOK

(* Applying or refusing a PUT keeps the types.                             *)
LEMMA PutTyped ==
    ASSUME TypeOK, NEW c \in Calls, ServePut(c)
    PROVE  TypeOK'
<1>1. CASE hist' = hist
  <2>1. CASE Goto(c, "conflict") /\ UNCHANGED <<hist, stored, call>>
    BY <2>1, GotoTyped, Framed DEF ServePut, TypeOK, Labels
  <2>2. CASE Fail(c) /\ UNCHANGED <<hist, stored>>
    BY <2>2, FailTyped, Framed DEF ServePut, TypeOK
  <2>3. CASE hist' = Append(hist, [object |-> Body(c), by |-> c])
    <3>1. [object |-> Body(c), by |-> c] \in Entries
      BY BodyTyped DEF Entries
    <3>2. Len(hist') = Len(hist) + 1 /\ Len(hist) \in Nat
      BY <2>3, <3>1, AppendProperties DEF TypeOK
    <3> QED
      BY <1>1, <3>2
  <2> QED
    BY <2>1, <2>2, <2>3 DEF ServePut
<1>2. CASE hist' # hist
  <2>1. /\ hist' = Append(hist, [object |-> Body(c), by |-> c])
        /\ stored' = Len(hist')
        /\ Goto(c, "acked")
        /\ call' = [call EXCEPT ![c].ack = stored']
        /\ UNCHANGED <<recent, memo, codecs>>
    BY <1>2 DEF ServePut
  <2>2. [object |-> Body(c), by |-> c] \in Entries
    BY BodyTyped DEF Entries
  <2>3. hist' \in Seq(Entries) /\ Len(hist') = Len(hist) + 1 /\ Len(hist) \in Nat
    BY <2>1, <2>2, AppendProperties DEF TypeOK
  <2>4. Versions \subseteq Versions' /\ stored' \in Versions'
    BY <2>1, <2>3 DEF Versions
  <2>5. CodecIds' = CodecIds
    BY <2>1 DEF CodecIds
  <2>6. CallType \subseteq CallType' /\ CodecType \subseteq CodecType'
        /\ Remembered \subseteq Remembered'
    BY <2>4, <2>5 DEF CallType, CodecType, Remembered
  <2>7. recent' \in [Handles -> Remembered']
    BY <2>1, <2>6 DEF TypeOK
  <2>8. codecs' \in Seq(CodecType')
    BY <2>1, <2>6 DEF TypeOK
  <2>9. call' \in [Calls -> CallType']
    <3>1. call[c] \in CallType'
      BY <2>6 DEF TypeOK
    <3>2. [call[c] EXCEPT !.ack = stored'] \in CallType'
      BY <2>4, <3>1 DEF CallType
    <3> QED
      BY <2>1, <2>6, <3>2 DEF TypeOK
  <2>10. pc' \in [Calls -> Labels]
    BY <2>1, GotoTyped DEF Labels
  <2> QED
    BY <2>1, <2>3, <2>4, <2>5, <2>7, <2>8, <2>9, <2>10 DEF TypeOK
<1> QED
  BY <1>1, <1>2

(* Rebasing after a 412 keeps the types, the attempts included.            *)
LEMMA ConflictTyped ==
    ASSUME TypeOK, NEW c \in Calls, Conflict(c)
    PROVE  TypeOK'
<1> DEFINE k == call[c]
           label == IF IsReadModifyWrite(k.req.kind) THEN "resolve" ELSE "baseline"
           aim == IF IsReadModifyWrite(k.req.kind) THEN "meta" ELSE "write"
           again == [Locals(k.req, 0, 0, aim)
                       EXCEPT !.tries = k.tries + 1, !.index = k.index,
                              !.codec = k.codec]
<1>1. CASE Fail(c)
  BY <1>1, FailTyped, Framed DEF Conflict, TypeOK
<1>2. CASE /\ ~(k.tries + 1 >= Attempts)
           /\ Goto(c, label) /\ call' = [call EXCEPT ![c] = again]
  <2>1. /\ k.tries \in 0 .. Attempts - 1 /\ k.index \in CodecIds /\ k.codec \in CodecIds
        /\ k.req \in Requests \union {NoRequest}
    BY RequestTyped DEF CallType
  <2>2. k.tries + 1 \in 0 .. Attempts - 1
    BY <1>2, <2>1, AttemptsPositive DEF AttemptsPositive
  <2>3. Locals(k.req, 0, 0, aim) \in CallType
    BY <2>1, ZeroTyped, LocalsTyped DEF Aims
  <2>4. again \in CallType
    BY <2>1, <2>2, <2>3 DEF CallType
  <2>5. pc' \in [Calls -> Labels] /\ call' \in [Calls -> CallType]
    BY <1>2, <2>4, GotoTyped DEF TypeOK, Labels
  <2> QED
    BY <2>5, Framed DEF Conflict, TypeOK
<1> QED
  BY <1>1, <1>2, Zenon DEF Conflict, LastAttempt

(* Returning from a write keeps the types.                                 *)
LEMMA AckedTyped ==
    ASSUME TypeOK, NEW c \in Calls, Acked(c)
    PROVE  TypeOK'
<1> DEFINE schema == Sent(c).schema
           first == WithSchema(codecs, call[c].codec, schema)
<1>1. /\ call[c].codec \in CodecIds /\ call[c].index \in CodecIds
      /\ call[c].ack \in Versions
  BY RequestTyped DEF CallType
<1>2. schema \in SUBSET Declarations
  BY BodyTyped DEF Custom
<1>3. first \in Seq(CodecType) /\ Len(first) = Len(codecs)
  BY <1>1, <1>2, WithSchemaTyped DEF TypeOK
<1>4. /\ WithSchema(first, call[c].index, schema) \in Seq(CodecType)
      /\ Len(WithSchema(first, call[c].index, schema)) = Len(codecs)
  <2> HIDE DEF first, schema
  <2> QED
    BY <1>1, <1>2, <1>3, WithSchemaTyped
<1>5. pc' \in [Calls -> Labels] /\ call' \in [Calls -> CallType]
  BY <1>1, FinishTyped DEF Acked, Labels
<1>6. CASE UNCHANGED codecs /\ memo' = [memo EXCEPT ![Handle(c)] = Unresolved]
  BY <1>5, <1>6, ZeroTyped, Framed DEF Acked, TypeOK
<1>7. CASE codecs' = WithSchema(first, call[c].index, schema) /\ UNCHANGED memo
  BY <1>4, <1>5, <1>7, Framed DEF Acked, TypeOK
<1> QED
  BY <1>6, <1>7, Zenon DEF Acked, ResetCodec

(* Deleting keeps the types.                                               *)
LEMMA DeleteTyped ==
    ASSUME TypeOK, NEW c \in Calls, ServeDelete(c) \/ Deleted(c)
    PROVE  TypeOK'
<1>1. CASE ServeDelete(c)
  BY <1>1, ZeroTyped, GotoTyped, Framed DEF ServeDelete, TypeOK, Labels
<1>2. CASE Deleted(c)
  <2>1. pc' \in [Calls -> Labels] /\ call' \in [Calls -> CallType]
    BY <1>2, ZeroTyped, FinishTyped DEF Deleted, Labels
  <2> QED
    BY <1>2, <2>1, ZeroTyped, Framed DEF Deleted, ResetCodec, TypeOK
<1> QED
  BY <1>1, <1>2

(* Losing a request or an answer keeps the types.                          *)
LEMMA LoseTyped ==
    ASSUME TypeOK, NEW c \in Calls, Lose(c)
    PROVE  TypeOK'
  BY FailTyped, Framed DEF Lose, TypeOK

(* The initial state is well typed.                                        *)
LEMMA InitTyped == Init => TypeOK
<1> SUFFICES ASSUME Init PROVE TypeOK
  OBVIOUS
<1>1. hist \in Seq(Entries) /\ stored \in Versions
  <2>1. CASE hist = <<>> /\ stored = 0
    BY <2>1 DEF Versions
  <2>2. CASE \E object \in InitialObjects :
               hist = <<[object |-> object, by |-> None]>> /\ stored = 1
    <3>1. PICK object \in InitialObjects :
               hist = <<[object |-> object, by |-> None]>> /\ stored = 1
      BY <2>2
    <3>2. [object |-> object, by |-> None] \in Entries
      BY ObjectsTyped DEF ObjectsTyped, Entries
    <3> QED
      BY <3>1, <3>2 DEF Versions
  <2> QED
    BY <2>1, <2>2 DEF Init
<1>2. codecs \in Seq(CodecType) /\ Len(codecs) = 0
  BY DEF Init
<1>3. 0 \in Versions /\ 0 \in CodecIds
  <2>1. Len(hist) \in Nat
    BY <1>1
  <2> QED
    BY <1>2, <2>1 DEF Versions, CodecIds
<1>4. recent \in [Handles -> Remembered]
  BY <1>3 DEF Init, Nothing, Remembered, Lenses
<1>5. memo \in [Handles -> CodecIds]
  BY <1>3 DEF Init, Unresolved
<1>6. Locals(NoRequest, 0, 0, None) \in CallType
  BY <1>3, AttemptsPositive
     DEF AttemptsPositive, Locals, CallType, Lenses, Unresolved, Aims
<1>7. pc \in [Calls -> Labels] /\ call \in [Calls -> CallType]
  BY <1>6 DEF Init, Labels
<1> QED
  BY <1>1, <1>2, <1>4, <1>5, <1>7 DEF TypeOK

(* Every step keeps the types; a resolution a call waits for exists.       *)
LEMMA NextTyped ==
    ASSUME TypeOK, PinnedWrites, [Next]_vars
    PROVE  TypeOK'
<1>1. CASE UNCHANGED vars
  BY <1>1 DEF vars, TypeOK, Versions, CodecIds, CallType, CodecType, Remembered
<1>2. ASSUME NEW c \in Calls, Start(c) \/ Step(c) \/ Lose(c)
      PROVE  TypeOK'
  <2>1. CASE Resolved(c)
    <3>1. call[c].codec \in CodecIds /\ call[c].codec # Unresolved
      BY <2>1, RequestTyped DEF CallType, PinnedWrites, PinnedWrite, Resolved
    <3>2. Len(codecs) \in Nat /\ DOMAIN codecs = 1 .. Len(codecs)
      BY DEF TypeOK
    <3>3. call[c].codec \in DOMAIN codecs
      BY <3>1, <3>2 DEF CodecIds, Unresolved
    <3> QED
      BY <2>1, <3>3, ResolvedTyped
  <2>2. CASE ~Resolved(c)
    BY <1>2, <2>2, StartTyped, AcquireTyped, ReadTyped, BaselineTyped, PutTyped,
       ConflictTyped, AckedTyped, DeleteTyped, LoseTyped DEF Step
  <2> QED
    BY <2>1, <2>2
<1>3. CASE Resolution
  BY <1>3, ResolutionTyped DEF Resolution
<1> QED
  BY <1>1, <1>2, <1>3 DEF Next, Quiet
-----------------------------------------------------------------------------
(* Pinned writes.                                                          *)

Others(c) ==
    \A d \in Calls \ {c} : pc'[d] = pc[d] /\ call'[d] = call[d]

(* An ETag once replaced never comes back, so what a call relies on is     *)
(* not disturbed by the steps of others.                                   *)
LEMMA PinStable ==
    ASSUME TypeOK, NEW d \in Calls, PinnedWrite(d),
           pc'[d] = pc[d], call'[d] = call[d],
           stored' \in {stored, 0, Len(hist) + 1}
    PROVE  PinnedWrite(d)'
<1>1. Len(hist) \in Nat
  BY DEF TypeOK
<1>2. call[d] \in CallType
  BY DEF TypeOK
<1>3. call[d].pin \in 0 .. Len(hist)
  BY <1>2 DEF CallType, Versions
<1> QED
  BY <1>1, <1>3 DEF PinnedWrite

(* A call that has returned writes nothing.                                *)
LEMMA FinishPinned ==
    ASSUME TypeOK, NEW c \in Calls, NEW label \in {"done", "failed"}, NEW ack,
           Finish(c, label, ack)
    PROVE  PinnedWrite(c)' /\ Others(c)
  BY DEF Finish, Goto, TypeOK, Locals, PinnedWrite, Others, None

(* The methods that read, modify and write take no ifNoneMatch.            *)
LEMMA NeverAbsent ==
    ASSUME NEW k \in CallType
    PROVE  IsReadModifyWrite(k.req.kind) => ~k.req.absent
<1>1. k.req \in Requests \union {NoRequest}
  BY DEF CallType
<1>2. CASE k.req \in Requests
  BY <1>2, RequestsTyped DEF RequestsTyped, IsReadModifyWrite
<1>3. CASE k.req = NoRequest
  BY <1>3 DEF NoRequest
<1> QED
  BY <1>1, <1>2, <1>3

(* A call starts with the pin it was given, and with none if absent.       *)
LEMMA StartPinned ==
    ASSUME TypeOK, NEW c \in Calls, Start(c)
    PROVE  PinnedWrite(c)' /\ Others(c) /\ stored' = stored
<1>1. PICK req \in Requests : \E pin \in Quotable(req.pinned), seed \in Quotable(req.seeded) :
           /\ Goto(c, Entry(req))
           /\ call' = [call EXCEPT ![c] = Locals(req, pin, seed, EntryAim(req))]
  BY DEF Start
<1>2. PICK pin \in Quotable(req.pinned), seed \in Quotable(req.seeded) :
           /\ Goto(c, Entry(req))
           /\ call' = [call EXCEPT ![c] = Locals(req, pin, seed, EntryAim(req))]
  BY <1>1
<1>3. /\ pc'[c] = Entry(req) /\ call'[c].aim = EntryAim(req)
      /\ call'[c].req = req /\ call'[c].pin = pin
  BY <1>2 DEF Goto, TypeOK, Locals
<1>4. /\ req.absent => req.kind \in {"replace", "set"}
      /\ req.absent => pin = 0
  BY RequestsTyped DEF RequestsTyped, Quotable
<1>5. /\ pc'[c] \notin {"resolving", "got", "put"}
      /\ pc'[c] = "baseline" => call'[c].aim = "write"
      /\ IsReadModifyWrite(req.kind) => call'[c].aim # "write"
  BY <1>3, <1>4 DEF Entry, EntryAim, IsConfiguration, IsReadModifyWrite
<1>6. Others(c)
  BY <1>2 DEF Goto, TypeOK, Others
<1> QED
  BY <1>3, <1>4, <1>5, <1>6 DEF PinnedWrite, Start

(* A call that waits has a resolution to wait for.                         *)
LEMMA AcquirePinned ==
    ASSUME TypeOK, PinnedWrites, NEW c \in Calls, Acquire(c)
    PROVE  PinnedWrite(c)' /\ Others(c) /\ stored' = stored
<1>1. /\ pc'[c] = "resolving"
      /\ call'[c] = [call[c] EXCEPT !.codec = memo'[Handle(c)]]
  BY DEF Acquire, Goto, TypeOK
<1>2. memo'[Handle(c)] # Unresolved
  <2>1. CASE memo[Handle(c)] # Unresolved
    BY <2>1 DEF Acquire
  <2>2. CASE memo[Handle(c)] = Unresolved
    <3> DEFINE new == [handle |-> Handle(c), owner |-> c, state |-> "asked",
                       version |-> 0, schema |-> {}, snapshot |-> FALSE]
    <3>1. codecs' = Append(codecs, new) /\ memo' = [memo EXCEPT ![Handle(c)] = Len(codecs')]
      BY <2>2 DEF Acquire
    <3>2. new \in CodecType
      BY HandleTyped, ZeroTyped DEF CodecType
    <3>3. Len(codecs') = Len(codecs) + 1 /\ Len(codecs) \in Nat
      BY <3>1, <3>2, AppendProperties DEF TypeOK
    <3> QED
      BY <3>1, <3>3, HandleTyped DEF TypeOK, Unresolved
  <2> QED
    BY <2>1, <2>2
<1>3. call[c] \in CallType
  BY RequestTyped
<1>4. PinnedWrite(c)
  BY DEF PinnedWrites
<1>5. Others(c)
  BY DEF Acquire, Goto, TypeOK, Others
<1> QED
  BY <1>1, <1>2, <1>3, <1>4, <1>5 DEF PinnedWrite, Acquire, CallType

(* A read-modify-write goes on pinned to the version it read.              *)
LEMMA MetaReadPinned ==
    ASSUME TypeOK, NEW c \in Calls, NEW k \in CallType, NEW cs, NEW v, NEW lens,
           MetaRead(c, k, cs, v, lens), PinnedWrite(c)
    PROVE  PinnedWrite(c)' /\ Others(c)
<1>1. CASE Finish(c, "done", 0) \/ Fail(c)
  BY <1>1, FinishPinned DEF Fail
<1>2. CASE /\ v # 0 /\ Goto(c, "resolve") /\ IsReadModifyWrite(k.req.kind)
           /\ call' = [call EXCEPT ![c] =
                [k EXCEPT !.got = v, !.gotLens = lens, !.pin = v, !.aim = "write"]]
  <2>1. /\ pc'[c] = "resolve"
        /\ call'[c] = [k EXCEPT !.got = v, !.gotLens = lens, !.pin = v, !.aim = "write"]
    BY <1>2 DEF Goto, TypeOK
  <2>2. call'[c].pin = v /\ call'[c].got = v /\ call'[c].req = k.req
    BY <2>1 DEF CallType
  <2>3. ~k.req.absent
    BY <1>2, NeverAbsent
  <2> QED
    BY <1>2, <2>1, <2>2, <2>3 DEF PinnedWrite, Others, Goto, TypeOK
<1> QED
  BY <1>1, <1>2, Zenon DEF MetaRead

(* A resolved codec leaves the pin alone, or pins the read handed over.    *)
LEMMA ResolvedPinned ==
    ASSUME TypeOK, NEW c \in Calls, PinnedWrite(c), Resolved(c)
    PROVE  PinnedWrite(c)' /\ Others(c) /\ stored' = stored
<1> DEFINE k == call[c]
           i == k.codec
           cs == [codecs EXCEPT ![i].snapshot = FALSE]
           scheme == SchemeOf(i)
           version == codecs[i].version
<1>1. k \in CallType /\ i \in CodecIds
  BY RequestTyped DEF CallType
<1>2. CASE Fail(c)
  BY <1>2, FinishPinned DEF Fail, Resolved
<1>3. CASE Goto(c, "baseline") /\ k.aim = "write" /\ call' = call
  BY <1>3 DEF PinnedWrite, Goto, TypeOK, Others, Resolved
<1>4. CASE MetaRead(c, k, cs, version, scheme)
  BY <1>1, <1>4, MetaReadPinned DEF Resolved
<1>5. CASE MetaRead(c, [k EXCEPT !.index = i], cs, version, scheme)
  <2>1. [k EXCEPT !.index = i] \in CallType
    BY <1>1 DEF CallType
  <2> HIDE DEF cs, version, scheme, k, i
  <2> QED
    BY <1>5, <2>1, MetaReadPinned DEF Resolved
<1>6. CASE Goto(c, "get") /\ k.aim = "meta" /\ call' = call
  BY <1>6 DEF PinnedWrite, Goto, TypeOK, Others, Resolved
<1>7. CASE /\ Goto(c, "resolve")
           /\ call' = [call EXCEPT ![c].index = i, ![c].aim = "meta"]
  <2>1. /\ pc'[c] = "resolve" /\ call'[c].aim = "meta"
        /\ call'[c].req = k.req /\ call'[c].pin = k.pin
    BY <1>1, <1>7 DEF Goto, TypeOK, CallType
  <2>2. Others(c)
    BY <1>7 DEF Goto, TypeOK, Others
  <2> QED
    BY <2>1, <2>2 DEF PinnedWrite, Resolved
<1> QED
  <2> HIDE DEF scheme, version, cs
  <2>1. \/ Fail(c)
        \/ Goto(c, "baseline") /\ k.aim = "write" /\ call' = call
        \/ MetaRead(c, k, cs, version, scheme)
        \/ MetaRead(c, [k EXCEPT !.index = i], cs, version, scheme)
        \/ Goto(c, "get") /\ k.aim = "meta" /\ call' = call
        \/ /\ Goto(c, "resolve")
           /\ call' = [call EXCEPT ![c].index = i, ![c].aim = "meta"]
    BY Zenon DEF Resolved, version, scheme, cs
  <2> QED
    BY <1>2, <1>3, <1>4, <1>5, <1>6, <1>7, <2>1

(* A GET answers the stored version, so a pin it differs from is stale.    *)
LEMMA ReadPinned ==
    ASSUME TypeOK, NEW c \in Calls, PinnedWrite(c),
           ServeGet(c) \/ GotDescription(c) \/ GotMeta(c)
    PROVE  PinnedWrite(c)' /\ Others(c) /\ stored' = stored
<1> DEFINE k == call[c]
           scheme == SchemeOf(k.codec)
<1>1. k \in CallType
  BY RequestTyped
<1>2. CASE ServeGet(c)
  <2>1. /\ pc'[c] = "got" /\ call'[c] = [k EXCEPT !.seen = Visible(Handle(c))]
        /\ stored' = stored
    BY <1>2 DEF ServeGet, Goto, TypeOK
  <2>2. Visible(Handle(c)) \in {0, stored}
    BY DEF Visible
  <2>3. /\ call'[c].seen \in {0, stored} /\ call'[c].pin = k.pin
        /\ call'[c].req = k.req /\ call'[c].aim = k.aim /\ call'[c].got = k.got
    BY <1>1, <2>1, <2>2 DEF CallType
  <2>4. Others(c)
    BY <1>2 DEF ServeGet, Goto, TypeOK, Others
  <2> QED
    BY <2>1, <2>3, <2>4 DEF PinnedWrite
<1>3. CASE GotDescription(c)
  BY <1>3, FinishPinned DEF GotDescription
<1>4. CASE GotMeta(c)
  <2>1. CASE Fail(c)
    BY <1>4, <2>1, FinishPinned DEF Fail, GotMeta
  <2>2. CASE MetaRead(c, k, codecs, k.seen, scheme)
    BY <1>1, <1>4, <2>2, MetaReadPinned DEF GotMeta
  <2> QED
    BY <1>4, <2>1, <2>2, Zenon DEF GotMeta
<1> QED
  BY <1>2, <1>3, <1>4

(* A PUT may leave once its pin, if any, is the version it is composed     *)
(* over or one that is gone.                                               *)
LEMMA SendPinned ==
    ASSUME TypeOK, NEW c \in Calls, PinnedWrite(c), NEW v, NEW lens,
           Send(c, v, lens), call[c].aim = "write",
           call[c].pin \in {0, v} \/ call[c].pin # stored, stored' = stored
    PROVE  PinnedWrite(c)' /\ Others(c)
<1>1. call[c] \in CallType
  BY RequestTyped
<1>2. /\ pc'[c] = "put"
      /\ call'[c] = [call[c] EXCEPT !.base = v, !.baseLens = lens, !.seed = 0]
  BY DEF Send, Goto, TypeOK
<1>3. /\ call'[c].base = v /\ call'[c].pin = call[c].pin /\ call'[c].req = call[c].req
      /\ call'[c].aim = call[c].aim /\ call'[c].got = call[c].got
  BY <1>1, <1>2 DEF CallType
<1>4. Others(c)
  BY DEF Send, Goto, TypeOK, Others
<1> QED
  BY <1>2, <1>3, <1>4 DEF PinnedWrite

(* Whatever baseline is chosen, the pin allows it or is stale.             *)
LEMMA BaselinePinned ==
    ASSUME TypeOK, NEW c \in Calls, PinnedWrite(c), Baseline(c) \/ GotBaseline(c)
    PROVE  PinnedWrite(c)' /\ Others(c) /\ stored' = stored
<1> DEFINE k == call[c]
           r == recent[Handle(c)]
<1>1. k \in CallType
  BY RequestTyped
<1>2. k.aim = "write" /\ stored' = stored
  BY DEF Baseline, GotBaseline, PinnedWrite
<1>3. CASE Fail(c)
  BY <1>2, <1>3, FinishPinned DEF Fail
<1>4. CASE k.req.absent /\ Send(c, 0, None)
  BY <1>2, <1>4, SendPinned DEF PinnedWrite
<1>5. CASE Matches(c, k.seed) /\ Send(c, k.seed, None)
  BY <1>2, <1>5, SendPinned DEF Matches
<1>6. CASE Matches(c, r.version) /\ Send(c, r.version, r.lens)
  BY <1>2, <1>6, SendPinned DEF Matches
<1>7. CASE /\ Goto(c, "get") /\ call' = [call EXCEPT ![c].seed = 0]
  <2>1. /\ pc'[c] = "get" /\ call'[c].pin = k.pin /\ call'[c].req = k.req
        /\ call'[c].aim = k.aim /\ call'[c].got = k.got
    BY <1>1, <1>7 DEF CallType, Goto, TypeOK
  <2>2. Others(c)
    BY <1>7 DEF Goto, TypeOK, Others
  <2> QED
    BY <1>2, <2>1, <2>2 DEF PinnedWrite
<1>8. CASE /\ pc[c] = "got" /\ Send(c, k.seen, None)
           /\ k.seen = 0 => AllowAbsent(c)
  BY <1>2, <1>8, SendPinned DEF PinnedWrite, AllowAbsent
<1> QED
  <2>1. \/ Fail(c)
        \/ k.req.absent /\ Send(c, 0, None)
        \/ Matches(c, k.seed) /\ Send(c, k.seed, None)
        \/ Matches(c, r.version) /\ Send(c, r.version, r.lens)
        \/ Goto(c, "get") /\ call' = [call EXCEPT ![c].seed = 0]
        \/ /\ pc[c] = "got" /\ Send(c, k.seen, None)
           /\ k.seen = 0 => AllowAbsent(c)
    BY Zenon DEF Baseline, GotBaseline
  <2> QED
    BY <1>3, <1>4, <1>5, <1>6, <1>7, <1>8, <2>1, Zenon

(* A PUT is applied as the next version or not at all.                     *)
LEMMA PutPinned ==
    ASSUME TypeOK, NEW c \in Calls, PinnedWrite(c), ServePut(c)
    PROVE  PinnedWrite(c)' /\ Others(c) /\ stored' \in {stored, Len(hist) + 1}
<1>1. CASE Goto(c, "conflict") /\ UNCHANGED <<hist, stored, call>>
  BY <1>1 DEF PinnedWrite, Goto, TypeOK, Others
<1>2. CASE Fail(c) /\ UNCHANGED <<hist, stored>>
  BY <1>2, FinishPinned DEF Fail
<1>3. CASE /\ hist' = Append(hist, [object |-> Body(c), by |-> c])
           /\ stored' = Len(hist') /\ Goto(c, "acked")
           /\ call' = [call EXCEPT ![c].ack = stored']
  <2>1. stored' = Len(hist) + 1
    <3>1. [object |-> Body(c), by |-> c] \in Entries
      BY BodyTyped DEF Entries
    <3> QED
      BY <1>3, <3>1, AppendProperties DEF TypeOK
  <2>2. /\ pc'[c] = "acked" /\ call'[c].pin = call[c].pin
        /\ call'[c].req = call[c].req /\ call'[c].aim = call[c].aim
        /\ call'[c].got = call[c].got
    BY <1>3, RequestTyped DEF CallType, Goto, TypeOK
  <2>3. Others(c)
    BY <1>3 DEF Goto, TypeOK, Others
  <2> QED
    BY <2>1, <2>2, <2>3 DEF PinnedWrite
<1> QED
  BY <1>1, <1>2, <1>3, Zenon DEF ServePut

(* A rebase starts over without a pin.                                     *)
LEMMA ConflictPinned ==
    ASSUME TypeOK, NEW c \in Calls, PinnedWrite(c), Conflict(c)
    PROVE  PinnedWrite(c)' /\ Others(c) /\ stored' = stored
<1> DEFINE k == call[c]
           rmw == IsReadModifyWrite(k.req.kind)
           again == [Locals(k.req, 0, 0, IF rmw THEN "meta" ELSE "write")
                       EXCEPT !.tries = k.tries + 1, !.index = k.index,
                              !.codec = k.codec]
<1>1. CASE Fail(c)
  BY <1>1, FinishPinned DEF Fail, Conflict
<1>2. CASE /\ Goto(c, IF rmw THEN "resolve" ELSE "baseline")
           /\ call' = [call EXCEPT ![c] = again]
  <2>1. call'[c] = again /\ pc'[c] = IF rmw THEN "resolve" ELSE "baseline"
    BY <1>2 DEF Goto, TypeOK
  <2>2. /\ again.req = k.req /\ again.pin = 0
        /\ again.aim = IF rmw THEN "meta" ELSE "write"
    BY DEF Locals
  <2>3. Others(c)
    BY <1>2 DEF Goto, TypeOK, Others
  <2> QED
    BY <2>1, <2>2, <2>3 DEF PinnedWrite, Conflict
<1> QED
  BY <1>1, <1>2, Zenon DEF Conflict

(* Every step of a call keeps that call's writes pinned and touches no     *)
(* other call; what it does to the stored version is to keep, replace or   *)
(* delete it.                                                              *)
LEMMA CallPinned ==
    ASSUME TypeOK, PinnedWrites, NEW c \in Calls, Start(c) \/ Step(c) \/ Lose(c)
    PROVE  /\ PinnedWrite(c)' /\ Others(c)
           /\ stored' \in {stored, 0, Len(hist) + 1}
<1>1. PinnedWrite(c)
  BY DEF PinnedWrites
<1>2. CASE Start(c)
  BY <1>2, StartPinned
<1>3. CASE Acquire(c)
  BY <1>3, AcquirePinned
<1>4. CASE Resolved(c)
  BY <1>1, <1>4, ResolvedPinned
<1>5. CASE ServeGet(c) \/ GotDescription(c) \/ GotMeta(c)
  BY <1>1, <1>5, ReadPinned
<1>6. CASE Baseline(c) \/ GotBaseline(c)
  BY <1>1, <1>6, BaselinePinned
<1>7. CASE ServePut(c)
  BY <1>1, <1>7, PutPinned
<1>8. CASE Conflict(c)
  BY <1>1, <1>8, ConflictPinned
<1>9. CASE Acked(c) \/ Deleted(c)
  BY <1>9, FinishPinned DEF Acked, Deleted
<1>10. CASE ServeDelete(c)
  BY <1>1, <1>10 DEF ServeDelete, Goto, TypeOK, PinnedWrite, Others
<1>11. CASE Lose(c)
  BY <1>11, FinishPinned DEF Lose, Fail
<1> QED
  BY <1>2, <1>3, <1>4, <1>5, <1>6, <1>7, <1>8, <1>9, <1>10, <1>11 DEF Step

(* No call has a pin at first.                                             *)
LEMMA InitPinned == Init => PinnedWrites
  BY DEF Init, PinnedWrites, PinnedWrite, Locals, NoRequest, None

(* Every step keeps every write pinned.                                    *)
LEMMA NextPinned ==
    ASSUME TypeOK, PinnedWrites, [Next]_vars
    PROVE  PinnedWrites'
<1>1. CASE UNCHANGED vars
  BY <1>1 DEF vars, PinnedWrites, PinnedWrite
<1>2. ASSUME NEW c \in Calls, Start(c) \/ Step(c) \/ Lose(c)
      PROVE  PinnedWrites'
  <2>1. /\ PinnedWrite(c)' /\ Others(c)
        /\ stored' \in {stored, 0, Len(hist) + 1}
    BY <1>2, CallPinned
  <2>2. ASSUME NEW d \in Calls \ {c}
        PROVE  PinnedWrite(d)'
    BY <2>1, <2>2, PinStable DEF PinnedWrites, Others
  <2> QED
    BY <2>1, <2>2 DEF PinnedWrites
<1>3. CASE Resolution
  <2>1. pc' = pc /\ call' = call /\ stored' = stored
    BY <1>3 DEF Resolution, ServeResolution, SettleResolution, Keyless
  <2> QED
    BY <2>1 DEF PinnedWrites, PinnedWrite
<1> QED
  BY <1>1, <1>2, <1>3 DEF Next, Quiet
-----------------------------------------------------------------------------
(* The invariants hold of every behaviour.  The two are inductive only     *)
(* together: the types need the resolution a call waits for to exist, and  *)
(* the pins need versions to be indices into the history.                  *)
LEMMA Inductive == Spec => [](TypeOK /\ PinnedWrites)
<1>1. Init => TypeOK /\ PinnedWrites
  BY InitTyped, InitPinned
<1>2. TypeOK /\ PinnedWrites /\ [Next]_vars => (TypeOK /\ PinnedWrites)'
  BY NextTyped, NextPinned
<1> QED
  BY <1>1, <1>2, PTL DEF Spec

(* Whatever mix of calls is under way, the history, the handles' memories  *)
(* and memos, the codecs and the calls keep their types, and no call goes  *)
(* beyond its compare-and-swap attempts.                                   *)
THEOREM TypeCorrect == Spec => []TypeOK
  BY Inductive, PTL

(* A PUT the server applies replaces the very object its body was composed *)
(* over, and the one a read-modify-write read, whichever baseline it took: *)
(* the caller's, the handle's remembered read or a fresh one.              *)
THEOREM NoLostUpdates == Spec => NoLostUpdate
<1>1. ASSUME TypeOK, PinnedWrites, [Next]_vars, NEW c \in Calls,
             pc[c] = "put", pc'[c] = "acked"
      PROVE  /\ call[c].base = stored
             /\ IsReadModifyWrite(call[c].req.kind) => call[c].got = stored
  <2>1. PinnedWrite(c)
    BY <1>1 DEF PinnedWrites
  <2>2. Precondition(c) = stored
    <3>1. ~UNCHANGED vars
      BY <1>1 DEF vars
    <3>2. PICK d \in Calls : Start(d) \/ Step(d) \/ Lose(d)
      <4>1. ~Resolution /\ ~Quiet
        BY <1>1 DEF Resolution, ServeResolution, SettleResolution, Keyless, Quiet, vars
      <4> QED
        BY <1>1, <3>1, <4>1 DEF Next
    <3>3. d = c
      BY <1>1, <3>2, CallPinned DEF Others
    <3>4. ServePut(c)
      BY <1>1, <3>2, <3>3
         DEF Start, Step, Lose, Acquire, Resolved, ServeGet, GotDescription,
             GotMeta, GotBaseline, Baseline, Conflict, PreconditionFailed, Acked,
             ServeDelete, Deleted, Fail, Finish, Goto, TypeOK
    <3> QED
      BY <1>1, <3>4 DEF ServePut, Goto, Fail, Finish, TypeOK
  <2> QED
    BY <1>1, <2>1, <2>2 DEF PinnedWrite, Precondition
<1>2. TypeOK /\ PinnedWrites /\ [Next]_vars =>
        [\A c \in Calls :
           pc[c] = "put" /\ pc'[c] = "acked" =>
             /\ call[c].base = stored
             /\ IsReadModifyWrite(call[c].req.kind) => call[c].got = stored]_vars
  BY <1>1
<1> QED
  BY <1>2, Inductive, PTL DEF Spec, NoLostUpdate
-----------------------------------------------------------------------------
(* What a step of a call leaves as it was, whatever it does to its own     *)
(* handle: every other call and handle, every version stored so far, and   *)
(* of the codecs everything but the schema and the snapshot.               *)

Same(cs, ds) ==
    /\ Len(ds) = Len(cs)
    /\ \A i \in 1 .. Len(cs) :
         /\ ds[i].state = cs[i].state /\ ds[i].version = cs[i].version
         /\ ds[i].owner = cs[i].owner /\ ds[i].handle = cs[i].handle
         /\ ds[i].snapshot => cs[i].snapshot

Asking(c, cs, ds) ==
    /\ Len(ds) = Len(cs) + 1
    /\ \A i \in 1 .. Len(cs) : ds[i] = cs[i]
    /\ ds[Len(cs) + 1] = [handle |-> Handle(c), owner |-> c, state |-> "asked",
                          version |-> 0, schema |-> {}, snapshot |-> FALSE]

Wrote(c) ==
    /\ pc[c] = "put" /\ pc'[c] = "acked"
    /\ hist' = Append(hist, [object |-> Body(c), by |-> c])
    /\ stored' = Len(hist) + 1
    /\ call' = [call EXCEPT ![c].ack = stored']
    /\ UNCHANGED <<recent, memo, codecs>>

Aside(c) ==
    /\ Others(c)
    /\ \A h \in Handles \ {Handle(c)} : memo'[h] = memo[h] /\ recent'[h] = recent[h]
    /\ Same(codecs, codecs') \/ Asking(c, codecs, codecs')
    /\ \/ hist' = hist /\ stored' \in {stored, 0} /\ pc'[c] # "acked"
       \/ Wrote(c)

LEMMA SnapshotSame ==
    ASSUME TypeOK, NEW i \in 1 .. Len(codecs)
    PROVE  Same(codecs, [codecs EXCEPT ![i].snapshot = FALSE])
<1>1. codecs \in Seq(CodecType)
  BY DEF TypeOK
<1>2. codecs[i] \in CodecType
  BY <1>1
<1> DEFINE spent == [codecs[i] EXCEPT !.snapshot = FALSE]
<1>3. /\ spent.state = codecs[i].state /\ spent.version = codecs[i].version
      /\ spent.owner = codecs[i].owner /\ spent.handle = codecs[i].handle /\ ~spent.snapshot
  BY <1>2 DEF CodecType
<1>4. [codecs EXCEPT ![i].snapshot = FALSE] = [codecs EXCEPT ![i] = spent]
  BY <1>1
<1>5. spent \in CodecType
  BY <1>2 DEF CodecType
<1> HIDE DEF spent
<1>6. Len([codecs EXCEPT ![i] = spent]) = Len(codecs)
  BY <1>1, <1>5, ExceptSeq
<1>7. \A j \in 1 .. Len(codecs) :
        [codecs EXCEPT ![i] = spent][j] = IF j = i THEN spent ELSE codecs[j]
  BY <1>1
<1> QED
  BY <1>3, <1>4, <1>6, <1>7 DEF Same

LEMMA SchemaSame ==
    ASSUME TypeOK, NEW cs \in Seq(CodecType), Len(cs) = Len(codecs),
           NEW i \in CodecIds, NEW schema \in SUBSET Declarations
    PROVE  LET ds == WithSchema(cs, i, schema)
           IN /\ Same(cs, ds)
              /\ \A j \in 1 .. Len(cs) : ds[j].snapshot = cs[j].snapshot
              /\ \A j \in 1 .. Len(cs) :
                   ds[j].schema = IF j = i /\ SchemeOf(i) = "edv" THEN schema
                                  ELSE cs[j].schema
<1>1. CASE SchemeOf(i) # "edv"
  BY <1>1 DEF WithSchema, Same
<1>2. CASE SchemeOf(i) = "edv"
  <2>1. i \in 1 .. Len(cs)
    BY <1>2 DEF SchemeOf, CodecIds, Unresolved
  <2>2. cs[i] \in CodecType
    BY <2>1
  <2> DEFINE taught == [cs[i] EXCEPT !.schema = schema]
  <2>3. /\ taught \in CodecType /\ taught.state = cs[i].state /\ taught.schema = schema
        /\ taught.version = cs[i].version /\ taught.owner = cs[i].owner
        /\ taught.handle = cs[i].handle /\ taught.snapshot = cs[i].snapshot
    BY <2>2 DEF CodecType
  <2>4. WithSchema(cs, i, schema) = [cs EXCEPT ![i] = taught]
    BY <1>2, <2>1 DEF WithSchema
  <2> HIDE DEF taught
  <2>5. Len([cs EXCEPT ![i] = taught]) = Len(cs)
    BY <2>1, <2>3, ExceptSeq
  <2>6. \A j \in 1 .. Len(cs) : [cs EXCEPT ![i] = taught][j] = IF j = i THEN taught ELSE cs[j]
    OBVIOUS
  <2> QED
    BY <1>2, <2>3, <2>4, <2>5, <2>6 DEF Same
<1> QED
  BY <1>1, <1>2

LEMMA SameTwice ==
    ASSUME NEW cs, NEW ds, NEW es, Same(cs, ds), Same(ds, es)
    PROVE  Same(cs, es)
  BY DEF Same

LEMMA SameSelf ==
    ASSUME NEW cs
    PROVE  Same(cs, cs)
  BY DEF Same

LEMMA AskingSo ==
    ASSUME TypeOK, NEW c \in Calls, Acquire(c), memo[Handle(c)] = Unresolved
    PROVE  Asking(c, codecs, codecs')
<1> DEFINE new == [handle |-> Handle(c), owner |-> c, state |-> "asked",
                   version |-> 0, schema |-> {}, snapshot |-> FALSE]
<1>1. codecs' = Append(codecs, new) /\ codecs \in Seq(CodecType)
  BY DEF Acquire, TypeOK
<1>2. new \in CodecType
  BY HandleTyped, ZeroTyped DEF CodecType
<1>3. /\ Len(codecs') = Len(codecs) + 1 /\ codecs'[Len(codecs) + 1] = new
      /\ \A i \in 1 .. Len(codecs) : codecs'[i] = codecs[i]
  <2> HIDE DEF new
  <2> QED
    BY <1>1, <1>2, AppendProperties
<1> QED
  BY <1>3 DEF Asking

LEMMA MetaReadAside ==
    ASSUME TypeOK, NEW c \in Calls, NEW k \in CallType,
           NEW cs \in Seq(CodecType), Len(cs) = Len(codecs), Same(codecs, cs),
           NEW v \in Versions, NEW lens \in Lenses, MetaRead(c, k, cs, v, lens)
    PROVE  Same(codecs, codecs') /\ Same(cs, codecs') /\ Others(c) /\ pc'[c] \in {"done", "failed", "resolve"}
<1> DEFINE schema == Opened(lens, Object(v).custom).schema
<1>1. schema \in SUBSET Declarations /\ k.index \in CodecIds
  <2>1. Object(v).custom \in Custom
    BY ObjectTyped DEF Objects
  <2>2. Opened(lens, Object(v).custom) \in Custom
    BY <2>1, OpenedTyped
  <2> QED
    BY <2>2 DEF Custom, CallType
<1>2. codecs' = cs \/ codecs' = WithSchema(cs, k.index, schema)
  BY DEF MetaRead
<1>3. Same(codecs, codecs') /\ Same(cs, codecs')
  <2> HIDE DEF schema
  <2>1. Same(cs, WithSchema(cs, k.index, schema))
    BY <1>1, SchemaSame
  <2> QED
    BY <1>2, <2>1, SameTwice, SameSelf
<1>4. \/ Finish(c, "done", 0) \/ Finish(c, "failed", 0)
      \/ /\ Goto(c, "resolve")
         /\ \E n : call' = [call EXCEPT ![c] = n]
  BY DEF MetaRead, Fail
<1>5. Others(c) /\ pc'[c] \in {"done", "failed", "resolve"}
  BY <1>4 DEF Finish, Goto, Others, TypeOK
<1> QED
  BY <1>3, <1>5

LEMMA FinishAside ==
    ASSUME TypeOK, NEW c \in Calls, NEW label \in {"done", "failed"}, NEW ack, Finish(c, label, ack)
    PROVE  /\ Others(c) /\ pc'[c] = label
           /\ call'[c] = [Locals(call[c].req, 0, 0, None) EXCEPT !.ack = ack]
           /\ call'[c].req = call[c].req /\ call'[c].ack = ack /\ call'[c].aim = None
           /\ call'[c].codec = Unresolved /\ call'[c].index = Unresolved
<1>1. /\ Others(c) /\ pc'[c] = label
      /\ call'[c] = [Locals(call[c].req, 0, 0, None) EXCEPT !.ack = ack]
  BY DEF Finish, Goto, Others, TypeOK
<1> QED
  BY <1>1 DEF Locals

LEMMA ResolvedAside ==
    ASSUME TypeOK, NEW c \in Calls, Resolved(c), call[c].codec \in 1 .. Len(codecs)
    PROVE  /\ Aside(c) /\ pc'[c] \in {"done", "failed", "resolve", "baseline", "get"}
           /\ Fail(c) \/ ~codecs'[call[c].codec].snapshot
<1> DEFINE k == call[c]
           i == k.codec
           cs == [codecs EXCEPT ![i].snapshot = FALSE]
           scheme == SchemeOf(i)
           version == codecs[i].version
<1>1. /\ k \in CallType /\ codecs \in Seq(CodecType) /\ i \in CodecIds
      /\ codecs[i] \in CodecType /\ version \in Versions /\ scheme \in Lenses
  <2>1. k \in CallType /\ codecs \in Seq(CodecType)
    BY RequestTyped DEF TypeOK
  <2>2. i \in CodecIds
    BY <2>1 DEF CallType
  <2>3. codecs[i] \in CodecType
    BY <2>1
  <2> QED
    BY <2>1, <2>2, <2>3, SchemeTyped DEF CodecType, Lenses
<1>2. Same(codecs, cs)
  BY SnapshotSame
<1>3. cs \in Seq(CodecType) /\ Len(cs) = Len(codecs) /\ ~cs[i].snapshot
  <2> DEFINE spent == [codecs[i] EXCEPT !.snapshot = FALSE]
  <2>1. spent \in CodecType /\ ~spent.snapshot
    BY <1>1 DEF CodecType
  <2>2. cs = [codecs EXCEPT ![i] = spent]
    BY <1>1
  <2> HIDE DEF spent, cs
  <2> QED
    BY <1>1, <2>1, <2>2, ExceptSeq
<1>4. UNCHANGED <<hist, stored, memo>> /\ \A h \in Handles \ {Handle(c)} : recent'[h] = recent[h]
  BY HandleTyped DEF Resolved, Remember, TypeOK
<1>5. [k EXCEPT !.index = i] \in CallType
  BY <1>1 DEF CallType
<1>6. /\ Others(c) /\ Same(codecs, codecs')
      /\ pc'[c] \in {"done", "failed", "resolve", "baseline", "get"}
      /\ Fail(c) \/ ~codecs'[i].snapshot
  <2> HIDE DEF scheme, version, cs
  <2>1. \/ Fail(c) /\ codecs' \in {codecs, cs}
        \/ codecs' = cs /\ Goto(c, "baseline") /\ call' = call
        \/ MetaRead(c, k, cs, version, scheme)
        \/ MetaRead(c, [k EXCEPT !.index = i], cs, version, scheme)
        \/ codecs' = cs /\ Goto(c, "get") /\ call' = call
        \/ /\ Goto(c, "resolve") /\ codecs' = cs
           /\ call' = [call EXCEPT ![c].index = i, ![c].aim = "meta"]
    BY DEF Resolved, version, scheme, cs
  <2>2. CASE Fail(c) /\ codecs' \in {codecs, cs}
    BY <1>2, <2>2, FinishAside, SameSelf DEF Fail
  <2>3. CASE MetaRead(c, k, cs, version, scheme)
    <3>1. Same(codecs, codecs') /\ Same(cs, codecs') /\ Others(c)
          /\ pc'[c] \in {"done", "failed", "resolve"}
      BY <1>1, <1>2, <1>3, <2>3, MetaReadAside
    <3> QED
      BY <1>3, <3>1 DEF Same
  <2>4. CASE MetaRead(c, [k EXCEPT !.index = i], cs, version, scheme)
    <3>1. Same(codecs, codecs') /\ Same(cs, codecs') /\ Others(c)
          /\ pc'[c] \in {"done", "failed", "resolve"}
      <4> HIDE DEF k
      <4> QED
        BY <1>1, <1>2, <1>3, <1>5, <2>4, MetaReadAside
    <3> QED
      BY <1>3, <3>1 DEF Same
  <2>5. CASE codecs' = cs /\ call' = call /\ (Goto(c, "baseline") \/ Goto(c, "get"))
    BY <1>2, <1>3, <2>5 DEF Goto, Others, TypeOK
  <2>6. CASE /\ Goto(c, "resolve") /\ codecs' = cs
             /\ call' = [call EXCEPT ![c].index = i, ![c].aim = "meta"]
    BY <1>2, <1>3, <2>6 DEF Goto, Others, TypeOK
  <2> QED
    BY <2>1, <2>2, <2>3, <2>4, <2>5, <2>6
<1> QED
  BY <1>4, <1>6 DEF Aside

LEMMA ReadAside ==
    ASSUME TypeOK, NEW c \in Calls, ServeGet(c) \/ GotDescription(c) \/ GotMeta(c)
    PROVE  Aside(c) /\ pc'[c] \in {"got", "done", "failed", "resolve"}
<1>1. UNCHANGED <<hist, stored, memo>> /\ \A h \in Handles \ {Handle(c)} : recent'[h] = recent[h]
  BY HandleTyped DEF ServeGet, GotDescription, GotMeta, Remember, TypeOK
<1>2. call[c] \in CallType /\ call[c].seen \in Versions /\ SchemeOf(call[c].codec) \in Lenses
  BY RequestTyped, SchemeTyped DEF CallType, Lenses
<1>3. CASE ServeGet(c)
  BY <1>1, <1>3, SameSelf DEF ServeGet, Goto, Others, TypeOK, Aside
<1>4. CASE GotDescription(c)
  BY <1>1, <1>4, SameSelf, FinishAside DEF GotDescription, Aside
<1>5. CASE GotMeta(c) /\ Fail(c) /\ UNCHANGED codecs
  BY <1>1, <1>5, SameSelf, FinishAside DEF Fail, Aside
<1>6. CASE MetaRead(c, call[c], codecs, call[c].seen, SchemeOf(call[c].codec))
  <2>1. Same(codecs, codecs') /\ Others(c) /\ pc'[c] \in {"done", "failed", "resolve"}
    BY <1>2, <1>6, SameSelf, MetaReadAside DEF TypeOK
  <2> QED
    BY <1>1, <2>1 DEF Aside
<1> QED
  BY <1>3, <1>4, <1>5, <1>6, Zenon DEF GotMeta

LEMMA BaselineAside ==
    ASSUME TypeOK, NEW c \in Calls, Baseline(c) \/ GotBaseline(c)
    PROVE  Aside(c) /\ pc'[c] \in {"put", "failed", "get"}
<1>1. /\ UNCHANGED <<hist, stored, memo, codecs>>
      /\ \A h \in Handles \ {Handle(c)} : recent'[h] = recent[h]
  BY HandleTyped DEF Baseline, GotBaseline, Forget, TypeOK
<1>2. \/ Fail(c) \/ \E v, lens : Send(c, v, lens)
      \/ Goto(c, "get") /\ call' = [call EXCEPT ![c].seed = 0]
  BY Zenon DEF Baseline, GotBaseline
<1>3. Others(c) /\ pc'[c] \in {"put", "failed", "get"}
  <2>1. CASE Fail(c)
    BY <2>1, FinishAside DEF Fail
  <2>2. CASE ~Fail(c)
    BY <1>2, <2>2 DEF Send, Goto, Others, TypeOK
  <2> QED
    BY <2>1, <2>2
<1> QED
  BY <1>1, <1>3, SameSelf DEF Aside

LEMMA PutAside ==
    ASSUME TypeOK, NEW c \in Calls, ServePut(c)
    PROVE  /\ Aside(c) /\ pc'[c] \in {"conflict", "failed", "acked"}
           /\ pc'[c] = "acked" => /\ Precondition(c) = stored
                                  /\ stored # 0 => ServerAdmits(Object(stored), Body(c))
<1>1. CASE Goto(c, "conflict") /\ UNCHANGED <<hist, stored, call>>
  BY <1>1, SameSelf DEF ServePut, Goto, Others, TypeOK, Aside
<1>2. CASE Fail(c) /\ UNCHANGED <<hist, stored>>
  BY <1>2, SameSelf, FinishAside DEF ServePut, Fail, Aside
<1>3. CASE /\ Precondition(c) = stored
           /\ stored # 0 => ServerAdmits(Object(stored), Body(c))
           /\ hist' = Append(hist, [object |-> Body(c), by |-> c])
           /\ stored' = Len(hist') /\ Goto(c, "acked")
           /\ call' = [call EXCEPT ![c].ack = stored']
  <2>1. stored' = Len(hist) + 1
    <3>1. [object |-> Body(c), by |-> c] \in Entries
      BY BodyTyped DEF Entries
    <3> QED
      BY <1>3, <3>1, AppendProperties DEF TypeOK
  <2>2. Wrote(c) /\ Others(c)
    BY <1>3, <2>1 DEF ServePut, Wrote, Goto, Others, TypeOK
  <2> QED
    BY <1>3, <2>2, SameSelf DEF Aside, Wrote
<1> QED
  BY <1>1, <1>2, <1>3, Zenon DEF ServePut

LEMMA EndsAside ==
    ASSUME TypeOK, NEW c \in Calls, Conflict(c) \/ Acked(c) \/ Deleted(c) \/ Lose(c)
    PROVE  Aside(c) /\ pc'[c] \in {"failed", "resolve", "baseline", "done"}
<1>1. UNCHANGED <<hist, stored, recent>> /\ \A h \in Handles \ {Handle(c)} : memo'[h] = memo[h]
  BY HandleTyped DEF Conflict, Acked, Deleted, Lose, ResetCodec, TypeOK
<1>2. Same(codecs, codecs')
  <2>1. CASE Acked(c)
    <3> DEFINE schema == Sent(c).schema
               first == WithSchema(codecs, call[c].codec, schema)
    <3>1. /\ schema \in SUBSET Declarations
          /\ call[c].codec \in CodecIds /\ call[c].index \in CodecIds
      BY BodyTyped, RequestTyped DEF Custom, CallType
    <3>2. codecs' = codecs \/ codecs' = WithSchema(first, call[c].index, schema)
      BY <2>1 DEF Acked
    <3> HIDE DEF schema
    <3>3. codecs \in Seq(CodecType) /\ first \in Seq(CodecType) /\ Len(first) = Len(codecs)
      BY <3>1, WithSchemaTyped DEF TypeOK
    <3>4. Same(codecs, first)
      BY <3>1, <3>3, SchemaSame
    <3> HIDE DEF first
    <3>5. Same(first, WithSchema(first, call[c].index, schema))
      BY <3>1, <3>3, SchemaSame
    <3> QED
      BY <3>2, <3>4, <3>5, SameSelf, SameTwice
  <2>2. CASE ~Acked(c)
    BY <2>2, SameSelf DEF Conflict, Deleted, Lose
  <2> QED
    BY <2>1, <2>2
<1>3. \/ Finish(c, "done", call[c].ack) \/ Finish(c, "done", 0) \/ Finish(c, "failed", 0)
      \/ /\ Goto(c, "resolve") \/ Goto(c, "baseline")
         /\ \E n : call' = [call EXCEPT ![c] = n]
  <2>1. CASE Conflict(c)
    BY <2>1 DEF Conflict, Fail
  <2> QED
    BY <2>1 DEF Acked, Deleted, Lose, Fail
<1>4. Others(c) /\ pc'[c] \in {"failed", "resolve", "baseline", "done"}
  BY <1>3 DEF Finish, Goto, Others, TypeOK
<1> QED
  BY <1>1, <1>2, <1>4 DEF Aside

LEMMA AcquireAside ==
    ASSUME TypeOK, NEW c \in Calls, Acquire(c)
    PROVE  Aside(c) /\ pc'[c] = "resolving"
<1>1. Same(codecs, codecs') \/ Asking(c, codecs, codecs')
  BY AskingSo, SameSelf DEF Acquire
<1>2. \A h \in Handles \ {Handle(c)} : memo'[h] = memo[h]
  BY HandleTyped DEF Acquire, TypeOK
<1> QED
  BY <1>1, <1>2 DEF Acquire, Goto, Others, TypeOK, Aside

LEMMA EveryAside ==
    ASSUME TypeOK, PinnedWrites, NEW c \in Calls, Start(c) \/ Step(c) \/ Lose(c)
    PROVE  Aside(c) /\ pc'[c] # "idle"
<1>1. CASE Start(c)
  BY <1>1, SameSelf DEF Start, Entry, Goto, Others, TypeOK, Aside
<1>2. CASE ServeDelete(c)
  BY <1>2, SameSelf DEF ServeDelete, Goto, Others, TypeOK, Aside
<1>3. CASE Resolved(c)
  <2>1. call[c].codec \in CodecIds /\ call[c].codec # Unresolved
    BY <1>3, RequestTyped DEF CallType, PinnedWrites, PinnedWrite, Resolved
  <2>2. Len(codecs) \in Nat
    BY DEF TypeOK
  <2>3. call[c].codec \in 1 .. Len(codecs)
    BY <2>1, <2>2 DEF CodecIds, Unresolved
  <2> QED
    BY <1>3, <2>3, ResolvedAside
<1> QED
  BY <1>1, <1>2, <1>3, AcquireAside, ReadAside, BaselineAside, PutAside, EndsAside DEF Step
(* What becomes of a write.                                                *)

Past == 1 .. Len(hist)
Applied(c) == \E v \in Past : hist[v].by = c

(* A call has applied a write only if it ended, or is about to; one that   *)
(* is about to knows the version, and one that returned did.               *)
Accounted(c) ==
    /\ Applied(c) => pc[c] \in {"acked", "done", "failed"}
    /\ pc[c] = "acked" => call[c].ack # 0 /\ hist[call[c].ack].by = c
    /\ pc[c] = "done" /\ IsWrite(call[c].req) => Applied(c)
    /\ call[c].aim = "describe" => call[c].req.kind = "describe"
    /\ pc[c] \in {"delete", "deleted"} => call[c].req.kind = "delete"

OnceEach == \A v, w \in Past : hist[v].by = hist[w].by => v = w

(* What a configuration write leaves behind is never older than it.        *)
NotOlder(c) ==
    /\ pc[c] \in {"acked", "done"} => stored = 0 \/ stored >= call[c].ack
    /\ pc[c] = "done" /\ IsConfiguration(call[c].req.kind) =>
         LET i == memo[Handle(c)]
         IN i # Unresolved => codecs[i].version = 0 \/ codecs[i].version >= call[c].ack

ReadyHasRead == \A i \in DOMAIN codecs : codecs[i].state = "ready" => codecs[i].version # 0

WrittenOnce == OnceEach /\ ReadyHasRead /\ \A c \in Calls : Accounted(c) /\ NotOlder(c)

(* What a step of a call does to the call itself and to the memos.         *)
Ledger(c) ==
    /\ pc[c] \notin {"done", "failed"}
    /\ pc[c] # "idle" => call'[c].req = call[c].req
    /\ pc[c] = "acked" => pc'[c] \in {"done", "failed"}
    /\ call'[c].aim = "describe" => call'[c].req.kind = "describe"
    /\ pc'[c] \in {"delete", "deleted"} => call'[c].req.kind = "delete"
    /\ pc'[c] = "done" =>
         \/ /\ pc[c] = "acked" /\ call'[c].ack = call[c].ack
            /\ IsConfiguration(call[c].req.kind) => memo'[Handle(c)] = Unresolved
         \/ ~IsWrite(call'[c].req) /\ call'[c].ack = 0
    /\ \A h \in Handles :
         \/ memo'[h] \in {memo[h], Unresolved}
         \/ memo'[h] = Len(codecs) + 1 /\ Asking(c, codecs, codecs')

(* What is stored stays what it was.                                       *)
LEMMA Lasting ==
    ASSUME TypeOK, NEW c \in Calls, Aside(c)
    PROVE  /\ Len(hist') \in {Len(hist), Len(hist) + 1} /\ Len(hist) \in Nat
           /\ \A v \in Past : hist'[v] = hist[v]
           /\ \A v \in Versions : Object(v)' = Object(v)
           /\ Wrote(c) => /\ Len(hist') = Len(hist) + 1
                          /\ hist'[Len(hist) + 1] = [object |-> Body(c), by |-> c]
           /\ ~Wrote(c) => hist' = hist
           /\ stored' \in {stored, 0, Len(hist) + 1}
           /\ \A i \in 1 .. Len(codecs) :
                /\ codecs'[i].state = codecs[i].state
                /\ codecs'[i].version = codecs[i].version
           /\ Len(codecs) \in Nat /\ Len(codecs') \in {Len(codecs), Len(codecs) + 1}
<1>1. hist \in Seq(Entries) /\ Len(hist) \in Nat /\ Len(codecs) \in Nat
  BY DEF TypeOK
<1>2. [object |-> Body(c), by |-> c] \in Entries
  BY BodyTyped DEF Entries
<1>3. Wrote(c) => /\ Len(hist') = Len(hist) + 1
                  /\ hist'[Len(hist) + 1] = [object |-> Body(c), by |-> c]
                  /\ \A v \in Past : hist'[v] = hist[v]
  BY <1>1, <1>2, AppendProperties DEF Wrote, Past
<1>4. \A v \in Past : hist'[v] = hist[v]
  BY <1>3 DEF Aside
<1>5. \A v \in Versions : Object(v)' = Object(v)
  BY <1>1, <1>4 DEF Versions, Past, Object
<1>6. /\ \A i \in 1 .. Len(codecs) :
           codecs'[i].state = codecs[i].state /\ codecs'[i].version = codecs[i].version
      /\ Len(codecs') \in {Len(codecs), Len(codecs) + 1}
  BY DEF Aside, Same, Asking
<1> QED
  BY <1>1, <1>3, <1>4, <1>5, <1>6 DEF Aside, Wrote

LEMMA MetaReadLedger ==
    ASSUME TypeOK, NEW c \in Calls, NEW k \in CallType, k.req = call[c].req,
           NEW cs, NEW v, NEW lens, MetaRead(c, k, cs, v, lens)
    PROVE  /\ call'[c].req = call[c].req /\ call'[c].aim # "describe"
           /\ pc'[c] \in {"done", "failed", "resolve"}
           /\ pc'[c] = "done" => ~IsWrite(call'[c].req) /\ call'[c].ack = 0
<1> DEFINE n == [k EXCEPT !.got = v, !.gotLens = lens, !.pin = v, !.aim = "write"]
<1>1. CASE Finish(c, "done", 0) /\ k.req.kind \in {"meta", "index"}
  <2>1. call'[c].req = call[c].req /\ call'[c].ack = 0 /\ pc'[c] = "done" /\ call'[c].aim = None
    BY <1>1, FinishAside
  <2> QED
    BY <1>1, <2>1 DEF IsWrite, IsConfiguration, None
<1>2. CASE Fail(c)
  <2>1. call'[c].req = call[c].req /\ pc'[c] = "failed" /\ call'[c].aim = None
    BY <1>2, FinishAside DEF Fail
  <2> QED
    BY <2>1 DEF None
<1>3. CASE Goto(c, "resolve") /\ call' = [call EXCEPT ![c] = n]
  <2>1. n.req = k.req /\ n.aim = "write"
    BY DEF CallType
  <2> HIDE DEF n
  <2>2. call'[c] = n /\ pc'[c] = "resolve"
    BY <1>3 DEF Goto, TypeOK
  <2> QED
    BY <2>1, <2>2
<1> QED
  BY <1>1, <1>2, <1>3, Zenon DEF MetaRead

LEMMA ResolvedLedger ==
    ASSUME TypeOK, NEW c \in Calls, Accounted(c), Resolved(c)
    PROVE  Ledger(c)
<1> DEFINE k == call[c]
           i == k.codec
           cs == [codecs EXCEPT ![i].snapshot = FALSE]
           scheme == SchemeOf(i)
           version == codecs[i].version
           n == [k EXCEPT !.index = i, !.aim = "meta"]
<1>1. k \in CallType /\ i \in CodecIds
  BY RequestTyped DEF CallType
<1>2. pc[c] = "resolving" /\ UNCHANGED memo
  BY DEF Resolved
<1>3. [k EXCEPT !.index = i] \in CallType /\ [k EXCEPT !.index = i].req = k.req
  BY <1>1 DEF CallType
<1>4. /\ call'[c].req = call[c].req /\ (call'[c].aim = "describe" => call[c].aim = "describe")
      /\ pc'[c] \in {"done", "failed", "resolve", "baseline", "get"}
      /\ pc'[c] = "done" => ~IsWrite(call'[c].req) /\ call'[c].ack = 0
  <2>1. CASE Fail(c)
    BY <2>1, FinishAside DEF Fail, None
  <2>2. CASE MetaRead(c, k, cs, version, scheme)
    BY <1>1, <2>2, MetaReadLedger
  <2>3. CASE MetaRead(c, [k EXCEPT !.index = i], cs, version, scheme)
    <3> HIDE DEF cs, version, scheme, i
    <3> QED
      BY <1>3, <2>3, MetaReadLedger
  <2>4. CASE call' = call /\ (Goto(c, "baseline") \/ Goto(c, "get"))
    BY <2>4 DEF Goto, TypeOK
  <2>5. CASE Goto(c, "resolve") /\ call' = [call EXCEPT ![c].index = i, ![c].aim = "meta"]
    <3>1. n.req = k.req /\ n.aim = "meta"
      BY <1>1 DEF CallType
    <3>2. call'[c] = n /\ pc'[c] = "resolve"
      BY <2>5 DEF Goto, TypeOK
    <3> QED
      BY <3>1, <3>2
  <2> QED
    <3> HIDE DEF scheme, version, cs
    <3>1. \/ Fail(c)
          \/ MetaRead(c, k, cs, version, scheme)
          \/ MetaRead(c, [k EXCEPT !.index = i], cs, version, scheme)
          \/ call' = call /\ (Goto(c, "baseline") \/ Goto(c, "get"))
          \/ Goto(c, "resolve") /\ call' = [call EXCEPT ![c].index = i, ![c].aim = "meta"]
      BY DEF Resolved, version, scheme, cs
    <3> QED
      BY <2>1, <2>2, <2>3, <2>4, <2>5, <3>1
<1> QED
  BY <1>2, <1>4 DEF Ledger, Accounted

LEMMA WriteLedger ==
    ASSUME TypeOK, NEW c \in Calls, Accounted(c),
           \/ ServeGet(c) \/ Baseline(c) \/ GotBaseline(c) \/ ServePut(c) \/ Conflict(c)
           \/ ServeDelete(c) \/ Lose(c)
    PROVE  Ledger(c)
<1> DEFINE k == call[c]
<1>1. k \in CallType
  BY RequestTyped
<1>2. /\ UNCHANGED memo
      /\ pc[c] \in {"get", "got", "baseline", "put", "conflict", "acked", "delete", "deleted"}
      /\ pc[c] # "acked" \/ Fail(c)
  BY DEF ServeGet, Baseline, GotBaseline, ServePut, Conflict, PreconditionFailed, ServeDelete, Lose
<1>3. /\ call'[c].req = k.req /\ (call'[c].aim = "describe" => k.aim = "describe")
      /\ pc'[c] # "done" /\ (pc'[c] \in {"delete", "deleted"} => pc[c] = "delete")
      /\ Fail(c) => pc'[c] = "failed"
  <2>1. CASE Fail(c)
    BY <2>1, FinishAside DEF Fail, None
  <2>2. CASE ServeGet(c)
    BY <1>1, <2>2 DEF ServeGet, Goto, TypeOK, CallType, Fail, Finish
  <2>3. CASE ~Fail(c) /\ (Baseline(c) \/ GotBaseline(c))
    <3>1. PICK v, lens : \/ Send(c, v, lens)
                         \/ Goto(c, "get") /\ call' = [call EXCEPT ![c].seed = 0]
      BY <2>3, Zenon DEF Baseline, GotBaseline
    <3> QED
      BY <1>1, <2>3, <3>1 DEF Send, Goto, TypeOK, CallType
  <2>4. CASE ~Fail(c) /\ ServePut(c)
    <3>1. PICK n : /\ Goto(c, "conflict") \/ Goto(c, "acked")
                   /\ call' = call \/ call' = [call EXCEPT ![c].ack = n]
      BY <2>4, Zenon DEF ServePut
    <3> QED
      BY <1>1, <2>4, <3>1 DEF Goto, TypeOK, CallType
  <2>5. CASE ~Fail(c) /\ Conflict(c)
    <3> DEFINE again == [Locals(k.req, 0, 0, IF IsReadModifyWrite(k.req.kind) THEN "meta" ELSE "write")
                           EXCEPT !.tries = k.tries + 1, !.index = k.index, !.codec = k.codec]
    <3>1. again.req = k.req /\ again.aim \in {"meta", "write"}
      BY DEF Locals
    <3> HIDE DEF again
    <3>2. call'[c] = again /\ pc'[c] \in {"resolve", "baseline"}
      BY <2>5 DEF Conflict, Goto, TypeOK, again
    <3> QED
      BY <2>5, <3>1, <3>2
  <2>6. CASE ServeDelete(c)
    BY <2>6 DEF ServeDelete, Goto, TypeOK, Fail, Finish
  <2> QED
    BY <2>1, <2>2, <2>3, <2>4, <2>5, <2>6 DEF Lose
<1> QED
  BY <1>2, <1>3 DEF Ledger, Accounted

LEMMA EndLedger ==
    ASSUME TypeOK, NEW c \in Calls, Accounted(c), GotDescription(c) \/ Deleted(c) \/ Acked(c)
    PROVE  Ledger(c)
<1>1. CASE GotDescription(c)
  <2>1. /\ call'[c].req = call[c].req /\ call'[c].ack = 0 /\ pc'[c] = "done" /\ call'[c].aim = None
        /\ call[c].req.kind = "describe" /\ UNCHANGED memo /\ pc[c] = "got"
    BY <1>1, FinishAside DEF GotDescription, Accounted
  <2> QED
    BY <2>1 DEF Ledger, None, IsWrite, IsConfiguration
<1>2. CASE Deleted(c)
  <2>1. /\ call'[c].req = call[c].req /\ call'[c].ack = 0 /\ pc'[c] = "done" /\ call'[c].aim = None
        /\ call[c].req.kind = "delete" /\ pc[c] = "deleted"
    BY <1>2, FinishAside DEF Deleted, Accounted
  <2>2. \A h \in Handles : memo'[h] \in {memo[h], Unresolved}
    BY <1>2 DEF Deleted, ResetCodec, TypeOK
  <2> QED
    BY <2>1, <2>2 DEF Ledger, None, IsWrite, IsConfiguration
<1>3. CASE Acked(c)
  <2>1. /\ call'[c].req = call[c].req /\ call'[c].ack = call[c].ack /\ pc'[c] = "done"
        /\ call'[c].aim = None /\ pc[c] = "acked"
    BY <1>3, FinishAside DEF Acked
  <2>2. \A h \in Handles : memo'[h] \in {memo[h], Unresolved}
    BY <1>3 DEF Acked, ResetCodec, TypeOK
  <2>3. IsConfiguration(call[c].req.kind) => memo'[Handle(c)] = Unresolved
    BY <1>3, HandleTyped DEF Acked, ResetCodec, TypeOK
  <2> QED
    BY <2>1, <2>2, <2>3 DEF Ledger, None
<1> QED
  BY <1>1, <1>2, <1>3

LEMMA BeginLedger ==
    ASSUME TypeOK, NEW c \in Calls, Accounted(c), Start(c) \/ Acquire(c) \/ GotMeta(c)
    PROVE  Ledger(c)
<1>1. CASE Start(c)
  <2>1. PICK req \in Requests : \E pin, seed :
           Goto(c, Entry(req)) /\ call' = [call EXCEPT ![c] = Locals(req, pin, seed, EntryAim(req))]
    BY <1>1 DEF Start
  <2>2. call'[c].req = req /\ call'[c].aim = EntryAim(req) /\ pc'[c] = Entry(req)
    BY <2>1 DEF Locals, Goto, TypeOK
  <2> QED
    BY <1>1, <2>2 DEF Start, Ledger, Entry, EntryAim, IsConfiguration
<1>2. CASE Acquire(c)
  <2>1. call[c] \in CallType
    BY RequestTyped
  <2>2. call'[c] = [call[c] EXCEPT !.codec = memo'[Handle(c)]] /\ pc'[c] = "resolving" /\ pc[c] = "resolve"
    BY <1>2 DEF Acquire, Goto, TypeOK
  <2>3. call'[c].req = call[c].req /\ call'[c].aim = call[c].aim
    BY <2>1, <2>2 DEF CallType
  <2>4. \A h \in Handles : \/ memo'[h] = memo[h]
                           \/ memo'[h] = Len(codecs) + 1 /\ Asking(c, codecs, codecs')
    <3>1. CASE memo[Handle(c)] = Unresolved
      <4>1. Asking(c, codecs, codecs') /\ memo' = [memo EXCEPT ![Handle(c)] = Len(codecs')]
        BY <1>2, <3>1, AskingSo DEF Acquire
      <4> QED
        BY <4>1 DEF Asking, TypeOK
    <3>2. CASE memo[Handle(c)] # Unresolved
      BY <1>2, <3>2 DEF Acquire
    <3> QED
      BY <3>1, <3>2
  <2> QED
    BY <2>2, <2>3, <2>4 DEF Ledger, Accounted
<1>3. CASE GotMeta(c)
  <2>1. call[c] \in CallType /\ UNCHANGED memo /\ pc[c] = "got"
    BY <1>3, RequestTyped DEF GotMeta
  <2>2. CASE Fail(c)
    BY <2>1, <2>2, FinishAside DEF Fail, Ledger, None
  <2>3. CASE MetaRead(c, call[c], codecs, call[c].seen, SchemeOf(call[c].codec))
    <3>1. /\ call'[c].req = call[c].req /\ call'[c].aim # "describe"
          /\ pc'[c] \in {"done", "failed", "resolve"}
          /\ pc'[c] = "done" => ~IsWrite(call'[c].req) /\ call'[c].ack = 0
      BY <2>1, <2>3, MetaReadLedger
    <3> QED
      BY <2>1, <3>1 DEF Ledger
  <2> QED
    BY <1>3, <2>2, <2>3, Zenon DEF GotMeta
<1> QED
  BY <1>1, <1>2, <1>3

LEMMA EveryLedger ==
    ASSUME TypeOK, NEW c \in Calls, Accounted(c), Start(c) \/ Step(c) \/ Lose(c)
    PROVE  Ledger(c)
  BY ResolvedLedger, WriteLedger, EndLedger, BeginLedger DEF Step
LEMMA CallWrittenOnce ==
    ASSUME TypeOK, PinnedWrites, WrittenOnce, NEW c \in Calls,
           Start(c) \/ Step(c) \/ Lose(c)
    PROVE  WrittenOnce'
<1>1. Aside(c) /\ pc'[c] # "idle"
  BY EveryAside
<1>2. /\ Len(hist') \in {Len(hist), Len(hist) + 1} /\ Len(hist) \in Nat
      /\ \A v \in Past : hist'[v] = hist[v]
      /\ Wrote(c) => /\ Len(hist') = Len(hist) + 1
                     /\ hist'[Len(hist) + 1] = [object |-> Body(c), by |-> c]
      /\ ~Wrote(c) => hist' = hist
      /\ stored' \in {stored, 0, Len(hist) + 1}
      /\ \A i \in 1 .. Len(codecs) :
           /\ codecs'[i].state = codecs[i].state
           /\ codecs'[i].version = codecs[i].version
      /\ Len(codecs) \in Nat /\ Len(codecs') \in {Len(codecs), Len(codecs) + 1}
  BY <1>1, Lasting
<1>3. Accounted(c) /\ NotOlder(c) /\ Ledger(c)
  BY EveryLedger DEF WrittenOnce
<1>4. /\ stored \in 0 .. Len(hist) /\ call[c].ack \in 0 .. Len(hist)
      /\ memo \in [Handles -> 0 .. Len(codecs)] /\ codecs \in Seq(CodecType)
  BY RequestTyped DEF TypeOK, CallType, Versions, CodecIds
<1>5. Wrote(c) => ~Applied(c) /\ call'[c].ack = Len(hist) + 1
  <2>1. call[c] \in CallType
    BY RequestTyped
  <2> QED
    BY <1>3, <2>1 DEF Wrote, Accounted, TypeOK, CallType
<1>6. OnceEach'
  <2>1. CASE ~Wrote(c)
    BY <1>2, <2>1 DEF OnceEach, WrittenOnce, Past
  <2>2. CASE Wrote(c)
    <3>1. \A v \in Past' : \/ v \in Past /\ hist'[v] = hist[v] /\ hist'[v].by # c
                           \/ v = Len(hist) + 1 /\ hist'[v].by = c
      BY <1>2, <1>5, <2>2 DEF Past, Applied
    <3> QED
      BY <3>1 DEF OnceEach, WrittenOnce
  <2> QED
    BY <2>1, <2>2
<1>7. ReadyHasRead'
  <2>1. \A i \in DOMAIN codecs' : i \in 1 .. Len(codecs) \/ codecs'[i].state = "asked"
    <3>1. codecs' \in Seq(CodecType)'
      BY NextTyped DEF TypeOK, Next
    <3>2. DOMAIN codecs' = 1 .. Len(codecs')
      BY <3>1
    <3>3. CASE Len(codecs') = Len(codecs)
      BY <1>2, <3>2, <3>3
    <3>4. CASE Len(codecs') = Len(codecs) + 1
      BY <1>1, <1>2, <3>2, <3>4 DEF Aside, Same, Asking
    <3> QED
      BY <1>2, <3>3, <3>4
  <2>2. DOMAIN codecs = 1 .. Len(codecs)
    BY <1>4
  <2> QED
    BY <1>2, <2>1, <2>2 DEF ReadyHasRead, WrittenOnce
<1>8. Accounted(c)'
  <2>1. Applied(c)' => pc'[c] \in {"acked", "done", "failed"}
    BY <1>2, <1>3 DEF Wrote, Accounted, Ledger, Applied, Past
  <2>2. pc'[c] = "acked" => call'[c].ack # 0 /\ hist'[call'[c].ack].by = c
    BY <1>1, <1>2, <1>5 DEF Aside
  <2>3. pc'[c] = "done" /\ IsWrite(call'[c].req) => Applied(c)'
    <3>1. SUFFICES ASSUME pc[c] = "acked"
                   PROVE  Applied(c)'
      BY <1>3 DEF Ledger
    <3>2. call[c].ack \in Past /\ hist[call[c].ack].by = c
      BY <1>3, <1>4, <3>1 DEF Accounted, Past
    <3> QED
      BY <1>2, <3>2 DEF Applied, Past
  <2>4. /\ call'[c].aim = "describe" => call'[c].req.kind = "describe"
        /\ pc'[c] \in {"delete", "deleted"} => call'[c].req.kind = "delete"
    BY <1>3 DEF Ledger
  <2> QED
    BY <2>1, <2>2, <2>3, <2>4 DEF Accounted
<1>9. NotOlder(c)'
  <2>1. pc'[c] \in {"acked", "done"} => stored' = 0 \/ stored' >= call'[c].ack
    <3>1. CASE Wrote(c)
      BY <1>2, <1>5, <3>1 DEF Wrote
    <3>2. CASE pc'[c] = "done"
      BY <1>2, <1>3, <1>4, <3>2 DEF Ledger, NotOlder
    <3> QED
      BY <1>1, <3>1, <3>2 DEF Aside
  <2>2. pc'[c] = "done" /\ IsConfiguration(call'[c].req.kind) => memo'[Handle(c)] = Unresolved
    BY <1>3 DEF Ledger, IsWrite
  <2> QED
    BY <2>1, <2>2 DEF NotOlder, Handle
<1>10. ASSUME NEW d \in Calls \ {c}
       PROVE  Accounted(d)' /\ NotOlder(d)'
  <2>1. pc'[d] = pc[d] /\ call'[d] = call[d] /\ Accounted(d) /\ NotOlder(d)
    BY <1>1 DEF Aside, Others, WrittenOnce
  <2>2. call[d].ack \in 0 .. Len(hist)
    BY RequestTyped DEF CallType, Versions
  <2>3. Accounted(d)'
    <3>1. Applied(d) <=> Applied(d)'
      BY <1>2 DEF Applied, Past
    <3>2. call[d].ack # 0 => hist'[call[d].ack] = hist[call[d].ack]
      BY <1>2, <2>2 DEF Past
    <3> QED
      BY <2>1, <3>1, <3>2 DEF Accounted
  <2>4. NotOlder(d)'
    <3>1. pc'[d] \in {"acked", "done"} => stored' = 0 \/ stored' >= call'[d].ack
      BY <1>2, <1>4, <2>1, <2>2 DEF NotOlder
    <3>2. ASSUME pc'[d] = "done", IsConfiguration(call'[d].req.kind), memo'[Handle(d)] # Unresolved
          PROVE  LET i == memo'[Handle(d)]
                 IN codecs'[i].version = 0 \/ codecs'[i].version >= call'[d].ack
      <4>1. Handle(d) \in Handles
        BY HandleTyped
      <4>2. \/ memo'[Handle(d)] = memo[Handle(d)]
            \/ memo'[Handle(d)] = Len(codecs) + 1 /\ Asking(c, codecs, codecs')
        BY <1>3, <3>2, <4>1 DEF Ledger
      <4>3. CASE memo'[Handle(d)] = memo[Handle(d)]
        <5>1. memo[Handle(d)] \in 1 .. Len(codecs)
          BY <1>4, <3>2, <4>1, <4>3 DEF Unresolved
        <5> QED
          BY <1>2, <2>1, <3>2, <4>3, <5>1 DEF NotOlder
      <4> QED
        BY <4>2, <4>3 DEF Asking
    <3> QED
      BY <3>1, <3>2 DEF NotOlder, Handle
  <2> QED
    BY <2>3, <2>4
<1> QED
  BY <1>6, <1>7, <1>8, <1>9, <1>10 DEF WrittenOnce

(* What a step of a resolution changes: its own state, and when it fails   *)
(* the memo it was in.                                                     *)
Settles(i) ==
    /\ UNCHANGED <<hist, stored, recent, pc, call>>
    /\ Len(codecs') = Len(codecs) /\ DOMAIN codecs' = DOMAIN codecs
    /\ \A j \in (1 .. Len(codecs)) \ {i} : codecs'[j] = codecs[j]
    /\ codecs'[i].handle = codecs[i].handle /\ codecs'[i].owner = codecs[i].owner
    /\ \A h \in Handles : memo'[h] \in {memo[h], Unresolved}
    /\ \/ /\ codecs[i].state = "asked" /\ codecs'[i].state = "answered"
          /\ codecs'[i].version \in {stored, 0} /\ memo' = memo
          /\ codecs'[i].version # 0 => codecs[i].handle \in Readers
          /\ codecs'[i].snapshot = codecs[i].snapshot
       \/ /\ codecs[i].state = "answered" /\ codecs'[i].state = "failed"
          /\ codecs'[i].version = codecs[i].version
          /\ codecs'[i].snapshot = codecs[i].snapshot
          /\ \A h \in Handles : memo'[h] # i \/ h # codecs[i].handle
          /\ \A h \in Handles : memo[h] # i => memo'[h] = memo[h]
       \/ /\ codecs[i].state = "answered" /\ codecs'[i].state = "ready" /\ memo' = memo
          /\ codecs'[i].version = codecs[i].version /\ codecs[i].version # 0
          /\ codecs'[i].schema =
               LET object == Object(codecs[i].version)
               IN IF object.enc = "edv" THEN StoredSchema("edv", object.custom) ELSE {}

LEMMA ResolutionSettles ==
    ASSUME TypeOK, NEW i \in DOMAIN codecs, ServeResolution(i) \/ SettleResolution(i)
    PROVE  Settles(i)
<1>1. /\ codecs \in Seq(CodecType) /\ i \in 1 .. Len(codecs) /\ codecs[i] \in CodecType
      /\ memo \in [Handles -> CodecIds]
  BY DEF TypeOK
<1>2. ASSUME NEW n \in CodecType, codecs' = [codecs EXCEPT ![i] = n]
      PROVE  /\ Len(codecs') = Len(codecs) /\ codecs'[i] = n
             /\ DOMAIN codecs' = DOMAIN codecs
             /\ \A j \in (1 .. Len(codecs)) \ {i} : codecs'[j] = codecs[j]
  BY <1>1, <1>2, ExceptSeq
<1>3. CASE ServeResolution(i)
  <2>1. PICK v \in {Visible(codecs[i].handle), 0} :
           codecs' = [codecs EXCEPT ![i].state = "answered", ![i].version = v]
    BY <1>3 DEF ServeResolution
  <2>2. v \in {stored, 0} /\ v \in Versions /\ (v # 0 => codecs[i].handle \in Readers)
    BY <1>1, VisibleTyped, ZeroTyped DEF Visible, CodecType
  <2> DEFINE n == [codecs[i] EXCEPT !.state = "answered", !.version = v]
  <2>3. /\ n \in CodecType /\ n.state = "answered" /\ n.version = v
        /\ n.handle = codecs[i].handle /\ n.owner = codecs[i].owner
        /\ n.snapshot = codecs[i].snapshot
    BY <1>1, <2>2 DEF CodecType
  <2>4. codecs' = [codecs EXCEPT ![i] = n]
    BY <2>1, <1>1
  <2> HIDE DEF n
  <2>5. /\ Len(codecs') = Len(codecs) /\ codecs'[i] = n
        /\ DOMAIN codecs' = DOMAIN codecs
        /\ \A j \in (1 .. Len(codecs)) \ {i} : codecs'[j] = codecs[j]
    BY <1>2, <2>3, <2>4
  <2> QED
    BY <1>3, <2>2, <2>3, <2>5 DEF ServeResolution, Asked, Settles
<1>4. CASE SettleResolution(i)
  <2> DEFINE object == Object(codecs[i].version)
             schema == IF object.enc = "edv" THEN StoredSchema("edv", object.custom) ELSE {}
             f == [codecs[i] EXCEPT !.state = "failed"]
             r == [codecs[i] EXCEPT !.state = "ready", !.snapshot = CanOpen(object.enc, object.custom),
                                    !.schema = schema]
  <2>1. object \in Objects
    BY <1>1, ObjectTyped DEF CodecType
  <2>2. CanOpen(object.enc, object.custom) \in BOOLEAN
    BY DEF CanOpen
  <2>3. schema \in SUBSET Declarations
    BY <2>1, OpenedTyped DEF Objects, Lenses
  <2>4. /\ f \in CodecType /\ f.state = "failed" /\ f.version = codecs[i].version
        /\ f.handle = codecs[i].handle /\ f.owner = codecs[i].owner
        /\ f.snapshot = codecs[i].snapshot
    BY <1>1 DEF CodecType
  <2>5. /\ r \in CodecType /\ r.state = "ready" /\ r.version = codecs[i].version
        /\ r.handle = codecs[i].handle /\ r.owner = codecs[i].owner /\ r.schema = schema
    <3> HIDE DEF schema, object
    <3> QED
      BY <1>1, <2>2, <2>3 DEF CodecType
  <2>6. codecs[i].state = "answered" /\ UNCHANGED <<hist, stored, recent, pc, call>>
    BY <1>4 DEF SettleResolution, Keyless
  <2>7. \/ /\ codecs' = [codecs EXCEPT ![i] = f]
           /\ memo' = IF memo[codecs[i].handle] = i
                      THEN [memo EXCEPT ![codecs[i].handle] = Unresolved] ELSE memo
        \/ codecs' = [codecs EXCEPT ![i] = r] /\ memo' = memo /\ codecs[i].version # 0
    BY <1>1, <1>4 DEF SettleResolution, Keyless
  <2>8. CASE codecs' = [codecs EXCEPT ![i] = r] /\ memo' = memo /\ codecs[i].version # 0
    <3> HIDE DEF r
    <3>1. /\ Len(codecs') = Len(codecs) /\ codecs'[i] = r
          /\ DOMAIN codecs' = DOMAIN codecs
          /\ \A j \in (1 .. Len(codecs)) \ {i} : codecs'[j] = codecs[j]
      BY <1>2, <2>5, <2>8
    <3> QED
      BY <2>5, <2>6, <2>8, <3>1 DEF Settles
  <2>9. CASE /\ codecs' = [codecs EXCEPT ![i] = f]
             /\ memo' = IF memo[codecs[i].handle] = i
                        THEN [memo EXCEPT ![codecs[i].handle] = Unresolved] ELSE memo
    <3> HIDE DEF f, r, schema, object
    <3>1. /\ Len(codecs') = Len(codecs) /\ codecs'[i] = f
          /\ DOMAIN codecs' = DOMAIN codecs
          /\ \A j \in (1 .. Len(codecs)) \ {i} : codecs'[j] = codecs[j]
      BY <1>2, <2>4, <2>9
    <3>2. /\ \A h \in Handles : memo'[h] \in {memo[h], Unresolved}
          /\ \A h \in Handles : memo'[h] # i \/ h # codecs[i].handle
          /\ \A h \in Handles : memo[h] # i => memo'[h] = memo[h]
      BY <1>1, <2>9 DEF Unresolved
    <3> QED
      BY <2>4, <2>6, <3>1, <3>2 DEF Settles
  <2> QED
    BY <2>7, <2>8, <2>9
<1> QED
  BY <1>3, <1>4

LEMMA ResolutionWrittenOnce ==
    ASSUME TypeOK, WrittenOnce, NEW i \in DOMAIN codecs, Settles(i)
    PROVE  WrittenOnce'
<1>1. /\ codecs \in Seq(CodecType) /\ i \in 1 .. Len(codecs) /\ Len(codecs) \in Nat
      /\ memo \in [Handles -> 0 .. Len(codecs)] /\ stored \in Nat
  BY DEF TypeOK, CodecIds, Versions
<1>2. UNCHANGED <<hist, stored, recent, pc, call>>
  BY DEF Settles
<1>3. OnceEach' /\ \A c \in Calls : Accounted(c)'
  BY <1>2 DEF WrittenOnce, OnceEach, Accounted, Applied, Past
<1>4. \A j \in 1 .. Len(codecs) : \/ codecs'[j].version = codecs[j].version
                                  \/ codecs'[j].version \in {stored, 0}
  BY DEF Settles
<1>5. ReadyHasRead'
  <2>1. Len(codecs') = Len(codecs)
    BY DEF Settles
  <2>2. \A j \in 1 .. Len(codecs) : codecs'[j].state = "ready" => codecs'[j].version # 0
    BY <1>1 DEF Settles, WrittenOnce, ReadyHasRead
  <2>3. DOMAIN codecs' = 1 .. Len(codecs)
    BY <1>1 DEF Settles
  <2> QED
    BY <2>1, <2>2, <2>3 DEF ReadyHasRead
<1>6. ASSUME NEW c \in Calls
      PROVE  NotOlder(c)'
  <2>1. NotOlder(c) /\ Handle(c) \in Handles
    BY HandleTyped DEF WrittenOnce
  <2>2. memo'[Handle(c)] \in {memo[Handle(c)], Unresolved}
    BY <2>1 DEF Settles
  <2>3. memo[Handle(c)] # Unresolved => memo[Handle(c)] \in 1 .. Len(codecs)
    BY <1>1, <2>1 DEF Unresolved
  <2> QED
    BY <1>2, <1>4, <2>1, <2>2, <2>3 DEF NotOlder, Handle
<1> QED
  BY <1>3, <1>5, <1>6 DEF WrittenOnce

LEMMA InitWrittenOnce == Init => WrittenOnce
<1> SUFFICES ASSUME Init PROVE WrittenOnce
  OBVIOUS
<1>1. codecs = <<>> /\ memo = [h \in Handles |-> Unresolved]
      /\ pc = [c \in Calls |-> "idle"] /\ call = [c \in Calls |-> Locals(NoRequest, 0, 0, None)]
  BY DEF Init
<1>2. Len(hist) \in {0, 1} /\ \A v \in Past : hist[v].by = None
  BY DEF Init, Past
<1>3. \A c \in Calls : call[c].aim = None /\ pc[c] = "idle" /\ ~Applied(c)
  BY <1>1, <1>2, NoneIsNoCall DEF Locals, Applied
<1> QED
  BY <1>1, <1>2, <1>3 DEF WrittenOnce, OnceEach, ReadyHasRead, Accounted, NotOlder, Past, None

LEMMA NextWrittenOnce ==
    ASSUME TypeOK, PinnedWrites, WrittenOnce, [Next]_vars
    PROVE  WrittenOnce'
<1>1. CASE UNCHANGED vars
  BY <1>1 DEF vars, WrittenOnce, OnceEach, ReadyHasRead, Accounted, NotOlder, Past, Applied, Handle
<1>2. CASE \E c \in Calls : Start(c) \/ Step(c) \/ Lose(c)
  BY <1>2, CallWrittenOnce
<1>3. CASE Resolution
  BY <1>3, ResolutionSettles, ResolutionWrittenOnce DEF Resolution
<1> QED
  BY <1>1, <1>2, <1>3 DEF Next, Quiet

LEMMA AlwaysWrittenOnce == Spec => [](TypeOK /\ PinnedWrites /\ WrittenOnce)
<1>1. Init => TypeOK /\ PinnedWrites /\ WrittenOnce
  BY InitTyped, InitPinned, InitWrittenOnce
<1>2. TypeOK /\ PinnedWrites /\ WrittenOnce /\ [Next]_vars
      => (TypeOK /\ PinnedWrites /\ WrittenOnce)'
  BY NextTyped, NextPinned, NextWrittenOnce
<1> QED
  BY <1>1, <1>2, PTL DEF Spec

(* compareAndSwap (src/internal/cas.ts) retries only what the server       *)
(* refused: whatever calls overlap, whatever answers are lost and however  *)
(* often a write lost its race, no write of Collection.ts is applied a     *)
(* second time, and one that returned was applied.                         *)
THEOREM AppliesOnce == Spec => []AppliedOnce
<1>1. WrittenOnce => AppliedOnce
  BY DEF WrittenOnce, OnceEach, Accounted, Applied, Past, AppliedOnce, Returned
<1> QED
  BY <1>1, AlwaysWrittenOnce, PTL

(* #resetCodec after configure and replaceDescription (Collection.ts):     *)
(* once one has returned, no codec its handle works with was resolved from *)
(* an older description, although a resolution that was under way when the *)
(* write went out may still settle afterwards.                             *)
THEOREM CodecFollows == Spec => []CodecNotOlderThanConfiguration
<1>1. ASSUME TypeOK, WrittenOnce
      PROVE  CodecNotOlderThanConfiguration
  <2>1. SUFFICES ASSUME NEW c \in Calls, Returned(c), IsConfiguration(call[c].req.kind),
                        NEW i \in Held(Handle(c))
                 PROVE  codecs[i].version >= call[c].ack
    BY DEF CodecNotOlderThanConfiguration
  <2>2. i = memo[Handle(c)] /\ i # Unresolved /\ codecs[i].state = "ready" /\ NotOlder(c)
    BY <1>1, <2>1 DEF Held, WrittenOnce
  <2>3. i \in DOMAIN codecs
    <3>1. codecs \in Seq(CodecType) /\ memo \in [Handles -> 0 .. Len(codecs)]
      BY <1>1 DEF TypeOK, CodecIds
    <3> QED
      BY <2>2, <3>1, HandleTyped DEF Unresolved
  <2>4. codecs[i].version # 0
    BY <1>1, <2>2, <2>3 DEF WrittenOnce, ReadyHasRead
  <2> QED
    BY <2>1, <2>2, <2>4 DEF NotOlder, Returned
<1> QED
  BY <1>1, AlwaysWrittenOnce, PTL
-----------------------------------------------------------------------------
(* One call at a time.                                                     *)

Alone == \A c, d \in Calls : c # d /\ Handle(c) = Handle(d) => Finished(c) \/ Finished(d)

(* The codec a handle works with, and no reader's snapshot of it is left.  *)
Works(h, i) ==
    i # Unresolved /\ memo[h] = i /\ codecs[i].state = "ready" /\ ~codecs[i].snapshot

Annotates(c) ==
    ~IsConfiguration(call[c].req.kind) /\ ~call[c].req.absent

(* Which calls resolve a codec, and what of it they captured.              *)
Coded(c) ==
    LET k == call[c]
        h == Handle(c)
    IN /\ pc[c] \in {"resolve", "resolving"} => Annotates(c)
       /\ pc[c] = "resolving" => k.codec = memo[h] \/ codecs[k.codec].state = "failed"
       /\ pc[c] # "resolving" /\ k.codec # Unresolved => Works(h, k.codec)
       /\ k.index # Unresolved =>
            Works(h, k.index) /\ ~Undeclarable(SchemeOf(k.index), k.req.decls)
       /\ pc[c] \in {"get", "got", "baseline", "put", "conflict", "acked"}
              /\ k.codec = Unresolved /\ k.aim # "describe" =>
            k.aim = "write" /\ ~Annotates(c)
       /\ k.codec # Unresolved => Annotates(c)

(* A read-modify-write writes through the codec it read through.           *)
Lensed(c) ==
    LET k == call[c]
    IN /\ k.aim = "write" /\ IsReadModifyWrite(k.req.kind) =>
            Works(Handle(c), k.codec) /\ k.gotLens = SchemeOf(k.codec)
       /\ k.aim \in {"meta", "write"} /\ k.req.kind = "index" => k.index # Unresolved
       /\ k.aim = "write" /\ k.req.kind = "index" => ~Conflicting(Fetched(c).schema, k.req.decls)
       /\ pc[c] = "put" /\ Annotates(c) /\ k.base = stored =>
            k.baseLens \in {None, SchemeOf(k.codec)}

(* Only writes reach a PUT: a guarded create over nothing, an annotation   *)
(* over something.                                                         *)
Intent(c) ==
    LET k == call[c]
    IN /\ pc[c] \in {"put", "conflict", "acked"} => k.aim = "write"
       /\ k.aim = "write" /\ pc[c] \notin {"delete", "deleted"} =>
            k.req.kind \in {"configure", "replace", "set", "patch", "index"}
       /\ k.req.absent => pc[c] \notin {"get", "got"}
       /\ pc[c] = "put" /\ k.req.absent => k.base = 0
       /\ pc[c] = "put" /\ Annotates(c) => k.base # 0

(* The handle's remembered read, if it is still what is stored, was opened *)
(* with the codec the handle works with.                                   *)
Remembering(h) ==
    LET r == recent[h]
    IN r.version # 0 /\ r.version = stored /\ r.lens # None =>
         /\ memo[h] # Unresolved /\ codecs[memo[h]].state = "ready"
         /\ SchemeOf(memo[h]) = r.lens

Forgotten(c) ==
    LET r == recent[Handle(c)]
    IN /\ pc[c] \in {"put", "acked"} \/ (pc[c] \in {"get", "got"} /\ call[c].aim = "write") =>
            r = Nothing
       /\ pc[c] = "deleted" => r.version = 0 \/ r.version # stored

Sound(o) ==
    /\ o.custom.seal \in {o.enc, None}
    /\ o.custom.schema # {} => o.custom.seal = "edv"
    /\ ~Conflicting(o.custom.schema, o.custom.schema)

Working(c) == Coded(c) /\ Lensed(c) /\ Intent(c) /\ Forgotten(c)

Orderly ==
    /\ Alone
    /\ \A v \in Past : Sound(hist[v].object)
    /\ \A h \in Handles : Remembering(h)
    /\ \A c \in Calls : Finished(c) \/ Working(c)

(* A codec keeps its scheme.                                               *)
LEMMA SchemeLasts ==
    ASSUME TypeOK, NEW c \in Calls, Aside(c), NEW i \in CodecIds
    PROVE  SchemeOf(i)' = SchemeOf(i)
<1>1. CASE i = Unresolved
  BY <1>1 DEF SchemeOf
<1>2. CASE i # Unresolved
  <2>1. i \in 1 .. Len(codecs) /\ codecs \in Seq(CodecType)
    BY <1>2 DEF TypeOK, CodecIds, Unresolved
  <2>2. codecs[i].version \in 0 .. Len(hist)
    <3>1. codecs[i] \in CodecType
      BY <2>1
    <3> QED
      BY <3>1 DEF CodecType, Versions
  <2>3. codecs'[i].version = codecs[i].version
    BY <2>1, Lasting
  <2>4. \A v \in Past : hist'[v] = hist[v]
    BY Lasting
  <2>5. codecs[i].version # 0 => codecs[i].version \in Past
    BY <2>2, Lasting DEF Past
  <2> QED
    BY <1>2, <2>3, <2>4, <2>5 DEF SchemeOf, Object
<1> QED
  BY <1>1, <1>2

LEMMA WorksLasts ==
    ASSUME TypeOK, NEW c \in Calls, Aside(c), NEW h \in Handles, NEW i,
           Works(h, i), memo'[h] = memo[h]
    PROVE  Works(h, i)'
<1>1. i \in 1 .. Len(codecs)
  BY DEF Works, TypeOK, CodecIds, Unresolved
<1> QED
  BY <1>1 DEF Works, Aside, Same, Asking

LEMMA RememberingLasts ==
    ASSUME TypeOK, NEW c \in Calls, Aside(c), NEW h \in Handles, Remembering(h),
           memo'[h] = memo[h], recent'[h] = recent[h]
    PROVE  Remembering(h)'
<1>1. /\ recent[h].version \in 0 .. Len(hist) /\ Len(hist) \in Nat
      /\ memo[h] \in CodecIds
  BY DEF TypeOK, Remembered, Versions
<1>2. stored' \in {stored, 0, Len(hist) + 1}
  BY Lasting
<1>3. PICK i \in CodecIds : i = memo[h]
  BY <1>1
<1>4. CASE recent[h].version # 0 /\ recent[h].version = stored /\ recent[h].lens # None
  <2>1. i # Unresolved /\ codecs[i].state = "ready" /\ SchemeOf(i) = recent[h].lens
    BY <1>3, <1>4 DEF Remembering
  <2>2. i \in 1 .. Len(codecs)
    BY <2>1 DEF CodecIds, Unresolved
  <2>3. codecs'[i].state = "ready" /\ SchemeOf(i)' = recent[h].lens
    BY <2>1, <2>2, Lasting, SchemeLasts
  <2> QED
    BY <1>3, <2>1, <2>3 DEF Remembering, SchemeOf
<1> QED
  BY <1>1, <1>2, <1>4 DEF Remembering

(* What a call captured survives the steps of others: on another handle,   *)
(* or anywhere once it has ended.                                          *)
LEMMA WorkingLasts ==
    ASSUME TypeOK, PinnedWrites, NEW c \in Calls, Aside(c),
           NEW d \in Calls \ {c}, Handle(d) # Handle(c), Working(d)
    PROVE  Working(d)'
<1> DEFINE k == call[d]
<1>1. pc'[d] = pc[d] /\ call'[d] = k
  BY DEF Aside, Others
<1>2. /\ Handle(d) \in Handles /\ k \in CallType
      /\ k.codec \in CodecIds /\ k.index \in CodecIds
      /\ k.base \in 0 .. Len(hist) /\ k.got \in Versions /\ Len(hist) \in Nat
  <2>1. k \in CallType /\ Handle(d) \in Handles
    BY HandleTyped, RequestTyped
  <2>2. Len(hist) \in Nat
    BY DEF TypeOK
  <2> HIDE DEF k
  <2> QED
    BY <2>1, <2>2 DEF CallType, Versions
<1>3. memo'[Handle(d)] = memo[Handle(d)] /\ recent'[Handle(d)] = recent[Handle(d)]
  BY <1>2 DEF Aside
<1>4. \A i : Works(Handle(d), i) => Works(Handle(d), i)'
  BY <1>2, <1>3, WorksLasts
<1>5. SchemeOf(k.codec)' = SchemeOf(k.codec) /\ SchemeOf(k.index)' = SchemeOf(k.index)
  <2>1. PICK i \in CodecIds, j \in CodecIds : i = k.codec /\ j = k.index
    BY <1>2
  <2>2. SchemeOf(i)' = SchemeOf(i) /\ SchemeOf(j)' = SchemeOf(j)
    BY SchemeLasts
  <2>3. i = k.codec' /\ j = k.index'
    BY <1>1, <2>1
  <2> QED
    BY <2>1, <2>2, <2>3 DEF SchemeOf
<1>6. stored' \in {stored, 0, Len(hist) + 1} /\ Object(k.got)' = Object(k.got)
  <2>1. PICK v \in Versions : v = k.got
    BY <1>2
  <2>2. Object(v)' = Object(v) /\ v = k.got'
    BY <1>1, <2>1, Lasting
  <2> QED
    BY <2>1, <2>2, Lasting DEF Object
<1>7. Coded(d)'
  <2>1. pc[d] = "resolving" => /\ k.codec \in 1 .. Len(codecs)
                               /\ codecs'[k.codec].state = codecs[k.codec].state
    <3>1. pc[d] = "resolving" => k.codec # Unresolved
      BY DEF PinnedWrites, PinnedWrite
    <3>2. pc[d] = "resolving" => k.codec \in 1 .. Len(codecs)
      BY <1>2, <3>1 DEF CodecIds, Unresolved
    <3> QED
      BY <3>2, Lasting
  <2> QED
    BY <1>1, <1>3, <1>4, <1>5, <2>1 DEF Working, Coded, Annotates, Handle
<1>8. Lensed(d)'
  <2>1. Fetched(d)' = Fetched(d)
    BY <1>1, <1>6 DEF Fetched, Object
  <2>2. pc[d] = "put" /\ Annotates(d) => k.base # 0
    BY DEF Working, Intent
  <2>3. stored' = stored \/ ~(pc[d] = "put" /\ Annotates(d) /\ k.base = stored')
    BY <1>2, <1>6, <2>2
  <2> QED
    BY <1>1, <1>4, <1>5, <2>1, <2>3 DEF Working, Lensed, Annotates, Handle
<1>9. Intent(d)'
  BY <1>1 DEF Working, Intent, Annotates
<1>10. Forgotten(d)'
  <2>1. recent[Handle(d)].version \in 0 .. Len(hist)
    BY <1>2 DEF TypeOK, Remembered, Versions
  <2> QED
    BY <1>1, <1>2, <1>3, <1>6, <2>1 DEF Working, Forgotten, Handle
<1> QED
  BY <1>7, <1>8, <1>9, <1>10 DEF Working

(* A call begins with nothing captured.                                    *)
LEMMA StartOrders ==
    ASSUME TypeOK, NEW c \in Calls, Start(c)
    PROVE  Working(c)'
<1>1. PICK req \in Requests : \E pin, seed :
         Goto(c, Entry(req)) /\ call' = [call EXCEPT ![c] = Locals(req, pin, seed, EntryAim(req))]
  BY DEF Start
<1> DEFINE n == call'[c]
<1>2. /\ n.req = req /\ n.aim = EntryAim(req) /\ n.codec = Unresolved /\ n.index = Unresolved
      /\ pc'[c] = Entry(req)
  BY <1>1 DEF Locals, Goto, TypeOK
<1>3. req.kind \in Kinds /\ (req.absent => req.kind \in {"replace", "set"})
  BY RequestsTyped DEF RequestType
<1> HIDE DEF n
<1>4. Coded(c)'
  BY <1>2, <1>3 DEF n, Coded, Annotates, Entry, EntryAim, IsConfiguration, Kinds
<1>5. Lensed(c)' /\ Intent(c)' /\ Forgotten(c)'
  BY <1>2, <1>3 DEF n, Lensed, Intent, Forgotten, Entry, EntryAim, IsConfiguration,
                    IsReadModifyWrite, Kinds, Annotates
<1> QED
  BY <1>4, <1>5 DEF Working

Ordered(c) == (Finished(c) \/ Working(c)) /\ Remembering(Handle(c))

LEMMA AcquireOrders ==
    ASSUME TypeOK, NEW c \in Calls, Aside(c), Acquire(c),
           Working(c), Remembering(Handle(c))
    PROVE  Ordered(c)'
<1> DEFINE k == call[c]
           h == Handle(c)
           n == [k EXCEPT !.codec = memo'[h]]
<1>1. k \in CallType /\ h \in Handles
  BY HandleTyped, RequestTyped
<1>2. /\ n.req = k.req /\ n.aim = k.aim /\ n.index = k.index /\ n.got = k.got
      /\ n.gotLens = k.gotLens /\ n.codec = memo'[h]
  BY <1>1 DEF CallType
<1>3. /\ call'[c] = n /\ pc'[c] = "resolving" /\ pc[c] = "resolve"
      /\ UNCHANGED <<hist, stored, recent>>
  BY DEF Acquire, Goto, TypeOK
<1> HIDE DEF n
<1>4. CASE memo[h] = Unresolved
  <2>1. ~Works(h, k.codec) /\ ~Works(h, k.index)
    BY <1>4 DEF Works
  <2>2. Coded(c)'
    BY <1>2, <1>3, <2>1 DEF Working, Coded, Annotates, Handle
  <2>3. Lensed(c)' /\ Intent(c)' /\ Forgotten(c)'
    BY <1>2, <1>3, <2>1 DEF Working, Coded, Lensed, Intent, Forgotten, Annotates
  <2>4. Remembering(h)'
    BY <1>3, <1>4 DEF Remembering, Handle
  <2> QED
    BY <2>2, <2>3, <2>4 DEF Working, Ordered, Handle
<1>5. CASE memo[h] # Unresolved
  <2>1. UNCHANGED <<codecs, memo>>
    BY <1>5 DEF Acquire
  <2>2. Works(h, k.codec) => n.codec = k.codec
    BY <1>2, <2>1 DEF Works
  <2>3. SchemeOf(k.index)' = SchemeOf(k.index) /\ Fetched(c)' = Fetched(c)
    BY <1>2, <1>3, <2>1 DEF SchemeOf, Object, Fetched
  <2>4. Works(h, k.codec) => /\ Works(Handle(c), call[c].codec)'
                             /\ SchemeOf(call[c].codec)' = SchemeOf(k.codec)
    <3>1. Works(h, k.codec) => call'[c].codec = k.codec
      BY <1>2, <1>3, <2>2
    <3>2. Works(h, k.codec) => Works(Handle(c), call[c].codec)'
      BY <2>1, <3>1 DEF Works, Handle
    <3>3. Works(h, k.codec) => SchemeOf(call[c].codec)' = SchemeOf(k.codec)
      BY <1>3, <2>1, <3>1 DEF SchemeOf, Object
    <3> QED
      BY <3>2, <3>3
  <2>5. Works(h, k.index) => Works(h, k.index)'
    BY <1>2, <1>3, <2>1 DEF Works, Handle
  <2>6. Coded(c)'
    BY <1>2, <1>3, <2>1, <2>3, <2>5 DEF Working, Coded, Annotates, Handle, SchemeOf, Works, Object
  <2>7. Lensed(c)'
    <3>1. /\ k.aim = "write" /\ IsReadModifyWrite(k.req.kind) =>
               Works(Handle(c), call[c].codec)' /\ k.gotLens = SchemeOf(call[c].codec)'
          /\ k.aim \in {"meta", "write"} /\ k.req.kind = "index" => k.index # Unresolved
          /\ k.aim = "write" /\ k.req.kind = "index" =>
               ~Conflicting(Fetched(c).schema, k.req.decls)
      BY <2>4 DEF Working, Lensed
    <3> QED
      BY <1>2, <1>3, <2>3, <3>1 DEF Working, Lensed
  <2>8. Intent(c)' /\ Forgotten(c)'
    BY <1>2, <1>3 DEF Working, Intent, Forgotten, Annotates
  <2>9. Remembering(h)'
    BY <1>1, <1>3, <2>1, RememberingLasts DEF Handle
  <2> QED
    BY <2>6, <2>7, <2>8, <2>9 DEF Working, Ordered, Handle
<1> QED
  BY <1>4, <1>5

(* A read-modify-write goes on from a read its own codec opened.           *)
LEMMA MetaReadOrders ==
    ASSUME TypeOK, NEW c \in Calls, Aside(c), NEW k \in CallType,
           k.req = call[c].req, NEW cs, NEW v \in Versions, NEW lens,
           MetaRead(c, k, cs, v, lens),
           Annotates(c), lens = SchemeOf(k.codec), Works(Handle(c), k.codec)',
           k.index # Unresolved =>
             Works(Handle(c), k.index)' /\ ~Undeclarable(SchemeOf(k.index), k.req.decls),
           k.req.kind = "index" => k.index # Unresolved
    PROVE  (Finished(c) \/ Working(c))'
<1> DEFINE h == Handle(c)
           schema == Opened(lens, Object(v).custom).schema
           n == [k EXCEPT !.got = v, !.gotLens = lens, !.pin = v, !.aim = "write"]
<1>1. CASE Finish(c, "done", 0) \/ Fail(c)
  BY <1>1, FinishAside DEF Fail, Finished
<1>2. CASE /\ IsReadModifyWrite(k.req.kind)
           /\ ~(k.req.kind = "index" /\ Conflicting(schema, k.req.decls))
           /\ Goto(c, "resolve") /\ call' = [call EXCEPT ![c] = n]
  <2>1. /\ n.req = k.req /\ n.aim = "write" /\ n.got = v /\ n.gotLens = lens
        /\ n.codec = k.codec /\ n.index = k.index
    BY DEF CallType
  <2>2. call'[c] = n /\ pc'[c] = "resolve"
    BY <1>2 DEF Goto, TypeOK
  <2> HIDE DEF n
  <2>4. PICK i \in CodecIds, j \in CodecIds : i = k.codec /\ j = k.index
    BY DEF CallType
  <2>5. SchemeOf(i)' = SchemeOf(i) /\ SchemeOf(j)' = SchemeOf(j) /\ Object(v)' = Object(v)
    BY SchemeLasts, Lasting
  <2>6. SchemeOf(n.codec)' = lens /\ SchemeOf(n.index)' = SchemeOf(k.index)
    <3>1. n.codec = i /\ n.index = j
      BY <2>1, <2>4
    <3>2. n.codec' = n.codec /\ n.index' = n.index
      BY DEF n
    <3> QED
      BY <2>4, <2>5, <3>1, <3>2 DEF SchemeOf
  <2>7. Fetched(c)' = Opened(lens, Object(v).custom)
    BY <2>1, <2>2, <2>5 DEF Fetched, Object
  <2>8. Coded(c)'
    BY <2>1, <2>2, <2>6 DEF Coded, Annotates, Handle
  <2>9. Lensed(c)'
    BY <1>2, <2>1, <2>2, <2>6, <2>7 DEF Lensed, Handle
  <2>10. Intent(c)' /\ Forgotten(c)'
    BY <1>2, <2>1, <2>2 DEF Intent, Forgotten, IsReadModifyWrite
  <2> QED
    BY <2>8, <2>9, <2>10 DEF Working
<1> QED
  <2> HIDE DEF n, schema
  <2>1. \/ Finish(c, "done", 0) \/ Fail(c)
        \/ /\ IsReadModifyWrite(k.req.kind)
           /\ ~(k.req.kind = "index" /\ Conflicting(schema, k.req.decls))
           /\ Goto(c, "resolve") /\ call' = [call EXCEPT ![c] = n]
    BY DEF MetaRead, n, schema
  <2> QED
    BY <1>1, <1>2, <2>1

LEMMA ResolvedOrders ==
    ASSUME TypeOK, PinnedWrites, NEW c \in Calls, Resolved(c),
           Working(c), Remembering(Handle(c))
    PROVE  Ordered(c)'
<1> DEFINE h == Handle(c)
<1>1. PICK k \in CallType : k = call[c]
  BY RequestTyped
<1>2. PICK i \in 1 .. Len(codecs) : i = k.codec
  <2>1. k.codec # Unresolved /\ k.codec \in CodecIds
    BY <1>1 DEF CallType, PinnedWrites, PinnedWrite, Resolved
  <2> QED
    BY <2>1 DEF CodecIds, Unresolved
<1>3. i \in CodecIds /\ h \in Handles /\ i # Unresolved
  BY HandleTyped DEF CodecIds, Unresolved, TypeOK
<1>4. Aside(c) /\ (Fail(c) \/ ~codecs'[i].snapshot)
  BY <1>1, <1>2, ResolvedAside
<1>5. /\ pc[c] = "resolving" /\ UNCHANGED <<hist, stored, memo>>
      /\ Annotates(c)
  BY DEF Resolved, Working, Coded
<1>6. /\ codecs[i].version \in Versions /\ codecs'[i].state = codecs[i].state
      /\ SchemeOf(i)' = SchemeOf(i)
  <2>1. codecs[i] \in CodecType
    BY DEF TypeOK
  <2> QED
    BY <1>3, <1>4, <2>1, Lasting, SchemeLasts DEF CodecType
<1>7. codecs[i].state = "ready" => memo[h] = i
  BY <1>1, <1>2, <1>5 DEF Working, Coded
<1>8. codecs[i].state = "ready" /\ ~Fail(c) => Works(h, i)'
  BY <1>3, <1>4, <1>5, <1>6, <1>7 DEF Works, Handle
<1>9. Remembering(h)'
  <2>1. CASE recent' = recent
    BY <1>3, <1>4, <1>5, <2>1, RememberingLasts
  <2>2. CASE codecs[i].state = "ready" /\ Remember(h, codecs[i].version, SchemeOf(i))
    <3>1. recent'[h] = Nothing \/ recent'[h].lens = SchemeOf(i)
      BY <1>3, <2>2 DEF Remember, TypeOK
    <3>2. memo'[h] = i /\ codecs'[i].state = "ready"
      BY <1>5, <1>6, <1>7, <2>2
    <3> QED
      BY <1>3, <1>6, <3>1, <3>2 DEF Remembering, Nothing, SchemeOf, Handle
  <2> QED
    BY <1>1, <1>2, <2>1, <2>2 DEF Resolved
<1>10. CASE Fail(c)
  BY <1>9, <1>10, FinishAside DEF Fail, Finished, Ordered, Handle
<1>11. CASE codecs[i].state = "ready" /\ ~Fail(c)
  <2>1. PICK j \in CodecIds : j = k.index
    BY DEF CallType
  <2>2. /\ SchemeOf(j)' = SchemeOf(j)
        /\ j # Unresolved => Works(h, j)' /\ ~Undeclarable(SchemeOf(j), k.req.decls)
    <3>1. j # Unresolved => Works(h, j) /\ ~Undeclarable(SchemeOf(j), k.req.decls)
      BY <1>1, <2>1 DEF Working, Coded
    <3> QED
      BY <1>3, <1>4, <1>5, <3>1, SchemeLasts, WorksLasts DEF Handle
  <2> DEFINE cs == [codecs EXCEPT ![i].snapshot = FALSE]
             n == [k EXCEPT !.index = i]
             m == [k EXCEPT !.index = i, !.aim = "meta"]
  <2>3. /\ n \in CallType /\ n.req = k.req /\ n.index = i /\ n.codec = k.codec
        /\ m.req = k.req /\ m.index = i /\ m.codec = k.codec /\ m.aim = "meta"
    BY <1>3 DEF CallType
  <2> HIDE DEF cs, n, m
  <2>4. CASE MetaRead(c, k, cs, codecs[i].version, SchemeOf(i)) /\ k.aim = "meta"
    <3>1. k.req.kind = "index" => k.index # Unresolved
      BY <1>1, <2>4 DEF Working, Lensed
    <3>2. (Finished(c) \/ Working(c))'
      BY <1>1, <1>2, <1>4, <1>5, <1>6, <1>8, <1>11, <2>1, <2>2, <2>4, <3>1, MetaReadOrders DEF Handle
    <3> QED
      BY <1>9, <3>2 DEF Ordered, Handle
  <2>5. CASE /\ MetaRead(c, n, cs, codecs[i].version, SchemeOf(i))
             /\ ~Undeclarable(SchemeOf(i), k.req.decls)
    <3>1. (Finished(c) \/ Working(c))'
      BY <1>1, <1>2, <1>3, <1>4, <1>5, <1>6, <1>8, <1>11, <2>3, <2>5, MetaReadOrders DEF Handle
    <3> QED
      BY <1>9, <3>1 DEF Ordered, Handle
  <2>6. CASE /\ Goto(c, "resolve") /\ call' = [call EXCEPT ![c] = m]
             /\ ~Undeclarable(SchemeOf(i), k.req.decls)
    <3>1. call'[c] = m /\ pc'[c] = "resolve"
      BY <2>6 DEF Goto, TypeOK
    <3>2. Coded(c)'
      BY <1>1, <1>2, <1>3, <1>5, <1>6, <1>8, <1>11, <2>3, <2>6, <3>1
      DEF Coded, Annotates, Handle, SchemeOf
    <3>3. Lensed(c)' /\ Intent(c)' /\ Forgotten(c)'
      BY <1>3, <2>3, <3>1 DEF Lensed, Intent, Forgotten, Annotates
    <3> QED
      BY <1>9, <3>2, <3>3 DEF Working, Ordered, Handle
  <2>7. CASE /\ call' = call
             /\ \/ Goto(c, "baseline") /\ k.aim = "write"
                \/ Goto(c, "get") /\ k.aim = "meta"
    <3>1. call'[c] = k /\ pc'[c] \in {"baseline", "get"} /\ (pc'[c] = "get" => k.aim = "meta")
      BY <1>1, <2>7 DEF Goto, TypeOK
    <3>2. Fetched(c)' = Fetched(c)
      BY <1>1, <1>5, <3>1 DEF Fetched, Object
    <3>3. Coded(c)'
      BY <1>1, <1>2, <1>3, <1>5, <1>8, <1>11, <2>1, <2>2, <3>1
      DEF Coded, Annotates, Handle, SchemeOf
    <3>4. Lensed(c)'
      BY <1>1, <1>2, <1>6, <1>8, <1>11, <3>1, <3>2 DEF Working, Lensed, Handle, SchemeOf
    <3>5. Intent(c)' /\ Forgotten(c)'
      BY <1>1, <1>5, <3>1 DEF Working, Coded, Intent, Forgotten, Annotates
    <3> QED
      BY <1>9, <3>3, <3>4, <3>5 DEF Working, Ordered, Handle
  <2> QED
    <3>1. \/ MetaRead(c, k, cs, codecs[i].version, SchemeOf(i)) /\ k.aim = "meta"
          \/ /\ MetaRead(c, n, cs, codecs[i].version, SchemeOf(i))
             /\ ~Undeclarable(SchemeOf(i), k.req.decls)
          \/ /\ Goto(c, "resolve") /\ ~Undeclarable(SchemeOf(i), k.req.decls)
             /\ call' = [call EXCEPT ![c].index = i, ![c].aim = "meta"]
          \/ /\ call' = call
             /\ \/ Goto(c, "baseline") /\ k.aim = "write"
                \/ Goto(c, "get") /\ k.aim = "meta"
      <4> DEFINE kk == call[c]
                 ii == kk.codec
                 ds == [codecs EXCEPT ![ii].snapshot = FALSE]
                 version == codecs[ii].version
                 scheme == SchemeOf(ii)
      <4>1. codecs[ii].state # "failed"
        BY <1>1, <1>2, <1>11
      <4>2. k = kk /\ i = ii /\ ds = cs
        BY <1>1, <1>2 DEF cs
      <4> HIDE DEF version, scheme, ds
      <4>3. \/ MetaRead(c, kk, ds, version, scheme) /\ kk.aim = "meta"
            \/ /\ MetaRead(c, [kk EXCEPT !.index = ii], ds, version, scheme)
               /\ ~Undeclarable(scheme, kk.req.decls)
            \/ /\ Goto(c, "resolve") /\ ~Undeclarable(scheme, kk.req.decls)
               /\ call' = [call EXCEPT ![c].index = ii, ![c].aim = "meta"]
            \/ /\ call' = call
               /\ \/ Goto(c, "baseline") /\ kk.aim = "write"
                  \/ Goto(c, "get") /\ kk.aim = "meta"
        BY <1>11, <4>1 DEF Resolved, ds, version, scheme
      <4>4. version = codecs[i].version /\ scheme = SchemeOf(i)
        BY <4>2 DEF version, scheme
      <4>5. [kk EXCEPT !.index = ii] = n
        BY <4>2 DEF n
      <4> HIDE DEF kk, ii
      <4> QED
        BY <4>2, <4>3, <4>4, <4>5
    <3>2. call' = [call EXCEPT ![c].index = i, ![c].aim = "meta"] => call' = [call EXCEPT ![c] = m]
      BY <1>1 DEF m, TypeOK
    <3> QED
      BY <2>4, <2>5, <2>6, <2>7, <3>1, <3>2
<1> QED
  BY <1>1, <1>2, <1>10, <1>11 DEF Resolved

(* What a call captured survives its own steps while it keeps it.          *)
LEMMA CapturedLasts ==
    ASSUME TypeOK, NEW c \in Calls, Aside(c), memo'[Handle(c)] = memo[Handle(c)],
           call'[c].codec = call[c].codec, call'[c].index = call[c].index
    PROVE  /\ Works(Handle(c), call[c].codec) => Works(Handle(c), call[c].codec)'
           /\ Works(Handle(c), call[c].index) => Works(Handle(c), call[c].index)'
           /\ SchemeOf(call[c].codec)' = SchemeOf(call[c].codec)
           /\ SchemeOf(call[c].index)' = SchemeOf(call[c].index)
           /\ call'[c].got = call[c].got /\ call'[c].gotLens = call[c].gotLens =>
                Fetched(c)' = Fetched(c)
<1>1. PICK k \in CallType : k = call[c]
  BY RequestTyped
<1>2. PICK i \in CodecIds, j \in CodecIds, v \in Versions : i = k.codec /\ j = k.index /\ v = k.got
  BY DEF CallType
<1>3. /\ Works(Handle(c), i) => Works(Handle(c), i)'
      /\ Works(Handle(c), j) => Works(Handle(c), j)'
      /\ SchemeOf(i)' = SchemeOf(i) /\ SchemeOf(j)' = SchemeOf(j)
      /\ Object(v)' = Object(v)
  BY HandleTyped, WorksLasts, SchemeLasts, Lasting DEF Handle
<1>4. i = call[c].codec /\ i = call'[c].codec /\ j = call[c].index /\ j = call'[c].index
  BY <1>1, <1>2
<1>5. call'[c].got = call[c].got /\ call'[c].gotLens = call[c].gotLens =>
        Fetched(c)' = Fetched(c)
  BY <1>1, <1>2, <1>3 DEF Fetched, Object
<1> QED
  BY <1>3, <1>4, <1>5 DEF Works, SchemeOf, Handle

LEMMA GetOrders ==
    ASSUME TypeOK, NEW c \in Calls, Aside(c), ServeGet(c),
           Working(c), Remembering(Handle(c))
    PROVE  Ordered(c)'
<1> DEFINE n == [call[c] EXCEPT !.seen = Visible(Handle(c))]
<1>1. /\ n.req = call[c].req /\ n.aim = call[c].aim /\ n.codec = call[c].codec
      /\ n.index = call[c].index /\ n.got = call[c].got /\ n.gotLens = call[c].gotLens
  BY RequestTyped DEF CallType
<1>2. /\ call'[c] = n /\ pc'[c] = "got" /\ pc[c] = "get"
      /\ UNCHANGED <<hist, stored, recent, memo, codecs>>
  BY DEF ServeGet, Goto, TypeOK
<1> HIDE DEF n
<1>3. /\ Works(Handle(c), call[c].codec) => Works(Handle(c), call[c].codec)'
      /\ Works(Handle(c), call[c].index) => Works(Handle(c), call[c].index)'
      /\ SchemeOf(call[c].codec)' = SchemeOf(call[c].codec)
      /\ SchemeOf(call[c].index)' = SchemeOf(call[c].index)
      /\ Fetched(c)' = Fetched(c)
  BY <1>1, <1>2, CapturedLasts
<1>4. Coded(c)'
  BY <1>1, <1>2, <1>3 DEF Working, Coded, Annotates, Handle
<1>5. Lensed(c)'
  BY <1>1, <1>2, <1>3 DEF Working, Lensed, Handle
<1>6. Intent(c)' /\ Forgotten(c)'
  BY <1>1, <1>2 DEF Working, Intent, Forgotten, Annotates, Handle
<1>7. Remembering(Handle(c))'
  BY <1>2, HandleTyped, RememberingLasts DEF Handle
<1> QED
  BY <1>4, <1>5, <1>6, <1>7 DEF Working, Ordered

LEMMA GotMetaOrders ==
    ASSUME TypeOK, NEW c \in Calls, Aside(c), GotMeta(c),
           Working(c), Remembering(Handle(c))
    PROVE  Ordered(c)'
<1> DEFINE h == Handle(c)
<1>1. PICK k \in CallType : k = call[c]
  BY RequestTyped
<1>2. PICK i \in CodecIds, j \in CodecIds, v \in Versions : i = k.codec /\ j = k.index /\ v = k.seen
  BY DEF CallType
<1>3. /\ pc[c] = "got" /\ k.aim = "meta" /\ UNCHANGED <<hist, stored, memo>>
      /\ h \in Handles
  BY <1>1, HandleTyped DEF GotMeta
<1>4. i # Unresolved /\ Works(h, i) /\ Annotates(c)
  BY <1>1, <1>2, <1>3 DEF Working, Coded
<1>5. Works(h, i)' /\ SchemeOf(i)' = SchemeOf(i)
  BY <1>3, <1>4, WorksLasts, SchemeLasts DEF Handle
<1>6. Remembering(h)'
  <2>1. CASE recent' = recent
    BY <1>3, <2>1, RememberingLasts
  <2>2. CASE Remember(h, v, SchemeOf(i))
    <3>1. recent'[h] = Nothing \/ recent'[h].lens = SchemeOf(i)
      BY <1>3, <2>2 DEF Remember, TypeOK
    <3>2. memo'[h] = i /\ codecs'[i].state = "ready"
      BY <1>5 DEF Works, Handle
    <3> QED
      BY <1>4, <1>5, <3>1, <3>2 DEF Remembering, Nothing, SchemeOf, Handle
  <2> QED
    BY <1>1, <1>2, <2>1, <2>2 DEF GotMeta
<1>7. CASE Fail(c)
  BY <1>6, <1>7, FinishAside DEF Fail, Finished, Ordered, Handle
<1>8. CASE MetaRead(c, call[c], codecs, call[c].seen, SchemeOf(call[c].codec))
  <2>1. MetaRead(c, k, codecs, v, SchemeOf(i))
    BY <1>1, <1>2, <1>8
  <2>2. /\ k.req.kind = "index" => k.index # Unresolved
        /\ j # Unresolved => Works(h, j)' /\ ~Undeclarable(SchemeOf(j), k.req.decls)
    <3>1. /\ k.req.kind = "index" => k.index # Unresolved
          /\ j # Unresolved => Works(h, j) /\ ~Undeclarable(SchemeOf(j), k.req.decls)
      BY <1>1, <1>2, <1>3 DEF Working, Coded, Lensed
    <3> QED
      BY <1>3, <3>1, WorksLasts DEF Handle
  <2>3. (Finished(c) \/ Working(c))'
    BY <1>1, <1>2, <1>4, <1>5, <2>1, <2>2, MetaReadOrders DEF Handle
  <2> QED
    BY <1>6, <2>3 DEF Ordered, Handle
<1> QED
  BY <1>7, <1>8, Zenon DEF GotMeta

(* The body is composed over a read its own codec opened, or a raw one.    *)
LEMMA SendOrders ==
    ASSUME TypeOK, NEW c \in Calls, Aside(c), NEW v, NEW lens, Send(c, v, lens),
           Working(c), pc[c] \in {"baseline", "got"}, call[c].aim = "write",
           UNCHANGED <<hist, stored, memo, codecs>>, recent'[Handle(c)] = Nothing,
           call[c].req.absent => v = 0,
           Annotates(c) => v # 0,
           Annotates(c) /\ v = stored => lens \in {None, SchemeOf(call[c].codec)}
    PROVE  Ordered(c)'
<1> DEFINE n == [call[c] EXCEPT !.base = v, !.baseLens = lens, !.seed = 0]
<1>1. /\ n.req = call[c].req /\ n.aim = call[c].aim /\ n.codec = call[c].codec
      /\ n.index = call[c].index /\ n.got = call[c].got /\ n.gotLens = call[c].gotLens
      /\ n.base = v /\ n.baseLens = lens
  BY RequestTyped DEF CallType
<1>2. call'[c] = n /\ pc'[c] = "put"
  BY DEF Send, Goto, TypeOK
<1> HIDE DEF n
<1>3. /\ Works(Handle(c), call[c].codec) => Works(Handle(c), call[c].codec)'
      /\ Works(Handle(c), call[c].index) => Works(Handle(c), call[c].index)'
      /\ SchemeOf(call[c].codec)' = SchemeOf(call[c].codec)
      /\ SchemeOf(call[c].index)' = SchemeOf(call[c].index)
      /\ Fetched(c)' = Fetched(c)
  BY <1>1, <1>2, CapturedLasts
<1>4. Coded(c)'
  BY <1>1, <1>2, <1>3 DEF Working, Coded, Annotates, Handle
<1>5. Lensed(c)'
  BY <1>1, <1>2, <1>3 DEF Working, Lensed, Handle, Annotates
<1>6. Intent(c)' /\ Forgotten(c)'
  BY <1>1, <1>2 DEF Working, Intent, Forgotten, Annotates, Handle
<1>7. Remembering(Handle(c))'
  BY DEF Remembering, Nothing, Handle
<1> QED
  BY <1>4, <1>5, <1>6, <1>7 DEF Working, Ordered

LEMMA BaselineOrders ==
    ASSUME TypeOK, PinnedWrites, NEW c \in Calls, Aside(c), Baseline(c) \/ GotBaseline(c),
           Working(c), Remembering(Handle(c))
    PROVE  Ordered(c)'
<1> DEFINE k == call[c]
           h == Handle(c)
           r == recent[h]
<1>1. /\ UNCHANGED <<hist, stored, memo, codecs>> /\ recent'[h] = Nothing
      /\ pc[c] \in {"baseline", "got"} /\ k.aim = "write" /\ h \in Handles
  BY HandleTyped DEF Baseline, GotBaseline, Forget, TypeOK, PinnedWrites, PinnedWrite
<1>2. CASE Fail(c)
  <2>1. pc'[c] = "failed"
    BY <1>2, FinishAside DEF Fail
  <2>2. Remembering(h)'
    BY <1>1 DEF Remembering, Nothing, Handle
  <2> QED
    BY <2>1, <2>2 DEF Finished, Ordered, Handle
<1>3. CASE k.req.absent /\ Send(c, 0, None)
  BY <1>1, <1>3, SendOrders DEF Annotates
<1>4. CASE ~k.req.absent /\ Matches(c, k.seed) /\ Send(c, k.seed, None)
  <2>1. PICK v : v = k.seed
    OBVIOUS
  <2>2. Send(c, v, None) /\ v # 0
    BY <1>4, <2>1 DEF Matches
  <2> QED
    BY <1>1, <1>4, <2>2, SendOrders
<1>5. CASE ~k.req.absent /\ Matches(c, r.version) /\ Send(c, r.version, r.lens)
  <2>1. PICK v, lens : v = r.version /\ lens = r.lens
    OBVIOUS
  <2>2. Send(c, v, lens) /\ v # 0
    BY <1>5, <2>1 DEF Matches
  <2>3. ASSUME Annotates(c), v = stored, lens # None
        PROVE  lens = SchemeOf(k.codec)
    <3>1. memo[h] # Unresolved /\ SchemeOf(memo[h]) = lens
      BY <2>1, <2>2, <2>3 DEF Remembering
    <3>2. memo[h] = k.codec
      BY <1>1, <1>5, <2>3 DEF Working, Coded, Works, Baseline, Annotates
    <3> QED
      BY <3>1, <3>2
  <2> QED
    BY <1>1, <1>5, <2>2, <2>3, SendOrders
<1>6. CASE pc[c] = "baseline" /\ Goto(c, "get") /\ call' = [call EXCEPT ![c].seed = 0] /\ ~k.req.absent
  <2> DEFINE n == [k EXCEPT !.seed = 0]
  <2>1. /\ n.req = k.req /\ n.aim = k.aim /\ n.codec = k.codec
        /\ n.index = k.index /\ n.got = k.got /\ n.gotLens = k.gotLens
    BY RequestTyped DEF CallType
  <2>2. call'[c] = n /\ pc'[c] = "get"
    BY <1>6 DEF Goto, TypeOK
  <2> HIDE DEF n
  <2>3. /\ Works(h, k.codec) => Works(Handle(c), call[c].codec)'
        /\ Works(h, k.index) => Works(Handle(c), call[c].index)'
        /\ SchemeOf(call[c].codec)' = SchemeOf(k.codec)
        /\ SchemeOf(call[c].index)' = SchemeOf(k.index)
        /\ Fetched(c)' = Fetched(c)
    BY <1>1, <2>1, <2>2, CapturedLasts
  <2>4. Coded(c)'
    BY <1>1, <1>6, <2>1, <2>2, <2>3 DEF Working, Coded, Annotates, Handle
  <2>5. Lensed(c)'
    BY <1>1, <1>6, <2>1, <2>2, <2>3 DEF Working, Lensed, Handle
  <2>6. Intent(c)' /\ Forgotten(c)'
    BY <1>1, <1>6, <2>1, <2>2 DEF Working, Intent, Forgotten, Annotates, Handle
  <2>7. Remembering(h)'
    BY <1>1 DEF Remembering, Nothing, Handle
  <2> QED
    BY <2>4, <2>5, <2>6, <2>7 DEF Working, Ordered, Handle
<1>7. CASE pc[c] = "got" /\ ~(k.seen = 0 /\ ~AllowAbsent(c)) /\ Send(c, k.seen, None)
  <2>1. PICK v : v = k.seen
    OBVIOUS
  <2>2. Send(c, v, None)
    BY <1>7, <2>1
  <2>3. Annotates(c) => v # 0
    BY <1>7, <2>1 DEF AllowAbsent, Annotates
  <2>4. ~k.req.absent
    BY <1>7 DEF Working, Intent
  <2> QED
    BY <1>1, <2>2, <2>3, <2>4, SendOrders
<1>8. CASE Baseline(c)
  <2>1. pc[c] = "baseline"
    BY <1>8 DEF Baseline
  <2> QED
    BY <1>2, <1>3, <1>4, <1>5, <1>6, <1>8, <2>1, Zenon DEF Baseline
<1>9. CASE GotBaseline(c)
  BY <1>2, <1>7, <1>9 DEF GotBaseline
<1> QED
  BY <1>8, <1>9

LEMMA PutOrders ==
    ASSUME TypeOK, NEW c \in Calls, Aside(c), ServePut(c),
           Working(c), Remembering(Handle(c))
    PROVE  Ordered(c)'
<1> DEFINE k == call[c]
           h == Handle(c)
<1>1. pc[c] = "put" /\ UNCHANGED <<recent, memo, codecs>> /\ h \in Handles
  BY HandleTyped DEF ServePut
<1>2. Remembering(h)'
  BY <1>1, RememberingLasts DEF Handle
<1>3. CASE Fail(c)
  BY <1>2, <1>3, FinishAside DEF Fail, Finished, Ordered, Handle
<1>4. ASSUME NEW a, call'[c] \in {k, [k EXCEPT !.ack = a]}, pc'[c] \in {"conflict", "acked"}
      PROVE  Ordered(c)'
  <2> DEFINE n == call'[c]
  <2>1. /\ n.req = k.req /\ n.aim = k.aim /\ n.codec = k.codec
        /\ n.index = k.index /\ n.got = k.got /\ n.gotLens = k.gotLens
    BY <1>4, RequestTyped DEF CallType
  <2>2. /\ Works(h, k.codec) => Works(Handle(c), call[c].codec)'
        /\ Works(h, k.index) => Works(Handle(c), call[c].index)'
        /\ SchemeOf(call[c].codec)' = SchemeOf(k.codec)
        /\ SchemeOf(call[c].index)' = SchemeOf(k.index)
        /\ Fetched(c)' = Fetched(c)
    BY <1>1, <2>1, CapturedLasts
  <2>3. Coded(c)'
    BY <1>1, <1>4, <2>1, <2>2 DEF Working, Coded, Annotates, Handle
  <2>4. Lensed(c)'
    BY <1>1, <1>4, <2>1, <2>2 DEF Working, Lensed, Handle
  <2>5. Intent(c)' /\ Forgotten(c)'
    BY <1>1, <1>4, <2>1 DEF Working, Intent, Forgotten, Annotates, Handle
  <2> QED
    BY <1>2, <2>3, <2>4, <2>5 DEF Working, Ordered, Handle
<1>5. CASE Goto(c, "conflict") /\ UNCHANGED call
  BY <1>4, <1>5 DEF Goto, TypeOK
<1>6. CASE Goto(c, "acked") /\ call' = [call EXCEPT ![c].ack = stored']
  <2>1. call'[c] = [k EXCEPT !.ack = stored'] /\ pc'[c] = "acked"
    BY <1>6 DEF Goto, TypeOK
  <2>2. PICK a : a = stored'
    OBVIOUS
  <2> QED
    BY <1>4, <2>1, <2>2
<1> QED
  BY <1>3, <1>5, <1>6, Zenon DEF ServePut

LEMMA ConflictOrders ==
    ASSUME TypeOK, NEW c \in Calls, Aside(c), Conflict(c),
           Working(c), Remembering(Handle(c))
    PROVE  Ordered(c)'
<1> DEFINE k == call[c]
           h == Handle(c)
           n == [Locals(k.req, 0, 0, IF IsReadModifyWrite(k.req.kind) THEN "meta" ELSE "write")
                   EXCEPT !.tries = k.tries + 1, !.index = k.index, !.codec = k.codec]
<1>1. /\ pc[c] = "conflict" /\ UNCHANGED <<hist, stored, recent, memo, codecs>>
      /\ h \in Handles
  BY HandleTyped DEF Conflict, PreconditionFailed
<1>2. Remembering(h)'
  BY <1>1, RememberingLasts DEF Handle
<1>3. CASE Fail(c)
  BY <1>2, <1>3, FinishAside DEF Fail, Finished, Ordered, Handle
<1>4. CASE /\ Goto(c, IF IsReadModifyWrite(k.req.kind) THEN "resolve" ELSE "baseline")
           /\ call' = [call EXCEPT ![c] = n]
  <2>1. /\ n.req = k.req /\ n.codec = k.codec /\ n.index = k.index
        /\ n.aim = IF IsReadModifyWrite(k.req.kind) THEN "meta" ELSE "write"
    BY DEF Locals
  <2>2. /\ call'[c] = n
        /\ pc'[c] = IF IsReadModifyWrite(k.req.kind) THEN "resolve" ELSE "baseline"
    BY <1>4 DEF Goto, TypeOK
  <2> HIDE DEF n
  <2>3. /\ Works(h, k.codec) => Works(Handle(c), call[c].codec)'
        /\ Works(h, k.index) => Works(Handle(c), call[c].index)'
        /\ SchemeOf(call[c].codec)' = SchemeOf(k.codec)
        /\ SchemeOf(call[c].index)' = SchemeOf(k.index)
    BY <1>1, <2>1, <2>2, CapturedLasts
  <2>4. k.aim = "write" /\ (IsReadModifyWrite(k.req.kind) => k.codec # Unresolved)
    BY <1>1 DEF Working, Intent, Lensed, Works
  <2>5. Coded(c)'
    BY <1>1, <2>1, <2>2, <2>3, <2>4 DEF Working, Coded, Annotates, Handle
  <2>6. Lensed(c)'
    BY <1>1, <2>1, <2>2, <2>4 DEF Working, Lensed, IsReadModifyWrite
  <2>7. Intent(c)' /\ Forgotten(c)'
    BY <1>1, <2>1, <2>2, <2>4 DEF Working, Intent, Forgotten, Annotates, Handle
  <2> QED
    BY <1>2, <2>5, <2>6, <2>7 DEF Working, Ordered, Handle
<1> QED
  BY <1>3, <1>4, Zenon DEF Conflict

LEMMA DeleteOrders ==
    ASSUME TypeOK, NEW c \in Calls, Aside(c), ServeDelete(c),
           Working(c), Remembering(Handle(c))
    PROVE  Ordered(c)'
<1> DEFINE k == call[c]
           h == Handle(c)
<1>1. /\ pc[c] = "delete" /\ pc'[c] = "deleted" /\ stored' = 0
      /\ UNCHANGED <<hist, recent, memo, codecs, call>> /\ h \in Handles
  BY HandleTyped DEF ServeDelete, Goto, TypeOK
<1>2. Remembering(h)'
  BY <1>1, RememberingLasts DEF Handle
<1>3. /\ Works(h, k.codec) => Works(Handle(c), call[c].codec)'
      /\ Works(h, k.index) => Works(Handle(c), call[c].index)'
      /\ SchemeOf(call[c].codec)' = SchemeOf(k.codec)
      /\ SchemeOf(call[c].index)' = SchemeOf(k.index)
      /\ Fetched(c)' = Fetched(c)
  BY <1>1, CapturedLasts
<1>4. Coded(c)'
  BY <1>1, <1>3 DEF Working, Coded, Annotates, Handle
<1>5. Lensed(c)'
  BY <1>1, <1>3 DEF Working, Lensed, Handle
<1>6. Intent(c)' /\ Forgotten(c)'
  BY <1>1 DEF Working, Intent, Forgotten, Annotates, Handle
<1> QED
  BY <1>2, <1>4, <1>5, <1>6 DEF Working, Ordered, Handle

(* A call that ends leaves its handle with a memory that fits its memo:    *)
(* it resets the memo only after it forgot the read, or deleted the object.*)
LEMMA EndOrders ==
    ASSUME TypeOK, NEW c \in Calls, Aside(c),
           GotDescription(c) \/ Acked(c) \/ Deleted(c) \/ Lose(c),
           Working(c), Remembering(Handle(c))
    PROVE  Ordered(c)'
<1> DEFINE h == Handle(c)
<1>1. h \in Handles
  BY HandleTyped
<1>2. CASE GotDescription(c)
  <2>1. recent'[h] = Nothing \/ recent'[h].lens = None
    BY <1>1, <1>2 DEF GotDescription, Remember, TypeOK
  <2>2. Remembering(h)'
    BY <2>1 DEF Remembering, Nothing, Handle
  <2> QED
    BY <1>2, <2>2, FinishAside DEF GotDescription, Finished, Ordered, Handle
<1>3. CASE Acked(c)
  <2>1. recent'[h] = Nothing
    BY <1>3 DEF Acked, Working, Forgotten
  <2>2. pc'[c] = "done"
    BY <1>3, FinishAside DEF Acked
  <2>3. Remembering(h)'
    BY <2>1 DEF Remembering, Nothing, Handle
  <2> QED
    BY <2>2, <2>3 DEF Finished, Ordered, Handle
<1>4. CASE Deleted(c)
  <2>1. recent'[h].version = 0 \/ recent'[h].version # stored'
    BY <1>4 DEF Deleted, Working, Forgotten
  <2> QED
    BY <1>4, <2>1, FinishAside DEF Deleted, Finished, Ordered, Remembering, Handle
<1>5. CASE Lose(c)
  <2>1. Remembering(h)'
    BY <1>1, <1>5, RememberingLasts DEF Lose, Handle
  <2> QED
    BY <1>5, <2>1, FinishAside DEF Lose, Fail, Finished, Ordered, Handle
<1> QED
  BY <1>2, <1>3, <1>4, <1>5

LEMMA EveryOrders ==
    ASSUME TypeOK, PinnedWrites, NEW c \in Calls, Aside(c),
           Start(c) \/ Step(c) \/ Lose(c),
           Start(c) \/ Working(c), Remembering(Handle(c))
    PROVE  Ordered(c)'
<1>1. CASE Start(c)
  <2>1. Remembering(Handle(c))'
    BY <1>1, HandleTyped, RememberingLasts DEF Start, Handle
  <2> QED
    BY <1>1, <2>1, StartOrders DEF Ordered
<1> QED
  BY <1>1, AcquireOrders, ResolvedOrders, GetOrders, GotMetaOrders, BaselineOrders, PutOrders,
     ConflictOrders, DeleteOrders, EndOrders DEF Step

(* A sound object is one that its own scheme's codec opens.                *)
LEMMA OpensOwn ==
    ASSUME NEW b \in Objects, Sound(b)
    PROVE  /\ Opened(b.enc, b.custom) = b.custom
           /\ StoredSchema(b.enc, b.custom) = b.custom.schema
  BY DEF Sound, Opened, StoredSchema, CanOpen, Objects, Schemes, None

(* What a write may make of a stored object.                               *)
Relabelled(b, name, tags) ==
    [b EXCEPT !.custom = [seal |-> b.enc, name |-> name, tags |-> tags,
                          schema |-> b.custom.schema]]

Indexed(b, decls) ==
    [b EXCEPT !.custom = [b.custom EXCEPT !.seal = b.enc, !.schema = @ \union decls]]

Recomposed(b, new) ==
    \/ /\ ServerAdmits(b, new)
       /\ \E fields \in Fields, keyed \in BOOLEAN :
            new \in {Configured(b, fields, keyed), Replaced(b, fields, keyed)}
    \/ \E name, tags \in Texts \union {None} : new = Relabelled(b, name, tags)
    \/ \E decls \in SUBSET Declarations :
         /\ b.enc = "edv" /\ ~Conflicting(b.custom.schema, decls) /\ ~Conflicting(decls, decls)
         /\ new = Indexed(b, decls)

LEMMA RecomposedSound ==
    ASSUME NEW b \in Objects, NEW new, Sound(b), Recomposed(b, new)
    PROVE  Sound(new) /\ b.custom.schema \subseteq new.custom.schema
<1>0. b.custom \in Custom /\ b.enc \in Schemes
  BY DEF Objects
<1>1. ASSUME NEW fields \in Fields, NEW keyed \in BOOLEAN, ServerAdmits(b, new),
             new \in {Configured(b, fields, keyed), Replaced(b, fields, keyed)}
      PROVE  Sound(new) /\ b.custom.schema \subseteq new.custom.schema
  <2>1. PICK scheme, conf : new = ConfigurationBody(b, scheme, conf, keyed)
    BY <1>1 DEF Configured, Replaced
  <2>2. new.enc = scheme /\ new.custom = ResealedCustom(b, scheme, keyed)
    BY <2>1 DEF ConfigurationBody
  <2>3. b.enc = "edv" => scheme = "edv"
    BY <1>1, <2>2 DEF ServerAdmits
  <2>4. b.custom.schema # {} => b.enc = "edv"
    BY <1>0 DEF Sound, Schemes, None
  <2>5. CASE scheme = b.enc \/ b.custom = NoCustom
    BY <2>2, <2>5 DEF ResealedCustom, Sound, NoCustom
  <2>6. CASE scheme # b.enc /\ b.custom # NoCustom
    <3>1. b.custom.schema = {}
      BY <2>3, <2>4, <2>6
    <3>2. new.custom.seal \in {scheme, None} /\ new.custom.schema = {}
      BY <1>0, <2>2, <2>6, <3>1 DEF ResealedCustom, NoCustom, Custom
    <3> QED
      BY <2>2, <3>1, <3>2 DEF Sound, Conflicting
  <2> QED
    BY <2>5, <2>6
<1>2. ASSUME NEW name, NEW tags, new = Relabelled(b, name, tags)
      PROVE  Sound(new) /\ b.custom.schema \subseteq new.custom.schema
  <2>1. /\ new.enc = b.enc /\ new.custom.seal = b.enc
        /\ new.custom.schema = b.custom.schema
    BY <1>2 DEF Relabelled, Objects
  <2> QED
    BY <1>0, <2>1 DEF Sound, Schemes, None
<1>3. ASSUME NEW decls \in SUBSET Declarations, b.enc = "edv",
             ~Conflicting(b.custom.schema, decls), ~Conflicting(decls, decls),
             new = Indexed(b, decls)
      PROVE  Sound(new) /\ b.custom.schema \subseteq new.custom.schema
  <2>1. /\ new.enc = b.enc /\ new.custom.seal = b.enc
        /\ new.custom.schema = b.custom.schema \union decls
    <3> DEFINE m == [b.custom EXCEPT !.seal = b.enc, !.schema = @ \union decls]
    <3>1. m.seal = b.enc /\ m.schema = b.custom.schema \union decls
      BY <1>0 DEF Custom
    <3>2. new = [b EXCEPT !.custom = m]
      BY <1>3 DEF Indexed
    <3> HIDE DEF m
    <3> QED
      BY <3>1, <3>2 DEF Objects
  <2>2. ~Conflicting(new.custom.schema, new.custom.schema)
    BY <1>3, <2>1 DEF Conflicting, Sound
  <2> QED
    BY <1>3, <2>1, <2>2 DEF Sound
<1> QED
  BY <1>1, <1>2, <1>3 DEF Recomposed

(* The server admits a PUT over the very version it was composed over.     *)
LEMMA ComposedOver ==
    ASSUME PinnedWrites, NEW c \in Calls, pc[c] = "put", Precondition(c) = stored
    PROVE  /\ call[c].base = stored
           /\ IsReadModifyWrite(call[c].req.kind) => call[c].got = stored
  BY DEF PinnedWrites, PinnedWrite, Precondition

(* A custom sent over a sound object, through a codec of its scheme, is    *)
(* one of the two annotations.                                             *)
LEMMA AnnotatesWhole ==
    ASSUME TypeOK, NEW c \in Calls, pc[c] = "put", Working(c), Annotates(c),
           call[c].base = stored, stored # 0,
           IsReadModifyWrite(call[c].req.kind) => call[c].got = stored,
           Sound(Object(stored)), SchemeOf(call[c].codec) = Object(stored).enc
    PROVE  Recomposed(Object(stored), Body(c))
<1> DEFINE b == Object(stored)
           k == call[c]
           r == k.req
           s == SchemeOf(k.codec)
<1>1. b \in Objects /\ k \in CallType
  BY ObjectTyped, RequestTyped DEF TypeOK
<1>2. b.custom \in Custom /\ b.enc \in Schemes
  BY <1>1 DEF Objects
<1>3. /\ r.kind \in {"set", "patch", "index"} /\ ~IsConfiguration(r.kind)
      /\ k.baseLens \in {None, s} /\ k.base = stored
  BY DEF Working, Intent, Lensed, Annotates, IsConfiguration
<1>4. /\ r.name \in Texts \union {None} /\ r.tags \in Texts \union {None}
      /\ r.decls \in SUBSET Declarations
  <2>1. r \in RequestType
    BY RequestTyped
  <2> HIDE DEF r
  <2> QED
    BY <2>1 DEF RequestType
<1>5. /\ Opened(b.enc, b.custom) = b.custom
      /\ StoredSchema(b.enc, b.custom) = b.custom.schema
  BY <1>1, OpensOwn
<1> DEFINE lens == IF k.baseLens = None THEN s ELSE k.baseLens
           Settled(stated) == IF stated.schema # {} THEN stated
                              ELSE WithStoredSchema(stated, lens, b)
<1>6. lens = b.enc
  BY <1>3
<1>7. Body(c) = [b EXCEPT !.custom = [Sent(c) EXCEPT !.seal = b.enc]]
  BY <1>3 DEF Body, Annotated, IsConfiguration
<1>8. ASSUME NEW stated \in Custom
      PROVE  Settled(stated) =
               IF stated.schema # {} THEN stated ELSE [stated EXCEPT !.schema = b.custom.schema]
  <2> HIDE DEF lens, b
  <2> QED
    BY <1>5, <1>6 DEF WithStoredSchema
<1>9. ASSUME NEW sent \in Custom, Sent(c) = sent, sent.schema = b.custom.schema
      PROVE  Recomposed(b, Body(c))
  <2>1. [sent EXCEPT !.seal = b.enc] =
          [seal |-> b.enc, name |-> sent.name, tags |-> sent.tags, schema |-> b.custom.schema]
    BY <1>9 DEF Custom
  <2>2. Body(c) = Relabelled(b, sent.name, sent.tags)
    BY <1>7, <1>9, <2>1 DEF Relabelled
  <2>3. sent.name \in Texts \union {None} /\ sent.tags \in Texts \union {None}
    BY <1>9 DEF Custom
  <2> QED
    BY <2>2, <2>3 DEF Recomposed
<1>10. CASE r.kind = "set"
  <2> DEFINE stated == [NoCustom EXCEPT !.name = r.name, !.tags = r.tags]
  <2>1. stated \in Custom /\ stated.schema = {}
    BY <1>4 DEF NoCustom, Custom
  <2>2. Sent(c) = Settled(stated)
    BY <1>3, <1>10 DEF Sent
  <2> HIDE DEF stated, Settled
  <2>3. Sent(c) = [stated EXCEPT !.schema = b.custom.schema]
    BY <1>8, <2>1, <2>2
  <2>4. /\ [stated EXCEPT !.schema = b.custom.schema] \in Custom
        /\ [stated EXCEPT !.schema = b.custom.schema].schema = b.custom.schema
    BY <1>2, <2>1 DEF Custom
  <2> QED
    BY <1>9, <2>3, <2>4
<1>11. CASE r.kind \in {"patch", "index"}
  <2>1. Fetched(c) = b.custom
    <3>1. k.got = stored /\ k.gotLens = s
      BY <1>11 DEF Working, Lensed, Intent, IsReadModifyWrite
    <3> QED
      BY <1>5, <3>1 DEF Fetched
  <2>2. CASE r.kind = "patch"
    <3> DEFINE stated == [b.custom EXCEPT !.name = Stated(r.name, @), !.tags = Stated(r.tags, @)]
    <3>1. stated \in Custom /\ stated.schema = b.custom.schema
      BY <1>2, <1>4 DEF Custom, Stated
    <3>2. Sent(c) = Settled(stated)
      BY <1>3, <2>1, <2>2 DEF Sent
    <3> HIDE DEF stated, Settled
    <3>3. Sent(c) = stated \/ Sent(c) = [stated EXCEPT !.schema = b.custom.schema]
      BY <1>8, <3>1, <3>2
    <3>4. /\ [stated EXCEPT !.schema = b.custom.schema] \in Custom
          /\ [stated EXCEPT !.schema = b.custom.schema].schema = b.custom.schema
      BY <1>2, <3>1 DEF Custom
    <3> QED
      BY <1>9, <3>1, <3>3, <3>4
  <2>3. CASE r.kind = "index"
    <3> DEFINE stated == [b.custom EXCEPT !.schema = @ \union r.decls]
    <3>1. stated \in Custom /\ stated.schema = b.custom.schema \union r.decls
      BY <1>2, <1>4 DEF Custom
    <3>2. Sent(c) = Settled(stated)
      BY <1>3, <2>1, <2>3 DEF Sent
    <3>3. stated.schema = {} => [stated EXCEPT !.schema = b.custom.schema] = stated
      BY <1>2, <3>1 DEF Custom
    <3>4. [stated EXCEPT !.seal = b.enc] =
            [b.custom EXCEPT !.seal = b.enc, !.schema = @ \union r.decls]
      BY <1>2 DEF Custom
    <3>5. Sent(c) = stated
      <4> HIDE DEF stated, Settled
      <4> QED
        BY <1>8, <3>1, <3>2, <3>3
    <3>6. Body(c) = Indexed(b, r.decls)
      <4>1. Body(c) = [b EXCEPT !.custom = [stated EXCEPT !.seal = b.enc]]
        BY <1>7, <3>5
      <4> HIDE DEF stated, b
      <4> QED
        BY <3>4, <4>1 DEF Indexed
    <3>7. ~Conflicting(b.custom.schema, r.decls)
      BY <2>1, <2>3 DEF Working, Lensed, Intent
    <3>8. b.enc = "edv" /\ ~Conflicting(r.decls, r.decls)
      <4>1. /\ k.index # Unresolved /\ Works(Handle(c), k.codec)
        BY <2>3 DEF Working, Lensed, Intent, IsReadModifyWrite
      <4>2. Works(Handle(c), k.index) /\ ~Undeclarable(SchemeOf(k.index), r.decls)
        BY <4>1 DEF Working, Coded
      <4>3. k.index = k.codec
        BY <4>1, <4>2 DEF Works
      <4> QED
        BY <1>2, <4>2, <4>3 DEF Undeclarable, Schemes
    <3> QED
      BY <1>4, <3>6, <3>7, <3>8 DEF Recomposed
  <2> QED
    BY <1>11, <2>2, <2>3
<1> QED
  BY <1>3, <1>10, <1>11

LEMMA WriteComposes ==
    ASSUME TypeOK, PinnedWrites, NEW c \in Calls, pc[c] = "put", Working(c),
           Precondition(c) = stored,
           stored # 0 => Sound(Object(stored)),
           stored # 0 => ServerAdmits(Object(stored), Body(c))
    PROVE  /\ stored = 0 => Sound(Body(c))
           /\ stored # 0 => Recomposed(Object(stored), Body(c))
<1> DEFINE k == call[c]
           r == k.req
           keyed == Handle(c) \in Keyholders
           b == Object(stored)
<1>1. /\ k.base = stored /\ (IsReadModifyWrite(r.kind) => k.got = stored)
      /\ r.fields \in Fields /\ b \in Objects
  <2>1. r \in RequestType
    BY RequestTyped
  <2>2. r.fields \in Fields
    BY <2>1 DEF RequestType
  <2> QED
    BY <2>2, ComposedOver, ObjectTyped DEF TypeOK
<1>2. CASE IsConfiguration(r.kind)
  <2>1. Body(c) \in {Configured(b, r.fields, keyed), Replaced(b, r.fields, keyed)}
    BY <1>1, <1>2 DEF Body, IsConfiguration
  <2>2. stored # 0 => Recomposed(b, Body(c))
    <3> HIDE DEF keyed, r
    <3>1. keyed \in BOOLEAN
      BY DEF keyed
    <3> QED
      BY <1>1, <2>1, <3>1 DEF Recomposed
  <2>3. stored = 0 => Sound(Body(c))
    <3>1. SUFFICES ASSUME stored = 0 PROVE Sound(Body(c))
      OBVIOUS
    <3>2. Body(c).custom = NoCustom
      BY <2>1, <3>1 DEF Configured, Replaced, ConfigurationBody, ResealedCustom, Object, Blank
    <3> QED
      BY <3>2 DEF Sound, NoCustom, Conflicting
  <2> QED
    BY <2>2, <2>3
<1>3. CASE ~IsConfiguration(r.kind) /\ r.absent
  <2>1. stored = 0 /\ k.codec = Unresolved
    BY <1>1, <1>3 DEF Working, Coded, Intent, Annotates
  <2>2. r.kind = "set"
    <3>1. r \in Requests \/ r = NoRequest
      BY RequestTyped DEF CallType
    <3> QED
      BY <1>3, <3>1, RequestsTyped DEF NoRequest, IsConfiguration
  <2>3. b = Blank /\ SchemeOf(k.codec) = "plain"
    BY <2>1 DEF Object, SchemeOf
  <2> DEFINE stated == [NoCustom EXCEPT !.name = r.name, !.tags = r.tags]
             empty == [stated EXCEPT !.schema = {}]
             custom == [empty EXCEPT !.seal = "plain"]
  <2>4. stated.schema = {} /\ empty.schema = {} /\ custom.schema = {} /\ custom.seal = "plain"
    BY DEF NoCustom
  <2>5. Sent(c) = empty
    <3>1. \A lens : StoredSchema(lens, Blank.custom) = {}
      BY DEF StoredSchema, CanOpen, Opened, Blank, NoCustom
    <3> QED
      BY <1>1, <2>2, <2>3, <2>4, <3>1 DEF Sent, WithStoredSchema
  <2>6. Body(c) = [Blank EXCEPT !.custom = custom]
    BY <1>1, <1>3, <2>3, <2>5 DEF Body, Annotated, IsConfiguration
  <2> HIDE DEF custom
  <2>7. Body(c).custom = custom /\ Body(c).enc = "plain"
    BY <2>6 DEF Blank
  <2> QED
    BY <2>1, <2>4, <2>7 DEF Sound, Conflicting
<1>4. CASE Annotates(c)
  <2>1. stored # 0
    BY <1>1, <1>4 DEF Working, Intent
  <2>2. SchemeOf(k.codec) = b.enc
    <3> DEFINE s == SchemeOf(k.codec)
    <3>1. s \in Schemes
      BY SchemeTyped, RequestTyped DEF CallType
    <3>2. Body(c) = Annotated(b, s, Sent(c))
      BY <1>1, <1>4 DEF Body, Annotates, IsConfiguration
    <3>3. Body(c).custom.seal = s /\ Body(c).enc = b.enc
      <4>1. Sent(c) \in Custom
        BY BodyTyped
      <4> HIDE DEF s, b
      <4> QED
        BY <1>1, <3>2, <4>1 DEF Annotated, Custom, Objects
    <3> QED
      BY <2>1, <3>1, <3>3 DEF ServerAdmits, Schemes, None
  <2> QED
    BY <1>1, <1>4, <2>1, <2>2, AnnotatesWhole
<1> QED
  BY <1>2, <1>3, <1>4 DEF Annotates

LEMMA Underway ==
    ASSUME NEW c \in Calls, Step(c) \/ Lose(c)
    PROVE  ~Finished(c)
  BY DEF Step, Lose, Acquire, Resolved, ServeGet, GotDescription, GotMeta, GotBaseline, Baseline,
         ServePut, Conflict, PreconditionFailed, Acked, ServeDelete, Deleted, Finished

(* While a handle makes one call at a time, a step keeps the order.        *)
LEMMA CallOrderly ==
    ASSUME TypeOK, PinnedWrites, Orderly, ~Overlapping,
           NEW c \in Calls, Start(c) \/ Step(c) \/ Lose(c)
    PROVE  Orderly'
<1>1. Aside(c) /\ Others(c)
  BY EveryAside DEF Aside
<1>2. \A d \in Calls \ {c} : Handle(d) = Handle(c) => Finished(d)
  <2>1. CASE Start(c)
    BY <2>1 DEF Start
  <2>2. CASE ~Start(c)
    BY <2>2, Underway DEF Orderly, Alone
  <2> QED
    BY <2>1, <2>2
<1>3. Ordered(c)'
  BY <1>1, HandleTyped, Underway, EveryOrders DEF Orderly
<1>4. Alone'
  BY <1>1, <1>2 DEF Alone, Orderly, Others, Finished, Handle
<1>5. \A v \in Past' : Sound(hist'[v].object)
  <2>1. CASE ~Wrote(c)
    BY <1>1, <2>1, Lasting DEF Orderly, Past
  <2>2. CASE Wrote(c)
    <3>1. Working(c)
      BY <2>2 DEF Wrote, Orderly, Finished
    <3>2. ServePut(c)
      BY <2>2 DEF Wrote, Start, Step, Lose, Acquire, Resolved, ServeGet, GotDescription, GotMeta,
                  GotBaseline, Baseline, Conflict, PreconditionFailed, Acked, ServeDelete, Deleted,
                  Finish, Fail, Goto, TypeOK
    <3>3. Precondition(c) = stored /\ (stored # 0 => ServerAdmits(Object(stored), Body(c)))
      BY <2>2, <3>2, PutAside DEF Wrote
    <3>4. stored # 0 => Sound(Object(stored)) /\ Object(stored) \in Objects
      BY ObjectTyped DEF Orderly, Past, Object, TypeOK, Versions
    <3>5. /\ stored = 0 => Sound(Body(c))
          /\ stored # 0 => Recomposed(Object(stored), Body(c))
      BY <2>2, <3>1, <3>3, <3>4, WriteComposes DEF Wrote
    <3>6. Sound(Body(c))
      BY <3>4, <3>5, RecomposedSound
    <3>7. \A v \in Past' : \/ v \in Past /\ hist'[v] = hist[v]
                           \/ hist'[v].object = Body(c)
      <4>1. /\ Len(hist') = Len(hist) + 1 /\ Len(hist) \in Nat
            /\ hist'[Len(hist) + 1] = [object |-> Body(c), by |-> c]
            /\ \A v \in Past : hist'[v] = hist[v]
        BY <1>1, <2>2, Lasting
      <4> QED
        BY <4>1 DEF Past
    <3> QED
      BY <3>6, <3>7 DEF Orderly
  <2> QED
    BY <2>1, <2>2
<1>6. ASSUME NEW h \in Handles
      PROVE  Remembering(h)'
  <2>1. CASE h = Handle(c)
    BY <1>3, <2>1 DEF Ordered, Handle
  <2>2. CASE h # Handle(c)
    BY <1>1, <2>2, RememberingLasts DEF Orderly, Aside
  <2> QED
    BY <2>1, <2>2
<1>7. ASSUME NEW d \in Calls
      PROVE  (Finished(d) \/ Working(d))'
  <2>1. CASE d = c
    BY <1>3, <2>1 DEF Ordered
  <2>2. CASE d # c /\ Finished(d)
    BY <1>1, <2>2 DEF Others, Finished
  <2>3. CASE d # c /\ ~Finished(d)
    <3>1. Handle(d) # Handle(c) /\ Working(d)
      BY <1>2, <2>3 DEF Orderly
    <3> QED
      BY <1>1, <2>3, <3>1, WorkingLasts
  <2> QED
    BY <2>1, <2>2, <2>3
<1> QED
  BY <1>4, <1>5, <1>6, <1>7 DEF Orderly

(* A resolution that settles changes nothing a call at work relies on:     *)
(* what it captured was ready before.                                      *)
LEMMA ResolutionOrderly ==
    ASSUME TypeOK, PinnedWrites, Orderly, NEW i \in DOMAIN codecs, Settles(i)
    PROVE  Orderly'
<1>1. /\ codecs \in Seq(CodecType) /\ i \in 1 .. Len(codecs) /\ Len(codecs) \in Nat
      /\ memo \in [Handles -> CodecIds]
  BY DEF TypeOK
<1>2. UNCHANGED <<hist, stored, recent, pc, call>>
  BY DEF Settles
<1>3. codecs[i].state \in {"asked", "answered"}
  BY DEF Settles
<1>4. \A j \in 1 .. Len(codecs) : codecs[j].state \in {"ready", "failed"} => codecs'[j] = codecs[j]
  BY <1>3 DEF Settles
<1>5. ASSUME NEW h \in Handles
      PROVE  \/ memo'[h] = memo[h]
             \/ memo[h] = i /\ memo'[h] = Unresolved /\ codecs'[i].state = "failed"
  BY <1>5 DEF Settles
<1>6. ASSUME NEW h \in Handles, NEW j, Works(h, j)
      PROVE  Works(h, j)' /\ codecs'[j] = codecs[j]
  <2>1. j \in 1 .. Len(codecs) /\ codecs[j].state = "ready" /\ memo[h] = j
    BY <1>1, <1>6 DEF Works, CodecIds, Unresolved
  <2>2. codecs'[j] = codecs[j] /\ memo'[h] = j
    BY <1>3, <1>4, <1>5, <2>1
  <2> QED
    BY <1>6, <2>2 DEF Works
<1>7. ASSUME NEW h \in Handles, NEW j, Works(h, j)
      PROVE  SchemeOf(j)' = SchemeOf(j)
  BY <1>2, <1>6, <1>7 DEF SchemeOf, Object
<1>8. Alone' /\ \A v \in Past' : Sound(hist'[v].object)
  BY <1>2 DEF Orderly, Alone, Past, Finished
<1>9. ASSUME NEW h \in Handles
      PROVE  Remembering(h)'
  <2>1. CASE recent[h].version # 0 /\ recent[h].version = stored /\ recent[h].lens # None
    <3>1. /\ memo[h] # Unresolved /\ codecs[memo[h]].state = "ready"
          /\ SchemeOf(memo[h]) = recent[h].lens
      BY <2>1 DEF Orderly, Remembering
    <3>2. PICK j : j = memo[h]
      OBVIOUS
    <3>3. j \in 1 .. Len(codecs)
      BY <1>1, <3>1, <3>2 DEF CodecIds, Unresolved
    <3>4. memo'[h] = j /\ codecs'[j] = codecs[j]
      BY <1>3, <1>4, <1>5, <3>1, <3>2, <3>3
    <3> QED
      BY <1>2, <3>1, <3>2, <3>4 DEF Remembering, SchemeOf, Object
  <2> QED
    BY <1>2, <2>1 DEF Remembering
<1>10. ASSUME NEW c \in Calls, ~Finished(c)
       PROVE  Working(c)'
  <2>1. Working(c) /\ Handle(c) \in Handles
    BY <1>10, HandleTyped DEF Orderly
  <2>2. PICK k \in CallType : k = call[c] /\ k = call'[c]
    BY <1>2, RequestTyped
  <2>3. k.codec \in CodecIds /\ (pc[c] = "resolving" => k.codec # Unresolved)
    BY <2>2 DEF CallType, PinnedWrites, PinnedWrite
  <2>4. Coded(c)'
    <3>1. pc[c] = "resolving" => k.codec = memo'[Handle(c)] \/ codecs'[k.codec].state = "failed"
      <4>1. SUFFICES ASSUME pc[c] = "resolving"
                     PROVE  k.codec = memo'[Handle(c)] \/ codecs'[k.codec].state = "failed"
        OBVIOUS
      <4>2. k.codec \in 1 .. Len(codecs)
        BY <2>3, <4>1 DEF CodecIds, Unresolved
      <4>3. k.codec = memo[Handle(c)] \/ codecs[k.codec].state = "failed"
        BY <2>1, <2>2, <4>1 DEF Working, Coded
      <4>4. \/ memo'[Handle(c)] = memo[Handle(c)]
            \/ memo[Handle(c)] = i /\ codecs'[i].state = "failed"
        BY <1>5, <2>1
      <4> QED
        BY <1>4, <4>2, <4>3, <4>4
    <3>2. /\ Works(Handle(c), k.codec) => Works(Handle(c), k.codec)'
          /\ Works(Handle(c), k.index) => Works(Handle(c), k.index)' /\ SchemeOf(k.index)' = SchemeOf(k.index)
      BY <1>6, <1>7, <2>1 DEF Handle
    <3> QED
      BY <1>2, <2>1, <2>2, <3>1, <3>2 DEF Working, Coded, Annotates, Handle, Works, SchemeOf
  <2>5. Lensed(c)'
    <3>1. Works(Handle(c), k.codec) => Works(Handle(c), k.codec)' /\ SchemeOf(k.codec)' = SchemeOf(k.codec)
      BY <1>6, <1>7, <2>1 DEF Handle
    <3>2. Fetched(c)' = Fetched(c)
      BY <1>2 DEF Fetched, Object
    <3>3. pc[c] = "put" /\ Annotates(c) => Works(Handle(c), k.codec)
      BY <2>1, <2>2 DEF Working, Coded, Intent
    <3> QED
      BY <1>2, <2>1, <2>2, <3>1, <3>2, <3>3 DEF Working, Lensed, Annotates, Handle, Works, SchemeOf
  <2>6. Intent(c)' /\ Forgotten(c)'
    BY <1>2, <2>1 DEF Working, Intent, Forgotten, Annotates, Handle
  <2> QED
    BY <2>4, <2>5, <2>6 DEF Working
<1> QED
  BY <1>2, <1>8, <1>9, <1>10 DEF Orderly, Finished

LEMMA InitOrderly == Init => Orderly
<1> SUFFICES ASSUME Init PROVE Orderly
  OBVIOUS
<1>1. /\ recent = [h \in Handles |-> Nothing] /\ pc = [c \in Calls |-> "idle"]
      /\ hist = <<>> \/ \E object \in InitialObjects : hist = <<[object |-> object, by |-> None]>>
  BY DEF Init
<1>2. \A v \in Past : Sound(hist[v].object)
  BY <1>1, ObjectsTyped DEF Past, Sound
<1> QED
  BY <1>1, <1>2 DEF Orderly, Alone, Finished, Remembering, Nothing

LEMMA NextOrderly ==
    ASSUME TypeOK, PinnedWrites, Orderly, ~Overlapping, [Next]_vars
    PROVE  Orderly'
<1>1. CASE UNCHANGED vars
  <2>1. UNCHANGED <<hist, stored, recent, memo, codecs, pc, call>>
    BY <1>1 DEF vars
  <2>2. Alone' /\ \A v \in Past' : Sound(hist'[v].object)
    BY <2>1 DEF Orderly, Alone, Past, Finished
  <2>3. \A h \in Handles : Remembering(h)'
    BY <2>1 DEF Orderly, Remembering, SchemeOf, Object
  <2>4. ASSUME NEW c \in Calls, Working(c)
        PROVE  Coded(c)' /\ Lensed(c)'
    BY <2>1, <2>4 DEF Working, Coded, Lensed, Works, Annotates, SchemeOf, Fetched, Object, Handle
  <2>5. ASSUME NEW c \in Calls, Working(c)
        PROVE  Intent(c)' /\ Forgotten(c)'
    BY <2>1, <2>5 DEF Working, Intent, Forgotten, Annotates, Handle
  <2> QED
    BY <2>1, <2>2, <2>3, <2>4, <2>5 DEF Orderly, Working, Finished
<1>2. CASE \E c \in Calls : Start(c) \/ Step(c) \/ Lose(c)
  BY <1>2, CallOrderly
<1>3. CASE Resolution
  BY <1>3, ResolutionSettles, ResolutionOrderly DEF Resolution
<1> QED
  BY <1>1, <1>2, <1>3 DEF Next, Quiet

LEMMA AlwaysOrderly ==
    ASSUME ~Overlapping
    PROVE  Spec => [](TypeOK /\ PinnedWrites /\ Orderly)
<1>1. Init => TypeOK /\ PinnedWrites /\ Orderly
  BY InitTyped, InitPinned, InitOrderly
<1>2. TypeOK /\ PinnedWrites /\ Orderly /\ [Next]_vars
      => (TypeOK /\ PinnedWrites /\ Orderly)'
  BY NextTyped, NextPinned, NextOrderly
<1> QED
  BY <1>1, <1>2, PTL DEF Spec

(* What a step does to the stored object, seen from outside.               *)
LEMMA StoredStep ==
    ASSUME TypeOK, PinnedWrites, Orderly, [Next]_vars
    PROVE  \/ hist' = hist /\ stored' \in {stored, 0}
           \/ \E new \in Objects :
                /\ stored' # 0 /\ Object(stored)' = new /\ hist'[stored'].object = new
                /\ stored # 0 => Recomposed(Object(stored), new)
<1>1. CASE \E c \in Calls : Start(c) \/ Step(c) \/ Lose(c)
  <2>1. PICK c \in Calls : Start(c) \/ Step(c) \/ Lose(c)
    BY <1>1
  <2>2. Aside(c)
    BY <2>1, EveryAside
  <2>3. CASE Wrote(c)
    <3>1. Working(c)
      BY <2>3 DEF Wrote, Orderly, Finished
    <3>2. ServePut(c)
      BY <2>1, <2>3 DEF Wrote, Start, Step, Lose, Acquire, Resolved, ServeGet, GotDescription, GotMeta,
                  GotBaseline, Baseline, Conflict, PreconditionFailed, Acked, ServeDelete, Deleted,
                  Finish, Fail, Goto, TypeOK
    <3>3. Precondition(c) = stored /\ (stored # 0 => ServerAdmits(Object(stored), Body(c)))
      BY <2>3, <3>2, PutAside DEF Wrote
    <3>4. stored # 0 => Sound(Object(stored))
      BY DEF Orderly, Past, Object, TypeOK, Versions
    <3>5. stored # 0 => Recomposed(Object(stored), Body(c))
      BY <2>3, <3>1, <3>3, <3>4, WriteComposes DEF Wrote
    <3>6. /\ stored' = Len(hist) + 1 /\ Len(hist) \in Nat
          /\ hist'[Len(hist) + 1] = [object |-> Body(c), by |-> c]
      BY <2>2, <2>3, Lasting DEF Wrote
    <3> QED
      BY <3>5, <3>6, BodyTyped DEF Object
  <2> QED
    BY <2>2, <2>3 DEF Aside
<1>2. CASE Resolution
  BY <1>2 DEF Resolution, ServeResolution, SettleResolution, Keyless
<1> QED
  BY <1>1, <1>2 DEF Next, Quiet, vars

LEMMA StoredGrows ==
    ASSUME TypeOK, PinnedWrites, Orderly, [Next]_vars, stored # 0, stored' # 0
    PROVE  Object(stored).custom.schema \subseteq hist'[stored'].object.custom.schema
<1>1. CASE hist' = hist /\ stored' = stored
  BY <1>1 DEF Object
<1>2. ASSUME NEW new \in Objects, hist'[stored'].object = new, Recomposed(Object(stored), new)
      PROVE  Object(stored).custom.schema \subseteq hist'[stored'].object.custom.schema
  <2>1. Sound(Object(stored)) /\ Object(stored) \in Objects
    BY ObjectTyped DEF Orderly, Past, Object, TypeOK, Versions
  <2> QED
    BY <1>2, <2>1, RecomposedSound
<1> QED
  BY <1>1, <1>2, StoredStep

(* mergeIndexDeclarations, carriedForward and the setMeta compose keep     *)
(* what the stored schema declares (Collection.ts, internal/describe.ts,   *)
(* internal/indexSchema.ts): whichever clients write, and whatever each of *)
(* them remembers, no write drops or changes a declared index, as long as  *)
(* each handle makes one call at a time.                                   *)
THEOREM SchemaGrows ==
    ASSUME ~Overlapping
    PROVE  Spec => SchemaOnlyGrows
<1>1. TypeOK /\ PinnedWrites /\ Orderly /\ [Next]_vars =>
        [stored # 0 /\ stored' # 0 =>
           Object(stored).custom.schema \subseteq hist'[stored'].object.custom.schema]_vars
  BY StoredGrows
<1> QED
  BY <1>1, AlwaysOrderly, PTL DEF Spec, SchemaOnlyGrows

(* An index cannot change its uniqueness in place: the stored schema never *)
(* holds one attribute as both unique and not.                             *)
THEOREM SchemaSettled ==
    ASSUME ~Overlapping
    PROVE  Spec => []UniquenessSettled
<1>1. TypeOK /\ Orderly => UniquenessSettled
  <2> SUFFICES ASSUME TypeOK, Orderly, stored # 0 PROVE UniquenessSettled
    BY DEF UniquenessSettled
  <2>1. Sound(Object(stored))
    BY DEF Orderly, Past, Object, TypeOK, Versions
  <2> QED
    BY <2>1 DEF Sound, Conflicting, UniquenessSettled
<1> QED
  BY <1>1, AlwaysOrderly, PTL

(* The vocabulary of the bodies means the same to the register.            *)
LEMMA SameVocabulary ==
    /\ Register!Objects = Objects /\ Register!Fields = Fields
    /\ Register!Declarations = Declarations /\ Register!None = None
    /\ \A schema, requested : Register!Conflicting(schema, requested) = Conflicting(schema, requested)
    /\ \A b, fields, keyed : /\ Register!Configured(b, fields, keyed) = Configured(b, fields, keyed)
                             /\ Register!Replaced(b, fields, keyed) = Replaced(b, fields, keyed)
<1>1. /\ Register!Objects = Objects /\ Register!Fields = Fields
      /\ Register!Declarations = Declarations /\ Register!None = None
  BY DEF Register!Objects, Objects, Register!Fields, Fields, Register!Declarations, Declarations,
         Register!None, None, Register!Custom, Custom, Register!Schemes, Schemes
<1>2. \A schema, requested : Register!Conflicting(schema, requested) = Conflicting(schema, requested)
  BY DEF Register!Conflicting, Conflicting
<1>3. \A b, scheme, conf, keyed : Register!ConfigurationBody(b, scheme, conf, keyed)
                                    = ConfigurationBody(b, scheme, conf, keyed)
  BY DEF Register!ConfigurationBody, ConfigurationBody, Register!ResealedCustom, ResealedCustom,
         Register!NoCustom, NoCustom, Register!None, None
<1>4. \A b, fields, keyed : /\ Register!Configured(b, fields, keyed) = Configured(b, fields, keyed)
                            /\ Register!Replaced(b, fields, keyed) = Replaced(b, fields, keyed)
  BY <1>3 DEF Register!Configured, Configured, Register!Replaced, Replaced,
              Register!Stated, Stated, Register!None, None
<1> QED
  BY <1>1, <1>2, <1>4

LEMMA RecomposedWrites ==
    ASSUME NEW b \in Objects, NEW new \in Objects, Recomposed(b, new), stored # 0, b = Object(stored),
           stored' # 0, Object(stored)' = new
    PROVE  Register!Next
<1>1. Register!Write(b, new) /\ b \in IF stored = 0 THEN {} ELSE {Object(stored)}
  BY DEF Register!Write
<1>2. CASE \E fields \in Fields, keyed \in BOOLEAN :
             new \in {Configured(b, fields, keyed), Replaced(b, fields, keyed)}
  <2>1. PICK fields \in Fields, keyed \in BOOLEAN :
           new \in {Configured(b, fields, keyed), Replaced(b, fields, keyed)}
    BY <1>2
  <2>2. Register!Write(b, Register!Configured(b, fields, keyed))
        \/ Register!Write(b, Register!Replaced(b, fields, keyed))
    BY <1>1, <2>1, SameVocabulary
  <2>3. fields \in Register!Fields
    BY SameVocabulary
  <2>4. Register!Configure
    BY <1>1, <2>2, <2>3 DEF Register!Configure
  <2> QED
    BY <2>4 DEF Register!Next
<1>3. CASE \E name, tags \in Texts \union {None} : new = Relabelled(b, name, tags)
  <2>1. PICK name \in Texts \union {None}, tags \in Texts \union {None} : new = Relabelled(b, name, tags)
    BY <1>3
  <2>2. /\ name \in Texts \union {Register!None} /\ tags \in Texts \union {Register!None}
        /\ Register!Write(b, [b EXCEPT !.custom = [seal |-> b.enc, name |-> name, tags |-> tags,
                                                   schema |-> b.custom.schema]])
    BY <1>1, <2>1, SameVocabulary DEF Relabelled
  <2>3. Register!Annotate
    BY <1>1, <2>2 DEF Register!Annotate
  <2> QED
    BY <2>3 DEF Register!Next
<1>4. CASE \E decls \in SUBSET Declarations :
             ~Conflicting(b.custom.schema, decls) /\ new = Indexed(b, decls)
  <2>1. PICK decls \in SUBSET Declarations :
           ~Conflicting(b.custom.schema, decls) /\ new = Indexed(b, decls)
    BY <1>4
  <2>2. Register!Write(b, [b EXCEPT !.custom =
                             [b.custom EXCEPT !.seal = b.enc, !.schema = @ \union decls]])
    BY <1>1, <2>1 DEF Indexed
  <2>3. decls \in SUBSET Register!Declarations /\ ~Register!Conflicting(b.custom.schema, decls)
    BY <2>1, SameVocabulary
  <2>4. Register!Declare
    BY <1>1, <2>2, <2>3 DEF Register!Declare
  <2> QED
    BY <2>4 DEF Register!Next
<1> QED
  BY <1>2, <1>3, <1>4 DEF Recomposed

(* configure, replaceDescription, setMeta, setName, setTags and            *)
(* declareIndexes implement the register (Collection.ts): conditional      *)
(* requests, remembered reads, captured codecs and retries notwithstanding,*)
(* every write is one whole read-modify-write of the stored object, as     *)
(* long as each handle makes one call at a time.                           *)
THEOREM ImplementsRegister ==
    ASSUME ~Overlapping
    PROVE  Spec => AtomicRegister
<1>1. Init => Register!Init
  <2>1. CASE Init /\ stored = 0
    BY <2>1 DEF Register!Init
  <2>2. CASE Init /\ stored # 0
    <3>1. Object(stored) \in Objects
      BY <2>2, InitTyped, ObjectTyped DEF TypeOK
    <3> QED
      BY <2>2, <3>1, SameVocabulary DEF Register!Init
  <2> QED
    BY <2>1, <2>2
<1>2. TypeOK /\ PinnedWrites /\ Orderly /\ [Next]_vars
      => [Register!Next]_(IF stored = 0 THEN {} ELSE {Object(stored)})
  <2> SUFFICES ASSUME TypeOK, PinnedWrites, Orderly, [Next]_vars
               PROVE  Register!Next \/ UNCHANGED (IF stored = 0 THEN {} ELSE {Object(stored)})
    OBVIOUS
  <2>1. CASE hist' = hist /\ stored' = stored
    BY <2>1 DEF Object
  <2>2. CASE stored # 0 /\ stored' = 0
    BY <2>2 DEF Register!Next, Register!Delete
  <2>3. ASSUME NEW new \in Objects, stored' # 0, Object(stored)' = new,
               stored # 0 => Recomposed(Object(stored), new)
        PROVE  Register!Next
    <3>1. CASE stored = 0
      <4>1. Register!Create
        BY <2>3, <3>1, SameVocabulary DEF Register!Create
      <4> QED
        BY <4>1 DEF Register!Next
    <3>2. CASE stored # 0
      <4>1. PICK b \in Objects : b = Object(stored)
        BY ObjectTyped DEF TypeOK
      <4> QED
        BY <2>3, <3>2, <4>1, RecomposedWrites
    <3> QED
      BY <3>1, <3>2
  <2> QED
    BY <2>1, <2>2, <2>3, StoredStep
<1> QED
  BY <1>1, <1>2, AlwaysOrderly, PTL DEF Spec, AtomicRegister, Register!Spec
-----------------------------------------------------------------------------
(* What a handle can search by, while nobody deletes the Collection.       *)

NobodyDeletes == \A req \in Requests : req.kind # "delete"

Schema(v) == Object(v).custom.schema

(* Versions only pile up, and no schema shrinks.                           *)
Grown ==
    /\ stored = Len(hist)
    /\ \A v, w \in Past : v <= w => Schema(v) \subseteq Schema(w)

(* The codec a handle keeps is its own, and only a reader's was ever       *)
(* resolved from an object.                                                *)
Own ==
    /\ \A h \in Handles : memo[h] # Unresolved => codecs[memo[h]].handle = h
    /\ \A i \in DOMAIN codecs : codecs[i].version # 0 => codecs[i].handle \in Readers

(* A call about to install a schema on its codec sent it.                  *)
Sends(c) ==
    pc[c] = "acked" /\ ~IsConfiguration(call[c].req.kind) =>
        Sent(c).schema = Schema(call[c].ack)

(* Wherever the handle's next codec or the codec's next schema may come    *)
(* from, the declarations are there.                                       *)
Reflects(i, declared) ==
    /\ codecs[i].version # 0 /\ (codecs[i].state = "answered" \/ codecs[i].snapshot) =>
         declared \subseteq Schema(codecs[i].version)
    /\ codecs[i].state = "ready" => declared \subseteq codecs[i].schema

Sees(d, declared) ==
    /\ pc[d] = "got" => declared \subseteq Schema(call[d].seen)
    /\ pc[d] = "acked" => declared \subseteq Schema(call[d].ack)

InForce(h, declared) ==
    /\ h \in Readers
    /\ declared \subseteq Schema(stored)
    /\ memo[h] # Unresolved => Reflects(memo[h], declared)
    /\ \A d \in Calls : Handle(d) = h => Sees(d, declared)

Declared(c) ==
    Returned(c) /\ call[c].req.kind = "index" => InForce(Handle(c), call[c].req.decls)

Searchable == Grown /\ Own /\ \A c \in Calls : Sends(c) /\ Declared(c)

LEMMA SchemaLasts ==
    ASSUME TypeOK, NEW c \in Calls, Aside(c), NEW v \in Versions
    PROVE  Schema(v)' = Schema(v)
  BY Lasting DEF Schema

LEMMA NeverDeleting ==
    ASSUME TypeOK, WrittenOnce, NobodyDeletes, NEW c \in Calls
    PROVE  pc[c] \notin {"delete", "deleted"}
<1>1. call[c].req \in Requests \union {NoRequest}
  BY RequestTyped DEF CallType
<1>2. call[c].req.kind # "delete"
  BY <1>1 DEF NobodyDeletes, NoRequest, None
<1> QED
  BY <1>2 DEF WrittenOnce, Accounted

LEMMA GrownLasts ==
    ASSUME TypeOK, PinnedWrites, WrittenOnce, Orderly, NobodyDeletes, Grown,
           NEW c \in Calls, Start(c) \/ Step(c) \/ Lose(c)
    PROVE  Grown' /\ Schema(stored) \subseteq Schema(stored)'
<1>1. Aside(c)
  BY EveryAside
<1>2. /\ Len(hist) \in Nat /\ \A v \in Versions : Schema(v)' = Schema(v)
      /\ Past \subseteq Versions /\ stored \in Versions
  BY <1>1, SchemaLasts DEF Past, Versions, TypeOK
<1>3. CASE ~Wrote(c)
  <2>1. hist' = hist /\ stored' \in {stored, 0} /\ pc'[c] # "acked"
    BY <1>1, <1>3 DEF Aside
  <2>2. ~ServeDelete(c)
    BY NeverDeleting DEF ServeDelete
  <2>3. stored' = stored
    BY <2>1, <2>2 DEF Start, Step, Lose, Acquire, Resolved, ServeGet, GotDescription, GotMeta,
       GotBaseline, Baseline, ServePut, Conflict, Acked, Deleted, Goto, TypeOK
  <2>4. Schema(stored)' = Schema(stored)
    BY <1>2, <2>3 DEF Schema, Object
  <2> QED
    BY <1>2, <2>1, <2>3, <2>4 DEF Grown, Past
<1>4. CASE Wrote(c)
  <2>1. stored' = Len(hist) + 1 /\ Len(hist') = Len(hist) + 1
    BY <1>1, <1>4, Lasting DEF Wrote
  <2>2. stored # 0 => Schema(stored) \subseteq Schema(stored)'
    <3>1. [Next]_vars /\ stored' # 0
      BY <1>2, <2>1 DEF Next
    <3> QED
      BY <3>1, StoredGrows DEF Schema, Object
  <2>3. Schema(0) = {}
    BY DEF Schema, Object, Blank, NoCustom
  <2>4. PICK n : n = Len(hist) + 1
    OBVIOUS
  <2>5. Schema(stored) \subseteq Schema(n)'
    BY <2>1, <2>2, <2>3, <2>4 DEF Schema, Object
  <2>6. ASSUME NEW v \in Past', NEW w \in Past', v <= w
        PROVE  Schema(v)' \subseteq Schema(w)'
    <3>1. CASE w \in Past
      <4>1. v \in Past
        BY <1>2, <2>1, <2>6, <3>1 DEF Past
      <4> QED
        BY <1>2, <2>6, <3>1, <4>1 DEF Grown
    <3>2. CASE w = n /\ v \in Past
      <4>1. stored \in Past /\ v <= stored
        BY <1>2, <3>2 DEF Grown, Past
      <4> QED
        BY <1>2, <2>5, <3>2, <4>1 DEF Grown
    <3>3. CASE w = n /\ v = n
      BY <3>3
    <3> QED
      BY <1>2, <2>1, <2>4, <3>1, <3>2, <3>3 DEF Past
  <2>7. Schema(n)' = Schema(stored)'
    BY <2>1, <2>4 DEF Schema, Object
  <2> QED
    BY <2>1, <2>5, <2>6, <2>7 DEF Grown
<1> QED
  BY <1>3, <1>4

LEMMA OwnLasts ==
    ASSUME TypeOK, PinnedWrites, WrittenOnce, Own, NEW c \in Calls, Start(c) \/ Step(c) \/ Lose(c)
    PROVE  Own'
<1>1. Aside(c) /\ Len(codecs) \in Nat /\ codecs \in Seq(CodecType) /\ codecs' \in Seq(CodecType')
  BY EveryAside, NextTyped DEF TypeOK, Next
<1>2. \A i \in 1 .. Len(codecs) :
        codecs'[i].handle = codecs[i].handle /\ codecs'[i].version = codecs[i].version
  BY <1>1 DEF Aside, Same, Asking
<1>3. \A i \in DOMAIN codecs' :
        i \in 1 .. Len(codecs) \/ (codecs'[i].handle = Handle(c) /\ codecs'[i].version = 0)
  BY <1>1 DEF Aside, Same, Asking
<1>4. ASSUME NEW h \in Handles, memo'[h] # Unresolved
      PROVE  codecs'[memo'[h]].handle = h
  <2>1. CASE memo'[h] = memo[h]
    <3>1. memo[h] \in 1 .. Len(codecs)
      BY <1>4, <2>1 DEF TypeOK, CodecIds, Unresolved
    <3> QED
      BY <1>2, <1>4, <2>1, <3>1 DEF Own
  <2>2. CASE memo'[h] # memo[h]
    <3>1. h = Handle(c)
      BY <1>1, <2>2 DEF Aside
    <3>2. memo'[h] = Len(codecs) + 1 /\ Asking(c, codecs, codecs')
      BY <1>4, <2>2, <3>1, EveryLedger DEF WrittenOnce, Ledger
    <3> QED
      BY <3>1, <3>2 DEF Asking
  <2> QED
    BY <2>1, <2>2
<1>5. \A i \in DOMAIN codecs : i \in 1 .. Len(codecs)
  BY <1>1
<1> QED
  BY <1>2, <1>3, <1>4, <1>5 DEF Own

(* What a call may install on its handle's codec: the schema of a version  *)
(* it read, or of the one its write created.                               *)
Known(c, v) ==
    \/ pc[c] = "got" /\ v = call[c].seen
    \/ pc[c] = "acked" /\ v = call[c].ack
    \/ /\ pc[c] = "resolving" /\ memo[Handle(c)] # Unresolved
       /\ v = codecs[memo[Handle(c)]].version /\ v # 0
       /\ codecs[memo[Handle(c)]].snapshot

Taught(c) ==
    \A j \in 1 .. Len(codecs) :
        \/ codecs'[j].schema = codecs[j].schema
        \/ /\ j = memo[Handle(c)]
           /\ \E v \in Versions : Known(c, v) /\ codecs'[j].schema = Schema(v)

(* A declaration that returns found its attributes in one, and installed it. *)
Learnt(c) ==
    pc'[c] = "done" /\ call[c].req.kind = "index" =>
        \E j \in 1 .. Len(codecs), v \in Versions :
           /\ j = memo[Handle(c)] /\ memo' = memo /\ SchemeOf(j) = "edv"
           /\ codecs'[j].state = "ready" /\ ~codecs'[j].snapshot
           /\ codecs'[j].schema = Schema(v) /\ call[c].req.decls \subseteq Schema(v)

LEMMA MetaReadLearns ==
    ASSUME TypeOK, NEW c \in Calls, NEW k \in CallType, k.req = call[c].req,
           NEW cs \in Seq(CodecType), Len(cs) = Len(codecs),
           \A j \in 1 .. Len(codecs) : cs[j].schema = codecs[j].schema,
           NEW v \in Versions, NEW lens \in Lenses, MetaRead(c, k, cs, v, lens),
           Known(c, v), memo' = memo,
           k.req.kind = "index" =>
             /\ k.index = memo[Handle(c)] /\ k.index \in 1 .. Len(codecs)
             /\ lens = "edv" /\ SchemeOf(k.index) = "edv"
             /\ codecs'[k.index].state = "ready" /\ ~codecs'[k.index].snapshot
    PROVE  Taught(c) /\ Learnt(c)
<1> DEFINE schema == Opened(lens, Object(v).custom).schema
           settled == k.req.kind = "index" /\ k.req.decls \subseteq schema
<1>1. schema \in SUBSET Declarations
  <2>1. Object(v).custom \in Custom
    BY ObjectTyped DEF Objects
  <2>2. Opened(lens, Object(v).custom) \in Custom
    BY <2>1, OpenedTyped
  <2> QED
    BY <2>2 DEF Custom
<1>2. /\ codecs' = IF settled THEN WithSchema(cs, k.index, schema) ELSE cs
      /\ pc'[c] = "done" => settled \/ k.req.kind = "meta"
  <2>1. \/ /\ k.req.kind = "meta" \/ settled
           /\ codecs' = IF settled THEN WithSchema(cs, k.index, schema) ELSE cs
        \/ ~settled /\ codecs' = cs /\ (Fail(c) \/ Goto(c, "resolve"))
    BY DEF MetaRead
  <2>2. Fail(c) \/ Goto(c, "resolve") => pc'[c] # "done"
    BY DEF Fail, Finish, Goto, TypeOK
  <2> HIDE DEF settled
  <2> QED
    BY <2>1, <2>2
<1>3. settled => schema = Schema(v)
  BY DEF Opened, Schema
<1> HIDE DEF schema
<1>4. CASE settled
  <2>1. k.index \in CodecIds
    BY DEF CallType
  <2>2. \A j \in 1 .. Len(cs) :
          WithSchema(cs, k.index, schema)[j].schema =
            IF j = k.index /\ SchemeOf(k.index) = "edv" THEN schema ELSE cs[j].schema
    BY <1>1, <2>1, SchemaSame
  <2>3. \A j \in 1 .. Len(codecs) :
          codecs'[j].schema = IF j = k.index THEN Schema(v) ELSE codecs[j].schema
    BY <1>2, <1>3, <1>4, <2>2
  <2> QED
    BY <1>3, <1>4, <2>3 DEF Taught, Learnt
<1>5. CASE ~settled
  BY <1>2, <1>5 DEF Taught, Learnt
<1> QED
  BY <1>4, <1>5

LEMMA ResolvedLearns ==
    ASSUME TypeOK, PinnedWrites, WrittenOnce, NEW c \in Calls, Resolved(c), Working(c)
    PROVE  Taught(c) /\ Learnt(c)
<1> DEFINE h == Handle(c)
           k == call[c]
           i == k.codec
           cs == [codecs EXCEPT ![i].snapshot = FALSE]
           n == [k EXCEPT !.index = i]
           version == codecs[i].version
           scheme == SchemeOf(i)
<1>1. k \in CallType /\ i \in 1 .. Len(codecs) /\ i \in CodecIds /\ i # Unresolved
  <2>1. k \in CallType
    BY RequestTyped
  <2>2. k.codec # Unresolved /\ k.codec \in CodecIds
    BY <2>1 DEF CallType, PinnedWrites, PinnedWrite, Resolved
  <2> QED
    BY <2>1, <2>2 DEF CodecIds, Unresolved
<1>2. Aside(c) /\ (Fail(c) \/ ~codecs'[i].snapshot)
  BY <1>1, ResolvedAside
<1>3. pc[c] = "resolving" /\ UNCHANGED memo
  BY DEF Resolved
<1>4. /\ codecs \in Seq(CodecType) /\ codecs[i] \in CodecType /\ version \in Versions
      /\ scheme \in Schemes /\ scheme \in Lenses
  <2>1. codecs \in Seq(CodecType) /\ codecs[i] \in CodecType
    BY <1>1 DEF TypeOK
  <2> QED
    BY <1>1, <2>1, SchemeTyped DEF CodecType, Lenses
<1>5. /\ cs \in Seq(CodecType) /\ Len(cs) = Len(codecs)
      /\ \A j \in 1 .. Len(codecs) : cs[j].schema = codecs[j].schema
  <2> DEFINE spent == [codecs[i] EXCEPT !.snapshot = FALSE]
  <2>1. spent \in CodecType /\ spent.schema = codecs[i].schema
    BY <1>4 DEF CodecType
  <2>2. cs = [codecs EXCEPT ![i] = spent]
    BY <1>4
  <2> HIDE DEF spent, cs
  <2> QED
    BY <1>1, <1>4, <2>1, <2>2, ExceptSeq
<1>6. n \in CallType /\ n.req = k.req /\ n.index = i
  BY <1>1 DEF CallType
<1>7. codecs[i].state = "ready" => memo[h] = i /\ version # 0 /\ codecs'[i].state = "ready"
  <2>1. codecs[i].state = "ready" => memo[h] = i
    BY <1>3 DEF Working, Coded
  <2>2. codecs[i].state = "ready" => version # 0
    BY <1>1, <1>4 DEF WrittenOnce, ReadyHasRead
  <2> QED
    BY <1>1, <1>2, <2>1, <2>2, Lasting
<1> HIDE DEF cs, n, version, scheme
<1>8. \/ codecs' \in {codecs, cs} /\ Fail(c)
      \/ codecs' = cs /\ (Goto(c, "baseline") \/ Goto(c, "get") \/ Goto(c, "resolve"))
      \/ /\ codecs[i].state = "ready" /\ codecs[i].snapshot
         /\ \/ MetaRead(c, k, cs, version, scheme) /\ k.aim = "meta"
            \/ MetaRead(c, n, cs, version, scheme) /\ ~Undeclarable(scheme, k.req.decls)
  BY DEF Resolved, version, scheme, cs, n
<1>9. CASE /\ codecs' \in {codecs, cs}
           /\ Fail(c) \/ Goto(c, "baseline") \/ Goto(c, "get") \/ Goto(c, "resolve")
  <2>1. pc'[c] # "done"
    BY <1>9 DEF Fail, Finish, Goto, TypeOK
  <2> QED
    BY <1>5, <1>9, <2>1 DEF Taught, Learnt
<1>10. ASSUME codecs[i].state = "ready", codecs[i].snapshot
       PROVE  Known(c, version) /\ memo[h] = i /\ codecs'[i].state = "ready"
  BY <1>1, <1>3, <1>7, <1>10 DEF Known, version
<1>11. CASE /\ codecs[i].state = "ready" /\ codecs[i].snapshot /\ k.aim = "meta"
            /\ MetaRead(c, k, cs, version, scheme)
  <2>1. k.req.kind = "index" =>
          /\ k.index = i /\ Works(h, i) /\ ~Undeclarable(scheme, k.req.decls)
    BY <1>10, <1>11 DEF Working, Lensed, Coded, Works, scheme
  <2>2. k.req.kind # "index"
    BY <1>11, <2>1 DEF Works
  <2> HIDE DEF k
  <2> QED
    BY <1>1, <1>3, <1>4, <1>5, <1>10, <1>11, <2>2, MetaReadLearns DEF k
<1>12. CASE /\ codecs[i].state = "ready" /\ codecs[i].snapshot
            /\ ~Undeclarable(scheme, k.req.decls)
            /\ MetaRead(c, n, cs, version, scheme)
  <2>1. scheme = "edv" /\ SchemeOf(n.index) = "edv"
    BY <1>4, <1>6, <1>12 DEF Undeclarable, Schemes, scheme
  <2>2. ~Fail(c) => ~codecs'[i].snapshot
    BY <1>2
  <2>3. CASE Fail(c)
    <3>1. codecs' = cs /\ pc'[c] # "done"
      <4>1. pc'[c] = "failed"
        BY <2>3, FinishAside DEF Fail
      <4>2. ~Finish(c, "done", 0) /\ ~Goto(c, "resolve")
        BY <4>1 DEF Finish, Goto, TypeOK
      <4> QED
        BY <1>12, <4>1, <4>2 DEF MetaRead
    <3> QED
      BY <1>5, <3>1 DEF Taught, Learnt
  <2>4. CASE ~Fail(c)
    BY <1>1, <1>3, <1>4, <1>5, <1>6, <1>10, <1>12, <2>1, <2>2, <2>4, MetaReadLearns
  <2> QED
    BY <2>3, <2>4
<1> QED
  BY <1>8, <1>9, <1>11, <1>12

LEMMA GotMetaLearns ==
    ASSUME TypeOK, WrittenOnce, NEW c \in Calls, GotMeta(c), Working(c)
    PROVE  Taught(c) /\ Learnt(c)
<1> DEFINE h == Handle(c)
           lens == SchemeOf(call[c].codec)
<1>1. PICK k \in CallType : k = call[c]
  BY RequestTyped
<1>2. /\ k.index \in CodecIds /\ k.codec \in CodecIds /\ k.seen \in Versions
      /\ lens \in Schemes /\ lens \in Lenses
  BY <1>1, SchemeTyped DEF CallType, Lenses
<1>3. pc[c] = "got" /\ k.aim = "meta" /\ memo' = memo
  BY <1>1 DEF GotMeta
<1>4. Known(c, k.seen)
  BY <1>1, <1>3 DEF Known
<1>5. Aside(c) /\ codecs \in Seq(CodecType)
  BY ReadAside DEF TypeOK
<1>6. k.req.kind = "index" =>
        /\ k.index = memo[h] /\ k.index \in 1 .. Len(codecs)
        /\ lens = "edv" /\ SchemeOf(k.index) = "edv"
        /\ codecs'[k.index].state = "ready" /\ ~codecs'[k.index].snapshot
  <2> SUFFICES ASSUME k.req.kind = "index"
               PROVE  /\ k.index = memo[h] /\ k.index \in 1 .. Len(codecs)
                      /\ lens = "edv" /\ SchemeOf(k.index) = "edv"
                      /\ codecs'[k.index].state = "ready" /\ ~codecs'[k.index].snapshot
    OBVIOUS
  <2>1. k.index # Unresolved /\ Works(h, k.index) /\ ~Undeclarable(SchemeOf(k.index), k.req.decls)
    BY <1>1, <1>3 DEF Working, Lensed, Coded
  <2>2. Works(h, k.codec)
    BY <1>1, <1>3 DEF Working, Coded
  <2>3. k.index = memo[h] /\ k.codec = k.index
    BY <2>1, <2>2 DEF Works
  <2>4. k.index \in 1 .. Len(codecs)
    BY <1>2, <2>1 DEF CodecIds, Unresolved
  <2>5. lens = "edv"
    BY <1>1, <1>2, <2>1, <2>3 DEF Undeclarable, Schemes
  <2>6. codecs'[k.index].state = "ready" /\ ~codecs'[k.index].snapshot
    BY <1>5, <2>1, <2>4 DEF Aside, Same, Asking, Works
  <2> QED
    BY <1>1, <2>3, <2>4, <2>5, <2>6
<1> HIDE DEF lens
<1>7. \/ Fail(c) /\ codecs' = codecs
      \/ MetaRead(c, k, codecs, k.seen, lens)
  BY <1>1 DEF GotMeta, lens
<1>8. CASE Fail(c) /\ codecs' = codecs
  BY <1>8, FinishAside DEF Fail, Taught, Learnt
<1>9. CASE MetaRead(c, k, codecs, k.seen, lens)
  BY <1>1, <1>2, <1>3, <1>4, <1>5, <1>6, <1>9, MetaReadLearns
<1> QED
  BY <1>7, <1>8, <1>9

(* A declaration sends what it declares.                                   *)
LEMMA SentDeclares ==
    ASSUME TypeOK, NEW c \in Calls, call[c].req.kind = "index"
    PROVE  call[c].req.decls \subseteq Sent(c).schema
<1> DEFINE stated == [Fetched(c) EXCEPT !.schema = @ \union call[c].req.decls]
<1>1. PICK k \in CallType : k = call[c]
  BY RequestTyped
<1>2. Fetched(c) \in Custom
  <2>1. k.got \in Versions /\ k.gotLens \in Lenses
    BY DEF CallType
  <2>2. Object(k.got).custom \in Custom
    BY <2>1, ObjectTyped DEF Objects
  <2> QED
    BY <1>1, <2>1, <2>2, OpenedTyped DEF Fetched
<1>3. stated.schema = Fetched(c).schema \union call[c].req.decls
  BY <1>2 DEF Custom
<1>4. stated.schema # {} => Sent(c) = stated
  BY DEF Sent
<1> HIDE DEF stated
<1> QED
  BY <1>3, <1>4

LEMMA AckedLearns ==
    ASSUME TypeOK, NEW c \in Calls, Sends(c), Acked(c), Working(c)
    PROVE  Taught(c) /\ Learnt(c)
<1> DEFINE h == Handle(c)
           schema == Sent(c).schema
<1>1. PICK k \in CallType : k = call[c]
  BY RequestTyped
<1>2. /\ k.codec \in CodecIds /\ k.index \in CodecIds /\ k.ack \in Versions
      /\ schema \in SUBSET Declarations /\ codecs \in Seq(CodecType) /\ pc[c] = "acked"
  BY BodyTyped DEF CallType, Custom, TypeOK, Acked
<1>3. CASE IsConfiguration(k.req.kind)
  <2>1. codecs' = codecs /\ k.req.kind # "index"
    BY <1>1, <1>3 DEF Acked, IsConfiguration
  <2> QED
    BY <1>1, <2>1 DEF Taught, Learnt
<1>4. CASE ~IsConfiguration(k.req.kind)
  <2> DEFINE first == WithSchema(codecs, k.codec, schema)
  <2>1. codecs' = WithSchema(first, k.index, schema) /\ memo' = memo
    BY <1>1, <1>4 DEF Acked
  <2>2. schema = Schema(k.ack) /\ Known(c, k.ack)
    BY <1>1, <1>2, <1>4 DEF Sends, Known
  <2> HIDE DEF schema
  <2>3. /\ first \in Seq(CodecType) /\ Len(first) = Len(codecs)
        /\ \A j \in 1 .. Len(codecs) :
             first[j].schema = IF j = k.codec /\ SchemeOf(k.codec) = "edv" THEN schema
                               ELSE codecs[j].schema
    BY <1>2, WithSchemaTyped, SchemaSame
  <2> HIDE DEF first
  <2>4. \A j \in 1 .. Len(codecs) :
          codecs'[j].schema = IF j = k.index /\ SchemeOf(k.index) = "edv" THEN schema
                              ELSE first[j].schema
    BY <1>2, <2>1, <2>3, SchemaSame
  <2>5. \A j \in 1 .. Len(codecs) : j \in {k.codec, k.index} => j = memo[h]
    BY <1>1, <1>2 DEF Working, Coded, Works, Unresolved
  <2>6. Taught(c)
    BY <1>2, <2>2, <2>3, <2>4, <2>5 DEF Taught
  <2>7. ASSUME k.req.kind = "index"
        PROVE  \E j \in 1 .. Len(codecs), v \in Versions :
                 /\ j = memo[h] /\ memo' = memo /\ SchemeOf(j) = "edv"
                 /\ codecs'[j].state = "ready" /\ ~codecs'[j].snapshot
                 /\ codecs'[j].schema = Schema(v) /\ k.req.decls \subseteq Schema(v)
    <3>1. k.index # Unresolved /\ Works(h, k.index) /\ ~Undeclarable(SchemeOf(k.index), k.req.decls)
      BY <1>1, <1>2, <2>7 DEF Working, Intent, Lensed, Coded
    <3>2. k.index \in 1 .. Len(codecs) /\ k.index = memo[h]
      BY <1>2, <3>1 DEF Works, CodecIds, Unresolved
    <3>3. SchemeOf(k.index) = "edv"
      BY <1>2, <3>1, SchemeTyped DEF Undeclarable, Schemes
    <3>4. codecs'[k.index].state = "ready" /\ ~codecs'[k.index].snapshot
      <4>1. Same(codecs, codecs') \/ Asking(c, codecs, codecs')
        BY EndsAside DEF Aside
      <4> QED
        BY <3>1, <3>2, <4>1 DEF Same, Asking, Works
    <3>5. codecs'[k.index].schema = Schema(k.ack) /\ k.req.decls \subseteq Schema(k.ack)
      BY <1>1, <2>2, <2>4, <2>7, <3>2, <3>3, SentDeclares DEF schema
    <3> QED
      BY <1>2, <2>1, <3>2, <3>3, <3>4, <3>5
  <2> QED
    BY <1>1, <2>6, <2>7 DEF Learnt
<1> QED
  BY <1>3, <1>4

LEMMA EveryLearns ==
    ASSUME TypeOK, PinnedWrites, WrittenOnce, NEW c \in Calls, Sends(c),
           Start(c) \/ Step(c) \/ Lose(c), Start(c) \/ Working(c)
    PROVE  Taught(c) /\ Learnt(c)
<1>1. CASE Acquire(c)
  <2>1. pc'[c] # "done"
    BY <1>1 DEF Acquire, Goto, TypeOK
  <2>2. codecs' = codecs \/ Asking(c, codecs, codecs')
    BY <1>1, AskingSo DEF Acquire
  <2> QED
    BY <2>1, <2>2 DEF Taught, Learnt, Asking
<1>2. CASE GotDescription(c) \/ Deleted(c)
  <2>1. call[c].req.kind # "index" /\ codecs' = codecs
    BY <1>2 DEF GotDescription, Deleted, WrittenOnce, Accounted
  <2> QED
    BY <2>1 DEF Taught, Learnt
<1>3. CASE Resolved(c)
  BY <1>3, ResolvedLearns DEF Start, Resolved
<1>4. CASE GotMeta(c)
  BY <1>4, GotMetaLearns DEF Start, GotMeta
<1>5. CASE Acked(c)
  BY <1>5, AckedLearns DEF Start, Acked
<1>6. CASE Start(c) \/ ServeGet(c) \/ ServeDelete(c)
  <2>1. codecs' = codecs /\ pc'[c] # "done"
    BY <1>6 DEF Start, Entry, ServeGet, ServeDelete, Goto, TypeOK
  <2> QED
    BY <2>1 DEF Taught, Learnt
<1>7. CASE Baseline(c) \/ GotBaseline(c) \/ ServePut(c)
  <2>1. codecs' = codecs /\ pc'[c] # "done"
    BY <1>7, BaselineAside, PutAside DEF Baseline, GotBaseline, ServePut
  <2> QED
    BY <2>1 DEF Taught, Learnt
<1>8. CASE Conflict(c) \/ Lose(c)
  <2>1. codecs' = codecs /\ (Fail(c) \/ Goto(c, "resolve") \/ Goto(c, "baseline"))
    BY <1>8 DEF Conflict, Lose
  <2>2. pc'[c] # "done"
    BY <2>1 DEF Fail, Finish, Goto, TypeOK
  <2> QED
    BY <2>1, <2>2 DEF Taught, Learnt
<1> QED
  BY <1>1, <1>2, <1>3, <1>4, <1>5, <1>6, <1>7, <1>8 DEF Step

(* What a write sends does not change under way.                           *)
LEMMA SentLasts ==
    ASSUME TypeOK, NEW c \in Calls, Aside(c), NEW d \in Calls,
           call'[d].req = call[d].req, call'[d].codec = call[d].codec,
           call'[d].got = call[d].got, call'[d].gotLens = call[d].gotLens,
           call'[d].base = call[d].base, call'[d].baseLens = call[d].baseLens
    PROVE  Sent(d)' = Sent(d)
<1>1. PICK k \in CallType : k = call[d]
  BY RequestTyped
<1>2. PICK i \in CodecIds, v \in Versions, b \in Versions :
         i = k.codec /\ v = k.got /\ b = k.base
  BY DEF CallType
<1>3. SchemeOf(i)' = SchemeOf(i) /\ Object(v)' = Object(v) /\ Object(b)' = Object(b)
  BY SchemeLasts, Lasting
<1>4. /\ i = call[d].codec /\ i = call'[d].codec
      /\ v = call[d].got /\ v = call'[d].got
      /\ b = call[d].base /\ b = call'[d].base
  BY <1>1, <1>2
<1>5. /\ SchemeOf(call[d].codec)' = SchemeOf(call[d].codec)
      /\ Object(call[d].base)' = Object(call[d].base)
      /\ Fetched(d)' = Fetched(d)
  BY <1>3, <1>4 DEF SchemeOf, Object, Fetched
<1> QED
  BY <1>5 DEF Sent

LEMMA SendsLast ==
    ASSUME TypeOK, PinnedWrites, NEW c \in Calls, Start(c) \/ Step(c) \/ Lose(c),
           \A d \in Calls : Sends(d)
    PROVE  \A d \in Calls : Sends(d)'
<1>1. Aside(c)
  BY EveryAside
<1>2. ASSUME NEW d \in Calls \ {c}
      PROVE  Sends(d)'
  <2>1. pc'[d] = pc[d] /\ call'[d] = call[d]
    BY <1>1 DEF Aside, Others
  <2>2. Sent(d)' = Sent(d)
    BY <1>1, <2>1, SentLasts
  <2>3. PICK v \in Versions : v = call[d].ack
    BY RequestTyped DEF CallType
  <2>4. Schema(v)' = Schema(v)
    BY <1>1, SchemaLasts
  <2> QED
    BY <2>1, <2>2, <2>3, <2>4 DEF Sends, Schema, Object
<1>3. ASSUME pc'[c] = "acked", ~IsConfiguration(call'[c].req.kind)
      PROVE  Sent(c)'.schema = Schema(call[c].ack)'
  <2>1. Wrote(c)
    BY <1>1, <1>3 DEF Aside
  <2>2. PICK k \in CallType : k = call[c]
    BY RequestTyped
  <2>3. call'[c] = [k EXCEPT !.ack = stored']
    BY <2>1, <2>2 DEF Wrote, TypeOK
  <2>4. PICK n : n = stored'
    OBVIOUS
  <2>5. /\ call'[c].req = k.req /\ call'[c].codec = k.codec /\ call'[c].ack = n
        /\ call'[c].got = k.got /\ call'[c].gotLens = k.gotLens
        /\ call'[c].base = k.base /\ call'[c].baseLens = k.baseLens
    BY <2>3, <2>4 DEF CallType
  <2>6. Sent(c)' = Sent(c)
    BY <1>1, <2>2, <2>5, SentLasts
  <2>7. n = Len(hist) + 1 /\ Len(hist) \in Nat /\ hist'[n] = [object |-> Body(c), by |-> c]
    BY <1>1, <2>1, <2>4, Lasting DEF Wrote
  <2>8. Body(c) = Annotated(Object(k.base), SchemeOf(k.codec), Sent(c))
    BY <1>3, <2>2, <2>5 DEF Body, IsConfiguration
  <2>9. Body(c).custom.schema = Sent(c).schema
    <3>1. Sent(c) \in Custom /\ Object(k.base) \in Objects
      <4>1. k.base \in Versions
        BY DEF CallType
      <4> QED
        BY <4>1, BodyTyped, ObjectTyped
    <3> QED
      BY <2>8, <3>1 DEF Annotated, Custom, Objects
  <2>10. Schema(call[c].ack)' = Body(c).custom.schema
    BY <2>5, <2>7 DEF Schema, Object
  <2> QED
    BY <2>6, <2>9, <2>10
<1> QED
  BY <1>2, <1>3 DEF Sends

(* Declarations in force on a handle stay so: whatever its calls read,     *)
(* wrote or resolved since has them.                                       *)
LEMMA InForceLasts ==
    ASSUME TypeOK, PinnedWrites, WrittenOnce, Orderly, NobodyDeletes, Grown, Own,
           NEW c \in Calls, Start(c) \/ Step(c) \/ Lose(c), Taught(c),
           NEW h \in Handles, NEW declared, InForce(h, declared)
    PROVE  InForce(h, declared)'
<1>1. Aside(c) /\ Handle(c) \in Handles
  BY EveryAside, HandleTyped
<1>2. h \in Readers /\ declared \subseteq Schema(stored)'
  BY GrownLasts DEF InForce
<1>3. \A v \in Versions : Handle(c) = h /\ Known(c, v) => declared \subseteq Schema(v)
  BY DEF InForce, Known, Sees, Reflects
<1>4. ASSUME memo'[h] # Unresolved
      PROVE  Reflects(memo[h], declared)'
  <2>1. PICK j : j = memo'[h]
    OBVIOUS
  <2>2. CASE j = memo[h]
    <3>1. j \in 1 .. Len(codecs) /\ codecs \in Seq(CodecType)
      BY <1>4, <2>1, <2>2 DEF TypeOK, CodecIds, Unresolved
    <3>2. PICK v \in Versions : v = codecs[j].version
      <4>1. codecs[j] \in CodecType
        BY <3>1
      <4> QED
        BY <4>1 DEF CodecType
    <3>3. /\ codecs'[j].version = v /\ codecs'[j].state = codecs[j].state
          /\ codecs'[j].snapshot => codecs[j].snapshot
      BY <1>1, <3>1, <3>2 DEF Aside, Same, Asking
    <3>4. Reflects(j, declared)
      BY <1>4, <2>1, <2>2 DEF InForce
    <3>5. Schema(v)' = Schema(v)
      BY <1>1, SchemaLasts
    <3>6. codecs[j].state = "ready" => declared \subseteq codecs'[j].schema
      <4>1. CASE codecs'[j].schema = codecs[j].schema
        BY <3>4, <4>1 DEF Reflects
      <4>2. CASE codecs'[j].schema # codecs[j].schema
        <5>1. /\ j = memo[Handle(c)]
              /\ \E w \in Versions : Known(c, w) /\ codecs'[j].schema = Schema(w)
          BY <3>1, <4>2 DEF Taught
        <5>2. Handle(c) = h
          BY <1>1, <1>4, <2>1, <2>2, <5>1 DEF Own
        <5> QED
          BY <1>3, <5>1, <5>2
      <4> QED
        BY <4>1, <4>2
    <3>7. v # 0 /\ (codecs[j].state = "answered" \/ codecs[j].snapshot) => declared \subseteq Schema(v)
      BY <3>2, <3>4 DEF Reflects
    <3> QED
      BY <2>1, <3>3, <3>5, <3>6, <3>7 DEF Reflects, Schema, Object
  <2>3. CASE j # memo[h]
    <3>1. h = Handle(c)
      BY <1>1, <2>1, <2>3 DEF Aside
    <3>2. j = Len(codecs) + 1 /\ Asking(c, codecs, codecs')
      BY <1>4, <2>1, <2>3, <3>1, EveryLedger DEF WrittenOnce, Ledger
    <3> QED
      BY <2>1, <3>2 DEF Asking, Reflects
  <2> QED
    BY <2>2, <2>3
<1>5. ASSUME NEW d \in Calls \ {c}, Handle(d) = h
      PROVE  Sees(d, declared)'
  <2>1. pc'[d] = pc[d] /\ call'[d] = call[d]
    BY <1>1 DEF Aside, Others
  <2>2. PICK v \in Versions, w \in Versions : v = call[d].seen /\ w = call[d].ack
    BY RequestTyped DEF CallType
  <2>3. Schema(v)' = Schema(v) /\ Schema(w)' = Schema(w)
    BY <1>1, SchemaLasts
  <2>4. Sees(d, declared)
    BY <1>5 DEF InForce
  <2> QED
    BY <2>1, <2>2, <2>3, <2>4 DEF Sees, Schema, Object
<1>6. ASSUME Handle(c) = h
      PROVE  Sees(c, declared)'
  <2>1. CASE pc'[c] = "got"
    <3>1. ServeGet(c)
      BY <2>1, ReadAside, BaselineAside, PutAside, EndsAside, FinishAside
      DEF Start, Entry, Step, Lose, Acquire, Resolved, MetaRead, GotDescription, GotMeta,
          ServeDelete, Fail, Finish, Goto, TypeOK
    <3>2. call'[c].seen = stored /\ stored' = stored
      BY <1>2, <1>6, <3>1, RequestTyped DEF ServeGet, Visible, TypeOK, CallType
    <3> QED
      BY <1>2, <2>1, <3>2 DEF Sees, Schema, Object
  <2>2. CASE pc'[c] = "acked"
    <3>1. Wrote(c)
      BY <1>1, <2>2 DEF Aside
    <3>2. call'[c].ack = stored'
      BY <3>1, RequestTyped DEF Wrote, TypeOK, CallType
    <3> QED
      BY <1>2, <2>2, <3>2 DEF Sees, Schema, Object
  <2> QED
    BY <2>1, <2>2 DEF Sees
<1> QED
  BY <1>2, <1>4, <1>5, <1>6 DEF InForce, Handle

(* A declaration that returns is in force.                                 *)
LEMMA ReturnsInForce ==
    ASSUME TypeOK, PinnedWrites, WrittenOnce, Orderly, NobodyDeletes, Grown, Own,
           NEW c \in Calls, Start(c) \/ Step(c) \/ Lose(c),
           \A d \in Calls \ {c} : Handle(d) = Handle(c) => Finished(d),
           Learnt(c), pc'[c] = "done", call[c].req.kind = "index"
    PROVE  InForce(Handle(c), call[c].req.decls)'
<1>0. PICK decls : decls = call[c].req.decls
  OBVIOUS
<1>1. PICK h \in Handles : h = Handle(c)
  BY HandleTyped
<1>2. Aside(c)
  BY EveryAside
<1>3. PICK j \in 1 .. Len(codecs), v \in Versions :
         /\ j = memo[h] /\ memo' = memo /\ SchemeOf(j) = "edv"
         /\ codecs'[j].state = "ready" /\ ~codecs'[j].snapshot
         /\ codecs'[j].schema = Schema(v) /\ decls \subseteq Schema(v)
  BY <1>0, <1>1 DEF Learnt
<1>4. h \in Readers
  <2>1. j \in DOMAIN codecs /\ j # Unresolved
    BY DEF TypeOK, Unresolved
  <2>2. codecs[j].version # 0
    BY <1>3, <2>1 DEF SchemeOf, Object, Blank
  <2> QED
    BY <1>3, <2>1, <2>2 DEF Own
<1>5. decls \subseteq Schema(stored)'
  <2>1. Schema(stored) \subseteq Schema(stored)'
    BY GrownLasts
  <2>2. CASE v = 0
    BY <1>3, <2>2 DEF Schema, Object, Blank, NoCustom
  <2>3. CASE v # 0
    <3>1. Len(hist) \in Nat
      BY DEF TypeOK
    <3>2. v \in Past /\ stored \in Past /\ v <= stored
      BY <2>3, <3>1 DEF Versions, Past, Grown
    <3> QED
      BY <1>3, <2>1, <3>2 DEF Grown
  <2> QED
    BY <2>2, <2>3
<1>6. memo'[h] = j /\ Reflects(j, decls)'
  BY <1>3 DEF Reflects
<1>7. ASSUME NEW d \in Calls, Handle(d) = h
      PROVE  Sees(d, decls)'
  <2>1. d # c => pc'[d] = pc[d] /\ Finished(d)
    BY <1>1, <1>2, <1>7 DEF Aside, Others
  <2> QED
    BY <2>1 DEF Finished, Sees
<1>8. InForce(h, decls)'
  BY <1>4, <1>5, <1>6, <1>7 DEF InForce, Handle, Reflects
<1>9. PICK req : req = call'[c].req
  OBVIOUS
<1>10. req = call[c].req
  <2>1. pc[c] # "idle"
    <3>1. CASE Start(c)
      BY <3>1 DEF Start, Entry, Goto, TypeOK
    <3> QED
      BY <3>1, Underway DEF Finished
  <2> QED
    BY <1>9, <2>1, EveryLedger DEF WrittenOnce, Ledger
<1> QED
  BY <1>0, <1>1, <1>8, <1>9, <1>10 DEF Handle, InForce, Sees, Reflects, Schema, Object

LEMMA CallSearchable ==
    ASSUME TypeOK, PinnedWrites, WrittenOnce, Orderly, ~Overlapping, NobodyDeletes, Searchable,
           NEW c \in Calls, Start(c) \/ Step(c) \/ Lose(c)
    PROVE  Searchable'
<1>1. Aside(c)
  BY EveryAside
<1>2. Grown' /\ Own' /\ \A d \in Calls : Sends(d)'
  BY GrownLasts, OwnLasts, SendsLast DEF Searchable
<1>3. Start(c) \/ Working(c)
  BY Underway DEF Orderly
<1>4. Taught(c) /\ Learnt(c)
  BY <1>3, EveryLearns DEF Searchable
<1>5. \A h \in Handles : \A declared : InForce(h, declared) => InForce(h, declared)'
  BY <1>4, InForceLasts DEF Searchable
<1>6. ASSUME NEW d \in Calls \ {c}
      PROVE  Declared(d)'
  <2>1. pc'[d] = pc[d] /\ call'[d] = call[d]
    BY <1>1 DEF Aside, Others
  <2>2. PICK h \in Handles : h = Handle(d)
    BY HandleTyped
  <2>5. PICK declared : declared = call[d].req.decls
    OBVIOUS
  <2>3. pc[d] = "done" /\ call[d].req.kind = "index" => InForce(h, declared)
    BY <2>2, <2>5 DEF Searchable, Declared, Returned
  <2>4. pc[d] = "done" /\ call[d].req.kind = "index" => InForce(h, declared)'
    BY <1>5, <2>3
  <2> QED
    BY <2>1, <2>2, <2>4, <2>5 DEF Declared, Returned, InForce, Sees, Reflects, Schema, Object, Handle
<1>7. Declared(c)'
  <2>1. \A d \in Calls \ {c} : Handle(d) = Handle(c) => Finished(d)
    <3>1. CASE Start(c)
      BY <3>1 DEF Start
    <3> QED
      BY <3>1, Underway DEF Orderly, Alone
  <2>2. pc[c] # "idle" => call'[c].req = call[c].req
    BY EveryLedger DEF WrittenOnce, Ledger
  <2>3. pc[c] = "idle" => pc'[c] # "done"
    <3>1. CASE Start(c)
      BY <3>1 DEF Start, Entry, Goto, TypeOK
    <3> QED
      BY <3>1, Underway DEF Finished
  <2>4. ASSUME pc'[c] = "done", call'[c].req.kind = "index"
        PROVE  InForce(Handle(c), call[c].req.decls)'
    BY <1>4, <2>1, <2>2, <2>3, <2>4, ReturnsInForce DEF Searchable
  <2> QED
    BY <2>4 DEF Declared, Returned
<1> QED
  BY <1>2, <1>6, <1>7 DEF Searchable

(* A resolution that settles answers its handle with what is stored, or    *)
(* teaches the codec the schema of the object it was resolved from.        *)
LEMMA ResolutionSearchable ==
    ASSUME TypeOK, Orderly, Searchable, NEW i \in DOMAIN codecs, Settles(i)
    PROVE  Searchable'
<1>1. /\ codecs \in Seq(CodecType) /\ i \in 1 .. Len(codecs) /\ Len(codecs) \in Nat
      /\ memo \in [Handles -> CodecIds] /\ DOMAIN codecs = 1 .. Len(codecs)
  BY DEF TypeOK
<1>2. UNCHANGED <<hist, stored, recent, pc, call>> /\ DOMAIN codecs' = DOMAIN codecs
  BY DEF Settles
<1>3. \A j \in 1 .. Len(codecs) : j # i => codecs'[j] = codecs[j]
  BY DEF Settles
<1>4. \A v : Schema(v)' = Schema(v)
  BY <1>2 DEF Schema, Object
<1>5. Grown'
  BY <1>2, <1>4 DEF Searchable, Grown, Past
<1>6. Own'
  <2>1. \A h \in Handles : memo'[h] # Unresolved => memo'[h] = memo[h] /\ memo[h] \in 1 .. Len(codecs)
    BY <1>1 DEF Settles, CodecIds, Unresolved
  <2>2. codecs'[i].handle = codecs[i].handle
    BY DEF Settles
  <2>3. codecs'[i].version # 0 => codecs[i].handle \in Readers
    BY DEF Settles, Searchable, Own
  <2> QED
    BY <1>1, <1>2, <1>3, <2>1, <2>2, <2>3 DEF Searchable, Own
<1>7. ASSUME NEW d \in Calls
      PROVE  Sends(d)'
  <2>1. SUFFICES ASSUME pc[d] = "acked", ~IsConfiguration(call[d].req.kind)
                 PROVE  Sent(d)'.schema = Schema(call[d].ack)
    BY <1>2, <1>4 DEF Sends, Schema, Object
  <2>2. Sent(d).schema = Schema(call[d].ack)
    BY <2>1 DEF Searchable, Sends
  <2>3. PICK j \in CodecIds : j = call[d].codec
    BY RequestTyped DEF CallType
  <2>4. SchemeOf(j)' = SchemeOf(j)
    <3>1. j # Unresolved => codecs[j].state = "ready" /\ j \in 1 .. Len(codecs)
      BY <2>1, <2>3 DEF Orderly, Finished, Working, Coded, Works, CodecIds, Unresolved
    <3>2. codecs[i].state # "ready"
      BY DEF Settles
    <3> QED
      BY <1>2, <1>3, <3>1, <3>2 DEF SchemeOf, Object
  <2>5. Sent(d)' = Sent(d)
    <3>1. SchemeOf(call[d].codec)' = SchemeOf(call[d].codec) /\ Fetched(d)' = Fetched(d)
      BY <1>2, <2>3, <2>4 DEF SchemeOf, Fetched, Object
    <3> QED
      BY <1>2, <3>1 DEF Sent, Object
  <2> QED
    BY <2>2, <2>5
<1>8. ASSUME NEW h \in Handles, NEW declared, InForce(h, declared)
      PROVE  InForce(h, declared)'
  <2>1. ASSUME memo'[h] # Unresolved
        PROVE  Reflects(memo[h], declared)'
    <3>1. PICK j : j = memo[h]
      OBVIOUS
    <3>2. memo'[h] = j /\ j \in 1 .. Len(codecs) /\ Reflects(j, declared) /\ codecs[j].handle = h
      <4>1. memo'[h] = j /\ j # Unresolved
        BY <2>1, <3>1 DEF Settles
      <4>2. j \in 1 .. Len(codecs)
        BY <1>1, <3>1, <4>1 DEF CodecIds, Unresolved
      <4>3. Reflects(j, declared)
        BY <1>8, <3>1, <4>1 DEF InForce
      <4>4. codecs[j].handle = h
        BY <3>1, <4>1 DEF Searchable, Own
      <4> QED
        BY <4>1, <4>2, <4>3, <4>4
    <3>3. CASE j # i
      BY <1>3, <1>4, <3>2, <3>3 DEF Reflects, Schema, Object
    <3>4. CASE j = i /\ codecs[i].state = "asked"
      <4>1. codecs'[i].state = "answered" /\ codecs'[i].version \in {stored, 0}
        BY <3>4 DEF Settles
      <4>2. PICK v : v = codecs'[i].version
        OBVIOUS
      <4>3. v # 0 => declared \subseteq Schema(v)
        BY <1>8, <4>1, <4>2 DEF InForce
      <4>4. v # 0 => declared \subseteq Schema(v)'
        BY <1>4, <4>3
      <4> QED
        BY <3>2, <3>4, <4>1, <4>2, <4>4 DEF Reflects, Schema, Object
    <3>5. CASE j = i /\ codecs[i].state = "answered" /\ codecs'[i].state = "ready"
      <4>1. PICK o : o = Object(codecs[i].version)
        OBVIOUS
      <4>2. /\ codecs'[i].version = codecs[i].version /\ codecs[i].version # 0
            /\ codecs'[i].schema = IF o.enc = "edv" THEN StoredSchema("edv", o.custom) ELSE {}
        BY <3>5, <4>1 DEF Settles
      <4>3. declared \subseteq Schema(codecs[i].version) /\ declared \subseteq o.custom.schema
        BY <3>2, <3>5, <4>1, <4>2 DEF Reflects, Schema
      <4>4. o \in Objects /\ Sound(o)
        <5>1. codecs[i] \in CodecType
          BY <1>1
        <5>2. codecs[i].version \in Past /\ codecs[i].version \in Versions
          BY <4>2, <5>1 DEF CodecType, Versions, Past, TypeOK
        <5> QED
          BY <4>1, <4>2, <5>2, ObjectTyped DEF Orderly, Object
      <4>5. CASE o.enc = "edv"
        <5>1. codecs'[i].schema = o.custom.schema
          BY <4>2, <4>4, <4>5, OpensOwn
        <5> QED
          BY <1>4, <3>2, <3>5, <4>2, <4>3, <5>1 DEF Reflects, Schema, Object
      <4>6. CASE o.enc # "edv"
        <5>1. o.custom.schema = {} /\ declared = {}
          BY <4>3, <4>4, <4>6 DEF Sound, None
        <5> QED
          BY <3>2, <3>5, <5>1 DEF Reflects
      <4> QED
        BY <4>5, <4>6
    <3>6. ~(j = i /\ codecs'[i].state = "failed")
      BY <3>2 DEF Settles
    <3> QED
      BY <3>3, <3>4, <3>5, <3>6 DEF Settles
  <2>2. \A d \in Calls : Handle(d) = h => Sees(d, declared)'
    BY <1>2, <1>4, <1>8 DEF InForce, Sees, Schema, Object, Handle
  <2> QED
    BY <1>2, <1>4, <1>8, <2>1, <2>2 DEF InForce, Schema, Object, Handle
<1>9. ASSUME NEW d \in Calls
      PROVE  Declared(d)'
  <2>1. PICK h \in Handles : h = Handle(d)
    BY HandleTyped
  <2>2. PICK declared : declared = call[d].req.decls /\ declared = call'[d].req.decls
    BY <1>2
  <2>3. pc[d] = "done" /\ call[d].req.kind = "index" => InForce(h, declared)'
    BY <1>8, <2>1, <2>2 DEF Searchable, Declared, Returned
  <2> QED
    BY <1>2, <2>1, <2>2, <2>3 DEF Declared, Returned, InForce, Sees, Reflects, Schema, Object, Handle
<1> QED
  BY <1>5, <1>6, <1>7, <1>9 DEF Searchable

LEMMA InitSearchable == Init => Searchable
<1> SUFFICES ASSUME Init PROVE Searchable
  OBVIOUS
<1>1. /\ memo = [h \in Handles |-> Unresolved] /\ codecs = <<>>
      /\ pc = [c \in Calls |-> "idle"]
      /\ \/ Len(hist) = 0 /\ stored = 0
         \/ Len(hist) = 1 /\ stored = 1
  BY DEF Init
<1>2. Grown
  <2>1. \A v, w \in Past : v = w
    <3>1. CASE Len(hist) = 0
      BY <3>1 DEF Past
    <3>2. CASE Len(hist) = 1
      <4>1. Past = {1}
        BY <3>2 DEF Past
      <4> QED
        BY <4>1
    <3> QED
      BY <1>1, <3>1, <3>2
  <2> QED
    BY <1>1, <2>1 DEF Grown
<1>3. Own /\ \A c \in Calls : Sends(c) /\ Declared(c)
  BY <1>1 DEF Own, Sends, Declared, Returned
<1> QED
  BY <1>2, <1>3 DEF Searchable

LEMMA NextSearchable ==
    ASSUME TypeOK, PinnedWrites, WrittenOnce, Orderly, ~Overlapping, NobodyDeletes, Searchable,
           [Next]_vars
    PROVE  Searchable'
<1>1. CASE UNCHANGED vars
  <2>1. UNCHANGED <<hist, stored, recent, memo, codecs, pc, call>>
    BY <1>1 DEF vars
  <2>2. \A v : Schema(v)' = Schema(v)
    BY <2>1 DEF Schema, Object
  <2>3. Grown' /\ Own'
    BY <2>1, <2>2 DEF Searchable, Grown, Past, Own
  <2>4. ASSUME NEW c \in Calls
        PROVE  Sends(c)'
    <3>1. Sent(c)' = Sent(c)
      BY <2>1 DEF Sent, SchemeOf, Fetched, Object
    <3> QED
      BY <2>1, <3>1 DEF Searchable, Sends, Schema, Object
  <2>5. ASSUME NEW c \in Calls
        PROVE  Declared(c)'
    BY <2>1 DEF Searchable, Declared, Returned, InForce, Sees, Reflects, Schema, Object, Handle
  <2> QED
    BY <2>3, <2>4, <2>5 DEF Searchable
<1>2. CASE \E c \in Calls : Start(c) \/ Step(c) \/ Lose(c)
  BY <1>2, CallSearchable
<1>3. CASE Resolution
  BY <1>3, ResolutionSettles, ResolutionSearchable DEF Resolution
<1> QED
  BY <1>1, <1>2, <1>3 DEF Next, Quiet

(* declareIndexes updates the persisted schema and this handle's codec     *)
(* together (Collection.ts): however other clients' declarations, renames  *)
(* and configuration writes race with it, a declaration that returned can  *)
(* be searched by on its handle for as long as the handle makes one call   *)
(* at a time and nobody deletes the Collection.                            *)
THEOREM IndexesStay ==
    ASSUME ~Overlapping, NobodyDeletes
    PROVE  Spec => []IndexesHold
<1>1. Init => TypeOK /\ PinnedWrites /\ WrittenOnce /\ Orderly /\ Searchable
  BY InitTyped, InitPinned, InitWrittenOnce, InitOrderly, InitSearchable
<1>2. TypeOK /\ PinnedWrites /\ WrittenOnce /\ Orderly /\ Searchable /\ [Next]_vars
      => (TypeOK /\ PinnedWrites /\ WrittenOnce /\ Orderly /\ Searchable)'
  BY NextTyped, NextPinned, NextWrittenOnce, NextOrderly, NextSearchable
<1>3. Searchable => DeclaredIsSearchable
  <2> SUFFICES ASSUME Searchable, NEW c \in Calls, Returned(c), call[c].req.kind = "index",
                      NEW i \in Held(Handle(c))
               PROVE  call[c].req.decls \subseteq codecs[i].schema
    BY DEF DeclaredIsSearchable
  <2>1. i = memo[Handle(c)] /\ i # Unresolved /\ codecs[i].state = "ready"
    BY DEF Held
  <2> QED
    BY <2>1 DEF Searchable, Declared, InForce, Reflects
<1>4. Spec => []DeclaredIsSearchable
  BY <1>1, <1>2, <1>3, PTL DEF Spec
<1> QED
  BY <1>4, SchemaSettled, PTL DEF IndexesHold
=============================================================================
