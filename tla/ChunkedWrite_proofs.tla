------------------------ MODULE ChunkedWrite_proofs ------------------------
(***************************************************************************)
(* Proofs about ChunkedWrite, for every set of calls and requests, every   *)
(* number of chunks and of reap workers.                                   *)
(***************************************************************************)
EXTENDS ChunkedWrite, FiniteSetTheorems, TLAPS

AllRequests == (UNION {RequestsOf[c] : c \in Calls}) \union {NoRequest}

DocType == [version : 0 .. stamps, state : States, by : Storers, count : 0 .. MaxChunks]

(* What a call relies on, beyond its types: the chunk it stores or fetches *)
(* next is one of its payload's, the first one at first, and the version   *)
(* it names in a later request is its own stub or gone for good.           *)
InPayload(c) ==
    /\ pc[c] = "store" => call[c].next < call[c].req.size
    /\ pc[c] = "fetch" => call[c].next < call[c].seen.count
    /\ pc[c] \in {"preread", "first", "read"} => call[c].next = 0

Anchored(c) ==
    LET k == call[c]
    IN /\ pc[c] = "first" =>
            /\ k.req.absent => k.prior = 0
            /\ k.req.pinned /\ ServesEtag => k.prior = k.pin
       /\ pc[c] \in {"store", "final", "cleanup"} =>
            /\ k.written # 0
            /\ doc.version = k.written => doc.by = c /\ doc.state = "pending"

Versioned == doc.version = 0 <=> doc.state = "absent"

IInv == /\ TypeOK /\ Versioned
        /\ \A c \in Calls : InPayload(c) /\ Anchored(c)

(* The steps of a call leave the other calls alone, and the versions the   *)
(* server issues are new.                                                  *)
Others(c) == \A d \in Calls \ {c} : pc'[d] = pc[d] /\ call'[d] = call[d]

ServerKept ==
    /\ stamps' \in {stamps, stamps + 1}
    /\ doc' \in DocType' /\ Versioned'
    /\ doc' = doc \/ doc'.version \in {0, stamps + 1}
    /\ chunks' \in [Indices -> Storers] /\ overlapped' \subseteq Calls

CallKept(c) ==
    /\ pc' \in [Calls -> Labels] /\ call' \in [Calls -> CallType']
    /\ Others(c) /\ InPayload(c)' /\ Anchored(c)'
-----------------------------------------------------------------------------
(* Types of the vocabulary.                                                *)

(* A call's locals, and what it was asked, are typed.                      *)
LEMMA CallTyped ==
    ASSUME TypeOK, NEW c \in Calls
    PROVE  /\ call[c] \in CallType /\ pc[c] \in Labels
           /\ call[c].req \in AllRequests /\ call[c].req \in RequestType
<1>1. NoRequest \in RequestType
  BY ChunksPositive DEF ChunksPositive, NoRequest, RequestType
<1>2. AllRequests \subseteq RequestType
  <2>1. \A d \in Calls : RequestsOf[d] \subseteq RequestType
    BY RequestsAdmissible DEF RequestsAdmissible
  <2> QED
    BY <1>1, <2>1 DEF AllRequests
<1>3. call[c] \in CallType /\ pc[c] \in Labels
  BY DEF TypeOK
<1>4. call[c].req \in AllRequests
  BY <1>3 DEF CallType, AllRequests
<1> QED
  BY <1>2, <1>3, <1>4

(* Issuing versions only widens the types.                                 *)
LEMMA Widened ==
    ASSUME TypeOK, stamps' \in {stamps, stamps + 1}
    PROVE  /\ \A k \in CallType : k \in CallType'
           /\ \A d \in DocType : d \in DocType'
<1>1. stamps \in Nat /\ 0 .. stamps \subseteq (0 .. stamps)'
  BY DEF TypeOK
<1> QED
  BY <1>1 DEF CallType, DocType

(* No document, and no chunks.                                             *)
LEMMA AbsentTyped ==
    ASSUME TypeOK
    PROVE  Absent \in DocType /\ NoChunks \in [Indices -> Storers]
<1>1. 0 \in 0 .. stamps /\ 0 \in 0 .. MaxChunks
  BY ChunksPositive DEF ChunksPositive, TypeOK
<1> QED
  BY <1>1 DEF Absent, NoChunks, DocType, States, Storers

(* Fresh locals.                                                           *)
LEMMA LocalsTyped ==
    ASSUME TypeOK, NEW req \in AllRequests, NEW pin \in 0 .. stamps
    PROVE  Locals(req, pin) \in CallType
<1>1. 0 \in 0 .. stamps /\ 0 \in 0 .. MaxChunks /\ 0 \in 0 .. ReapConcurrency
  BY ChunksPositive DEF ChunksPositive, TypeOK
<1>2. Absent \in DocType /\ NoChunks \in [Indices -> Storers]
  BY AbsentTyped
<1> QED
  BY <1>1, <1>2 DEF Locals, CallType, AllRequests, DocType, Outcomes

(* The locals of a call that ends.                                         *)
LEMMA EndedTyped ==
    ASSUME TypeOK, NEW c \in Calls, NEW outcome \in Outcomes
    PROVE  Ended(c, outcome) \in CallType
<1>1. call[c] \in CallType /\ call[c].req \in AllRequests
  BY CallTyped
<1>2. 0 \in 0 .. stamps
  BY DEF TypeOK
<1>3. Locals(call[c].req, 0) \in CallType
  BY <1>1, <1>2, LocalsTyped
<1> QED
  BY <1>1, <1>3 DEF Ended, CallType

(* The error of a failed request is one of the outcomes.                   *)
LEMMA ErrorTyped ==
    ASSUME NEW c \in Calls
    PROVE  ErrorOf(c) \in Outcomes
  BY DEF ErrorOf, Outcomes

(* Doubt about a lost answer changes nothing else.                         *)
LEMMA DoubtTyped ==
    ASSUME NEW k \in CallType, NEW doubt \in BOOLEAN
    PROVE  /\ [k EXCEPT !.unsure = doubt] \in CallType
           /\ [k EXCEPT !.unsure = doubt].written = k.written
  BY DEF CallType

-----------------------------------------------------------------------------
(* Ways a step ends.                                                       *)

(* A call that returns or throws keeps its types and relies on nothing.    *)
LEMMA EndKept ==
    ASSUME TypeOK, NEW c \in Calls, stamps' \in {stamps, stamps + 1},
           NEW label \in {"returned", "thrown", "crashed"},
           NEW k \in CallType, Goto(c, label), call' = [call EXCEPT ![c] = k]
    PROVE  CallKept(c)
<1>1. k \in CallType' /\ \A d \in Calls : call[d] \in CallType'
  BY Widened, CallTyped
<1>2. call' \in [Calls -> CallType'] /\ Others(c)
  BY <1>1 DEF TypeOK, Goto, Others
<1>3. pc' \in [Calls -> Labels] /\ pc'[c] = label
  BY DEF TypeOK, Goto, Labels
<1> QED
  BY <1>2, <1>3 DEF CallKept, InPayload, Anchored

(* Return and Throw are such ends.                                         *)
LEMMA ReturnKept ==
    ASSUME TypeOK, NEW c \in Calls, stamps' \in {stamps, stamps + 1},
           NEW outcome \in Outcomes, Return(c, outcome) \/ Throw(c, outcome)
    PROVE  CallKept(c)
<1>1. Ended(c, outcome) \in CallType
  BY EndedTyped
<1> QED
  BY <1>1, EndKept DEF Return, Throw

(* A failed request: the stub's version survives into the cleanup.         *)
LEMMA FailingKept ==
    ASSUME TypeOK, NEW c \in Calls, stamps' \in {stamps, stamps + 1},
           NEW unsure \in BOOLEAN, Failing(c, unsure),
           pc[c] \in {"store", "final", "cleanup"} => Anchored(c),
           doc' = doc \/ doc'.version \in {0, stamps + 1}
    PROVE  CallKept(c)
<1>1. call[c] \in CallType /\ \A d \in Calls : call[d] \in CallType'
  BY Widened, CallTyped
<1> DEFINE doubt == unsure \/ call[c].unsure
           cleans == pc[c] \in {"store", "final"} /\ call[c].prior = 0
<1>2. doubt \in BOOLEAN
  BY <1>1 DEF CallType
<1>3. CASE ~cleans
  <2>1. Ended(c, ErrorOf(c)) \in CallType
    BY EndedTyped, ErrorTyped
  <2> HIDE DEF doubt
  <2>2. [Ended(c, ErrorOf(c)) EXCEPT !.unsure = doubt] \in CallType
    BY <1>2, <2>1, DoubtTyped
  <2>3. /\ Goto(c, "thrown")
        /\ call' = [call EXCEPT ![c] = [Ended(c, ErrorOf(c)) EXCEPT !.unsure = doubt]]
    BY <1>3, Zenon DEF Failing, doubt
  <2> QED
    BY <2>2, <2>3, EndKept
<1>4. CASE cleans
  <2>1. /\ Goto(c, "cleanup")
        /\ call' = [call EXCEPT ![c] = [call[c] EXCEPT !.unsure = doubt]]
    BY <1>4, Zenon DEF Failing
  <2> HIDE DEF doubt
  <2>2. /\ [call[c] EXCEPT !.unsure = doubt] \in CallType
        /\ [call[c] EXCEPT !.unsure = doubt].written = call[c].written
    BY <1>1, <1>2, DoubtTyped
  <2> DEFINE k == [call[c] EXCEPT !.unsure = doubt]
  <2> HIDE DEF k
  <2>3. call' \in [Calls -> CallType'] /\ Others(c)
    <3>1. call' = [call EXCEPT ![c] = k] /\ k \in CallType'
      BY <2>1, <2>2, Widened DEF k
    <3> QED
      BY <1>1, <2>1, <3>1 DEF TypeOK, Goto, Others
  <2>4. pc' \in [Calls -> Labels] /\ pc'[c] = "cleanup" /\ call'[c].written = call[c].written
    <3>1. call' = [call EXCEPT ![c] = k] /\ k.written = call[c].written
      BY <2>1, <2>2 DEF k
    <3> QED
      BY <2>1, <3>1 DEF TypeOK, Goto, Labels
  <2>5. call[c].written \in 0 .. stamps /\ stamps \in Nat
    BY <1>1 DEF CallType, TypeOK
  <2>6. Anchored(c)'
    BY <1>4, <2>4, <2>5 DEF Anchored
  <2> QED
    BY <2>3, <2>4, <2>6 DEF CallKept, InPayload
<1> QED
  BY <1>3, <1>4
(* A request that changes nothing at the server.                           *)
LEMMA SameServer ==
    ASSUME TypeOK, Versioned, UNCHANGED <<doc, chunks, stamps>>,
           overlapped' \subseteq Calls
    PROVE  ServerKept
  BY DEF ServerKept, TypeOK, Versioned, DocType

(* A step to a label at which a call relies on its types only.             *)
LEMMA GoKept ==
    ASSUME TypeOK, NEW c \in Calls, stamps' \in {stamps, stamps + 1},
           NEW label \in {"returned", "thrown", "list", "reap", "delete"},
           Goto(c, label), NEW k \in CallType', call' = [call EXCEPT ![c] = k]
    PROVE  CallKept(c)
<1>1. \A d \in Calls : call[d] \in CallType'
  BY Widened, CallTyped
<1>2. call' \in [Calls -> CallType'] /\ Others(c)
  BY <1>1 DEF TypeOK, Goto, Others
<1>3. pc' \in [Calls -> Labels] /\ pc'[c] = label
  BY DEF TypeOK, Goto, Labels
<1> QED
  BY <1>2, <1>3 DEF CallKept, InPayload, Anchored
-----------------------------------------------------------------------------
(* One lemma per step of a call.                                           *)

(* A call starts with fresh locals.                                        *)
LEMMA StartKept ==
    ASSUME TypeOK, Versioned, NEW c \in Calls, Start(c)
    PROVE  CallKept(c) /\ ServerKept
<1>0. PICK req \in RequestsOf[c] : \E pin \in Quotable(req) :
         /\ Goto(c, Entry(req))
         /\ call' = [call EXCEPT ![c] = Locals(req, pin)]
         /\ overlapped' = overlapped \union Overlaps(c, req)
  BY DEF Start
<1>1. PICK pin \in Quotable(req) :
         /\ Goto(c, Entry(req))
         /\ call' = [call EXCEPT ![c] = Locals(req, pin)]
         /\ overlapped' = overlapped \union Overlaps(c, req)
  BY <1>0
<1>2. stamps' = stamps /\ UNCHANGED <<doc, chunks, stamps>>
  BY DEF Start
<1>3. req \in AllRequests /\ pin \in 0 .. stamps
  BY DEF Quotable, TypeOK, AllRequests
<1>4. Locals(req, pin) \in CallType' /\ \A d \in Calls : call[d] \in CallType'
  BY <1>2, <1>3, LocalsTyped, Widened, CallTyped
<1>5. Entry(req) \in {"preread", "delete", "read"}
  BY DEF Entry
<1>6. overlapped' \subseteq Calls
  BY <1>1 DEF Overlaps, TypeOK
<1>7. call' \in [Calls -> CallType'] /\ Others(c) /\ call'[c].next = 0
  BY <1>1, <1>4 DEF TypeOK, Goto, Others, Locals
<1>8. pc' \in [Calls -> Labels] /\ pc'[c] = Entry(req)
  BY <1>1, <1>5 DEF TypeOK, Goto, Labels
<1>9. CallKept(c)
  BY <1>5, <1>7, <1>8 DEF CallKept, InPayload, Anchored
<1> QED
  BY <1>2, <1>6, <1>9, SameServer

(* What a pre-read admits: nothing under ifNoneMatch, the pin under        *)
(* ifMatch.                                                                *)
LEMMA PreReadKept ==
    ASSUME TypeOK, Versioned, NEW c \in Calls, InPayload(c), PreRead(c)
    PROVE  CallKept(c) /\ ServerKept
<1> DEFINE d == Answered(c)
<1>1. UNCHANGED <<doc, chunks, stamps, overlapped>> /\ stamps' = stamps
  BY DEF PreRead
<1>2. ServerKept
  BY <1>1, SameServer DEF TypeOK
<1>3. d \in DocType /\ (d.version = 0 <=> d.state = "absent")
  BY AbsentTyped DEF Answered, TypeOK, DocType, Versioned, Absent
<1>4. CASE RefusedByPreRead(call[c].req, call[c].pin, d)
  BY <1>1, <1>2, <1>4, ReturnKept DEF PreRead, Outcomes
<1>5. CASE ~RefusedByPreRead(call[c].req, call[c].pin, d)
  <2> DEFINE k == [call[c] EXCEPT !.prior = d.version, !.priorChunked = Chunked(d)]
  <2>1. Goto(c, "first") /\ call' = [call EXCEPT ![c] = k]
    BY <1>5 DEF PreRead
  <2>2. call[c] \in CallType /\ Chunked(d) \in BOOLEAN /\ d.version \in 0 .. stamps
    BY <1>3, CallTyped DEF DocType, Chunked
  <2>3. /\ k \in CallType
        /\ k.prior = d.version /\ k.req = call[c].req /\ k.pin = call[c].pin
        /\ k.next = call[c].next
    BY <2>2, Zenon DEF CallType
  <2>4. \A e \in Calls : call[e] \in CallType'
    BY <1>1, Widened, CallTyped
  <2>5. k \in CallType'
    BY <1>1, <2>3, Widened
  <2> HIDE DEF k
  <2>6. call' \in [Calls -> CallType'] /\ Others(c) /\ call'[c] = k
    BY <2>1, <2>4, <2>5 DEF TypeOK, Goto, Others
  <2>7. pc' \in [Calls -> Labels] /\ pc'[c] = "first"
    BY <2>1 DEF TypeOK, Goto, Labels
  <2>8. /\ k.req.absent => k.prior = 0
        /\ k.req.pinned /\ ServesEtag => k.prior = k.pin
    BY <1>3, <1>5, <2>3 DEF RefusedByPreRead
  <2>9. k.next = 0
    BY <2>3 DEF PreRead, InPayload
  <2> QED
    BY <1>2, <2>6, <2>7, <2>8, <2>9 DEF CallKept, InPayload, Anchored
<1> QED
  BY <1>4, <1>5
(* A stored document has a new version, and its chunks stay.               *)
LEMMA PutKept ==
    ASSUME TypeOK, NEW c \in Calls, NEW state \in States \ {"absent"},
           NEW count \in 0 .. MaxChunks, PutDocument(c, state, count),
           UNCHANGED <<chunks, overlapped>>
    PROVE  /\ ServerKept /\ stamps' = stamps + 1
           /\ doc'.version = stamps + 1 /\ doc'.by = c /\ doc'.state = state
<1>1. stamps \in Nat /\ stamps' = stamps + 1 /\ stamps + 1 \in (0 .. stamps)'
  BY DEF PutDocument, TypeOK
<1>2. /\ doc' = [version |-> stamps + 1, state |-> state, by |-> c, count |-> count]
      /\ doc' \in DocType'
  BY <1>1 DEF PutDocument, DocType, Storers
<1>3. chunks' \in [Indices -> Storers] /\ overlapped' \subseteq Calls
  BY DEF TypeOK
<1> QED
  BY <1>1, <1>2, <1>3 DEF ServerKept, Versioned

(* The call goes on from its last document write.                          *)
LEMMA StoredKept ==
    ASSUME TypeOK, NEW c \in Calls, stamps' = stamps + 1, Stored(c)
    PROVE  CallKept(c)
<1>1. CASE call[c].priorChunked
  <2> DEFINE k == [call[c] EXCEPT !.written = stamps']
  <2>1. Goto(c, "list") /\ call' = [call EXCEPT ![c] = k]
    BY <1>1 DEF Stored
  <2>2. call[c] \in CallType' /\ stamps' \in (0 .. stamps)'
    BY CallTyped, Widened DEF TypeOK
  <2>3. k \in CallType'
    BY <2>2 DEF CallType
  <2> QED
    BY <2>1, <2>3, GoKept DEF Labels
<1>2. CASE ~call[c].priorChunked
  BY <1>2, ReturnKept DEF Stored, Outcomes
<1> QED
  BY <1>1, <1>2

(* The first document write: over the pre-read, or refused.                *)
LEMMA FirstWriteKept ==
    ASSUME TypeOK, Versioned, NEW c \in Calls, InPayload(c), FirstWrite(c)
    PROVE  CallKept(c) /\ ServerKept
<1> DEFINE inline == call[c].req.size = 0
           state == IF inline THEN "inline" ELSE "pending"
<1>1. pc[c] = "first" /\ UNCHANGED <<chunks, overlapped>>
  BY DEF FirstWrite
<1>2. CASE Throw(c, "refused") /\ UNCHANGED <<doc, stamps>>
  BY <1>1, <1>2, ReturnKept, SameServer DEF Outcomes, TypeOK
<1>3. CASE /\ PutDocument(c, state, 0)
           /\ \/ inline /\ Stored(c)
              \/ /\ ~inline
                 /\ Goto(c, "store")
                 /\ call' = [call EXCEPT ![c].written = stamps']
              \/ Failing(c, TRUE)
  <2>1. state \in States \ {"absent"} /\ 0 \in 0 .. MaxChunks
    BY ChunksPositive DEF ChunksPositive, States
  <2>2. /\ ServerKept /\ stamps' = stamps + 1
        /\ doc'.version = stamps + 1 /\ doc'.by = c /\ doc'.state = state
    BY <1>1, <1>3, <2>1, PutKept
  <2>3. CASE inline /\ Stored(c)
    BY <2>2, <2>3, StoredKept
  <2>4. CASE Failing(c, TRUE)
    BY <1>1, <2>2, <2>4, FailingKept
  <2>5. CASE ~inline /\ Goto(c, "store") /\ call' = [call EXCEPT ![c].written = stamps']
    <3> DEFINE k == [call[c] EXCEPT !.written = stamps']
    <3>1. call' = [call EXCEPT ![c] = k] /\ \A e \in Calls : call[e] \in CallType'
      BY <2>2, <2>5, Widened, CallTyped
    <3>2. stamps \in Nat /\ stamps' \in (0 .. stamps)'
      BY <2>2 DEF TypeOK
    <3>3. k \in CallType' /\ k.written = stamps' /\ k.next = call[c].next /\ k.req = call[c].req
      BY <3>1, <3>2 DEF CallType
    <3> HIDE DEF k
    <3>4. call' \in [Calls -> CallType'] /\ Others(c) /\ call'[c] = k
      BY <2>5, <3>1, <3>3 DEF TypeOK, Goto, Others
    <3>5. pc' \in [Calls -> Labels] /\ pc'[c] = "store"
      BY <2>5 DEF TypeOK, Goto, Labels
    <3>6. Anchored(c)'
      BY <2>2, <2>5, <3>2, <3>3, <3>4, <3>5 DEF Anchored
    <3>7. call[c].next = 0
      BY <1>1 DEF InPayload
    <3>8. InPayload(c)'
      BY <2>5, <3>3, <3>4, <3>5, <3>7, CallTyped DEF InPayload, RequestType
    <3> QED
      BY <2>2, <3>4, <3>5, <3>6, <3>8 DEF CallKept
  <2> QED
    BY <1>3, <2>2, <2>3, <2>4, <2>5
<1> QED
  BY <1>2, <1>3 DEF FirstWrite

(* A chunk is stored, and the next is one of the payload's.                *)
LEMMA StoreChunkKept ==
    ASSUME TypeOK, Versioned, NEW c \in Calls, InPayload(c), Anchored(c), StoreChunk(c)
    PROVE  CallKept(c) /\ ServerKept
<1>1. pc[c] = "store" /\ UNCHANGED <<doc, stamps, overlapped>>
  BY DEF StoreChunk
<1>2. /\ call[c] \in CallType /\ call[c].req.size \in 0 .. MaxChunks
      /\ call[c].next \in 0 .. MaxChunks /\ MaxChunks \in Nat
  BY CallTyped, ChunksPositive DEF ChunksPositive, CallType, RequestType
<1>3. chunks' \in [Indices -> Storers]
  BY DEF StoreChunk, TypeOK, Storers
<1>4. ServerKept
  BY <1>1, <1>3 DEF ServerKept, TypeOK, Versioned, DocType
<1>5. CASE \E unsure \in BOOLEAN : Failing(c, unsure)
  BY <1>1, <1>4, <1>5, FailingKept
<1>6. CASE /\ Goto(c, IF MoreChunks(c) THEN "store" ELSE "final")
           /\ call' = [call EXCEPT ![c].next = @ + 1]
  <2> DEFINE k == [call[c] EXCEPT !.next = @ + 1]
  <2>1. call' = [call EXCEPT ![c] = k] /\ \A d \in Calls : call[d] \in CallType'
    BY <1>1, <1>6, Widened, CallTyped
  <2>2. call[c].next < call[c].req.size
    BY <1>1 DEF InPayload
  <2>3. /\ k \in CallType' /\ k.next = call[c].next + 1
        /\ k.written = call[c].written /\ k.req = call[c].req
    BY <1>2, <2>1, <2>2 DEF CallType
  <2> HIDE DEF k
  <2>4. call' \in [Calls -> CallType'] /\ Others(c) /\ call'[c] = k
    BY <1>6, <2>1, <2>3 DEF TypeOK, Goto, Others
  <2>5. pc' \in [Calls -> Labels] /\ pc'[c] = IF MoreChunks(c) THEN "store" ELSE "final"
    BY <1>6 DEF TypeOK, Goto, Labels
  <2>6. InPayload(c)'
    BY <1>2, <2>3, <2>4, <2>5 DEF InPayload, MoreChunks
  <2>7. Anchored(c)'
    BY <1>1, <2>3, <2>4, <2>5 DEF Anchored
  <2> QED
    BY <1>4, <2>4, <2>5, <2>6, <2>7 DEF CallKept
<1> QED
  BY <1>4, <1>5, <1>6 DEF StoreChunk

(* The document again, over the stub, or a race lost.                      *)
LEMMA FinalWriteKept ==
    ASSUME TypeOK, Versioned, NEW c \in Calls, Anchored(c), FinalWrite(c)
    PROVE  CallKept(c) /\ ServerKept
<1>1. pc[c] = "final" /\ UNCHANGED <<chunks, overlapped>>
  BY DEF FinalWrite
<1>2. CASE Throw(c, "lost race") /\ UNCHANGED <<doc, stamps>>
  BY <1>1, <1>2, ReturnKept, SameServer DEF Outcomes, TypeOK
<1>3. CASE /\ PutDocument(c, "complete", call[c].req.size)
           /\ Stored(c) \/ Failing(c, TRUE)
  <2>1. "complete" \in States \ {"absent"} /\ call[c].req.size \in 0 .. MaxChunks
    BY CallTyped DEF RequestType, States
  <2>2. /\ ServerKept /\ stamps' = stamps + 1
        /\ doc'.version = stamps + 1
    BY <1>1, <1>3, <2>1, PutKept
  <2> QED
    BY <1>3, <2>2, StoredKept, FailingKept
<1> QED
  BY <1>2, <1>3 DEF FinalWrite

(* Deleting leaves no document and no chunks.                              *)
LEMMA DeletedKept ==
    ASSUME TypeOK, DeleteDocument, UNCHANGED <<stamps, overlapped>>
    PROVE  ServerKept /\ doc'.version = 0
<1>1. Absent \in DocType' /\ NoChunks \in [Indices -> Storers]
  BY AbsentTyped, Widened
<1> QED
  BY <1>1 DEF DeleteDocument, ServerKept, TypeOK, Versioned, Absent

(* The cleanup of a failed create, and a delete: either way the call ends. *)
LEMMA DeletesKept ==
    ASSUME TypeOK, Versioned, NEW c \in Calls, Anchored(c), CleanUp(c) \/ Delete(c)
    PROVE  CallKept(c) /\ ServerKept
<1>1. UNCHANGED <<stamps, overlapped>> /\ pc[c] \in {"cleanup", "delete"}
  BY DEF CleanUp, Delete
<1>2. CASE UNCHANGED <<doc, chunks>>
            /\ \E outcome \in {"replaced since", "refused"} : Throw(c, outcome)
  BY <1>1, <1>2, ReturnKept, SameServer DEF Outcomes, TypeOK
<1>3. CASE /\ DeleteDocument
           /\ \/ Failing(c, TRUE)
              \/ \E outcome \in {"removed", "deleted"} :
                   Throw(c, outcome) \/ Return(c, outcome)
  <2>1. ServerKept /\ doc'.version = 0
    BY <1>1, <1>3, DeletedKept
  <2>2. CASE Failing(c, TRUE)
    BY <1>1, <2>1, <2>2, FailingKept
  <2>3. CASE ~Failing(c, TRUE)
    BY <1>1, <1>3, <2>1, <2>3, ReturnKept DEF Outcomes
  <2> QED
    BY <2>1, <2>2, <2>3
<1> QED
  BY <1>2, <1>3 DEF CleanUp, Delete

(* The listing is what a call reaps.                                       *)
LEMMA ListKept ==
    ASSUME TypeOK, Versioned, NEW c \in Calls, ListChunks(c)
    PROVE  CallKept(c) /\ ServerKept
<1> DEFINE stale == [i \in Indices |-> IF Uncovered(c, i) THEN chunks[i] ELSE None]
           k == [call[c] EXCEPT !.stale = stale, !.reapers = ReapConcurrency]
<1>1. UNCHANGED <<doc, chunks, stamps, overlapped>>
  BY DEF ListChunks
<1>2. ServerKept
  BY <1>1, SameServer DEF TypeOK
<1>3. CASE Return(c, "stored")
  BY <1>1, <1>2, <1>3, ReturnKept DEF Outcomes
<1>4. CASE Goto(c, "reap") /\ call' = [call EXCEPT ![c] = k]
  <2>1. stale \in [Indices -> Storers]
    BY DEF TypeOK, Storers
  <2>2. call[c] \in CallType' /\ ReapConcurrency \in 0 .. ReapConcurrency
    BY <1>1, Widened, CallTyped, ChunksPositive DEF ChunksPositive
  <2> HIDE DEF stale
  <2>3. k \in CallType'
    BY <2>1, <2>2 DEF CallType
  <2> QED
    BY <1>1, <1>2, <1>4, <2>3, GoKept
<1> QED
  BY <1>3, <1>4 DEF ListChunks

(* Reap workers only run while there are any.                              *)
LEMMA ReapersPositive ==
    ASSUME TypeOK, NEW c \in Calls, NEW i \in InFlight(c)
    PROVE  call[c].reapers \in 1 .. ReapConcurrency /\ i \in Indices
<1>1. IsFiniteSet(Indices)
  BY FS_Interval, ChunksPositive DEF ChunksPositive, Indices
<1> DEFINE earlier == {j \in Remaining(c) : j < i}
<1>2. earlier \subseteq Indices
  BY DEF Remaining
<1>3. Cardinality(earlier) \in Nat
  BY <1>1, <1>2, FS_Subset, FS_CardinalityType
<1>4. Cardinality(earlier) < call[c].reapers /\ i \in Indices
  BY DEF InFlight, Remaining
<1>5. call[c].reapers \in 0 .. ReapConcurrency
  BY CallTyped DEF CallType
<1> QED
  BY <1>3, <1>4, <1>5, ChunksPositive DEF ChunksPositive

(* A chunk delete, its answer or its failure.                              *)
LEMMA ReapKept ==
    ASSUME TypeOK, Versioned, NEW c \in Calls, ReapChunk(c)
    PROVE  CallKept(c) /\ ServerKept
<1>1. pc[c] \in {"reap", "thrown"} /\ UNCHANGED <<doc, stamps, overlapped>>
  BY DEF ReapChunk
<1>2. PICK i \in InFlight(c) :
         \/ DeleteChunk(c, i) /\ (Reaped(c, i) \/ ReapFailed(c, i, TRUE))
         \/ UNCHANGED chunks /\ ReapFailed(c, i, FALSE)
  BY DEF ReapChunk
<1>3. /\ call[c].reapers \in 1 .. ReapConcurrency /\ i \in Indices
      /\ ReapConcurrency \in Nat
  BY ReapersPositive, ChunksPositive DEF ChunksPositive
<1>4. chunks' \in [Indices -> Storers]
  BY <1>2 DEF DeleteChunk, TypeOK, Storers
<1>5. ServerKept
  BY <1>1, <1>4 DEF ServerKept, TypeOK, Versioned, DocType
<1>6. call[c] \in CallType /\ NoChunks \in [Indices -> Storers]
  BY CallTyped, AbsentTyped
<1>7. [call[c].stale EXCEPT ![i] = None] \in [Indices -> Storers]
  BY <1>6 DEF CallType, Storers
<1>8. CASE Reaped(c, i)
  <2>1. CASE Return(c, "stored")
    BY <1>1, <1>5, <2>1, ReturnKept DEF Outcomes
  <2>2. CASE call' = [call EXCEPT ![c].stale[i] = None] /\ UNCHANGED pc
    <3> DEFINE k == [call[c] EXCEPT !.stale = [call[c].stale EXCEPT ![i] = None]]
    <3>1. call' = [call EXCEPT ![c] = k]
      BY <2>2
    <3>2. k \in CallType
      BY <1>6, <1>7 DEF CallType
    <3> HIDE DEF k
    <3>3. call' \in [Calls -> CallType'] /\ Others(c)
      BY <1>1, <2>2, <3>1, <3>2, Widened, CallTyped DEF TypeOK, Others
    <3> QED
      BY <1>1, <1>5, <2>2, <3>3 DEF CallKept, TypeOK, InPayload, Anchored
  <2> QED
    BY <1>8, <2>1, <2>2 DEF Reaped
<1>9. ASSUME NEW unsure \in BOOLEAN, ReapFailed(c, i, unsure)
      PROVE  CallKept(c)
  <2> DEFINE left == IF call[c].reapers = 1 THEN NoChunks
                     ELSE [call[c].stale EXCEPT ![i] = None]
             e == Ended(c, "unreaped")
             doubt == e.unsure \/ unsure
             k == [e EXCEPT !.unsure = doubt, !.reapers = call[c].reapers - 1,
                            !.stale = left]
  <2>1. left \in [Indices -> Storers] /\ call[c].reapers - 1 \in 0 .. ReapConcurrency
    BY <1>3, <1>6, <1>7
  <2>2. e \in CallType
    BY EndedTyped DEF Outcomes
  <2>3. doubt \in BOOLEAN
    BY <2>2 DEF CallType
  <2>4. Goto(c, "thrown") /\ call' = [call EXCEPT ![c] = k]
    BY <1>9, Zenon DEF ReapFailed
  <2> HIDE DEF left, doubt, e
  <2>5. k \in CallType
    BY <2>1, <2>2, <2>3, Zenon DEF CallType
  <2> HIDE DEF k
  <2> QED
    BY <1>1, <2>4, <2>5, EndKept
<1> QED
  BY <1>2, <1>5, <1>8, <1>9

(* What a read is answered, and the chunk it fetches first.                *)
LEMMA ReadKept ==
    ASSUME TypeOK, Versioned, NEW c \in Calls, InPayload(c), Read(c)
    PROVE  CallKept(c) /\ ServerKept
<1> DEFINE d == Answered(c)
           k == [call[c] EXCEPT !.seen = d,
                   !.outcome = IF d.count > 0 THEN @ ELSE "value"]
<1>1. pc[c] = "read" /\ UNCHANGED <<doc, chunks, stamps, overlapped>>
  BY DEF Read
<1>2. ServerKept
  BY <1>1, SameServer DEF TypeOK
<1>3. CASE \E outcome \in {"null", "never completed"} :
             Return(c, outcome) \/ Throw(c, outcome)
  BY <1>1, <1>2, <1>3, ReturnKept DEF Outcomes
<1>4. CASE /\ IF d.count > 0 THEN Goto(c, "fetch") ELSE Goto(c, "returned")
           /\ call' = [call EXCEPT ![c] = k]
  <2>1. d \in DocType
    BY AbsentTyped DEF Answered, TypeOK, DocType
  <2>2. call[c] \in CallType /\ call[c].next = 0
    BY <1>1, CallTyped DEF InPayload
  <2>3. k \in CallType /\ k.seen = d /\ k.next = 0
    BY <2>1, <2>2 DEF CallType, DocType, Outcomes
  <2> HIDE DEF k, d
  <2>4. call' \in [Calls -> CallType'] /\ Others(c) /\ call'[c] = k
    BY <1>1, <1>4, <2>3, Widened, CallTyped DEF TypeOK, Goto, Others
  <2>5. /\ pc' \in [Calls -> Labels]
        /\ pc'[c] = IF d.count > 0 THEN "fetch" ELSE "returned"
    BY <1>4 DEF TypeOK, Goto, Labels
  <2>6. d.count \in Nat
    BY <2>1, ChunksPositive DEF ChunksPositive, DocType
  <2> QED
    BY <1>2, <2>3, <2>4, <2>5, <2>6 DEF CallKept, InPayload, Anchored
<1> QED
  BY <1>3, <1>4 DEF Read

(* The next chunk, until the last.                                         *)
LEMMA FetchKept ==
    ASSUME TypeOK, Versioned, NEW c \in Calls, InPayload(c), Fetch(c)
    PROVE  CallKept(c) /\ ServerKept
<1> DEFINE k == call[c]
           last == k.next + 1 = k.seen.count
           fetched == [k.fetched EXCEPT ![k.next] = chunks[k.next]]
           n == [k EXCEPT !.fetched = fetched, !.next = IF last THEN 0 ELSE @ + 1,
                          !.outcome = IF last THEN "value" ELSE @]
<1>1. pc[c] = "fetch" /\ UNCHANGED <<doc, chunks, stamps, overlapped>>
  BY DEF Fetch
<1>2. ServerKept
  BY <1>1, SameServer DEF TypeOK
<1>3. CASE Throw(c, "chunk missing")
  BY <1>1, <1>2, <1>3, ReturnKept DEF Outcomes
<1>4. CASE /\ Goto(c, IF last THEN "returned" ELSE "fetch")
           /\ call' = [call EXCEPT ![c] = n]
  <2>1. /\ k \in CallType /\ k.next \in 0 .. MaxChunks
        /\ k.seen.count \in 0 .. MaxChunks /\ MaxChunks \in Nat
    BY CallTyped, ChunksPositive DEF ChunksPositive, CallType
  <2>2. k.next < k.seen.count /\ k.next \in Indices
    BY <1>1, <2>1 DEF InPayload, Indices
  <2>3. fetched \in [Indices -> Storers]
    BY <2>1, <2>2 DEF CallType, TypeOK
  <2>4. (IF last THEN 0 ELSE k.next + 1) \in 0 .. MaxChunks
    BY <2>1, <2>2
  <2> HIDE DEF fetched
  <2>5. /\ n \in CallType /\ n.seen = k.seen
        /\ n.next = IF last THEN 0 ELSE k.next + 1
    BY <2>1, <2>3, <2>4 DEF CallType, Outcomes
  <2> HIDE DEF n
  <2>6. call' \in [Calls -> CallType'] /\ Others(c) /\ call'[c] = n
    BY <1>1, <1>4, <2>5, Widened, CallTyped DEF TypeOK, Goto, Others
  <2>7. pc' \in [Calls -> Labels] /\ pc'[c] = IF last THEN "returned" ELSE "fetch"
    BY <1>4 DEF TypeOK, Goto, Labels
  <2> QED
    BY <1>2, <2>1, <2>2, <2>5, <2>6, <2>7 DEF CallKept, InPayload, Anchored
<1> QED
  <2>1. \/ Throw(c, "chunk missing")
        \/ /\ Goto(c, IF last THEN "returned" ELSE "fetch")
           /\ call' = [call EXCEPT ![c].fetched[k.next] = chunks[k.next],
                  ![c].next = IF last THEN 0 ELSE @ + 1,
                  ![c].outcome = IF last THEN "value" ELSE @]
    BY DEF Fetch
  <2> QED
    BY <1>3, <1>4, <2>1

(* A request fails, or the process stops.                                  *)
LEMMA StopKept ==
    ASSUME TypeOK, Versioned, NEW c \in Calls, Anchored(c), Lose(c) \/ Crash(c)
    PROVE  CallKept(c) /\ ServerKept
<1>1. UNCHANGED <<doc, chunks, stamps, overlapped>>
  BY DEF Lose, Crash
<1>2. ServerKept
  BY <1>1, SameServer DEF TypeOK
<1>3. CASE Lose(c)
  BY <1>1, <1>2, <1>3, FailingKept DEF Lose
<1>4. CASE Crash(c)
  BY <1>1, <1>2, <1>4, EndedTyped, EndKept DEF Crash, Outcomes
<1> QED
  BY <1>3, <1>4

(* Every step of every call.                                               *)
LEMMA StepKept ==
    ASSUME IInv, NEW c \in Calls, Start(c) \/ Step(c) \/ Lose(c) \/ Crash(c)
    PROVE  CallKept(c) /\ ServerKept
<1>1. TypeOK /\ Versioned /\ InPayload(c) /\ Anchored(c)
  BY DEF IInv
<1> QED
  BY <1>1, StartKept, PreReadKept, FirstWriteKept, StoreChunkKept, FinalWriteKept,
     DeletesKept, ListKept, ReapKept, ReadKept, FetchKept, StopKept DEF Step

(* The version another call anchors on stays its stub's: a version that is *)
(* issued now is none of those it was given.                               *)
LEMMA OthersKept ==
    ASSUME IInv, NEW c \in Calls, CallKept(c), ServerKept
    PROVE  \A d \in Calls : InPayload(d)' /\ Anchored(d)'
<1> SUFFICES ASSUME NEW d \in Calls PROVE InPayload(d)' /\ Anchored(d)'
  OBVIOUS
<1>1. CASE d = c
  BY <1>1 DEF CallKept
<1>2. CASE d # c
  <2>1. pc'[d] = pc[d] /\ call'[d] = call[d]
    BY <1>2 DEF CallKept, Others
  <2>2. InPayload(d) /\ Anchored(d)
    BY DEF IInv
  <2>3. call[d].written \in 0 .. stamps /\ stamps \in Nat
    BY CallTyped DEF IInv, TypeOK, CallType
  <2>4. doc' = doc \/ doc'.version \in {0, stamps + 1}
    BY DEF ServerKept
  <2>5. InPayload(d)'
    BY <2>1, <2>2 DEF InPayload
  <2>6. Anchored(d)'
    BY <2>1, <2>2, <2>3, <2>4 DEF Anchored
  <2> QED
    BY <2>5, <2>6
<1> QED
  BY <1>1, <1>2

LEMMA InitHolds == Init => IInv
<1> SUFFICES ASSUME Init PROVE IInv
  OBVIOUS
<1>1. stamps = 1 /\ overlapped = {}
  BY DEF Init
<1>2. 0 \in 0 .. stamps /\ 0 \in 0 .. MaxChunks /\ 0 \in 0 .. ReapConcurrency
  BY <1>1, ChunksPositive DEF ChunksPositive
<1>3. doc \in DocType /\ Versioned /\ chunks \in [Indices -> Storers]
  <2>1. CASE doc = Absent /\ chunks = NoChunks
    BY <1>2, <2>1 DEF Absent, NoChunks, DocType, Versioned, States, Storers
  <2>2. CASE /\ doc \in [version : {1}, state : States \ {"absent"}, by : {Past},
                          count : 0 .. MaxChunks]
             /\ chunks \in [Indices -> {Past, None}]
    <3>1. doc \in DocType /\ Versioned
      BY <1>1, <2>2 DEF DocType, Versioned, Storers
    <3>2. [Indices -> {Past, None}] \subseteq [Indices -> Storers]
      BY DEF Storers
    <3> QED
      BY <2>2, <3>1, <3>2
  <2> QED
    BY <2>1, <2>2 DEF Init
<1>4. pc = [c \in Calls |-> "idle"] /\ call = [c \in Calls |-> Locals(NoRequest, 0)]
  BY DEF Init
<1>5. Locals(NoRequest, 0) \in CallType
  BY <1>2 DEF Locals, CallType, Absent, NoChunks, States, Storers, Outcomes
<1>6. pc \in [Calls -> Labels] /\ call \in [Calls -> CallType]
  BY <1>4, <1>5 DEF Labels
<1>7. TypeOK
  BY <1>1, <1>3, <1>4, <1>6 DEF TypeOK, DocType
<1>8. \A c \in Calls : InPayload(c) /\ Anchored(c)
  BY <1>4 DEF InPayload, Anchored
<1> QED
  BY <1>3, <1>7, <1>8 DEF IInv

LEMMA StepHolds == IInv /\ [Next]_vars => IInv'
<1> SUFFICES ASSUME IInv, [Next]_vars PROVE IInv'
  OBVIOUS
<1>1. CASE UNCHANGED vars
  BY <1>1 DEF vars, IInv, TypeOK, Versioned, InPayload, Anchored, CallType
<1>2. CASE \E c \in Calls : Start(c) \/ Step(c) \/ Lose(c) \/ Crash(c)
  <2>1. PICK c \in Calls : Start(c) \/ Step(c) \/ Lose(c) \/ Crash(c)
    BY <1>2
  <2>2. CallKept(c) /\ ServerKept
    BY <2>1, StepKept
  <2>3. \A d \in Calls : InPayload(d)' /\ Anchored(d)'
    BY <2>2, OthersKept
  <2>4. stamps' \in Nat
    BY <2>2 DEF ServerKept, IInv, TypeOK
  <2>5. TypeOK'
    BY <2>2, <2>3, <2>4 DEF TypeOK, CallKept, ServerKept, DocType, InPayload
  <2> QED
    BY <2>2, <2>3, <2>5 DEF IInv, ServerKept
<1> QED
  BY <1>1, <1>2 DEF Next, Quiet

LEMMA Inductive == Spec => []IInv
  BY InitHolds, StepHolds, PTL DEF Spec
-----------------------------------------------------------------------------
(* Theorems.                                                               *)

(* Every variable keeps its shape, and no call stores more chunks than its *)
(* payload takes (EdvCodec.ts, #storeChunks).                              *)
THEOREM TypeCorrect == Spec => []TypeOK
<1>1. IInv => TypeOK
  BY DEF IInv
<1> QED
  BY <1>1, Inductive, PTL

(* A document that carries a call's name was just put there by that call.  *)
LEMMA WrittenBy ==
    ASSUME IInv, NEW d \in Calls, NEW c \in Calls,
           Start(d) \/ Step(d) \/ Lose(d) \/ Crash(d), doc' # doc, doc'.by = c
    PROVE  /\ d = c
           /\ \/ FirstWrite(c) /\ doc.version \in FirstAdmits(c)
              \/ FinalWrite(c) /\ doc.version \in FinalAdmits(c)
<1>1. FirstWrite(d) \/ FinalWrite(d)
  <2>1. doc' # Absent
    BY CallersDistinct DEF CallersDistinct, Absent
  <2>2. ~CleanUp(d) /\ ~Delete(d)
    BY <2>1 DEF CleanUp, Delete, DeleteDocument
  <2>3. ~Start(d) /\ ~Lose(d) /\ ~Crash(d)
    BY DEF Start, Lose, Crash
  <2>4. ~PreRead(d) /\ ~StoreChunk(d) /\ ~ListChunks(d) /\ ~ReapChunk(d)
    BY DEF PreRead, StoreChunk, ListChunks, ReapChunk
  <2>5. ~Read(d) /\ ~Fetch(d)
    BY DEF Read, Fetch
  <2> QED
    BY <2>2, <2>3, <2>4, <2>5 DEF Step
<1>2. CASE FirstWrite(d)
  <2>1. doc.version \in FirstAdmits(d) /\ \E state, count : PutDocument(d, state, count)
    BY <1>2, Zenon DEF FirstWrite
  <2>2. d = c
    BY <2>1 DEF PutDocument
  <2> QED
    BY <1>2, <2>1, <2>2
<1>3. CASE FinalWrite(d)
  <2>1. doc.version \in FinalAdmits(d) /\ \E state, count : PutDocument(d, state, count)
    BY <1>3, Zenon DEF FinalWrite
  <2>2. d = c
    BY <2>1 DEF PutDocument
  <2> QED
    BY <1>3, <2>1, <2>2
<1> QED
  BY <1>1, <1>2, <1>3

(* A later request of a put is pinned to the call's own stub.              *)
LEMMA OwnStub ==
    ASSUME IInv, ServesEtag, NEW c \in Calls, pc[c] \in {"final", "cleanup"},
           doc.version \in Only(call[c].written)
    PROVE  doc.by = c /\ doc.state = "pending"
  BY DEF IInv, Anchored, Only

(* Lost updates: with document validators, no document write replaces a    *)
(* version its call did not pre-read or write itself.                      *)
THEOREM NoUpdateLost == ServesEtag /\ Spec => NoLostUpdate
<1> SUFFICES ASSUME ServesEtag PROVE Spec => NoLostUpdate
  OBVIOUS
<1> DEFINE Allowed(c) ==
      \/ /\ pc[c] = "first"
         /\ doc.version = call[c].prior
         /\ call[c].req.absent => doc.state = "absent"
         /\ call[c].req.pinned => doc.version = call[c].pin
      \/ /\ pc[c] = "final"
         /\ doc.by = c /\ doc.state = "pending"
<1>1. ASSUME IInv, [Next]_vars, NEW c \in Calls, doc' # doc, doc'.by = c
      PROVE  Allowed(c)
  <2>1. PICK d \in Calls : Start(d) \/ Step(d) \/ Lose(d) \/ Crash(d)
    BY <1>1 DEF Next, Quiet, vars
  <2>2. \/ FirstWrite(c) /\ doc.version \in FirstAdmits(c)
        \/ FinalWrite(c) /\ doc.version \in FinalAdmits(c)
    BY <1>1, <2>1, WrittenBy
  <2>3. CASE FirstWrite(c) /\ doc.version \in FirstAdmits(c)
    <3>1. pc[c] = "first" /\ doc.version = call[c].prior
      BY <2>3 DEF FirstWrite, FirstAdmits, Only
    <3>2. Anchored(c) /\ Versioned
      BY <1>1 DEF IInv
    <3> QED
      BY <3>1, <3>2 DEF Anchored, Versioned
  <2>4. CASE FinalWrite(c) /\ doc.version \in FinalAdmits(c)
    BY <1>1, <2>4, OwnStub DEF FinalWrite, FinalAdmits
  <2> QED
    BY <2>2, <2>3, <2>4
<1>2. IInv /\ [Next]_vars
        => [\A c \in Calls : doc' # doc /\ doc'.by = c => Allowed(c)]_vars
  BY <1>1
<1> QED
  BY <1>2, Inductive, PTL DEF Spec, NoLostUpdate

(* The cleanup race: with document validators, the cleanup of a failed     *)
(* create deletes its own stub, never what another writer put there since. *)
THEOREM CleanUpSpares == ServesEtag /\ Spec => CleanUpSparesOthers
<1> SUFFICES ASSUME ServesEtag PROVE Spec => CleanUpSparesOthers
  OBVIOUS
<1>1. ASSUME IInv, [Next]_vars, NEW c \in Calls, doc' # doc,
             pc[c] = "cleanup", pc'[c] # "cleanup"
      PROVE  doc.by = c /\ doc.state = "pending"
  <2>1. PICK d \in Calls : Start(d) \/ Step(d) \/ Lose(d) \/ Crash(d)
    BY <1>1 DEF Next, Quiet, vars
  <2>2. d = c
    <3>1. CallKept(d)
      BY <1>1, <2>1, StepKept
    <3> QED
      BY <1>1, <3>1 DEF CallKept, Others
  <2>3. CleanUp(c)
    BY <1>1, <2>1, <2>2 DEF Start, Step, Lose, Crash, PreRead, FirstWrite, StoreChunk,
       FinalWrite, ListChunks, ReapChunk, Delete, Read, Fetch
  <2>4. doc.version \in Only(call[c].written)
    BY <1>1, <2>3 DEF CleanUp, CleanupAdmits
  <2> QED
    BY <1>1, <2>4, OwnStub
<1>2. IInv /\ [Next]_vars
        => [\A c \in Calls :
              pc[c] = "cleanup" /\ pc'[c] # "cleanup" /\ doc' # doc =>
                doc.by = c /\ doc.state = "pending"]_vars
  BY <1>1
<1> QED
  BY <1>2, Inductive, PTL DEF Spec, CleanUpSparesOthers
-----------------------------------------------------------------------------
(* What keeps a document whole.  With the chunks' ETags listed, a reap     *)
(* worker deletes the chunk it listed and no other, so whoever outlives    *)
(* its call does no harm; every other harm is of calls that overlap.       *)

Over == {"returned", "thrown", "crashed"}
Modifying == {"preread", "first", "store", "final", "cleanup", "list", "reap", "delete"}
Reading == {"read", "fetch"}
Claims == {"store", "final", "cleanup", "list", "reap"}

(* Who runs beside a writer is known to overlap.                           *)
Sorted(c) ==
    /\ pc[c] \in Modifying => call[c].req.kind # "get"
    /\ pc[c] \in Reading => call[c].outcome = "none"

Beside ==
    \A c, d \in Calls : c # d /\ ~Finished(c) /\ Writing(d) => c \in overlapped

(* Once a put has written the document, it is its own, or one that another *)
(* call put there beside it.                                               *)
Claimed(c) ==
    pc[c] \in Claims => doc.by \in {c, None} \union overlapped

(* The chunks of a put are its own while it stores them.                   *)
Storing(c) ==
    /\ pc[c] \in {"store", "final"} /\ c \notin overlapped =>
         \A i \in Indices : i < call[c].next => chunks[i] = c
    /\ pc[c] = "final" => call[c].next >= call[c].req.size
    /\ pc[c] = "store" /\ doc.by = c => doc.state # "complete"

(* A chunk that waits to be reaped is none of the stored document's.       *)
Spared(c) ==
    \A i \in Indices :
      LET b == call[c].stale[i]
      IN /\ b = Past => doc.by # Past
         /\ b \in Calls => b \in overlapped \/ (pc[b] \in Over /\ doc.by # b)

Shaped ==
    /\ doc.state # "absent" => doc.by # None
    /\ doc.count > 0 => doc.state = "complete"
    /\ \A i \in Indices : chunks[i] \in Calls =>
         pc[chunks[i]] # "idle" /\ i < call[chunks[i]].req.size

(* A read that nobody disturbs finds the document it was answered.         *)
Fetching(c) ==
    pc[c] = "fetch" =>
      /\ call[c].seen.state = "complete"
      /\ c \notin overlapped => doc = call[c].seen
      /\ c \notin overlapped /\ call[c].seen.by \notin overlapped =>
           \A i \in Indices : i < call[c].next => call[c].fetched[i] = call[c].seen.by

ReadWhole(c) ==
    LET k == call[c]
    IN /\ k.outcome = "value" => k.seen.state \in {"inline", "complete"}
       /\ c \notin overlapped /\ k.seen.by \notin overlapped =>
            /\ k.outcome = "value" => Holds(k.seen, k.fetched)
            /\ k.outcome # "chunk missing"

WInv ==
    /\ Shaped /\ Beside /\ WholeDocument
    /\ \A c \in Calls : /\ Sorted(c) /\ Claimed(c) /\ Storing(c) /\ Spared(c)
                        /\ Fetching(c) /\ ReadWhole(c)

(* What a step of a call does, once it has started: to the other calls and *)
(* to what it is,                                                          *)
Ran(c) ==
    /\ overlapped' = overlapped /\ Others(c) /\ call'[c].req = call[c].req
    /\ pc[c] # "idle" /\ pc'[c] # "idle"
    /\ pc[c] \in Over => pc'[c] \in Over
    /\ pc'[c] \in Modifying => pc[c] \in Modifying
    /\ pc'[c] \in Reading => pc[c] \in Reading /\ call'[c].outcome = call[c].outcome

(* to what is stored,                                                      *)
Writes(c) ==
    /\ pc[c] \in {"first", "final"} /\ UNCHANGED chunks
    /\ doc'.by = c /\ doc'.state # "absent"
    /\ doc'.count > 0 => doc'.state = "complete"
    /\ doc'.state = "complete" =>
         pc[c] = "final" /\ pc'[c] # "store" /\ doc'.count = call[c].req.size

Empties(c) == pc[c] \in {"delete", "cleanup"} /\ doc' = Absent /\ chunks' = NoChunks

Fills(c) == pc[c] = "store" /\ UNCHANGED doc /\ chunks' = [chunks EXCEPT ![call[c].next] = c]

Drops(c) ==
    /\ pc[c] \in {"reap", "thrown"} /\ UNCHANGED doc
    /\ \E i \in Indices : /\ chunks[i] = call[c].stale[i]
                          /\ chunks' = [chunks EXCEPT ![i] = None]

Serves(c) == UNCHANGED <<doc, chunks>> \/ Writes(c) \/ Empties(c) \/ Fills(c) \/ Drops(c)

(* to how far a put has come and what it is to reap,                       *)
Advances(c) ==
    /\ pc'[c] \in Claims => pc[c] \in Claims \/ doc'.by = c
    /\ pc'[c] \in {"store", "final"} =>
         \/ pc[c] = "first" /\ pc'[c] = "store" /\ call'[c].next = 0 /\ doc'.state # "complete"
         \/ /\ Fills(c) /\ call'[c].next = call[c].next + 1
            /\ pc'[c] = "final" => call'[c].next >= call[c].req.size

Lists(c) ==
    \A i \in Indices :
      \/ call'[c].stale[i] \in {None, call[c].stale[i]}
      \/ /\ pc[c] = "list" /\ UNCHANGED <<doc, chunks>>
         /\ i >= call[c].req.size /\ call'[c].stale[i] = chunks[i]

(* and to what a read was answered.                                        *)
Kept(c) ==
    LET k == call[c]
        n == call'[c]
    IN n.outcome = k.outcome /\ n.seen = k.seen /\ n.fetched = k.fetched

Opened(c) ==
    LET n == call'[c]
    IN /\ pc[c] = "read" /\ UNCHANGED doc /\ n.seen = doc /\ doc.state \in {"inline", "complete"}
       /\ n.next = call[c].next
       /\ doc.count > 0 => n.outcome = call[c].outcome
       /\ ~(doc.count > 0) => pc'[c] # "fetch" /\ n.outcome = "value"

Fetched(c) ==
    LET k == call[c]
        n == call'[c]
    IN /\ pc[c] = "fetch" /\ UNCHANGED doc /\ n.seen = k.seen
       /\ \/ chunks[k.next] = None /\ pc'[c] # "fetch" /\ n.outcome = "chunk missing"
          \/ /\ n.fetched = [k.fetched EXCEPT ![k.next] = chunks[k.next]]
             /\ pc'[c] = "fetch" => n.next = k.next + 1
             /\ n.outcome = k.outcome \/ (n.outcome = "value" /\ k.next + 1 = k.seen.count)

Answers(c) ==
    \/ Kept(c) /\ pc'[c] # "fetch"
    \/ call'[c].outcome \notin {"value", "chunk missing"} /\ pc'[c] # "fetch"
    \/ Opened(c) \/ Fetched(c)

Deed(c) == Ran(c) /\ Serves(c) /\ Advances(c) /\ Lists(c) /\ Answers(c)
-----------------------------------------------------------------------------
(* Every step of a call is such a deed.                                    *)

(* A call ends, with an answer or an error that says nothing of a payload. *)
Closes(c) ==
    /\ pc'[c] \in Over /\ Others(c) /\ call'[c].req = call[c].req
    /\ call'[c].stale = NoChunks /\ call'[c].outcome \notin {"value", "chunk missing"}

(* A call goes on.                                                         *)
GoesOn(c) ==
    /\ Others(c) /\ call'[c].req = call[c].req /\ call'[c].stale = call[c].stale
    /\ Kept(c)

LEMMA Labelled ==
    /\ Over \intersect Modifying = {} /\ Over \intersect Reading = {} /\ Over \intersect Claims = {}
    /\ Modifying \intersect Reading = {} /\ Claims \subseteq Modifying
    /\ "idle" \notin Over /\ "idle" \notin Modifying /\ "idle" \notin Reading /\ "fetch" \notin Over
    /\ "store" \notin Over /\ "final" \notin Over
  BY DEF Over, Modifying, Reading, Claims

LEMMA EndedFields ==
    ASSUME TypeOK, NEW c \in Calls, NEW outcome
    PROVE  LET e == Ended(c, outcome)
           IN /\ e.req = call[c].req /\ e.stale = NoChunks /\ e.outcome = outcome
              /\ e.seen = call[c].seen /\ e.fetched = call[c].fetched
  BY DEF Ended, Locals

LEMMA EndsSo ==
    ASSUME TypeOK, NEW c \in Calls, NEW outcome, Return(c, outcome) \/ Throw(c, outcome)
    PROVE  /\ pc'[c] \in {"returned", "thrown"} /\ Others(c) /\ call'[c].req = call[c].req
           /\ call'[c].stale = NoChunks /\ call'[c].outcome = outcome
           /\ call'[c].seen = call[c].seen
           /\ outcome \notin {"value", "chunk missing"} => Closes(c)
<1>1. call' = [call EXCEPT ![c] = Ended(c, outcome)]
  BY DEF Return, Throw
<1>2. Goto(c, "returned") \/ Goto(c, "thrown")
  BY DEF Return, Throw
<1>3. call'[c] = Ended(c, outcome) /\ Others(c) /\ pc'[c] \in {"returned", "thrown"}
  BY <1>1, <1>2 DEF Others, TypeOK, Goto
<1>4. /\ call'[c].req = call[c].req /\ call'[c].stale = NoChunks
      /\ call'[c].outcome = outcome /\ call'[c].seen = call[c].seen
  BY <1>3, EndedFields
<1>5. pc'[c] \in Over
  BY <1>3 DEF Over
<1> QED
  BY <1>3, <1>4, <1>5 DEF Closes

(* Answers that are no payload, errors that miss no chunk.                 *)
Plain == {"stored", "deleted", "null", "refused", "lost race", "removed", "replaced since",
          "never completed"}

LEMMA EndsPlainly ==
    ASSUME TypeOK, NEW c \in Calls,
           \E outcome \in Plain : Return(c, outcome) \/ Throw(c, outcome)
    PROVE  Closes(c)
<1>1. PICK outcome \in Plain : Return(c, outcome) \/ Throw(c, outcome)
  OBVIOUS
<1>2. outcome \notin {"value", "chunk missing"}
  BY DEF Plain
<1> QED
  BY <1>1, <1>2, EndsSo

LEMMA FailsSo ==
    ASSUME TypeOK, NEW c \in Calls, NEW unsure, Failing(c, unsure)
    PROVE  \/ Closes(c)
           \/ GoesOn(c) /\ pc[c] \in {"store", "final"} /\ pc'[c] = "cleanup"
<1> DEFINE doubt == unsure \/ call[c].unsure
           cleans == pc[c] \in {"store", "final"} /\ call[c].prior = 0
<1>1. CASE ~cleans
  <2> DEFINE e == Ended(c, ErrorOf(c))
             n == [e EXCEPT !.unsure = doubt]
  <2>1. Goto(c, "thrown") /\ call' = [call EXCEPT ![c] = n]
    BY <1>1, Zenon DEF Failing
  <2>2. e.req = call[c].req /\ e.stale = NoChunks /\ e.outcome = ErrorOf(c)
    BY EndedFields
  <2>3. n.req = e.req /\ n.stale = e.stale /\ n.outcome = e.outcome
    BY DEF Ended, Locals
  <2>4. ErrorOf(c) \notin {"value", "chunk missing"}
    BY DEF ErrorOf
  <2> HIDE DEF e, n
  <2>5. call'[c] = n /\ pc'[c] = "thrown" /\ Others(c)
    BY <2>1 DEF Goto, Others, TypeOK
  <2> QED
    BY <2>2, <2>3, <2>4, <2>5 DEF Closes, Over
<1>2. CASE cleans
  <2> DEFINE n == [call[c] EXCEPT !.unsure = doubt]
  <2>1. Goto(c, "cleanup") /\ call' = [call EXCEPT ![c] = n]
    BY <1>2, Zenon DEF Failing
  <2>2. /\ n.req = call[c].req /\ n.stale = call[c].stale /\ n.outcome = call[c].outcome
        /\ n.seen = call[c].seen /\ n.fetched = call[c].fetched
    BY CallTyped DEF CallType
  <2> HIDE DEF n
  <2>3. call'[c] = n /\ pc'[c] = "cleanup" /\ Others(c)
    BY <2>1 DEF Goto, Others, TypeOK
  <2>4. pc[c] \in Modifying
    BY <1>2 DEF Modifying
  <2> QED
    BY <1>2, <2>2, <2>3, <2>4 DEF GoesOn, Kept
<1> QED
  BY <1>1, <1>2

LEMMA ClosingDeed ==
    ASSUME NEW c \in Calls, Closes(c), UNCHANGED overlapped, pc[c] # "idle", Serves(c)
    PROVE  Deed(c)
<1>1. /\ Ran(c) /\ Advances(c) /\ Answers(c)
  BY Labelled DEF Closes, Ran, Advances, Answers
<1>2. Lists(c)
  BY DEF Closes, Lists, NoChunks
<1> QED
  BY <1>1, <1>2 DEF Deed

LEMMA GoingDeed ==
    ASSUME NEW c \in Calls, GoesOn(c), UNCHANGED overlapped, pc[c] \in Modifying,
           pc'[c] \in Modifying, Serves(c), Advances(c)
    PROVE  Deed(c)
<1>1. Ran(c) /\ Answers(c)
  BY Labelled DEF GoesOn, Ran, Answers, Reading, Modifying
<1>2. Lists(c)
  BY DEF GoesOn, Lists
<1> QED
  BY <1>1, <1>2 DEF Deed

LEMMA PreReadDeed ==
    ASSUME IInv, NEW c \in Calls, PreRead(c)
    PROVE  Deed(c)
<1>1. pc[c] = "preread" /\ UNCHANGED <<doc, chunks, overlapped>> /\ TypeOK
  BY DEF PreRead, IInv
<1>2. CASE Throw(c, "refused")
  <2>1. Closes(c)
    BY <1>1, <1>2, EndsPlainly DEF Plain
  <2> QED
    BY <1>1, <1>2, <2>1, ClosingDeed DEF Serves
<1>3. CASE /\ Goto(c, "first")
           /\ call' = [call EXCEPT ![c].prior = Answered(c).version,
                                   ![c].priorChunked = Chunked(Answered(c))]
  <2> DEFINE n == [call[c] EXCEPT !.prior = Answered(c).version,
                                  !.priorChunked = Chunked(Answered(c))]
  <2>1. call' = [call EXCEPT ![c] = n]
    BY <1>3
  <2>2. /\ n.req = call[c].req /\ n.stale = call[c].stale /\ n.outcome = call[c].outcome
        /\ n.seen = call[c].seen /\ n.fetched = call[c].fetched
    BY <1>1, CallTyped DEF CallType
  <2> HIDE DEF n
  <2>3. call'[c] = n /\ pc'[c] = "first" /\ Others(c)
    BY <1>1, <1>3, <2>1 DEF Goto, Others, TypeOK
  <2>4. GoesOn(c)
    BY <2>2, <2>3 DEF GoesOn, Kept
  <2> QED
    BY <1>1, <2>3, <2>4, GoingDeed DEF Serves, Advances, Modifying, Claims
<1> QED
  BY <1>2, <1>3 DEF PreRead

(* After its last document write a put returns or goes on to reap.         *)
LEMMA StoredSo ==
    ASSUME TypeOK, NEW c \in Calls, Stored(c)
    PROVE  Closes(c) \/ (GoesOn(c) /\ pc'[c] = "list")
<1>1. CASE Return(c, "stored")
  BY <1>1, EndsPlainly DEF Plain
<1>2. CASE Goto(c, "list") /\ call' = [call EXCEPT ![c].written = stamps']
  <2> DEFINE n == [call[c] EXCEPT !.written = stamps']
  <2>1. call' = [call EXCEPT ![c] = n]
    BY <1>2
  <2>2. /\ n.req = call[c].req /\ n.stale = call[c].stale /\ n.outcome = call[c].outcome
        /\ n.seen = call[c].seen /\ n.fetched = call[c].fetched
    BY CallTyped DEF CallType
  <2> HIDE DEF n
  <2>3. call'[c] = n /\ pc'[c] = "list" /\ Others(c)
    BY <1>2, <2>1 DEF Goto, Others, TypeOK
  <2> QED
    BY <2>2, <2>3 DEF GoesOn, Kept
<1> QED
  BY <1>1, <1>2 DEF Stored

LEMMA FirstWriteDeed ==
    ASSUME IInv, NEW c \in Calls, FirstWrite(c)
    PROVE  Deed(c)
<1> DEFINE inline == call[c].req.size = 0
<1>1. pc[c] = "first" /\ UNCHANGED <<chunks, overlapped>> /\ TypeOK /\ call[c].next = 0
  BY DEF FirstWrite, IInv, InPayload
<1>2. CASE Throw(c, "refused") /\ UNCHANGED doc
  <2>1. Closes(c)
    BY <1>1, <1>2, EndsPlainly DEF Plain
  <2> QED
    BY <1>1, <1>2, <2>1, ClosingDeed DEF Serves
<1>3. CASE /\ PutDocument(c, IF inline THEN "inline" ELSE "pending", 0)
           /\ \/ inline /\ Stored(c)
              \/ /\ ~inline
                 /\ Goto(c, "store")
                 /\ call' = [call EXCEPT ![c].written = stamps']
              \/ Failing(c, TRUE)
  <2>1. /\ doc'.by = c /\ doc'.count = 0 /\ doc'.state \in {"inline", "pending"}
    BY <1>3 DEF PutDocument
  <2>2. Writes(c)
    BY <1>1, <2>1 DEF Writes
  <2>3. ASSUME GoesOn(c), pc'[c] = "list" \/ (pc'[c] = "store" /\ call'[c].next = 0)
        PROVE  Deed(c)
    <3>1. Advances(c)
      BY <1>1, <2>1, <2>3 DEF Advances
    <3> QED
      BY <1>1, <2>2, <2>3, <3>1, GoingDeed DEF Serves, Modifying
  <2>4. CASE Stored(c)
    BY <1>1, <2>2, <2>3, <2>4, StoredSo, ClosingDeed DEF Serves
  <2>5. CASE Goto(c, "store") /\ call' = [call EXCEPT ![c].written = stamps']
    <3> DEFINE n == [call[c] EXCEPT !.written = stamps']
    <3>1. call' = [call EXCEPT ![c] = n]
      BY <2>5
    <3>2. /\ n.req = call[c].req /\ n.stale = call[c].stale /\ n.outcome = call[c].outcome
          /\ n.seen = call[c].seen /\ n.fetched = call[c].fetched /\ n.next = call[c].next
      BY <1>1, CallTyped DEF CallType
    <3> HIDE DEF n
    <3>3. call'[c] = n /\ pc'[c] = "store" /\ Others(c)
      BY <1>1, <2>5, <3>1 DEF Goto, Others, TypeOK
    <3> QED
      BY <1>1, <2>3, <3>2, <3>3 DEF GoesOn, Kept
  <2>6. CASE Failing(c, TRUE)
    BY <1>1, <2>2, <2>6, FailsSo, ClosingDeed DEF Serves
  <2> QED
    BY <1>3, <2>4, <2>5, <2>6
<1> QED
  BY <1>2, <1>3, Zenon DEF FirstWrite

LEMMA StoreChunkDeed ==
    ASSUME IInv, NEW c \in Calls, StoreChunk(c)
    PROVE  Deed(c)
<1>1. pc[c] = "store" /\ UNCHANGED <<doc, overlapped>> /\ TypeOK
  BY DEF StoreChunk, IInv
<1>2. ASSUME Failing(c, TRUE) \/ Failing(c, FALSE), Serves(c)
      PROVE  Deed(c)
  <2>1. ASSUME GoesOn(c), pc'[c] = "cleanup" PROVE Deed(c)
    <3>1. Advances(c) /\ pc[c] \in Modifying /\ pc'[c] \in Modifying
      BY <1>1, <2>1 DEF Advances, Claims, Modifying
    <3> QED
      BY <1>1, <1>2, <2>1, <3>1, GoingDeed
  <2> QED
    BY <1>1, <1>2, <2>1, FailsSo, ClosingDeed
<1>3. CASE Failing(c, FALSE) /\ UNCHANGED chunks
  BY <1>1, <1>2, <1>3 DEF Serves
<1>4. CASE /\ chunks' = [chunks EXCEPT ![call[c].next] = c]
           /\ \/ /\ Goto(c, IF MoreChunks(c) THEN "store" ELSE "final")
                 /\ call' = [call EXCEPT ![c].next = @ + 1]
              \/ Failing(c, TRUE)
  <2>1. Fills(c)
    BY <1>1, <1>4 DEF Fills
  <2>2. CASE Failing(c, TRUE)
    BY <1>2, <2>1, <2>2 DEF Serves
  <2>3. CASE /\ Goto(c, IF MoreChunks(c) THEN "store" ELSE "final")
             /\ call' = [call EXCEPT ![c].next = @ + 1]
    <3> DEFINE k == call[c]
               n == [k EXCEPT !.next = k.next + 1]
    <3>1. call' = [call EXCEPT ![c] = n]
      BY <2>3
    <3>2. /\ n.req = k.req /\ n.stale = k.stale /\ n.outcome = k.outcome
          /\ n.seen = k.seen /\ n.fetched = k.fetched /\ n.next = k.next + 1
      BY <1>1, CallTyped DEF CallType
    <3>3. k.next \in Nat /\ k.req.size \in Nat
      BY <1>1, CallTyped, ChunksPositive DEF ChunksPositive, CallType, RequestType
    <3> HIDE DEF n
    <3>4. call'[c] = n /\ pc'[c] = (IF MoreChunks(c) THEN "store" ELSE "final") /\ Others(c)
      BY <1>1, <2>3, <3>1 DEF Goto, Others, TypeOK
    <3>5. pc'[c] = "final" => n.next >= k.req.size
      BY <3>2, <3>3, <3>4 DEF MoreChunks
    <3>6. GoesOn(c)
      BY <3>2, <3>4 DEF GoesOn, Kept
    <3>7. Advances(c)
      BY <1>1, <2>1, <3>2, <3>4, <3>5 DEF Advances, Claims
    <3> QED
      BY <1>1, <2>1, <3>4, <3>6, <3>7, GoingDeed DEF Serves, Modifying
  <2> QED
    BY <1>4, <2>2, <2>3
<1> QED
  BY <1>3, <1>4, Zenon DEF StoreChunk

LEMMA FinalWriteDeed ==
    ASSUME IInv, NEW c \in Calls, FinalWrite(c)
    PROVE  Deed(c)
<1>1. pc[c] = "final" /\ UNCHANGED <<chunks, overlapped>> /\ TypeOK
  BY DEF FinalWrite, IInv
<1>2. CASE Throw(c, "lost race") /\ UNCHANGED doc
  <2>1. Closes(c)
    BY <1>1, <1>2, EndsPlainly DEF Plain
  <2> QED
    BY <1>1, <1>2, <2>1, ClosingDeed DEF Serves
<1>3. CASE /\ PutDocument(c, "complete", call[c].req.size)
           /\ Stored(c) \/ Failing(c, TRUE)
  <2>1. doc'.by = c /\ doc'.count = call[c].req.size /\ doc'.state = "complete"
    BY <1>3 DEF PutDocument
  <2>2. Closes(c) \/ (GoesOn(c) /\ pc'[c] \in {"list", "cleanup"})
    BY <1>1, <1>3, StoredSo, FailsSo
  <2>3. Serves(c)
    BY <1>1, <2>1, <2>2, Labelled DEF Serves, Writes, Closes
  <2>4. CASE GoesOn(c) /\ pc'[c] \in {"list", "cleanup"}
    <3>1. Advances(c)
      BY <2>1, <2>4 DEF Advances
    <3> QED
      BY <1>1, <2>3, <2>4, <3>1, GoingDeed DEF Modifying
  <2> QED
    BY <1>1, <2>2, <2>3, <2>4, ClosingDeed
<1> QED
  BY <1>2, <1>3 DEF FinalWrite

LEMMA DeletesDeed ==
    ASSUME IInv, NEW c \in Calls, CleanUp(c) \/ Delete(c)
    PROVE  Deed(c)
<1>1. pc[c] \in {"cleanup", "delete"} /\ UNCHANGED overlapped /\ TypeOK
  BY DEF CleanUp, Delete, IInv
<1>2. Serves(c)
  BY <1>1 DEF CleanUp, Delete, DeleteDocument, Serves, Empties
<1>3. \/ Throw(c, "removed") \/ Throw(c, "replaced since") \/ Throw(c, "refused")
      \/ Return(c, "deleted") \/ Failing(c, TRUE)
  BY DEF CleanUp, Delete
<1>4. CASE Failing(c, TRUE)
  <2>1. Closes(c)
    BY <1>1, <1>4, FailsSo
  <2> QED
    BY <1>1, <1>2, <2>1, ClosingDeed
<1>5. CASE \E outcome \in Plain : Return(c, outcome) \/ Throw(c, outcome)
  <2>1. Closes(c)
    BY <1>1, <1>5, EndsPlainly
  <2> QED
    BY <1>1, <1>2, <2>1, ClosingDeed
<1> QED
  BY <1>3, <1>4, <1>5 DEF Plain

LEMMA StopDeed ==
    ASSUME IInv, NEW c \in Calls, Lose(c) \/ Crash(c)
    PROVE  Deed(c)
<1>1. pc[c] # "idle" /\ UNCHANGED <<doc, chunks, overlapped>> /\ TypeOK
  BY DEF Lose, Crash, Finished, IInv
<1>2. CASE Crash(c)
  <2>1. call' = [call EXCEPT ![c] = Ended(c, "none")] /\ Goto(c, "crashed")
    BY <1>2 DEF Crash
  <2>2. call'[c] = Ended(c, "none") /\ pc'[c] = "crashed" /\ Others(c)
    BY <1>1, <2>1 DEF Goto, Others, TypeOK
  <2>3. Ended(c, "none").req = call[c].req /\ Ended(c, "none").stale = NoChunks
    BY <1>1, EndedFields
  <2>4. Ended(c, "none").outcome = "none"
    BY <1>1, EndedFields
  <2>5. Closes(c)
    BY <2>2, <2>3, <2>4 DEF Closes, Over
  <2> QED
    BY <1>1, <2>5, ClosingDeed DEF Serves
<1>3. CASE Lose(c)
  <2>1. Closes(c) \/ (GoesOn(c) /\ pc[c] \in {"store", "final"} /\ pc'[c] = "cleanup")
    BY <1>1, <1>3, FailsSo DEF Lose
  <2>2. CASE GoesOn(c) /\ pc[c] \in {"store", "final"} /\ pc'[c] = "cleanup"
    <3>1. Advances(c) /\ pc[c] \in Modifying /\ pc'[c] \in Modifying
      BY <2>2 DEF Advances, Claims, Modifying
    <3> QED
      BY <1>1, <2>2, <3>1, GoingDeed DEF Serves
  <2> QED
    BY <1>1, <2>1, <2>2, ClosingDeed DEF Serves
<1> QED
  BY <1>2, <1>3

LEMMA ListDeed ==
    ASSUME IInv, NEW c \in Calls, ListChunks(c)
    PROVE  Deed(c)
<1> DEFINE stale == [i \in Indices |-> IF Uncovered(c, i) THEN chunks[i] ELSE None]
<1>1. pc[c] = "list" /\ UNCHANGED <<doc, chunks, overlapped>> /\ TypeOK
  BY DEF ListChunks, IInv
<1>2. CASE Return(c, "stored")
  <2>1. Closes(c)
    BY <1>1, <1>2, EndsPlainly DEF Plain
  <2> QED
    BY <1>1, <2>1, ClosingDeed DEF Serves
<1>3. CASE /\ Goto(c, "reap")
           /\ call' = [call EXCEPT ![c].stale = stale, ![c].reapers = ReapConcurrency]
  <2> DEFINE k == call[c]
             n == [k EXCEPT !.stale = stale, !.reapers = ReapConcurrency]
  <2>1. call' = [call EXCEPT ![c] = n]
    BY <1>3
  <2>2. \A i \in Indices : stale[i] = None \/ (i >= k.req.size /\ stale[i] = chunks[i])
    BY DEF Uncovered
  <2> HIDE DEF stale
  <2>3. /\ n.req = k.req /\ n.stale = stale /\ n.outcome = k.outcome
        /\ n.seen = k.seen /\ n.fetched = k.fetched
    BY <1>1, CallTyped DEF CallType
  <2> HIDE DEF n
  <2>4. call'[c] = n /\ pc'[c] = "reap" /\ Others(c)
    BY <1>1, <1>3, <2>1 DEF Goto, Others, TypeOK
  <2>5. Ran(c)
    BY <1>1, <2>3, <2>4 DEF Ran, Over, Modifying, Reading
  <2>6. Advances(c) /\ Answers(c)
    BY <1>1, <2>3, <2>4 DEF Advances, Claims, Answers, Kept
  <2>7. Lists(c)
    BY <1>1, <2>2, <2>3, <2>4 DEF Lists
  <2> QED
    BY <1>1, <2>5, <2>6, <2>7 DEF Deed, Serves
<1> QED
  BY <1>2, <1>3, Zenon DEF ListChunks

(* A reap worker, while its call runs and after it threw.                  *)
LEMMA ReapDeed ==
    ASSUME IInv, ListsEtags, NEW c \in Calls, ReapChunk(c)
    PROVE  Deed(c)
<1> DEFINE k == call[c]
<1>1. /\ pc[c] \in {"reap", "thrown"} /\ UNCHANGED <<doc, overlapped>> /\ TypeOK
      /\ k \in CallType /\ chunks \in [Indices -> Storers]
  BY CallTyped DEF ReapChunk, IInv, TypeOK
<1>2. PICK i \in InFlight(c) :
         \/ DeleteChunk(c, i) /\ (Reaped(c, i) \/ ReapFailed(c, i, TRUE))
         \/ UNCHANGED chunks /\ ReapFailed(c, i, FALSE)
  BY DEF ReapChunk
<1>3. i \in Indices /\ k.stale \in [Indices -> Storers]
  BY <1>1, ReapersPositive DEF CallType
<1>4. Serves(c)
  <2>1. CASE UNCHANGED chunks
    BY <1>1, <2>1 DEF Serves
  <2>2. CASE DeleteChunk(c, i)
    BY <1>1, <1>3, <2>2 DEF DeleteChunk, Serves, Drops
  <2> QED
    BY <1>2, <2>1, <2>2
<1> DEFINE cut == [k.stale EXCEPT ![i] = None]
<1>5. \A j \in Indices : cut[j] \in {None, k.stale[j]}
  BY <1>3
<1>6. CASE Return(c, "stored")
  <2>1. Closes(c)
    BY <1>1, <1>6, EndsPlainly DEF Plain
  <2> QED
    BY <1>1, <1>4, <2>1, ClosingDeed
<1>7. CASE call' = [call EXCEPT ![c].stale[i] = None] /\ UNCHANGED pc
  <2> DEFINE n == [k EXCEPT !.stale = cut]
  <2>1. call' = [call EXCEPT ![c] = n]
    BY <1>7
  <2> HIDE DEF cut, k
  <2>2. /\ n.req = k.req /\ n.stale = cut /\ n.outcome = k.outcome
        /\ n.seen = k.seen /\ n.fetched = k.fetched
    BY <1>1 DEF CallType
  <2> HIDE DEF n
  <2>3. call'[c] = n /\ pc'[c] = pc[c] /\ Others(c)
    BY <1>1, <1>7, <2>1 DEF Others, TypeOK
  <2>4. Ran(c) /\ Advances(c)
    BY <1>1, <2>2, <2>3 DEF Ran, Advances, Over, Modifying, Reading, k
  <2>5. Answers(c)
    BY <1>1, <2>2, <2>3 DEF Answers, Kept, k
  <2>6. Lists(c)
    BY <1>5, <2>2, <2>3 DEF Lists, k
  <2> QED
    BY <1>4, <2>4, <2>5, <2>6 DEF Deed
<1>8. ASSUME NEW unsure, ReapFailed(c, i, unsure)
      PROVE  Deed(c)
  <2> DEFINE left == IF k.reapers = 1 THEN NoChunks ELSE cut
             e == Ended(c, "unreaped")
             n == [e EXCEPT !.unsure = @ \/ unsure, !.reapers = k.reapers - 1, !.stale = left]
  <2>1. Goto(c, "thrown") /\ call' = [call EXCEPT ![c] = n]
    BY <1>8, Zenon DEF ReapFailed
  <2>2. \A j \in Indices : left[j] \in {None, k.stale[j]}
    BY <1>5 DEF NoChunks
  <2>3. e.req = k.req /\ e.outcome = "unreaped"
    BY <1>1, EndedFields
  <2> HIDE DEF left
  <2>4. n.req = e.req /\ n.outcome = e.outcome /\ n.stale = left
    BY DEF Ended, Locals
  <2> HIDE DEF e, n, k
  <2>5. call'[c] = n /\ pc'[c] = "thrown" /\ Others(c)
    BY <1>1, <2>1 DEF Goto, Others, TypeOK
  <2>6. Ran(c) /\ Advances(c)
    BY <1>1, <2>3, <2>4, <2>5 DEF Ran, Advances, Over, Modifying, Reading, Claims, k
  <2>7. Answers(c)
    BY <1>1, <2>3, <2>4, <2>5 DEF Answers
  <2>8. Lists(c)
    BY <2>2, <2>4, <2>5 DEF Lists, k
  <2> QED
    BY <1>4, <2>6, <2>7, <2>8 DEF Deed
<1> QED
  BY <1>2, <1>6, <1>7, <1>8 DEF Reaped

LEMMA ReadDeed ==
    ASSUME IInv, Shaped, NEW c \in Calls, Read(c)
    PROVE  Deed(c)
<1> DEFINE d == Answered(c)
           k == call[c]
           n == [k EXCEPT !.seen = d, !.outcome = IF d.count > 0 THEN @ ELSE "value"]
<1>1. pc[c] = "read" /\ UNCHANGED <<doc, chunks, overlapped>> /\ TypeOK /\ k \in CallType
  BY CallTyped DEF Read, IInv
<1>2. CASE \E outcome \in Plain : Return(c, outcome) \/ Throw(c, outcome)
  <2>1. Closes(c)
    BY <1>1, <1>2, EndsPlainly
  <2> QED
    BY <1>1, <2>1, ClosingDeed DEF Serves
<1>3. CASE /\ d.state # "absent" /\ Opens(d)
           /\ IF d.count > 0 THEN Goto(c, "fetch") ELSE Goto(c, "returned")
           /\ call' = [call EXCEPT ![c] = n]
  <2>1. d = doc /\ doc.state \in {"inline", "complete"}
    BY <1>1, <1>3 DEF Answered, Absent, Opens, TypeOK, States
  <2> HIDE DEF d
  <2>2. /\ n.req = k.req /\ n.stale = k.stale /\ n.seen = d /\ n.fetched = k.fetched
        /\ n.next = k.next /\ n.outcome = IF d.count > 0 THEN k.outcome ELSE "value"
    BY <1>1 DEF CallType
  <2> HIDE DEF n
  <2>3. /\ call'[c] = n /\ Others(c)
        /\ pc'[c] = IF d.count > 0 THEN "fetch" ELSE "returned"
    BY <1>1, <1>3 DEF Goto, Others, TypeOK
  <2>4. Ran(c)
    BY <1>1, <2>2, <2>3 DEF Ran, Over, Modifying, Reading
  <2>5. Advances(c)
    BY <2>3 DEF Advances, Claims
  <2>6. Lists(c)
    BY <2>2, <2>3 DEF Lists
  <2>7. Opened(c)
    BY <1>1, <2>1, <2>2, <2>3 DEF Opened
  <2> QED
    BY <1>1, <2>4, <2>5, <2>6, <2>7 DEF Deed, Serves, Answers
<1>4. \/ Return(c, "null") \/ Throw(c, "never completed")
      \/ /\ d.state # "absent" /\ Opens(d)
         /\ IF d.count > 0 THEN Goto(c, "fetch") ELSE Goto(c, "returned")
         /\ call' = [call EXCEPT ![c] = n]
  BY DEF Read
<1> QED
  BY <1>2, <1>3, <1>4 DEF Plain

LEMMA FetchDeed ==
    ASSUME IInv, NEW c \in Calls, Fetch(c)
    PROVE  Deed(c)
<1> DEFINE k == call[c]
           last == k.next + 1 = k.seen.count
           fetched == [k.fetched EXCEPT ![k.next] = chunks[k.next]]
           n == [k EXCEPT !.fetched = fetched, !.next = IF last THEN 0 ELSE @ + 1,
                          !.outcome = IF last THEN "value" ELSE @]
<1>1. pc[c] = "fetch" /\ UNCHANGED <<doc, chunks, overlapped>> /\ TypeOK /\ k \in CallType
  BY CallTyped DEF Fetch, IInv
<1>2. CASE chunks[k.next] = None /\ Throw(c, "chunk missing")
  <2>1. /\ pc'[c] \in {"returned", "thrown"} /\ Others(c) /\ call'[c].req = k.req
        /\ call'[c].stale = NoChunks /\ call'[c].outcome = "chunk missing"
        /\ call'[c].seen = k.seen
    BY <1>1, <1>2, EndsSo
  <2>2. Ran(c) /\ Advances(c)
    BY <1>1, <2>1 DEF Ran, Advances, Over, Modifying, Reading, Claims
  <2>3. Lists(c)
    BY <2>1 DEF Lists, NoChunks
  <2>4. Fetched(c)
    BY <1>1, <1>2, <2>1 DEF Fetched
  <2> QED
    BY <1>1, <2>2, <2>3, <2>4 DEF Deed, Serves, Answers
<1>3. CASE /\ Goto(c, IF last THEN "returned" ELSE "fetch")
           /\ call' = [call EXCEPT ![c] = n]
  <2> HIDE DEF fetched
  <2>1. /\ n.req = k.req /\ n.stale = k.stale /\ n.seen = k.seen /\ n.fetched = fetched
        /\ n.next = (IF last THEN 0 ELSE k.next + 1)
        /\ n.outcome = IF last THEN "value" ELSE k.outcome
    BY <1>1 DEF CallType
  <2> HIDE DEF n, last
  <2>2. call'[c] = n /\ Others(c) /\ pc'[c] = IF last THEN "returned" ELSE "fetch"
    BY <1>1, <1>3 DEF Goto, Others, TypeOK
  <2>3. Ran(c)
    BY <1>1, <2>1, <2>2 DEF Ran, Over, Modifying, Reading
  <2>4. Advances(c)
    BY <2>2 DEF Advances, Claims
  <2>5. Lists(c)
    BY <2>1, <2>2 DEF Lists
  <2>6. Fetched(c)
    BY <1>1, <2>1, <2>2 DEF Fetched, fetched, last
  <2> QED
    BY <1>1, <2>3, <2>4, <2>5, <2>6 DEF Deed, Serves, Answers
<1>4. \/ chunks[k.next] = None /\ Throw(c, "chunk missing")
      \/ /\ Goto(c, IF last THEN "returned" ELSE "fetch")
         /\ call' = [call EXCEPT ![c].fetched[k.next] = chunks[k.next],
                ![c].next = IF last THEN 0 ELSE @ + 1,
                ![c].outcome = IF last THEN "value" ELSE @]
  BY DEF Fetch
<1> QED
  BY <1>2, <1>3, <1>4

LEMMA EveryDeed ==
    ASSUME IInv, Shaped, ListsEtags, NEW c \in Calls, Step(c) \/ Lose(c) \/ Crash(c)
    PROVE  Deed(c)
  BY PreReadDeed, FirstWriteDeed, StoreChunkDeed, FinalWriteDeed, DeletesDeed, ListDeed,
     ReapDeed, ReadDeed, FetchDeed, StopDeed DEF Step
-----------------------------------------------------------------------------
(* A deed keeps every part of the invariant.                               *)

(* Who is active was active, and is asked what it was asked.               *)
LEMMA RanBack ==
    ASSUME NEW c \in Calls, Ran(c), NEW d \in Calls
    PROVE  /\ (~Finished(d))' => ~Finished(d)
           /\ Writing(d)' => Writing(d)
           /\ call'[d].req = call[d].req
           /\ pc[d] # "idle" => pc'[d] # "idle"
           /\ pc[d] \in Over => pc'[d] \in Over
<1>1. CASE d = c
  BY <1>1 DEF Ran, Finished, Writing, Over
<1>2. CASE d # c
  BY <1>2 DEF Ran, Others, Finished, Writing
<1> QED
  BY <1>1, <1>2

(* Beside a call that modifies, every other active one overlaps.           *)
LEMMA Overlapping ==
    ASSUME WInv, NEW c \in Calls, pc[c] \in Modifying, NEW d \in Calls, d # c,
           pc[d] \notin Over \union {"idle"}
    PROVE  d \in overlapped
<1>1. Writing(c) /\ ~Finished(d)
  BY Labelled DEF WInv, Sorted, Writing, Finished, Over, Modifying
<1> QED
  BY <1>1 DEF WInv, Beside

LEMMA AbsentFields ==
    Absent.by = None /\ Absent.count = 0 /\ Absent.state = "absent" /\ ~(0 > 0)
  BY DEF Absent

LEMMA BesideKept ==
    ASSUME WInv, NEW c \in Calls, Deed(c)
    PROVE  Beside' /\ \A d \in Calls : Sorted(d)'
<1>1. Beside'
  <2>1. UNCHANGED overlapped
    BY DEF Deed, Ran
  <2> QED
    BY <2>1, RanBack DEF Deed, Beside, WInv
<1>2. ASSUME NEW d \in Calls PROVE Sorted(d)'
  <2>1. CASE d = c
    BY <2>1 DEF WInv, Sorted, Deed, Ran
  <2>2. CASE d # c
    BY <2>2 DEF WInv, Sorted, Deed, Ran, Others
  <2> QED
    BY <2>1, <2>2
<1> QED
  BY <1>1, <1>2

(* What the stored document's writer becomes.                              *)
LEMMA WriterSo ==
    ASSUME NEW c \in Calls, Deed(c)
    PROVE  doc' = doc \/ (pc[c] \in {"first", "final"} /\ doc'.by = c) \/ doc' = Absent
  BY DEF Deed, Serves, Writes, Empties, Fills, Drops

LEMMA ClaimedKept ==
    ASSUME WInv, NEW c \in Calls, Deed(c), NEW d \in Calls
    PROVE  Claimed(d)'
<1>1. UNCHANGED overlapped /\ Claimed(d)
  BY DEF Deed, Ran, WInv
<1>2. CASE d = c
  BY <1>1, <1>2, WriterSo, AbsentFields DEF Claimed, Deed, Advances
<1>3. CASE d # c
  <2>1. pc'[d] = pc[d]
    BY <1>3 DEF Deed, Ran, Others
  <2>2. ASSUME pc[d] \in Claims, pc[c] \in {"first", "final"} PROVE c \in overlapped
    BY <1>3, <2>2, Labelled, Overlapping DEF Modifying, Over
  <2> QED
    BY <1>1, <2>1, <2>2, WriterSo, AbsentFields DEF Claimed
<1> QED
  BY <1>2, <1>3

LEMMA StoringKept ==
    ASSUME IInv, WInv, NEW c \in Calls, Deed(c), NEW d \in Calls
    PROVE  Storing(d)'
<1>1. UNCHANGED overlapped /\ Storing(d) /\ call'[d].req = call[d].req
  BY RanBack DEF Deed, Ran, WInv
<1>2. chunks \in [Indices -> Storers] /\ Indices \subseteq Nat /\ call[d].next \in Nat
  <2>1. chunks \in [Indices -> Storers] /\ call[d] \in CallType
    BY CallTyped DEF IInv, TypeOK
  <2>2. Indices \subseteq Nat
    BY ChunksPositive DEF ChunksPositive, Indices
  <2>3. call[d].next \in 0 .. MaxChunks
    BY <2>1 DEF CallType
  <2> QED
    BY <2>1, <2>2, <2>3, ChunksPositive DEF ChunksPositive
<1>3. CASE d = c
  <2>1. CASE pc'[c] \notin {"store", "final"}
    BY <1>3, <2>1 DEF Storing
  <2>2. CASE pc[c] = "first" /\ pc'[c] = "store" /\ call'[c].next = 0 /\ doc'.state # "complete"
    BY <1>2, <1>3, <2>2 DEF Storing
  <2>3. CASE /\ Fills(c) /\ call'[c].next = call[c].next + 1
             /\ pc'[c] = "final" => call'[c].next >= call[c].req.size
    <3>1. /\ pc[c] = "store" /\ UNCHANGED doc
          /\ chunks' = [chunks EXCEPT ![call[c].next] = c]
      BY <2>3 DEF Fills
    <3>2. ASSUME c \notin overlapped, NEW i \in Indices, i < call'[c].next
          PROVE  chunks'[i] = c
      <4>1. i < call[c].next \/ i = call[c].next
        BY <1>2, <1>3, <2>3, <3>2
      <4>2. i < call[c].next => chunks[i] = c
        BY <1>1, <1>3, <3>1, <3>2 DEF Storing
      <4> QED
        BY <1>2, <3>1, <4>1, <4>2
    <3> QED
      BY <1>1, <1>3, <2>3, <3>1, <3>2 DEF Storing
  <2> QED
    BY <2>1, <2>2, <2>3 DEF Deed, Advances
<1>4. CASE d # c
  <2>1. pc'[d] = pc[d] /\ call'[d] = call[d]
    BY <1>4 DEF Deed, Ran, Others
  <2>2. pc'[d] = "store" /\ doc'.by = d => doc'.state # "complete"
    BY <1>1, <1>4, <2>1, WriterSo, AbsentFields, CallersDistinct DEF CallersDistinct, Storing
  <2>3. ASSUME pc[d] \in {"store", "final"}, d \notin overlapped, NEW i \in Indices,
               i < call[d].next
        PROVE  chunks'[i] = d
    <3>1. pc[c] \notin Modifying
      BY <1>4, <2>3, Overlapping DEF Over
    <3>2. UNCHANGED chunks \/ Drops(c)
      BY <3>1 DEF Deed, Serves, Writes, Empties, Fills, Modifying
    <3>3. chunks[i] = d
      BY <1>1, <2>3 DEF Storing
    <3>4. ASSUME NEW j \in Indices, chunks[j] = call[c].stale[j] PROVE chunks[j] # d
      BY <2>3, <3>4 DEF WInv, Spared, Over
    <3> QED
      BY <1>2, <3>2, <3>3, <3>4 DEF Drops
  <2> QED
    BY <1>1, <2>1, <2>2, <2>3 DEF Storing
<1> QED
  BY <1>3, <1>4

LEMMA SparedKept ==
    ASSUME IInv, WInv, NEW c \in Calls, Deed(c), NEW d \in Calls
    PROVE  Spared(d)'
<1> SUFFICES ASSUME NEW i \in Indices
             PROVE  LET b == call'[d].stale[i]
                    IN /\ b = Past => doc'.by # Past
                       /\ b \in Calls => b \in overlapped' \/ (pc'[b] \in Over /\ doc'.by # b)
  BY DEF Spared
<1> DEFINE b == call'[d].stale[i]
<1>1. UNCHANGED overlapped /\ overlapped \subseteq Calls
  BY DEF Deed, Ran, IInv, TypeOK
<1>2. ASSUME b = Past => doc.by # Past,
             b \in Calls => b \in overlapped \/ (pc[b] \in Over /\ doc.by # b)
      PROVE  /\ b = Past => doc'.by # Past
             /\ b \in Calls => b \in overlapped' \/ (pc'[b] \in Over /\ doc'.by # b)
  <2>1. b = Past => doc'.by # Past
    BY <1>2, WriterSo, AbsentFields, CallersDistinct DEF CallersDistinct
  <2>2. ASSUME b \in Calls, pc[b] \in Over, doc.by # b PROVE pc'[b] \in Over /\ doc'.by # b
    <3>1. pc'[b] \in Over
      BY <2>2, RanBack DEF Deed
    <3>2. pc[c] \in {"first", "final"} => b # c
      BY <2>2 DEF Over
    <3> QED
      BY <2>2, <3>1, <3>2, WriterSo, AbsentFields, CallersDistinct DEF CallersDistinct
  <2> QED
    BY <1>1, <1>2, <2>1, <2>2
<1>3. CASE b \in {None, call[d].stale[i]}
  BY <1>2, <1>3, CallersDistinct DEF CallersDistinct, WInv, Spared
<1>4. CASE /\ d = c /\ pc[c] = "list" /\ UNCHANGED <<doc, chunks>>
           /\ i >= call[c].req.size /\ b = chunks[i]
  <2>1. doc.by \in {c, None} \union overlapped
    BY <1>4 DEF WInv, Claimed, Claims
  <2>2. b = Past => doc.by # Past
    BY <1>1, <2>1, CallersDistinct DEF CallersDistinct
  <2>3. ASSUME b \in Calls PROVE b \in overlapped \/ (pc[b] \in Over /\ doc.by # b)
    <3>1. pc[b] # "idle" /\ i < call[b].req.size
      BY <1>4, <2>3 DEF WInv, Shaped
    <3>2. call[c].req.size \in Nat /\ i \in Nat
      BY CallTyped, ChunksPositive DEF ChunksPositive, IInv, RequestType, Indices
    <3>3. b # c
      BY <1>4, <3>1, <3>2
    <3>4. pc[b] \in Over \/ b \in overlapped
      BY <1>4, <2>3, <3>1, <3>3, Overlapping DEF Modifying
    <3> QED
      BY <2>1, <2>3, <3>3, <3>4, CallersDistinct DEF CallersDistinct
  <2> QED
    BY <1>2, <2>2, <2>3
<1> QED
  <2>1. CASE d = c
    BY <1>3, <1>4, <2>1 DEF Deed, Lists
  <2>2. CASE d # c
    BY <1>3, <2>2 DEF Deed, Ran, Others
  <2> QED
    BY <2>1, <2>2

LEMMA ShapedKept ==
    ASSUME IInv, WInv, NEW c \in Calls, Deed(c)
    PROVE  Shaped'
<1>1. (doc'.state # "absent" => doc'.by # None) /\ (doc'.count > 0 => doc'.state = "complete")
  BY AbsentFields, CallersDistinct
     DEF CallersDistinct, Deed, Serves, Writes, Empties, Fills, Drops, WInv, Shaped
<1>2. ASSUME NEW i \in Indices, chunks'[i] \in Calls
      PROVE  pc'[chunks'[i]] # "idle" /\ i < call'[chunks'[i]].req.size
  <2>1. chunks \in [Indices -> Storers]
    BY DEF IInv, TypeOK
  <2>2. CASE chunks'[i] = chunks[i]
    BY <1>2, <2>2, RanBack DEF Deed, WInv, Shaped
  <2>3. CASE Fills(c) /\ i = call[c].next /\ chunks'[i] = c
    <3>1. i < call[c].req.size /\ pc[c] # "idle"
      BY <2>3 DEF Fills, IInv, InPayload
    <3> QED
      BY <2>3, <3>1, RanBack DEF Deed
  <2>4. chunks'[i] = chunks[i] \/ chunks'[i] = None \/ (Fills(c) /\ i = call[c].next /\ chunks'[i] = c)
    BY <2>1 DEF Deed, Serves, Writes, Empties, Fills, Drops, NoChunks
  <2> QED
    BY <1>2, <2>2, <2>3, <2>4, CallersDistinct DEF CallersDistinct
<1> QED
  BY <1>1, <1>2 DEF Shaped

LEMMA WholeKept ==
    ASSUME IInv, WInv, NEW c \in Calls, Deed(c)
    PROVE  WholeDocument'
<1> SUFFICES ASSUME doc'.state = "complete", doc'.by \notin overlapped',
                    NEW i \in Indices, i < doc'.count
             PROVE  chunks'[i] = doc'.by
  BY DEF WholeDocument, Holds
<1>1. UNCHANGED overlapped /\ chunks \in [Indices -> Storers]
  BY DEF Deed, Ran, IInv, TypeOK
<1>2. CASE Writes(c)
  <2>1. pc[c] = "final" /\ doc'.by = c /\ doc'.count = call[c].req.size /\ UNCHANGED chunks
    BY <1>2 DEF Writes
  <2>2. i \in Nat /\ call[c].next \in Nat /\ call[c].req.size \in Nat
    BY CallTyped, ChunksPositive DEF ChunksPositive, IInv, CallType, RequestType, Indices
  <2>3. call[c].next >= call[c].req.size
    BY <2>1 DEF WInv, Storing
  <2>4. i < call[c].next
    BY <2>1, <2>2, <2>3
  <2> QED
    BY <1>1, <2>1, <2>4 DEF WInv, Storing
<1>3. CASE Empties(c)
  BY <1>3, AbsentFields DEF Empties
<1>4. ASSUME UNCHANGED doc PROVE /\ chunks[i] = doc.by /\ doc.by \notin overlapped
                                 /\ doc.by # None /\ doc.state = "complete"
  BY <1>1, <1>4 DEF WInv, WholeDocument, Holds, Shaped
<1>5. CASE UNCHANGED <<doc, chunks>>
  BY <1>4, <1>5
<1>6. CASE Fills(c)
  <2>1. pc[c] = "store" /\ UNCHANGED doc
    BY <1>6 DEF Fills
  <2>2. doc.by = c
    BY <1>4, <2>1 DEF WInv, Claimed, Claims
  <2> QED
    BY <1>4, <2>1, <2>2 DEF WInv, Storing
<1>7. CASE Drops(c)
  <2>1. UNCHANGED doc
    BY <1>7 DEF Drops
  <2>2. PICK j \in Indices : /\ chunks[j] = call[c].stale[j]
                             /\ chunks' = [chunks EXCEPT ![j] = None]
    BY <1>7 DEF Drops
  <2>3. i # j
    <3> SUFFICES ASSUME i = j PROVE FALSE
      OBVIOUS
    <3>1. call[c].stale[j] = doc.by
      BY <1>4, <2>1, <2>2
    <3>2. doc.by = Past \/ doc.by \in Calls
      BY <1>1, <1>4, <2>1 DEF Storers
    <3> QED
      BY <1>4, <2>1, <3>1, <3>2 DEF WInv, Spared
  <2> QED
    BY <1>1, <1>4, <2>1, <2>2, <2>3
<1> QED
  BY <1>2, <1>3, <1>5, <1>6, <1>7 DEF Deed, Serves

(* A read that nobody disturbs finds each chunk where its document says.   *)
LEMMA FindsChunk ==
    ASSUME IInv, WInv, NEW c \in Calls, pc[c] = "fetch", c \notin overlapped,
           call[c].seen.by \notin overlapped
    PROVE  chunks[call[c].next] = call[c].seen.by /\ call[c].seen.by # None
<1>1. call[c].seen.state = "complete" /\ doc = call[c].seen
  BY DEF WInv, Fetching
<1>2. /\ call[c].next < call[c].seen.count /\ call[c].next \in Nat
      /\ call[c].seen.count \in 0 .. MaxChunks /\ MaxChunks \in Nat
  BY CallTyped, ChunksPositive DEF ChunksPositive, IInv, InPayload, CallType
<1>3. call[c].next \in Indices
  BY <1>2 DEF Indices
<1> QED
  BY <1>1, <1>2, <1>3 DEF WInv, WholeDocument, Holds, Shaped

LEMMA FetchingKept ==
    ASSUME IInv, WInv, NEW c \in Calls, Deed(c), NEW d \in Calls
    PROVE  Fetching(d)'
<1> SUFFICES ASSUME pc'[d] = "fetch" PROVE Fetching(d)'
  BY DEF Fetching
<1>1. UNCHANGED overlapped /\ Fetching(d)
  BY DEF Deed, Ran, WInv
<1>2. CASE d # c
  <2>1. pc[d] = "fetch" /\ call'[d] = call[d]
    BY <1>2 DEF Deed, Ran, Others
  <2>2. ASSUME d \notin overlapped PROVE UNCHANGED doc
    <3>1. pc[c] \notin Modifying
      BY <1>2, <2>1, <2>2, Overlapping DEF Over
    <3> QED
      BY <3>1 DEF Deed, Serves, Writes, Empties, Fills, Drops, Modifying
  <2> QED
    BY <1>1, <2>1, <2>2 DEF Fetching
<1>3. CASE d = c /\ Opened(c)
  <2>1. /\ UNCHANGED doc /\ call'[c].seen = doc /\ call'[c].next = 0 /\ doc.count > 0
    BY <1>3 DEF Opened, IInv, InPayload
  <2>2. doc.state = "complete"
    BY <2>1 DEF WInv, Shaped
  <2>3. \A i \in Indices : ~(i < 0)
    BY ChunksPositive DEF ChunksPositive, Indices
  <2> QED
    BY <1>3, <2>1, <2>2, <2>3 DEF Fetching
<1>4. CASE d = c /\ Fetched(c)
  <2> DEFINE k == call[c]
             n == call'[c]
  <2>1. /\ pc[c] = "fetch" /\ UNCHANGED doc /\ n.seen = k.seen /\ n.next = k.next + 1
        /\ n.fetched = [k.fetched EXCEPT ![k.next] = chunks[k.next]]
    BY <1>4 DEF Fetched
  <2>2. k.next \in Nat /\ k.fetched \in [Indices -> Storers] /\ Indices \subseteq Nat
    BY CallTyped, ChunksPositive DEF ChunksPositive, IInv, CallType, Indices
  <2>3. ASSUME c \notin overlapped, k.seen.by \notin overlapped, NEW i \in Indices, i < n.next
        PROVE  n.fetched[i] = k.seen.by
    <3>1. i < k.next \/ i = k.next
      BY <2>1, <2>2, <2>3
    <3>2. i < k.next => k.fetched[i] = k.seen.by
      BY <1>1, <1>4, <2>1, <2>3 DEF Fetching
    <3>3. chunks[k.next] = k.seen.by
      BY <2>1, <2>3, FindsChunk
    <3> QED
      BY <2>1, <2>2, <3>1, <3>2, <3>3
  <2> QED
    BY <1>1, <1>4, <2>1, <2>3 DEF Fetching
<1> QED
  BY <1>2, <1>3, <1>4 DEF Deed, Answers

LEMMA ReadWholeKept ==
    ASSUME IInv, WInv, NEW c \in Calls, Deed(c), NEW d \in Calls
    PROVE  ReadWhole(d)'
<1>1. UNCHANGED overlapped /\ ReadWhole(d)
  BY DEF Deed, Ran, WInv
<1>2. CASE d # c
  BY <1>1, <1>2 DEF Deed, Ran, Others, ReadWhole
<1> DEFINE k == call[c]
           n == call'[c]
<1>3. CASE d = c /\ Kept(c)
  BY <1>1, <1>3 DEF Kept, ReadWhole
<1>4. CASE d = c /\ n.outcome \notin {"value", "chunk missing"}
  BY <1>4 DEF ReadWhole
<1>5. CASE d = c /\ Opened(c)
  <2>1. /\ n.seen = doc /\ doc.state \in {"inline", "complete"} /\ k.outcome = "none"
        /\ doc.count > 0 => n.outcome = k.outcome
    BY <1>5 DEF Opened, WInv, Sorted, Reading
  <2>2. doc.count \in Nat
    BY ChunksPositive DEF ChunksPositive, IInv, TypeOK
  <2>3. ~(doc.count > 0) => Holds(doc, n.fetched)
    BY <2>2, ChunksPositive DEF ChunksPositive, Holds, Indices
  <2>4. CASE doc.count > 0
    BY <1>5, <2>1, <2>4 DEF ReadWhole
  <2>5. CASE ~(doc.count > 0)
    <3>1. n.outcome = "value"
      BY <1>5, <2>5 DEF Opened
    <3> QED
      BY <1>5, <2>1, <2>3, <2>5, <3>1 DEF ReadWhole
  <2> QED
    BY <2>4, <2>5
<1>6. CASE d = c /\ Fetched(c)
  <2>1. /\ pc[c] = "fetch" /\ n.seen = k.seen /\ k.seen.state = "complete" /\ k.outcome = "none"
    BY <1>6 DEF Fetched, WInv, Fetching, Sorted, Reading
  <2>2. k.next \in Nat /\ k.fetched \in [Indices -> Storers] /\ Indices \subseteq Nat
    BY CallTyped, ChunksPositive DEF ChunksPositive, IInv, CallType, Indices
  <2>3. ASSUME c \notin overlapped, k.seen.by \notin overlapped
        PROVE  /\ n.outcome = "value" => Holds(k.seen, n.fetched)
               /\ n.outcome # "chunk missing"
    <3>1. chunks[k.next] = k.seen.by /\ k.seen.by # None
      BY <2>1, <2>3, FindsChunk
    <3>2. /\ n.fetched = [k.fetched EXCEPT ![k.next] = chunks[k.next]]
          /\ n.outcome = k.outcome \/ (n.outcome = "value" /\ k.next + 1 = k.seen.count)
      BY <1>6, <3>1 DEF Fetched
    <3>3. ASSUME k.next + 1 = k.seen.count, NEW i \in Indices, i < k.seen.count
          PROVE  n.fetched[i] = k.seen.by
      <4>1. i < k.next \/ i = k.next
        BY <2>2, <3>3
      <4>2. i < k.next => k.fetched[i] = k.seen.by
        BY <2>1, <2>3 DEF WInv, Fetching
      <4> QED
        BY <2>2, <3>1, <3>2, <4>1, <4>2
    <3> QED
      BY <2>1, <3>2, <3>3 DEF Holds
  <2> QED
    BY <1>1, <1>6, <2>1, <2>3 DEF ReadWhole
<1> QED
  BY <1>2, <1>3, <1>4, <1>5, <1>6 DEF Deed, Answers
-----------------------------------------------------------------------------
(* The whole step, and what it proves.                                     *)

(* A call that starts is told of the calls it runs beside.                 *)
LEMMA StartKeeps ==
    ASSUME IInv, WInv, NEW c \in Calls, Start(c)
    PROVE  WInv'
<1>1. PICK req \in RequestsOf[c] : \E pin \in Quotable(req) :
         /\ Goto(c, Entry(req))
         /\ call' = [call EXCEPT ![c] = Locals(req, pin)]
         /\ overlapped' = overlapped \union Overlaps(c, req)
  BY DEF Start
<1>2. PICK pin \in Quotable(req) :
         /\ Goto(c, Entry(req))
         /\ call' = [call EXCEPT ![c] = Locals(req, pin)]
         /\ overlapped' = overlapped \union Overlaps(c, req)
  BY <1>1
<1>3. pc[c] = "idle" /\ UNCHANGED <<doc, chunks>> /\ overlapped \subseteq overlapped'
  BY <1>2 DEF Start
<1> DEFINE n == Locals(req, pin)
<1>4. n.req = req /\ n.stale = NoChunks /\ n.outcome = "none"
  BY DEF Locals
<1> HIDE DEF n
<1>5. pc'[c] = Entry(req) /\ call'[c] = n /\ Others(c)
  BY <1>2 DEF IInv, TypeOK, Goto, Others, n
<1>6. pc'[c] \in {"preread", "delete", "read"} /\ (pc'[c] # "read" => req.kind # "get")
  BY <1>5 DEF Entry
<1>7. Shaped'
  BY <1>3, <1>5 DEF WInv, Shaped, Others
<1>8. Beside'
  <2> SUFFICES ASSUME NEW d \in Calls, NEW e \in Calls, d # e, (~Finished(d))', Writing(e)'
               PROVE  d \in overlapped'
    BY DEF Beside
  <2>1. CASE d = c
    <3>1. Writing(e)
      BY <1>5, <2>1 DEF Others, Writing, Finished
    <3> QED
      BY <1>2, <2>1, <3>1 DEF Overlaps
  <2>2. CASE e = c
    <3>1. ~Finished(d) /\ req.kind # "get"
      BY <1>4, <1>5, <2>2 DEF Others, Writing, Finished
    <3> QED
      BY <1>2, <3>1 DEF Overlaps
  <2>3. CASE d # c /\ e # c
    <3>1. ~Finished(d) /\ Writing(e)
      BY <1>5, <2>3 DEF Others, Writing, Finished
    <3> QED
      BY <1>3, <3>1 DEF WInv, Beside
  <2> QED
    BY <2>1, <2>2, <2>3
<1>9. WholeDocument'
  BY <1>3 DEF WInv, WholeDocument, Holds
<1>10. ASSUME NEW d \in Calls
       PROVE  /\ Sorted(d)' /\ Claimed(d)' /\ Storing(d)'
              /\ Spared(d)' /\ Fetching(d)' /\ ReadWhole(d)'
  <2>1. CASE d = c
    <3>1. Sorted(d)' /\ Claimed(d)' /\ Storing(d)' /\ Fetching(d)' /\ ReadWhole(d)'
      BY <1>4, <1>5, <1>6, <2>1 DEF Sorted, Claimed, Storing, Fetching, ReadWhole,
         Modifying, Reading, Claims
    <3>2. \A i \in Indices : call'[c].stale[i] = None
      BY <1>4, <1>5 DEF NoChunks
    <3>3. Spared(d)'
      BY <2>1, <3>2, CallersDistinct DEF CallersDistinct, Spared
    <3> QED
      BY <3>1, <3>3
  <2>2. CASE d # c
    <3>1. pc'[d] = pc[d] /\ call'[d] = call[d]
      BY <1>5, <2>2 DEF Others
    <3>2. Sorted(d) /\ Claimed(d) /\ Storing(d) /\ Fetching(d) /\ ReadWhole(d)
      BY DEF WInv
    <3>3. Sorted(d)' /\ Claimed(d)' /\ Storing(d)'
      BY <1>3, <3>1, <3>2 DEF Sorted, Claimed, Storing
    <3>4. Fetching(d)' /\ ReadWhole(d)'
      BY <1>3, <3>1, <3>2 DEF Fetching, ReadWhole, Holds
    <3>5. \A b \in Calls : pc[b] \in Over => pc'[b] = pc[b]
      BY <1>3, <1>5 DEF Others, Over
    <3>6. Spared(d)'
      BY <1>3, <3>1, <3>5 DEF WInv, Spared
    <3> QED
      BY <3>3, <3>4, <3>6
  <2> QED
    BY <2>1, <2>2
<1> QED
  BY <1>7, <1>8, <1>9, <1>10 DEF WInv

LEMMA WholeInit == Init => WInv
<1> SUFFICES ASSUME Init PROVE WInv
  OBVIOUS
<1>1. /\ \A c \in Calls : pc[c] = "idle" /\ call[c] = Locals(NoRequest, 0)
      /\ overlapped = {}
  BY DEF Init
<1>2. Locals(NoRequest, 0).stale = NoChunks /\ Locals(NoRequest, 0).outcome = "none"
  BY DEF Locals
<1>3. \/ /\ doc = Absent /\ chunks = NoChunks
      \/ /\ doc.state # "absent" /\ doc.by = Past /\ (doc.count > 0 => doc.state = "complete")
         /\ chunks \in [Indices -> {Past, None}]
         /\ \A i \in Indices : i < doc.count => chunks[i] = Past
  BY DEF Init
<1>4. Shaped
  BY <1>3, AbsentFields, CallersDistinct DEF CallersDistinct, Shaped, NoChunks
<1>5. WholeDocument
  BY <1>3, AbsentFields DEF WholeDocument, Holds
<1>6. Beside
  BY <1>1 DEF Beside, Finished
<1>7. ASSUME NEW c \in Calls
      PROVE  /\ Sorted(c) /\ Claimed(c) /\ Storing(c) /\ Spared(c)
             /\ Fetching(c) /\ ReadWhole(c)
  <2>1. Sorted(c) /\ Claimed(c) /\ Storing(c) /\ Fetching(c) /\ ReadWhole(c)
    BY <1>1, <1>2 DEF Sorted, Claimed, Storing, Fetching, ReadWhole, Modifying, Reading, Claims
  <2>2. Spared(c)
    BY <1>1, <1>2, CallersDistinct DEF CallersDistinct, Spared, NoChunks
  <2> QED
    BY <2>1, <2>2
<1> QED
  BY <1>4, <1>5, <1>6, <1>7 DEF WInv

LEMMA WholeStep ==
    ASSUME ListsEtags, IInv, WInv, [Next]_vars
    PROVE  WInv'
<1>1. CASE UNCHANGED vars
  <2>1. UNCHANGED <<doc, chunks, overlapped, pc, call>>
    BY <1>1 DEF vars
  <2>2. Shaped' /\ Beside' /\ WholeDocument'
    BY <2>1 DEF WInv, Shaped, Beside, WholeDocument, Holds, Finished, Writing
  <2>3. ASSUME NEW c \in Calls PROVE Sorted(c)' /\ Claimed(c)' /\ Storing(c)' /\ Spared(c)'
    BY <2>1 DEF WInv, Sorted, Claimed, Storing, Spared
  <2>4. ASSUME NEW c \in Calls PROVE Fetching(c)' /\ ReadWhole(c)'
    BY <2>1 DEF WInv, Fetching, ReadWhole, Holds
  <2> QED
    BY <2>2, <2>3, <2>4 DEF WInv
<1>2. ASSUME NEW c \in Calls, Step(c) \/ Lose(c) \/ Crash(c) PROVE WInv'
  <2>1. Deed(c)
    BY <1>2, EveryDeed DEF WInv
  <2> QED
    BY <2>1, BesideKept, ClaimedKept, StoringKept, SparedKept, ShapedKept, WholeKept,
       FetchingKept, ReadWholeKept DEF WInv
<1> QED
  BY <1>1, <1>2, StartKeeps DEF Next, Quiet

LEMMA WholeAlways == ListsEtags /\ Spec => []WInv
<1> SUFFICES ASSUME ListsEtags PROVE Spec => []WInv
  OBVIOUS
<1>1. IInv /\ WInv /\ [Next]_vars => WInv'
  BY WholeStep
<1> QED
  BY <1>1, WholeInit, Inductive, PTL DEF Spec

(* The chunked encoding (EdvCodec.ts: upsertResource, #reapChunks, get): a *)
(* document with a sealed chunk count has the chunks of the put that wrote *)
(* it, whatever failed or stopped before and whoever still reaps, unless   *)
(* another call wrote while that put ran; listings carry the chunks' ETags.*)
THEOREM StoredWhole == ListsEtags /\ Spec => []WholeDocument
<1> SUFFICES ASSUME ListsEtags PROVE Spec => []WholeDocument
  OBVIOUS
<1>1. WInv => WholeDocument
  BY DEF WInv
<1> QED
  BY <1>1, WholeAlways, PTL

(* The decode of a chunked document (EdvCodec.ts, get): a read that no     *)
(* writer disturbed opens no stub, misses no chunk and answers the chunks  *)
(* of one put, with any number of calls before it failed midway.           *)
THEOREM ReadsWhole == ListsEtags /\ Spec => []UndisturbedRead
<1> SUFFICES ASSUME ListsEtags PROVE Spec => []UndisturbedRead
  OBVIOUS
<1>1. WInv => UndisturbedRead
  BY DEF WInv, UndisturbedRead, ReadWhole
<1> QED
  BY <1>1, WholeAlways, PTL
-----------------------------------------------------------------------------
(* What a call reports.  What an undisturbed call has stored stays as it   *)
(* left it: its stub, then its document, and of the chunks it does not     *)
(* cover only those it listed.                                             *)

Stands(c) ==
    LET k == call[c]
    IN c \notin overlapped =>
         /\ pc[c] \in {"store", "final"} \/ (pc[c] = "cleanup" /\ ~k.unsure) =>
              doc.by = c /\ doc.state = "pending" /\ doc.version = k.written
         /\ pc[c] \in {"list", "reap"} =>
              doc.by = c /\ doc.state \in {"inline", "complete"} /\ doc.count = k.req.size
         /\ pc[c] = "reap" =>
              \A i \in Indices : i >= k.req.size => chunks[i] \in {None, k.stale[i]}

OInv == WInv /\ \A c \in Calls : Stands(c)

Own(c, states) == doc'.by = c /\ doc'.state \in states

(* What a call that ends may report, if it was sure of its answers,        *)
Matches(c) ==
    LET outcome == call'[c].outcome
    IN ~call'[c].unsure =>
         /\ outcome \in {"stored", "unreaped"} =>
              Own(c, {"inline", "complete"}) /\ doc'.count = call[c].req.size
         /\ outcome \in {"stub left", "not removed"} => Own(c, {"pending"})
         /\ outcome \in {"removed", "deleted"} => doc' = Absent /\ chunks' = NoChunks
         /\ outcome = "failed" => doc' = doc
         /\ outcome \notin {"lost race", "replaced since"}

(* and what it may leave.                                                  *)
Reaps(c) ==
    call'[c].outcome = "stored" /\ call[c].priorChunked =>
      \A i \in Indices : i >= call[c].req.size => chunks'[i] = None

Tells(c) == c \notin overlapped /\ Ends(c) => Matches(c) /\ Reaps(c)

(* A failure to be reported says whether the request may have been applied.*)
LEMMA FailsWith ==
    ASSUME TypeOK, NEW c \in Calls, NEW unsure \in BOOLEAN, Failing(c, unsure)
    PROVE  /\ unsure \/ call[c].unsure => call'[c].unsure
           /\ \/ pc'[c] = "thrown" /\ call'[c].outcome = ErrorOf(c)
              \/ /\ pc'[c] = "cleanup" /\ pc[c] \in {"store", "final"}
                 /\ call'[c].written = call[c].written
<1> DEFINE doubt == unsure \/ call[c].unsure
           cleans == pc[c] \in {"store", "final"} /\ call[c].prior = 0
<1>1. CASE ~cleans
  <2> DEFINE e == Ended(c, ErrorOf(c))
             n == [e EXCEPT !.unsure = doubt]
  <2>1. Goto(c, "thrown") /\ call' = [call EXCEPT ![c] = n]
    BY <1>1, Zenon DEF Failing
  <2>2. n.outcome = ErrorOf(c) /\ n.unsure = doubt
    BY DEF Ended, Locals
  <2> HIDE DEF e, n
  <2>3. call'[c] = n /\ pc'[c] = "thrown"
    BY <2>1 DEF Goto, TypeOK
  <2> QED
    BY <2>2, <2>3
<1>2. CASE cleans
  <2> DEFINE n == [call[c] EXCEPT !.unsure = doubt]
  <2>1. Goto(c, "cleanup") /\ call' = [call EXCEPT ![c] = n]
    BY <1>2, Zenon DEF Failing
  <2>2. n.unsure = doubt /\ n.written = call[c].written
    BY CallTyped DEF CallType
  <2> HIDE DEF n
  <2>3. call'[c] = n /\ pc'[c] = "cleanup"
    BY <2>1 DEF Goto, TypeOK
  <2> QED
    BY <1>2, <2>2, <2>3
<1> QED
  BY <1>1, <1>2

LEMMA EndsWith ==
    ASSUME TypeOK, NEW c \in Calls, NEW outcome, Return(c, outcome) \/ Throw(c, outcome)
    PROVE  /\ pc'[c] \in {"returned", "thrown"} /\ call'[c].outcome = outcome
           /\ call[c].unsure => call'[c].unsure
<1>1. call' = [call EXCEPT ![c] = Ended(c, outcome)]
  BY DEF Return, Throw
<1>2. call'[c] = Ended(c, outcome)
  BY <1>1 DEF TypeOK
<1>3. Ended(c, outcome).unsure = call[c].unsure
  BY DEF Ended, Locals
<1> QED
  BY <1>2, <1>3, EndsSo

(* The requests of an undisturbed call's own stub are admitted.            *)
LEMMA OwnAdmitted ==
    ASSUME TypeOK, NEW c \in Calls, doc.version = call[c].written
    PROVE  doc.version \in Only(call[c].written)
  BY DEF TypeOK, Only

(* Answers that say nothing of what is stored.                             *)
Mute == {"null", "value", "refused", "never completed", "chunk missing", "none"}

LEMMA MuteTells ==
    ASSUME NEW c \in Calls, call'[c].outcome \in Mute
    PROVE  Tells(c)
  BY DEF Mute, Tells, Matches, Reaps

(* A call that has ended, or has not stored anything yet.                  *)
LEMMA Elsewhere ==
    ASSUME NEW c \in Calls, pc'[c] \notin {"store", "final", "cleanup", "list", "reap"}
    PROVE  Stands(c)'
  BY DEF Stands

LEMMA ActiveTells ==
    ASSUME NEW c \in Calls, pc'[c] \notin {"returned", "thrown"}
    PROVE  Tells(c)
  BY DEF Tells, Ends

(* After the last document write: it stands, and if it replaced a chunked  *)
(* document the call does not return yet.                                  *)
LEMMA StoredTells ==
    ASSUME TypeOK, NEW c \in Calls, Stored(c), pc[c] \in {"first", "final"},
           doc'.by = c, doc'.state \in {"inline", "complete"}, doc'.count = call[c].req.size
    PROVE  Stands(c)' /\ Tells(c)
<1>1. CASE ~call[c].priorChunked /\ Return(c, "stored")
  <2>1. pc'[c] \in {"returned", "thrown"} /\ call'[c].outcome = "stored"
    BY <1>1, EndsWith
  <2> QED
    BY <1>1, <2>1, Elsewhere DEF Tells, Matches, Reaps, Own
<1>2. CASE Goto(c, "list") /\ call' = [call EXCEPT ![c].written = stamps']
  <2>1. pc'[c] = "list" /\ call'[c].req = call[c].req
    BY <1>2, CallTyped DEF Goto, TypeOK, CallType
  <2>2. Stands(c)'
    BY <2>1 DEF Stands
  <2> QED
    BY <2>1, <2>2, ActiveTells
<1> QED
  BY <1>1, <1>2 DEF Stored

(* Each step of a call says the truth, if it ends the call.                *)
LEMMA FirstTells ==
    ASSUME IInv, OInv, NEW c \in Calls, FirstWrite(c)
    PROVE  Stands(c)' /\ Tells(c)
<1> DEFINE k == call[c]
           inline == k.req.size = 0
<1>1. pc[c] = "first" /\ UNCHANGED overlapped /\ TypeOK /\ stamps \in Nat
  BY DEF FirstWrite, IInv, TypeOK
<1>2. CASE Throw(c, "refused")
  <2>1. pc'[c] = "thrown" \/ pc'[c] = "returned"
    BY <1>1, <1>2, EndsWith
  <2>2. call'[c].outcome \in Mute
    BY <1>1, <1>2, EndsWith DEF Mute
  <2> QED
    BY <2>1, <2>2, Elsewhere, MuteTells
<1>3. CASE /\ PutDocument(c, IF inline THEN "inline" ELSE "pending", 0)
           /\ \/ inline /\ Stored(c)
              \/ /\ ~inline
                 /\ Goto(c, "store")
                 /\ call' = [call EXCEPT ![c].written = stamps']
              \/ Failing(c, TRUE)
  <2>1. /\ doc'.by = c /\ doc'.count = 0 /\ doc'.version = stamps' /\ stamps' = stamps + 1
        /\ doc'.state = (IF inline THEN "inline" ELSE "pending")
    BY <1>3 DEF PutDocument
  <2>2. CASE Failing(c, TRUE)
    <3>1. call'[c].unsure /\ pc'[c] = "thrown" /\ call'[c].outcome = "failed"
      BY <1>1, <2>2, FailsWith DEF ErrorOf
    <3> QED
      BY <3>1, Elsewhere DEF Tells, Matches, Reaps
  <2>3. CASE inline /\ Stored(c)
    BY <1>1, <2>1, <2>3, StoredTells
  <2>4. CASE /\ ~inline /\ Goto(c, "store")
             /\ call' = [call EXCEPT ![c].written = stamps']
    <3>1. pc'[c] = "store" /\ call'[c].written = stamps'
      BY <1>1, <2>4, CallTyped DEF Goto, TypeOK, CallType
    <3>2. Stands(c)'
      BY <2>1, <2>4, <3>1 DEF Stands
    <3> QED
      BY <3>1, <3>2, ActiveTells
  <2> QED
    BY <1>3, <2>2, <2>3, <2>4
<1> QED
  BY <1>2, <1>3, Zenon DEF FirstWrite

LEMMA StoreTells ==
    ASSUME IInv, OInv, NEW c \in Calls, StoreChunk(c)
    PROVE  Stands(c)' /\ Tells(c)
<1> DEFINE k == call[c]
<1>1. pc[c] = "store" /\ UNCHANGED <<doc, overlapped>> /\ TypeOK /\ Stands(c)
  BY DEF StoreChunk, IInv, OInv
<1>2. CASE c \in overlapped
  BY <1>1, <1>2 DEF Stands, Tells
<1>3. CASE c \notin overlapped
  <2>1. doc.by = c /\ doc.state = "pending" /\ doc.version = k.written
    BY <1>1, <1>3 DEF Stands
  <2>2. CASE Failing(c, TRUE)
    <3>1. call'[c].unsure /\ pc'[c] \in {"thrown", "cleanup"}
          /\ (pc'[c] = "thrown" => call'[c].outcome = "stub left")
      BY <1>1, <2>2, FailsWith DEF ErrorOf
    <3> QED
      BY <3>1 DEF Stands, Tells, Matches, Reaps, Ends
  <2>3. CASE /\ Goto(c, IF MoreChunks(c) THEN "store" ELSE "final")
             /\ call' = [call EXCEPT ![c].next = @ + 1]
    <3>1. pc'[c] \in {"store", "final"}
      BY <1>1, <2>3 DEF Goto, TypeOK
    <3>2. call'[c].written = k.written
      BY <1>1, <2>3, CallTyped DEF TypeOK, CallType
    <3> QED
      BY <1>1, <2>1, <3>1, <3>2, ActiveTells DEF Stands
  <2> QED
    BY <2>1, <2>2, <2>3, Zenon DEF StoreChunk
<1> QED
  BY <1>2, <1>3

LEMMA FinalTells ==
    ASSUME IInv, OInv, NEW c \in Calls, FinalWrite(c)
    PROVE  Stands(c)' /\ Tells(c)
<1> DEFINE k == call[c]
<1>1. pc[c] = "final" /\ UNCHANGED overlapped /\ TypeOK /\ Stands(c) /\ stamps \in Nat
  BY DEF FinalWrite, IInv, OInv, TypeOK
<1>2. CASE c \in overlapped
  BY <1>1, <1>2 DEF Stands, Tells
<1>3. CASE c \notin overlapped
  <2>1. doc.version \in FinalAdmits(c)
    BY <1>1, <1>3, OwnAdmitted DEF Stands, FinalAdmits
  <2>2. PutDocument(c, "complete", k.req.size) /\ (Stored(c) \/ Failing(c, TRUE))
    BY <2>1, Zenon DEF FinalWrite
  <2>3. doc'.by = c /\ doc'.count = k.req.size /\ doc'.state = "complete"
    BY <2>2 DEF PutDocument
  <2>4. CASE Failing(c, TRUE)
    <3>1. call'[c].unsure /\ pc'[c] \in {"thrown", "cleanup"}
          /\ (pc'[c] = "thrown" => call'[c].outcome = "stub left")
      BY <1>1, <2>4, FailsWith DEF ErrorOf
    <3> QED
      BY <3>1 DEF Stands, Tells, Matches, Reaps, Ends
  <2>5. CASE Stored(c)
    BY <1>1, <2>3, <2>5, StoredTells
  <2> QED
    BY <2>2, <2>4, <2>5
<1> QED
  BY <1>2, <1>3

LEMMA CleanUpTells ==
    ASSUME IInv, OInv, NEW c \in Calls, CleanUp(c)
    PROVE  Stands(c)' /\ Tells(c)
<1> DEFINE k == call[c]
<1>1. pc[c] = "cleanup" /\ UNCHANGED overlapped /\ TypeOK /\ Stands(c)
  BY DEF CleanUp, IInv, OInv
<1>2. CASE Failing(c, TRUE)
  <2>1. call'[c].unsure /\ pc'[c] = "thrown" /\ call'[c].outcome = "not removed"
    BY <1>1, <1>2, FailsWith DEF ErrorOf
  <2> QED
    BY <2>1, Elsewhere DEF Tells, Matches, Reaps
<1>3. CASE DeleteDocument /\ Throw(c, "removed")
  <2>1. pc'[c] \in {"returned", "thrown"} /\ call'[c].outcome = "removed"
    BY <1>1, <1>3, EndsWith
  <2>2. doc' = Absent /\ chunks' = NoChunks
    BY <1>3 DEF DeleteDocument
  <2> QED
    BY <2>1, <2>2, Elsewhere DEF Tells, Matches, Reaps
<1>4. CASE doc.version \notin CleanupAdmits(c) /\ Throw(c, "replaced since")
  <2>1. /\ pc'[c] \in {"returned", "thrown"} /\ call'[c].outcome = "replaced since"
        /\ k.unsure => call'[c].unsure
    BY <1>1, <1>4, EndsWith
  <2>2. c \in overlapped \/ k.unsure
    BY <1>1, <1>4, OwnAdmitted DEF Stands, CleanupAdmits
  <2> QED
    BY <2>1, <2>2, Elsewhere DEF Tells, Matches, Reaps
<1> QED
  BY <1>2, <1>3, <1>4, Zenon DEF CleanUp

LEMMA DeleteTells ==
    ASSUME IInv, OInv, NEW c \in Calls, Delete(c)
    PROVE  Stands(c)' /\ Tells(c)
<1>1. pc[c] = "delete" /\ UNCHANGED overlapped /\ TypeOK
  BY DEF Delete, IInv
<1>2. CASE Failing(c, TRUE)
  <2>1. call'[c].unsure /\ pc'[c] = "thrown" /\ call'[c].outcome = "failed"
    BY <1>1, <1>2, FailsWith DEF ErrorOf
  <2> QED
    BY <2>1, Elsewhere DEF Tells, Matches, Reaps
<1>3. CASE DeleteDocument /\ Return(c, "deleted")
  <2>1. pc'[c] \in {"returned", "thrown"} /\ call'[c].outcome = "deleted"
    BY <1>1, <1>3, EndsWith
  <2>2. doc' = Absent /\ chunks' = NoChunks
    BY <1>3 DEF DeleteDocument
  <2> QED
    BY <2>1, <2>2, Elsewhere DEF Tells, Matches, Reaps
<1>4. CASE Throw(c, "refused")
  <2>1. pc'[c] \in {"returned", "thrown"} /\ call'[c].outcome \in Mute
    BY <1>1, <1>4, EndsWith DEF Mute
  <2> QED
    BY <2>1, Elsewhere, MuteTells
<1> QED
  BY <1>2, <1>3, <1>4, Zenon DEF Delete

LEMMA ListTells ==
    ASSUME IInv, OInv, NEW c \in Calls, ListChunks(c)
    PROVE  Stands(c)' /\ Tells(c)
<1> DEFINE k == call[c]
           stale == [i \in Indices |-> IF Uncovered(c, i) THEN chunks[i] ELSE None]
<1>1. pc[c] = "list" /\ UNCHANGED <<doc, chunks, overlapped>> /\ TypeOK /\ Stands(c)
  BY DEF ListChunks, IInv, OInv
<1>2. CASE (doc.state = "absent" \/ stale = NoChunks) /\ Return(c, "stored")
  <2>1. pc'[c] \in {"returned", "thrown"} /\ call'[c].outcome = "stored"
    BY <1>1, <1>2, EndsWith
  <2>2. ASSUME c \notin overlapped, NEW i \in Indices, i >= k.req.size
        PROVE  chunks[i] = None
    <3>1. stale = NoChunks
      BY <1>1, <1>2, <2>2 DEF Stands
    <3>2. stale[i] = NoChunks[i]
      BY <3>1
    <3> QED
      BY <2>2, <3>2 DEF Uncovered, NoChunks
  <2> QED
    BY <1>1, <2>1, <2>2, Elsewhere DEF Stands, Tells, Matches, Reaps, Own
<1>3. CASE /\ Goto(c, "reap")
           /\ call' = [call EXCEPT ![c].stale = stale, ![c].reapers = ReapConcurrency]
  <2> DEFINE n == [k EXCEPT !.stale = stale, !.reapers = ReapConcurrency]
  <2>1. call' = [call EXCEPT ![c] = n]
    BY <1>3
  <2>2. \A i \in Indices : i >= k.req.size => stale[i] = chunks[i]
    BY DEF Uncovered
  <2> HIDE DEF stale
  <2>3. n.req = k.req /\ n.stale = stale
    BY <1>1, CallTyped DEF CallType
  <2> HIDE DEF n
  <2>4. call'[c] = n /\ pc'[c] = "reap"
    BY <1>1, <1>3, <2>1 DEF Goto, TypeOK
  <2>5. Stands(c)'
    BY <1>1, <2>2, <2>3, <2>4 DEF Stands
  <2> QED
    BY <2>4, <2>5, ActiveTells
<1> QED
  BY <1>2, <1>3, Zenon DEF ListChunks

(* A worker leaves nothing at the index it deletes, whether it was the     *)
(* listed chunk's or already gone.                                         *)
LEMMA ReapTells ==
    ASSUME IInv, OInv, NEW c \in Calls, ReapChunk(c)
    PROVE  Stands(c)' /\ Tells(c)
<1> DEFINE k == call[c]
<1>1. /\ pc[c] \in {"reap", "thrown"} /\ UNCHANGED <<doc, overlapped>> /\ TypeOK
      /\ k \in CallType /\ chunks \in [Indices -> Storers] /\ Stands(c)
  BY CallTyped DEF ReapChunk, IInv, OInv, TypeOK
<1>2. PICK i \in InFlight(c) :
         \/ DeleteChunk(c, i) /\ (Reaped(c, i) \/ ReapFailed(c, i, TRUE))
         \/ UNCHANGED chunks /\ ReapFailed(c, i, FALSE)
  BY DEF ReapChunk
<1>3. i \in Indices /\ k.stale \in [Indices -> Storers]
  BY <1>1, ReapersPositive DEF CallType
<1>4. ASSUME NEW unsure \in BOOLEAN, ReapFailed(c, i, unsure)
      PROVE  Stands(c)' /\ Tells(c)
  <2> DEFINE left == IF k.reapers = 1 THEN NoChunks ELSE [k.stale EXCEPT ![i] = None]
             e == Ended(c, "unreaped")
             n == [e EXCEPT !.unsure = @ \/ unsure, !.reapers = k.reapers - 1, !.stale = left]
  <2>1. Goto(c, "thrown") /\ call' = [call EXCEPT ![c] = n]
    BY <1>4, Zenon DEF ReapFailed
  <2>2. e.outcome = "unreaped"
    BY <1>1, EndedFields
  <2> HIDE DEF left
  <2>3. n.outcome = e.outcome
    BY DEF Ended, Locals
  <2> HIDE DEF e, n
  <2>4. pc'[c] = "thrown" /\ call'[c].outcome = "unreaped"
    BY <1>1, <2>1, <2>2, <2>3 DEF Goto, TypeOK
  <2>5. c \notin overlapped /\ Ends(c) => Own(c, {"inline", "complete"}) /\ doc'.count = k.req.size
    BY <1>1 DEF Stands, Ends, Finished, Own
  <2> QED
    BY <2>4, <2>5, Elsewhere DEF Tells, Matches, Reaps
<1>5. CASE DeleteChunk(c, i) /\ Reaped(c, i)
  <2>1. /\ \A j \in Indices : chunks'[j] \in {chunks[j], None}
        /\ chunks'[i] = None \/ (chunks'[i] = chunks[i] /\ chunks[i] # k.stale[i])
    BY <1>1, <1>3, <1>5 DEF DeleteChunk
  <2>2. CASE pc[c] = "reap" /\ Remaining(c) = {i} /\ Return(c, "stored")
    <3>1. pc'[c] \in {"returned", "thrown"} /\ call'[c].outcome = "stored"
      BY <1>1, <2>2, EndsWith
    <3>2. \A j \in Indices : j # i => k.stale[j] = None
      BY <2>2 DEF Remaining
    <3>3. ASSUME c \notin overlapped, NEW j \in Indices, j >= k.req.size
          PROVE  chunks'[j] = None
      <4>1. chunks[j] \in {None, k.stale[j]}
        BY <1>1, <2>2, <3>3 DEF Stands
      <4> QED
        BY <2>1, <3>2, <4>1
    <3> QED
      BY <1>1, <2>2, <3>1, <3>3, Elsewhere DEF Stands, Tells, Matches, Reaps, Own
  <2>3. CASE call' = [call EXCEPT ![c].stale[i] = None] /\ UNCHANGED pc
    <3> DEFINE cut == [k.stale EXCEPT ![i] = None]
               n == [k EXCEPT !.stale = cut]
    <3>1. call' = [call EXCEPT ![c] = n]
      BY <2>3
    <3>2. \A j \in Indices : IF j = i THEN cut[j] = None ELSE cut[j] = k.stale[j]
      BY <1>3
    <3> HIDE DEF cut
    <3>3. n.req = k.req /\ n.stale = cut
      BY <1>1 DEF CallType
    <3> HIDE DEF n
    <3>4. call'[c] = n /\ pc'[c] = pc[c]
      BY <1>1, <2>3, <3>1 DEF TypeOK
    <3>5. ASSUME c \notin overlapped, pc[c] = "reap", NEW j \in Indices, j >= k.req.size
          PROVE  chunks'[j] \in {None, cut[j]}
      <4>1. chunks[j] \in {None, k.stale[j]}
        BY <1>1, <3>5 DEF Stands
      <4> QED
        BY <2>1, <3>2, <4>1
    <3>6. Stands(c)'
      BY <1>1, <3>3, <3>4, <3>5 DEF Stands
    <3>7. ~Ends(c)
      BY <1>1, <3>4 DEF Ends, Finished
    <3> QED
      BY <3>6, <3>7 DEF Tells
  <2> QED
    BY <1>5, <2>2, <2>3 DEF Reaped
<1> QED
  BY <1>2, <1>4, <1>5

LEMMA ReadsTell ==
    ASSUME IInv, NEW c \in Calls, PreRead(c) \/ Read(c) \/ Fetch(c)
    PROVE  Stands(c)' /\ Tells(c)
<1>1. TypeOK /\ call[c] \in CallType
  BY CallTyped DEF IInv
<1>2. CASE \E outcome \in Mute : Return(c, outcome) \/ Throw(c, outcome)
  <2>1. PICK outcome \in Mute : Return(c, outcome) \/ Throw(c, outcome)
    BY <1>2
  <2>2. pc'[c] \in {"returned", "thrown"} /\ call'[c].outcome = outcome
    BY <1>1, <2>1, EndsWith
  <2> QED
    BY <2>1, <2>2, Elsewhere, MuteTells
<1>3. CASE pc'[c] \in {"first", "fetch"} \/ (pc'[c] = "returned" /\ call'[c].outcome = "value")
  BY <1>3, Elsewhere, ActiveTells, MuteTells DEF Mute
<1>4. ASSUME PreRead(c) PROVE pc'[c] = "first" \/ Throw(c, "refused")
  BY <1>1, <1>4 DEF PreRead, Goto, TypeOK
<1>5. ASSUME Read(c)
      PROVE  \/ Return(c, "null") \/ Throw(c, "never completed")
             \/ pc'[c] = "fetch" \/ (pc'[c] = "returned" /\ call'[c].outcome = "value")
  <2> DEFINE d == Answered(c)
             n == [call[c] EXCEPT !.seen = d, !.outcome = IF d.count > 0 THEN @ ELSE "value"]
  <2>1. SUFFICES ASSUME IF d.count > 0 THEN Goto(c, "fetch") ELSE Goto(c, "returned"),
                        call' = [call EXCEPT ![c] = n]
                 PROVE  pc'[c] = "fetch" \/ (pc'[c] = "returned" /\ call'[c].outcome = "value")
    BY <1>5, Zenon DEF Read
  <2>2. ~(d.count > 0) => n.outcome = "value"
    BY <1>1 DEF CallType
  <2> HIDE DEF n
  <2> QED
    BY <1>1, <2>1, <2>2 DEF Goto, TypeOK
<1>6. ASSUME Fetch(c)
      PROVE  \/ Throw(c, "chunk missing")
             \/ pc'[c] = "fetch" \/ (pc'[c] = "returned" /\ call'[c].outcome = "value")
  <2> DEFINE k == call[c]
             last == k.next + 1 = k.seen.count
             n == [k EXCEPT !.fetched[k.next] = chunks[k.next],
                            !.next = IF last THEN 0 ELSE @ + 1,
                            !.outcome = IF last THEN "value" ELSE @]
  <2>1. SUFFICES ASSUME Goto(c, IF last THEN "returned" ELSE "fetch"),
                        call' = [call EXCEPT ![c] = n]
                 PROVE  pc'[c] = "fetch" \/ (pc'[c] = "returned" /\ call'[c].outcome = "value")
    BY <1>6, Zenon DEF Fetch
  <2>2. last => n.outcome = "value"
    BY <1>1 DEF CallType
  <2> HIDE DEF n, last
  <2> QED
    BY <1>1, <2>1, <2>2 DEF Goto, TypeOK
<1> QED
  BY <1>2, <1>3, <1>4, <1>5, <1>6 DEF Mute

LEMMA StopTells ==
    ASSUME IInv, OInv, NEW c \in Calls, Lose(c) \/ Crash(c)
    PROVE  Stands(c)' /\ Tells(c)
<1> DEFINE k == call[c]
<1>1. UNCHANGED <<doc, chunks, overlapped>> /\ TypeOK /\ Stands(c) /\ ~Finished(c)
  BY DEF Lose, Crash, IInv, OInv
<1>2. CASE Crash(c)
  <2>1. pc'[c] = "crashed"
    BY <1>1, <1>2 DEF Crash, Goto, TypeOK
  <2> QED
    BY <2>1, Elsewhere, ActiveTells
<1>3. CASE Lose(c)
  <2>1. /\ k.unsure => call'[c].unsure
        /\ \/ pc'[c] = "thrown" /\ call'[c].outcome = ErrorOf(c)
           \/ /\ pc'[c] = "cleanup" /\ pc[c] \in {"store", "final"}
              /\ call'[c].written = k.written
    BY <1>1, <1>3, FailsWith DEF Lose
  <2>2. CASE pc'[c] = "cleanup"
    <3>1. pc[c] \in {"store", "final"} /\ call'[c].written = k.written
      BY <2>1, <2>2
    <3>2. Stands(c)'
      BY <1>1, <2>2, <3>1 DEF Stands
    <3> QED
      BY <2>2, <3>2, ActiveTells
  <2>3. CASE pc'[c] = "thrown"
    <3>1. call'[c].outcome = ErrorOf(c)
      BY <2>1, <2>3
    <3>2. pc[c] # "reap"
      BY <1>3 DEF Lose
    <3>3. c \notin overlapped => Matches(c) /\ Reaps(c)
      BY <1>1, <2>1, <3>1, <3>2 DEF ErrorOf, Stands, Matches, Reaps, Own
    <3> QED
      BY <2>3, <3>3, Elsewhere DEF Tells
  <2> QED
    BY <2>1, <2>2, <2>3
<1> QED
  BY <1>2, <1>3

(* A call beside which an undisturbed one runs does not write, unless it   *)
(* still reaps.                                                            *)
LEMMA OthersStand ==
    ASSUME IInv, OInv, NEW d \in Calls, Deed(d), NEW c \in Calls \ {d}
    PROVE  Stands(c)' /\ Tells(c)
<1>1. pc'[c] = pc[c] /\ call'[c] = call[c] /\ UNCHANGED overlapped /\ Stands(c)
  BY DEF Deed, Ran, Others, OInv
<1>2. Tells(c)
  BY <1>1 DEF Tells, Ends, Finished
<1>3. CASE c \in overlapped \/ pc[c] \in Over \/ pc[c] = "idle"
  <2>1. CASE c \in overlapped
    BY <1>1, <1>2, <2>1 DEF Stands
  <2>2. CASE pc[c] \in Over \/ pc[c] = "idle"
    <3>1. pc'[c] \notin {"store", "final", "cleanup", "list", "reap"}
      BY <1>1, <2>2 DEF Over
    <3> QED
      BY <1>2, <3>1, Elsewhere
  <2> QED
    BY <1>2, <1>3, <2>1, <2>2
<1>4. CASE c \notin overlapped /\ pc[c] \notin Over \union {"idle"}
  <2>1. pc[d] \notin Modifying
    BY <1>4, Overlapping DEF OInv
  <2>2. UNCHANGED <<doc, chunks>> \/ Drops(d)
    BY <2>1 DEF Deed, Serves, Writes, Empties, Fills, Modifying
  <2>3. UNCHANGED doc /\ \A i \in Indices : chunks'[i] \in {chunks[i], None}
    BY <2>2 DEF Drops, IInv, TypeOK
  <2>4. Stands(c)'
    BY <1>1, <2>3 DEF Stands
  <2> QED
    BY <1>2, <2>4
<1> QED
  BY <1>2, <1>3, <1>4

LEMMA StartStands ==
    ASSUME IInv, OInv, NEW d \in Calls, Start(d), NEW c \in Calls
    PROVE  Stands(c)' /\ Tells(c)
<1>1. PICK req \in RequestsOf[d] : \E pin \in Quotable(req) :
         /\ Goto(d, Entry(req))
         /\ call' = [call EXCEPT ![d] = Locals(req, pin)]
         /\ overlapped' = overlapped \union Overlaps(d, req)
  BY DEF Start
<1>2. PICK pin \in Quotable(req) :
         /\ Goto(d, Entry(req))
         /\ call' = [call EXCEPT ![d] = Locals(req, pin)]
         /\ overlapped' = overlapped \union Overlaps(d, req)
  BY <1>1
<1>3. UNCHANGED <<doc, chunks>> /\ overlapped \subseteq overlapped' /\ TypeOK
  BY <1>2 DEF Start, IInv
<1>4. CASE c = d
  <2>1. pc'[c] \in {"preread", "delete", "read"}
    BY <1>2, <1>3, <1>4 DEF Goto, Entry, TypeOK
  <2> QED
    BY <2>1, Elsewhere, ActiveTells
<1>5. CASE c # d
  <2>1. pc'[c] = pc[c] /\ call'[c] = call[c]
    BY <1>2, <1>3, <1>5 DEF Goto, TypeOK
  <2>2. Stands(c)
    BY DEF OInv
  <2>3. Stands(c)'
    BY <1>3, <2>1, <2>2 DEF Stands
  <2> QED
    BY <2>1, <2>3 DEF Tells, Ends, Finished
<1> QED
  BY <1>4, <1>5

LEMMA AllTell ==
    ASSUME ListsEtags, IInv, OInv, [Next]_vars
    PROVE  OInv' /\ (vars' # vars => \A c \in Calls : Tells(c))
<1>1. WInv'
  BY WholeStep DEF OInv
<1>2. ASSUME NEW d \in Calls, Step(d) \/ Lose(d) \/ Crash(d), NEW c \in Calls
      PROVE  Stands(c)' /\ Tells(c)
  <2>1. CASE c = d
    BY <1>2, <2>1, FirstTells, StoreTells, FinalTells, CleanUpTells, DeleteTells,
       ListTells, ReapTells, ReadsTell, StopTells DEF Step
  <2>2. CASE c # d
    <3>1. Deed(d)
      BY <1>2, EveryDeed DEF OInv, WInv
    <3> QED
      BY <2>2, <3>1, OthersStand
  <2> QED
    BY <2>1, <2>2
<1>3. CASE UNCHANGED vars
  <2>1. \A c \in Calls : Stands(c)'
    BY <1>3 DEF vars, OInv, Stands
  <2> QED
    BY <1>1, <1>3, <2>1 DEF OInv
<1>4. CASE \E d \in Calls : Start(d) \/ Step(d) \/ Lose(d) \/ Crash(d)
  <2>1. PICK d \in Calls : Start(d) \/ Step(d) \/ Lose(d) \/ Crash(d)
    BY <1>4
  <2>2. \A c \in Calls : Stands(c)' /\ Tells(c)
    BY <1>2, <2>1, StartStands
  <2> QED
    BY <1>1, <2>2 DEF OInv
<1> QED
  BY <1>3, <1>4 DEF Next, Quiet

LEMMA StandsAlways == ListsEtags /\ Spec => []OInv
<1> SUFFICES ASSUME ListsEtags PROVE Spec => []OInv
  OBVIOUS
<1>1. Init => OInv
  <2> SUFFICES ASSUME Init PROVE OInv
    OBVIOUS
  <2>1. \A c \in Calls : pc[c] = "idle"
    BY DEF Init
  <2> QED
    BY <2>1, WholeInit DEF OInv, Stands
<1>2. IInv /\ OInv /\ [Next]_vars => OInv'
  BY AllTell
<1> QED
  BY <1>1, <1>2, Inductive, PTL DEF Spec

(* The errors of a chunked write (EdvCodec.ts, #chunkedWriteFailed and     *)
(* #reapFailed): a call that nothing disturbed and that was sure of its    *)
(* answers reports exactly what it left stored, whichever request failed,  *)
(* and never blames another writer.                                        *)
THEOREM ReportsWhatIsStored == ListsEtags /\ Spec => OutcomeMatchesStore
<1> SUFFICES ASSUME ListsEtags PROVE Spec => OutcomeMatchesStore
  OBVIOUS
<1>1. ASSUME IInv, OInv, [Next]_vars, vars' # vars
      PROVE  \A c \in Calls :
         LET outcome == call'[c].outcome
             own(states) == doc'.by = c /\ doc'.state \in states
         IN Ends(c) /\ c \notin overlapped /\ ~call'[c].unsure =>
              /\ outcome \in {"stored", "unreaped"} =>
                   own({"inline", "complete"}) /\ doc'.count = call[c].req.size
              /\ outcome \in {"stub left", "not removed"} => own({"pending"})
              /\ outcome \in {"removed", "deleted"} =>
                   doc' = Absent /\ chunks' = NoChunks
              /\ outcome = "failed" => doc' = doc
              /\ outcome \notin {"lost race", "replaced since"}
  BY <1>1, AllTell DEF Tells, Matches, Own
<1>2. IInv /\ OInv /\ [Next]_vars =>
        [\A c \in Calls :
         LET outcome == call'[c].outcome
             own(states) == doc'.by = c /\ doc'.state \in states
         IN Ends(c) /\ c \notin overlapped /\ ~call'[c].unsure =>
              /\ outcome \in {"stored", "unreaped"} =>
                   own({"inline", "complete"}) /\ doc'.count = call[c].req.size
              /\ outcome \in {"stub left", "not removed"} => own({"pending"})
              /\ outcome \in {"removed", "deleted"} =>
                   doc' = Absent /\ chunks' = NoChunks
              /\ outcome = "failed" => doc' = doc
              /\ outcome \notin {"lost race", "replaced since"}]_vars
  BY <1>1
<1> QED
  BY <1>2, Inductive, StandsAlways, PTL DEF Spec, OutcomeMatchesStore

(* Reaping (EdvCodec.ts, #reapChunks): a put over a chunked document that  *)
(* returned, with any number of workers and chunks and whatever earlier    *)
(* calls' workers still delete, left no chunk its document does not cover. *)
THEOREM NothingLeftOver == ListsEtags /\ Spec => ReplacedChunksReaped
<1> SUFFICES ASSUME ListsEtags PROVE Spec => ReplacedChunksReaped
  OBVIOUS
<1>1. IInv /\ OInv /\ [Next]_vars =>
        [\A c \in Calls :
           /\ Ends(c) /\ c \notin overlapped
           /\ call'[c].outcome = "stored" /\ call[c].priorChunked
           => \A i \in Indices : i >= call[c].req.size => chunks'[i] = None]_vars
  BY AllTell DEF Tells, Reaps
<1> QED
  BY <1>1, Inductive, StandsAlways, PTL DEF Spec, ReplacedChunksReaped
=============================================================================
