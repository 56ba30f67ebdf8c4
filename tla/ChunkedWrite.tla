---------------------------- MODULE ChunkedWrite ----------------------------
(***************************************************************************)
(* One resource of an encrypted Collection, and the calls that read, write *)
(* and delete it through the EDV codec (src/edv/EdvCodec.ts).              *)
(*                                                                         *)
(* A payload over the threshold is stored as a document and chunk          *)
(* resources, by several requests: the document as a pending stub, each    *)
(* chunk, the document again with its sealed chunk count, and then the     *)
(* reaping of the chunks an earlier document left.  Requests of different  *)
(* calls interleave, any request may fail, the answer of one that was      *)
(* applied may be lost, and the caller's process may stop between two.     *)
(*                                                                         *)
(* A call has no state beyond its own locals, so each action is one        *)
(* request together with what the call does with its outcome.  The server  *)
(* (external) gives every stored document a fresh ETag, its version; 0 is  *)
(* no document.  No call stores a chunk index twice, so the call that      *)
(* stored a chunk stands for the chunk's bytes and for its ETag.           *)
(***************************************************************************)
EXTENDS Naturals, FiniteSets

CONSTANTS Calls,           \* calls of put, delete and get on the resource
          RequestsOf,      \* what each call may be asked to do
          Readers,         \* calls whose capability can read the resource
          MaxChunks,       \* the most chunks a payload takes
          ReapConcurrency, \* REAP_CONCURRENCY
          ServesEtag,      \* the server serves and acks document validators
          ListsEtags,      \* the chunk listing carries the chunks' ETags
          None, Past       \* no call; whatever wrote before these calls

VARIABLES doc,        \* the stored document
          chunks,     \* who stored the chunk at each index, None for nobody
          stamps,     \* versions issued so far
          overlapped, \* calls that ran while another call was writing
          pc, call    \* where each call is, and its locals

vars == <<doc, chunks, stamps, overlapped, pc, call>>

Indices == 0 .. MaxChunks - 1
Storers == Calls \union {Past, None}
NoChunks == [i \in Indices |-> None]

(* size: chunks the payload takes, 0 when it is stored inline; absent and  *)
(* pinned: the caller's ifNoneMatch and ifMatch.                           *)
RequestType == [kind : {"put", "delete", "get"}, size : 0 .. MaxChunks,
                absent : BOOLEAN, pinned : BOOLEAN]
NoRequest == [kind |-> "get", size |-> 0, absent |-> FALSE, pinned |-> FALSE]

ASSUME ChunksPositive == MaxChunks \in Nat \ {0} /\ ReapConcurrency \in Nat \ {0}
ASSUME ValidatorSwitches == ServesEtag \in BOOLEAN /\ ListsEtags \in BOOLEAN
ASSUME CallersDistinct == None \notin Calls /\ Past \notin Calls /\ None # Past
ASSUME ReadersAmongCalls == Readers \subseteq Calls
(* A put may name one precondition and a delete an ifMatch, if there is an *)
(* ETag to name.                                                           *)
ASSUME RequestsAdmissible ==
    RequestsOf \in [Calls -> SUBSET {r \in RequestType :
        /\ r.absent => r.kind = "put" /\ ~r.pinned
        /\ r.pinned => r.kind # "get" /\ ServesEtag
        /\ r.size > 0 => r.kind = "put"}]

States == {"absent", "inline", "pending", "complete"}
Absent == [version |-> 0, state |-> "absent", by |-> None, count |-> 0]

Labels == {"idle", "preread", "first", "store", "final", "cleanup", "list",
           "reap", "delete", "read", "fetch", "returned", "thrown", "crashed"}

(* What a call returned, or which error it threw.                          *)
Outcomes == {"none", "stored", "deleted", "null", "value", "failed", "refused",
             "lost race", "stub left", "removed", "replaced since",
             "not removed", "unreaped", "never completed", "chunk missing"}

(* The locals of a call.                                                   *)
(*   pin           the ETag the caller named                               *)
(*   prior         the version the pre-read answered, 0 for none           *)
(*   priorChunked  its bytes live in chunk resources                       *)
(*   written       the transport's lastDocumentWrite, 0 for none           *)
(*   next          the next chunk to store or fetch                        *)
(*   stale         the listed chunks still to reap, with their ETags       *)
(*   reapers       reap workers still running                              *)
(*   seen, fetched the document and the chunks a read was answered         *)
(*   unsure        the answer of an applied request was lost               *)
Locals(req, pin) ==
    [req |-> req, pin |-> pin, prior |-> 0, priorChunked |-> FALSE,
     written |-> 0, next |-> 0, stale |-> NoChunks, reapers |-> 0,
     seen |-> Absent, fetched |-> NoChunks, unsure |-> FALSE,
     outcome |-> "none"]
-----------------------------------------------------------------------------
(* Shared vocabulary.                                                      *)

Finished(c) == pc[c] \in {"idle", "returned", "thrown", "crashed"}

Writing(c) == ~Finished(c) /\ call[c].req.kind # "get"

(* The versions a conditional request admits: without a validator to name, *)
(* any.                                                                    *)
Only(v) == IF ServesEtag \/ v = 0 THEN {v} ELSE 0 .. stamps

(* Faulty variants: a write conditional on nothing, an update of the stub  *)
(* conditional on nothing, and a cleanup pinned to the pre-read.           *)
AnyDocument(c) == 0 .. stamps
CleanupOfPrior(c) == Only(call[c].prior)

(* The first document write is pinned to the pre-read, later ones to the   *)
(* last one acked (PwsTransport.update).                                   *)
FirstAdmits(c) == Only(call[c].prior)
FinalAdmits(c) == Only(call[c].written)

(* The cleanup deletes only the version this call wrote.                   *)
CleanupAdmits(c) == Only(call[c].written)

(* A sealed chunked encoding, completed or not.                            *)
Chunked(d) == d.state \in {"complete", "pending"}

(* Faulty variant: a stub reads as a payload without chunks.               *)
EverythingOpens(d) == TRUE

(* A stub seals no chunk count, and no read opens it.                      *)
Opens(d) == d.state # "pending"

(* Faulty variants: one chunk of the new document counts as stale, and one *)
(* stale chunk does not.                                                   *)
StaleFromLast(c, i) == i + 1 >= call[c].req.size
StalePastFirst(c, i) == i > call[c].req.size

(* A listed chunk the new document does not cover.                         *)
Uncovered(c, i) == i >= call[c].req.size

(* Whether chunks of the payload remain once the next one is stored.       *)
MoreChunks(c) == call[c].next + 1 < call[c].req.size

Goto(c, label) == pc' = [pc EXCEPT ![c] = label]

(* A call that ends drops its locals, a read keeps what it was answered.   *)
Ended(c, outcome) ==
    [Locals(call[c].req, 0) EXCEPT !.outcome = outcome,
        !.unsure = call[c].unsure, !.seen = call[c].seen,
        !.fetched = call[c].fetched]

Return(c, outcome) ==
    Goto(c, "returned") /\ call' = [call EXCEPT ![c] = Ended(c, outcome)]

Throw(c, outcome) ==
    Goto(c, "thrown") /\ call' = [call EXCEPT ![c] = Ended(c, outcome)]

(* The error a failed request becomes when nothing is cleaned up first.    *)
ErrorOf(c) ==
    CASE pc[c] \in {"store", "final"} -> "stub left"
      [] pc[c] = "cleanup" -> "not removed"
      [] pc[c] = "list" -> "unreaped"
      [] OTHER -> "failed"

(* What follows a failed request: a create that wrote its stub deletes it, *)
(* a replace leaves it, anything else throws.  unsure: it was applied.     *)
Failing(c, unsure) ==
    LET doubt == unsure \/ call[c].unsure
    IN IF pc[c] \in {"store", "final"} /\ call[c].prior = 0
       THEN /\ Goto(c, "cleanup")
            /\ call' = [call EXCEPT ![c].unsure = doubt]
       ELSE /\ Goto(c, "thrown")
            /\ call' = [call EXCEPT ![c] =
                          [Ended(c, ErrorOf(c)) EXCEPT !.unsure = doubt]]
-----------------------------------------------------------------------------
(* A call begins, and the pre-read (upsertResource).                       *)

Entry(req) == CASE req.kind = "put" -> "preread"
                [] req.kind = "delete" -> "delete"
                [] OTHER -> "read"

(* The ETags a caller may quote: any the server ever issued.               *)
Quotable(req) == IF req.pinned THEN 1 .. stamps ELSE {0}

(* Whom a call that starts now overlaps: itself and every reader, if       *)
(* anyone writes meanwhile.                                                *)
Overlaps(c, req) ==
    (IF \E d \in Calls : Writing(d) THEN {c} ELSE {})
      \union (IF req.kind = "get" THEN {} ELSE {d \in Calls : ~Finished(d)})

Start(c) ==
    /\ pc[c] = "idle"
    /\ \E req \in RequestsOf[c] : \E pin \in Quotable(req) :
         /\ Goto(c, Entry(req))
         /\ call' = [call EXCEPT ![c] = Locals(req, pin)]
         /\ overlapped' = overlapped \union Overlaps(c, req)
    /\ UNCHANGED <<doc, chunks, stamps>>

(* What a GET of the document answers: a capability that cannot read it is *)
(* told 404.                                                               *)
Answered(c) == IF c \in Readers THEN doc ELSE Absent

(* assertPreconditionAgainstPreRead.                                       *)
RefusedByPreRead(req, pin, d) ==
    \/ req.absent /\ d.state # "absent"
    \/ req.pinned /\ (d.state = "absent" \/ (ServesEtag /\ d.version # pin))

PreRead(c) ==
    LET d == Answered(c)
    IN /\ pc[c] = "preread"
       /\ IF RefusedByPreRead(call[c].req, call[c].pin, d)
          THEN Throw(c, "refused")
          ELSE /\ Goto(c, "first")
               /\ call' = [call EXCEPT ![c].prior = d.version,
                                       ![c].priorChunked = Chunked(d)]
       /\ UNCHANGED <<doc, chunks, stamps, overlapped>>
-----------------------------------------------------------------------------
(* The document and chunk requests of a put.  Each disjunct is one outcome *)
(* of the request; Lose is the one in which it is never applied.           *)

PutDocument(c, state, count) ==
    /\ doc' = [version |-> stamps + 1, state |-> state, by |-> c, count |-> count]
    /\ stamps' = stamps + 1

(* After the last document write: reap what a chunked prior left, if any.  *)
Stored(c) == IF call[c].priorChunked
             THEN /\ Goto(c, "list")
                  /\ call' = [call EXCEPT ![c].written = stamps']
             ELSE Return(c, "stored")

(* An inline payload is stored by this request; a chunked one begins with  *)
(* its pending stub.                                                       *)
FirstWrite(c) ==
    LET inline == call[c].req.size = 0
    IN /\ pc[c] = "first"
       /\ \/ /\ doc.version \in FirstAdmits(c)
             /\ PutDocument(c, IF inline THEN "inline" ELSE "pending", 0)
             /\ \/ inline /\ Stored(c)
                \/ /\ ~inline
                   /\ Goto(c, "store")
                   /\ call' = [call EXCEPT ![c].written = stamps']
                \/ Failing(c, TRUE)
          \/ /\ doc.version \notin FirstAdmits(c)
             /\ Throw(c, "refused")
             /\ UNCHANGED <<doc, stamps>>
       /\ UNCHANGED <<chunks, overlapped>>

(* A chunk is stored whatever is there, as long as there is a document.    *)
StoreChunk(c) ==
    /\ pc[c] = "store"
    /\ \/ /\ doc.state # "absent"
          /\ chunks' = [chunks EXCEPT ![call[c].next] = c]
          /\ \/ /\ Goto(c, IF MoreChunks(c) THEN "store" ELSE "final")
                /\ call' = [call EXCEPT ![c].next = @ + 1]
             \/ Failing(c, TRUE)
       \/ /\ doc.state = "absent"
          /\ Failing(c, FALSE)
          /\ UNCHANGED chunks
    /\ UNCHANGED <<doc, stamps, overlapped>>

(* The document again, with its chunk count, over this call's stub.        *)
FinalWrite(c) ==
    /\ pc[c] = "final"
    /\ \/ /\ doc.version \in FinalAdmits(c)
          /\ PutDocument(c, "complete", call[c].req.size)
          /\ Stored(c) \/ Failing(c, TRUE)
       \/ /\ doc.version \notin FinalAdmits(c)
          /\ Throw(c, "lost race")
          /\ UNCHANGED <<doc, stamps>>
    /\ UNCHANGED <<chunks, overlapped>>

(* Deleting a document deletes its chunks.                                 *)
DeleteDocument ==
    /\ doc' = Absent
    /\ chunks' = NoChunks

(* A create that failed partway deletes its stub, and then throws.         *)
CleanUp(c) ==
    /\ pc[c] = "cleanup"
    /\ \/ /\ doc.version \in CleanupAdmits(c)
          /\ DeleteDocument
          /\ Throw(c, "removed") \/ Failing(c, TRUE)
       \/ /\ doc.version \notin CleanupAdmits(c)
          /\ Throw(c, "replaced since")
          /\ UNCHANGED <<doc, chunks>>
    /\ UNCHANGED <<stamps, overlapped>>
-----------------------------------------------------------------------------
(* Reaping (#reapChunks).                                                  *)

ListChunks(c) ==
    LET stale == [i \in Indices |-> IF Uncovered(c, i) THEN chunks[i] ELSE None]
    IN /\ pc[c] = "list"
       /\ IF doc.state = "absent" \/ stale = NoChunks
          THEN Return(c, "stored")
          ELSE /\ Goto(c, "reap")
               /\ call' = [call EXCEPT ![c].stale = stale,
                                       ![c].reapers = ReapConcurrency]
       /\ UNCHANGED <<doc, chunks, stamps, overlapped>>

Remaining(c) == {i \in Indices : call[c].stale[i] # None}

(* The indices being deleted: the workers take them in ascending order.    *)
InFlight(c) == {i \in Remaining(c) :
                  Cardinality({j \in Remaining(c) : j < i}) < call[c].reapers}

(* A chunk delete applies to the chunk that was listed: one replaced since *)
(* (412) or gone (404) counts as reaped.                                   *)
DeleteChunk(c, i) ==
    chunks' = IF chunks[i] = call[c].stale[i] \/ ~ListsEtags
              THEN [chunks EXCEPT ![i] = None] ELSE chunks

(* The answer of a chunk delete.  The first failure is thrown at once; the *)
(* other workers go on.                                                    *)
Reaped(c, i) ==
    IF pc[c] = "reap" /\ Remaining(c) = {i}
    THEN Return(c, "stored")
    ELSE call' = [call EXCEPT ![c].stale[i] = None] /\ UNCHANGED pc

ReapFailed(c, i, unsure) ==
    /\ Goto(c, "thrown")
    /\ call' = [call EXCEPT ![c] =
         [Ended(c, "unreaped") EXCEPT
            !.unsure = @ \/ unsure,
            !.reapers = call[c].reapers - 1,
            !.stale = IF call[c].reapers = 1 THEN NoChunks
                      ELSE [call[c].stale EXCEPT ![i] = None]]]

ReapChunk(c) ==
    /\ pc[c] \in {"reap", "thrown"}
    /\ \E i \in InFlight(c) :
         \/ DeleteChunk(c, i) /\ (Reaped(c, i) \/ ReapFailed(c, i, TRUE))
         \/ UNCHANGED chunks /\ ReapFailed(c, i, FALSE)
    /\ UNCHANGED <<doc, stamps, overlapped>>
-----------------------------------------------------------------------------
(* Deleting and reading (Resource.delete, Resource.get, decode).           *)

(* Without a baseline a delete of nothing succeeds too.                    *)
Delete(c) ==
    LET admitted == IF call[c].req.pinned THEN {call[c].pin} ELSE 0 .. stamps
    IN /\ pc[c] = "delete"
       /\ \/ /\ doc.version \in admitted
             /\ DeleteDocument
             /\ Return(c, "deleted") \/ Failing(c, TRUE)
          \/ /\ doc.version \notin admitted
             /\ Throw(c, "refused")
             /\ UNCHANGED <<doc, chunks>>
       /\ UNCHANGED <<stamps, overlapped>>

Read(c) ==
    LET d == Answered(c)
    IN /\ pc[c] = "read"
       /\ \/ d.state = "absent" /\ Return(c, "null")
          \/ d.state # "absent" /\ ~Opens(d) /\ Throw(c, "never completed")
          \/ /\ d.state # "absent" /\ Opens(d)
             /\ IF d.count > 0 THEN Goto(c, "fetch") ELSE Goto(c, "returned")
             /\ call' = [call EXCEPT ![c].seen = d,
                           ![c].outcome = IF d.count > 0 THEN @ ELSE "value"]
       /\ UNCHANGED <<doc, chunks, stamps, overlapped>>

(* The chunks are fetched one by one.                                      *)
Fetch(c) ==
    LET k == call[c]
        last == k.next + 1 = k.seen.count
    IN /\ pc[c] = "fetch"
       /\ \/ /\ chunks[k.next] = None
             /\ Throw(c, "chunk missing")
          \/ /\ chunks[k.next] # None
             /\ Goto(c, IF last THEN "returned" ELSE "fetch")
             /\ call' = [call EXCEPT
                  ![c].fetched[k.next] = chunks[k.next],
                  ![c].next = IF last THEN 0 ELSE @ + 1,
                  ![c].outcome = IF last THEN "value" ELSE @]
       /\ UNCHANGED <<doc, chunks, stamps, overlapped>>
-----------------------------------------------------------------------------
(* A request fails without being applied (the network, a quota, a unique   *)
(* attribute another document holds).                                      *)
Lose(c) ==
    /\ ~Finished(c) /\ pc[c] # "reap"
    /\ Failing(c, FALSE)
    /\ UNCHANGED <<doc, chunks, stamps, overlapped>>

(* The caller's process stops.                                             *)
Crash(c) ==
    /\ ~Finished(c)
    /\ Goto(c, "crashed")
    /\ call' = [call EXCEPT ![c] = Ended(c, "none")]
    /\ UNCHANGED <<doc, chunks, stamps, overlapped>>

(* The resource as earlier calls, whole, failed or stopped, may leave it.  *)
Init ==
    /\ \/ doc = Absent /\ chunks = NoChunks
       \/ /\ doc \in [version : {1}, state : States \ {"absent"}, by : {Past},
                      count : 0 .. MaxChunks]
          /\ doc.count > 0 <=> doc.state = "complete"
          /\ chunks \in [Indices -> {Past, None}]
          /\ \A i \in Indices : i < doc.count => chunks[i] = Past
    /\ stamps = 1
    /\ overlapped = {}
    /\ pc = [c \in Calls |-> "idle"]
    /\ call = [c \in Calls |-> Locals(NoRequest, 0)]

Step(c) ==
    \/ PreRead(c) \/ FirstWrite(c) \/ StoreChunk(c) \/ FinalWrite(c)
    \/ CleanUp(c) \/ ListChunks(c) \/ ReapChunk(c)
    \/ Delete(c) \/ Read(c) \/ Fetch(c)

(* Every call has ended.                                                   *)
Quiet == (\A c \in Calls : Finished(c) /\ pc[c] # "idle") /\ UNCHANGED vars

Next == \/ \E c \in Calls : Start(c) \/ Step(c) \/ Lose(c) \/ Crash(c)
        \/ Quiet

Spec == Init /\ [][Next]_vars
-----------------------------------------------------------------------------
(* Properties.                                                             *)

CallType ==
    [req : (UNION {RequestsOf[c] : c \in Calls}) \union {NoRequest},
     pin : 0 .. stamps, prior : 0 .. stamps, priorChunked : BOOLEAN,
     written : 0 .. stamps, next : 0 .. MaxChunks,
     stale : [Indices -> Storers], reapers : 0 .. ReapConcurrency,
     seen : [version : 0 .. stamps, state : States,
             by : Storers, count : 0 .. MaxChunks],
     fetched : [Indices -> Storers], unsure : BOOLEAN, outcome : Outcomes]

(* Every variable keeps its shape, and no call stores more chunks than its *)
(* payload takes.                                                          *)
TypeOK ==
    /\ doc \in [version : 0 .. stamps, state : States,
                by : Storers, count : 0 .. MaxChunks]
    /\ chunks \in [Indices -> Storers]
    /\ stamps \in Nat
    /\ overlapped \subseteq Calls
    /\ pc \in [Calls -> Labels]
    /\ call \in [Calls -> CallType]
    /\ \A c \in Calls : pc[c] = "store" => call[c].next < call[c].req.size

Holds(d, stored) == \A i \in Indices : i < d.count => stored[i] = d.by

(* A document with a sealed chunk count has exactly the chunks of the call *)
(* that wrote it, however other calls before and after it failed, stopped  *)
(* or left reap workers running, unless another call wrote while it ran.   *)
WholeDocument ==
    doc.state = "complete" /\ doc.by \notin overlapped => Holds(doc, chunks)

(* A get that no writer disturbed answers the payload one put stored: it   *)
(* opens no stub, misses no chunk and mixes none in.                       *)
UndisturbedRead ==
    \A c \in Calls :
        LET k == call[c]
        IN /\ k.outcome = "value" => k.seen.state \in {"inline", "complete"}
           /\ c \notin overlapped /\ k.seen.by \notin overlapped =>
                /\ k.outcome = "value" => Holds(k.seen, k.fetched)
                /\ k.outcome # "chunk missing"

(* No document write replaces a version its call did not pre-read or write *)
(* itself, and the version is the one the caller named, if it named one.   *)
NoLostUpdate ==
    [][\A c \in Calls : doc' # doc /\ doc'.by = c =>
         \/ /\ pc[c] = "first"
            /\ doc.version = call[c].prior
            /\ call[c].req.absent => doc.state = "absent"
            /\ call[c].req.pinned => doc.version = call[c].pin
         \/ /\ pc[c] = "final"
            /\ doc.by = c /\ doc.state = "pending"]_vars

(* The cleanup of a failed create deletes its own stub and nothing else: a *)
(* document another writer stored at the id since is never removed.        *)
CleanUpSparesOthers ==
    [][\A c \in Calls :
         pc[c] = "cleanup" /\ pc'[c] # "cleanup" /\ doc' # doc =>
           doc.by = c /\ doc.state = "pending"]_vars

Ends(c) == ~Finished(c) /\ pc'[c] \in {"returned", "thrown"}

(* What a call that nothing disturbed reports is what is stored: a put that *)
(* returned is stored whole, an error says whether a stub is left, was     *)
(* deleted, or the new document is stored with old chunks unreaped, and    *)
(* none blames another writer.                                             *)
OutcomeMatchesStore ==
    [][\A c \in Calls :
         LET outcome == call'[c].outcome
             own(states) == doc'.by = c /\ doc'.state \in states
         IN Ends(c) /\ c \notin overlapped /\ ~call'[c].unsure =>
              /\ outcome \in {"stored", "unreaped"} =>
                   own({"inline", "complete"}) /\ doc'.count = call[c].req.size
              /\ outcome \in {"stub left", "not removed"} => own({"pending"})
              /\ outcome \in {"removed", "deleted"} =>
                   doc' = Absent /\ chunks' = NoChunks
              /\ outcome = "failed" => doc' = doc
              /\ outcome \notin {"lost race", "replaced since"}]_vars

(* When a put over a chunked document returns, no chunk its document does  *)
(* not cover is left, a stub's included, unless another call wrote too.    *)
ReplacedChunksReaped ==
    [][\A c \in Calls :
         /\ Ends(c) /\ c \notin overlapped
         /\ call'[c].outcome = "stored" /\ call[c].priorChunked
         => \A i \in Indices : i >= call[c].req.size => chunks'[i] = None]_vars

(* Promises that do not hold when calls overlap (README, Departures).      *)

(* Chunks are reaped only once they are unreachable (EdvCodec.ts,          *)
(* ARCHITECTURE.md): a document whose final update was stored has all its  *)
(* chunks, whoever else was writing.                                       *)
ReapedAreUnreachable ==
    doc.state = "complete" => \A i \in Indices : i < doc.count => chunks[i] # None

(* The document's conditional write proves that no other writer intervened *)
(* (ARCHITECTURE.md): a completed document holds no other writer's chunk.  *)
NoWriterIntervened ==
    doc.state = "complete" =>
        \A i \in Indices : i < doc.count => chunks[i] \in {doc.by, None}

(* The error that names another writer is thrown only if there was one.    *)
ReplacedByAnother ==
    [][\A c \in Calls :
         Ends(c) /\ call'[c].outcome = "replaced since" => c \in overlapped]_vars
=============================================================================
