----------------------------- MODULE ChangeFeed -----------------------------
(***************************************************************************)
(* The change feed of a Collection and those who walk it                   *)
(* (src/Collection.ts changes, resourceChanges and documents;              *)
(* src/sync/port.ts query).                                                *)
(*                                                                         *)
(* The server (external) gives every write the next position.  An entry of *)
(* the feed is a Resource at its last write, or one of the Collection's    *)
(* own records; a page holds the next entries after a checkpoint, and a    *)
(* null checkpoint ends the feed.  A replica (external) polls the port,    *)
(* keeps what a page brings and stores its checkpoint; a reader walks the  *)
(* whole feed once.                                                        *)
(***************************************************************************)
EXTENDS Requests, FiniteSets

CONSTANTS Ids, Records,       \* Resources, and the Collection's own records
          Replicas, Readers,  \* who polls the port, who calls documents()
          Delegated,          \* those whose capability may be revoked
          Allowed,            \* the methods each one's capability names
          MapAuthErrors,      \* the replicas whose port maps denials
          None,
          Limit, MaxPages,    \* entries a page may hold, pages a walk may read
          Initial,            \* the Resources there may be at first
          Casts,              \* who may take part together
          MaxFaults, MaxOthers \* faulty pages, and writes by others

VARIABLES doc, record, clock,  \* Resources, the other records' positions, the last one
          issue,               \* which checkpoints the server honours
          granted,             \* the delegated capability still stands
          faults, others,
          copy, checkpoint,    \* what each replica holds and has stored
          signal,              \* what its last poll told it
          walk

server == <<doc, record, clock, issue, granted, faults, others>>
replica == <<copy, checkpoint, signal>>
feedVars == <<server, replica, walk>>

Walkers == Replicas \union Readers

ASSUME WalkersTyped == /\ Delegated \subseteq Walkers /\ MapAuthErrors \subseteq Replicas
                       /\ Replicas \intersect Readers = {}
ASSUME EntriesTyped == IsFiniteSet(Ids) /\ IsFiniteSet(Records) /\ Ids \intersect Records = {}
ASSUME NoneApart == None \notin [issue : Nat, at : Nat] /\ None \notin {"no body", "no documents"}
ASSUME BoundsTyped == /\ Limit \in Nat \ {0} /\ MaxPages \in Nat \ {0}
                      /\ MaxFaults \in Nat /\ MaxOthers \in Nat

(* A Resource: its content's revision and, apart from it, its metadata's.  *)
Absence == [rev |-> 0, live |-> FALSE, json |-> TRUE, data |-> {}, metaRev |-> 0, custom |-> {}]

Position(entry) ==
    IF entry \in Records THEN record[entry]
    ELSE IF doc[entry].rev > doc[entry].metaRev THEN doc[entry].rev ELSE doc[entry].metaRev

Entries == {e \in Ids \union Records : Position(e) > 0}

(* The bodies a reader wants: Resources whose content is JSON.             *)
IsJson(resource) == resource.rev > 0 /\ resource.json
-----------------------------------------------------------------------------
(* The server answers.                                                     *)

After(point) == {e \in Entries : point = None \/ Position(e) > point.at}

First(n, entries) ==
    {e \in entries : Cardinality({f \in entries : Position(f) < Position(e)}) < n}

Last(entries) ==
    Position(CHOOSE e \in entries : \A f \in entries : Position(f) <= Position(e))

(* A page: the entries it holds, the checkpoint it ends at and, if any,    *)
(* what is wrong with it.                                                  *)
Page(point, n) ==
    LET held == First(n, After(point))
    IN [answer |-> Ok, ids |-> held, wrong |-> None, of |-> doc,
        next |-> IF held = {} THEN None ELSE [issue |-> issue, at |-> Last(held)]]

(* A server's faults: no body, no documents, an entry with no body of its  *)
(* own, and a checkpoint it gave out before.                               *)
FaultyPages(point, n) ==
    {[Page(point, n) EXCEPT !.wrong = "no body", !.ids = {}, !.next = None],
     [Page(point, n) EXCEPT !.wrong = "no documents", !.ids = {}, !.next = None],
     [Page(point, n) EXCEPT !.wrong = "no data"]}
    \union IF point = None THEN {} ELSE {[Page(point, n) EXCEPT !.next = point]}

Refused(answer) == [answer |-> answer, ids |-> {}, wrong |-> None, of |-> doc, next |-> None]

(* A denial is masked as an absence, or named.                             *)
Denials == {Answer(404, "not-found"), Answer(404, "capability-revoked"), Answer(403, Untyped)}

Denied(w) == w \in Delegated /\ ~granted

AllowsAction(w, method) == method \in Allowed[w]

(* Faulty variant: POST whatever the capability allows.                    *)
AlwaysPost(w) == "POST"

(* changesMethodFor: POST unless the capability leaves it out.             *)
ChangesMethod(w) == IF AllowsAction(w, "POST") THEN "POST" ELSE "GET"

(* The server refuses a checkpoint it does not know.                       *)
Honoured(point) == IF point = None THEN TRUE ELSE point.issue = issue

ServePage(w) ==
    LET point == walk[w].point
        Got(page) == walk' = [walk EXCEPT ![w].at = "got", ![w].got = page]
    IN /\ walk[w].at = "asked"
       /\ UNCHANGED <<doc, record, clock, issue, granted, others, replica>>
       /\ \/ /\ Denied(w) \/ ~AllowsAction(w, walk[w].method)
             /\ \E denial \in Denials : Got(Refused(denial))
             /\ UNCHANGED faults
          \/ /\ ~Denied(w) /\ AllowsAction(w, walk[w].method)
             /\ ~Honoured(point)
             /\ Got(Refused(Answer(400, "invalid-request-body")))
             /\ UNCHANGED faults
          \/ /\ ~Denied(w) /\ AllowsAction(w, walk[w].method)
             /\ Honoured(point)
             /\ \E n \in 1 .. Limit :
                  \/ Got(Page(point, n)) /\ UNCHANGED faults
                  \/ /\ faults < MaxFaults /\ faults' = faults + 1
                     /\ \E page \in FaultyPages(point, n) : Got(page)
-----------------------------------------------------------------------------
(* The walk.                                                               *)

Unread == [answer |-> Ok, ids |-> {}, wrong |-> None, of |-> [i \in {} |-> None], next |-> None]

(* Faulty variant: a page without a body is an empty page.                 *)
TakesBodiless(page) == page.wrong = "no data"

(* changes: what a page must have.                                         *)
Malformed(page) == page.wrong # None

(* The feed repeats itself, or does not end.                               *)
Stuck(w, page) == page.next \in walk[w].seen \/ walk[w].pages + 1 >= MaxPages

Resumed(w, page) ==
    [walk[w] EXCEPT !.at = "asked", !.point = page.next, !.seen = @ \union {page.next},
                    !.pages = @ + 1, !.got = Unread]

(* The latest live JSON document of each Resource the walk has met.        *)
Latest(w, page) ==
    [i \in {j \in DOMAIN walk[w].latest : j \notin page.ids}
             \union {j \in page.ids \ Records : page.of[j].live /\ page.of[j].json}
       |-> IF i \in page.ids THEN page.of[i] ELSE walk[w].latest[i]]

Asking(w, point) ==
    [at |-> "asked", method |-> ChangesMethod(w), point |-> point, pages |-> 0, got |-> Unread,
     seen |-> IF point = None THEN {} ELSE {point}, latest |-> [i \in {} |-> None]]

StartDocuments(w) ==
    /\ w \in Readers /\ walk[w].at = "idle"
    /\ walk' = [walk EXCEPT ![w] = Asking(w, None)]
    /\ UNCHANGED <<server, replica>>

SettleDocuments(w) ==
    LET page == walk[w].got
        Ends(how) == walk' = [walk EXCEPT ![w].at = how, ![w].latest = Latest(w, page)]
    IN /\ w \in Readers /\ walk[w].at = "got" /\ UNCHANGED <<server, replica>>
       /\ \/ page.answer # Ok /\ Absent(page.answer) /\ walk[w].pages = 0 /\ Ends("null")
          \/ page.answer # Ok /\ ~(Absent(page.answer) /\ walk[w].pages = 0) /\ Ends("failed")
          \/ page.answer = Ok /\ Malformed(page) /\ Ends("failed")
          \/ page.answer = Ok /\ ~Malformed(page) /\ page.next = None /\ Ends("done")
          \/ /\ page.answer = Ok /\ ~Malformed(page) /\ page.next # None
             /\ IF Stuck(w, page) THEN Ends("failed")
                ELSE walk' = [walk EXCEPT ![w] = [Resumed(w, page) EXCEPT !.latest = Latest(w, page)]]
-----------------------------------------------------------------------------
(* The port's query, and the replica that polls it.                        *)

StartQuery(w) ==
    /\ w \in Replicas /\ walk[w].at = "idle" /\ signal[w] # "auth"
    /\ walk' = [walk EXCEPT ![w] = Asking(w, checkpoint[w])]
    /\ UNCHANGED <<server, replica>>

Told(w, what) ==
    /\ signal' = [signal EXCEPT ![w] = what]
    /\ walk' = [walk EXCEPT ![w].at = "idle", ![w].got = Unread, ![w].seen = {}]

(* Faulty variant: a masked denial is no denial.                           *)
BareAuthStatus(answer) == answer.status \in {401, 403}

IsAuthStatus(answer) == answer.status \in {401, 403, 404}

(* A refused checkpoint: the replica starts over.                          *)
QueryFailed(w, answer) ==
    /\ UNCHANGED copy
    /\ \/ /\ w \in MapAuthErrors /\ IsAuthStatus(answer)
          /\ Told(w, "auth") /\ UNCHANGED checkpoint
       \/ /\ ~(w \in MapAuthErrors /\ IsAuthStatus(answer)) /\ answer.type = "invalid-request-body"
          /\ Told(w, "checkpoint") /\ checkpoint' = [checkpoint EXCEPT ![w] = None]
       \/ /\ ~(w \in MapAuthErrors /\ IsAuthStatus(answer)) /\ answer.type # "invalid-request-body"
          /\ Told(w, "error") /\ UNCHANGED checkpoint

(* The documents the port moves: JSON Resources and their tombstones.      *)
Moved(page) == {i \in page.ids \ Records : page.of[i].json}

(* The pages query returns: an empty one reads as caught up, so a page     *)
(* whose entries are all skipped is walked past.                           *)
Returned(page) == Moved(page) # {} \/ page.next = None

SettleQuery(w) ==
    LET page == walk[w].got
    IN /\ w \in Replicas /\ walk[w].at = "got" /\ UNCHANGED server
       /\ \/ page.answer # Ok /\ QueryFailed(w, page.answer)
          \/ /\ page.answer = Ok /\ Malformed(page)
             /\ Told(w, "error") /\ UNCHANGED <<copy, checkpoint>>
          \/ /\ page.answer = Ok /\ ~Malformed(page) /\ Returned(page)
             /\ copy' = [copy EXCEPT ![w] = [i \in Ids |-> IF i \in Moved(page) THEN page.of[i] ELSE @[i]]]
             /\ IF Moved(page) = {} THEN Told(w, "caught up") /\ UNCHANGED checkpoint
                ELSE Told(w, "documents") /\ checkpoint' = [checkpoint EXCEPT ![w] = page.next]
          \/ /\ page.answer = Ok /\ ~Malformed(page) /\ ~Returned(page) /\ UNCHANGED <<copy, checkpoint>>
             /\ IF Stuck(w, page) THEN Told(w, "error")
                ELSE walk' = [walk EXCEPT ![w] = Resumed(w, page)] /\ UNCHANGED signal
-----------------------------------------------------------------------------
(* Others.                                                                 *)

(* Another record of the Collection is written; a Resource becomes binary; *)
(* the server is restored, and forgets the checkpoints it gave out; the    *)
(* delegated capability is revoked.                                        *)
Others ==
    /\ others < MaxOthers /\ others' = others + 1 /\ UNCHANGED <<faults, replica, walk>>
    /\ \/ /\ \E r \in Records : record' = [record EXCEPT ![r] = clock + 1]
          /\ clock' = clock + 1 /\ UNCHANGED <<doc, issue, granted>>
       \/ /\ \E i \in Ids : doc[i].live /\ doc[i].json
                            /\ doc' = [doc EXCEPT ![i].json = FALSE, ![i].rev = clock + 1]
          /\ clock' = clock + 1 /\ UNCHANGED <<record, issue, granted>>
       \/ issue' = issue + 1 /\ UNCHANGED <<doc, record, clock, granted>>
       \/ granted /\ Delegated # {} /\ granted' = FALSE /\ UNCHANGED <<doc, record, clock, issue>>

FeedInit(cast) ==
    /\ \E start \in Initial : doc = start.doc /\ record = start.record /\ clock = start.clock
    /\ issue = 1 /\ granted = TRUE /\ faults = 0 /\ others = 0
    /\ copy = [r \in Replicas |-> [i \in Ids |-> Absence]]
    /\ checkpoint = [r \in Replicas |-> None] /\ signal = [r \in Replicas |-> "none"]
    /\ walk = [w \in Walkers |-> [Asking(w, None) EXCEPT !.at = IF w \in cast THEN "idle" ELSE "absent"]]

Walk(w) ==
    \/ StartQuery(w) \/ StartDocuments(w) \/ ServePage(w) \/ SettleQuery(w) \/ SettleDocuments(w)
-----------------------------------------------------------------------------
(* Properties.                                                             *)

(* A replica told it has caught up holds every JSON document as the server *)
(* had it when it said so, and what documents() returns is the Collection  *)
(* at its last page: no change fell behind a checkpoint, no skipped or     *)
(* broken page passed for the end.                                         *)
CaughtUpIsCurrent ==
    [][/\ \A w \in Replicas :
            walk[w].at = "got" /\ walk'[w].at = "idle" /\ signal'[w] = "caught up" =>
              \A i \in Ids : IsJson(walk[w].got.of[i]) => copy'[w][i] = walk[w].got.of[i]
       /\ \A w \in Readers :
            walk[w].at = "got" /\ walk'[w].at = "done" =>
              LET now == walk[w].got.of
              IN walk'[w].latest = [i \in {j \in Ids : now[j].live /\ now[j].json} |-> now[i]]]_feedVars

(* A replica that goes on polling, and is let in, ends up with every JSON  *)
(* document, whatever records and binary Resources lie between them.       *)
Converges ==
    \A w \in Replicas :
      <>[](walk[w].at = "absent" \/ Denied(w) \/ \A i \in Ids : IsJson(doc[i]) => copy[w][i] = doc[i])

(* A port that maps denials tells its replica that its access is revoked.  *)
RevokedSurfaces ==
    \A w \in MapAuthErrors : (walk[w].at # "absent" /\ Denied(w)) ~> signal[w] = "auth"
=============================================================================
