------------------------------ MODULE Discovery ------------------------------
(***************************************************************************)
(* What a client knows of its server (src/internal/service.ts, memo.ts;    *)
(* PwsClient's service description).  The description is discovered once,  *)
(* its promise shared by every caller; a failure is dropped, a refresh     *)
(* drops what is held.  This module is the memo, the discoveries under way *)
(* and the server's description; Listings runs the calls that wait on it.  *)
(***************************************************************************)
EXTENDS Naturals, Sequences, SequencesExt

CONSTANTS None,
          MaxFaults,   \* transient failures of discoveries and listings
          MaxChanges   \* changes of the server: its description, its listings

VARIABLES client,      \* its kind: of a base URL, or of one fixed Space
          service,     \* the memo, the description supplied, every discovery
          refreshes,   \* how many refreshes were asked for
          offered,     \* the server's description
          faults, changes

discoveryVars == <<client, service, refreshes, offered, faults, changes>>

ASSUME DiscoveryBounds == MaxFaults \in Nat /\ MaxChanges \in Nat /\ None \notin Nat

(* A description: whether it lists a version the client speaks, the server *)
(* it describes, and the Spaces Repository it names.                       *)
Descriptions ==
    {[speaks |-> TRUE, of |-> "here", spaces |-> spaces] : spaces \in {"here", None}}
    \union {[speaks |-> TRUE, of |-> of, spaces |-> "elsewhere"] : of \in {"here", "elsewhere"}}
    \union {[speaks |-> FALSE, of |-> "here", spaces |-> None]}

(* selectServiceVersion and #assertDescribesThisServer.                    *)
Accepted(description) ==
    /\ description.speaks
    /\ client = "base" => (description.of = "here" /\ description.spaces \in {"here", None})

(* A resolution of the memo, begun after so many refreshes: it takes the   *)
(* supplied description, reads the base URL's, or probes the fixed Space   *)
(* for the description's URL and then reads it.                            *)
NewRead(held, since) ==
    [since |-> since, given |-> held.supplied # None, info |-> held.supplied,
     stage |-> CASE held.supplied # None -> "given"
                 [] held.supplied = None /\ client = "base" -> "read"
                 [] OTHER -> "probe"]

Underway == {"given", "probe", "read"}
-----------------------------------------------------------------------------
(* service({refresh}) drops the memo and the description supplied.         *)
Reset(held) == [held EXCEPT !.memo = None, !.supplied = None]

(* Memo.get: the promise held, or a new one.                               *)
Get(held, since) ==
    IF held.memo # None THEN held
    ELSE [held EXCEPT !.reads = Append(@, NewRead(held, since)), !.memo = Len(held.reads) + 1]

(* Faulty variant: a failure drops whatever is memoized.                   *)
Unguarded(r) == None

(* A failed discovery drops the memo, if it is the one held.               *)
AfterFailure(r) == IF service.memo = r THEN None ELSE service.memo

Fail(r) == service' = [service EXCEPT !.reads[r].stage = "failed", !.memo = AfterFailure(r)]

(* The description is selected from and checked, or refused.               *)
Take(r, description) ==
    IF Accepted(description)
    THEN service' = [service EXCEPT !.reads[r].stage = "done", !.reads[r].info = description]
    ELSE Fail(r)

(* The supplied description.                                               *)
Given(r) ==
    /\ service.reads[r].stage = "given"
    /\ Take(r, service.reads[r].info)
    /\ UNCHANGED <<client, refreshes, offered, faults, changes>>

(* discoverService: the HEAD of the Space carries the link, or not.        *)
Probe(r) ==
    /\ service.reads[r].stage = "probe"
    /\ \/ service' = [service EXCEPT !.reads[r].stage = "read"] /\ UNCHANGED faults
       \/ faults < MaxFaults /\ faults' = faults + 1 /\ Fail(r)
    /\ UNCHANGED <<client, refreshes, offered, changes>>

(* readServiceDescription.                                                 *)
ReadDescription(r) ==
    /\ service.reads[r].stage = "read"
    /\ \/ Take(r, offered) /\ UNCHANGED faults
       \/ faults < MaxFaults /\ faults' = faults + 1 /\ Fail(r)
    /\ UNCHANGED <<client, refreshes, offered, changes>>

Discover == \E r \in DOMAIN service.reads : Given(r) \/ Probe(r) \/ ReadDescription(r)

(* The server (external) is upgraded or misconfigured.                     *)
Redescribe ==
    /\ changes < MaxChanges /\ changes' = changes + 1
    /\ offered' \in Descriptions \ {offered}
    /\ UNCHANGED <<client, service, refreshes, faults>>

(* A server starts as its client expects it; the client may hold an older  *)
(* description of it.                                                      *)
InitDiscovery ==
    /\ client \in {"base", "fixed"}
    /\ offered = [speaks |-> TRUE, of |-> "here", spaces |-> "here"]
    /\ \E supplied \in {None, [offered EXCEPT !.spaces = None]} :
         service = [memo |-> None, supplied |-> supplied, reads |-> <<>>]
    /\ refreshes = 0 /\ faults = 0 /\ changes = 0
-----------------------------------------------------------------------------
(* Concurrent callers share one discovery: between two refreshes no two    *)
(* are under way at once, whatever fails in between.                       *)
OneDiscovery ==
    \A r, s \in DOMAIN service.reads :
      (r # s /\ {service.reads[r].stage, service.reads[s].stage} \subseteq Underway) =>
        service.reads[r].since # service.reads[s].since
=============================================================================
