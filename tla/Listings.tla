------------------------------ MODULE Listings ------------------------------
(***************************************************************************)
(* The calls of one client that read its server's description and walk its *)
(* listings (src/internal/pagination.ts, request.ts; PwsClient.listSpaces, *)
(* createSpace and publicListCollection, Collection.list).  Every signed   *)
(* request waits on the description (Discovery); a walk follows the links  *)
(* the server (external) gives it, over items that come and go.            *)
(*                                                                         *)
(* A URL is where it leads, its path beneath the listing, and a cursor:    *)
(* the last item of the page before.                                       *)
(***************************************************************************)
EXTENDS Discovery, FiniteSetsExt

CONSTANTS Calls, Ops,    \* the calls, and what each may be
          Items,         \* the items of the listing, in the order of its keys
          MaxPages

VARIABLES style,         \* the server's links: absolute, relative to their page,
                         \* or, once it misled a walk so, in a circle
          items,         \* what the listing holds
          call

vars == <<discoveryVars, style, items, call>>

Places == {"here", "elsewhere", "relative", "credentials", "not a URL"}
Urls == [place : Places, path : Seq({"page"}), cursor : Nat]

ASSUME ListingBounds == MaxPages \in Nat \ {0} /\ Items \subseteq Nat \ {0} /\ IsFiniteSet(Items)
ASSUME NoneApart == None \notin Urls \union {"link", "page", "request"}

At(place, path, cursor) == [place |-> place, path |-> path, cursor |-> cursor]
Listing == At("here", <<>>, 0)
NotUrl == At("not a URL", <<>>, 0)

Idle == [op |-> None, pc |-> "idle", promise |-> None, floor |-> 0, dead |-> {}, url |-> None,
         seen |-> {}, met |-> {}, stood |-> {}, why |-> None]

Init ==
    /\ InitDiscovery
    /\ style \in {"absolute", "relative"}
    /\ items = Items \ {Max(Items)}
    /\ call = [c \in Calls |-> Idle]

Failed == {r \in DOMAIN service.reads : service.reads[r].stage = "failed"}

Becomes(c, k) == call' = [call EXCEPT ![c] = k]
Finish(c, pc, why) == Becomes(c, [call[c] EXCEPT !.pc = pc, !.why = why, !.url = None])
Ask(c, k) == Becomes(c, [k EXCEPT !.pc = "asked"])
-----------------------------------------------------------------------------
(* The service description.                                                *)

Signed(op) == op # "publicList"

(* What the Spaces Repository answers, wherever the description places it. *)
RepositoryOps == {"listSpaces", "createSpace"}

(* await service(): the call waits on the promise the memo holds.          *)
Await(c, k, held, since) ==
    /\ service' = Get(held, since)
    /\ Becomes(c, [k EXCEPT !.pc = "service", !.promise = Get(held, since).memo, !.floor = since])

Start(c) ==
    /\ call[c].pc = "idle"
    /\ \E op \in Ops[c] :
         LET begun == [call[c] EXCEPT !.op = op, !.dead = Failed,
                                      !.url = IF op \in RepositoryOps THEN None ELSE Listing]
         IN CASE op = "refresh" ->
                   Await(c, begun, Reset(service), refreshes + 1) /\ refreshes' = refreshes + 1
              [] op # "refresh" /\ Signed(op) ->
                   /\ op \in RepositoryOps => client = "base"
                   /\ Await(c, begun, service, refreshes) /\ UNCHANGED refreshes
              [] OTHER -> Ask(c, begun) /\ UNCHANGED <<service, refreshes>>
    /\ UNCHANGED <<client, offered, faults, changes, style, items>>

(* A call rejected with the discovery it waited on.                        *)
Rejected(c) ==
    /\ call[c].pc = "service" /\ service.reads[call[c].promise].stage = "failed"
    /\ Finish(c, "failed", "discovery")
    /\ UNCHANGED <<discoveryVars, style, items>>

(* What the call does with the description: a Repository operation learns  *)
(* its URL, and its request waits once more; any other is sent.            *)
Described(c) ==
    /\ call[c].pc = "service" /\ service.reads[call[c].promise].stage = "done"
    /\ LET k == call[c]
           spaces == service.reads[k.promise].info.spaces
       IN \/ k.op \in {"service", "refresh"} /\ Finish(c, "done", None) /\ UNCHANGED service
          \/ /\ k.op \in RepositoryOps /\ k.url = None /\ spaces = None
             /\ Finish(c, "failed", "not supported") /\ UNCHANGED service
          \/ /\ k.op \in RepositoryOps /\ k.url = None /\ spaces # None
             /\ Await(c, [k EXCEPT !.url = [Listing EXCEPT !.place = spaces]], service, refreshes)
          \/ /\ k.op \notin {"service", "refresh"} /\ k.url # None
             /\ Ask(c, k) /\ UNCHANGED service
    /\ UNCHANGED <<client, refreshes, offered, faults, changes, style, items>>
-----------------------------------------------------------------------------
(* The server (external): a page holds the first items after its cursor,   *)
(* and a link to the next page while more remain.                          *)

After(cursor) == {i \in items : i > cursor}
PageAt(cursor) == IF After(cursor) = {} THEN {} ELSE {Min(After(cursor))}

(* A relative link names its page next to the page that gives it.          *)
LinkAfter(url) ==
    LET last == Min(After(url.cursor))
        away == style = "relative"
    IN IF Cardinality(After(url.cursor)) < 2 THEN IF style = "circular" THEN Listing ELSE None
       ELSE At(IF away THEN "relative" ELSE "here", IF away /\ url.path # <<>> THEN <<>> ELSE <<"page">>, last)

(* A link that leads astray: to the start by another URL, elsewhere, with  *)
(* credentials, to nothing that parses, to a page walked before.           *)
Misleading ==
    {At(place, <<"page">>, 0) : place \in {"here", "elsewhere", "credentials"}} \union {NotUrl, Listing}
-----------------------------------------------------------------------------
(* The walk.                                                               *)

(* A link is resolved against the URL of the page that gave it.            *)
Resolve(next, page) ==
    IF next.place = "relative" THEN [next EXCEPT !.place = page.place, !.path = page.path \o @] ELSE next

(* Faulty variant: credentials in a link are taken along.                  *)
AnyUserinfo(url) == url.place \in {"here", "credentials"}

(* resolveNext: within the listing's origin and path, without userinfo.    *)
Within(url) == url.place = "here"

(* Faulty variant: every link is followed.                                 *)
Always(seen, url) == TRUE

(* Neither a page walked already nor one more than the bound.              *)
Followable(seen, url) == url \notin seen /\ Cardinality(seen) < MaxPages

(* A first page that is not there: no listing to tell of, but the          *)
(* Repository always has one.                                              *)
Unlisted(c) == IF call[c].op = "listSpaces" THEN "failed" ELSE "hidden"

(* Faulty variant: a page that is not there ends the walk.                 *)
EndsThere(c) == IF call[c].seen = {} THEN Unlisted(c) ELSE "done"

(* A later page that is not there fails the walk.                          *)
Missing(c) == IF call[c].seen = {} THEN Unlisted(c) ELSE "failed"

(* A page arrives: its items are met, and its link followed or refused.    *)
Page(c, page, next) ==
    LET k == call[c]
        seen == k.seen \union {k.url}
        url == Resolve(next, k.url)
        met == [k EXCEPT !.met = @ \union page, !.seen = seen,
                         !.stood = IF k.seen = {} THEN items ELSE @]
        on == [met EXCEPT !.url = url]
    IN CASE next = None -> Becomes(c, [met EXCEPT !.pc = "done", !.url = None]) /\ UNCHANGED service
         [] next # None /\ (~Within(url) \/ ~Followable(seen, url)) ->
              /\ Becomes(c, [met EXCEPT !.pc = "failed", !.why = "link", !.url = None])
              /\ UNCHANGED service
         [] next # None /\ Within(url) /\ Followable(seen, url) /\ Signed(k.op) ->
              Await(c, on, service, refreshes)
         [] OTHER -> Ask(c, on) /\ UNCHANGED service

(* The page asked for is answered: one the server never linked to is not   *)
(* there.                                                                  *)
Answer(c) ==
    /\ call[c].pc = "asked" /\ call[c].op \in {"list", "publicList", "listSpaces"}
    /\ LET url == call[c].url
       IN IF url = Listing \/ url.path = <<"page">>
          THEN Page(c, PageAt(url.cursor), LinkAfter(url))
          ELSE Finish(c, Missing(c), "page") /\ UNCHANGED service
    /\ UNCHANGED <<client, refreshes, offered, faults, changes, style, items>>

(* The server misleads the walk, or hides a page from it.                  *)
Mislead(c) ==
    /\ call[c].pc = "asked" /\ call[c].op \in {"list", "publicList", "listSpaces"}
    /\ faults < MaxFaults /\ faults' = faults + 1
    /\ \/ \E next \in Misleading :
            /\ Page(c, PageAt(call[c].url.cursor), next)
            /\ style' = IF next = Listing THEN "circular" ELSE style
       \/ Finish(c, Missing(c), "page") /\ UNCHANGED <<service, style>>
       \/ Finish(c, "failed", "request") /\ UNCHANGED <<service, style>>
    /\ UNCHANGED <<client, refreshes, offered, changes, items>>

(* Create Space is answered with the new Space's Location, or without.     *)
Created(c) ==
    /\ call[c].pc = "asked" /\ call[c].op = "createSpace"
    /\ \/ Finish(c, "done", None) /\ UNCHANGED faults
       \/ faults < MaxFaults /\ faults' = faults + 1 /\ Finish(c, "failed", "no location")
    /\ UNCHANGED <<client, service, refreshes, offered, changes, style, items>>
-----------------------------------------------------------------------------
(* Others add and remove items (external) while a walk is under way.       *)
Change ==
    /\ changes < MaxChanges /\ changes' = changes + 1
    /\ \E i \in Items : items' = IF i \in items THEN items \ {i} ELSE items \union {i}
    /\ call' = [c \in Calls |-> [call[c] EXCEPT !.stood = @ \intersect items']]
    /\ UNCHANGED <<client, service, refreshes, offered, faults, style>>

Finished == {"done", "failed", "hidden"}

(* Every call is over.                                                     *)
Quiet == (\A c \in Calls : call[c].pc \in Finished) /\ UNCHANGED vars

Serve(c) == Rejected(c) \/ Described(c) \/ Answer(c) \/ Created(c)

Next ==
    \/ Discover /\ UNCHANGED <<style, items, call>>
    \/ Redescribe /\ UNCHANGED <<style, items, call>>
    \/ \E c \in Calls : Start(c) \/ Serve(c) \/ Mislead(c)
    \/ Change \/ Quiet

(* What is sent is answered or fails, and what settled is acted on.        *)
Fairness ==
    /\ WF_vars(Discover /\ UNCHANGED <<style, items, call>>)
    /\ \A c \in Calls : WF_vars(Serve(c))

Spec == Init /\ [][Next]_vars /\ Fairness
-----------------------------------------------------------------------------
(* Properties.                                                             *)

(* A walk that ends without an error has met every item that stood from    *)
(* its first page on: a server that cuts it short is reported, never taken *)
(* for the end of the list.                                                *)
CompleteListing ==
    \A c \in Calls : (call[c].pc = "done" /\ call[c].seen # {}) => call[c].stood \subseteq call[c].met

(* A walk fails only when its server failed it: the links of an honest     *)
(* server, however written, lead through its listing.                      *)
HonestWalksEnd ==
    faults = 0 => \A c \in Calls : call[c].why \notin {"link", "page", "request"}

(* What a walk says of the listing is true: if it ends without an error    *)
(* the list was whole, and if it fails its server failed it.               *)
WalksAreTrue == CompleteListing /\ HonestWalksEnd

(* No signed request leaves the server: neither the description nor a      *)
(* link can send an invocation elsewhere, or with another's credentials.   *)
StaysOnItsServer ==
    \A c \in Calls : (call[c].pc = "asked" /\ client = "base") => call[c].url.place = "here"

(* A call fails by a discovery that was under way after it began, never by *)
(* one that had failed before.                                             *)
NoOldFailure ==
    \A c \in Calls : call[c].why = "discovery" => call[c].promise \notin call[c].dead

(* Once a refresh is asked for, every later request rests on a description *)
(* whose reading began after it, and never on the one the client was built *)
(* with.                                                                   *)
FreshAfterRefresh ==
    \A c \in Calls : (call[c].promise # None /\ call[c].floor > 0) =>
      LET read == service.reads[call[c].promise]
      IN read.since >= call[c].floor /\ ~read.given

(* The description is shared as if each caller had read it for itself:     *)
(* one reading serves all who wait, a failure is told only to them, and    *)
(* nobody who asked for a fresh one gets an older.                         *)
DescriptionIsShared == OneDiscovery /\ NoOldFailure /\ FreshAfterRefresh

(* Every call returns, whatever the server answers.                        *)
EveryCallEnds == \A c \in Calls : (call[c].pc # "idle") ~> (call[c].pc \in Finished)
=============================================================================
