------------------------------ MODULE Addresses ------------------------------
(***************************************************************************)
(* The URLs of a Space and the capabilities that name them                 *)
(* (src/internal/layout.ts, paths.ts, reserved.ts, grant.ts,               *)
(* rootCapability.ts; PwsClient.fromCapability).                           *)
(*                                                                         *)
(* A URL is its origin, the segments of its path, whether it ends in a     *)
(* slash, and a mark for a query, a fragment or userinfo.  A path segment  *)
(* is text: an id is encoded into one and decoded from one, and text is    *)
(* taken from small sets.  A run opens a Space, descends to handles,       *)
(* grants at them and opens what was granted or what others minted.        *)
(***************************************************************************)
EXTENDS Naturals, SequencesExt

CONSTANTS Base,         \* the base URL of the server that hosts Spaces by id
          Named,        \* the URLs a Space is named by, in each deployment
          Ids,          \* ids of Collections, Resources, replicas, backends
          Targets,      \* explicit targets of a grant, in each deployment
          Minted,       \* capabilities minted elsewhere, in each deployment
          Encoded,      \* how an id is encoded, where that changes it
          Decoded,      \* how a segment is decoded, where that changes it
          ReservedCollections, OriginRootReserved, ReservedResources,
          None, MaxGrants

VARIABLES deployment,  \* hosted under a base server URL, or one fixed Space at an origin root
          handle, cap, grants,
          granted      \* the handle the last grant was made at, and its target

vars == <<deployment, handle, cap, grants, granted>>

ASSUME BoundTyped == MaxGrants \in Nat

Url(origin, path, slash) == [origin |-> origin, path |-> path, slash |-> slash, mark |-> None]

(* What is refused with a ValidationError.                                 *)
Refused == [origin |-> None, path |-> <<>>, slash |-> FALSE, mark |-> None]

Dots == {".", "..", "%2e%2e"}
Malformed == "malformed"

Mapped(table, text) == IF text \in DOMAIN table THEN table[text] ELSE text
Decode(segment) == Mapped(Decoded, segment)

(* An id that would leave its slot is refused, any other is encoded.       *)
ValidId(id) == id \notin {"", ".", ".."}
Encode(id) == Mapped(Encoded, id)
-----------------------------------------------------------------------------
(* layout.ts: parsing and the canonical form of a container.               *)

(* The platform's URL: the host in lower case, dot segments resolved.      *)
Parsed(url) ==
    LET step(path, segment) ==
          CASE segment = "." -> path
            [] segment \in {"..", "%2e%2e"} -> SubSeq(path, 1, Len(path) - 1)
            [] OTHER -> Append(path, segment)
    IN [url EXCEPT !.origin = IF @ = "HOST" THEN "host" ELSE @,
                   !.path = FoldLeft(step, <<>>, @),
                   !.slash = @ \/ url.path = <<>> \/ Last(url.path) \in Dots]

(* No query, fragment or userinfo.                                         *)
ParseContainer(url) == IF url.mark # None THEN Refused ELSE Parsed(url)

(* One slash at the end, and no empty segment before it.                   *)
CanonicalContainer(url) ==
    LET parsed == ParseContainer(url)
        ends == {n \in 0 .. Len(parsed.path) : \A i \in n + 1 .. Len(parsed.path) : parsed.path[i] = ""}
        path == SubSeq(parsed.path, 1, CHOOSE n \in ends : \A m \in ends : n <= m)
    IN IF parsed = Refused \/ Contains(path, "") THEN Refused
       ELSE Url(parsed.origin, path, TRUE)

IsOriginRoot(canonical) == canonical.path = <<>>

(* The last segment is the Space's id.                                     *)
CanonicalSpace(url) ==
    LET canonical == CanonicalContainer(url)
    IN IF canonical # Refused /\ ~IsOriginRoot(canonical) /\ Decode(Last(canonical.path)) = Malformed
       THEN Refused ELSE canonical

(* A Collection's URL, taken apart.                                        *)
SplitCollection(url) ==
    LET canonical == CanonicalContainer(url)
    IN IF canonical = Refused \/ IsOriginRoot(canonical) \/ Decode(Last(canonical.path)) = Malformed
       THEN [space |-> Refused, coll |-> None]
       ELSE [space |-> [canonical EXCEPT !.path = Front(@)], coll |-> Decode(Last(canonical.path))]

(* baseServerUrlOf, of a Space's URL.                                      *)
BaseOf(url) ==
    LET parsed == ParseContainer(url)
        n == Len(parsed.path)
    IN IF n >= 2 /\ parsed.path[n - 1] = "space" THEN Url(parsed.origin, SubSeq(parsed.path, 1, n - 2), TRUE)
       ELSE Refused

SpaceById(base, id) == Url(base.origin, base.path \o <<"space", Encode(id)>>, TRUE)
-----------------------------------------------------------------------------
(* reserved.ts and paths.ts: the URLs beneath a Space.                     *)

(* Faulty variant: an origin root reserves nothing more.                   *)
ReservedAnywhere(id, originRoot) == id \in ReservedCollections

ReservedCollection(id, originRoot) ==
    id \in ReservedCollections \/ (originRoot /\ id \in OriginRootReserved)

CollectionSlot(space, id) == ValidId(id) /\ ~ReservedCollection(id, IsOriginRoot(space))
ResourceSlot(id) == ValidId(id) /\ id \notin ReservedResources

Beneath(url, path) == Url(url.origin, url.path \o path, FALSE)

CollectionUrl(space, id) == [Beneath(space, <<Encode(id)>>) EXCEPT !.slash = TRUE]
ResourceUrl(space, coll, id) == Beneath(space, <<Encode(coll), Encode(id)>>)

(* Every URL a handle asks for, with what it means by it: the ids and the  *)
(* sub-endpoint.                                                           *)
SpaceRoutes(space) ==
    {[url |-> Beneath(space, <<part>>), means |-> <<None, None, part>>] :
       part \in {"meta", "export", "import", "backends", "quotas", "policy", "linkset", "replicas"}}
    \union {[url |-> Beneath(space, <<part, Encode(id)>>), means |-> <<None, None, part, id>>] :
              part \in {"backends", "replicas"}, id \in {i \in Ids : ValidId(i)}}
    \union {[url |-> Beneath(space, <<"replicas", Encode(id), "status">>),
             means |-> <<None, None, "replicas", id, "status">>] : id \in {i \in Ids : ValidId(i)}}
    \union {[url |-> Beneath(space, <<"zcaps", "revocations", Encode(id)>>),
             means |-> <<None, None, "zcaps", "revocations", id>>] : id \in {i \in Ids : ValidId(i)}}
    \union {[url |-> space, means |-> <<None, None>>]}

CollectionRoutes(space, coll) ==
    {[url |-> Beneath(CollectionUrl(space, coll), <<part>>), means |-> <<coll, None, part>>] :
       part \in {"policy", "linkset", "backend", "quota", "meta", "query"}}
    \union {[url |-> Beneath(CollectionUrl(space, coll), <<"meta", "log">>),
             means |-> <<coll, None, "meta", "log">>],
            [url |-> CollectionUrl(space, coll), means |-> <<coll, None>>]}

ResourceRoutes(space, coll, id) ==
    LET resource == ResourceUrl(space, coll, id)
    IN {[url |-> Beneath(resource, <<part>>), means |-> <<coll, id, part>>] : part \in {"meta", "policy"}}
       \union {[url |-> [Beneath(resource, <<"chunks">>) EXCEPT !.slash = TRUE], means |-> <<coll, id, "chunks">>],
               [url |-> Beneath(resource, <<"chunks", "0">>), means |-> <<coll, id, "chunks", "0">>],
               [url |-> resource, means |-> <<coll, id>>]}

(* parseSpaceTarget: what a target beneath a Space addresses.              *)
ParseTarget(space, target) ==
    LET url == ParseContainer(target)
        n == Len(space.path)
        below == SelectSeq(SubSeq(url.path, n + 1, Len(url.path)), LAMBDA segment : segment # "")
        ids == [i \in DOMAIN below |-> Decode(below[i])]
    IN CASE url = Refused \/ url.origin # space.origin \/ ~IsPrefix(space.path, url.path)
              \/ Contains(ids, Malformed) -> <<"outside">>
         [] ids = <<>> -> <<"space">>
         [] ids # <<>> /\ ReservedCollection(ids[1], IsOriginRoot(space)) -> <<"sub-resource">>
         [] Len(ids) = 1 -> <<"collection", ids[1]>>
         [] Len(ids) = 2 /\ ids[2] \notin ReservedResources -> <<"resource", ids[1], ids[2]>>
         [] OTHER -> <<"sub-resource">>
-----------------------------------------------------------------------------
(* Capabilities.  A chain is rooted in the Space its root names.           *)

(* isValidTarget (external): equal, or a RESTful prefix, as strings.       *)
ValidTarget(target, base) ==
    /\ target.origin = base.origin /\ IsPrefix(base.path, target.path)
    /\ CASE target = base -> TRUE
         [] target # base /\ base.mark # None -> FALSE
         [] target # base /\ base.mark = None /\ base.slash ->
              Len(target.path) > Len(base.path) \/ target.slash
         [] OTHER -> Len(target.path) > Len(base.path) \/ target.slash \/ target.mark = "query"

(* Faulty variant: the target's path is taken as it is given.              *)
AsGiven(target) == TRUE

(* URL normalization leaves the target's path alone.                       *)
Normal(target) == Parsed(target).path = target.path

(* spaceRooted: the target a grant rooted in its Space delegates.          *)
SpaceRooted(space, target) ==
    LET bare == [space EXCEPT !.slash = FALSE]
    IN CASE target = bare -> space
         [] target # bare /\ ValidTarget(target, space) /\ Normal(target) -> target
         [] OTHER -> Refused

(* The URL of a handle: of its Space, its Collection or its Resource.      *)
UrlOf(h) ==
    CASE h.coll = None -> h.space
      [] h.coll # None /\ h.res = None -> CollectionUrl(h.space, h.coll)
      [] OTHER -> ResourceUrl(h.space, h.coll, h.res)

Routes(h) ==
    CASE h.coll = None -> SpaceRoutes(h.space)
      [] h.coll # None /\ h.res = None -> CollectionRoutes(h.space, h.coll)
      [] OTHER -> ResourceRoutes(h.space, h.coll, h.res)

At(space, coll, res, bound) == [space |-> space, coll |-> coll, res |-> res, bound |-> bound]

(* A handle is made only with ids that fit their slots.                    *)
Makeable(h) ==
    /\ h.space # Refused
    /\ h.coll # None => CollectionSlot(h.space, h.coll)
    /\ h.res # None => ResourceSlot(h.res)

Make(h) == Makeable(h) /\ handle' = h /\ UNCHANGED <<deployment, cap, grants, granted>>
-----------------------------------------------------------------------------
(* A run starts from a URL or from a minted capability: an opening reads   *)
(* nothing of what was opened before it.                                   *)
Starting == handle = None /\ cap = None

(* pws.spaceAt(url).                                                       *)
OpenSpace ==
    /\ Starting
    /\ \E url \in Named[deployment] : Make(At(CanonicalSpace(url), None, None, None))

(* pws.space(id): refused without a base URL.                              *)
OpenById ==
    /\ Starting /\ deployment = "hosted"
    /\ \E id \in Ids : ValidId(id) /\ Make(At(SpaceById(Base, id), None, None, None))

(* pws.collectionAt(url): a URL in another form than the handle's is       *)
(* refused.                                                                *)
OpenCollection ==
    /\ Starting
    /\ \E url \in Targets[deployment] :
         LET parts == SplitCollection(url)
             h == At(CanonicalSpace(parts.space), parts.coll, None, None)
         IN parts.space # Refused /\ Make(h) /\ UrlOf(h) = [url EXCEPT !.slash = TRUE]

(* space.collection(id), collection.resource(id): the capability is kept.  *)
Descend ==
    /\ handle # None
    /\ \E id \in Ids :
         \/ handle.coll = None /\ Make([handle EXCEPT !.coll = id])
         \/ handle.coll # None /\ handle.res = None /\ Make([handle EXCEPT !.res = id])

(* A grant re-delegates the handle's capability, or is rooted in its Space. *)
Grant ==
    /\ handle # None /\ grants < MaxGrants
    /\ \E explicit \in Targets[deployment] \union {None} :
         LET asked == IF explicit = None THEN UrlOf(handle) ELSE explicit
             target == IF handle.bound = None THEN SpaceRooted(handle.space, asked) ELSE asked
         IN /\ handle.bound # None => explicit = None
            /\ target # Refused
            /\ cap' = [root |-> IF handle.bound = None THEN handle.space ELSE handle.bound.root,
                       target |-> target]
            /\ granted' = [at |-> handle, whole |-> explicit = None]
    /\ handle' = None /\ grants' = grants + 1 /\ UNCHANGED deployment

(* A capability minted elsewhere (external): any serialization of a target. *)
Mint ==
    /\ Starting /\ grants < MaxGrants
    /\ \E minted \in Minted[deployment] : cap' = minted
    /\ handle' = None /\ granted' = None /\ grants' = grants + 1 /\ UNCHANGED deployment

(* spaceUrlOf: the Space the chain is rooted in.                           *)
SpaceOf(zcap) == CanonicalSpace(zcap.root)

(* The handle's own requests are within the capability.                    *)
Canonical(h, zcap) == ValidTarget(UrlOf(h), zcap.target)

FromCapability ==
    /\ cap # None /\ handle = None
    /\ LET parsed == ParseTarget(SpaceOf(cap), cap.target)
           h == At(SpaceOf(cap), IF Len(parsed) > 1 THEN parsed[2] ELSE None,
                   IF Len(parsed) > 2 THEN parsed[3] ELSE None, cap)
       IN /\ SpaceOf(cap) # Refused /\ parsed[1] \in {"space", "collection", "resource"}
          /\ Make(h) /\ Canonical(h, cap)

(* The caller lets go of a handle, or of a capability that opens nothing.  *)
Close == handle # None /\ handle' = None /\ UNCHANGED <<deployment, cap, grants, granted>>

Discard ==
    /\ handle = None /\ cap # None
    /\ cap' = None /\ granted' = None /\ UNCHANGED <<deployment, handle, grants>>

Init ==
    /\ deployment \in DOMAIN Named
    /\ handle = None /\ cap = None /\ grants = 0 /\ granted = None

Next == OpenSpace \/ OpenById \/ OpenCollection \/ Descend \/ Grant \/ Mint \/ FromCapability \/ Close \/ Discard

Spec == Init /\ [][Next]_vars
-----------------------------------------------------------------------------
(* Properties.                                                             *)

(* How the server (external) reads a URL: its own endpoints first, then    *)
(* the Space, its endpoints, and a Collection, its endpoints.              *)
ServerReads(url) ==
    LET fixed == deployment = "fixed"
        below == IF fixed THEN url.path ELSE SubSeq(url.path, Len(Base.path) + 3, Len(url.path))
        ids == [i \in DOMAIN below |-> Decode(below[i])]
        another == \/ Contains(url.path, "") \/ \E i \in DOMAIN url.path : url.path[i] \in Dots
                   \/ fixed /\ ids # <<>> /\ ids[1] \in OriginRootReserved
    IN CASE another -> <<"another">>
         [] ~another /\ ids = <<>> -> <<None, None>>
         [] ~another /\ ids # <<>> /\ ids[1] \in ReservedCollections -> <<None, None>> \o ids
         [] ~another /\ Len(ids) = 1 /\ ids[1] \notin ReservedCollections -> <<ids[1], None>>
         [] ~another /\ Len(ids) > 1 /\ ids[2] \in ReservedResources ->
              <<ids[1], None>> \o SubSeq(ids, 2, Len(ids))
         [] OTHER -> ids

(* The deployment serves the Space.                                        *)
Served(space) ==
    IF deployment = "fixed" THEN IsOriginRoot(space)
    ELSE Len(space.path) = Len(Base.path) + 2 /\ BaseOf(space) = Base

(* Every URL of every handle in a Space of the server names, to the        *)
(* server, what the handle means by it: no id, encoded or reserved, turns  *)
(* a request for one record into one for another.                          *)
NamesWhatItMeans ==
    (handle # None /\ Served(handle.space)) =>
      \A route \in Routes(handle) : ServerReads(route.url) = route.means

(* A handle opened from a capability, and every handle beneath it, asks    *)
(* only for what the capability covers, and lies in the Space the          *)
(* capability is rooted in, however its target is written.                 *)
WithinItsCapability ==
    (handle # None /\ handle.bound # None) =>
      /\ \A route \in Routes(handle) : ValidTarget(route.url, handle.bound.target)
      /\ handle.space = SpaceOf(handle.bound)

(* What is granted lies in the Space it is rooted in as every party that   *)
(* parses its target reads it, and a whole handle's grant opens as that    *)
(* handle.                                                                 *)
GrantOpensAsItsHandle ==
    granted # None =>
      LET read == Parsed(cap.target)
          at == granted.at
      IN /\ SpaceOf(cap) = at.space /\ read.origin = at.space.origin /\ IsPrefix(at.space.path, read.path)
         /\ granted.whole =>
              ParseTarget(at.space, cap.target) =
                CASE at.coll = None -> <<"space">>
                  [] at.coll # None /\ at.res = None -> <<"collection", at.coll>>
                  [] OTHER -> <<"resource", at.coll, at.res>>

(* Capabilities stay in place both ways: a handle opened from one asks for *)
(* nothing the capability does not cover, and one granted by a handle      *)
(* reaches no further than the handle, in every party's reading of it.     *)
CapabilitiesStayInPlace == WithinItsCapability /\ GrantOpensAsItsHandle
=============================================================================
