------------------------------ MODULE KeyEpochs ------------------------------
(***************************************************************************)
(* The calls that edit the encryption descriptor of one Collection, by     *)
(* however many clients (src/edv/recipients.ts), over the object that      *)
(* holds it (src/edv/descriptorStore.ts): the Collection Metadata object,  *)
(* or a resource of its own.                                               *)
(*                                                                         *)
(* Every call is a compare-and-swap loop: read, compose over the read,     *)
(* write on the read's ETag, again from the read when that lost the race.  *)
(* A removal or replacement then pulls the retired readers' access, with   *)
(* one revocation per capability, all in flight at once.  Requests of      *)
(* different calls interleave; any may fail, or its answer may be lost.  A *)
(* caller whose process stops is a call that takes no further step: no     *)
(* step is fair.                                                           *)
(*                                                                         *)
(* The server (external) keeps every object ever stored in hist; a version *)
(* is an index into it and also its ETag, and 0 is no object.              *)
(***************************************************************************)
EXTENDS KeyRoster

CONSTANTS Calls,          \* calls of the recipient operations, and configure
          RequestsOf,     \* what each call may be asked to do
          Stores,         \* descriptor stores, each kept by one client
          StoreOf,        \* the store each call is given
          Zcaps,          \* delegated capabilities
          Confs,          \* values of name, backend and generator
          InitialObjects, \* what may be stored at first
          Hosts,          \* which kinds of object may hold the descriptor
          ServesEtag,     \* reads carry their validator
          Attempts,       \* DEFAULT_CAS_ATTEMPTS
          Past            \* whoever minted and wrote before these calls

VARIABLES host,      \* the kind of object that holds the descriptor
          hist,      \* every object stored so far, with the call that wrote it
          stored,    \* the version stored now
          described, \* the configuration the last read of each store saw
          revoked,   \* capabilities the server has revoked
          pc, call   \* where each call is, and its locals

vars == <<host, hist, stored, described, revoked, pc, call>>

Versions == 0 .. Len(hist)

(* declared: the object declares the 'edv' scheme.  A resource has no      *)
(* configuration.                                                          *)
Objects == [declared : BOOLEAN, desc : Descriptors, conf : Confs \union {None}]

Installs == {"ensure", "init"}
Removals == {"remove", "replace"}
Kinds == Installs \union Removals \union {"add", "configure"}

(* kids: the recipients of a first epoch, or the incoming readers; owner   *)
(* wraps existing keys to them; blinded: blindedIndex; vouched: whom       *)
(* resolveRecipientKey resolves; zcaps: what to revoke; conf: configure's; *)
(* masked: the call's capability cannot read the object.                   *)
RequestType ==
    [kind : Kinds, kids : SUBSET Kids, owner : Kids \union {None},
     blinded : BOOLEAN, retiring : SUBSET Kids, vouched : SUBSET Kids,
     zcaps : SUBSET Zcaps, conf : Confs \union {None},
     masked : BOOLEAN]

(* A removal retires someone, and only a removal pulls access.             *)
RemovalAdmissible(r) ==
    /\ r.kind \in Removals <=> r.retiring # {}
    /\ r.zcaps # {} => r.kind \in Removals

(* A call that breaks these rules throws before its first request.         *)
Admissible(r) ==
    /\ r.kind \in {"ensure", "init", "add", "replace"} <=> r.kids # {}
    /\ r.kind \in {"add", "replace"} <=> r.owner # None
    /\ RemovalAdmissible(r)
    /\ r.kids \intersect r.retiring = {}
    /\ r.blinded => r.kind = "ensure"
    /\ r.conf # None <=> r.kind = "configure"

ASSUME StoresGiven == StoreOf \in [Calls -> Stores]
ASSUME RequestsTyped ==
    RequestsOf \in [Calls -> SUBSET {r \in RequestType : Admissible(r)}]
ASSUME CallsMint == Calls \subseteq Mints /\ Past \notin Calls /\ None \notin Kids
ASSUME HostsKnown == Hosts \subseteq {"collection", "resource"}
ASSUME SwitchesTyped == ServesEtag \in BOOLEAN /\ Attempts \in Nat \ {0}
-----------------------------------------------------------------------------
(* What earlier calls may have left: the newest epoch is the current one,  *)
(* under a name of its own, and whoever holds it holds every older key.    *)

Nested(d) ==
    /\ \A i, j \in DOMAIN d.epochs : i <= j => d.epochs[j].to \subseteq d.epochs[i].to
    /\ d.epochs # <<>> /\ d.hmac.id # None => Newest(d).to \subseteq d.hmac.to

Named(d) ==
    /\ d.epochs # <<>> => d.current = Newest(d).id
    /\ \A i, j \in DOMAIN d.epochs : d.epochs[i].id = d.epochs[j].id => i = j
    /\ \A i \in DOMAIN d.epochs : d.epochs[i].to # {}

Coherent(d) == Nested(d) /\ Named(d)

ASSUME ObjectsCoherent ==
    InitialObjects \subseteq
      {o \in Objects :
         /\ Coherent(o.desc)
         /\ o.desc.epochs = <<>> => o.desc = Seed
         /\ \A i \in DOMAIN o.desc.epochs : o.desc.epochs[i].id \notin Calls
         /\ o.desc.hmac.id \notin Calls}

NoRequest ==
    [kind |-> "configure", kids |-> {}, owner |-> None, blinded |-> FALSE,
     retiring |-> {}, vouched |-> {}, zcaps |-> {}, conf |-> None,
     masked |-> FALSE]

(* The locals of a call.                                                   *)
(*   seen      the version the last read answered                          *)
(*   reread    a read was composed over before (initRecipients)            *)
(*   installed the last write composed held this call's first epoch        *)
(*   tries     attempts already lost                                       *)
(*   ack       the version whose descriptor the loop resolved to           *)
(*   pending   revocations in flight                                       *)
Locals(req) == [req |-> req, seen |-> 0, reread |-> FALSE, installed |-> FALSE,
                tries |-> 0, ack |-> 0, pending |-> {}]
-----------------------------------------------------------------------------
(* Shared vocabulary.                                                      *)

Finished(c) == pc[c] \in {"idle", "returned", "thrown"}

Goto(c, label) == pc' = [pc EXCEPT ![c] = label]

Throw(c) == Goto(c, "thrown") /\ UNCHANGED call

(* The descriptor a mutate is called with: the seed when nothing is there. *)
Current(v) == IF v = 0 THEN Seed ELSE hist[v].desc

MintsFirst(kind, d) == kind \in Installs /\ d.epochs = <<>>

(* A mutate that throws.                                                   *)
Refused(c, d) ==
    LET r == call[c].req
    IN \/ r.kind = "ensure" /\ d.epochs # <<>> /\ r.blinded /\ d.hmac.id = None
       \/ r.kind = "init" /\ d.epochs # <<>> /\ ~call[c].reread
       \/ r.kind \notin Installs /\ d.epochs = <<>>
       \/ r.kind \in {"add", "replace"} /\ EscrowRefused(d, r.kids, r.owner)
       \/ /\ r.kind \in Removals /\ d.epochs # <<>>
          /\ RotationRefused(d, c, r.retiring, r.kids, r.vouched)

(* What a mutate composes; a result equal to its input writes nothing.     *)
Revised(c, d) ==
    LET r == call[c].req
    IN CASE MintsFirst(r.kind, d) ->
              WithFirstEpoch(d, c, r.kids,
                  IF r.blinded THEN [id |-> c, to |-> r.kids] ELSE NoHmac)
         [] r.kind = "add" -> Escrowed(d, r.kids)
         [] r.kind \in Removals ->
              RotatedOff(d, c, r.retiring, r.kids, r.vouched)
         [] OTHER -> d
-----------------------------------------------------------------------------
(* A call begins.  configure reaches the Collection Metadata object only.  *)
Start(c) ==
    /\ pc[c] = "idle"
    /\ \E req \in RequestsOf[c] :
         /\ req.kind = "configure" => host = "collection"
         /\ Goto(c, IF req.kind = "configure" THEN "configure" ELSE "read")
         /\ call' = [call EXCEPT ![c] = Locals(req)]
    /\ UNCHANGED <<host, hist, stored, described, revoked>>

(* Another client changes the configuration; the encryption member is      *)
(* carried forward (one step, as CollectionMetadata shows).                *)
Configure(c) ==
    /\ pc[c] = "configure"
    /\ IF stored = 0 \/ call[c].req.masked
       THEN Goto(c, "thrown") /\ UNCHANGED <<hist, stored>>
       ELSE /\ hist' = Append(hist,
                        [hist[stored] EXCEPT !.conf = call[c].req.conf, !.by = c])
            /\ stored' = Len(hist')
            /\ Goto(c, "returned")
    /\ UNCHANGED <<host, described, revoked, call>>

(* The server answers the read; a capability that cannot read is told 404. *)
ServeRead(c) ==
    /\ pc[c] = "read"
    /\ Goto(c, "got")
    /\ call' = [call EXCEPT ![c].seen = IF call[c].req.masked THEN 0 ELSE stored]
    /\ UNCHANGED <<host, hist, stored, described, revoked>>

(* The store's read throws on a Collection it cannot read, and on anything *)
(* that is no 'edv' descriptor; only a first epoch can be installed where  *)
(* nothing is stored.                                                      *)
Unusable(c, v) ==
    \/ v = 0 /\ (host = "collection" \/ call[c].req.kind \notin Installs)
    \/ v # 0 /\ ~hist[v].declared

(* The loop has resolved to version v: the pull axis is next, if any.      *)
Settle(c, k, v) ==
    /\ Goto(c, IF k.req.zcaps = {} THEN "returned" ELSE "pull")
    /\ call' = [call EXCEPT ![c] = [k EXCEPT !.ack = v, !.pending = k.req.zcaps]]

(* Faulty variant: a retry that adopts still reports its own epoch.        *)
InstalledOnce(c, d) == call[c].installed \/ MintsFirst(call[c].req.kind, d)

(* ensureFirstEpoch's `installed', decided anew on every attempt.          *)
Installed(c, d) == MintsFirst(call[c].req.kind, d)

(* The configuration the Collection's store remembers from the last read.  *)
Observed(c, v) ==
    IF host = "collection" /\ ~Unusable(c, v)
    THEN [described EXCEPT ![StoreOf[c]] = hist[v].conf] ELSE described

(* The read settles: the store keeps the configuration it saw, and the     *)
(* mutate refuses, leaves things as they are, or composes a write, which   *)
(* needs the read's ETag unless nothing was read.                          *)
GotRead(c) ==
    LET v == call[c].seen
        d == Current(v)
        refused == Unusable(c, v) \/ Refused(c, d)
        next == [call[c] EXCEPT !.reread = TRUE, !.installed = Installed(c, d)]
    IN /\ pc[c] = "got"
       /\ described' = Observed(c, v)
       /\ \/ /\ refused
             /\ Throw(c)
          \/ /\ ~refused /\ Revised(c, d) = d
             /\ Settle(c, next, v)
          \/ /\ ~refused /\ Revised(c, d) # d
             /\ IF v # 0 /\ ~ServesEtag
                THEN Throw(c)
                ELSE Goto(c, "write") /\ call' = [call EXCEPT ![c] = next]
       /\ UNCHANGED <<host, hist, stored, revoked>>

(* The version a write is conditional on: 0 is If-None-Match.              *)
Precondition(c) == call[c].seen

(* compareAndSwap gives up after its last attempt.                         *)
LastAttempt(c) == call[c].tries + 1 >= Attempts

(* The Collection host's PUT carries the configuration its store kept.     *)
ServeWrite(c) ==
    LET desc == Revised(c, Current(call[c].seen))
    IN /\ pc[c] = "write"
       /\ \/ /\ Precondition(c) = stored
             /\ hist' = Append(hist, [declared |-> TRUE, desc |-> desc,
                                      conf |-> described[StoreOf[c]], by |-> c])
             /\ stored' = Len(hist')
             /\ Settle(c, call[c], stored') \/ Throw(c)
          \/ /\ Precondition(c) # stored
             /\ IF LastAttempt(c)
                THEN Throw(c)
                ELSE /\ Goto(c, "read")
                     /\ call' = [call EXCEPT ![c].tries = @ + 1, ![c].seen = 0]
             /\ UNCHANGED <<hist, stored>>
       /\ UNCHANGED <<host, described, revoked>>

(* The request of a read or a write fails without being applied.           *)
Lose(c) ==
    /\ pc[c] \in {"read", "write"}
    /\ Throw(c)
    /\ UNCHANGED <<host, hist, stored, described, revoked>>
-----------------------------------------------------------------------------
(* The pull axis (resolvePullAxis).  A capability revoked before counts as *)
(* revoked; the first failure is thrown while the others go on.            *)
Pull(c) ==
    /\ pc[c] \in {"pull", "thrown"}
    /\ \E z \in call[c].pending :
         LET rest == call[c].pending \ {z}
         IN /\ call' = [call EXCEPT ![c].pending = rest]
            /\ \/ /\ revoked' = revoked \union {z}
                  /\ IF pc[c] = "pull" /\ rest = {}
                     THEN Goto(c, "returned") ELSE UNCHANGED pc
               \/ /\ revoked' \in {revoked, revoked \union {z}}
                  /\ Goto(c, "thrown")
    /\ UNCHANGED <<host, hist, stored, described>>

Init ==
    /\ host \in Hosts
    /\ \/ hist = <<>> /\ stored = 0
       \/ \E object \in InitialObjects :
            /\ object.conf = None <=> host = "resource"
            /\ hist = <<[declared |-> object.declared, desc |-> object.desc,
                         conf |-> object.conf, by |-> Past]>>
            /\ stored = 1
    /\ described = [s \in Stores |-> None]
    /\ revoked = {}
    /\ pc = [c \in Calls |-> "idle"]
    /\ call = [c \in Calls |-> Locals(NoRequest)]

Step(c) ==
    \/ Start(c) \/ Configure(c) \/ ServeRead(c) \/ GotRead(c)
    \/ ServeWrite(c) \/ Lose(c) \/ Pull(c)

(* Every call has ended.                                                   *)
Quiet ==
    /\ \A c \in Calls : Finished(c) /\ pc[c] # "idle" /\ call[c].pending = {}
    /\ UNCHANGED vars

Next == (\E c \in Calls : Step(c)) \/ Quiet

Spec == Init /\ [][Next]_vars
-----------------------------------------------------------------------------
(* Properties.                                                             *)

Labels == {"idle", "configure", "read", "got", "write", "pull", "returned", "thrown"}

CallType ==
    [req : (UNION {RequestsOf[c] : c \in Calls}) \union {NoRequest},
     seen : Versions, reread : BOOLEAN, installed : BOOLEAN,
     tries : 0 .. Attempts - 1, ack : Versions, pending : SUBSET Zcaps]

Entries == [declared : BOOLEAN, desc : Descriptors, conf : Confs \union {None},
            by : Calls \union {Past}]

(* Every variable keeps its shape, whatever mix of calls is under way, and *)
(* no call exceeds its compare-and-swap attempts.                          *)
TypeOK ==
    /\ host \in Hosts
    /\ hist \in Seq(Entries)
    /\ stored \in Versions
    /\ described \in [Stores -> Confs \union {None}]
    /\ revoked \subseteq Zcaps
    /\ pc \in [Calls -> Labels]
    /\ call \in [Calls -> CallType]

(* Whoever can unwrap the epoch that writers seal under can unwrap every   *)
(* older epoch and the blinded-index key, however escrows and rotations of *)
(* different clients interleave; and that epoch is the newest one.         *)
HistoryReachable == stored # 0 => Coherent(hist[stored].desc)

Holders(v) ==
    IF hist[v].desc.epochs = <<>> THEN {} ELSE CurrentEpochOf(hist[v].desc).to

Removes(c) == call[c].req.kind \in Removals /\ call[c].ack # 0

(* A reader a removal or replacement has rotated off never gets back into  *)
(* the current epoch, through a racing escrow, a stale write or an older   *)
(* epoch's roster, unless a call names it as a reader to add.              *)
RemovedStaysOut ==
    \A c \in Calls : Removes(c) =>
        \A v \in call[c].ack .. Len(hist) :
          \A kid \in call[c].req.retiring \intersect Holders(v) :
            \E w \in call[c].ack + 1 .. v : kid \in call[hist[w].by].req.kids

First(v) == hist[v].desc.epochs[1].id

(* Exactly one first epoch ever exists, whoever races to install it: a     *)
(* call that returns has it, knows whether it is its own, and has a        *)
(* blinded-index key if it asked for one (ensureFirstEpoch).               *)
FirstEpochAdopted ==
    /\ \A v, w \in DOMAIN hist :
         hist[v].desc.epochs # <<>> /\ hist[w].desc.epochs # <<>> =>
           First(v) = First(w)
    /\ \A c \in Calls :
         LET k == call[c]
         IN pc[c] = "returned" /\ k.req.kind \in Installs =>
              /\ k.ack # 0 /\ hist[k.ack].desc.epochs # <<>>
              /\ k.installed <=> First(k.ack) = c
              /\ k.req.blinded => hist[k.ack].desc.hmac.id # None

(* Both halves of a removal: no capability is pulled before a descriptor   *)
(* without the retired readers is durable, and a call that returns has     *)
(* pulled them all, a retry after a failed pull included.                  *)
BothHalves ==
    /\ \A z \in revoked : \E c \in Calls :
         Removes(c) /\ z \in call[c].req.zcaps
           /\ call[c].req.retiring \intersect Holders(call[c].ack) = {}
    /\ \A c \in Calls :
         pc[c] = "returned" /\ Removes(c) =>
           /\ call[c].req.zcaps \subseteq revoked
           /\ call[c].req.retiring \intersect Holders(call[c].ack) = {}

(* What a removal promises as a whole: both of its halves are done, in     *)
(* order, and what they took away stays away, whoever else is adding and   *)
(* rotating meanwhile and however often it failed and was retried.         *)
RemovalsHold == RemovedStaysOut /\ BothHalves

(* A recipient change leaves the Collection's configuration as it is       *)
(* (descriptorStore.ts: a concurrent configuration change fails the        *)
(* compare-and-swap instead).                                              *)
ConfigurationKept ==
    [][\A c \in Calls :
         ServeWrite(c) /\ stored' # stored /\ stored # 0 =>
           hist'[stored'].conf = hist[stored].conf]_vars

(* Every interleaving amounts to whole grants and departures, one at a     *)
(* time, each made by a holder of the keys it grants.                      *)
Rosters == IF stored = 0 THEN <<>> ELSE
           [i \in DOMAIN hist[stored].desc.epochs |-> hist[stored].desc.epochs[i].to]

IndexRoster == IF stored = 0 \/ hist[stored].desc.hmac.id = None THEN {}
               ELSE {hist[stored].desc.hmac.to}

Custody == INSTANCE KeyCustody WITH held <- Rosters, index <- IndexRoster

KeysInCustody == Custody!Spec
=============================================================================
