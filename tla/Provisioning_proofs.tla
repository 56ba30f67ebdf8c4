------------------------ MODULE Provisioning_proofs ------------------------
(***************************************************************************)
(* Proofs about Provisioning and the Space handles of Spaces, for every    *)
(* set of apps and owners, every request and every number of attempts,     *)
(* faults and writes by others.                                            *)
(***************************************************************************)
EXTENDS Provisioning, TLAPS

(* The fields of the records, of an owner's call and of an app's run.      *)
SpaceFields == {"rev", "name", "controller", "type"}
CollFields == {"rev", "born", "name", "by", "enc"}
EncFields == {"by", "epochs"}
ReplicaFields == {"rev", "paused", "capability"}
OpFields == {"at", "req", "base", "tries"}
RunFields == {"at", "base", "created", "tries", "since"}

RecordsHold ==
    /\ clock \in Nat /\ deletions \in Nat
    /\ DOMAIN space = SpaceFields /\ DOMAIN replica = ReplicaFields
    /\ DOMAIN coll = CollFields /\ DOMAIN coll.enc = EncFields
    /\ space.rev \in 0 .. clock /\ replica.rev \in 0 .. clock
    /\ coll.rev \in 0 .. clock /\ coll.born \in 0 .. clock
    /\ Stands(space) => space.controller # None

(* A record read: the revision it carries tells whether it still stands.   *)
Current(base, record) ==
    /\ base.rev \in 0 .. clock
    /\ base.rev = record.rev /\ base.rev # 0 => base = record

(* What an owner is about to write over.                                   *)
OwnerHolds(o) ==
    op[o].at = "write" =>
      /\ op[o].req.kind = "configure" => Current(op[o].base, space)
      /\ Changes(op[o].req.kind) => Stands(op[o].base) /\ Current(op[o].base, replica)

(* How far an app's run is.                                                *)
Granting == {"read policy", "set policy"}
Late == Granting \union {"declare", "read declaration"}
AfterSpace == Late \union {"read collection", "create collection", "reread collection"}

(* What an app's run may rely on: the Collection it declares over is as it *)
(* was read, the one it created is its own, and what it met or made still  *)
(* stands unless something was deleted since the run began.                *)
AppHolds(p) ==
    /\ ens[p].created \in 0 .. clock /\ ens[p].since \in 0 .. deletions
    /\ ens[p].at = "declare" =>
         Stands(ens[p].base) /\ Current(ens[p].base, coll) /\ ens[p].base.enc.by = None
    /\ ens[p].created > 0 /\ coll.born = ens[p].created => coll.by = p
    /\ ens[p].since = deletions =>
         /\ ens[p].at \in AfterSpace /\ p \notin SpaceEnsured => Stands(space)
         /\ ens[p].at \in Late => Stands(coll)
         /\ ens[p].at \in Granting /\ Mode[p] = "edv" => coll.enc.by # None

Apart ==
    \A p, q \in Apps : p # q /\ ens[p].created > 0 => ens[p].created # ens[q].created

Shaped ==
    /\ DOMAIN op = Owners /\ \A o \in Owners : DOMAIN op[o] = OpFields
    /\ DOMAIN ens = Apps /\ \A p \in Apps : DOMAIN ens[p] = RunFields

IInv ==
    /\ RecordsHold /\ Shaped /\ Apart
    /\ \A o \in Owners : OwnerHolds(o)
    /\ \A p \in Apps : AppHolds(p)
-----------------------------------------------------------------------------
(* What any step does to the server's records.                             *)

SpaceMoves ==
    \/ space' = space
    \/ space'.rev = clock + 1 /\ clock' = clock + 1
    \/ space'.rev = 0 /\ deletions' = deletions + 1

ReplicaMoves ==
    \/ replica' = replica
    \/ replica'.rev = clock + 1 /\ clock' = clock + 1
    \/ replica'.rev = 0

CollMoves ==
    \/ coll' = coll
    \/ coll'.rev = clock + 1 /\ clock' = clock + 1
    \/ coll'.rev = 0 /\ deletions' = deletions + 1

(* A Collection keeps its birth, or is born anew; a declaration stays.     *)
CollKept ==
    /\ \/ coll'.born = coll.born /\ coll'.by = coll.by
       \/ coll'.born \in {0, clock + 1}
    /\ Stands(coll) /\ Stands(coll') /\ coll.enc.by # None => coll'.enc.by # None

ServerMoves ==
    /\ clock' \in {clock, clock + 1} /\ deletions' \in {deletions, deletions + 1}
    /\ SpaceMoves /\ ReplicaMoves /\ CollMoves /\ CollKept

(* What was read is as current after such a step as before.                *)
LEMMA OwnerStable ==
    ASSUME RecordsHold, ServerMoves, NEW o \in Owners, OwnerHolds(o), op'[o] = op[o]
    PROVE  OwnerHolds(o)'
<1>1. CASE op[o].at # "write"
  BY <1>1 DEF OwnerHolds
<1>2. CASE op[o].at = "write"
  <2>1. op[o].req.kind = "configure" => Current(op[o].base, space)'
    BY <1>2 DEF OwnerHolds, Current, RecordsHold, ServerMoves, SpaceMoves
  <2>2. Changes(op[o].req.kind) => Stands(op[o].base) /\ Current(op[o].base, replica)'
    BY <1>2 DEF OwnerHolds, Current, RecordsHold, ServerMoves, ReplicaMoves
  <2> QED
    BY <2>1, <2>2 DEF OwnerHolds, Changes, Stands
<1> QED
  BY <1>1, <1>2

LEMMA AppStable ==
    ASSUME RecordsHold, ServerMoves, RecordsHold', NEW p \in Apps, AppHolds(p), ens'[p] = ens[p]
    PROVE  AppHolds(p)'
<1>1. ens'[p].created \in 0 .. clock' /\ ens'[p].since \in 0 .. deletions'
  BY DEF AppHolds, RecordsHold, ServerMoves
<1>2. ens[p].at = "declare" =>
        Stands(ens[p].base) /\ Current(ens[p].base, coll)' /\ ens[p].base.enc.by = None
  BY DEF AppHolds, Current, RecordsHold, ServerMoves, CollMoves, Stands
<1>3. ens[p].created > 0 /\ coll'.born = ens[p].created => coll'.by = p
  BY DEF AppHolds, RecordsHold, ServerMoves, CollKept
<1>4. ASSUME ens[p].since = deletions'
      PROVE  /\ ens[p].at \in AfterSpace /\ p \notin SpaceEnsured => Stands(space')
             /\ ens[p].at \in Late => Stands(coll')
             /\ ens[p].at \in Granting /\ Mode[p] = "edv" => coll'.enc.by # None
  <2>1. deletions' = deletions /\ ens[p].since = deletions
    BY <1>4 DEF AppHolds, RecordsHold, ServerMoves
  <2>2. Stands(space) => Stands(space')
    BY <2>1 DEF RecordsHold, ServerMoves, SpaceMoves, Stands
  <2>3. Stands(coll) => Stands(coll')
    BY <2>1 DEF RecordsHold, ServerMoves, CollMoves, Stands
  <2> QED
    BY <2>1, <2>2, <2>3 DEF AppHolds, ServerMoves, CollKept, Late
<1> QED
  BY <1>1, <1>2, <1>3, <1>4 DEF AppHolds, Stands
-----------------------------------------------------------------------------
(* The owners.                                                             *)

OpMoves(o) ==
    /\ DOMAIN op' = Owners /\ DOMAIN op'[o] = OpFields
    /\ \A q \in Owners \ {o} : op'[q] = op[q]

(* What OnlyTheStated says of an owner's step.                             *)
StatedOnly(o) ==
    op[o].at = "write" =>
      /\ (op[o].req.kind = "configure" /\ Stands(space)) =>
           \A m \in {"name", "controller", "type"} :
             op[o].req[m] = None => space'[m] = space[m]
      /\ Changes(op[o].req.kind) =>
           /\ ~Stands(replica) => ~Stands(replica')
           /\ op[o].req.kind # "capability" => replica'.capability = replica.capability
           /\ op[o].req.kind = "capability" => replica'.paused = replica.paused

OwnerKept(o) ==
    /\ RecordsHold' /\ ServerMoves /\ OpMoves(o)
    /\ OwnerHolds(o)' /\ StatedOnly(o)

LEMMA Becoming ==
    ASSUME Shaped, NEW o \in Owners, NEW now, DOMAIN now = OpFields, Become(o, now)
    PROVE  OpMoves(o) /\ op'[o] = now
  BY DEF Shaped, Become, OpMoves

(* A call that ends, one way or another.                                   *)
LEMMA Ending ==
    ASSUME Shaped, NEW o \in Owners, NEW how \in {"done", "failed", "refused", "deleted", "not-found"},
           Ends(o, how)
    PROVE  OpMoves(o) /\ OwnerHolds(o)'
<1>1. DOMAIN [op[o] EXCEPT !.at = how] = OpFields /\ [op[o] EXCEPT !.at = how].at = how
  BY DEF Shaped, OpFields
<1>2. OpMoves(o) /\ op'[o].at = how
  BY <1>1, Becoming DEF Ends
<1> QED
  BY <1>2 DEF OwnerHolds

(* A step that only reads, or whose request was lost or refused.           *)
LEMMA ServerIdle ==
    ASSUME RecordsHold, UNCHANGED <<space, coll, replica, clock, deletions>>
    PROVE  RecordsHold' /\ ServerMoves /\ \A o \in Owners : StatedOnly(o)
<1>1. RecordsHold'
  BY DEF RecordsHold, Stands
<1>2. ServerMoves
  BY DEF RecordsHold, ServerMoves, SpaceMoves, ReplicaMoves, CollMoves, CollKept
<1>3. ASSUME NEW o \in Owners PROVE StatedOnly(o)
  BY DEF StatedOnly, Stands
<1> QED
  BY <1>1, <1>2, <1>3

LEMMA CallKept ==
    ASSUME RecordsHold, Shaped, NEW o \in Owners, Call(o)
    PROVE  OwnerKept(o)
<1>1. PICK req \in Requests :
        Become(o, [Idle EXCEPT !.req = req,
                     !.at = IF (req.kind = "configure" /\ ~req.seeded) \/ Changes(req.kind)
                            THEN "read" ELSE "write"])
  BY DEF Call
<1> DEFINE now == [Idle EXCEPT !.req = req,
                     !.at = IF (req.kind = "configure" /\ ~req.seeded) \/ Changes(req.kind)
                            THEN "read" ELSE "write"]
<1>2. DOMAIN now = OpFields /\ now.req = req /\ now.base = NoSpace
      /\ (now.at = "write" => ~Changes(req.kind))
  BY DEF Idle, OpFields
<1>3. OpMoves(o) /\ op'[o] = now
  BY <1>1, <1>2, Becoming
<1>4. OwnerHolds(o)'
  <2> HIDE DEF now
  <2> QED
    BY <1>2, <1>3 DEF OwnerHolds, Current, NoSpace, Call, server, RecordsHold, Changes
<1>5. UNCHANGED <<space, coll, replica, clock, deletions>>
  BY DEF Call, server
<1> QED
  BY <1>3, <1>4, <1>5, ServerIdle DEF OwnerKept

LEMMA ReadTargetKept ==
    ASSUME RecordsHold, Shaped, NEW o \in Owners, ReadTarget(o)
    PROVE  OwnerKept(o)
<1> DEFINE seen == Seen(o, Target(o), IF op[o].req.kind = "configure" THEN NoSpace ELSE NoReplica)
           now == [op[o] EXCEPT !.at = "write", !.base = seen]
<1>1. UNCHANGED <<space, coll, replica, clock, deletions>>
  BY DEF ReadTarget, server
<1>2. \/ /\ Become(o, now)
         /\ Changes(op[o].req.kind) => Stands(seen)
      \/ Ends(o, "refused") \/ Ends(o, "failed")
  BY DEF ReadTarget, Answered, Changes
<1>3. CASE Become(o, now) /\ (Changes(op[o].req.kind) => Stands(seen))
  <2>1. DOMAIN now = OpFields /\ now.req = op[o].req /\ now.base = seen
    BY DEF Shaped, OpFields
  <2>2. OpMoves(o) /\ op'[o] = now
    <3> HIDE DEF now
    <3> QED
      BY <1>3, <2>1, Becoming
  <2>3. op[o].req.kind = "configure" => seen \in {space, NoSpace}
    BY DEF Seen, Target
  <2>4. op[o].req.kind # "configure" => seen \in {replica, NoReplica}
    BY DEF Seen, Target
  <2>5. OwnerHolds(o)'
    <3> HIDE DEF now, seen
    <3> QED
      BY <1>1, <1>3, <2>1, <2>2, <2>3, <2>4
         DEF OwnerHolds, Current, NoSpace, NoReplica, RecordsHold, Changes, Stands
  <2> QED
    BY <1>1, <2>2, <2>5, ServerIdle DEF OwnerKept
<1>4. CASE Ends(o, "refused") \/ Ends(o, "failed")
  BY <1>1, <1>4, Ending, ServerIdle DEF OwnerKept
<1> QED
  BY <1>2, <1>3, <1>4

LEMMA LostRaceKept ==
    ASSUME Shaped, NEW o \in Owners, LostRace(o)
    PROVE  OpMoves(o) /\ OwnerHolds(o)'
<1> DEFINE now == [op[o] EXCEPT !.at = "read", !.tries = op[o].tries + 1]
<1>1. Ends(o, "failed") \/ Become(o, now)
  BY DEF LostRace
<1>2. CASE Become(o, now)
  <2>1. DOMAIN now = OpFields /\ now.at = "read"
    BY DEF Shaped, OpFields
  <2> HIDE DEF now
  <2>2. OpMoves(o) /\ op'[o] = now
    BY <1>2, <2>1, Becoming
  <2> QED
    BY <2>1, <2>2 DEF OwnerHolds
<1> QED
  BY <1>1, <1>2, Ending

(* A configure that lands changes what it states, of what it read.         *)
LEMMA ConfigureLands ==
    ASSUME RecordsHold, NEW o \in Owners, OwnerHolds(o),
           op[o].at = "write", op[o].req.kind = "configure", Unchanged(o),
           clock' = clock + 1, space' = Configured(o, op[o].base),
           UNCHANGED <<replica, coll, policy, deletions>>
    PROVE  RecordsHold' /\ ServerMoves /\ StatedOnly(o)
<1>1. /\ DOMAIN space' = SpaceFields /\ space'.rev = clock + 1
      /\ space'.name = Stated(op[o].req.name, op[o].base.name)
      /\ space'.controller = Stated(Stated(op[o].req.controller, op[o].base.controller), o)
      /\ space'.type = Stated(op[o].req.type, op[o].base.type)
  BY DEF Configured, SpaceFields
<1>2. space'.controller # None
  BY <1>1, BoundsTyped DEF Stated, BoundsTyped
<1>3. RecordsHold'
  BY <1>1, <1>2 DEF RecordsHold
<1>4. ServerMoves
  BY <1>1 DEF RecordsHold, ServerMoves, SpaceMoves, ReplicaMoves, CollMoves, CollKept
<1>5. Stands(space) => op[o].base = space
  BY DEF OwnerHolds, Current, Unchanged, Target, Stands, RecordsHold
<1>6. ASSUME Stands(space), NEW m \in {"name", "controller", "type"}, op[o].req[m] = None
      PROVE  space'[m] = space[m]
  <2>1. CASE m = "name"
    BY <1>1, <1>5, <1>6, <2>1 DEF Stated
  <2>2. CASE m = "controller"
    BY <1>1, <1>5, <1>6, <2>2 DEF Stated, RecordsHold
  <2>3. CASE m = "type"
    BY <1>1, <1>5, <1>6, <2>3 DEF Stated
  <2> QED
    BY <1>6, <2>1, <2>2, <2>3
<1>7. StatedOnly(o)
  BY <1>6 DEF StatedOnly, Changes
<1> QED
  BY <1>3, <1>4, <1>7

LEMMA ChangeLands ==
    ASSUME RecordsHold, NEW o \in Owners, OwnerHolds(o),
           op[o].at = "write", Changes(op[o].req.kind), Unchanged(o),
           clock' = clock + 1, replica' = Changed(o, op[o].base),
           UNCHANGED <<space, coll, policy, deletions>>
    PROVE  RecordsHold' /\ ServerMoves /\ StatedOnly(o)
<1>1. op[o].base = replica /\ Stands(replica)
  BY DEF OwnerHolds, Current, Unchanged, Target, Stands, RecordsHold, Changes
<1>2. /\ DOMAIN replica' = ReplicaFields /\ replica'.rev = clock + 1
      /\ op[o].req.kind # "capability" => replica'.capability = replica.capability
      /\ op[o].req.kind = "capability" => replica'.paused = replica.paused
  BY <1>1 DEF Changed, Changes, RecordsHold, ReplicaFields
<1>3. RecordsHold'
  BY <1>2 DEF RecordsHold, Stands
<1>4. ServerMoves
  BY <1>2 DEF RecordsHold, ServerMoves, SpaceMoves, ReplicaMoves, CollMoves, CollKept
<1>5. StatedOnly(o)
  BY <1>1, <1>2 DEF StatedOnly, Changes
<1> QED
  BY <1>3, <1>4, <1>5

LEMMA PutTargetKept ==
    ASSUME RecordsHold, Shaped, NEW o \in Owners, OwnerHolds(o), PutTarget(o)
    PROVE  OwnerKept(o)
<1> DEFINE configures == op[o].req.kind = "configure"
<1>1. op[o].at = "write" /\ (configures \/ Changes(op[o].req.kind))
      /\ UNCHANGED <<coll, policy, deletions>>
  BY DEF PutTarget
<1>2. CASE /\ UNCHANGED <<space, replica, clock>>
           /\ Ends(o, "refused") \/ Ends(o, "failed") \/ LostRace(o)
  BY <1>1, <1>2, Ending, LostRaceKept, ServerIdle DEF OwnerKept
<1>3. CASE /\ Unchanged(o) /\ clock' = clock + 1
           /\ IF configures THEN space' = Configured(o, op[o].base) /\ UNCHANGED replica
              ELSE replica' = Changed(o, op[o].base) /\ UNCHANGED space
           /\ Ends(o, "done") \/ Ends(o, "failed")
  <2>1. OpMoves(o) /\ OwnerHolds(o)'
    BY <1>3, Ending
  <2>2. RecordsHold' /\ ServerMoves /\ StatedOnly(o)
    <3>1. CASE configures
      BY <1>1, <1>3, <3>1, ConfigureLands
    <3>2. CASE ~configures
      BY <1>1, <1>3, <3>2, ChangeLands
    <3> QED
      BY <3>1, <3>2
  <2> QED
    BY <2>1, <2>2 DEF OwnerKept
<1> QED
  BY <1>2, <1>3 DEF PutTarget, Answered

(* With the Space goes all it holds.                                       *)
LEMMA DeleteSpaceKept ==
    ASSUME RecordsHold, Shaped, NEW o \in Owners, DeleteSpace(o)
    PROVE  OwnerKept(o)
<1>1. OpMoves(o) /\ OwnerHolds(o)'
  BY Ending DEF DeleteSpace, Answered
<1>2. StatedOnly(o)
  BY DEF DeleteSpace, StatedOnly, Changes
<1>3. CASE /\ space' = NoSpace /\ coll' = NoColl /\ replica' = NoReplica
           /\ deletions' = deletions + 1 /\ UNCHANGED clock
  <2>1. RecordsHold'
    BY <1>3 DEF RecordsHold, NoSpace, NoColl, NoReplica, SpaceFields, CollFields, EncFields,
                ReplicaFields, Stands
  <2>2. ServerMoves
    BY <1>3 DEF RecordsHold, ServerMoves, SpaceMoves, ReplicaMoves, CollMoves, CollKept,
                NoSpace, NoColl, NoReplica, Stands
  <2> QED
    BY <1>1, <1>2, <2>1, <2>2 DEF OwnerKept
<1>4. CASE UNCHANGED server
  BY <1>1, <1>4, ServerIdle DEF OwnerKept, server
<1> QED
  BY <1>3, <1>4 DEF DeleteSpace

LEMMA CreateCollectionKept ==
    ASSUME RecordsHold, Shaped, NEW o \in Owners, CreateCollection(o)
    PROVE  OwnerKept(o)
<1>1. OpMoves(o) /\ OwnerHolds(o)'
  BY Ending DEF CreateCollection, Answered
<1>2. StatedOnly(o)
  BY DEF CreateCollection, StatedOnly, Changes
<1>3. UNCHANGED <<space, replica, deletions>>
  BY DEF CreateCollection
<1>4. CASE /\ clock' = clock + 1 /\ ~Stands(coll)
           /\ coll' = [rev |-> clock + 1, born |-> clock + 1, name |-> o, by |-> None,
                       enc |-> [by |-> op[o].req.enc, epochs |-> {}]]
  <2>1. RecordsHold'
    BY <1>3, <1>4 DEF RecordsHold, CollFields, EncFields, Stands
  <2>2. ServerMoves
    BY <1>3, <1>4 DEF RecordsHold, ServerMoves, SpaceMoves, ReplicaMoves, CollMoves, CollKept
  <2> QED
    BY <1>1, <1>2, <2>1, <2>2 DEF OwnerKept
<1>5. CASE UNCHANGED <<coll, clock>>
  BY <1>1, <1>3, <1>5, ServerIdle DEF OwnerKept
<1> QED
  BY <1>4, <1>5 DEF CreateCollection

LEMMA ReplicaKept ==
    ASSUME RecordsHold, Shaped, NEW o \in Owners, RegisterReplica(o) \/ DeregisterReplica(o)
    PROVE  OwnerKept(o)
<1>1. OpMoves(o) /\ OwnerHolds(o)'
  BY Ending DEF RegisterReplica, DeregisterReplica, Answered
<1>2. StatedOnly(o)
  BY DEF RegisterReplica, DeregisterReplica, StatedOnly, Changes
<1>3. UNCHANGED <<space, coll, deletions>>
  BY DEF RegisterReplica, DeregisterReplica
<1>4. \/ clock' = clock + 1 /\ replica' = [rev |-> clock + 1, paused |-> FALSE, capability |-> o]
      \/ replica' = NoReplica /\ UNCHANGED clock
      \/ UNCHANGED <<replica, clock>>
  BY DEF RegisterReplica, DeregisterReplica
<1>5. RecordsHold'
  BY <1>3, <1>4 DEF RecordsHold, NoReplica, ReplicaFields, Stands
<1>6. ServerMoves
  BY <1>3, <1>4 DEF RecordsHold, ServerMoves, SpaceMoves, ReplicaMoves, CollMoves, CollKept, NoReplica
<1> QED
  BY <1>1, <1>2, <1>5, <1>6 DEF OwnerKept

LEMMA OwnerStepKept ==
    ASSUME RecordsHold, Shaped, NEW o \in Owners, OwnerHolds(o), OwnerStep(o)
    PROVE  OwnerKept(o)
  BY CallKept, ReadTargetKept, PutTargetKept, DeleteSpaceKept, CreateCollectionKept, ReplicaKept
     DEF OwnerStep
-----------------------------------------------------------------------------
(* The apps.                                                               *)

RunMoves(p) ==
    /\ DOMAIN ens' = Apps /\ DOMAIN ens'[p] = RunFields
    /\ \A q \in Apps \ {p} : ens'[q] = ens[q]

(* What Provisioned and NothingOverwritten say of an app's step.           *)
EndsWell(p) ==
    (ens[p].at # "done" /\ ens'[p].at = "done" /\ ens[p].since = deletions) =>
      /\ Stands(coll') /\ (p \notin SpaceEnsured => Stands(space'))
      /\ Mode[p] = "edv" => coll'.enc.by # None
      /\ p \in Public => policy' = "public"

KeepsWhatStands ==
    /\ Stands(space) => space' = space
    /\ Stands(coll) =>
         /\ coll'.name = coll.name /\ coll'.by = coll.by /\ coll'.born = coll.born
         /\ coll.enc.by # None => coll'.enc = coll.enc

AppKept(p) ==
    /\ RecordsHold' /\ ServerMoves /\ RunMoves(p) /\ AppHolds(p)'
    /\ ens'[p].created \in {0, ens[p].created, clock + 1}
    /\ EndsWell(p) /\ KeepsWhatStands

(* Where a run may go, given what stands after its step.                   *)
Fits(p, at) ==
    ens[p].since = deletions =>
      /\ at \in AfterSpace \union {"done"} /\ p \notin SpaceEnsured => Stands(space')
      /\ at \in Late \union {"done"} => Stands(coll')
      /\ at \in Granting \union {"done"} /\ Mode[p] = "edv" => coll'.enc.by # None
      /\ at = "done" /\ p \in Public => policy' = "public"

LEMMA Running ==
    ASSUME Shaped, NEW p \in Apps, NEW run, DOMAIN run = RunFields, Now(p, run)
    PROVE  RunMoves(p) /\ ens'[p] = run
  BY DEF Shaped, Now, RunMoves

(* A run that moves on and remembers nothing new.                          *)
LEMMA Goes ==
    ASSUME RecordsHold, RecordsHold', Shaped, ServerMoves, NEW p \in Apps, AppHolds(p),
           NEW at, at # "declare", To(p, at), deletions' = deletions,
           Fits(p, at), KeepsWhatStands
    PROVE  AppKept(p)
<1> DEFINE run == [ens[p] EXCEPT !.at = at]
<1>1. /\ DOMAIN run = RunFields /\ run.at = at
      /\ run.created = ens[p].created /\ run.since = ens[p].since
  BY DEF Shaped, RunFields
<1>2. Now(p, run)
  BY DEF To
<1> HIDE DEF run
<1>3. RunMoves(p) /\ ens'[p] = run
  BY <1>1, <1>2, Running
<1>4. ens'[p].created \in 0 .. clock' /\ ens'[p].since \in 0 .. deletions'
  BY <1>1, <1>3 DEF AppHolds, RecordsHold, ServerMoves
<1>5. ens'[p].created > 0 /\ coll'.born = ens'[p].created => coll'.by = p
  BY <1>1, <1>3 DEF AppHolds, RecordsHold, ServerMoves, CollKept
<1>6. AppHolds(p)'
  BY <1>1, <1>3, <1>4, <1>5 DEF AppHolds, Fits
<1>7. EndsWell(p)
  BY <1>1, <1>3 DEF EndsWell, Fits
<1> QED
  BY <1>1, <1>3, <1>6, <1>7 DEF AppKept

(* The same, of a step that only reads or whose request was lost.          *)
LEMMA GoesIdle ==
    ASSUME RecordsHold, Shaped, NEW p \in Apps, AppHolds(p), NEW at, at # "declare",
           To(p, at), UNCHANGED <<space, coll, replica, clock, deletions>>, Fits(p, at)
    PROVE  AppKept(p)
<1>1. KeepsWhatStands
  BY DEF KeepsWhatStands
<1> QED
  BY <1>1, ServerIdle, Goes

Failing == {"failed", "refused", "create space", "reread space"}

LEMMA Fails ==
    ASSUME NEW p \in Apps, NEW at \in Failing
    PROVE  Fits(p, at) /\ at # "declare"
  BY DEF Fits, Failing, AfterSpace, Late, Granting

LEMMA ReadSpaceKept ==
    ASSUME RecordsHold, Shaped, NEW p \in Apps, AppHolds(p), ReadSpace(p)
    PROVE  AppKept(p)
<1>1. UNCHANGED <<space, coll, replica, clock, deletions>>
  BY DEF ReadSpace, server
<1>2. \/ Stands(space) /\ To(p, "read collection")
      \/ To(p, "create space") \/ To(p, "failed")
  BY DEF ReadSpace, Answered
<1>3. CASE Stands(space) /\ To(p, "read collection")
  <2>1. Fits(p, "read collection")
    BY <1>1, <1>3 DEF Fits, AfterSpace, Late, Granting
  <2> QED
    BY <1>1, <1>3, <2>1, GoesIdle
<1> QED
  BY <1>1, <1>2, <1>3, GoesIdle, Fails DEF Failing

LEMMA CreateSpaceKept ==
    ASSUME RecordsHold, Shaped, NEW p \in Apps, AppHolds(p), CreateSpace(p)
    PROVE  AppKept(p)
<1>1. UNCHANGED <<coll, replica, deletions>>
  BY DEF CreateSpace
<1>2. CASE UNCHANGED <<space, clock>> /\ To(p, "reread space")
  BY <1>1, <1>2, GoesIdle, Fails DEF Failing
<1>3. CASE /\ ~Stands(space) /\ clock' = clock + 1
           /\ space' = [rev |-> clock + 1, name |-> p, controller |-> p, type |-> None]
           /\ To(p, "read collection") \/ To(p, "reread space")
  <2>1. /\ DOMAIN space' = SpaceFields /\ space'.rev = clock + 1 /\ space'.controller # None
        /\ clock' = clock + 1
    BY <1>3, AppsTyped DEF AppsTyped, SpaceFields
  <2>2. RecordsHold'
    BY <1>1, <2>1 DEF RecordsHold
  <2>3. ServerMoves
    BY <1>1, <1>3, <2>1 DEF RecordsHold, ServerMoves, SpaceMoves, ReplicaMoves, CollMoves, CollKept
  <2>4. KeepsWhatStands
    BY <1>1, <1>3 DEF KeepsWhatStands
  <2>5. Fits(p, "read collection")
    BY <2>1 DEF Fits, AfterSpace, Late, Granting, Stands, RecordsHold
  <2> QED
    BY <1>1, <1>3, <2>2, <2>3, <2>4, <2>5, Goes, Fails DEF Failing
<1> QED
  BY <1>2, <1>3 DEF CreateSpace, Answered, Guarded

LEMMA GrantsNext ==
    ASSUME NEW p \in Apps, NEW created \in Nat
    PROVE  /\ Grants(p, created) \in Granting \union {"done"}
           /\ Grants(p, created) = "done" => p \notin Public
<1>1. CASE p \in Public /\ created > 0
  BY <1>1 DEF Grants, Granting
<1>2. CASE p \in Public /\ created = 0
  BY <1>2 DEF Grants, Granting
<1>3. CASE p \notin Public
  BY <1>3 DEF Grants
<1> QED
  BY <1>1, <1>2, <1>3

LEMMA OnwardNext ==
    ASSUME NEW p \in Apps, NEW read, NEW created \in Nat
    PROVE  /\ Onward(p, read, created) \in Granting \union {"done", "refused", "declare"}
           /\ Onward(p, read, created) = "declare" => created = 0 /\ read.enc.by = None
           /\ Onward(p, read, created) = "done" => p \notin Public
           /\ (Onward(p, read, created) \in Granting \union {"done"} /\ Mode[p] = "edv"
                /\ created = 0) => read.enc.by # None
<1>1. CASE Mode[p] = "governed" /\ read.enc.by = "client"
  BY <1>1 DEF Onward, Granting
<1>2. CASE Mode[p] = "edv" /\ created = 0 /\ read.enc.by = None
  BY <1>2 DEF Onward, Granting
<1>3. CASE /\ ~(Mode[p] = "governed" /\ read.enc.by = "client")
           /\ ~(Mode[p] = "edv" /\ created = 0 /\ read.enc.by = None)
  <2>1. Onward(p, read, created) = Grants(p, created)
    BY <1>3 DEF Onward
  <2> QED
    BY <1>3, <2>1, GrantsNext DEF Granting
<1> QED
  BY <1>1, <1>2, <1>3

(* A Collection is adopted as read, or as it was just created.             *)
LEMMA Proceeds ==
    ASSUME RecordsHold, RecordsHold', Shaped, ServerMoves, KeepsWhatStands,
           NEW p \in Apps, AppHolds(p), NEW created \in {0, clock + 1},
           Stands(coll'), deletions' = deletions, space' = space, ens[p].at \in AfterSpace,
           created # 0 => /\ coll'.by = p /\ clock' = clock + 1
                          /\ Mode[p] = "edv" => coll'.enc.by # None,
           Proceed(p, coll', created)
    PROVE  AppKept(p)
<1> DEFINE at == Onward(p, coll', created)
           run == [ens[p] EXCEPT !.at = at, !.base = coll', !.created = created]
<1>1. /\ DOMAIN run = RunFields /\ run.at = at /\ run.base = coll'
      /\ run.created = created /\ run.since = ens[p].since
  BY DEF Shaped, RunFields
<1>2. Now(p, run)
  BY DEF Proceed
<1>3. /\ at \in Granting \union {"done", "refused", "declare"}
      /\ at = "declare" => created = 0 /\ coll'.enc.by = None
      /\ at = "done" => p \notin Public
      /\ (at \in Granting \union {"done"} /\ Mode[p] = "edv" /\ created = 0) => coll'.enc.by # None
  BY OnwardNext DEF RecordsHold
<1> HIDE DEF run, at
<1>4. RunMoves(p) /\ ens'[p] = run
  BY <1>1, <1>2, Running
<1>5. ens'[p].created \in 0 .. clock' /\ ens'[p].since \in 0 .. deletions'
  BY <1>1, <1>4 DEF AppHolds, RecordsHold
<1>6. ens'[p].at = "declare" =>
        Stands(ens'[p].base) /\ Current(ens[p].base, coll)' /\ ens'[p].base.enc.by = None
  BY <1>1, <1>3, <1>4 DEF Current, RecordsHold
<1>7. ens'[p].created > 0 /\ coll'.born = ens'[p].created => coll'.by = p
  BY <1>1, <1>4
<1>8. ens'[p].since = deletions' =>
         /\ ens'[p].at \in AfterSpace /\ p \notin SpaceEnsured => Stands(space')
         /\ ens'[p].at \in Late => Stands(coll')
         /\ ens'[p].at \in Granting /\ Mode[p] = "edv" => coll'.enc.by # None
  BY <1>1, <1>3, <1>4 DEF AppHolds
<1>9. AppHolds(p)'
  BY <1>5, <1>6, <1>7, <1>8 DEF AppHolds
<1>10. EndsWell(p)
  BY <1>1, <1>3, <1>4 DEF EndsWell, AppHolds
<1> QED
  BY <1>1, <1>4, <1>9, <1>10 DEF AppKept

LEMMA ReadCollectionKept ==
    ASSUME RecordsHold, Shaped, NEW p \in Apps, AppHolds(p), ReadCollection(p)
    PROVE  AppKept(p)
<1>1. UNCHANGED <<space, coll, replica, clock, deletions>>
  BY DEF ReadCollection, server
<1>2. ens[p].at \in AfterSpace
  BY DEF ReadCollection, AfterSpace
<1>3. \/ Stands(coll) /\ Proceed(p, coll, 0)
      \/ To(p, "create collection") \/ To(p, "failed")
  BY DEF ReadCollection, Answered
<1>4. CASE Stands(coll) /\ Proceed(p, coll, 0)
  <2>1. KeepsWhatStands
    BY <1>1 DEF KeepsWhatStands
  <2> QED
    BY <1>1, <1>2, <1>4, <2>1, ServerIdle, Proceeds
<1>5. CASE To(p, "create collection")
  <2>1. Fits(p, "create collection")
    BY <1>1, <1>2 DEF Fits, AfterSpace, Late, Granting, AppHolds
  <2> QED
    BY <1>1, <1>5, <2>1, GoesIdle
<1> QED
  BY <1>1, <1>3, <1>4, <1>5, GoesIdle, Fails DEF Failing

LEMMA CreateIfAbsentKept ==
    ASSUME RecordsHold, Shaped, NEW p \in Apps, AppHolds(p), CreateIfAbsent(p)
    PROVE  AppKept(p)
<1>1. UNCHANGED <<space, replica, deletions>> /\ ens[p].at \in AfterSpace
  BY DEF CreateIfAbsent, AfterSpace
<1>2. Fits(p, "reread collection")
  BY <1>1 DEF Fits, AfterSpace, Late, Granting, AppHolds
<1>3. CASE UNCHANGED <<coll, clock>> /\ To(p, "reread collection")
  BY <1>1, <1>2, <1>3, GoesIdle
<1>4. CASE /\ ~Stands(coll) /\ clock' = clock + 1
           /\ coll' = [rev |-> clock + 1, born |-> clock + 1, name |-> p, by |-> p,
                       enc |-> [by |-> IF Mode[p] = "edv" THEN "client" ELSE None, epochs |-> {}]]
           /\ Proceed(p, coll', coll'.born) \/ To(p, "reread collection")
  <2>1. /\ DOMAIN coll' = CollFields /\ DOMAIN coll'.enc = EncFields
        /\ coll'.rev = clock + 1 /\ coll'.born = clock + 1 /\ coll'.by = p
        /\ clock' = clock + 1
    BY <1>4 DEF CollFields, EncFields
  <2>2. Mode[p] = "edv" => coll'.enc.by # None
    BY <1>4, AppsTyped DEF AppsTyped
  <2>3. RecordsHold'
    BY <1>1, <2>1 DEF RecordsHold
  <2>4. ServerMoves
    BY <1>1, <1>4, <2>1 DEF RecordsHold, ServerMoves, SpaceMoves, ReplicaMoves, CollMoves, CollKept
  <2>5. KeepsWhatStands
    BY <1>1, <1>4 DEF KeepsWhatStands
  <2>6. CASE Proceed(p, coll', coll'.born)
    <3>1. Stands(coll') /\ coll'.born \in {0, clock + 1}
      BY <2>1 DEF Stands, RecordsHold
    <3> QED
      BY <1>1, <2>1, <2>2, <2>3, <2>4, <2>5, <2>6, <3>1, Proceeds
  <2>7. CASE To(p, "reread collection")
    BY <1>1, <1>2, <2>3, <2>4, <2>5, <2>7, Goes
  <2> QED
    BY <1>4, <2>6, <2>7
<1> QED
  BY <1>3, <1>4 DEF CreateIfAbsent, Answered, Guarded

LEMMA DeclareKept ==
    ASSUME RecordsHold, Shaped, NEW p \in Apps, AppHolds(p), Declare(p)
    PROVE  AppKept(p)
<1>1. UNCHANGED <<space, replica, deletions>> /\ ens[p].at = "declare"
  BY DEF Declare
<1>2. CASE UNCHANGED <<coll, clock>> /\ To(p, "failed")
  BY <1>1, <1>2, GoesIdle, Fails DEF Failing
<1>3. CASE /\ UNCHANGED <<coll, clock>>
           /\ Now(p, [ens[p] EXCEPT !.at = "read declaration", !.tries = ens[p].tries + 1])
  <2> DEFINE run == [ens[p] EXCEPT !.at = "read declaration", !.tries = ens[p].tries + 1]
  <2>1. /\ DOMAIN run = RunFields /\ run.at = "read declaration"
        /\ run.created = ens[p].created /\ run.since = ens[p].since
    BY DEF Shaped, RunFields
  <2>2. Now(p, run)
    BY <1>3
  <2> HIDE DEF run
  <2>3. RunMoves(p) /\ ens'[p] = run
    BY <2>1, <2>2, Running
  <2>4. AppHolds(p)'
    BY <1>1, <1>3, <2>1, <2>3 DEF AppHolds, AfterSpace, Late, Granting
  <2>5. EndsWell(p) /\ KeepsWhatStands
    BY <1>1, <1>3, <2>1, <2>3 DEF EndsWell, KeepsWhatStands
  <2> QED
    BY <1>1, <1>3, <2>1, <2>3, <2>4, <2>5, ServerIdle DEF AppKept
<1>4. CASE /\ coll.rev = ens[p].base.rev /\ clock' = clock + 1
           /\ coll' = [ens[p].base EXCEPT !.rev = clock + 1, !.enc.by = "client", !.enc.epochs = {}]
           /\ To(p, Grants(p, 0)) \/ To(p, "failed")
  <2>1. ens[p].base = coll /\ Stands(coll) /\ coll.enc.by = None
    BY <1>1, <1>4 DEF AppHolds, Current, Stands
  <2>2. /\ DOMAIN coll' = CollFields /\ DOMAIN coll'.enc = EncFields
        /\ coll'.rev = clock + 1 /\ coll'.born = coll.born /\ coll'.by = coll.by
        /\ coll'.name = coll.name /\ coll'.enc.by = "client" /\ clock' = clock + 1
    BY <1>4, <2>1 DEF RecordsHold, CollFields, EncFields
  <2>3. RecordsHold'
    BY <1>1, <2>2 DEF RecordsHold
  <2>4. ServerMoves
    BY <1>1, <2>1, <2>2 DEF RecordsHold, ServerMoves, SpaceMoves, ReplicaMoves, CollMoves, CollKept
  <2>5. KeepsWhatStands
    BY <1>1, <2>1, <2>2 DEF KeepsWhatStands
  <2>6. Fits(p, Grants(p, 0)) /\ Grants(p, 0) # "declare"
    <3>1. Stands(coll') /\ coll'.enc.by # None
      BY <2>2, AppsTyped DEF AppsTyped, Stands, RecordsHold
    <3> QED
      BY <1>1, <3>1, GrantsNext DEF Fits, AppHolds, Granting, Late, AfterSpace
  <2> QED
    BY <1>1, <1>4, <2>3, <2>4, <2>5, <2>6, Goes, Fails DEF Failing
<1> QED
  BY <1>2, <1>3, <1>4 DEF Declare, Answered

(* Where a run goes that has the Collection and only the grant to see to.  *)
LEMMA GrantsFit ==
    ASSUME RecordsHold, NEW p \in Apps, AppHolds(p), ens[p].at \in Late,
           UNCHANGED <<space, coll, deletions>>, Mode[p] = "edv" => coll.enc.by # None
    PROVE  Fits(p, Grants(p, 0)) /\ Grants(p, 0) # "declare"
<1>1. /\ Grants(p, 0) \in Granting \union {"done"}
      /\ Grants(p, 0) = "done" => p \notin Public
  BY GrantsNext
<1> QED
  BY <1>1 DEF Fits, AppHolds, Granting, Late, AfterSpace

LEMMA ReadDeclarationKept ==
    ASSUME RecordsHold, Shaped, NEW p \in Apps, AppHolds(p), ReadDeclaration(p)
    PROVE  AppKept(p)
<1>1. UNCHANGED <<space, coll, replica, clock, deletions>>
      /\ ens[p].at = "read declaration" /\ ens[p].at \in Late
  BY DEF ReadDeclaration, server, Late
<1>2. \/ Stands(coll) /\ coll.enc.by = None
         /\ Now(p, [ens[p] EXCEPT !.at = "declare", !.base = coll])
      \/ coll.enc.by # None /\ To(p, Grants(p, 0))
      \/ To(p, "failed")
  BY DEF ReadDeclaration, Answered, Undescribed
<1>3. CASE /\ Stands(coll) /\ coll.enc.by = None
           /\ Now(p, [ens[p] EXCEPT !.at = "declare", !.base = coll])
  <2> DEFINE run == [ens[p] EXCEPT !.at = "declare", !.base = coll]
  <2>1. /\ DOMAIN run = RunFields /\ run.at = "declare" /\ run.base = coll
        /\ run.created = ens[p].created /\ run.since = ens[p].since
    BY DEF Shaped, RunFields
  <2>2. Now(p, run)
    BY <1>3
  <2> HIDE DEF run
  <2>3. RunMoves(p) /\ ens'[p] = run
    BY <2>1, <2>2, Running
  <2>4. Current(run.base, coll')
    BY <1>1, <2>1 DEF Current, RecordsHold
  <2>5. AppHolds(p)'
    BY <1>1, <1>3, <2>1, <2>3, <2>4 DEF AppHolds, Current, AfterSpace, Late, Granting
  <2>6. EndsWell(p) /\ KeepsWhatStands
    BY <1>1, <2>1, <2>3 DEF EndsWell, KeepsWhatStands
  <2> QED
    BY <1>1, <2>1, <2>3, <2>5, <2>6, ServerIdle DEF AppKept
<1>4. CASE coll.enc.by # None /\ To(p, Grants(p, 0))
  BY <1>1, <1>4, GrantsFit, GoesIdle
<1> QED
  BY <1>1, <1>2, <1>3, <1>4, GoesIdle, Fails DEF Failing

LEMMA GrantKept ==
    ASSUME RecordsHold, Shaped, NEW p \in Apps, AppHolds(p), ReadPolicy(p) \/ SetPublic(p)
    PROVE  AppKept(p)
<1>1. UNCHANGED <<space, coll, replica, clock, deletions>> /\ ens[p].at \in Granting
  BY DEF ReadPolicy, SetPublic, server, Granting
<1>2. \/ policy' = "public" /\ To(p, "done")
      \/ To(p, "set policy") \/ To(p, "failed")
  BY DEF ReadPolicy, SetPublic, Answered, server
<1>3. Fits(p, "set policy") /\ (policy' = "public" => Fits(p, "done"))
  BY <1>1 DEF Fits, AppHolds, Granting, Late, AfterSpace
<1> QED
  BY <1>1, <1>2, <1>3, GoesIdle, Fails DEF Failing

(* A run torn anywhere starts over and takes nothing for granted.          *)
LEMMA TornKept ==
    ASSUME RecordsHold, Shaped, NEW p \in Apps, AppHolds(p), Rerun(p) \/ Crash(p)
    PROVE  AppKept(p)
<1>1. UNCHANGED <<space, coll, replica, clock, deletions>>
  BY DEF Rerun, Crash, server
<1>2. CASE To(p, "failed")
  BY <1>1, <1>2, GoesIdle, Fails DEF Failing
<1>3. CASE Now(p, Run(p))
  <2> DEFINE run == Run(p)
  <2>1. /\ DOMAIN run = RunFields /\ run.created = 0 /\ run.since = deletions
    BY DEF Run, RunFields
  <2>2. run.at \notin Late /\ run.at # "done"
        /\ (p \notin SpaceEnsured => run.at \notin AfterSpace)
    BY DEF Run, AfterSpace, Late, Granting
  <2>3. Now(p, run)
    BY <1>3
  <2> HIDE DEF run
  <2>4. RunMoves(p) /\ ens'[p] = run
    BY <2>1, <2>3, Running
  <2>5. AppHolds(p)'
    <3>1. ens'[p].created \in 0 .. clock' /\ ens'[p].since \in 0 .. deletions'
          /\ ~(ens'[p].created > 0)
      BY <1>1, <2>1, <2>4 DEF RecordsHold
    <3>2. ens'[p].at \notin Late /\ ens'[p].at # "declare" /\ ens'[p].at \notin Granting
          /\ (p \notin SpaceEnsured => ens'[p].at \notin AfterSpace)
      BY <2>2, <2>4 DEF Late
    <3> QED
      BY <3>1, <3>2 DEF AppHolds
  <2>6. EndsWell(p) /\ KeepsWhatStands
    BY <1>1, <2>2, <2>4 DEF EndsWell, KeepsWhatStands
  <2>7. ens'[p].created = 0
    BY <2>1, <2>4
  <2> QED
    BY <1>1, <2>4, <2>5, <2>6, <2>7, ServerIdle DEF AppKept
<1> QED
  BY <1>2, <1>3 DEF Rerun, Crash

LEMMA AppStepKept ==
    ASSUME RecordsHold, Shaped, NEW p \in Apps, AppHolds(p), AppStep(p) \/ Crash(p)
    PROVE  AppKept(p)
  BY ReadSpaceKept, CreateSpaceKept, ReadCollectionKept, CreateIfAbsentKept, DeclareKept,
     ReadDeclarationKept, GrantKept, TornKept DEF AppStep
-----------------------------------------------------------------------------
(* Others.                                                                 *)

LEMMA OthersKept ==
    ASSUME RecordsHold, Others
    PROVE  RecordsHold' /\ ServerMoves /\ ens' = ens /\ op' = op
<1>1. UNCHANGED <<space, replica, ens, op>> /\ Stands(coll)
  BY DEF Others
<1>2. CASE UNCHANGED <<coll, clock, deletions>>
  BY <1>1, <1>2, ServerIdle
<1>3. CASE coll' = NoColl /\ deletions' = deletions + 1 /\ UNCHANGED clock
  <2>1. RecordsHold'
    BY <1>1, <1>3 DEF RecordsHold, NoColl, CollFields, EncFields, Stands
  <2>2. ServerMoves
    BY <1>1, <1>3 DEF RecordsHold, ServerMoves, SpaceMoves, ReplicaMoves, CollMoves, CollKept,
                      NoColl, Stands
  <2> QED
    BY <1>1, <2>1, <2>2
<1>4. CASE clock' = clock + 1 /\ UNCHANGED deletions
  <2>1. /\ DOMAIN coll' = CollFields /\ DOMAIN coll'.enc = EncFields
        /\ coll'.rev = clock + 1 /\ coll'.born = coll.born /\ coll'.by = coll.by
        /\ coll.enc.by # None => coll'.enc.by # None
    <3>1. CASE coll' = [coll EXCEPT !.rev = clock + 1, !.name = "renamed"]
      BY <3>1 DEF RecordsHold, CollFields, EncFields
    <3>2. CASE coll' = [coll EXCEPT !.rev = clock + 1, !.enc.epochs = {"first"}]
      BY <3>2 DEF RecordsHold, CollFields, EncFields
    <3>3. CASE coll' = [coll EXCEPT !.rev = clock + 1, !.enc = [by |-> "log", epochs |-> {"first"}]]
      BY <3>3, AppsTyped DEF RecordsHold, CollFields, EncFields, AppsTyped
    <3>4. CASE UNCHANGED clock
      BY <1>4, <3>4 DEF RecordsHold
    <3> QED
      BY <1>4, <3>1, <3>2, <3>3, <3>4 DEF Others
  <2>2. RecordsHold'
    BY <1>1, <1>4, <2>1 DEF RecordsHold, Stands
  <2>3. ServerMoves
    BY <1>1, <1>4, <2>1 DEF RecordsHold, ServerMoves, SpaceMoves, ReplicaMoves, CollMoves, CollKept
  <2> QED
    BY <1>1, <2>2, <2>3
<1> QED
  BY <1>1, <1>2, <1>3, <1>4 DEF Others
-----------------------------------------------------------------------------
(* The invariant.                                                          *)

LEMMA InitHolds == Init => IInv
<1> SUFFICES ASSUME Init PROVE IInv
  OBVIOUS
<1>1. PICK cast \in Casts :
        /\ SpaceInit(cast) /\ others = 0
        /\ ens = [p \in Apps |-> IF p \in cast THEN Run(p) ELSE [Run(p) EXCEPT !.at = "out"]]
  BY DEF Init
<1>2. PICK start \in Starts :
        /\ space = start.space /\ coll = start.coll /\ policy = start.policy
        /\ replica = start.replica /\ clock = start.clock
  BY <1>1 DEF SpaceInit
<1>3. deletions = 0 /\ op = [o \in Owners |-> IF o \in cast THEN Idle ELSE Out]
  BY <1>1 DEF SpaceInit
<1>4. RecordsHold
  <2>1. /\ start.clock \in Nat
        /\ DOMAIN start.space = SpaceFields /\ DOMAIN start.replica = ReplicaFields
        /\ DOMAIN start.coll = CollFields /\ DOMAIN start.coll.enc = EncFields
        /\ {start.space.rev, start.coll.rev, start.coll.born, start.replica.rev} \subseteq 0 .. start.clock
        /\ Stands(start.space) => start.space.controller # None
    BY StartsTyped DEF NoSpace, NoColl, NoReplica, SpaceFields, CollFields, EncFields, ReplicaFields
  <2> QED
    BY <1>2, <1>3, <2>1 DEF RecordsHold
<1>5. ASSUME NEW o \in Owners
      PROVE  DOMAIN op[o] = OpFields /\ op[o].at # "write"
  BY <1>3 DEF Idle, Out, OpFields
<1>6. ASSUME NEW p \in Apps
      PROVE  DOMAIN ens[p] = RunFields /\ ens[p].created = 0 /\ ens[p].since = deletions
  <2>1. CASE p \in cast
    BY <1>1, <2>1 DEF Run, RunFields
  <2>2. CASE p \notin cast
    BY <1>1, <2>2 DEF Run, RunFields
  <2> QED
    BY <2>1, <2>2
<1>7. ASSUME NEW p \in Apps
      PROVE  ens[p].at \notin Late /\ (p \notin SpaceEnsured => ens[p].at \notin AfterSpace)
  <2>1. CASE p \in cast
    BY <1>1, <2>1 DEF Run, AfterSpace, Late, Granting
  <2>2. CASE p \notin cast
    BY <1>1, <2>2 DEF Run, AfterSpace, Late, Granting
  <2> QED
    BY <2>1, <2>2
<1>8. Shaped
  BY <1>1, <1>3, <1>5, <1>6 DEF Shaped
<1>9. Apart
  BY <1>6 DEF Apart
<1>10. ASSUME NEW p \in Apps PROVE AppHolds(p)
  <2>1. ens[p].created \in 0 .. clock /\ ens[p].since \in 0 .. deletions /\ ~(ens[p].created > 0)
    BY <1>4, <1>6 DEF RecordsHold
  <2>2. ens[p].at \notin Late /\ ens[p].at # "declare" /\ ens[p].at \notin Granting
        /\ (p \notin SpaceEnsured => ens[p].at \notin AfterSpace)
    BY <1>7 DEF Late
  <2> QED
    BY <2>1, <2>2 DEF AppHolds
<1> QED
  BY <1>4, <1>5, <1>8, <1>9, <1>10 DEF IInv, OwnerHolds

(* What a step of one owner, and of one app, keeps.                        *)
LEMMA OwnerKeeps ==
    ASSUME IInv, NEW o \in Owners, OwnerStep(o), UNCHANGED <<ens, others>>
    PROVE  IInv'
<1>1. OwnerKept(o)
  BY OwnerStepKept DEF IInv
<1>2. RecordsHold' /\ ServerMoves /\ OpMoves(o) /\ OwnerHolds(o)'
  BY <1>1 DEF OwnerKept
<1>3. ASSUME NEW q \in Owners PROVE OwnerHolds(q)'
  <2>1. CASE q = o
    BY <1>2, <2>1
  <2>2. CASE q # o
    BY <1>2, <2>2, OwnerStable DEF IInv, OpMoves
  <2> QED
    BY <2>1, <2>2
<1>4. ASSUME NEW p \in Apps PROVE AppHolds(p)'
  BY <1>2, AppStable DEF IInv
<1>5. Shaped' /\ Apart'
  BY <1>2 DEF IInv, Shaped, Apart, OpMoves
<1> QED
  BY <1>2, <1>3, <1>4, <1>5 DEF IInv

LEMMA AppKeeps ==
    ASSUME IInv, NEW p \in Apps, AppStep(p) \/ Crash(p)
    PROVE  IInv' /\ AppKept(p) /\ op' = op
<1>1. AppKept(p)
  BY AppStepKept DEF IInv
<1>2. RecordsHold' /\ ServerMoves /\ RunMoves(p) /\ AppHolds(p)'
      /\ ens'[p].created \in {0, ens[p].created, clock + 1}
  BY <1>1 DEF AppKept
<1>3. op' = op
  BY DEF AppStep, ReadSpace, CreateSpace, ReadCollection, CreateIfAbsent, Declare,
         ReadDeclaration, ReadPolicy, SetPublic, Rerun, Crash, Rest
<1>4. ASSUME NEW q \in Apps PROVE AppHolds(q)'
  <2>1. CASE q = p
    BY <1>2, <2>1
  <2>2. CASE q # p
    BY <1>2, <2>2, AppStable DEF IInv, RunMoves
  <2> QED
    BY <2>1, <2>2
<1>5. ASSUME NEW o \in Owners PROVE OwnerHolds(o)'
  BY <1>2, <1>3, OwnerStable DEF IInv
<1>6. Shaped'
  BY <1>2, <1>3 DEF IInv, Shaped, RunMoves
<1>7. Apart'
  <2> SUFFICES ASSUME NEW q \in Apps, NEW r \in Apps, q # r, ens'[q].created > 0
               PROVE  ens'[q].created # ens'[r].created
    BY DEF Apart
  <2>1. clock \in Nat /\ \A a \in Apps : ens[a].created \in 0 .. clock
    BY DEF IInv, RecordsHold, AppHolds
  <2>2. q # p => ens'[q].created = ens[q].created
    BY <1>2 DEF RunMoves
  <2>3. r # p => ens'[r].created = ens[r].created
    BY <1>2 DEF RunMoves
  <2> QED
    BY <1>2, <2>1, <2>2, <2>3 DEF IInv, Apart
<1> QED
  BY <1>1, <1>2, <1>3, <1>4, <1>5, <1>6, <1>7 DEF IInv

LEMMA OthersKeep ==
    ASSUME IInv, Others
    PROVE  IInv' /\ ens' = ens /\ op' = op
<1>1. RecordsHold' /\ ServerMoves /\ ens' = ens /\ op' = op
  BY OthersKept DEF IInv
<1>2. ASSUME NEW o \in Owners PROVE OwnerHolds(o)'
  BY <1>1, OwnerStable DEF IInv
<1>3. ASSUME NEW p \in Apps PROVE AppHolds(p)'
  BY <1>1, AppStable DEF IInv
<1>4. Shaped' /\ Apart'
  BY <1>1 DEF IInv, Shaped, Apart
<1> QED
  BY <1>1, <1>2, <1>3, <1>4 DEF IInv

LEMMA StillKeeps ==
    ASSUME IInv, UNCHANGED vars
    PROVE  IInv'
<1>1. UNCHANGED <<space, coll, replica, clock, deletions, ens, op>>
  BY DEF vars, spaceVars, server
<1>2. RecordsHold' /\ ServerMoves
  BY <1>1, ServerIdle DEF IInv
<1>3. ASSUME NEW o \in Owners PROVE OwnerHolds(o)'
  BY <1>1, <1>2, OwnerStable DEF IInv
<1>4. ASSUME NEW p \in Apps PROVE AppHolds(p)'
  BY <1>1, <1>2, AppStable DEF IInv
<1>5. Shaped' /\ Apart'
  BY <1>1 DEF IInv, Shaped, Apart
<1> QED
  BY <1>2, <1>3, <1>4, <1>5 DEF IInv

LEMMA NextKeeps == IInv /\ [Next]_vars => IInv'
<1> SUFFICES ASSUME IInv, [Next]_vars PROVE IInv'
  OBVIOUS
<1>1. \/ Others \/ UNCHANGED vars
      \/ \E p \in Apps : AppStep(p) \/ Crash(p)
      \/ \E o \in Owners : OwnerStep(o) /\ UNCHANGED <<ens, others>>
  BY DEF Next, Quiet
<1> QED
  BY <1>1, OthersKeep, StillKeeps, AppKeeps, OwnerKeeps

(* The invariant the other theorems rest on holds throughout.              *)
THEOREM InvariantHolds == Spec => []IInv
  BY InitHolds, NextKeeps, PTL DEF Spec
-----------------------------------------------------------------------------
(* The theorems.                                                           *)

(* Only an owner's own step changes its call, and only an app's its run.   *)
LEMMA Whose ==
    ASSUME IInv, [Next]_vars
    PROVE  /\ \A o \in Owners : op'[o] # op[o] => OwnerStep(o)
           /\ \A p \in Apps : ens'[p] # ens[p] => AppStep(p) \/ Crash(p)
<1>1. CASE Others
  BY <1>1, OthersKeep
<1>2. CASE UNCHANGED vars
  BY <1>2 DEF vars, spaceVars
<1>3. ASSUME NEW p \in Apps, AppStep(p) \/ Crash(p)
      PROVE  op' = op /\ \A q \in Apps : ens'[q] # ens[q] => q = p
  BY <1>3, AppKeeps DEF AppKept, RunMoves
<1>4. ASSUME NEW o \in Owners, OwnerStep(o), UNCHANGED <<ens, others>>
      PROVE  ens' = ens /\ \A q \in Owners : op'[q] # op[q] => q = o
  BY <1>4, OwnerStepKept DEF IInv, OwnerKept, OpMoves
<1> QED
  BY <1>1, <1>2, <1>3, <1>4 DEF Next, Quiet

(* A configuration or a registration change that lands changes the members *)
(* it states and no other, whoever configures beside it.                   *)
THEOREM OthersUndisturbed == Spec => OnlyTheStated
<1> DEFINE Only == \A o \in Owners : op[o].at = "write" /\ op'[o] # op[o] =>
           /\ (op[o].req.kind = "configure" /\ Stands(space)) =>
                \A m \in {"name", "controller", "type"} :
                  op[o].req[m] = None => space'[m] = space[m]
           /\ Changes(op[o].req.kind) =>
                /\ ~Stands(replica) => ~Stands(replica')
                /\ op[o].req.kind # "capability" => replica'.capability = replica.capability
                /\ op[o].req.kind = "capability" => replica'.paused = replica.paused
<1>1. ASSUME IInv, [Next]_vars PROVE [Only]_spaceVars
  <2>1. ASSUME NEW o \in Owners, op'[o] # op[o] PROVE StatedOnly(o)
    BY <1>1, <2>1, Whose, OwnerStepKept DEF IInv, OwnerKept
  <2> QED
    BY <2>1 DEF StatedOnly
<1> QED
  BY <1>1, InvariantHolds, PTL DEF Spec, OnlyTheStated

(* What stands when a run of an app meets it is kept.                      *)
THEOREM StandingKept == Spec => NothingOverwritten
<1> DEFINE Kept == \A p \in Apps : ens'[p] # ens[p] =>
           /\ Stands(space) => space' = space
           /\ Stands(coll) =>
                /\ coll'.name = coll.name /\ coll'.by = coll.by /\ coll'.born = coll.born
                /\ coll.enc.by # None => coll'.enc = coll.enc
<1>1. ASSUME IInv, [Next]_vars PROVE [Kept]_vars
  <2>1. ASSUME NEW p \in Apps, ens'[p] # ens[p] PROVE KeepsWhatStands
    BY <1>1, <2>1, Whose, AppKeeps DEF AppKept
  <2> QED
    BY <2>1 DEF KeepsWhatStands
<1> QED
  BY <1>1, InvariantHolds, PTL DEF Spec, NothingOverwritten

(* A run that ends well leaves the Collection its app asked for, unless    *)
(* something was deleted under it, however many runs were torn before.     *)
THEOREM RunsEndWell == Spec => Provisioned
<1> DEFINE Well == \A p \in Apps :
         (ens[p].at # "done" /\ ens'[p].at = "done" /\ ens[p].since = deletions) =>
           /\ Stands(coll') /\ (p \notin SpaceEnsured => Stands(space'))
           /\ Mode[p] = "edv" => coll'.enc.by # None
           /\ p \in Public => policy' = "public"
<1>1. ASSUME IInv, [Next]_vars PROVE [Well]_vars
  <2>1. ASSUME NEW p \in Apps, ens[p].at # "done", ens'[p].at = "done"
        PROVE  EndsWell(p)
    BY <1>1, <2>1, Whose, AppKeeps DEF AppKept
  <2> QED
    BY <2>1 DEF EndsWell
<1> QED
  BY <1>1, InvariantHolds, PTL DEF Spec, Provisioned

(* One run at most is told that it created a Collection, and the           *)
(* Collection it created is attributed to its app for as long as it is.    *)
THEOREM CreatorKnown == Spec => []CreatorStands
<1>1. IInv => CreatorStands
  BY DEF IInv, AppHolds, Apart, CreatorStands
<1> QED
  BY <1>1, InvariantHolds, PTL
=============================================================================
