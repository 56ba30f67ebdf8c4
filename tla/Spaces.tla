------------------------------- MODULE Spaces -------------------------------
(***************************************************************************)
(* A Space, one Collection in it and one replica registration, and the     *)
(* operations of a Space handle on them (src/Space.ts).                    *)
(*                                                                         *)
(* Each owner makes one call.  A request is answered and its answer        *)
(* settled in one step, since nothing else sees what the caller holds      *)
(* between the two; its next request is another step.  The answer may be   *)
(* lost, after the server took the request or before.  The server          *)
(* (external) gives every record it writes the next revision, its ETag.    *)
(***************************************************************************)
EXTENDS Naturals, FiniteSets

CONSTANTS Owners,     \* callers of a Space handle, each the controller of its own client
          Blind,      \* those whose reads are masked as absences
          Requests,   \* what an owner may ask for
          Starts,     \* the states the Space may be in at first
          Attempts,   \* of a compare-and-swap
          MaxFaults,  \* lost requests and answers
          None

VARIABLES space, coll, policy, replica, clock, deletions, faults, op

server == <<space, coll, policy, replica, clock, deletions>>
spaceVars == <<server, faults, op>>

ASSUME BoundsTyped ==
    /\ Attempts \in Nat \ {0} /\ MaxFaults \in Nat
    /\ Blind \subseteq Owners /\ None \notin Owners

NoSpace == [rev |-> 0, name |-> None, controller |-> None, type |-> None]

NoColl == [rev |-> 0, born |-> 0, name |-> None, by |-> None,
           enc |-> [by |-> None, epochs |-> {}]]

NoReplica == [rev |-> 0, paused |-> FALSE, capability |-> None]

Stands(record) == record.rev > 0

(* The Space may start as any owner left it: each record with its fields   *)
(* and a revision given out before, and the Space with a controller.       *)
ASSUME StartsTyped ==
    \A start \in Starts :
      /\ start.clock \in Nat
      /\ DOMAIN start.space = DOMAIN NoSpace /\ DOMAIN start.replica = DOMAIN NoReplica
      /\ DOMAIN start.coll = DOMAIN NoColl /\ DOMAIN start.coll.enc = DOMAIN NoColl.enc
      /\ {start.space.rev, start.coll.rev, start.coll.born, start.replica.rev} \subseteq 0 .. start.clock
      /\ Stands(start.space) => start.space.controller # None

(* A fault is spent, or there is none.                                     *)
Faulty == faults < MaxFaults /\ faults' = faults + 1
Sound == UNCHANGED faults

(* The answer arrives, or is lost.                                         *)
Answered(arrives, fails) == (arrives /\ Sound) \/ (fails /\ Faulty)

Idle == [at |-> "idle", req |-> [kind |-> None], base |-> NoSpace, tries |-> 0]

Out == [Idle EXCEPT !.at = "out"]

Become(o, now) == op' = [op EXCEPT ![o] = now]
Ends(o, how) == Become(o, [op[o] EXCEPT !.at = how])

(* What an owner sees of a record.                                         *)
Seen(o, record, absent) == IF o \in Blind THEN absent ELSE record

Stated(value, otherwise) == IF value # None THEN value ELSE otherwise
-----------------------------------------------------------------------------
Changes(kind) == kind \in {"pause", "resume", "capability"}

(* A call begins.  A configure given the caller's own reading, here that   *)
(* there is none, starts from it.                                          *)
Call(o) ==
    /\ op[o].at = "idle"
    /\ \E req \in Requests :
         Become(o, [Idle EXCEPT !.req = req,
                      !.at = IF (req.kind = "configure" /\ ~req.seeded) \/ Changes(req.kind)
                             THEN "read" ELSE "write"])
    /\ UNCHANGED <<server, faults>>

(* configure refuses to merge over what it could not read.                 *)
Composable(req, base) ==
    Stands(base) \/ req.force \/ (req.name # None /\ req.controller # None)

(* The merge of a configure; None is a member left out.                    *)
Configured(o, base) ==
    LET req == op[o].req
    IN [rev |-> clock + 1, name |-> Stated(req.name, base.name),
        controller |-> Stated(Stated(req.controller, base.controller), o),
        type |-> Stated(req.type, base.type)]

(* The registration a change writes.                                       *)
Changed(o, stored) ==
    CASE op[o].req.kind = "pause" -> [stored EXCEPT !.rev = clock + 1, !.paused = TRUE]
      [] op[o].req.kind = "resume" -> [stored EXCEPT !.rev = clock + 1, !.paused = FALSE]
      [] OTHER -> [stored EXCEPT !.rev = clock + 1, !.capability = o]

Target(o) == IF op[o].req.kind = "configure" THEN space ELSE replica

(* The read a compare-and-swap composes over.  The masked 404 of a         *)
(* registration fails the change: a PUT there would register a replica.    *)
ReadTarget(o) ==
    LET seen == Seen(o, Target(o), IF op[o].req.kind = "configure" THEN NoSpace ELSE NoReplica)
        readable == IF op[o].req.kind = "configure" THEN Composable(op[o].req, seen) ELSE Stands(seen)
    IN /\ op[o].at = "read"
       /\ Answered(IF readable THEN Become(o, [op[o] EXCEPT !.at = "write", !.base = seen])
                               ELSE Ends(o, "refused"),
                   Ends(o, "failed"))
       /\ UNCHANGED server

(* Faulty variant: the write is not conditional on what was read.          *)
Anyway(o) == TRUE

(* If-Match on the revision read, If-None-Match when none was.             *)
Unchanged(o) == Target(o).rev = op[o].base.rev

LostRace(o) ==
    IF op[o].tries + 1 >= Attempts THEN Ends(o, "failed")
    ELSE Become(o, [op[o] EXCEPT !.at = "read", !.tries = @ + 1])

(* The conditional PUT of configure and of a registration change.          *)
PutTarget(o) ==
    LET configures == op[o].req.kind = "configure"
    IN /\ op[o].at = "write" /\ (configures \/ Changes(op[o].req.kind))
       /\ UNCHANGED <<coll, policy, deletions>>
       /\ \/ /\ configures /\ ~Composable(op[o].req, op[o].base)
             /\ Ends(o, "refused") /\ UNCHANGED <<space, replica, clock, faults>>
          \/ /\ configures => Composable(op[o].req, op[o].base)
             /\ Unchanged(o)
             /\ clock' = clock + 1
             /\ IF configures
                THEN space' = Configured(o, op[o].base) /\ UNCHANGED replica
                ELSE replica' = Changed(o, op[o].base) /\ UNCHANGED space
             /\ Answered(Ends(o, "done"), Ends(o, "failed"))
          \/ /\ configures => Composable(op[o].req, op[o].base)
             /\ UNCHANGED <<space, replica, clock>>
             /\ \/ ~Unchanged(o) /\ LostRace(o) /\ Sound
                \/ Ends(o, "failed") /\ Faulty

(* Space.delete and deleteWithOutcome: with the Space goes all it holds.   *)
DeleteSpace(o) ==
    /\ op[o].at = "write" /\ op[o].req.kind \in {"delete", "outcome"}
    /\ \/ /\ Stands(space)
          /\ space' = NoSpace /\ coll' = NoColl /\ policy' = "none" /\ replica' = NoReplica
          /\ deletions' = deletions + 1 /\ UNCHANGED clock
          /\ Answered(Ends(o, IF op[o].req.kind = "outcome" THEN "deleted" ELSE "done"),
                      Ends(o, "failed"))
       \/ /\ ~Stands(space)
          /\ Answered(Ends(o, IF op[o].req.kind = "outcome" THEN "not-found" ELSE "done"),
                      Ends(o, "failed"))
          /\ UNCHANGED server

(* createCollection: the server refuses an id that is taken.               *)
CreateCollection(o) ==
    /\ op[o].at = "write" /\ op[o].req.kind = "post"
    /\ UNCHANGED <<space, policy, replica, deletions>>
    /\ \/ /\ Stands(space) /\ ~Stands(coll)
          /\ clock' = clock + 1
          /\ coll' = [rev |-> clock + 1, born |-> clock + 1, name |-> o, by |-> None,
                      enc |-> [by |-> op[o].req.enc, epochs |-> {}]]
          /\ Answered(Ends(o, "done"), Ends(o, "failed"))
       \/ /\ ~Stands(space) \/ Stands(coll)
          /\ Ends(o, "failed") /\ UNCHANGED <<coll, clock, faults>>

(* registerReplica and deregisterReplica.                                  *)
RegisterReplica(o) ==
    /\ op[o].at = "write" /\ op[o].req.kind = "register"
    /\ UNCHANGED <<space, coll, policy, deletions>>
    /\ IF Stands(space) /\ ~Stands(replica)
       THEN /\ clock' = clock + 1
            /\ replica' = [rev |-> clock + 1, paused |-> FALSE, capability |-> o]
            /\ Answered(Ends(o, "done"), Ends(o, "failed"))
       ELSE Ends(o, "failed") /\ UNCHANGED <<replica, clock, faults>>

DeregisterReplica(o) ==
    /\ op[o].at = "write" /\ op[o].req.kind = "deregister"
    /\ replica' = NoReplica
    /\ Answered(Ends(o, IF Stands(replica) THEN "deleted" ELSE "not-found"), Ends(o, "failed"))
    /\ UNCHANGED <<space, coll, policy, clock, deletions>>

OwnerStep(o) ==
    \/ Call(o) \/ ReadTarget(o) \/ PutTarget(o) \/ DeleteSpace(o)
    \/ CreateCollection(o) \/ RegisterReplica(o) \/ DeregisterReplica(o)

SpaceInit(cast) ==
    /\ \E start \in Starts :
         /\ space = start.space /\ coll = start.coll /\ policy = start.policy
         /\ replica = start.replica /\ clock = start.clock
    /\ deletions = 0 /\ faults = 0
    /\ op = [o \in Owners |-> IF o \in cast THEN Idle ELSE Out]
-----------------------------------------------------------------------------
(* A configure, a pause, a resume or a new capability that lands changes   *)
(* the members it states and no other, of a record that is what its caller *)
(* read: no configuration undoes another, no configure without a controller *)
(* takes a Space over, and no change brings a deregistered replica back.   *)
OnlyTheStated ==
    [][\A o \in Owners :
         op[o].at = "write" /\ op'[o] # op[o] =>
           /\ (op[o].req.kind = "configure" /\ Stands(space)) =>
                \A m \in {"name", "controller", "type"} :
                  op[o].req[m] = None => space'[m] = space[m]
           /\ Changes(op[o].req.kind) =>
                /\ ~Stands(replica) => ~Stands(replica')
                /\ op[o].req.kind # "capability" => replica'.capability = replica.capability
                /\ op[o].req.kind = "capability" => replica'.paused = replica.paused]_spaceVars
=============================================================================
