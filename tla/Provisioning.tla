---------------------------- MODULE Provisioning ----------------------------
(***************************************************************************)
(* Provisioning a Space and a Collection (src/sync/provisioning.ts): apps  *)
(* run ensureSpaceAndCollection over one Collection, beside the owners of  *)
(* the Space and beside each other.                                        *)
(*                                                                         *)
(* An app whose run failed runs it again, whatever the failed run left     *)
(* behind; it may also stop anywhere and start over.                       *)
(***************************************************************************)
EXTENDS Spaces

CONSTANTS Apps,
          Mode,          \* how an app wants the Collection: edv, plaintext, governed
          Public,        \* the apps that want it world-readable
          SpaceEnsured,  \* the apps that supply the Space's description
          Casts,         \* who may take part together
          MaxOthers      \* writes by others

VARIABLES ens, others

vars == <<spaceVars, ens, others>>

ASSUME AppsTyped ==
    /\ Public \subseteq Apps /\ SpaceEnsured \subseteq Apps /\ MaxOthers \in Nat
    /\ None \notin Apps \union {"client", "log"}
ASSUME ModesTyped == \A p \in Apps : Mode[p] \in {"edv", "plaintext", "governed"}

Rest == <<op, others>>

(* base: the Collection as last read; created: the one its create made;    *)
(* since: the deletions there had been when the run began.                 *)
Run(p) == [at |-> IF p \in SpaceEnsured THEN "read collection" ELSE "read space",
           base |-> NoColl, created |-> 0, tries |-> 0, since |-> deletions]

Now(p, run) == ens' = [ens EXCEPT ![p] = run]
To(p, at) == Now(p, [ens[p] EXCEPT !.at = at])

Settled(p) == ens[p].at \in {"out", "done", "refused"}
-----------------------------------------------------------------------------
(* The Space: ensureSpace, by readOrCreate.                                *)

ReadSpace(p) ==
    /\ ens[p].at \in {"read space", "reread space"}
    /\ Answered(CASE Stands(space) -> To(p, "read collection")
                  [] ~Stands(space) /\ ens[p].at = "read space" -> To(p, "create space")
                  [] OTHER -> To(p, "failed"),
                To(p, "failed"))
    /\ UNCHANGED <<server, Rest>>

(* Faulty variant: the create is an upsert.                                *)
Upsert(record) == TRUE

(* If-None-Match.                                                          *)
Guarded(record) == ~Stands(record)

(* Whatever becomes of the create, the Space is read again, unless the     *)
(* answer shows it.                                                        *)
CreateSpace(p) ==
    /\ ens[p].at = "create space"
    /\ UNCHANGED <<coll, policy, replica, deletions, Rest>>
    /\ \/ /\ Guarded(space)
          /\ clock' = clock + 1
          /\ space' = [rev |-> clock + 1, name |-> p, controller |-> p, type |-> None]
          /\ Answered(\E shown \in BOOLEAN : To(p, IF shown THEN "read collection" ELSE "reread space"),
                      To(p, "reread space"))
       \/ /\ UNCHANGED <<space, clock>>
          /\ To(p, "reread space")
          /\ (~Guarded(space) /\ Sound) \/ Faulty
-----------------------------------------------------------------------------
(* The Collection.                                                         *)

(* Faulty variant: the grant is left to the run that creates.              *)
GrantsOnCreate(p, created) ==
    IF p \in Public /\ created > 0 THEN "set policy" ELSE "done"

(* The grant: a Collection just created has no policy to read.             *)
Grants(p, created) ==
    CASE p \in Public /\ created > 0 -> "set policy"
      [] p \in Public /\ created = 0 -> "read policy"
      [] OTHER -> "done"

(* Faulty variant: every app refuses a Collection that is declared.        *)
RefusesDeclared(p, read, created) ==
    CASE read.enc.by = "client" /\ created = 0 -> "refused"
      [] Mode[p] = "edv" /\ created = 0 /\ read.enc.by = None -> "declare"
      [] OTHER -> Grants(p, created)

(* What is left to do once the Collection is read or created.              *)
Onward(p, read, created) ==
    CASE Mode[p] = "governed" /\ read.enc.by = "client" -> "refused"
      [] Mode[p] = "edv" /\ created = 0 /\ read.enc.by = None -> "declare"
      [] OTHER -> Grants(p, created)

Proceed(p, read, created) ==
    Now(p, [ens[p] EXCEPT !.at = Onward(p, read, created), !.base = read, !.created = created])

(* A failed create is read again, and what stands then is adopted.         *)
ReadCollection(p) ==
    /\ ens[p].at \in {"read collection", "reread collection"}
    /\ Answered(CASE Stands(coll) -> Proceed(p, coll, 0)
                  [] ~Stands(coll) /\ ens[p].at = "read collection" -> To(p, "create collection")
                  [] OTHER -> To(p, "failed"),
                To(p, "failed"))
    /\ UNCHANGED <<server, Rest>>

CreateIfAbsent(p) ==
    /\ ens[p].at = "create collection"
    /\ UNCHANGED <<space, policy, replica, deletions, Rest>>
    /\ \/ /\ Stands(space) /\ Guarded(coll)
          /\ clock' = clock + 1
          /\ coll' = [rev |-> clock + 1, born |-> IF Stands(coll) THEN coll.born ELSE clock + 1,
                      name |-> p, by |-> p,
                      enc |-> [by |-> IF Mode[p] = "edv" THEN "client" ELSE None, epochs |-> {}]]
          /\ Answered(Proceed(p, coll', coll'.born), To(p, "reread collection"))
       \/ /\ UNCHANGED <<coll, clock>>
          /\ To(p, "reread collection")
          /\ (~(Stands(space) /\ Guarded(coll)) /\ Sound) \/ Faulty

(* The late declaration, compare-and-swapped against the first read.       *)
Declare(p) ==
    /\ ens[p].at = "declare"
    /\ UNCHANGED <<space, policy, replica, deletions, Rest>>
    /\ \/ /\ coll.rev = ens[p].base.rev
          /\ clock' = clock + 1
          /\ coll' = [ens[p].base EXCEPT !.rev = clock + 1, !.enc.by = "client", !.enc.epochs = {}]
          /\ Answered(To(p, Grants(p, 0)), To(p, "failed"))
       \/ /\ coll.rev # ens[p].base.rev
          /\ UNCHANGED <<coll, clock>>
          /\ IF ens[p].tries + 1 >= Attempts THEN To(p, "failed")
             ELSE Now(p, [ens[p] EXCEPT !.at = "read declaration", !.tries = @ + 1])
          /\ Sound
       \/ UNCHANGED <<coll, clock>> /\ To(p, "failed") /\ Faulty

(* Faulty variant: the retried declaration does not look at what it reads. *)
Undeclared(read) == TRUE

(* A declaration that landed meanwhile, the log's too, is adopted.         *)
Undescribed(read) == read.enc.by = None

ReadDeclaration(p) ==
    /\ ens[p].at = "read declaration"
    /\ Answered(CASE ~Stands(coll) -> To(p, "failed")
                  [] Stands(coll) /\ Undescribed(coll) ->
                       Now(p, [ens[p] EXCEPT !.at = "declare", !.base = coll])
                  [] OTHER -> To(p, Grants(p, 0)),
                To(p, "failed"))
    /\ UNCHANGED <<server, Rest>>

ReadPolicy(p) ==
    /\ ens[p].at = "read policy"
    /\ Answered(To(p, IF policy = "public" THEN "done" ELSE "set policy"), To(p, "failed"))
    /\ UNCHANGED <<server, Rest>>

SetPublic(p) ==
    /\ ens[p].at = "set policy"
    /\ UNCHANGED <<space, coll, replica, clock, deletions, Rest>>
    /\ IF Stands(coll)
       THEN policy' = "public" /\ Answered(To(p, "done"), To(p, "failed"))
       ELSE UNCHANGED <<policy, faults>> /\ To(p, "failed")

(* The app runs it again, or stops halfway.                                *)
Rerun(p) ==
    /\ ens[p].at = "failed"
    /\ Now(p, Run(p))
    /\ UNCHANGED <<server, faults, Rest>>

Crash(p) ==
    /\ ~Settled(p) /\ ens[p].at # "failed" /\ Faulty
    /\ To(p, "failed")
    /\ UNCHANGED <<server, Rest>>

AppStep(p) ==
    \/ ReadSpace(p) \/ CreateSpace(p) \/ ReadCollection(p) \/ CreateIfAbsent(p)
    \/ Declare(p) \/ ReadDeclaration(p) \/ ReadPolicy(p) \/ SetPublic(p) \/ Rerun(p)
-----------------------------------------------------------------------------
(* Others (external): a rename, the first key epoch, the history log of a  *)
(* governed Collection, a policy, and a deletion.                          *)
Others ==
    /\ others < MaxOthers /\ others' = others + 1 /\ Stands(coll)
    /\ UNCHANGED <<space, replica, faults, op, ens>>
    /\ \/ /\ clock' = clock + 1 /\ UNCHANGED <<policy, deletions>>
          /\ \/ coll' = [coll EXCEPT !.rev = clock + 1, !.name = "renamed"]
             \/ /\ coll.enc.by = "client"
                /\ coll' = [coll EXCEPT !.rev = clock + 1, !.enc.epochs = {"first"}]
             \/ /\ coll.enc.by = None
                /\ \E p \in Apps : Mode[p] = "governed" /\ ens[p].at = "done"
                /\ coll' = [coll EXCEPT !.rev = clock + 1, !.enc = [by |-> "log", epochs |-> {"first"}]]
       \/ \E p \in {"team", "none"} : policy' = p /\ UNCHANGED <<coll, clock, deletions>>
       \/ coll' = NoColl /\ policy' = "none" /\ deletions' = deletions + 1 /\ UNCHANGED clock

Init ==
    \E cast \in Casts :
      /\ SpaceInit(cast) /\ others = 0
      /\ ens = [p \in Apps |-> IF p \in cast THEN Run(p) ELSE [Run(p) EXCEPT !.at = "out"]]

Quiet ==
    /\ \A p \in Apps : Settled(p)
    /\ \A o \in Owners : op[o].at \notin {"idle", "read", "write"}
    /\ UNCHANGED vars

Next ==
    \/ Quiet \/ Others
    \/ \E p \in Apps : AppStep(p) \/ Crash(p)
    \/ \E o \in Owners : OwnerStep(o) /\ UNCHANGED <<ens, others>>

(* An app goes on until its run has ended well.                            *)
Fairness == \A p \in Apps : WF_vars(AppStep(p))

Spec == Init /\ [][Next]_vars /\ Fairness
-----------------------------------------------------------------------------
(* Properties.                                                             *)

(* A run that ends well leaves a Collection as its app asked for,          *)
(* declared encrypted and granted to the world, however many runs were     *)
(* torn before it and whoever created and declared the rest.               *)
Provisioned ==
    [][\A p \in Apps :
         (ens[p].at # "done" /\ ens'[p].at = "done" /\ ens[p].since = deletions) =>
           /\ Stands(coll') /\ (p \notin SpaceEnsured => Stands(space'))
           /\ Mode[p] = "edv" => coll'.enc.by # None
           /\ p \in Public => policy' = "public"]_vars

(* What stands when a run meets it is kept: a Space's name and controller, *)
(* a Collection's name and attribution, a declaration and its key epochs.  *)
NothingOverwritten ==
    [][\A p \in Apps :
         ens'[p] # ens[p] =>
           /\ Stands(space) => space' = space
           /\ Stands(coll) =>
                /\ coll'.name = coll.name /\ coll'.by = coll.by /\ coll'.born = coll.born
                /\ coll.enc.by # None => coll'.enc = coll.enc]_vars

(* One run at most is told that it created a Collection, and that          *)
(* Collection is attributed to its app.                                    *)
CreatorStands ==
    \A p \in Apps :
      ens[p].created > 0 =>
        /\ coll.born = ens[p].created => coll.by = p
        /\ \A q \in Apps \ {p} : ens[q].created # ens[p].created

(* An app that goes on running it is provisioned in the end, unless its    *)
(* governed Collection is one a client declared.                           *)
Heals ==
    \A p \in Apps :
      <>(ens[p].at \in {"done", "out"} \/ (Mode[p] = "governed" /\ ens[p].at = "refused"))

(* A run leaves a policy that is set as it stands.                         *)
PolicyKept ==
    [][\A p \in Apps : ens'[p] # ens[p] /\ policy # "none" => policy' = policy]_vars
=============================================================================
