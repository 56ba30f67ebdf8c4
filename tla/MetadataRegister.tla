-------------------------- MODULE MetadataRegister --------------------------
(***************************************************************************)
(* What the metadata operations of a Collection promise: one object that   *)
(* every write reads, modifies and replaces in a single step, whoever      *)
(* else is writing.  CollectionMetadata implements it with conditional     *)
(* requests, cached reads and retries.                                     *)
(*                                                                         *)
(* cell is the set holding the stored object: empty while there is none.   *)
(***************************************************************************)
EXTENDS MetadataBodies

VARIABLE cell

Write(old, new) == cell = {old} /\ cell' = {new}

Create == /\ cell = {}
          /\ \E new \in Objects : cell' = {new}

(* Only the configuration changes; custom follows a change of scheme or,   *)
(* by a client with no key for it, is dropped.                             *)
Configure ==
    \E old \in cell, fields \in Fields, keyed \in BOOLEAN :
        \/ Write(old, Configured(old, fields, keyed))
        \/ Write(old, Replaced(old, fields, keyed))

(* name and tags are replaced; configuration and schema stay.              *)
Annotate ==
    \E old \in cell, name, tags \in Texts \union {None} :
        Write(old, [old EXCEPT !.custom =
            [seal |-> old.enc, name |-> name, tags |-> tags,
             schema |-> old.custom.schema]])

(* setName and setTags: the other member stays too.                        *)
Patch ==
    \E old \in cell, name, tags \in Texts \union {None} :
        Write(old, [old EXCEPT !.custom =
            [seal |-> old.enc, name |-> Stated(name, old.custom.name),
             tags |-> Stated(tags, old.custom.tags),
             schema |-> old.custom.schema]])

Declare ==
    \E old \in cell, requested \in SUBSET Declarations :
        /\ ~Conflicting(old.custom.schema, requested)
        /\ Write(old, [old EXCEPT !.custom =
              [old.custom EXCEPT !.seal = old.enc,
                                 !.schema = @ \union requested]])

Delete == cell # {} /\ cell' = {}

Init == cell = {} \/ \E initial \in Objects : cell = {initial}

Next == Create \/ Configure \/ Annotate \/ Patch \/ Declare \/ Delete

Spec == Init /\ [][Next]_cell
=============================================================================
