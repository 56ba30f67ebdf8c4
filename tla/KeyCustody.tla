----------------------------- MODULE KeyCustody -----------------------------
(***************************************************************************)
(* What the recipient operations of a Collection promise about its keys,   *)
(* whoever else edits the descriptor: keys are found once, granted by a    *)
(* holder and to the whole history, and taken away by a new key that some  *)
(* present holder does not get.  KeyEpochs implements it with conditional  *)
(* requests and retries.                                                   *)
(*                                                                         *)
(* held[i] is who can unwrap epoch i; index holds the roster of the        *)
(* blinded-index key, and is empty while there is none.                    *)
(***************************************************************************)
EXTENDS Naturals, Sequences

CONSTANT Kids

VARIABLES held, index

Rosters == (SUBSET Kids) \ {{}}

Newest == held[Len(held)]

(* The first epoch, with the index key or without, is found once.          *)
Found ==
    /\ held = <<>>
    /\ \E kids \in Rosters : held' = <<kids>> /\ index' \in {{}, {kids}}

(* owner can wrap every key that some of kids lack.                        *)
CanGrant(owner, kids) ==
    /\ \A i \in DOMAIN held : kids \subseteq held[i] \/ owner \in held[i]
    /\ \A roster \in index : kids \subseteq roster \/ owner \in roster

(* One holder's grant of everything to kids, and the departure of gone,    *)
(* in one step; either may be empty.                                       *)
Change(owner, kids, gone) ==
    LET granted == [i \in DOMAIN held |-> held[i] \union kids]
        newest == granted[Len(held)]
    IN /\ held # <<>>
       /\ CanGrant(owner, kids) /\ kids \intersect gone = {}
       /\ index' = {(roster \union kids) \ gone : roster \in index}
       /\ \/ /\ newest \intersect gone = {}
             /\ held' = granted
          \/ /\ newest \intersect gone # {}
             /\ \E kept \in Rosters :
                  kept \subseteq newest \ gone /\ held' = Append(granted, kept)

(* A holder of the newest key holds every older one, and the index key.    *)
Nested ==
    /\ held \in Seq(Rosters)
    /\ \A i, j \in DOMAIN held : i <= j => held[j] \subseteq held[i]
    /\ held # <<>> => \A roster \in index : Newest \subseteq roster

Init == Nested

Next == \/ Found
        \/ \E owner \in Kids, kids, gone \in SUBSET Kids : Change(owner, kids, gone)

Spec == Init /\ [][Next]_<<held, index>>
=============================================================================
