------------------------------ MODULE KeyRoster ------------------------------
(***************************************************************************)
(* The encryption descriptor of a Collection as src/edv/recipients.ts      *)
(* edits it: the key epochs, oldest first, each with the recipients its    *)
(* secret is wrapped to, the epoch to seal under, and the blinded-index    *)
(* key with its recipients.                                                *)
(*                                                                         *)
(* A recipient is its kid.  A secret wrapped to a recipient stands for the *)
(* recipient's membership in a roster: whoever is in it can unwrap the     *)
(* secret and wrap it to others, nobody else can.  A call mints at most    *)
(* one epoch and one blinded-index key, so the call names both.            *)
(***************************************************************************)
EXTENDS Naturals, Sequences

CONSTANTS Kids,  \* recipients
          Mints, \* the calls, past ones included, that mint keys
          None   \* no key

ASSUME NoneMintsNothing == None \notin Mints

Epochs == [id : Mints, to : SUBSET Kids]
Hmacs == [id : Mints \union {None}, to : SUBSET Kids]

Descriptors == [epochs : Seq(Epochs), current : Mints \union {None}, hmac : Hmacs]

NoHmac == [id |-> None, to |-> {}]

(* A descriptor that declares the scheme and no epoch yet.                 *)
Seed == [epochs |-> <<>>, current |-> None, hmac |-> NoHmac]

Newest(d) == d.epochs[Len(d.epochs)]

Listed(d) == \E i \in DOMAIN d.epochs : d.epochs[i].id = d.current

CurrentEpochOf(d) ==
    d.epochs[CHOOSE i \in DOMAIN d.epochs : d.epochs[i].id = d.current]

-----------------------------------------------------------------------------
(* Escrow: whoever holds a secret wraps it to readers that do not.         *)

EscrowInto(roster, incoming) == roster \union incoming

(* Refused when someone is missing and the caller cannot unwrap.           *)
CannotEscrow(roster, incoming, owner) ==
    ~(incoming \subseteq roster) /\ owner \notin roster

(* Faulty variant: only the newest epoch is escrowed.                      *)
EscrowIntoNewest(epochs, incoming) ==
    [i \in DOMAIN epochs |->
        IF i = Len(epochs) THEN [epochs[i] EXCEPT !.to = EscrowInto(@, incoming)]
                           ELSE epochs[i]]

EscrowIntoEpochs(epochs, incoming) ==
    [i \in DOMAIN epochs |-> [epochs[i] EXCEPT !.to = EscrowInto(@, incoming)]]

EscrowIntoHmac(hmac, incoming) ==
    IF hmac.id = None THEN hmac
    ELSE [hmac EXCEPT !.to = EscrowInto(@, incoming)]

EscrowRefused(d, incoming, owner) ==
    \/ \E i \in DOMAIN d.epochs : CannotEscrow(d.epochs[i].to, incoming, owner)
    \/ d.hmac.id # None /\ CannotEscrow(d.hmac.to, incoming, owner)

(* addRecipient.                                                           *)
Escrowed(d, incoming) ==
    [d EXCEPT !.epochs = EscrowIntoEpochs(@, incoming),
              !.hmac = EscrowIntoHmac(@, incoming)]

-----------------------------------------------------------------------------
(* Epochs are minted for a roster and never re-keyed.                      *)

WithFirstEpoch(d, id, recipients, hmac) ==
    [epochs |-> <<[id |-> id, to |-> recipients]>>, current |-> id,
     hmac |-> IF d.hmac.id # None THEN d.hmac ELSE hmac]

(* Recipients the resolver does not vouch for are dropped.                 *)
RotateEpoch(id, remaining, vouched) == [id |-> id, to |-> remaining \intersect vouched]

(* Faulty variant: a retired reader keeps its entry for the index key.     *)
KeptInHmac(hmac, retiring) == hmac

WithoutHmacRecipients(hmac, retiring) == [hmac EXCEPT !.to = @ \ retiring]

(* Someone retiring is still current.                                      *)
Rotating(d, retiring) == CurrentEpochOf(d).to \intersect retiring # {}

(* Faulty variant: the survivors of every epoch, not of the current one.   *)
SurvivorsOfAll(d, retiring) ==
    (UNION {d.epochs[i].to : i \in DOMAIN d.epochs}) \ retiring

Survivors(d, retiring) == CurrentEpochOf(d).to \ retiring

(* The fresh epoch: incoming readers' keys are in hand, other survivors go *)
(* through the resolver.                                                   *)
FreshEpoch(d, id, retiring, incoming, vouched) ==
    RotateEpoch(id, Survivors(d, retiring), incoming \union vouched)

(* rotateOffRecipients, incoming empty for a removal.                      *)
RotatedOff(d, id, retiring, incoming, vouched) ==
    LET escrowed == Escrowed(d, incoming)
        trimmed == [escrowed EXCEPT !.hmac = WithoutHmacRecipients(@, retiring)]
    IN IF Rotating(escrowed, retiring)
       THEN [trimmed EXCEPT
               !.epochs = Append(@, FreshEpoch(escrowed, id, retiring, incoming, vouched)),
               !.current = id]
       ELSE trimmed

(* No trustworthy current roster, or nobody would remain.                  *)
RotationRefused(d, id, retiring, incoming, vouched) ==
    LET escrowed == Escrowed(d, incoming)
    IN ~(/\ Listed(escrowed)
         /\ Rotating(escrowed, retiring) =>
              FreshEpoch(escrowed, id, retiring, incoming, vouched).to # {})
=============================================================================
