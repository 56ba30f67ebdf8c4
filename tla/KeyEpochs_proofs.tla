-------------------------- MODULE KeyEpochs_proofs --------------------------
(***************************************************************************)
(* Proofs about KeyEpochs, for every set of readers, clients and calls,    *)
(* every request they may carry and every number of attempts.              *)
(***************************************************************************)
EXTENDS KeyEpochs, SequenceTheorems, TLAPS

(* A stored descriptor: coherent, and without keys only as the seed.       *)
Sound(d) == Coherent(d) /\ (d.epochs = <<>> => d = Seed)

(* No epoch of a descriptor was minted by call id.                         *)
Free(d, id) == \A i \in DOMAIN d.epochs : d.epochs[i].id # id

(* A call that has not written yet minted no stored epoch.                 *)
Unwritten == {"idle", "read", "got", "write"}

Unminted(c) == \A v \in DOMAIN hist : Free(hist[v].desc, c)

(* What GotRead found out about the write that a call has composed.        *)
Composable(c, d) ==
    LET r == call[c].req
    IN /\ r.kind \notin Installs => d.epochs # <<>>
       /\ r.kind \in {"add", "replace"} => ~EscrowRefused(d, r.kids, r.owner)
       /\ r.kind \in Removals => ~RotationRefused(d, c, r.retiring, r.kids, r.vouched)

Prepared(c) ==
    /\ pc[c] # "idle" => Admissible(call[c].req)
    /\ pc[c] \in Unwritten => Unminted(c)
    /\ pc[c] = "write" => Composable(c, Current(call[c].seen))

IInv ==
    /\ TypeOK
    /\ \A v \in DOMAIN hist : Sound(hist[v].desc)
    /\ \A c \in Calls : Prepared(c)

(* The steps of a call leave the other calls alone, and the server only    *)
(* ever adds objects, with no new epoch but this call's.                   *)
Others(c) == \A d \in Calls \ {c} : pc'[d] = pc[d] /\ call'[d] = call[d]

ServerKept(c) ==
    /\ host' = host
    /\ hist' \in Seq(Entries') /\ stored' \in Versions'
    /\ Len(hist) <= Len(hist')
    /\ \A v \in DOMAIN hist : hist'[v] = hist[v]
    /\ \A v \in DOMAIN hist' : Sound(hist'[v].desc)
    /\ \A d \in Calls \ {c} : Unminted(d) => Unminted(d)'
    /\ described' \in [Stores -> Confs \union {None}] /\ revoked' \subseteq Zcaps

CallKept(c) ==
    /\ pc' \in [Calls -> Labels] /\ call' \in [Calls -> CallType']
    /\ Others(c) /\ Prepared(c)'
-----------------------------------------------------------------------------
(* The edits of a descriptor.                                              *)

LEMMA EpochsLen ==
    ASSUME NEW d \in Descriptors
    PROVE  /\ Len(d.epochs) \in Nat /\ DOMAIN d.epochs = 1 .. Len(d.epochs)
           /\ \A i \in DOMAIN d.epochs : d.epochs[i] \in Epochs
           /\ d.epochs # <<>> => Len(d.epochs) \in DOMAIN d.epochs
<1>1. d.epochs \in Seq(Epochs)
  BY DEF Descriptors
<1> QED
  BY <1>1, LenProperties, ElementOfSeq, EmptySeq

(* The epoch a coherent descriptor calls current is its newest.            *)
LEMMA CurrentIsNewest ==
    ASSUME NEW d \in Descriptors, Coherent(d), d.epochs # <<>>
    PROVE  CurrentEpochOf(d) = Newest(d) /\ Newest(d) \in Epochs
<1>1. Len(d.epochs) \in DOMAIN d.epochs
  BY EpochsLen
<1>2. d.epochs[Len(d.epochs)].id = d.current
  BY DEF Coherent, Named, Newest
<1>3. \A i \in DOMAIN d.epochs : d.epochs[i].id = d.current => i = Len(d.epochs)
  BY <1>1, <1>2 DEF Coherent, Named
<1>4. (CHOOSE i \in DOMAIN d.epochs : d.epochs[i].id = d.current) = Len(d.epochs)
  BY <1>1, <1>2, <1>3
<1> QED
  BY <1>1, <1>4, EpochsLen DEF CurrentEpochOf, Newest

LEMMA SeedSound == Seed \in Descriptors /\ Sound(Seed)
<1>1. <<>> \in Seq(Epochs) /\ DOMAIN Seed.epochs = {}
  BY EmptySeq DEF Seed
<1>2. NoHmac \in Hmacs
  BY DEF NoHmac, Hmacs
<1> QED
  BY <1>1, <1>2 DEF Seed, Descriptors, Sound, Coherent, Nested, Named

(* A first epoch for a roster, and the blinded-index key for the same one. *)
LEMMA FirstSound ==
    ASSUME NEW id \in Mints, NEW kids \in SUBSET Kids, kids # {},
           NEW hmac \in {NoHmac, [id |-> id, to |-> kids]}
    PROVE  LET n == WithFirstEpoch(Seed, id, kids, hmac)
           IN /\ n \in Descriptors /\ Sound(n)
              /\ n.epochs = <<[id |-> id, to |-> kids]>> /\ n.hmac = hmac
<1> DEFINE e == [id |-> id, to |-> kids]
           n == WithFirstEpoch(Seed, id, kids, hmac)
<1>1. n.epochs = <<e>> /\ n.current = id /\ n.hmac = hmac
  BY DEF WithFirstEpoch, Seed, NoHmac
<1>2. e \in Epochs /\ e.to = kids /\ e.id = id
  BY DEF Epochs
<1>3. hmac \in Hmacs /\ (hmac.id # None => hmac.to = kids)
  BY DEF Hmacs, NoHmac
<1>4. n \in Descriptors
  BY <1>1, <1>2, <1>3 DEF WithFirstEpoch, Descriptors, Seed, NoHmac
<1>5. DOMAIN n.epochs = {1} /\ n.epochs[1] = e /\ Len(n.epochs) = 1 /\ n.epochs # <<>>
  BY <1>1
<1>6. Sound(n)
  BY <1>1, <1>2, <1>3, <1>5 DEF Sound, Coherent, Nested, Named, Newest
<1> QED
  BY <1>1, <1>4, <1>6

(* An escrow reaches every epoch, and the index key.                       *)
LEMMA EscrowSound ==
    ASSUME NEW d \in Descriptors, Coherent(d), d.epochs # <<>>, NEW kids \in SUBSET Kids
    PROVE  LET n == Escrowed(d, kids)
           IN /\ n \in Descriptors /\ Coherent(n) /\ n.epochs # <<>>
              /\ n.current = d.current /\ Len(n.epochs) = Len(d.epochs)
              /\ \A i \in DOMAIN d.epochs :
                    /\ n.epochs[i].id = d.epochs[i].id
                    /\ n.epochs[i].to = d.epochs[i].to \union kids
              /\ n.hmac.id = d.hmac.id
              /\ d.hmac.id # None => n.hmac.to = d.hmac.to \union kids
<1> DEFINE n == Escrowed(d, kids)
           es == EscrowIntoEpochs(d.epochs, kids)
           hm == EscrowIntoHmac(d.hmac, kids)
<1>1. /\ Len(d.epochs) \in Nat /\ DOMAIN d.epochs = 1 .. Len(d.epochs)
      /\ \A i \in DOMAIN d.epochs : d.epochs[i] \in Epochs
      /\ Len(d.epochs) \in DOMAIN d.epochs
  BY EpochsLen
<1>2. \A i \in DOMAIN d.epochs :
        /\ es[i] \in Epochs /\ es[i].id = d.epochs[i].id
        /\ es[i].to = d.epochs[i].to \union kids
  BY <1>1 DEF EscrowIntoEpochs, EscrowInto, Epochs
<1>3. es \in [1 .. Len(d.epochs) -> Epochs]
  BY <1>1, <1>2 DEF EscrowIntoEpochs
<1>4. es \in Seq(Epochs)
  BY <1>1, <1>3, SeqDef
<1>5. Len(es) = Len(d.epochs) /\ DOMAIN es = DOMAIN d.epochs
  BY <1>1, <1>3, <1>4, LenProperties
<1>6. d.hmac \in Hmacs
  BY DEF Descriptors
<1>7. /\ hm \in Hmacs /\ hm.id = d.hmac.id
      /\ d.hmac.id # None => hm.to = d.hmac.to \union kids
  BY <1>6 DEF EscrowIntoHmac, EscrowInto, Hmacs
<1>8. n \in Descriptors /\ n.epochs = es /\ n.current = d.current /\ n.hmac = hm
  BY <1>4, <1>7, Zenon DEF Escrowed, Descriptors
<1> HIDE DEF n, es, hm
<1>9. n.epochs # <<>>
  BY <1>1, <1>4, <1>5, <1>8, EmptySeq
<1>10. Nested(n)
  BY <1>1, <1>2, <1>5, <1>7, <1>8 DEF Coherent, Nested, Newest
<1>11. Named(n)
  BY <1>1, <1>2, <1>5, <1>8 DEF Coherent, Named, Newest
<1> QED
  BY <1>2, <1>5, <1>7, <1>8, <1>9, <1>10, <1>11 DEF n, Coherent

Rotates(d, id, retiring, kids, vouched) ==
    LET e == Escrowed(d, kids)
        n == RotatedOff(d, id, retiring, kids, vouched)
        fresh == FreshEpoch(e, id, retiring, kids, vouched)
    IN /\ n \in Descriptors /\ Coherent(n) /\ n.epochs # <<>>
       /\ n.hmac.id = e.hmac.id /\ n.hmac.to = e.hmac.to \ retiring
       /\ \/ /\ Newest(e).to \intersect retiring = {}
             /\ n.epochs = e.epochs
          \/ /\ Newest(e).to \intersect retiring # {}
             /\ n.epochs = Append(e.epochs, fresh)
             /\ fresh \in Epochs /\ fresh.id = id
             /\ fresh.to # {} /\ fresh.to \subseteq Newest(e).to \ retiring

(* A rotation admitted by RotationRefused appends an epoch for some of the *)
(* present holders that stay, and otherwise only the index key changes.    *)
LEMMA RotationSound ==
    ASSUME NEW d \in Descriptors, Coherent(d), d.epochs # <<>>, NEW id \in Mints,
           Free(d, id), NEW kids \in SUBSET Kids, NEW retiring \in SUBSET Kids,
           NEW vouched \in SUBSET Kids,
           ~RotationRefused(d, id, retiring, kids, vouched)
    PROVE  Rotates(d, id, retiring, kids, vouched)
<1> DEFINE e == Escrowed(d, kids)
           n == RotatedOff(d, id, retiring, kids, vouched)
           fresh == FreshEpoch(e, id, retiring, kids, vouched)
           hm == WithoutHmacRecipients(e.hmac, retiring)
           Goal == /\ n \in Descriptors /\ Coherent(n) /\ n.epochs # <<>>
                   /\ n.hmac.id = e.hmac.id /\ n.hmac.to = e.hmac.to \ retiring
                   /\ \/ /\ Newest(e).to \intersect retiring = {}
                         /\ n.epochs = e.epochs
                      \/ /\ Newest(e).to \intersect retiring # {}
                         /\ n.epochs = Append(e.epochs, fresh)
                         /\ fresh \in Epochs /\ fresh.id = id
                         /\ fresh.to # {} /\ fresh.to \subseteq Newest(e).to \ retiring
<1>1. /\ e \in Descriptors /\ Coherent(e) /\ e.epochs # <<>>
      /\ \A i \in DOMAIN e.epochs : e.epochs[i].id # id
  <2>1. DOMAIN e.epochs = DOMAIN d.epochs
    BY EscrowSound, EpochsLen
  <2> QED
    BY <2>1, EscrowSound DEF Free
<1>2. /\ Len(e.epochs) \in DOMAIN e.epochs /\ DOMAIN e.epochs = 1 .. Len(e.epochs)
      /\ \A i \in DOMAIN e.epochs : e.epochs[i] \in Epochs
      /\ e.epochs \in Seq(Epochs) /\ Len(e.epochs) \in Nat /\ e.hmac \in Hmacs
  BY <1>1, EpochsLen DEF Descriptors
<1>3. CurrentEpochOf(e) = Newest(e) /\ Newest(e) \in Epochs
  BY <1>1, CurrentIsNewest
<1>4. fresh \in Epochs /\ fresh.id = id /\ fresh.to \subseteq Newest(e).to \ retiring
  BY <1>3 DEF FreshEpoch, RotateEpoch, Survivors, Epochs
<1>5. Rotating(e, retiring) <=> Newest(e).to \intersect retiring # {}
  BY <1>3 DEF Rotating
<1>6. hm \in Hmacs /\ hm.id = e.hmac.id /\ hm.to = e.hmac.to \ retiring
  BY <1>2 DEF WithoutHmacRecipients, Hmacs
<1>7. e.hmac.id # None => Newest(e).to \subseteq e.hmac.to
  BY <1>1 DEF Coherent, Nested
<1>8. ASSUME ~Rotating(e, retiring) PROVE Goal
  <2>1. n.epochs = e.epochs /\ n.current = e.current /\ n.hmac = hm /\ n \in Descriptors
    BY <1>1, <1>6, <1>8, Zenon DEF RotatedOff, Descriptors
  <2> HIDE DEF n, hm
  <2>2. Coherent(n)
    BY <1>1, <1>5, <1>6, <1>7, <1>8, <2>1 DEF Coherent, Nested, Named, Newest
  <2> QED
    BY <1>1, <1>5, <1>6, <1>8, <2>1, <2>2 DEF n, hm
<1>9. ASSUME Rotating(e, retiring) PROVE Goal
  <2> DEFINE es == Append(e.epochs, fresh)
  <2>1. fresh.to # {}
    BY <1>9 DEF RotationRefused
  <2>2. /\ es \in Seq(Epochs) /\ Len(es) = Len(e.epochs) + 1
        /\ DOMAIN es = 1 .. Len(e.epochs) + 1
        /\ es[Len(e.epochs) + 1] = fresh
        /\ \A i \in 1 .. Len(e.epochs) : es[i] = e.epochs[i]
    <3> HIDE DEF fresh, e
    <3> QED
      BY <1>2, <1>4, AppendProperties, LenProperties
  <2>3. n.epochs = es /\ n.current = id /\ n.hmac = hm /\ n \in Descriptors
    <3>1. n = [[e EXCEPT !.hmac = hm] EXCEPT !.epochs = es, !.current = id]
      BY <1>9 DEF RotatedOff
    <3> HIDE DEF n, hm, es, e
    <3> QED
      BY <1>1, <1>6, <2>2, <3>1 DEF Descriptors
  <2> HIDE DEF n, hm, es, fresh, e
  <2>4. Newest(n) = fresh /\ n.epochs # <<>>
    BY <1>2, <2>2, <2>3, EmptySeq DEF Newest
  <2>5. Nested(n)
    <3>1. \A i \in DOMAIN e.epochs : Newest(e).to \subseteq e.epochs[i].to
      BY <1>1, <1>2 DEF Coherent, Nested, Newest
    <3>2. ASSUME NEW i \in DOMAIN n.epochs, NEW j \in DOMAIN n.epochs, i <= j
          PROVE  n.epochs[j].to \subseteq n.epochs[i].to
      <4>1. CASE j \in DOMAIN e.epochs
        <5>1. i \in DOMAIN e.epochs /\ n.epochs[i] = e.epochs[i] /\ n.epochs[j] = e.epochs[j]
          BY <1>2, <2>2, <2>3, <3>2, <4>1
        <5> QED
          BY <1>1, <3>2, <4>1, <5>1 DEF Coherent, Nested
      <4>2. CASE j = Len(e.epochs) + 1
        <5>1. n.epochs[j] = fresh
          BY <2>2, <2>3, <4>2
        <5>2. (i \in DOMAIN e.epochs /\ n.epochs[i] = e.epochs[i]) \/ i = j
          BY <1>2, <2>2, <2>3, <4>2
        <5> QED
          BY <1>4, <3>1, <5>1, <5>2
      <4> QED
        BY <1>2, <2>2, <2>3, <4>1, <4>2
    <3>3. n.hmac.id # None => Newest(n).to \subseteq n.hmac.to
      BY <1>4, <1>6, <1>7, <2>3, <2>4
    <3> QED
      BY <3>2, <3>3 DEF Nested
  <2>6. Named(n)
    <3>1. \A i \in DOMAIN n.epochs :
            \/ i \in DOMAIN e.epochs /\ n.epochs[i] = e.epochs[i]
            \/ i = Len(e.epochs) + 1 /\ n.epochs[i] = fresh
      BY <1>2, <2>2, <2>3
    <3>2. \A i \in DOMAIN n.epochs : n.epochs[i].to # {}
      BY <1>1, <2>1, <3>1 DEF Coherent, Named
    <3>3. \A i, j \in DOMAIN n.epochs : n.epochs[i].id = n.epochs[j].id => i = j
      BY <1>1, <1>4, <3>1 DEF Coherent, Named
    <3> QED
      BY <1>4, <2>3, <2>4, <3>2, <3>3 DEF Named
  <2> QED
    BY <1>4, <1>5, <1>6, <1>9, <2>1, <2>3, <2>4, <2>5, <2>6 DEF Coherent, n, hm, es, fresh, e
<1>10. Goal
  BY <1>8, <1>9
<1> QED
  BY <1>10, Zenon DEF Rotates
-----------------------------------------------------------------------------
(* Types of the vocabulary.                                                *)

LEMMA RequestTyped ==
    ASSUME TypeOK, NEW c \in Calls
    PROVE  /\ call[c] \in CallType /\ pc[c] \in Labels /\ call[c].req \in RequestType
<1>1. NoRequest \in RequestType
  BY DEF NoRequest, RequestType, Kinds, Installs, Removals
<1>2. \A d \in Calls : RequestsOf[d] \subseteq RequestType
  BY RequestsTyped DEF RequestsTyped
<1>3. call[c] \in CallType /\ pc[c] \in Labels
  BY DEF TypeOK
<1>4. call[c].req \in (UNION {RequestsOf[d] : d \in Calls}) \union {NoRequest}
  BY <1>3 DEF CallType
<1> QED
  BY <1>1, <1>2, <1>3, <1>4

LEMMA EntryTyped ==
    ASSUME TypeOK, NEW v \in DOMAIN hist
    PROVE  hist[v] \in Entries /\ hist[v].desc \in Descriptors
           /\ hist[v].conf \in Confs \union {None}
<1>1. v \in 1 .. Len(hist) /\ hist \in Seq(Entries)
  BY LenProperties DEF TypeOK
<1>2. hist[v] \in Entries
  BY <1>1, ElementOfSeq
<1> QED
  BY <1>2 DEF Entries

LEMMA CurrentSound ==
    ASSUME IInv, NEW v \in Versions
    PROVE  /\ Current(v) \in Descriptors /\ Sound(Current(v))
           /\ v # 0 => v \in DOMAIN hist
<1>1. hist \in Seq(Entries) /\ DOMAIN hist = 1 .. Len(hist) /\ Len(hist) \in Nat
  BY LenProperties DEF IInv, TypeOK
<1>2. v # 0 => v \in DOMAIN hist
  BY <1>1 DEF Versions
<1> QED
  BY <1>2, SeedSound, EntryTyped DEF Current, IInv

(* What a call composes is sound, and mints no epoch but its own.          *)
LEMMA RevisedSound ==
    ASSUME NEW c \in Calls, NEW d \in Descriptors, Sound(d), Composable(c, d),
           call[c].req \in RequestType, Admissible(call[c].req),
           Free(d, c)
    PROVE  LET n == Revised(c, d)
           IN /\ n \in Descriptors /\ Sound(n)
              /\ \A i \in DOMAIN n.epochs :
                   \/ n.epochs[i].id = c
                   \/ i \in DOMAIN d.epochs /\ n.epochs[i].id = d.epochs[i].id
<1> DEFINE r == call[c].req
           n == Revised(c, d)
<1>1. c \in Mints /\ r.kids \in SUBSET Kids /\ r.retiring \in SUBSET Kids
      /\ r.vouched \in SUBSET Kids
  BY CallsMint DEF CallsMint, RequestType
<1>2. Coherent(d) /\ (d.epochs = <<>> => d = Seed)
  BY DEF Sound
<1>3. CASE MintsFirst(r.kind, d)
  <2> DEFINE hmac == IF r.blinded THEN [id |-> c, to |-> r.kids] ELSE NoHmac
  <2>1. d = Seed /\ r.kids # {}
    BY <1>2, <1>3 DEF MintsFirst, Installs, Admissible, RemovalAdmissible
  <2>2. n = WithFirstEpoch(Seed, c, r.kids, hmac)
    BY <1>3, <2>1 DEF Revised, MintsFirst, Installs, Removals
  <2>3. hmac \in {NoHmac, [id |-> c, to |-> r.kids]}
    OBVIOUS
  <2> HIDE DEF n, hmac
  <2>4. n \in Descriptors /\ Sound(n) /\ n.epochs = <<[id |-> c, to |-> r.kids]>>
    BY <1>1, <2>1, <2>2, <2>3, FirstSound
  <2> QED
    BY <2>4 DEF n
<1>4. CASE ~MintsFirst(r.kind, d) /\ r.kind = "add"
  <2>1. d.epochs # <<>>
    BY <1>4 DEF Composable, Installs
  <2>2. n = Escrowed(d, r.kids)
    BY <1>4 DEF Revised, Removals
  <2> HIDE DEF n
  <2>3. /\ n \in Descriptors /\ Coherent(n) /\ n.epochs # <<>>
        /\ Len(n.epochs) = Len(d.epochs)
        /\ \A i \in DOMAIN d.epochs : n.epochs[i].id = d.epochs[i].id
    BY <1>1, <1>2, <2>1, <2>2, EscrowSound
  <2>4. DOMAIN n.epochs = DOMAIN d.epochs
    BY <2>3, EpochsLen
  <2> QED
    BY <2>3, <2>4 DEF n, Sound
<1>5. CASE ~MintsFirst(r.kind, d) /\ r.kind \in Removals
  <2> DEFINE e == Escrowed(d, r.kids)
             fresh == FreshEpoch(e, c, r.retiring, r.kids, r.vouched)
  <2>1. d.epochs # <<>> /\ ~RotationRefused(d, c, r.retiring, r.kids, r.vouched)
    BY <1>5 DEF Composable, Installs, Removals
  <2>2. n = RotatedOff(d, c, r.retiring, r.kids, r.vouched)
    BY <1>5 DEF Revised, Removals
  <2>3. /\ e \in Descriptors /\ DOMAIN e.epochs = DOMAIN d.epochs
        /\ \A i \in DOMAIN d.epochs : e.epochs[i].id = d.epochs[i].id
    BY <1>1, <1>2, <2>1, EscrowSound, EpochsLen
  <2> DEFINE ro == RotatedOff(d, c, r.retiring, r.kids, r.vouched)
  <2>4. /\ ro \in Descriptors /\ Coherent(ro) /\ ro.epochs # <<>>
        /\ \/ ro.epochs = e.epochs
           \/ ro.epochs = Append(e.epochs, fresh) /\ fresh \in Epochs /\ fresh.id = c
    <3>1. Rotates(d, c, r.retiring, r.kids, r.vouched)
      BY <1>1, <1>2, <2>1, RotationSound
    <3> HIDE DEF n
    <3> QED
      BY <3>1 DEF Rotates
  <2> HIDE DEF fresh, e, ro
  <2>5. \A i \in DOMAIN ro.epochs :
          \/ ro.epochs[i].id = c
          \/ i \in DOMAIN e.epochs /\ ro.epochs[i].id = e.epochs[i].id
    <3>1. e.epochs \in Seq(Epochs) /\ ro.epochs \in Seq(Epochs)
      BY <2>3, <2>4 DEF Descriptors
    <3>2. /\ DOMAIN e.epochs = 1 .. Len(e.epochs) /\ DOMAIN ro.epochs = 1 .. Len(ro.epochs)
          /\ Len(e.epochs) \in Nat
      BY <3>1, LenProperties
    <3>3. CASE ro.epochs = Append(e.epochs, fresh) /\ fresh \in Epochs /\ fresh.id = c
      <4>1. /\ Len(ro.epochs) = Len(e.epochs) + 1
            /\ ro.epochs[Len(e.epochs) + 1] = fresh
            /\ \A i \in 1 .. Len(e.epochs) : ro.epochs[i] = e.epochs[i]
        BY <3>1, <3>3, AppendProperties
      <4> QED
        BY <3>2, <3>3, <4>1
    <3> QED
      BY <2>4, <3>3
  <2>6. n = ro
    BY <2>2 DEF ro
  <2> HIDE DEF n
  <2> QED
    BY <2>3, <2>4, <2>5, <2>6 DEF n, Sound
<1>6. CASE ~MintsFirst(r.kind, d) /\ r.kind # "add" /\ r.kind \notin Removals
  <2>1. n = d
    BY <1>6 DEF Revised
  <2> QED
    BY <2>1
<1> QED
  BY <1>3, <1>4, <1>5, <1>6
-----------------------------------------------------------------------------
(* What a step does at the server.                                         *)

(* An object is added.                                                     *)
LEMMA AppendKept ==
    ASSUME TypeOK, NEW object \in Entries, hist' = Append(hist, object)
    PROVE  /\ hist' \in Seq(Entries) /\ Len(hist') = Len(hist) + 1 /\ Len(hist) \in Nat
           /\ \A v \in DOMAIN hist : v \in DOMAIN hist' /\ hist'[v] = hist[v]
           /\ \A v \in DOMAIN hist' : v \in DOMAIN hist \/ hist'[v] = object
           /\ Len(hist') \in DOMAIN hist' /\ hist'[Len(hist')] = object
<1>1. hist \in Seq(Entries) /\ Len(hist) \in Nat /\ DOMAIN hist = 1 .. Len(hist)
  BY LenProperties DEF TypeOK
<1>2. /\ hist' \in Seq(Entries) /\ Len(hist') = Len(hist) + 1
      /\ hist'[Len(hist) + 1] = object
      /\ \A i \in 1 .. Len(hist) : hist'[i] = hist[i]
  BY <1>1, AppendProperties
<1>3. DOMAIN hist' = 1 .. Len(hist')
  BY <1>2, LenProperties
<1> QED
  BY <1>1, <1>2, <1>3

(* A sound object is added under a new version, which becomes the stored   *)
(* one.                                                                    *)
LEMMA StoreKept ==
    ASSUME IInv, NEW c \in Calls, NEW object \in Entries, hist' = Append(hist, object),
           stored' = Len(hist'), Sound(object.desc),
           \A d \in Calls \ {c} : Unminted(d) => Free(object.desc, d),
           UNCHANGED <<host, described, revoked>>
    PROVE  ServerKept(c)
<1>1. TypeOK /\ \A v \in DOMAIN hist : Sound(hist[v].desc)
  BY DEF IInv
<1>2. /\ hist' \in Seq(Entries) /\ Len(hist') = Len(hist) + 1 /\ Len(hist) \in Nat
      /\ \A v \in DOMAIN hist : v \in DOMAIN hist' /\ hist'[v] = hist[v]
      /\ \A v \in DOMAIN hist' : v \in DOMAIN hist \/ hist'[v] = object
  BY <1>1, AppendKept
<1>3. \A v \in DOMAIN hist' : Sound(hist'[v].desc)
  BY <1>1, <1>2
<1>4. \A d \in Calls \ {c} : Unminted(d) => Unminted(d)'
  BY <1>2 DEF Unminted
<1>5. stored' \in Versions' /\ Entries' = Entries
  BY <1>2 DEF Versions, Entries
<1> QED
  BY <1>1, <1>2, <1>3, <1>4, <1>5 DEF ServerKept, TypeOK

(* Nothing is stored, but a store's read or a revocation may be noted.     *)
LEMMA NothingStored ==
    ASSUME IInv, NEW c \in Calls, UNCHANGED <<host, hist, stored>>,
           described' \in [Stores -> Confs \union {None}], revoked' \subseteq Zcaps
    PROVE  ServerKept(c)
<1>1. TypeOK /\ \A v \in DOMAIN hist : Sound(hist[v].desc)
  BY DEF IInv
<1> QED
  BY <1>1 DEF ServerKept, TypeOK, Versions, Entries, Unminted
-----------------------------------------------------------------------------
(* What a step does to its call.                                           *)

LEMMA Widened ==
    ASSUME TypeOK, NEW c \in Calls, ServerKept(c)
    PROVE  /\ \A v \in Versions : v \in Versions'
           /\ \A k \in CallType : k \in CallType'
           /\ \A d \in Calls : call[d] \in CallType'
<1>1. Len(hist) \in Nat /\ Len(hist') \in Nat /\ Len(hist) <= Len(hist')
  BY LenProperties DEF TypeOK, ServerKept
<1>2. \A v \in Versions : v \in Versions'
  BY <1>1 DEF Versions
<1> QED
  BY <1>2 DEF CallType, TypeOK

(* The call moves to a label with new locals.                              *)
LEMMA Moved ==
    ASSUME TypeOK, NEW c \in Calls, ServerKept(c), NEW label \in Labels, NEW k \in CallType',
           Goto(c, label), call' = [call EXCEPT ![c] = k]
    PROVE  /\ pc' \in [Calls -> Labels] /\ call' \in [Calls -> CallType'] /\ Others(c)
           /\ pc'[c] = label /\ call'[c] = k
<1>1. \A d \in Calls : call[d] \in CallType'
  BY Widened
<1> QED
  BY <1>1 DEF TypeOK, Goto, Others

(* A call that has its result, or has thrown, need not be free to mint.    *)
LEMMA EndKept ==
    ASSUME TypeOK, NEW c \in Calls, ServerKept(c), NEW label \in {"returned", "thrown", "pull"},
           NEW k \in CallType', Goto(c, label), call' = [call EXCEPT ![c] = k],
           Admissible(k.req)
    PROVE  CallKept(c)
<1>1. label \in Labels
  BY DEF Labels
<1>2. /\ pc' \in [Calls -> Labels] /\ call' \in [Calls -> CallType'] /\ Others(c)
      /\ pc'[c] = label /\ call'[c] = k
  BY <1>1, Moved
<1> QED
  BY <1>2 DEF CallKept, Prepared, Unwritten

LEMMA ThrowKept ==
    ASSUME IInv, NEW c \in Calls, pc[c] # "idle", ServerKept(c), Throw(c)
    PROVE  CallKept(c)
<1>1. call[c] \in CallType' /\ Admissible(call[c].req) /\ TypeOK
  BY Widened DEF IInv, Prepared
<1>2. call' = [call EXCEPT ![c] = call[c]] /\ Goto(c, "thrown")
  BY <1>1 DEF Throw, TypeOK
<1> QED
  BY <1>1, <1>2, EndKept

LEMMA SettleKept ==
    ASSUME IInv, NEW c \in Calls, ServerKept(c), NEW k \in CallType', Admissible(k.req),
           k.req \in RequestType, NEW v \in Versions', Settle(c, k, v)
    PROVE  CallKept(c)
<1> DEFINE n == [k EXCEPT !.ack = v, !.pending = k.req.zcaps]
           label == IF k.req.zcaps = {} THEN "returned" ELSE "pull"
<1>1. Goto(c, label) /\ call' = [call EXCEPT ![c] = n]
  BY DEF Settle
<1>2. k.req.zcaps \in SUBSET Zcaps
  BY DEF RequestType
<1>3. n \in CallType' /\ n.req = k.req
  BY <1>2 DEF CallType
<1> HIDE DEF n
<1> QED
  BY <1>1, <1>3, EndKept DEF IInv
-----------------------------------------------------------------------------
(* One lemma per step.                                                     *)

LEMMA StartKept ==
    ASSUME IInv, NEW c \in Calls, Start(c)
    PROVE  CallKept(c) /\ ServerKept(c)
<1>1. TypeOK /\ Prepared(c)
  BY DEF IInv
<1>2. pc[c] = "idle" /\ UNCHANGED <<host, hist, stored, described, revoked>>
  BY DEF Start
<1>3. ServerKept(c)
  BY <1>1, <1>2, NothingStored DEF TypeOK
<1>4. PICK req \in RequestsOf[c] :
         /\ Goto(c, IF req.kind = "configure" THEN "configure" ELSE "read")
         /\ call' = [call EXCEPT ![c] = Locals(req)]
  BY DEF Start
<1> DEFINE label == IF req.kind = "configure" THEN "configure" ELSE "read"
           k == Locals(req)
<1>5. Admissible(req) /\ req \in UNION {RequestsOf[d] : d \in Calls}
  BY RequestsTyped DEF RequestsTyped
<1>6. k \in CallType' /\ k.req = req
  <2>1. 0 \in Versions' /\ 0 \in 0 .. Attempts - 1
    BY <1>1, <1>2, SwitchesTyped, LenProperties DEF SwitchesTyped, Versions, TypeOK
  <2> QED
    BY <1>5, <2>1 DEF Locals, CallType
<1>7. label \in Labels /\ label # "write"
  BY DEF Labels
<1> HIDE DEF k, label
<1>8. /\ pc' \in [Calls -> Labels] /\ call' \in [Calls -> CallType'] /\ Others(c)
      /\ pc'[c] = label /\ call'[c] = k
  BY <1>1, <1>3, <1>4, <1>6, <1>7, Moved DEF label, k
<1>9. Unminted(c)'
  BY <1>1, <1>2 DEF Prepared, Unwritten, Unminted
<1> QED
  BY <1>3, <1>5, <1>6, <1>7, <1>8, <1>9 DEF CallKept, Prepared

(* The server answers a read.                                              *)
LEMMA ServeReadKept ==
    ASSUME IInv, NEW c \in Calls, ServeRead(c)
    PROVE  CallKept(c) /\ ServerKept(c)
<1> DEFINE v == IF call[c].req.masked THEN 0 ELSE stored
           k == [call[c] EXCEPT !.seen = v]
<1>1. TypeOK /\ Prepared(c)
  BY DEF IInv
<1>2. pc[c] = "read" /\ UNCHANGED <<host, hist, stored, described, revoked>>
  BY DEF ServeRead
<1>3. ServerKept(c)
  BY <1>1, <1>2, NothingStored DEF TypeOK
<1>4. call' = [call EXCEPT ![c] = k] /\ Goto(c, "got")
  BY DEF ServeRead
<1>5. v \in Versions'
  BY <1>1, <1>2, LenProperties DEF TypeOK, Versions
<1>6. call[c] \in CallType'
  BY <1>1, <1>3, Widened
<1> HIDE DEF v
<1>7. k \in CallType' /\ k.req = call[c].req
  BY <1>5, <1>6 DEF CallType
<1>8. "got" \in Labels
  BY DEF Labels
<1> HIDE DEF k
<1>9. /\ pc' \in [Calls -> Labels] /\ call' \in [Calls -> CallType'] /\ Others(c)
      /\ pc'[c] = "got" /\ call'[c] = k
  BY <1>1, <1>3, <1>4, <1>7, <1>8, Moved
<1> QED
  BY <1>1, <1>2, <1>3, <1>7, <1>9 DEF CallKept, Prepared, Unwritten, Unminted

(* The read settles: the call throws, has its result, or composes a write  *)
(* that no mutate refused.                                                 *)
LEMMA GotReadKept ==
    ASSUME IInv, NEW c \in Calls, GotRead(c)
    PROVE  CallKept(c) /\ ServerKept(c)
<1> DEFINE v == call[c].seen
           d == Current(v)
           next == [call[c] EXCEPT !.reread = TRUE, !.installed = Installed(c, d)]
<1>1. TypeOK /\ Prepared(c) /\ call[c] \in CallType /\ call[c].req \in RequestType
  BY RequestTyped DEF IInv
<1>2. pc[c] = "got" /\ UNCHANGED <<host, hist, stored, revoked>>
  BY DEF GotRead
<1>3. v \in Versions /\ d \in Descriptors /\ (v # 0 => v \in DOMAIN hist)
  BY <1>1, CurrentSound DEF CallType
<1>4. described' \in [Stores -> Confs \union {None}]
  <2>1. CASE host = "collection" /\ ~Unusable(c, v)
    <3>1. v # 0
      BY <2>1 DEF Unusable
    <3>2. described' = [described EXCEPT ![StoreOf[c]] = hist[v].conf]
      BY <2>1 DEF GotRead, Observed
    <3> QED
      BY <1>1, <1>3, <3>1, <3>2, EntryTyped DEF TypeOK
  <2>2. CASE ~(host = "collection" /\ ~Unusable(c, v))
    BY <1>1, <2>2 DEF GotRead, Observed, TypeOK
  <2> QED
    BY <2>1, <2>2
<1>5. ServerKept(c)
  BY <1>1, <1>2, <1>4, NothingStored DEF TypeOK
<1>6. next \in CallType' /\ next.req = call[c].req /\ next.seen = v
  <2>1. Installed(c, d) \in BOOLEAN
    BY DEF Installed, MintsFirst
  <2>2. next \in CallType /\ next.req = call[c].req /\ next.seen = v
    BY <1>1, <2>1 DEF CallType
  <2> QED
    BY <1>1, <1>5, <2>2, Widened
<1>7. Admissible(call[c].req)
  BY <1>1, <1>2 DEF Prepared
<1>8. CASE Throw(c)
  BY <1>2, <1>5, <1>8, ThrowKept
<1> HIDE DEF next
<1>9. CASE Settle(c, next, v)
  BY <1>1, <1>3, <1>5, <1>6, <1>7, <1>9, Widened, SettleKept
<1>10. CASE ~Refused(c, d) /\ Goto(c, "write") /\ call' = [call EXCEPT ![c] = next]
  <2>1. /\ pc' \in [Calls -> Labels] /\ call' \in [Calls -> CallType'] /\ Others(c)
        /\ pc'[c] = "write" /\ call'[c] = next
    <3>1. "write" \in Labels
      BY DEF Labels
    <3> QED
      BY <1>1, <1>5, <1>6, <1>10, <3>1, Moved
  <2>2. Composable(c, d)
    BY <1>10 DEF Refused, Composable, Installs, Removals
  <2>3. Composable(c, Current(call[c].seen))'
    BY <1>2, <1>6, <2>1, <2>2 DEF Composable, Current
  <2>4. Unminted(c)'
    BY <1>1, <1>2 DEF Prepared, Unwritten, Unminted
  <2> QED
    BY <1>5, <1>6, <1>7, <2>1, <2>3, <2>4 DEF CallKept, Prepared
<1> QED
  BY <1>8, <1>9, <1>10 DEF GotRead, next

(* What a write would store.                                               *)
LEMMA WrittenSound ==
    ASSUME IInv, NEW c \in Calls, pc[c] = "write"
    PROVE  LET d == Current(call[c].seen)
               n == Revised(c, d)
           IN /\ d \in Descriptors /\ Sound(d) /\ Composable(c, d) /\ Free(d, c)
              /\ n \in Descriptors /\ Sound(n)
              /\ \A e \in Calls \ {c} : Unminted(e) => Free(n, e)
<1> DEFINE d == Current(call[c].seen)
           n == Revised(c, d)
<1>1. call[c] \in CallType /\ call[c].req \in RequestType /\ call[c].seen \in Versions
  BY RequestTyped DEF IInv, CallType
<1>2. Composable(c, d) /\ Unminted(c) /\ Admissible(call[c].req)
  BY DEF IInv, Prepared, Unwritten
<1>3. d \in Descriptors /\ Sound(d) /\ (call[c].seen # 0 => call[c].seen \in DOMAIN hist)
  BY <1>1, CurrentSound
<1>4. \A e \in Calls : Unminted(e) => Free(d, e)
  BY <1>3 DEF Unminted, Free, Current, Seed
<1> HIDE DEF d
<1>5. /\ n \in Descriptors /\ Sound(n)
      /\ \A i \in DOMAIN n.epochs :
           \/ n.epochs[i].id = c
           \/ i \in DOMAIN d.epochs /\ n.epochs[i].id = d.epochs[i].id
  BY <1>1, <1>2, <1>3, <1>4, RevisedSound
<1> HIDE DEF n
<1>6. \A e \in Calls \ {c} : Unminted(e) => Free(n, e)
  BY <1>4, <1>5 DEF Free
<1> QED
  BY <1>2, <1>3, <1>4, <1>5, <1>6 DEF d, n

(* A write is applied, or loses the race and is composed anew.             *)
LEMMA ServeWriteKept ==
    ASSUME IInv, NEW c \in Calls, ServeWrite(c)
    PROVE  CallKept(c) /\ ServerKept(c)
<1> DEFINE desc == Revised(c, Current(call[c].seen))
           object == [declared |-> TRUE, desc |-> desc,
                      conf |-> described[StoreOf[c]], by |-> c]
<1>1. TypeOK /\ Prepared(c) /\ call[c] \in CallType /\ call[c].req \in RequestType
  BY RequestTyped DEF IInv
<1>2. pc[c] = "write" /\ UNCHANGED <<host, described, revoked>>
  BY DEF ServeWrite
<1>3. Admissible(call[c].req) /\ Unminted(c)
  BY <1>1, <1>2 DEF Prepared, Unwritten
<1>4. CASE /\ hist' = Append(hist, object) /\ stored' = Len(hist')
           /\ Settle(c, call[c], stored') \/ Throw(c)
  <2>1. /\ desc \in Descriptors /\ Sound(desc)
        /\ \A e \in Calls \ {c} : Unminted(e) => Free(desc, e)
    BY <1>2, WrittenSound
  <2>2. described[StoreOf[c]] \in Confs \union {None}
    BY <1>1, StoresGiven DEF TypeOK, StoresGiven
  <2> HIDE DEF desc
  <2>3. object \in Entries /\ object.desc = desc
    BY <2>1, <2>2 DEF Entries
  <2> HIDE DEF object
  <2>4. ServerKept(c)
    BY <1>2, <1>4, <2>1, <2>3, StoreKept
  <2>5. stored' \in Versions' /\ call[c] \in CallType'
    BY <1>1, <2>4, Widened DEF ServerKept
  <2>6. CASE Settle(c, call[c], stored')
    BY <1>1, <1>3, <2>4, <2>5, <2>6, SettleKept
  <2>7. CASE Throw(c)
    BY <1>2, <2>4, <2>7, ThrowKept
  <2> QED
    BY <1>4, <2>4, <2>6, <2>7
<1>5. CASE /\ UNCHANGED <<hist, stored>>
           /\ IF LastAttempt(c)
              THEN Throw(c)
              ELSE /\ Goto(c, "read")
                   /\ call' = [call EXCEPT ![c].tries = @ + 1, ![c].seen = 0]
  <2>1. ServerKept(c)
    BY <1>1, <1>2, <1>5, NothingStored DEF TypeOK
  <2>2. CASE LastAttempt(c)
    BY <1>2, <1>5, <2>1, <2>2, ThrowKept
  <2>3. CASE ~LastAttempt(c)
    <3> DEFINE k == [call[c] EXCEPT !.tries = @ + 1, !.seen = 0]
    <3>1. call' = [call EXCEPT ![c] = k] /\ Goto(c, "read")
      BY <1>5, <2>3
    <3>2. call[c] \in CallType' /\ call[c].tries + 1 \in 0 .. Attempts - 1
      BY <1>1, <2>1, <2>3, Widened, SwitchesTyped DEF SwitchesTyped, LastAttempt, CallType
    <3>3. 0 \in Versions' /\ "read" \in Labels
      BY <1>1, <2>1, LenProperties DEF Versions, Labels, ServerKept
    <3>4. k \in CallType' /\ k.req = call[c].req
      BY <3>2, <3>3 DEF CallType
    <3> HIDE DEF k
    <3>5. /\ pc' \in [Calls -> Labels] /\ call' \in [Calls -> CallType'] /\ Others(c)
          /\ pc'[c] = "read" /\ call'[c] = k
      BY <1>1, <2>1, <3>1, <3>3, <3>4, Moved
    <3> QED
      BY <1>3, <1>5, <2>1, <3>4, <3>5 DEF CallKept, Prepared, Unminted
  <2> QED
    BY <2>1, <2>2, <2>3
<1> QED
  BY <1>4, <1>5 DEF ServeWrite

(* Another client's configuration carries the descriptor forward.          *)
LEMMA ConfigureKept ==
    ASSUME IInv, NEW c \in Calls, Configure(c)
    PROVE  CallKept(c) /\ ServerKept(c)
<1>1. TypeOK /\ Prepared(c) /\ call[c] \in CallType /\ call[c].req \in RequestType
  BY RequestTyped DEF IInv
<1>2. pc[c] = "configure" /\ UNCHANGED <<host, described, revoked, call>>
  BY DEF Configure
<1>3. CASE Goto(c, "thrown") /\ UNCHANGED <<hist, stored>>
  <2>1. ServerKept(c)
    BY <1>1, <1>2, <1>3, NothingStored DEF TypeOK
  <2> QED
    BY <1>2, <1>3, <2>1, ThrowKept DEF Throw
<1>4. CASE stored # 0 /\ ~(Goto(c, "thrown") /\ UNCHANGED <<hist, stored>>)
  <2> DEFINE object == [hist[stored] EXCEPT !.conf = call[c].req.conf, !.by = c]
  <2>1. stored \in DOMAIN hist
    BY <1>1, <1>4, LenProperties DEF TypeOK, Versions
  <2>2. hist[stored] \in Entries /\ Sound(hist[stored].desc)
    BY <1>1, <2>1, EntryTyped DEF IInv
  <2>3. object \in Entries /\ object.desc = hist[stored].desc
    BY <1>1, <2>2 DEF Entries, RequestType
  <2>4. hist' = Append(hist, object) /\ stored' = Len(hist') /\ Goto(c, "returned")
    BY <1>4 DEF Configure
  <2> HIDE DEF object
  <2>5. \A d \in Calls : Unminted(d) => Free(object.desc, d)
    BY <2>1, <2>3 DEF Unminted
  <2>6. ServerKept(c)
    BY <1>2, <2>2, <2>3, <2>4, <2>5, StoreKept
  <2>7. call[c] \in CallType' /\ Admissible(call[c].req) /\ call' = [call EXCEPT ![c] = call[c]]
    BY <1>1, <1>2, <2>6, Widened DEF Prepared, TypeOK
  <2> QED
    BY <1>1, <2>4, <2>6, <2>7, EndKept
<1> QED
  BY <1>3, <1>4 DEF Configure

LEMMA LoseKept ==
    ASSUME IInv, NEW c \in Calls, Lose(c)
    PROVE  CallKept(c) /\ ServerKept(c)
<1>1. ServerKept(c)
  BY NothingStored DEF Lose, IInv, TypeOK
<1> QED
  BY <1>1, ThrowKept DEF Lose

(* The answer of a revocation.                                             *)
LEMMA PullKept ==
    ASSUME IInv, NEW c \in Calls, Pull(c)
    PROVE  CallKept(c) /\ ServerKept(c)
<1>1. /\ pc[c] \in {"pull", "thrown"} /\ UNCHANGED <<host, hist, stored, described>>
      /\ \E z \in call[c].pending :
           /\ call' = [call EXCEPT ![c].pending = call[c].pending \ {z}]
           /\ \/ /\ revoked' = revoked \union {z}
                 /\ IF pc[c] = "pull" /\ call[c].pending \ {z} = {}
                    THEN Goto(c, "returned") ELSE UNCHANGED pc
              \/ /\ revoked' \in {revoked, revoked \union {z}}
                 /\ Goto(c, "thrown")
  BY DEF Pull
<1>2. TypeOK /\ Prepared(c) /\ call[c] \in CallType
  BY RequestTyped DEF IInv
<1>3. PICK z \in call[c].pending :
        /\ call' = [call EXCEPT ![c].pending = call[c].pending \ {z}]
        /\ revoked' \in {revoked, revoked \union {z}}
        /\ UNCHANGED pc \/ \E label \in {"returned", "thrown"} : Goto(c, label)
  BY <1>1
<1>4. ServerKept(c)
  <2>1. z \in Zcaps
    BY <1>2 DEF CallType
  <2> QED
    BY <1>1, <1>2, <1>3, <2>1, NothingStored DEF TypeOK
<1> DEFINE k == [call[c] EXCEPT !.pending = call[c].pending \ {z}]
<1>5. call' = [call EXCEPT ![c] = k]
  BY <1>3
<1>6. k \in CallType' /\ k.req = call[c].req
  <2>1. call[c] \in CallType'
    BY <1>2, <1>4, Widened
  <2> QED
    BY <2>1 DEF CallType
<1> HIDE DEF k
<1>7. PICK label \in {"pull", "returned", "thrown"} : Goto(c, label)
  BY <1>1, <1>2, <1>3 DEF Goto, TypeOK
<1>8. Admissible(k.req)
  BY <1>1, <1>2, <1>6 DEF Prepared
<1> QED
  BY <1>2, <1>4, <1>5, <1>6, <1>7, <1>8, EndKept

LEMMA StepKept ==
    ASSUME IInv, NEW c \in Calls, Step(c)
    PROVE  CallKept(c) /\ ServerKept(c)
  BY StartKept, ConfigureKept, ServeReadKept, GotReadKept, ServeWriteKept, LoseKept, PullKept
  DEF Step
-----------------------------------------------------------------------------
(* The inductive invariant.                                                *)

LEMMA InitHolds == Init => IInv
<1> SUFFICES ASSUME Init PROVE IInv
  OBVIOUS
<1> DEFINE entry(o) == [declared |-> o.declared, desc |-> o.desc, conf |-> o.conf, by |-> Past]
<1> DEFINE Goal ==
      /\ hist \in Seq(Entries) /\ stored \in Versions
      /\ \A v \in DOMAIN hist : Sound(hist[v].desc) /\ \A c \in Calls : Free(hist[v].desc, c)
<1>1. Goal
  <2>1. CASE hist = <<>> /\ stored = 0
    BY <2>1, EmptySeq DEF Versions
  <2>2. ASSUME NEW o \in InitialObjects, hist = <<entry(o)>>, stored = 1
        PROVE  Goal
    <3>1. o \in Objects /\ Sound(o.desc) /\ \A c \in Calls : Free(o.desc, c)
      BY ObjectsCoherent DEF ObjectsCoherent, Sound, Free
    <3>2. entry(o) \in Entries /\ entry(o).desc = o.desc
      BY <3>1 DEF Objects, Entries
    <3> HIDE DEF entry
    <3>3. Len(hist) = 1 /\ DOMAIN hist = {1} /\ hist[1] = entry(o) /\ hist \in Seq(Entries)
      BY <2>2, <3>2
    <3> QED
      BY <2>2, <3>1, <3>2, <3>3 DEF Versions
  <2> QED
    BY <2>1, <2>2 DEF Init
<1>2. /\ host \in Hosts /\ described \in [Stores -> Confs \union {None}]
      /\ revoked \subseteq Zcaps
      /\ pc = [c \in Calls |-> "idle"] /\ call = [c \in Calls |-> Locals(NoRequest)]
  BY DEF Init
<1>3. Locals(NoRequest) \in CallType
  <2>1. 0 \in Versions /\ 0 \in 0 .. Attempts - 1
    BY <1>1, SwitchesTyped, LenProperties DEF SwitchesTyped, Versions
  <2> QED
    BY <2>1 DEF Locals, CallType
<1>4. TypeOK
  BY <1>1, <1>2, <1>3 DEF TypeOK, Labels
<1>5. \A c \in Calls : Prepared(c)
  BY <1>1, <1>2 DEF Prepared, Unminted
<1> QED
  BY <1>1, <1>4, <1>5 DEF IInv

(* A step leaves what the other calls rely on: their epochs stay unminted, *)
(* and what they read stays in hist.                                       *)
LEMMA OthersKept ==
    ASSUME IInv, NEW c \in Calls, CallKept(c), ServerKept(c)
    PROVE  \A d \in Calls : Prepared(d)'
<1> SUFFICES ASSUME NEW d \in Calls PROVE Prepared(d)'
  OBVIOUS
<1>1. CASE d = c
  BY <1>1 DEF CallKept
<1>2. CASE d # c
  <2>1. pc'[d] = pc[d] /\ call'[d] = call[d] /\ Prepared(d)
    BY <1>2 DEF CallKept, Others, IInv
  <2>2. pc[d] \in Unwritten => Unminted(d)'
    BY <1>2, <2>1 DEF ServerKept, Prepared
  <2>3. Current(call[d].seen)' = Current(call[d].seen)
    <3>1. call[d].seen \in Versions /\ (call[d].seen # 0 => call[d].seen \in DOMAIN hist)
      BY RequestTyped, CurrentSound DEF IInv, CallType
    <3> QED
      BY <2>1, <3>1 DEF Current, ServerKept
  <2>4. pc[d] = "write" => Composable(d, Current(call[d].seen))'
    BY <2>1, <2>3 DEF Prepared, Composable
  <2> QED
    BY <2>1, <2>2, <2>4 DEF Prepared
<1> QED
  BY <1>1, <1>2

LEMMA StepHolds == IInv /\ [Next]_vars => IInv'
<1> SUFFICES ASSUME IInv, [Next]_vars PROVE IInv'
  OBVIOUS
<1>1. CASE UNCHANGED vars
  BY <1>1 DEF vars, IInv, TypeOK, Versions, CallType, Entries, Prepared, Unminted, Composable,
     Current
<1>2. CASE \E c \in Calls : Step(c)
  <2>1. PICK c \in Calls : Step(c)
    BY <1>2
  <2>2. CallKept(c) /\ ServerKept(c)
    BY <2>1, StepKept
  <2>3. \A d \in Calls : Prepared(d)'
    BY <2>2, OthersKept
  <2>4. TypeOK'
    BY <2>2 DEF TypeOK, CallKept, ServerKept, IInv
  <2> QED
    BY <2>2, <2>3, <2>4 DEF IInv, ServerKept
<1> QED
  BY <1>1, <1>2 DEF Next, Quiet

LEMMA Inductive == Spec => []IInv
  BY InitHolds, StepHolds, PTL DEF Spec
-----------------------------------------------------------------------------
(* Theorems.                                                               *)

(* Every variable keeps its shape, and no call exceeds its                 *)
(* compare-and-swap attempts.                                              *)
THEOREM TypeCorrect == Spec => []TypeOK
<1>1. IInv => TypeOK
  BY DEF IInv
<1> QED
  BY <1>1, Inductive, PTL

(* However escrows and rotations of different clients interleave, whoever  *)
(* can unwrap the current epoch can unwrap every older one and the index   *)
(* key, and the current epoch is the newest.                               *)
THEOREM WholeHistory == Spec => []HistoryReachable
<1>1. IInv => HistoryReachable
  <2> SUFFICES ASSUME IInv, stored # 0 PROVE Coherent(hist[stored].desc)
    BY DEF HistoryReachable
  <2>1. stored \in DOMAIN hist
    BY LenProperties DEF IInv, TypeOK, Versions
  <2> QED
    BY <2>1 DEF IInv, Sound
<1> QED
  BY <1>1, Inductive, PTL
-----------------------------------------------------------------------------
(* KeyEpochs implements KeyCustody.                                        *)

RosterOf(d) == [i \in DOMAIN d.epochs |-> d.epochs[i].to]
IndexOf(d) == IF d.hmac.id = None THEN {} ELSE {d.hmac.to}

LEMMA RosterSeq ==
    ASSUME NEW d \in Descriptors
    PROVE  /\ RosterOf(d) \in Seq(SUBSET Kids)
           /\ Len(RosterOf(d)) = Len(d.epochs) /\ DOMAIN RosterOf(d) = DOMAIN d.epochs
           /\ \A i \in DOMAIN d.epochs : RosterOf(d)[i] = d.epochs[i].to
           /\ (RosterOf(d) = <<>> <=> d.epochs = <<>>)
<1>1. /\ Len(d.epochs) \in Nat /\ DOMAIN d.epochs = 1 .. Len(d.epochs)
      /\ \A i \in DOMAIN d.epochs : d.epochs[i].to \in SUBSET Kids
      /\ d.epochs \in Seq(Epochs)
  BY EpochsLen DEF Epochs, Descriptors
<1>2. RosterOf(d) \in [1 .. Len(d.epochs) -> SUBSET Kids]
  BY <1>1 DEF RosterOf
<1>3. RosterOf(d) \in Seq(SUBSET Kids)
  BY <1>1, <1>2, SeqDef
<1>4. Len(RosterOf(d)) = Len(d.epochs) /\ DOMAIN RosterOf(d) = DOMAIN d.epochs
  BY <1>1, <1>2, <1>3, LenProperties
<1>5. RosterOf(d) = <<>> <=> d.epochs = <<>>
  BY <1>1, <1>3, <1>4, EmptySeq
<1> QED
  BY <1>3, <1>4, <1>5 DEF RosterOf

(* The rosters of the stored descriptor.                                   *)
LEMMA RostersStored ==
    ASSUME IInv
    PROVE  Rosters = RosterOf(Current(stored)) /\ IndexRoster = IndexOf(Current(stored))
<1>1. CASE stored = 0
  <2>1. Current(stored) = Seed /\ Seed \in Descriptors /\ Seed.epochs = <<>>
    BY <1>1, SeedSound DEF Current, Seed
  <2>2. RosterOf(Seed) = <<>>
    BY <2>1, RosterSeq
  <2>3. IndexOf(Seed) = {}
    BY DEF IndexOf, Seed, NoHmac
  <2> QED
    BY <1>1, <2>1, <2>2, <2>3 DEF Rosters, IndexRoster
<1>2. CASE stored # 0
  BY <1>2 DEF Rosters, IndexRoster, Current, RosterOf, IndexOf
<1> QED
  BY <1>1, <1>2

LEMMA InitCustody == Init => Custody!Init
<1> SUFFICES ASSUME Init PROVE Custody!Init
  OBVIOUS
<1> DEFINE d == Current(stored)
<1>1. IInv
  BY InitHolds
<1>2. stored \in Versions
  BY <1>1 DEF IInv, TypeOK
<1>3. d \in Descriptors /\ Coherent(d)
  BY <1>1, <1>2, CurrentSound DEF Sound
<1>4. Rosters = RosterOf(d) /\ IndexRoster = IndexOf(d)
  BY <1>1, RostersStored
<1> HIDE DEF d
<1>5. /\ DOMAIN RosterOf(d) = DOMAIN d.epochs /\ Len(RosterOf(d)) = Len(d.epochs)
      /\ (RosterOf(d) = <<>> <=> d.epochs = <<>>)
      /\ \A i \in DOMAIN d.epochs : RosterOf(d)[i] = d.epochs[i].to
      /\ \A i \in DOMAIN d.epochs : RosterOf(d)[i] \in (SUBSET Kids) \ {{}}
      /\ (d.epochs # <<>> => Len(d.epochs) \in DOMAIN d.epochs)
  <2>1. \A i \in DOMAIN d.epochs : d.epochs[i].to \in (SUBSET Kids) \ {{}}
    <3>1. \A i \in DOMAIN d.epochs : d.epochs[i] \in Epochs
      BY <1>3, EpochsLen
    <3>2. \A i \in DOMAIN d.epochs : d.epochs[i].to # {}
      BY <1>3 DEF Coherent, Named
    <3> QED
      BY <3>1, <3>2 DEF Epochs
  <2>2. d.epochs # <<>> => Len(d.epochs) \in DOMAIN d.epochs
    BY <1>3, EpochsLen
  <2> QED
    BY <1>3, <2>1, <2>2, RosterSeq
<1>6. \A i, j \in DOMAIN RosterOf(d) : i <= j => RosterOf(d)[j] \subseteq RosterOf(d)[i]
  BY <1>3, <1>5 DEF Coherent, Nested
<1>7. RosterOf(d) # <<>> =>
        \A roster \in IndexOf(d) : RosterOf(d)[Len(RosterOf(d))] \subseteq roster
  BY <1>3, <1>5 DEF Coherent, Nested, Newest, IndexOf
<1>8. RosterOf(d) \in Seq((SUBSET Kids) \ {{}})
  <2>1. RosterOf(d) \in Seq(SUBSET Kids)
    BY <1>3, RosterSeq
  <2>2. \A i \in 1 .. Len(RosterOf(d)) : RosterOf(d)[i] \in (SUBSET Kids) \ {{}}
    BY <1>5, <2>1, LenProperties
  <2> QED
    BY <2>1, <2>2, SeqDef, LenProperties
<1> QED
  BY <1>4, <1>5, <1>6, <1>7, <1>8 DEF Custody!Init, Custody!Nested, Custody!Newest, Custody!Rosters

(* KeyCustody's Change, from the rosters of d to those of n.               *)
Changes(d, n, owner, kids, gone) ==
    LET held == RosterOf(d)
        granted == [i \in DOMAIN held |-> held[i] \union kids]
        newest == granted[Len(held)]
    IN /\ held # <<>>
       /\ \A i \in DOMAIN held : kids \subseteq held[i] \/ owner \in held[i]
       /\ \A roster \in IndexOf(d) : kids \subseteq roster \/ owner \in roster
       /\ kids \intersect gone = {}
       /\ IndexOf(n) = {(roster \union kids) \ gone : roster \in IndexOf(d)}
       /\ \/ /\ newest \intersect gone = {}
             /\ RosterOf(n) = granted
          \/ /\ newest \intersect gone # {}
             /\ \E kept \in (SUBSET Kids) \ {{}} :
                  kept \subseteq newest \ gone /\ RosterOf(n) = Append(granted, kept)

(* The owner's part of a change: nobody is granted a key it does not hold. *)
LEMMA GrantAllowed ==
    ASSUME NEW d \in Descriptors, NEW kids \in SUBSET Kids, NEW owner,
           kids = {} \/ ~EscrowRefused(d, kids, owner)
    PROVE  /\ \A i \in DOMAIN RosterOf(d) :
                kids \subseteq RosterOf(d)[i] \/ owner \in RosterOf(d)[i]
           /\ \A roster \in IndexOf(d) : kids \subseteq roster \/ owner \in roster
<1>1. CASE kids = {}
  BY <1>1
<1>2. CASE ~EscrowRefused(d, kids, owner)
  <2>1. \A i \in DOMAIN d.epochs : kids \subseteq d.epochs[i].to \/ owner \in d.epochs[i].to
    BY <1>2 DEF EscrowRefused, CannotEscrow
  <2>2. d.hmac.id # None => kids \subseteq d.hmac.to \/ owner \in d.hmac.to
    BY <1>2 DEF EscrowRefused, CannotEscrow
  <2> QED
    BY <2>1, <2>2 DEF RosterOf, IndexOf
<1> QED
  BY <1>1, <1>2

(* An escrow grants everything to kids.                                    *)
LEMMA EscrowRosters ==
    ASSUME NEW d \in Descriptors, Coherent(d), d.epochs # <<>>, NEW kids \in SUBSET Kids
    PROVE  LET e == Escrowed(d, kids)
           IN /\ RosterOf(e) = [i \in DOMAIN RosterOf(d) |-> RosterOf(d)[i] \union kids]
              /\ IndexOf(e) = {roster \union kids : roster \in IndexOf(d)}
              /\ Newest(e).to = RosterOf(e)[Len(RosterOf(d))]
<1> DEFINE e == Escrowed(d, kids)
<1>1. /\ e \in Descriptors /\ e.epochs # <<>> /\ Len(e.epochs) = Len(d.epochs)
      /\ \A i \in DOMAIN d.epochs : e.epochs[i].to = d.epochs[i].to \union kids
      /\ e.hmac.id = d.hmac.id
      /\ (d.hmac.id # None => e.hmac.to = d.hmac.to \union kids)
  BY EscrowSound
<1> HIDE DEF e
<1>2. DOMAIN e.epochs = DOMAIN d.epochs /\ Len(e.epochs) \in DOMAIN e.epochs
  BY <1>1, EpochsLen
<1>3. /\ DOMAIN RosterOf(d) = DOMAIN d.epochs /\ Len(RosterOf(d)) = Len(d.epochs)
      /\ \A i \in DOMAIN d.epochs : RosterOf(d)[i] = d.epochs[i].to
  BY RosterSeq
<1>4. RosterOf(e) = [i \in DOMAIN RosterOf(d) |-> RosterOf(d)[i] \union kids]
  BY <1>1, <1>2, <1>3 DEF RosterOf
<1>5. Newest(e).to = RosterOf(e)[Len(RosterOf(d))]
  BY <1>1, <1>2, <1>3 DEF RosterOf, Newest
<1>6. IndexOf(e) = {roster \union kids : roster \in IndexOf(d)}
  BY <1>1 DEF IndexOf
<1> QED
  BY <1>4, <1>5, <1>6 DEF e

LEMMA AddChanges ==
    ASSUME NEW d \in Descriptors, Coherent(d), d.epochs # <<>>, NEW kids \in SUBSET Kids,
           NEW owner, ~EscrowRefused(d, kids, owner)
    PROVE  Changes(d, Escrowed(d, kids), owner, kids, {})
<1>1. RosterOf(d) # <<>>
  BY RosterSeq
<1>2. /\ \A i \in DOMAIN RosterOf(d) :
           kids \subseteq RosterOf(d)[i] \/ owner \in RosterOf(d)[i]
      /\ \A roster \in IndexOf(d) : kids \subseteq roster \/ owner \in roster
  BY GrantAllowed
<1> DEFINE e == Escrowed(d, kids)
<1>3. /\ RosterOf(e) = [i \in DOMAIN RosterOf(d) |-> RosterOf(d)[i] \union kids]
      /\ IndexOf(e) = {roster \union kids : roster \in IndexOf(d)}
  BY EscrowRosters
<1> HIDE DEF e
<1>4. IndexOf(e) = {(roster \union kids) \ {} : roster \in IndexOf(d)}
  BY <1>3
<1>5. Changes(d, e, owner, kids, {})
  BY <1>1, <1>2, <1>3, <1>4 DEF Changes
<1> QED
  BY <1>5 DEF e

LEMMA RosterAppend ==
    ASSUME NEW e \in Descriptors, NEW n \in Descriptors, NEW fresh \in Epochs,
           n.epochs = Append(e.epochs, fresh)
    PROVE  RosterOf(n) = Append(RosterOf(e), fresh.to)
<1>1. e.epochs \in Seq(Epochs) /\ Len(e.epochs) \in Nat
      /\ DOMAIN e.epochs = 1 .. Len(e.epochs)
  BY EpochsLen DEF Descriptors
<1>2. /\ Len(n.epochs) = Len(e.epochs) + 1
      /\ n.epochs[Len(e.epochs) + 1] = fresh
      /\ \A i \in 1 .. Len(e.epochs) : n.epochs[i] = e.epochs[i]
  BY <1>1, AppendProperties
<1>3. fresh.to \in SUBSET Kids
  BY DEF Epochs
<1>4. /\ RosterOf(e) \in Seq(SUBSET Kids) /\ Len(RosterOf(e)) = Len(e.epochs)
      /\ RosterOf(n) \in Seq(SUBSET Kids) /\ Len(RosterOf(n)) = Len(n.epochs)
      /\ \A i \in DOMAIN e.epochs : RosterOf(e)[i] = e.epochs[i].to
      /\ \A i \in DOMAIN n.epochs : RosterOf(n)[i] = n.epochs[i].to
  BY RosterSeq
<1>5. DOMAIN n.epochs = 1 .. Len(e.epochs) + 1
  BY <1>2, EpochsLen
<1> DEFINE m == Append(RosterOf(e), fresh.to)
<1>6. /\ m \in Seq(SUBSET Kids) /\ Len(m) = Len(e.epochs) + 1
      /\ m[Len(e.epochs) + 1] = fresh.to
      /\ \A i \in 1 .. Len(e.epochs) : m[i] = RosterOf(e)[i]
  BY <1>3, <1>4, AppendProperties
<1> HIDE DEF m
<1>7. \A i \in 1 .. Len(m) : m[i] = RosterOf(n)[i]
  <2> SUFFICES ASSUME NEW i \in 1 .. Len(e.epochs) + 1 PROVE m[i] = RosterOf(n)[i]
    BY <1>6
  <2>1. CASE i \in 1 .. Len(e.epochs)
    BY <1>1, <1>2, <1>4, <1>5, <1>6, <2>1
  <2>2. CASE i = Len(e.epochs) + 1
    BY <1>1, <1>2, <1>4, <1>5, <1>6, <2>2
  <2> QED
    BY <1>1, <2>1, <2>2
<1>8. m = RosterOf(n)
  BY <1>2, <1>4, <1>6, <1>7, SeqEqual
<1> QED
  BY <1>8 DEF m

LEMMA RotationChanges ==
    ASSUME NEW d \in Descriptors, Coherent(d), d.epochs # <<>>, NEW id \in Mints,
           Free(d, id), NEW kids \in SUBSET Kids, NEW retiring \in SUBSET Kids,
           NEW vouched \in SUBSET Kids, NEW owner,
           kids \intersect retiring = {},
           kids = {} \/ ~EscrowRefused(d, kids, owner),
           ~RotationRefused(d, id, retiring, kids, vouched)
    PROVE  Changes(d, RotatedOff(d, id, retiring, kids, vouched), owner, kids, retiring)
<1> DEFINE e == Escrowed(d, kids)
           n == RotatedOff(d, id, retiring, kids, vouched)
           fresh == FreshEpoch(e, id, retiring, kids, vouched)
           granted == [i \in DOMAIN RosterOf(d) |-> RosterOf(d)[i] \union kids]
<1>1. RosterOf(d) # <<>>
  BY RosterSeq
<1>2. /\ \A i \in DOMAIN RosterOf(d) :
           kids \subseteq RosterOf(d)[i] \/ owner \in RosterOf(d)[i]
      /\ \A roster \in IndexOf(d) : kids \subseteq roster \/ owner \in roster
  BY GrantAllowed
<1>3. /\ RosterOf(e) = granted /\ Newest(e).to = granted[Len(RosterOf(d))]
      /\ IndexOf(e) = {roster \union kids : roster \in IndexOf(d)}
  BY EscrowRosters
<1>4. e \in Descriptors /\ e.epochs # <<>>
  BY EscrowSound
<1>5. Rotates(d, id, retiring, kids, vouched)
  BY RotationSound
<1>6. /\ n \in Descriptors /\ n.hmac.id = e.hmac.id /\ n.hmac.to = e.hmac.to \ retiring
      /\ \/ /\ Newest(e).to \intersect retiring = {}
            /\ n.epochs = e.epochs
         \/ /\ Newest(e).to \intersect retiring # {}
            /\ n.epochs = Append(e.epochs, fresh)
            /\ fresh \in Epochs
            /\ fresh.to # {} /\ fresh.to \subseteq Newest(e).to \ retiring
  BY <1>5 DEF Rotates
<1> HIDE DEF e, n, fresh
<1>7. IndexOf(n) = {(roster \union kids) \ retiring : roster \in IndexOf(d)}
  <2>1. IndexOf(n) = {roster \ retiring : roster \in IndexOf(e)}
    <3>1. CASE e.hmac.id = None
      BY <1>6, <3>1 DEF IndexOf
    <3>2. CASE e.hmac.id # None
      BY <1>6, <3>2 DEF IndexOf
    <3> QED
      BY <3>1, <3>2
  <2>2. CASE IndexOf(d) = {}
    BY <1>3, <2>1, <2>2
  <2>3. CASE IndexOf(d) = {d.hmac.to}
    <3>1. IndexOf(e) = {d.hmac.to \union kids}
      BY <1>3, <2>3
    <3>2. IndexOf(n) = {(d.hmac.to \union kids) \ retiring}
      BY <2>1, <3>1
    <3> QED
      BY <2>3, <3>2
  <2> QED
    BY <2>2, <2>3 DEF IndexOf
<1>8. CASE /\ Newest(e).to \intersect retiring = {}
           /\ n.epochs = e.epochs
  <2>1. RosterOf(n) = granted
    BY <1>3, <1>8 DEF RosterOf
  <2>2. granted[Len(RosterOf(d))] \intersect retiring = {}
    BY <1>3, <1>8
  <2> QED
    BY <1>1, <1>2, <1>7, <2>1, <2>2 DEF Changes, n
<1>9. CASE /\ Newest(e).to \intersect retiring # {}
           /\ n.epochs = Append(e.epochs, fresh)
           /\ fresh \in Epochs
           /\ fresh.to # {} /\ fresh.to \subseteq Newest(e).to \ retiring
  <2>1. RosterOf(n) = Append(granted, fresh.to)
    <3>1. RosterOf(n) = Append(RosterOf(e), fresh.to)
      BY <1>4, <1>6, <1>9, RosterAppend
    <3> QED
      BY <1>3, <3>1
  <2>2. /\ granted[Len(RosterOf(d))] \intersect retiring # {}
        /\ fresh.to \subseteq granted[Len(RosterOf(d))] \ retiring
    BY <1>3, <1>9
  <2>3. fresh.to \in (SUBSET Kids) \ {{}}
    BY <1>9 DEF Epochs
  <2>4. \E kept \in (SUBSET Kids) \ {{}} :
          /\ kept \subseteq granted[Len(RosterOf(d))] \ retiring
          /\ RosterOf(n) = Append(granted, kept)
    BY <2>1, <2>2, <2>3
  <2> QED
    BY <1>1, <1>2, <1>7, <2>2, <2>4 DEF Changes, n
<1> QED
  BY <1>6, <1>8, <1>9

(* What a composed write does to the rosters.                              *)
RostersChange(d, n) ==
    \/ RosterOf(n) = RosterOf(d) /\ IndexOf(n) = IndexOf(d)
    \/ /\ RosterOf(d) = <<>>
       /\ \E kids \in (SUBSET Kids) \ {{}} :
            RosterOf(n) = <<kids>> /\ IndexOf(n) \in {{}, {kids}}
    \/ \E owner \in Kids, kids, gone \in SUBSET Kids : Changes(d, n, owner, kids, gone)

LEMMA RevisedChange ==
    ASSUME NEW c \in Calls, NEW d \in Descriptors, Sound(d), Composable(c, d),
           call[c].req \in RequestType, Admissible(call[c].req), Free(d, c)
    PROVE  RostersChange(d, Revised(c, d))
<1> DEFINE r == call[c].req
           n == Revised(c, d)
<1>1. /\ c \in Mints /\ r.kids \in SUBSET Kids /\ r.retiring \in SUBSET Kids
      /\ r.vouched \in SUBSET Kids /\ r.owner \in Kids \union {None}
  BY CallsMint DEF CallsMint, RequestType
<1>2. Coherent(d) /\ (d.epochs = <<>> => d = Seed)
  BY DEF Sound
<1>3. CASE MintsFirst(r.kind, d)
  <2> DEFINE hmac == IF r.blinded THEN [id |-> c, to |-> r.kids] ELSE NoHmac
  <2>1. d = Seed /\ r.kids # {} /\ d.epochs = <<>>
    BY <1>2, <1>3 DEF MintsFirst, Installs, Admissible, RemovalAdmissible
  <2>2. n = WithFirstEpoch(Seed, c, r.kids, hmac)
    BY <1>3, <2>1 DEF Revised, MintsFirst, Installs, Removals
  <2>3. hmac \in {NoHmac, [id |-> c, to |-> r.kids]}
    OBVIOUS
  <2>4. hmac.id # None => hmac.to = r.kids
    BY DEF NoHmac
  <2> HIDE DEF n, hmac
  <2>5. /\ n \in Descriptors /\ n.epochs = <<[id |-> c, to |-> r.kids]>>
        /\ n.hmac = hmac
    BY <1>1, <2>1, <2>2, <2>3, FirstSound
  <2>6. RosterOf(n) = <<r.kids>>
    <3>1. DOMAIN n.epochs = {1} /\ n.epochs[1].to = r.kids
      BY <2>5
    <3> QED
      BY <3>1 DEF RosterOf
  <2>7. IndexOf(n) \in {{}, {r.kids}}
    BY <2>4, <2>5 DEF IndexOf
  <2>8. RosterOf(d) = <<>>
    BY <2>1, RosterSeq
  <2>9. r.kids \in (SUBSET Kids) \ {{}}
    BY <1>1, <2>1
  <2>10. RostersChange(d, n)
    BY <2>6, <2>7, <2>8, <2>9 DEF RostersChange
  <2> QED
    BY <2>10 DEF n
<1>4. CASE ~MintsFirst(r.kind, d) /\ r.kind = "add"
  <2>1. d.epochs # <<>> /\ ~EscrowRefused(d, r.kids, r.owner)
    BY <1>4 DEF Composable, Installs
  <2>2. n = Escrowed(d, r.kids)
    BY <1>4 DEF Revised, Removals
  <2>3. r.owner \in Kids
    BY <1>1, <1>4 DEF Admissible, RemovalAdmissible
  <2>4. Changes(d, Escrowed(d, r.kids), r.owner, r.kids, {})
    BY <1>1, <1>2, <2>1, AddChanges
  <2> HIDE DEF n
  <2>5. Changes(d, n, r.owner, r.kids, {})
    BY <2>2, <2>4
  <2>6. RostersChange(d, n)
    BY <1>1, <2>3, <2>5 DEF RostersChange
  <2> QED
    BY <2>6 DEF n
<1>5. CASE ~MintsFirst(r.kind, d) /\ r.kind \in Removals
  <2>1. d.epochs # <<>> /\ ~RotationRefused(d, c, r.retiring, r.kids, r.vouched)
    BY <1>5 DEF Composable, Installs, Removals
  <2>2. n = RotatedOff(d, c, r.retiring, r.kids, r.vouched)
    BY <1>5 DEF Revised, Removals
  <2>3. /\ r.retiring # {} /\ r.kids \intersect r.retiring = {}
        /\ (r.kind # "replace" => r.kids = {})
        /\ (r.kind = "replace" => r.owner # None)
    BY <1>5 DEF Admissible, RemovalAdmissible, Removals
  <2>4. r.kind = "replace" => ~EscrowRefused(d, r.kids, r.owner)
    BY DEF Composable
  <2>5. PICK owner \in Kids : r.kids = {} \/ ~EscrowRefused(d, r.kids, owner)
    <3>1. CASE r.kind = "replace"
      BY <1>1, <2>3, <2>4, <3>1
    <3>2. CASE r.kind # "replace"
      BY <1>1, <2>3, <3>2
    <3> QED
      BY <3>1, <3>2
  <2>6. Changes(d, RotatedOff(d, c, r.retiring, r.kids, r.vouched), owner, r.kids, r.retiring)
    BY <1>1, <1>2, <2>1, <2>3, <2>5, RotationChanges
  <2> HIDE DEF n
  <2>7. Changes(d, n, owner, r.kids, r.retiring)
    BY <2>2, <2>6
  <2>8. RostersChange(d, n)
    BY <1>1, <2>7 DEF RostersChange
  <2> QED
    BY <2>8 DEF n
<1>6. CASE ~MintsFirst(r.kind, d) /\ r.kind # "add" /\ r.kind \notin Removals
  <2>1. n = d
    BY <1>6 DEF Revised
  <2> QED
    BY <2>1 DEF RostersChange
<1> QED
  BY <1>3, <1>4, <1>5, <1>6

(* A write that is applied makes one such change.                          *)
LEMMA WriteCustody ==
    ASSUME IInv, NEW c \in Calls, ServeWrite(c), ~UNCHANGED <<hist, stored>>
    PROVE  [Custody!Next]_<<Rosters, IndexRoster>>
<1> DEFINE d == Current(stored)
           n == Revised(c, d)
<1>1. pc[c] = "write" /\ Precondition(c) = stored
  BY DEF ServeWrite
<1>2. call[c].seen = stored
  BY <1>1 DEF Precondition
<1>3. hist' = Append(hist, [declared |-> TRUE, desc |-> n,
                            conf |-> described[StoreOf[c]], by |-> c])
      /\ stored' = Len(hist')
  BY <1>2 DEF ServeWrite
<1>4. call[c].req \in RequestType /\ Admissible(call[c].req)
  BY <1>1, RequestTyped DEF IInv, Prepared
<1>5. d \in Descriptors /\ Sound(d) /\ Composable(c, d) /\ Free(d, c) /\ n \in Descriptors
  BY <1>1, <1>2, WrittenSound
<1>6. RostersChange(d, n)
  BY <1>4, <1>5, RevisedChange
<1>7. described[StoreOf[c]] \in Confs \union {None}
  BY StoresGiven DEF IInv, TypeOK, StoresGiven
<1>8. Rosters = RosterOf(d) /\ IndexRoster = IndexOf(d)
  BY RostersStored
<1> HIDE DEF n, d
<1>9. stored' # 0 /\ hist'[stored'].desc = n
  <2> DEFINE object == [declared |-> TRUE, desc |-> n,
                        conf |-> described[StoreOf[c]], by |-> c]
  <2>1. object \in Entries /\ object.desc = n
    BY <1>5, <1>7 DEF Entries
  <2>2. TypeOK /\ hist' = Append(hist, object) /\ stored' = Len(hist')
    BY <1>3 DEF IInv
  <2> HIDE DEF object
  <2>3. /\ Len(hist') = Len(hist) + 1 /\ Len(hist) \in Nat
        /\ hist'[Len(hist')] = object
    BY <2>1, <2>2, AppendKept
  <2> QED
    BY <2>1, <2>2, <2>3
<1>10. Rosters' = RosterOf(n) /\ IndexRoster' = IndexOf(n)
  BY <1>9 DEF Rosters, IndexRoster, RosterOf, IndexOf
<1>11. CASE RosterOf(n) = RosterOf(d) /\ IndexOf(n) = IndexOf(d)
  BY <1>8, <1>10, <1>11
<1>12. CASE /\ RosterOf(d) = <<>>
            /\ \E kids \in (SUBSET Kids) \ {{}} :
                 RosterOf(n) = <<kids>> /\ IndexOf(n) \in {{}, {kids}}
  BY <1>8, <1>10, <1>12 DEF Custody!Next, Custody!Found, Custody!Rosters
<1>13. CASE \E owner \in Kids, kids, gone \in SUBSET Kids : Changes(d, n, owner, kids, gone)
  <2>1. PICK owner \in Kids, kids \in SUBSET Kids, gone \in SUBSET Kids :
          Changes(d, n, owner, kids, gone)
    BY <1>13
  <2>2. Custody!Change(owner, kids, gone)
    BY <1>8, <1>10, <2>1
       DEF Changes, Custody!Change, Custody!CanGrant, Custody!Rosters
  <2> QED
    BY <2>2 DEF Custody!Next
<1> QED
  BY <1>6, <1>11, <1>12, <1>13 DEF RostersChange

LEMMA StepCustody ==
    ASSUME IInv, [Next]_vars
    PROVE  [Custody!Next]_<<Rosters, IndexRoster>>
<1>1. CASE UNCHANGED <<hist, stored>>
  BY <1>1 DEF Rosters, IndexRoster
<1>2. CASE ~UNCHANGED <<hist, stored>>
  <2>1. PICK c \in Calls : Step(c)
    BY <1>2 DEF Next, Quiet, vars
  <2>2. CASE ServeWrite(c)
    BY <1>2, <2>2, WriteCustody
  <2>3. CASE Configure(c)
    <3> DEFINE object == [hist[stored] EXCEPT !.conf = call[c].req.conf, !.by = c]
    <3>1. stored # 0 /\ hist' = Append(hist, object) /\ stored' = Len(hist')
      BY <1>2, <2>3 DEF Configure
    <3>2. object \in Entries /\ object.desc = hist[stored].desc
      <4>1. stored \in DOMAIN hist /\ hist[stored] \in Entries
        BY <3>1, LenProperties, ElementOfSeq DEF IInv, TypeOK, Versions
      <4>2. call[c].req \in RequestType
        BY RequestTyped DEF IInv
      <4> QED
        BY <4>1, <4>2 DEF Entries, RequestType
    <3>3. TypeOK
      BY DEF IInv
    <3> HIDE DEF object
    <3>4. /\ Len(hist') = Len(hist) + 1 /\ Len(hist) \in Nat
          /\ hist'[Len(hist')] = object
      BY <3>1, <3>2, <3>3, AppendKept
    <3>5. stored' # 0 /\ hist'[stored'].desc = hist[stored].desc
      BY <3>1, <3>2, <3>4
    <3> QED
      BY <3>1, <3>5 DEF Rosters, IndexRoster
  <2> QED
    BY <1>2, <2>1, <2>2, <2>3 DEF Step, Start, ServeRead, GotRead, Observed, Lose, Pull
<1> QED
  BY <1>1, <1>2

(* Every interleaving of the calls amounts to whole grants and departures, *)
(* one at a time, each grant made by a holder of the keys it hands on.     *)
THEOREM KeysStayInCustody == Spec => KeysInCustody
<1>1. IInv /\ [Next]_vars => [Custody!Next]_<<Rosters, IndexRoster>>
  BY StepCustody
<1> QED
  BY <1>1, InitCustody, Inductive, PTL DEF Spec, KeysInCustody, Custody!Spec

(* What KeyCustody promises keeps its own rosters nested.                  *)
LEMMA ChangeNested ==
    ASSUME NEW held \in Seq((SUBSET Kids) \ {{}}), held # <<>>,
           \A i, j \in DOMAIN held : i <= j => held[j] \subseteq held[i],
           NEW index, \A roster \in index : held[Len(held)] \subseteq roster,
           NEW kids \in SUBSET Kids, NEW gone \in SUBSET Kids, kids \intersect gone = {},
           NEW next, NEW granted \in [DOMAIN held -> SUBSET Kids],
           \A i \in DOMAIN held : granted[i] = held[i] \union kids,
           \/ /\ granted[Len(held)] \intersect gone = {}
              /\ next = granted
           \/ \E kept \in (SUBSET Kids) \ {{}} :
                kept \subseteq granted[Len(held)] \ gone /\ next = Append(granted, kept)
    PROVE  /\ next \in Seq((SUBSET Kids) \ {{}})
           /\ \A i, j \in DOMAIN next : i <= j => next[j] \subseteq next[i]
           /\ \A roster \in index : next[Len(next)] \subseteq (roster \union kids) \ gone
<1> DEFINE Kept == (SUBSET Kids) \ {{}}
           last == Len(held)
<1>1. /\ last \in Nat \ {0} /\ DOMAIN held = 1 .. last
      /\ \A i \in 1 .. last : held[i] \in Kept
  BY EmptySeq, LenProperties
<1>2. granted \in [1 .. last -> Kept]
  BY <1>1
<1>3. granted \in Seq(Kept) /\ Len(granted) = last /\ DOMAIN granted = 1 .. last
  BY <1>1, <1>2, SeqDef, LenProperties
<1>4. \A i, j \in 1 .. last : i <= j => granted[j] \subseteq granted[i]
  BY <1>1
<1>5. \A roster \in index : granted[last] \subseteq roster \union kids
  BY <1>1
<1> HIDE DEF Kept, last
<1>6. ASSUME granted[last] \intersect gone = {}, next = granted
      PROVE  /\ next \in Seq(Kept)
             /\ \A i, j \in DOMAIN next : i <= j => next[j] \subseteq next[i]
             /\ \A roster \in index : next[Len(next)] \subseteq (roster \union kids) \ gone
  <2>1. next \in Seq(Kept) /\ Len(next) = last /\ DOMAIN next = 1 .. last
    BY <1>3, <1>6
  <2>2. \A roster \in index : granted[last] \subseteq (roster \union kids) \ gone
    BY <1>5, <1>6
  <2>3. next[Len(next)] = granted[last]
    BY <1>6, <2>1
  <2>4. \A i, j \in DOMAIN next : i <= j => next[j] \subseteq next[i]
    <3> SUFFICES ASSUME NEW i \in 1 .. last, NEW j \in 1 .. last, i <= j PROVE next[j] \subseteq next[i]
      BY <2>1
    <3>1. granted[j] \subseteq granted[i]
      BY <1>4
    <3> QED
      BY <1>6, <3>1, Zenon
  <2> QED
    BY <2>1, <2>2, <2>3, <2>4
<1>7. ASSUME NEW kept \in Kept, kept \subseteq granted[last] \ gone, next = Append(granted, kept)
      PROVE  /\ next \in Seq(Kept)
             /\ \A i, j \in DOMAIN next : i <= j => next[j] \subseteq next[i]
             /\ \A roster \in index : next[Len(next)] \subseteq (roster \union kids) \ gone
  <2>1. /\ next \in Seq(Kept) /\ Len(next) = last + 1 /\ DOMAIN next = 1 .. last + 1
        /\ next[last + 1] = kept /\ \A i \in 1 .. last : next[i] = granted[i]
    <3>1. /\ next \in Seq(Kept) /\ Len(next) = last + 1
          /\ next[last + 1] = kept /\ \A i \in 1 .. last : next[i] = granted[i]
      BY <1>3, <1>7, AppendProperties
    <3> QED
      BY <3>1, LenProperties
  <2>2. \A i \in 1 .. last : kept \subseteq granted[i]
    <3> SUFFICES ASSUME NEW i \in 1 .. last PROVE kept \subseteq granted[i]
      OBVIOUS
    <3>1. last \in 1 .. last /\ i <= last
      BY <1>1
    <3>2. granted[last] \subseteq granted[i]
      BY <1>4, <3>1
    <3> QED
      BY <1>7, <3>2
  <2>3. ASSUME NEW i \in 1 .. last + 1, NEW j \in 1 .. last + 1, i <= j
        PROVE  next[j] \subseteq next[i]
    <3>1. j = last + 1 \/ (i \in 1 .. last /\ j \in 1 .. last)
      BY <1>1, <2>3
    <3>2. i = last + 1 \/ i \in 1 .. last
      BY <1>1
    <3> QED
      BY <1>1, <1>4, <2>1, <2>2, <2>3, <3>1, <3>2
  <2>4. \A roster \in index : kept \subseteq (roster \union kids) \ gone
    BY <1>5, <1>7
  <2>5. next[Len(next)] = kept
    BY <2>1
  <2>6. \A i, j \in DOMAIN next : i <= j => next[j] \subseteq next[i]
    BY <2>1, <2>3
  <2> QED
    BY <2>1, <2>4, <2>5, <2>6
<1>8. \/ granted[last] \intersect gone = {} /\ next = granted
      \/ \E kept \in Kept : kept \subseteq granted[last] \ gone /\ next = Append(granted, kept)
  BY DEF Kept, last
<1>9. /\ next \in Seq(Kept)
      /\ \A i, j \in DOMAIN next : i <= j => next[j] \subseteq next[i]
      /\ \A roster \in index : next[Len(next)] \subseteq (roster \union kids) \ gone
  BY <1>6, <1>7, <1>8, Zenon
<1> QED
  BY <1>9 DEF Kept

LEMMA CustodyNested ==
    Custody!Nested /\ [Custody!Next]_<<Rosters, IndexRoster>> => Custody!Nested'
<1> SUFFICES ASSUME Custody!Nested, [Custody!Next]_<<Rosters, IndexRoster>> PROVE Custody!Nested'
  OBVIOUS
<1> DEFINE held == Rosters
           next == Rosters'
           index == IndexRoster
<1>1. /\ held \in Seq((SUBSET Kids) \ {{}})
      /\ \A i, j \in DOMAIN held : i <= j => held[j] \subseteq held[i]
      /\ held # <<>> => \A roster \in index : held[Len(held)] \subseteq roster
  BY DEF Custody!Nested, Custody!Rosters, Custody!Newest
<1>2. SUFFICES /\ next \in Seq((SUBSET Kids) \ {{}})
               /\ \A i, j \in DOMAIN next : i <= j => next[j] \subseteq next[i]
               /\ next # <<>> => \A roster \in IndexRoster' : next[Len(next)] \subseteq roster
  BY DEF Custody!Nested, Custody!Rosters, Custody!Newest
<1>3. CASE UNCHANGED <<Rosters, IndexRoster>>
  BY <1>1, <1>3
<1>4. CASE Custody!Found
  <2>1. PICK kids \in (SUBSET Kids) \ {{}} : next = <<kids>> /\ IndexRoster' \in {{}, {kids}}
    BY <1>4 DEF Custody!Found, Custody!Rosters
  <2>2. /\ next \in Seq((SUBSET Kids) \ {{}}) /\ Len(next) = 1 /\ DOMAIN next = {1} /\ next[1] = kids
    BY <2>1
  <2> HIDE DEF next
  <2> QED
    BY <2>1, <2>2
<1>5. ASSUME NEW owner \in Kids, NEW kids \in SUBSET Kids, NEW gone \in SUBSET Kids,
             Custody!Change(owner, kids, gone)
      PROVE  /\ next \in Seq((SUBSET Kids) \ {{}})
             /\ \A i, j \in DOMAIN next : i <= j => next[j] \subseteq next[i]
             /\ \A roster \in IndexRoster' : next[Len(next)] \subseteq roster
  <2> DEFINE granted == [i \in DOMAIN held |-> held[i] \union kids]
  <2>1. /\ held # <<>> /\ kids \intersect gone = {}
        /\ IndexRoster' = {(roster \union kids) \ gone : roster \in index}
        /\ \/ /\ granted[Len(held)] \intersect gone = {}
              /\ next = granted
           \/ \E kept \in (SUBSET Kids) \ {{}} :
                kept \subseteq granted[Len(held)] \ gone /\ next = Append(granted, kept)
    BY <1>5 DEF Custody!Change, Custody!Rosters
  <2>2. granted \in [DOMAIN held -> SUBSET Kids] /\ \A i \in DOMAIN held : granted[i] = held[i] \union kids
    <3>1. DOMAIN held = 1 .. Len(held) /\ \A i \in DOMAIN held : held[i] \in SUBSET Kids
      BY <1>1, LenProperties
    <3> HIDE DEF held
    <3> QED
      BY <3>1
  <2>3. /\ held \in Seq((SUBSET Kids) \ {{}})
        /\ \A i, j \in DOMAIN held : i <= j => held[j] \subseteq held[i]
        /\ \A roster \in index : held[Len(held)] \subseteq roster
    BY <1>1, <2>1
  <2> HIDE DEF held, next, index, granted
  <2>4. /\ next \in Seq((SUBSET Kids) \ {{}})
        /\ \A i, j \in DOMAIN next : i <= j => next[j] \subseteq next[i]
        /\ \A roster \in index : next[Len(next)] \subseteq (roster \union kids) \ gone
    BY <2>1, <2>2, <2>3, ChangeNested
  <2> QED
    BY <2>1, <2>4
<1> QED
  BY <1>3, <1>4, <1>5 DEF Custody!Next

(* Whoever can open what is sealed next can open everything before it, and *)
(* search: of every behaviour that keeps KeyCustody's promise, by itself.  *)
THEOREM CustodyKeepsHistory == KeysInCustody => []Custody!Nested
<1>1. Custody!Init => Custody!Nested
  BY DEF Custody!Init
<1> QED
  BY <1>1, CustodyNested, PTL DEF KeysInCustody, Custody!Spec

-----------------------------------------------------------------------------
(* One first epoch, and removals: the descriptors stored one after the     *)
(* other, the calls that wrote them, and what has been revoked.            *)

(* Who can unwrap what is sealed next.                                     *)
HoldersOf(d) == IF d.epochs = <<>> THEN {} ELSE CurrentEpochOf(d).to

(* Every object but the first was stored by a call that has begun, and the *)
(* newest object is the stored one.                                        *)
Recorded ==
    /\ stored = Len(hist)
    /\ \A v \in DOMAIN hist : v > 1 => hist[v].by \in Calls /\ pc[hist[v].by] # "idle"

(* A later object keeps the first epoch of an earlier one ...              *)
FirstKept(v, u) ==
    hist[v].desc.epochs # <<>> => hist[u].desc.epochs # <<>> /\ First(u) = First(v)

(* ... and whoever holds it, and did not hold the earlier one, was named   *)
(* by a call that wrote in between.                                        *)
Introduced(v, u) ==
    \A kid \in Holders(u) \ Holders(v) :
      \E w \in v + 1 .. u : kid \in call[hist[w].by].req.kids

Grown == \A u \in DOMAIN hist : \A v \in 1 .. u : FirstKept(v, u) /\ Introduced(v, u)

(* A capability was revoked after a descriptor without its readers.        *)
RotatedFor(c, z) ==
    /\ Removes(c) /\ z \in call[c].req.zcaps
    /\ call[c].req.retiring \intersect Holders(call[c].ack) = {}

Durable == \A z \in revoked : \E c \in Calls : RotatedFor(c, z)

(* Where a call is, against the version it resolved to and what it has     *)
(* revoked.                                                                *)
Resolved(c) ==
    /\ call[c].ack # 0 =>
         /\ pc[c] \in {"pull", "returned", "thrown"}
         /\ hist[call[c].ack].desc.epochs # <<>>
    /\ call[c].pending # {} => call[c].ack # 0
    /\ call[c].pending \subseteq call[c].req.zcaps
    /\ pc[c] = "pull" => call[c].ack # 0
    /\ pc[c] = "returned" => call[c].pending = {}
    /\ pc[c] = "returned" /\ call[c].req.kind # "configure" => call[c].ack # 0
    /\ pc[c] = "configure" => call[c].req.kind = "configure"
    /\ call[c].ack # 0 /\ pc[c] # "thrown" =>
         call[c].req.zcaps \ call[c].pending \subseteq revoked

(* What an install found, or is about to store.                            *)
Adopts(c) ==
    call[c].req.kind \in Installs =>
      /\ pc[c] = "write" =>
           call[c].installed /\ MintsFirst(call[c].req.kind, Current(call[c].seen))
      /\ call[c].ack # 0 =>
           /\ call[c].installed <=> First(call[c].ack) = c
           /\ call[c].req.blinded => hist[call[c].ack].desc.hmac.id # None

(* A removal that has resolved has a descriptor without its readers.       *)
Removed(c) ==
    Removes(c) => call[c].req.retiring \intersect Holders(call[c].ack) = {}

Told(c) == Resolved(c) /\ Adopts(c) /\ Removed(c)

RInv == Recorded /\ Grown /\ Durable /\ \A c \in Calls : Told(c)
-----------------------------------------------------------------------------
(* What the edits of a descriptor do to its holders and its first epoch.   *)

LEMMA HoldersNewest ==
    ASSUME NEW d \in Descriptors, Coherent(d)
    PROVE  HoldersOf(d) = IF d.epochs = <<>> THEN {} ELSE Newest(d).to
  BY CurrentIsNewest DEF HoldersOf

(* Appending an epoch leaves the first one in its place.                   *)
LEMMA FirstStays ==
    ASSUME NEW d \in Descriptors, d.epochs # <<>>, NEW fresh
    PROVE  LET es == Append(d.epochs, fresh)
           IN 1 \in DOMAIN d.epochs /\ es[1] = d.epochs[1]
<1>1. d.epochs \in Seq(Epochs) /\ Len(d.epochs) \in Nat /\ Len(d.epochs) \in DOMAIN d.epochs
      /\ DOMAIN d.epochs = 1 .. Len(d.epochs)
  BY EpochsLen DEF Descriptors
<1>2. 1 \in 1 .. Len(d.epochs)
  BY <1>1
<1> QED
  BY <1>1, <1>2

(* Whoever a composed descriptor lets in, its call names; it keeps the     *)
(* first epoch, or mints it; and a removal leaves its readers out.         *)
Keeps(c, d, n) ==
    LET r == call[c].req
    IN /\ HoldersOf(n) \subseteq HoldersOf(d) \union r.kids
       /\ d.epochs # <<>> => n.epochs # <<>> /\ n.epochs[1].id = d.epochs[1].id
       /\ r.kind \in Removals => r.retiring \intersect HoldersOf(n) = {}
       /\ MintsFirst(r.kind, d) =>
            /\ n.epochs # <<>> /\ n.epochs[1].id = c
            /\ r.blinded => n.hmac.id # None

LEMMA RevisedKeeps ==
    ASSUME NEW c \in Calls, NEW d \in Descriptors, Sound(d), Composable(c, d),
           call[c].req \in RequestType, Admissible(call[c].req), Free(d, c)
    PROVE  Keeps(c, d, Revised(c, d))
<1> DEFINE r == call[c].req
           n == Revised(c, d)
<1>1. /\ c \in Mints /\ c # None /\ r.kids \in SUBSET Kids /\ r.retiring \in SUBSET Kids
      /\ r.vouched \in SUBSET Kids
  BY CallsMint, NoneMintsNothing DEF CallsMint, NoneMintsNothing, RequestType
<1>2. Coherent(d) /\ (d.epochs = <<>> => d = Seed)
  BY DEF Sound
<1>3. n \in Descriptors /\ Sound(n)
  BY RevisedSound
<1>4. HoldersOf(n) = IF n.epochs = <<>> THEN {} ELSE Newest(n).to
  BY <1>3, HoldersNewest DEF Sound
<1>5. HoldersOf(d) = IF d.epochs = <<>> THEN {} ELSE Newest(d).to
  BY <1>2, HoldersNewest
<1>6. CASE MintsFirst(r.kind, d)
  <2> DEFINE hmac == IF r.blinded THEN [id |-> c, to |-> r.kids] ELSE NoHmac
  <2>1. d = Seed /\ r.kids # {} /\ d.epochs = <<>> /\ r.kind \notin Removals
    BY <1>2, <1>6 DEF MintsFirst, Installs, Admissible, RemovalAdmissible, Removals
  <2>2. n = WithFirstEpoch(Seed, c, r.kids, hmac)
    BY <1>6, <2>1 DEF Revised, MintsFirst, Installs, Removals
  <2>3. hmac \in {NoHmac, [id |-> c, to |-> r.kids]} /\ (r.blinded => hmac.id = c)
    OBVIOUS
  <2> HIDE DEF n, hmac
  <2>4. n.epochs = <<[id |-> c, to |-> r.kids]>> /\ n.hmac = hmac
    BY <1>1, <2>1, <2>2, <2>3, FirstSound
  <2>5. n.epochs # <<>> /\ Newest(n).to = r.kids /\ n.epochs[1].id = c
    BY <2>4 DEF Newest
  <2>6. r.blinded => n.hmac.id # None
    BY <1>1, <2>3, <2>4
  <2>7. HoldersOf(n) \subseteq HoldersOf(d) \union r.kids
    BY <1>4, <2>5
  <2>8. Keeps(c, d, n)
    BY <2>1, <2>5, <2>6, <2>7 DEF Keeps
  <2> QED
    BY <2>8 DEF n
<1>7. CASE ~MintsFirst(r.kind, d) /\ r.kind = "add"
  <2>1. d.epochs # <<>> /\ r.kind \notin Removals
    BY <1>7 DEF Composable, Installs, Removals
  <2>2. n = Escrowed(d, r.kids)
    BY <1>7, <2>1 DEF Revised
  <2> HIDE DEF n
  <2>3. /\ n.epochs # <<>> /\ Len(n.epochs) = Len(d.epochs)
        /\ \A i \in DOMAIN d.epochs :
             /\ n.epochs[i].id = d.epochs[i].id
             /\ n.epochs[i].to = d.epochs[i].to \union r.kids
    BY <1>1, <1>2, <2>1, <2>2, EscrowSound
  <2>4. Len(d.epochs) \in DOMAIN d.epochs /\ 1 \in DOMAIN d.epochs
    BY <2>1, EpochsLen, FirstStays
  <2>5. Newest(n).to = Newest(d).to \union r.kids /\ n.epochs[1].id = d.epochs[1].id
    BY <2>3, <2>4 DEF Newest
  <2>6. Keeps(c, d, n)
    BY <1>4, <1>5, <1>7, <2>1, <2>3, <2>5 DEF Keeps
  <2> QED
    BY <2>6 DEF n
<1>8. CASE ~MintsFirst(r.kind, d) /\ r.kind \in Removals
  <2> DEFINE e == Escrowed(d, r.kids)
             fresh == FreshEpoch(e, c, r.retiring, r.kids, r.vouched)
  <2>1. d.epochs # <<>> /\ ~RotationRefused(d, c, r.retiring, r.kids, r.vouched)
    BY <1>8 DEF Composable, Installs, Removals
  <2>2. n = RotatedOff(d, c, r.retiring, r.kids, r.vouched)
    BY <1>8 DEF Revised, Removals
  <2>3. Rotates(d, c, r.retiring, r.kids, r.vouched)
    BY <1>1, <1>2, <2>1, RotationSound
  <2> HIDE DEF n
  <2>4. /\ n.epochs # <<>>
        /\ \/ Newest(e).to \intersect r.retiring = {} /\ n.epochs = e.epochs
           \/ /\ n.epochs = Append(e.epochs, fresh) /\ fresh \in Epochs
              /\ fresh.to \subseteq Newest(e).to \ r.retiring
    BY <2>2, <2>3 DEF Rotates
  <2>5. /\ e \in Descriptors /\ e.epochs # <<>> /\ Len(e.epochs) = Len(d.epochs)
        /\ \A i \in DOMAIN d.epochs :
             /\ e.epochs[i].id = d.epochs[i].id
             /\ e.epochs[i].to = d.epochs[i].to \union r.kids
    BY <1>1, <1>2, <2>1, EscrowSound
  <2> HIDE DEF e, fresh
  <2>6. Len(d.epochs) \in DOMAIN d.epochs /\ 1 \in DOMAIN d.epochs
    BY <2>1, EpochsLen, FirstStays
  <2>7. Newest(e).to = Newest(d).to \union r.kids /\ e.epochs[1].id = d.epochs[1].id
    BY <2>5, <2>6 DEF Newest
  <2>8. CASE Newest(e).to \intersect r.retiring = {} /\ n.epochs = e.epochs
    <3>1. Newest(n).to = Newest(e).to /\ n.epochs[1].id = d.epochs[1].id
      BY <2>7, <2>8 DEF Newest
    <3>2. Keeps(c, d, n)
      BY <1>4, <1>5, <1>8, <2>1, <2>4, <2>7, <2>8, <3>1 DEF Keeps
    <3> QED
      BY <3>2 DEF n
  <2>9. CASE /\ n.epochs = Append(e.epochs, fresh) /\ fresh \in Epochs
             /\ fresh.to \subseteq Newest(e).to \ r.retiring
    <3>1. n.epochs[1].id = d.epochs[1].id
      BY <2>5, <2>7, <2>9, FirstStays
    <3>2. Newest(n) = fresh
      <4>1. e.epochs \in Seq(Epochs)
        BY <2>5 DEF Descriptors
      <4> QED
        BY <2>9, <4>1, AppendProperties DEF Newest
    <3>3. Keeps(c, d, n)
      BY <1>4, <1>5, <1>8, <2>1, <2>4, <2>7, <2>9, <3>1, <3>2 DEF Keeps
    <3> QED
      BY <3>3 DEF n
  <2> QED
    BY <2>4, <2>8, <2>9
<1>9. CASE ~MintsFirst(r.kind, d) /\ r.kind # "add" /\ r.kind \notin Removals
  <2>1. n = d
    BY <1>9 DEF Revised
  <2> QED
    BY <1>9, <2>1 DEF Keeps
<1> QED
  BY <1>6, <1>7, <1>8, <1>9
-----------------------------------------------------------------------------
(* What a step of one call does, as the others see it.                     *)

(* The object a write adds.                                                *)
Adds(c, object) ==
    /\ object \in Entries /\ object.by = c /\ pc[c] # "idle"
    /\ hist' = Append(hist, object) /\ stored' = Len(hist')
    /\ HoldersOf(object.desc) \subseteq HoldersOf(Current(stored)) \union call[c].req.kids
    /\ Current(stored).epochs # <<>> =>
         /\ object.desc.epochs # <<>>
         /\ object.desc.epochs[1].id = Current(stored).epochs[1].id

Grows(c) == UNCHANGED <<hist, stored>> \/ \E object \in Entries : Adds(c, object)

(* A call that has begun keeps its request, and its result once it has it. *)
Going(c) ==
    /\ pc[c] # "idle" => pc'[c] # "idle" /\ call'[c].req = call[c].req
    /\ call[c].ack # 0 => call'[c].ack = call[c].ack

(* A revocation is one the call had in flight.                             *)
Revokes(c) == revoked' = revoked \/ \E z \in call[c].pending : revoked' = revoked \union {z}

Progress(c) == Grows(c) /\ Going(c) /\ Revokes(c) /\ Told(c)'

LEMMA Moves ==
    ASSUME TypeOK, NEW c \in Calls, NEW label, NEW k,
           Goto(c, label), call' = [call EXCEPT ![c] = k]
    PROVE  pc'[c] = label /\ call'[c] = k
  BY DEF TypeOK, Goto

LEMMA ThrowMoves ==
    ASSUME TypeOK, NEW c \in Calls, Throw(c)
    PROVE  pc'[c] = "thrown" /\ call'[c] = call[c]
  BY DEF TypeOK, Goto, Throw

(* A call that has not resolved yet has no result and revokes nothing.     *)
LEMMA Unresolved ==
    ASSUME RInv, NEW c \in Calls, pc[c] \in {"idle", "configure", "read", "got", "write"}
    PROVE  call[c].ack = 0 /\ call[c].pending = {}
  BY DEF RInv, Told, Resolved

(* A call without a result, that is not about to write.                    *)
LEMMA WithoutResult ==
    ASSUME NEW c \in Calls, call'[c].ack = 0, call'[c].pending = {},
           pc'[c] \in {"configure", "read", "got", "thrown", "returned"},
           pc'[c] \in {"configure", "returned"} => call'[c].req.kind = "configure"
    PROVE  Told(c)'
<1>1. Resolved(c)'
  BY DEF Resolved
<1>2. Adopts(c)'
  BY DEF Adopts
<1>3. Removed(c)'
  BY DEF Removed, Removes
<1> QED
  BY <1>1, <1>2, <1>3 DEF Told

(* A call that resolves to version v.                                      *)
LEMMA Settles ==
    ASSUME TypeOK, NEW c \in Calls, NEW k, NEW v, v # 0, Settle(c, k, v),
           DOMAIN k = {"req", "seen", "reread", "installed", "tries", "ack", "pending"},
           hist'[v].desc.epochs # <<>>,
           k.req.kind \in Installs =>
             /\ k.installed <=> hist'[v].desc.epochs[1].id = c
             /\ k.req.blinded => hist'[v].desc.hmac.id # None,
           k.req.kind \in Removals =>
             k.req.retiring \intersect HoldersOf(hist'[v].desc) = {}
    PROVE  Told(c)' /\ pc'[c] \in {"returned", "pull"} /\ call'[c].req = k.req
<1> DEFINE n == [k EXCEPT !.ack = v, !.pending = k.req.zcaps]
           label == IF k.req.zcaps = {} THEN "returned" ELSE "pull"
<1>1. pc'[c] = label /\ call'[c] = n
  BY Moves DEF Settle
<1>2. n.req = k.req /\ n.ack = v /\ n.pending = k.req.zcaps /\ n.installed = k.installed
  OBVIOUS
<1> HIDE DEF n
<1>3. Resolved(c)'
  BY <1>1, <1>2 DEF Resolved
<1>4. Adopts(c)'
  BY <1>1, <1>2 DEF Adopts, First
<1>5. Removed(c)'
  BY <1>1, <1>2 DEF Removed, Removes, Holders, HoldersOf
<1> QED
  BY <1>1, <1>2, <1>3, <1>4, <1>5 DEF Told
-----------------------------------------------------------------------------
(* One lemma per step.                                                     *)

LEMMA StartTold ==
    ASSUME IInv, RInv, NEW c \in Calls, Start(c)
    PROVE  Progress(c)
<1>1. TypeOK
  BY DEF IInv
<1>2. pc[c] = "idle" /\ UNCHANGED <<hist, stored, revoked>>
  BY DEF Start
<1>3. PICK req \in RequestsOf[c] :
         /\ Goto(c, IF req.kind = "configure" THEN "configure" ELSE "read")
         /\ call' = [call EXCEPT ![c] = Locals(req)]
  BY DEF Start
<1> DEFINE label == IF req.kind = "configure" THEN "configure" ELSE "read"
<1>4. pc'[c] = label /\ call'[c] = Locals(req)
  BY <1>1, <1>3, Moves
<1>5. call'[c].ack = 0 /\ call'[c].pending = {} /\ call'[c].req = req
  BY <1>4 DEF Locals
<1>6. Told(c)'
  BY <1>4, <1>5, WithoutResult
<1>7. Going(c)
  BY <1>2, Unresolved DEF Going
<1> QED
  BY <1>2, <1>6, <1>7 DEF Progress, Grows, Revokes

LEMMA ServeReadTold ==
    ASSUME IInv, RInv, NEW c \in Calls, ServeRead(c)
    PROVE  Progress(c)
<1> DEFINE v == IF call[c].req.masked THEN 0 ELSE stored
           k == [call[c] EXCEPT !.seen = v]
<1>1. TypeOK /\ call[c] \in CallType
  BY RequestTyped DEF IInv
<1>2. pc[c] = "read" /\ UNCHANGED <<hist, stored, revoked>>
  BY DEF ServeRead
<1>3. call[c].ack = 0 /\ call[c].pending = {}
  BY <1>2, Unresolved
<1>4. call' = [call EXCEPT ![c] = k] /\ Goto(c, "got")
  BY DEF ServeRead
<1>5. k.req = call[c].req /\ k.ack = call[c].ack /\ k.pending = call[c].pending
  BY <1>1 DEF CallType
<1> HIDE DEF k
<1>6. pc'[c] = "got" /\ call'[c] = k
  BY <1>1, <1>4, Moves
<1>7. Told(c)'
  BY <1>3, <1>5, <1>6, WithoutResult
<1> QED
  BY <1>2, <1>5, <1>6, <1>7 DEF Progress, Going, Grows, Revokes

(* A call that throws before it has resolved.                              *)
LEMMA ThrowTold ==
    ASSUME IInv, RInv, NEW c \in Calls, pc[c] \in {"configure", "read", "got", "write"}, Throw(c),
           UNCHANGED revoked, Grows(c)
    PROVE  Progress(c)
<1>1. call[c].ack = 0 /\ call[c].pending = {}
  BY Unresolved
<1>2. pc'[c] = "thrown" /\ call'[c] = call[c]
  BY ThrowMoves DEF IInv
<1>3. Told(c)'
  BY <1>1, <1>2, WithoutResult
<1> QED
  BY <1>2, <1>3 DEF Progress, Going, Revokes

LEMMA LoseTold ==
    ASSUME IInv, RInv, NEW c \in Calls, Lose(c)
    PROVE  Progress(c)
  BY ThrowTold DEF Lose, Grows

(* The read settles.                                                       *)
LEMMA GotReadTold ==
    ASSUME IInv, RInv, NEW c \in Calls, GotRead(c)
    PROVE  Progress(c)
<1> DEFINE v == call[c].seen
           d == Current(v)
           r == call[c].req
           next == [call[c] EXCEPT !.reread = TRUE, !.installed = Installed(c, d)]
<1>1. TypeOK /\ Prepared(c) /\ call[c] \in CallType /\ r \in RequestType
  BY RequestTyped DEF IInv
<1>2. pc[c] = "got" /\ UNCHANGED <<hist, stored, revoked>>
  BY DEF GotRead
<1>3. call[c].ack = 0 /\ call[c].pending = {} /\ Grows(c)
  BY <1>2, Unresolved DEF Grows
<1>4. v \in Versions /\ d \in Descriptors /\ Sound(d) /\ (v # 0 => v \in DOMAIN hist)
  BY <1>1, CurrentSound DEF CallType
<1>5. Admissible(r) /\ Unminted(c) /\ Free(d, c)
  BY <1>1, <1>2, <1>4 DEF Prepared, Unwritten, Unminted, Free, Current, Seed
<1>6. /\ next.req = r /\ next.seen = v /\ next.ack = 0 /\ next.pending = {}
      /\ next.installed = MintsFirst(r.kind, d)
      /\ DOMAIN next = {"req", "seen", "reread", "installed", "tries", "ack", "pending"}
  BY <1>1, <1>3 DEF CallType, Installed
<1> HIDE DEF next
<1>7. CASE Throw(c)
  BY <1>2, <1>3, <1>7, ThrowTold
<1>8. CASE ~Refused(c, d) /\ Revised(c, d) = d /\ Settle(c, next, v)
  <2>1. Composable(c, d)
    BY <1>8 DEF Refused, Composable, Installs, Removals
  <2>2. Keeps(c, d, d)
    <3>1. Keeps(c, d, Revised(c, d))
      BY <1>1, <1>4, <1>5, <2>1, RevisedKeeps
    <3> QED
      BY <1>8, <3>1
  <2>3. d.epochs # <<>> /\ ~MintsFirst(r.kind, d)
    BY <2>1, <2>2 DEF Keeps, MintsFirst, Composable
  <2>4. v # 0 /\ v \in DOMAIN hist' /\ hist'[v].desc = d
    BY <1>2, <1>4, <2>3 DEF Current, Seed
  <2>5. d.epochs[1].id # c
    BY <1>5, <2>3, <1>4, FirstStays DEF Free
  <2>6. r.kind \in Installs /\ r.blinded => d.hmac.id # None
    BY <1>5, <1>8, <2>3 DEF Refused, Admissible, RemovalAdmissible
  <2>7. r.kind \in Removals => r.retiring \intersect HoldersOf(d) = {}
    BY <2>2 DEF Keeps
  <2> HIDE DEF d
  <2>8. Told(c)' /\ pc'[c] \in {"returned", "pull"} /\ call'[c].req = r
    BY <1>1, <1>6, <1>8, <2>3, <2>4, <2>5, <2>6, <2>7, Settles
  <2> QED
    BY <1>2, <1>3, <2>8 DEF Progress, Going, Revokes
<1>9. CASE /\ Revised(c, d) # d /\ Goto(c, "write") /\ call' = [call EXCEPT ![c] = next]
  <2>1. pc'[c] = "write" /\ call'[c] = next
    BY <1>1, <1>9, Moves
  <2>2. r.kind \in Installs => MintsFirst(r.kind, d)
    BY <1>9 DEF Revised, Installs, Removals
  <2>3. d = IF next.seen = 0 THEN Seed ELSE hist'[next.seen].desc
    BY <1>2, <1>6 DEF Current
  <2> HIDE DEF d
  <2>4. Resolved(c)'
    BY <1>6, <2>1 DEF Resolved
  <2>5. Adopts(c)'
    BY <1>6, <2>1, <2>2, <2>3 DEF Adopts, MintsFirst, Current
  <2>6. Removed(c)'
    BY <1>6, <2>1 DEF Removed, Removes
  <2> QED
    BY <1>2, <1>3, <1>6, <2>1, <2>4, <2>5, <2>6 DEF Progress, Going, Revokes, Told
<1> QED
  BY <1>7, <1>8, <1>9 DEF GotRead, next

(* Adding what a call composed over the object in force.                   *)
LEMMA WriteAdds ==
    ASSUME IInv, RInv, NEW c \in Calls, pc[c] = "write", call[c].seen = stored,
           NEW object \in Entries, object.by = c,
           object.desc = Revised(c, Current(stored)),
           hist' = Append(hist, object), stored' = Len(hist')
    PROVE  /\ Adds(c, object) /\ stored' # 0 /\ hist'[stored'] = object
           /\ Keeps(c, Current(stored), object.desc)
<1>1. TypeOK /\ call[c].req \in RequestType /\ Admissible(call[c].req)
  BY RequestTyped DEF IInv, Prepared
<1>2. /\ Current(stored) \in Descriptors /\ Sound(Current(stored))
      /\ Composable(c, Current(stored)) /\ Free(Current(stored), c)
  BY WrittenSound
<1>3. Keeps(c, Current(stored), object.desc)
  BY <1>1, <1>2, RevisedKeeps
<1>4. stored' # 0 /\ hist'[stored'] = object
  BY <1>1, AppendKept
<1> QED
  BY <1>3, <1>4 DEF Adds, Keeps

LEMMA ServeWriteTold ==
    ASSUME IInv, RInv, NEW c \in Calls, ServeWrite(c)
    PROVE  Progress(c)
<1> DEFINE k == call[c]
           desc == Revised(c, Current(k.seen))
           object == [declared |-> TRUE, desc |-> desc,
                      conf |-> described[StoreOf[c]], by |-> c]
<1>1. TypeOK /\ Told(c) /\ k \in CallType
  BY RequestTyped DEF IInv, RInv
<1>2. pc[c] = "write" /\ UNCHANGED revoked
  BY DEF ServeWrite
<1>3. k.ack = 0 /\ k.pending = {}
  BY <1>2, Unresolved
<1>4. CASE /\ Precondition(c) = stored
           /\ hist' = Append(hist, object) /\ stored' = Len(hist')
           /\ Settle(c, k, stored') \/ Throw(c)
  <2>1. desc \in Descriptors
    BY <1>2, WrittenSound
  <2>2. described[StoreOf[c]] \in Confs \union {None}
    BY <1>1, StoresGiven DEF TypeOK, StoresGiven
  <2>3. desc = Revised(c, Current(stored)) /\ k.seen = stored
    BY <1>4 DEF Precondition
  <2> HIDE DEF desc
  <2>4. object \in Entries /\ object.desc = desc /\ object.by = c
    BY <2>1, <2>2 DEF Entries
  <2> HIDE DEF object
  <2>5. /\ Adds(c, object) /\ stored' # 0 /\ hist'[stored'] = object
        /\ Keeps(c, Current(stored), desc)
    BY <1>2, <1>4, <2>3, <2>4, WriteAdds
  <2>6. Grows(c)
    BY <2>4, <2>5 DEF Grows
  <2>7. CASE Throw(c)
    BY <1>2, <2>6, <2>7, ThrowTold
  <2>8. CASE Settle(c, k, stored')
    <3>1. desc.epochs # <<>>
      <4>1. CASE k.req.kind \in Installs
        BY <1>1, <1>2, <2>3, <2>5, <4>1 DEF Told, Adopts, Keeps
      <4>2. CASE k.req.kind \notin Installs
        BY <1>2, <2>3, <2>5, <4>2 DEF IInv, Prepared, Composable, Keeps
      <4> QED
        BY <4>1, <4>2
    <3>2. k.req.kind \in Installs =>
            /\ k.installed <=> desc.epochs[1].id = c
            /\ k.req.blinded => desc.hmac.id # None
      BY <1>1, <1>2, <2>3, <2>5 DEF Told, Adopts, Keeps
    <3>3. k.req.kind \in Removals => k.req.retiring \intersect HoldersOf(desc) = {}
      BY <2>5 DEF Keeps
    <3>4. DOMAIN k = {"req", "seen", "reread", "installed", "tries", "ack", "pending"}
      BY <1>1 DEF CallType
    <3> DEFINE v == stored'
    <3>5. v # 0 /\ hist'[v].desc = desc /\ Settle(c, k, v)
      BY <2>4, <2>5, <2>8
    <3> HIDE DEF v
    <3>6. Told(c)' /\ pc'[c] \in {"returned", "pull"} /\ call'[c].req = k.req
      BY <1>1, <3>1, <3>2, <3>3, <3>4, <3>5, Settles
    <3> QED
      BY <1>2, <1>3, <2>6, <3>6 DEF Progress, Going, Revokes
  <2> QED
    BY <1>4, <2>7, <2>8
<1>5. CASE /\ UNCHANGED <<hist, stored>>
           /\ IF LastAttempt(c)
              THEN Throw(c)
              ELSE /\ Goto(c, "read")
                   /\ call' = [call EXCEPT ![c].tries = @ + 1, ![c].seen = 0]
  <2>1. Grows(c)
    BY <1>5 DEF Grows
  <2>2. CASE LastAttempt(c)
    BY <1>2, <1>5, <2>1, <2>2, ThrowTold
  <2>3. CASE ~LastAttempt(c)
    <3> DEFINE n == [call[c] EXCEPT !.tries = @ + 1, !.seen = 0]
    <3>1. call' = [call EXCEPT ![c] = n] /\ Goto(c, "read")
      BY <1>5, <2>3
    <3>2. n.req = k.req /\ n.ack = k.ack /\ n.pending = k.pending
      BY <1>1 DEF CallType
    <3> HIDE DEF n
    <3>3. pc'[c] = "read" /\ call'[c] = n
      BY <1>1, <3>1, Moves
    <3>4. Told(c)'
      BY <1>3, <3>2, <3>3, WithoutResult
    <3> QED
      BY <1>2, <2>1, <3>2, <3>3, <3>4 DEF Progress, Going, Revokes
  <2> QED
    BY <2>2, <2>3
<1> QED
  BY <1>4, <1>5 DEF ServeWrite

(* Another client's configuration carries the descriptor forward.          *)
LEMMA ConfigureTold ==
    ASSUME IInv, RInv, NEW c \in Calls, Configure(c)
    PROVE  Progress(c)
<1>1. TypeOK /\ Told(c) /\ call[c] \in CallType /\ call[c].req \in RequestType
  BY RequestTyped DEF IInv, RInv
<1>2. pc[c] = "configure" /\ UNCHANGED <<revoked, call>>
  BY DEF Configure
<1>3. CASE Goto(c, "thrown") /\ UNCHANGED <<hist, stored>>
  BY <1>2, <1>3, ThrowTold DEF Throw, Grows
<1>4. CASE stored # 0 /\ ~(Goto(c, "thrown") /\ UNCHANGED <<hist, stored>>)
  <2> DEFINE object == [hist[stored] EXCEPT !.conf = call[c].req.conf, !.by = c]
  <2>1. stored \in DOMAIN hist
    BY <1>1, <1>4, LenProperties DEF TypeOK, Versions
  <2>2. hist[stored] \in Entries
    BY <1>1, <2>1, EntryTyped
  <2>3. object \in Entries /\ object.desc = hist[stored].desc /\ object.by = c
    BY <1>1, <2>2 DEF Entries, RequestType
  <2>4. hist' = Append(hist, object) /\ stored' = Len(hist') /\ Goto(c, "returned")
    BY <1>4 DEF Configure
  <2> HIDE DEF object
  <2>5. Adds(c, object)
    BY <1>2, <1>4, <2>3, <2>4 DEF Adds, Current
  <2>6. pc'[c] = "returned" /\ call'[c] = call[c]
    BY <1>1, <1>2, <2>4 DEF Goto, TypeOK
  <2>7. call[c].ack = 0 /\ call[c].pending = {} /\ call[c].req.kind = "configure"
    BY <1>1, <1>2, Unresolved DEF Told, Resolved
  <2>8. Told(c)'
    BY <2>6, <2>7, WithoutResult
  <2> QED
    BY <1>2, <2>3, <2>5, <2>6, <2>8 DEF Progress, Going, Grows, Revokes
<1> QED
  BY <1>3, <1>4 DEF Configure

(* The answer of a revocation.                                             *)
LEMMA PullTold ==
    ASSUME IInv, RInv, NEW c \in Calls, Pull(c)
    PROVE  Progress(c)
<1>1. /\ pc[c] \in {"pull", "thrown"} /\ UNCHANGED <<hist, stored>>
      /\ \E z \in call[c].pending :
           /\ call' = [call EXCEPT ![c].pending = call[c].pending \ {z}]
           /\ \/ /\ revoked' = revoked \union {z}
                 /\ IF pc[c] = "pull" /\ call[c].pending \ {z} = {}
                    THEN Goto(c, "returned") ELSE UNCHANGED pc
              \/ /\ revoked' \in {revoked, revoked \union {z}}
                 /\ Goto(c, "thrown")
  BY DEF Pull
<1>2. TypeOK /\ Told(c) /\ call[c] \in CallType
  BY RequestTyped DEF IInv, RInv
<1>3. PICK z \in call[c].pending :
        /\ call' = [call EXCEPT ![c].pending = call[c].pending \ {z}]
        /\ \/ /\ revoked' = revoked \union {z}
              /\ IF pc[c] = "pull" /\ call[c].pending \ {z} = {}
                 THEN Goto(c, "returned") ELSE UNCHANGED pc
           \/ /\ revoked' \in {revoked, revoked \union {z}}
              /\ Goto(c, "thrown")
  BY <1>1
<1> DEFINE k == [call[c] EXCEPT !.pending = call[c].pending \ {z}]
<1>4. call'[c] = k
  BY <1>2, <1>3 DEF TypeOK
<1>5. /\ k.req = call[c].req /\ k.ack = call[c].ack /\ k.installed = call[c].installed
      /\ k.pending = call[c].pending \ {z}
  BY <1>2 DEF CallType
<1> HIDE DEF k
<1>6. /\ call[c].ack # 0 /\ hist'[call[c].ack] = hist[call[c].ack]
      /\ hist[call[c].ack].desc.epochs # <<>> /\ call[c].pending \subseteq call[c].req.zcaps
  BY <1>1, <1>2 DEF Told, Resolved
<1>7. \/ pc'[c] = "thrown"
      \/ pc'[c] = "returned" /\ k.pending = {} /\ pc[c] = "pull" /\ revoked' = revoked \union {z}
      \/ pc'[c] = "pull" /\ pc[c] = "pull" /\ revoked' = revoked \union {z}
  BY <1>1, <1>2, <1>3, <1>5 DEF Goto, TypeOK
<1>8. Resolved(c)'
  <2>1. pc[c] # "thrown" => call[c].req.zcaps \ call[c].pending \subseteq revoked
    BY <1>2, <1>6 DEF Told, Resolved
  <2>2. pc'[c] # "thrown" => k.req.zcaps \ k.pending \subseteq revoked'
    BY <1>5, <1>7, <2>1
  <2> QED
    BY <1>4, <1>5, <1>6, <1>7, <2>2 DEF Resolved
<1>9. Adopts(c)'
  BY <1>2, <1>4, <1>5, <1>6, <1>7 DEF Told, Adopts, First
<1>10. Removed(c)'
  BY <1>2, <1>4, <1>5, <1>6 DEF Told, Removed, Removes, Holders, CurrentEpochOf
<1>11. Going(c)
  BY <1>4, <1>5, <1>7 DEF Going
<1> QED
  BY <1>1, <1>3, <1>8, <1>9, <1>10, <1>11 DEF Progress, Told, Grows, Revokes

LEMMA StepTold ==
    ASSUME IInv, RInv, NEW c \in Calls, Step(c)
    PROVE  Progress(c)
  BY StartTold, ConfigureTold, ServeReadTold, GotReadTold, ServeWriteTold, LoseTold, PullTold
  DEF Step
-----------------------------------------------------------------------------
(* The inductive invariant.                                                *)

(* Objects stay stored, and calls keep what they were asked and told.      *)
Lasting ==
    /\ \A v \in DOMAIN hist : v \in DOMAIN hist' /\ hist'[v] = hist[v]
    /\ \A d \in Calls :
         /\ pc[d] # "idle" => pc'[d] # "idle" /\ call'[d].req = call[d].req
         /\ call[d].ack # 0 => call'[d].ack = call[d].ack
    /\ revoked \subseteq revoked'

LEMMA HistIndexes ==
    ASSUME TypeOK
    PROVE  /\ Len(hist) \in Nat /\ DOMAIN hist = 1 .. Len(hist)
           /\ \A v \in Versions : v # 0 => v \in DOMAIN hist
  BY LenProperties DEF TypeOK, Versions

LEMMA StepLasts ==
    ASSUME IInv, NEW c \in Calls, CallKept(c), Progress(c)
    PROVE  Lasting
<1>1. \A v \in DOMAIN hist : v \in DOMAIN hist' /\ hist'[v] = hist[v]
  <2>1. CASE UNCHANGED <<hist, stored>>
    BY <2>1
  <2>2. CASE \E object \in Entries : Adds(c, object)
    BY <2>2, AppendKept DEF IInv, Adds
  <2> QED
    BY <2>1, <2>2 DEF Progress, Grows
<1>2. ASSUME NEW d \in Calls
      PROVE  /\ pc[d] # "idle" => pc'[d] # "idle" /\ call'[d].req = call[d].req
             /\ call[d].ack # 0 => call'[d].ack = call[d].ack
  <2>1. CASE d = c
    BY <2>1 DEF Progress, Going
  <2>2. CASE d # c
    BY <2>2 DEF CallKept, Others
  <2> QED
    BY <2>1, <2>2
<1>3. revoked \subseteq revoked'
  BY DEF Progress, Revokes
<1> QED
  BY <1>1, <1>2, <1>3 DEF Lasting

LEMMA RecordedKept ==
    ASSUME IInv, RInv, NEW c \in Calls, Progress(c), Lasting
    PROVE  Recorded'
<1>1. Recorded
  BY DEF RInv
<1>2. CASE UNCHANGED <<hist, stored>>
  BY <1>1, <1>2 DEF Recorded, Lasting
<1>3. ASSUME NEW object \in Entries, Adds(c, object) PROVE Recorded'
  <2>1. /\ stored' = Len(hist') /\ object.by = c
        /\ \A v \in DOMAIN hist' : v \in DOMAIN hist \/ hist'[v] = object
    BY <1>3, AppendKept DEF IInv, Adds
  <2>2. pc'[c] # "idle"
    BY <1>3 DEF Adds, Lasting
  <2> QED
    BY <1>1, <2>1, <2>2 DEF Recorded, Lasting
<1> QED
  BY <1>2, <1>3 DEF Progress, Grows

(* What holds between two stored objects goes on holding.                  *)
LEMMA PairKept ==
    ASSUME IInv, RInv, Lasting, NEW u \in DOMAIN hist, NEW v \in 1 .. u
    PROVE  FirstKept(v, u)' /\ Introduced(v, u)'
<1>1. Len(hist) \in Nat /\ DOMAIN hist = 1 .. Len(hist) /\ v \in DOMAIN hist
  BY HistIndexes DEF IInv
<1>2. FirstKept(v, u) /\ Introduced(v, u) /\ Recorded
  BY DEF RInv, Grown
<1>3. hist'[v] = hist[v] /\ hist'[u] = hist[u]
  BY <1>1 DEF Lasting
<1>4. FirstKept(v, u)'
  BY <1>2, <1>3 DEF FirstKept, First
<1>5. ASSUME NEW kid \in Holders(u)' \ Holders(v)'
      PROVE  \E w \in v + 1 .. u : kid \in call'[hist'[w].by].req.kids
  <2>1. kid \in Holders(u) \ Holders(v)
    BY <1>3 DEF Holders, CurrentEpochOf
  <2>2. PICK w \in v + 1 .. u : kid \in call[hist[w].by].req.kids
    BY <1>2, <2>1 DEF Introduced
  <2>3. w \in DOMAIN hist /\ w > 1
    BY <1>1
  <2>4. hist[w].by \in Calls /\ pc[hist[w].by] # "idle"
    BY <1>2, <2>3 DEF Recorded
  <2>5. hist'[w] = hist[w] /\ call'[hist[w].by].req = call[hist[w].by].req
    BY <2>3, <2>4 DEF Lasting
  <2> QED
    BY <2>2, <2>5
<1>6. Introduced(v, u)'
  BY <1>5 DEF Introduced
<1> QED
  BY <1>4, <1>6

LEMMA GrownKept ==
    ASSUME IInv, RInv, NEW c \in Calls, Progress(c), Lasting
    PROVE  Grown'
<1>1. CASE UNCHANGED <<hist, stored>>
  BY <1>1, PairKept DEF Grown
<1>2. ASSUME NEW object \in Entries, Adds(c, object) PROVE Grown'
  <2> DEFINE n == Len(hist) + 1
  <2>1. /\ hist' = Append(hist, object) /\ stored' = Len(hist')
        /\ object.by = c /\ pc[c] # "idle"
        /\ HoldersOf(object.desc) \subseteq HoldersOf(Current(stored)) \union call[c].req.kids
        /\ Current(stored).epochs # <<>> =>
             /\ object.desc.epochs # <<>>
             /\ object.desc.epochs[1].id = Current(stored).epochs[1].id
    BY <1>2 DEF Adds
  <2>2. /\ DOMAIN hist' = 1 .. n /\ hist'[n] = object /\ hist' \in Seq(Entries)
        /\ Len(hist) \in Nat /\ DOMAIN hist = 1 .. Len(hist)
    BY <2>1, AppendKept, HistIndexes, LenProperties DEF IInv
  <2>3. call'[c].req = call[c].req
    BY <2>1 DEF Lasting
  <2>4. ASSUME NEW v \in 1 .. n
        PROVE  /\ hist'[v].desc.epochs # <<>> =>
                    /\ hist'[n].desc.epochs # <<>>
                    /\ hist'[n].desc.epochs[1].id = hist'[v].desc.epochs[1].id
               /\ \A kid \in HoldersOf(hist'[n].desc) \ HoldersOf(hist'[v].desc) :
                    \E w \in v + 1 .. n : kid \in call'[hist'[w].by].req.kids
    <3>1. CASE v = n
      BY <3>1
    <3>2. CASE v # n
      <4>1. /\ v \in 1 .. Len(hist) /\ v \in DOMAIN hist /\ Len(hist) \in DOMAIN hist
            /\ stored = Len(hist) /\ stored # 0
        BY <2>2, <3>2 DEF RInv, Recorded
      <4>2. /\ Introduced(v, stored) /\ Recorded
            /\ FirstKept(v, stored)
        BY <4>1 DEF RInv, Grown
      <4>3. Current(stored) = hist[stored].desc /\ hist'[stored] = hist[stored]
            /\ hist'[v] = hist[v]
        BY <4>1 DEF Current, Lasting
      <4>4. hist'[v].desc.epochs # <<>> =>
              /\ hist'[n].desc.epochs # <<>>
              /\ hist'[n].desc.epochs[1].id = hist'[v].desc.epochs[1].id
        BY <2>1, <2>2, <4>2, <4>3 DEF FirstKept, First
      <4>5. ASSUME NEW kid \in HoldersOf(hist'[n].desc) \ HoldersOf(hist'[v].desc)
            PROVE  \E w \in v + 1 .. n : kid \in call'[hist'[w].by].req.kids
        <5>1. CASE kid \in call[c].req.kids
          <6>1. n \in v + 1 .. n
            BY <2>2, <4>1
          <6> QED
            BY <2>1, <2>2, <2>3, <5>1, <6>1
        <5>2. CASE kid \notin call[c].req.kids
          <6>1. kid \in Holders(stored) \ Holders(v)
            BY <2>1, <2>2, <4>3, <4>5, <5>2 DEF Holders, HoldersOf
          <6>2. PICK w \in v + 1 .. stored : kid \in call[hist[w].by].req.kids
            BY <4>2, <6>1 DEF Introduced
          <6>3. w \in DOMAIN hist /\ w > 1 /\ w \in v + 1 .. n
            BY <2>2, <4>1
          <6>4. hist[w].by \in Calls /\ pc[hist[w].by] # "idle"
            BY <4>2, <6>3 DEF Recorded
          <6>5. hist'[w] = hist[w] /\ call'[hist[w].by].req = call[hist[w].by].req
            BY <6>3, <6>4 DEF Lasting
          <6> QED
            BY <6>2, <6>3, <6>5
        <5> QED
          BY <5>1, <5>2
      <4> QED
        BY <4>4, <4>5
    <3> QED
      BY <3>1, <3>2
  <2>5. ASSUME NEW u \in DOMAIN hist', NEW v \in 1 .. u
        PROVE  FirstKept(v, u)' /\ Introduced(v, u)'
    <3>1. CASE u = n
      BY <2>4, <3>1 DEF FirstKept, First, Introduced, Holders, HoldersOf, CurrentEpochOf
    <3>2. CASE u # n
      <4>1. u \in DOMAIN hist
        BY <2>2, <3>2
      <4> QED
        BY <4>1, PairKept
    <3> QED
      BY <3>1, <3>2
  <2> QED
    BY <2>5 DEF Grown
<1> QED
  BY <1>1, <1>2 DEF Progress, Grows

(* A removal that was durable stays so.                                    *)
LEMMA RotatedStays ==
    ASSUME IInv, RInv, Lasting, NEW c \in Calls, NEW z, RotatedFor(c, z)
    PROVE  RotatedFor(c, z)'
<1>1. Told(c) /\ call[c] \in CallType /\ TypeOK
  BY RequestTyped DEF IInv, RInv
<1>2. call[c].ack # 0 /\ call[c].ack \in DOMAIN hist
  BY <1>1, HistIndexes DEF RotatedFor, Removes, CallType
<1>3. pc[c] # "idle"
  BY <1>1, <1>2 DEF Told, Resolved
<1>4. call'[c].req = call[c].req /\ call'[c].ack = call[c].ack
      /\ hist'[call[c].ack] = hist[call[c].ack]
  BY <1>2, <1>3 DEF Lasting
<1> QED
  BY <1>4 DEF RotatedFor, Removes, Holders, CurrentEpochOf

LEMMA DurableKept ==
    ASSUME IInv, RInv, NEW c \in Calls, Progress(c), Lasting
    PROVE  Durable'
<1> SUFFICES ASSUME NEW z \in revoked' PROVE (\E d \in Calls : RotatedFor(d, z)')
  BY DEF Durable
<1>1. CASE z \in revoked
  BY <1>1, RotatedStays DEF RInv, Durable
<1>2. CASE z \notin revoked
  <2>1. z \in call[c].pending
    BY <1>2 DEF Progress, Revokes
  <2>2. Told(c)
    BY DEF RInv
  <2>3. call[c].ack # 0 /\ z \in call[c].req.zcaps
    BY <2>1, <2>2 DEF Told, Resolved
  <2>4. pc[c] # "idle"
    BY <2>2, <2>3 DEF Told, Resolved
  <2>5. call[c].req.kind \in Removals
    BY <2>3, <2>4 DEF IInv, Prepared, Admissible, RemovalAdmissible
  <2>6. Removes(c)
    BY <2>3, <2>5 DEF Removes
  <2>7. RotatedFor(c, z)
    BY <2>2, <2>3, <2>6 DEF Told, Removed, RotatedFor
  <2> QED
    BY <2>7, RotatedStays
<1> QED
  BY <1>1, <1>2

(* What one call was told, another's step leaves true.                     *)
LEMMA OtherTold ==
    ASSUME IInv, RInv, NEW c \in Calls, Lasting, pc'[c] = pc[c], call'[c] = call[c]
    PROVE  Told(c)'
<1>1. Told(c) /\ call[c] \in CallType /\ TypeOK
  BY RequestTyped DEF IInv, RInv
<1>2. call[c].ack # 0 => hist'[call[c].ack] = hist[call[c].ack]
  BY <1>1, HistIndexes DEF CallType, Lasting
<1>3. Current(call[c].seen) = IF call[c].seen = 0 THEN Seed ELSE hist'[call[c].seen].desc
  BY <1>1, HistIndexes DEF CallType, Lasting, Current
<1>4. revoked \subseteq revoked'
  BY DEF Lasting
<1>5. Resolved(c)'
  BY <1>1, <1>2, <1>4 DEF Told, Resolved
<1>6. Adopts(c)'
  BY <1>1, <1>2, <1>3 DEF Told, Adopts, First, MintsFirst, Current
<1>7. Removed(c)'
  BY <1>1, <1>2 DEF Told, Removed, Removes, Holders, CurrentEpochOf
<1> QED
  BY <1>5, <1>6, <1>7 DEF Told

LEMMA RInit == Init => RInv
<1> SUFFICES ASSUME Init PROVE RInv
  OBVIOUS
<1>1. stored = Len(hist) /\ DOMAIN hist \subseteq {1}
  <2>1. CASE hist = <<>> /\ stored = 0
    BY <2>1
  <2>2. ASSUME NEW entry, hist = <<entry>>, stored = 1
        PROVE  stored = Len(hist) /\ DOMAIN hist \subseteq {1}
    BY <2>2
  <2> QED
    BY <2>1, <2>2 DEF Init
<1>2. /\ revoked = {} /\ pc = [c \in Calls |-> "idle"]
      /\ call = [c \in Calls |-> Locals(NoRequest)]
  BY DEF Init
<1>3. Recorded
  BY <1>1 DEF Recorded
<1>4. Grown
  <2> SUFFICES ASSUME NEW u \in DOMAIN hist, NEW v \in 1 .. u
               PROVE  FirstKept(v, u) /\ Introduced(v, u)
    BY DEF Grown
  <2>1. v = u
    BY <1>1
  <2> QED
    BY <2>1 DEF FirstKept, Introduced
<1>5. Durable
  BY <1>2 DEF Durable
<1>6. ASSUME NEW c \in Calls PROVE Told(c)
  <2>1. pc[c] = "idle" /\ call[c].ack = 0 /\ call[c].pending = {}
    BY <1>2 DEF Locals
  <2> QED
    BY <2>1 DEF Told, Resolved, Adopts, Removed, Removes
<1> QED
  BY <1>3, <1>4, <1>5, <1>6 DEF RInv

LEMMA RStep == IInv /\ RInv /\ [Next]_vars => RInv'
<1> SUFFICES ASSUME IInv, RInv, [Next]_vars PROVE RInv'
  OBVIOUS
<1>1. CASE UNCHANGED vars
  <2>1. Lasting /\ \A c \in Calls : pc'[c] = pc[c] /\ call'[c] = call[c]
    BY <1>1 DEF vars, Lasting
  <2>2. \A c \in Calls : Told(c)'
    BY <2>1, OtherTold
  <2>3. Recorded'
    BY <1>1 DEF vars, RInv, Recorded
  <2>4. Grown'
    BY <1>1, <2>1, PairKept DEF vars, Grown
  <2>5. Durable'
    BY <1>1, <2>1, RotatedStays DEF vars, RInv, Durable
  <2> QED
    BY <2>2, <2>3, <2>4, <2>5 DEF RInv
<1>2. CASE \E c \in Calls : Step(c)
  <2>1. PICK c \in Calls : Step(c)
    BY <1>2
  <2>2. CallKept(c) /\ Progress(c)
    BY <2>1, StepKept, StepTold
  <2>3. Lasting
    BY <2>2, StepLasts
  <2>4. Recorded' /\ Grown' /\ Durable'
    BY <2>2, <2>3, RecordedKept, GrownKept, DurableKept
  <2>5. ASSUME NEW d \in Calls PROVE Told(d)'
    <3>1. CASE d = c
      BY <2>2, <3>1 DEF Progress
    <3>2. CASE d # c
      <4>1. pc'[d] = pc[d] /\ call'[d] = call[d]
        BY <2>2, <3>2 DEF CallKept, Others
      <4> QED
        BY <2>3, <4>1, OtherTold
    <3> QED
      BY <3>1, <3>2
  <2> QED
    BY <2>4, <2>5 DEF RInv
<1> QED
  BY <1>1, <1>2 DEF Next, Quiet

LEMMA Relations == Spec => [](IInv /\ RInv)
  BY InitHolds, StepHolds, RInit, RStep, PTL DEF Spec
-----------------------------------------------------------------------------
(* Theorems.                                                               *)

(* Exactly one first epoch ever exists, whoever races to install it: a     *)
(* call that returns has it, knows whether it is its own, and has a        *)
(* blinded-index key if it asked for one.                                  *)
THEOREM OneFirstEpoch == Spec => []FirstEpochAdopted
<1>1. IInv /\ RInv => FirstEpochAdopted
  <2> SUFFICES ASSUME IInv, RInv PROVE FirstEpochAdopted
    OBVIOUS
  <2>1. DOMAIN hist = 1 .. Len(hist) /\ Len(hist) \in Nat
    BY HistIndexes DEF IInv
  <2>2. ASSUME NEW v \in DOMAIN hist, NEW w \in DOMAIN hist,
               hist[v].desc.epochs # <<>>, hist[w].desc.epochs # <<>>
        PROVE  First(v) = First(w)
    <3>1. v \in 1 .. w \/ w \in 1 .. v
      BY <2>1
    <3> QED
      BY <2>2, <3>1 DEF RInv, Grown, FirstKept
  <2>3. ASSUME NEW c \in Calls, pc[c] = "returned", call[c].req.kind \in Installs
        PROVE  /\ call[c].ack # 0 /\ hist[call[c].ack].desc.epochs # <<>>
               /\ call[c].installed <=> First(call[c].ack) = c
               /\ call[c].req.blinded => hist[call[c].ack].desc.hmac.id # None
    <3>1. Told(c)
      BY DEF RInv
    <3>2. call[c].ack # 0 /\ hist[call[c].ack].desc.epochs # <<>>
      BY <2>3, <3>1 DEF Told, Resolved, Installs
    <3> QED
      BY <2>3, <3>1, <3>2 DEF Told, Adopts
  <2>4. \A v, w \in DOMAIN hist :
          hist[v].desc.epochs # <<>> /\ hist[w].desc.epochs # <<>> => First(v) = First(w)
    BY <2>2
  <2>5. \A c \in Calls :
          LET k == call[c]
          IN pc[c] = "returned" /\ k.req.kind \in Installs =>
               /\ k.ack # 0 /\ hist[k.ack].desc.epochs # <<>>
               /\ k.installed <=> First(k.ack) = c
               /\ k.req.blinded => hist[k.ack].desc.hmac.id # None
    BY <2>3
  <2> QED
    BY <2>4, <2>5 DEF FirstEpochAdopted
<1> QED
  BY <1>1, Relations, PTL

LEMMA StaysOut ==
    ASSUME IInv, RInv
    PROVE  RemovedStaysOut
<1> SUFFICES ASSUME NEW c \in Calls, Removes(c), NEW v \in call[c].ack .. Len(hist),
                    NEW kid \in call[c].req.retiring \intersect Holders(v)
             PROVE  \E w \in call[c].ack + 1 .. v : kid \in call[hist[w].by].req.kids
  BY DEF RemovedStaysOut
<1>1. call[c] \in CallType /\ TypeOK /\ Told(c)
  BY RequestTyped DEF IInv, RInv
<1>2. /\ DOMAIN hist = 1 .. Len(hist) /\ Len(hist) \in Nat
      /\ call[c].ack \in DOMAIN hist
  BY <1>1, HistIndexes DEF Removes, CallType
<1>3. v \in DOMAIN hist /\ call[c].ack \in 1 .. v
  BY <1>2
<1>4. kid \in Holders(v) \ Holders(call[c].ack)
  BY <1>1 DEF Told, Removed
<1> QED
  BY <1>3, <1>4 DEF RInv, Grown, Introduced

(* A removal does both of its halves, in order: no capability is revoked   *)
(* before a descriptor without the retired readers is durable, a call that *)
(* returns has revoked them all; and what was taken away stays away unless *)
(* a later call names the reader to add.                                   *)
THEOREM RemovalsAreWhole == Spec => []RemovalsHold
<1>1. IInv /\ RInv => RemovalsHold
  <2> SUFFICES ASSUME IInv, RInv PROVE BothHalves
    BY StaysOut DEF RemovalsHold
  <2>1. \A z \in revoked : \E c \in Calls :
          Removes(c) /\ z \in call[c].req.zcaps
            /\ call[c].req.retiring \intersect Holders(call[c].ack) = {}
    BY DEF RInv, Durable, RotatedFor
  <2>2. ASSUME NEW c \in Calls, pc[c] = "returned", Removes(c)
        PROVE  /\ call[c].req.zcaps \subseteq revoked
               /\ call[c].req.retiring \intersect Holders(call[c].ack) = {}
    BY <2>2 DEF RInv, Told, Resolved, Removed, Removes
  <2> QED
    BY <2>1, <2>2 DEF BothHalves
<1> QED
  BY <1>1, Relations, PTL
=============================================================================
