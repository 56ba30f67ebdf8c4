-------------------------- MODULE Listings_proofs --------------------------
(***************************************************************************)
(* Proofs about Listings and, beneath it, Discovery: how callers share one *)
(* service description, and what a walk of a listing may do and say, for   *)
(* any calls, items, failures and changes of the server.                   *)
(***************************************************************************)
EXTENDS Listings, TLAPS, FiniteSetTheorems, WellFoundedInduction

Infos == Descriptions \union {None}
Reads == [since : Nat, given : BOOLEAN, info : Infos, stage : Underway \union {"done", "failed"}]
Services == [memo : {None} \union Nat, supplied : Infos, reads : Seq(Reads)]

(* No two discoveries of one refresh are under way at once.                *)
Apart(reads) ==
    \A r, s \in DOMAIN reads :
      r # s /\ reads[r].stage \in Underway /\ reads[s].stage \in Underway =>
        reads[r].since # reads[s].since

(* The memo holds the one discovery under way since the last refresh, or   *)
(* one that has ended well, and none that rests on the description the     *)
(* client was built with once a refresh dropped that.                      *)
Shares(held, since) ==
    /\ held \in Services
    /\ since > 0 => held.supplied = None
    /\ held.memo # None =>
         /\ held.memo \in DOMAIN held.reads
         /\ held.reads[held.memo].stage # "failed"
         /\ held.reads[held.memo].since = since
         /\ since > 0 => ~held.reads[held.memo].given
    /\ \A r \in DOMAIN held.reads :
         /\ held.reads[r].since <= since
         /\ held.reads[r].stage \in Underway /\ held.reads[r].since = since => held.memo = r
    /\ Apart(held.reads)

(* A description in use was accepted.                                      *)
Checked(reads) == \A r \in DOMAIN reads : reads[r].stage = "done" => Accepted(reads[r].info)

(* Discoveries only go on: none is forgotten, none changes its cause, and  *)
(* one that failed stays failed.                                           *)
Grows(reads, next) ==
    /\ DOMAIN reads \subseteq DOMAIN next
    /\ \A r \in DOMAIN reads :
         /\ next[r].since = reads[r].since /\ next[r].given = reads[r].given
         /\ reads[r].stage = "failed" => next[r].stage = "failed"

LEMMA GrowsNot == ASSUME NEW reads PROVE Grows(reads, reads)
  BY DEF Grows

LEMMA NewReadTyped ==
    ASSUME NEW held \in Services, NEW since \in Nat
    PROVE  LET read == NewRead(held, since)
           IN /\ read \in Reads /\ read.since = since /\ read.stage \in Underway
              /\ held.supplied = None => ~read.given
<1>1. held.supplied \in Infos
  BY DEF Services
<1> QED
  BY <1>1 DEF NewRead, Reads, Underway

(* Whoever asks gets the discovery that is held, or begins one.            *)
LEMMA GetShares ==
    ASSUME NEW held, NEW since \in Nat, Shares(held, since), Checked(held.reads)
    PROVE  LET now == Get(held, since)
           IN /\ Shares(now, since) /\ Checked(now.reads) /\ now.memo # None
              /\ now.memo \in Nat /\ Grows(held.reads, now.reads)
<1>1. CASE held.memo # None
  BY <1>1, GrowsNot DEF Shares, Get, Services
<1>2. CASE held.memo = None
  <2> DEFINE read == NewRead(held, since)
             n == Len(held.reads) + 1
             now == [held EXCEPT !.reads = Append(@, read), !.memo = n]
             reads == Append(held.reads, read)
  <2>1. /\ held \in Services /\ held.reads \in Seq(Reads)
        /\ since > 0 => held.supplied = None
    BY DEF Shares, Services
  <2>2. /\ read \in Reads /\ read.since = since /\ read.stage \in Underway
        /\ held.supplied = None => ~read.given
    BY <2>1, NewReadTyped
  <2>3. "done" \notin Underway /\ "failed" \notin Underway
    BY DEF Underway
  <2> HIDE DEF read
  <2>4. /\ n \in Nat /\ n \notin DOMAIN held.reads /\ reads \in Seq(Reads)
        /\ DOMAIN reads = DOMAIN held.reads \union {n}
        /\ reads[n] = read /\ \A r \in DOMAIN held.reads : reads[r] = held.reads[r]
    BY <2>1, <2>2
  <2>5. now \in Services /\ now.reads = reads /\ now.memo = n /\ now.supplied = held.supplied
    BY <2>1, <2>4 DEF Services
  <2> HIDE DEF n, reads, now
  <2>6. \A r \in DOMAIN held.reads :
          /\ held.reads[r].since <= since
          /\ ~(held.reads[r].stage \in Underway /\ held.reads[r].since = since)
    <3>1. DOMAIN held.reads \subseteq Nat
      BY <2>1
    <3> QED
      BY <1>2, <3>1, DiscoveryBounds DEF Shares, DiscoveryBounds
  <2>7. Apart(reads)
    <3>1. Apart(held.reads)
      BY DEF Shares
    <3> QED
      BY <2>2, <2>4, <2>6, <3>1 DEF Apart
  <2>8. Shares(now, since)
    BY <2>1, <2>2, <2>3, <2>4, <2>5, <2>6, <2>7 DEF Shares
  <2>9. Checked(reads) /\ Grows(held.reads, reads)
    BY <2>2, <2>3, <2>4 DEF Checked, Grows
  <2>10. Get(held, since) = now
    BY <1>2 DEF Get, now, n, read
  <2>11. n # None
    BY <2>4, DiscoveryBounds DEF DiscoveryBounds
  <2> QED
    BY <2>4, <2>5, <2>8, <2>9, <2>10, <2>11
<1> QED
  BY <1>1, <1>2

(* A refresh drops what is held.                                           *)
LEMMA ResetShares ==
    ASSUME NEW held, NEW since \in Nat, Shares(held, since), Checked(held.reads)
    PROVE  /\ Shares(Reset(held), since + 1) /\ Checked(Reset(held).reads)
           /\ Reset(held).reads = held.reads
<1> DEFINE now == Reset(held)
<1>1. held \in Services /\ held.reads \in Seq(Reads) /\ None \in Infos
  BY DEF Shares, Services, Infos
<1>2. now \in Services /\ now.memo = None /\ now.supplied = None /\ now.reads = held.reads
  BY <1>1 DEF Reset, Services
<1>3. \A r \in DOMAIN held.reads : held.reads[r].since \in Nat /\ held.reads[r].since <= since
  <2> SUFFICES ASSUME NEW r \in DOMAIN held.reads
               PROVE  held.reads[r].since \in Nat /\ held.reads[r].since <= since
    OBVIOUS
  <2>1. held.reads[r] \in Reads
    BY <1>1
  <2> QED
    BY <2>1 DEF Shares, Reads
<1> HIDE DEF now
<1>4. Shares(now, since + 1)
  BY <1>2, <1>3 DEF Shares
<1> QED
  BY <1>2, <1>4 DEF now

(* A discovery goes on, ends well or fails; a failure is dropped from the  *)
(* memo if it is the one held.                                             *)
LEMMA SettleShares ==
    ASSUME NEW held, NEW since \in Nat, Shares(held, since), Checked(held.reads),
           NEW r \in DOMAIN held.reads, held.reads[r].stage \in Underway,
           NEW read \in Reads, read.since = held.reads[r].since, read.given = held.reads[r].given,
           read.stage = "done" => Accepted(read.info),
           NEW next \in Services, next.supplied = held.supplied,
           next.reads = [held.reads EXCEPT ![r] = read],
           next.memo = IF read.stage = "failed" /\ held.memo = r THEN None ELSE held.memo
    PROVE  Shares(next, since) /\ Checked(next.reads) /\ Grows(held.reads, next.reads)
<1>1. "done" \notin Underway /\ "failed" \notin Underway
  BY DEF Underway
<1>2. /\ DOMAIN next.reads = DOMAIN held.reads /\ next.reads[r] = read
      /\ \A s \in DOMAIN held.reads \ {r} : next.reads[s] = held.reads[s]
  OBVIOUS
<1>3. Apart(next.reads)
  <2>1. Apart(held.reads)
    BY DEF Shares
  <2> QED
    BY <1>2, <2>1 DEF Apart
<1>4. ASSUME NEW s \in DOMAIN next.reads
      PROVE  /\ next.reads[s].since <= since
             /\ next.reads[s].stage \in Underway /\ next.reads[s].since = since => next.memo = s
  <2>1. held.reads[s].since <= since
    BY <1>2 DEF Shares
  <2>2. held.reads[s].stage \in Underway /\ held.reads[s].since = since => held.memo = s
    BY <1>2 DEF Shares
  <2>3. CASE s = r
    BY <1>1, <1>2, <2>1, <2>2, <2>3
  <2>4. CASE s # r
    BY <1>2, <2>1, <2>2, <2>4
  <2> QED
    BY <2>3, <2>4
<1>5. next.memo # None =>
        /\ next.memo \in DOMAIN next.reads /\ next.reads[next.memo].stage # "failed"
        /\ next.reads[next.memo].since = since
        /\ since > 0 => ~next.reads[next.memo].given
  BY <1>1, <1>2 DEF Shares
<1>6. Shares(next, since)
  BY <1>3, <1>4, <1>5 DEF Shares
<1>7. Checked(next.reads) /\ Grows(held.reads, next.reads)
  BY <1>1, <1>2 DEF Checked, Grows
<1> QED
  BY <1>6, <1>7

(* The part of the invariant that is about the discoveries.                *)
DiscoveryInv ==
    /\ refreshes \in Nat /\ offered \in Descriptions
    /\ Shares(service, refreshes) /\ Checked(service.reads)

(* What every step of the client does to them.                             *)
GoesOn == DiscoveryInv' /\ Grows(service.reads, service'.reads) /\ UNCHANGED client

LEMMA ReadTyped ==
    ASSUME DiscoveryInv, NEW r \in DOMAIN service.reads
    PROVE  /\ service \in Services /\ service.reads \in Seq(Reads) /\ service.reads[r] \in Reads
           /\ service.reads[r].info \in Infos /\ r \in Nat
<1>1. service \in Services /\ service.reads \in Seq(Reads)
  BY DEF DiscoveryInv, Shares, Services
<1>2. service.reads[r] \in Reads /\ r \in Nat
  BY <1>1
<1> QED
  BY <1>1, <1>2 DEF Reads

LEMMA Settles ==
    ASSUME DiscoveryInv, NEW r \in DOMAIN service.reads, service.reads[r].stage \in Underway,
           NEW read \in Reads, read.since = service.reads[r].since,
           read.given = service.reads[r].given, read.stage = "done" => Accepted(read.info),
           NEW memo, memo = (IF read.stage = "failed" /\ service.memo = r THEN None ELSE service.memo),
           service' = [service EXCEPT !.reads = [@ EXCEPT ![r] = read], !.memo = memo],
           UNCHANGED <<client, refreshes>>, offered' \in Descriptions
    PROVE  GoesOn
<1> DEFINE next == [service EXCEPT !.reads = [@ EXCEPT ![r] = read], !.memo = memo]
<1>1. service \in Services /\ service.reads \in Seq(Reads) /\ memo \in {None} \union Nat
  BY ReadTyped DEF Services
<1>2. [service.reads EXCEPT ![r] = read] \in Seq(Reads)
  BY <1>1
<1>3. /\ next \in Services /\ next.supplied = service.supplied /\ next.memo = memo
      /\ next.reads = [service.reads EXCEPT ![r] = read]
  BY <1>1, <1>2 DEF Services
<1>4. service' = next
  OBVIOUS
<1> HIDE DEF next
<1>5. Shares(next, refreshes) /\ Checked(next.reads) /\ Grows(service.reads, next.reads)
  BY <1>3, SettleShares DEF DiscoveryInv
<1>6. Shares(service', refreshes')
  BY <1>4, <1>5
<1>7. Checked(service.reads)'
  BY <1>4, <1>5 DEF Checked, Accepted
<1> QED
  BY <1>4, <1>5, <1>6, <1>7 DEF GoesOn, DiscoveryInv

LEMMA FailGoesOn ==
    ASSUME DiscoveryInv, NEW r \in DOMAIN service.reads, service.reads[r].stage \in Underway,
           Fail(r), UNCHANGED <<client, refreshes, offered>>
    PROVE  GoesOn
<1> DEFINE read == [service.reads[r] EXCEPT !.stage = "failed"]
           memo == AfterFailure(r)
<1>1. service \in Services /\ service.reads \in Seq(Reads) /\ service.reads[r] \in Reads
  BY ReadTyped
<1>2. /\ read \in Reads /\ read.stage = "failed" /\ read.since = service.reads[r].since
      /\ read.given = service.reads[r].given
  BY <1>1 DEF Reads
<1>3. memo = IF read.stage = "failed" /\ service.memo = r THEN None ELSE service.memo
  BY <1>2 DEF AfterFailure
<1>4. service' = [service EXCEPT !.reads = [@ EXCEPT ![r] = read], !.memo = memo]
  BY <1>1 DEF Fail, Services
<1> HIDE DEF read, memo
<1> QED
  BY <1>2, <1>3, <1>4, Settles DEF DiscoveryInv

LEMMA TakeGoesOn ==
    ASSUME DiscoveryInv, NEW r \in DOMAIN service.reads, service.reads[r].stage \in Underway,
           NEW description \in Infos, Take(r, description), UNCHANGED <<client, refreshes, offered>>
    PROVE  GoesOn
<1>1. CASE ~Accepted(description)
  BY <1>1, FailGoesOn DEF Take
<1>2. CASE Accepted(description)
  <2> DEFINE read == [service.reads[r] EXCEPT !.stage = "done", !.info = description]
             memo == service.memo
  <2>1. service \in Services /\ service.reads \in Seq(Reads) /\ service.reads[r] \in Reads
    BY ReadTyped
  <2>2. /\ read \in Reads /\ read.stage = "done" /\ read.since = service.reads[r].since
        /\ read.given = service.reads[r].given /\ read.info = description
    BY <2>1 DEF Reads
  <2>3. memo = IF read.stage = "failed" /\ service.memo = r THEN None ELSE service.memo
    BY <2>2
  <2>4. service' = [service EXCEPT !.reads = [@ EXCEPT ![r] = read], !.memo = memo]
    <3> DEFINE half == [service.reads[r] EXCEPT !.stage = "done"]
               one == [service EXCEPT !.reads[r].stage = "done"]
    <3>1. half \in Reads /\ read = [half EXCEPT !.info = description]
      BY <2>1 DEF Reads
    <3>2. one = [service EXCEPT !.reads = [@ EXCEPT ![r] = half]]
      OBVIOUS
    <3> HIDE DEF half, one
    <3>8. [service.reads EXCEPT ![r] = half] \in Seq(Reads)
      BY <2>1, <3>1
    <3>3. one \in Services /\ one.reads = [service.reads EXCEPT ![r] = half]
          /\ one.memo = service.memo /\ one.supplied = service.supplied /\ one.reads[r] = half
      BY <2>1, <3>2, <3>8 DEF Services
    <3>4. service' = [one EXCEPT !.reads[r].info = description]
      BY <1>2 DEF Take, one
    <3>5. service' = [one EXCEPT !.reads = [@ EXCEPT ![r] = read]]
      BY <3>1, <3>3, <3>4
    <3>6. [one.reads EXCEPT ![r] = read] = [service.reads EXCEPT ![r] = read]
      BY <2>1, <3>3
    <3> QED
      BY <2>1, <3>3, <3>5, <3>6 DEF memo, Services
  <2> HIDE DEF read, memo
  <2> QED
    BY <1>2, <2>2, <2>3, <2>4, Settles DEF DiscoveryInv
<1> QED
  BY <1>1, <1>2

LEMMA ProbeGoesOn ==
    ASSUME DiscoveryInv, NEW r \in DOMAIN service.reads, Probe(r)
    PROVE  GoesOn
<1> DEFINE read == [service.reads[r] EXCEPT !.stage = "read"]
           memo == service.memo
<1>1. /\ service \in Services /\ service.reads \in Seq(Reads) /\ service.reads[r] \in Reads
      /\ service.reads[r].stage \in Underway
  BY ReadTyped DEF Probe, Underway
<1>2. /\ read \in Reads /\ read.stage = "read" /\ read.since = service.reads[r].since
      /\ read.given = service.reads[r].given /\ read.stage # "done"
  BY <1>1 DEF Reads, Underway
<1>3. memo = IF read.stage = "failed" /\ service.memo = r THEN None ELSE service.memo
  BY <1>2
<1>4. UNCHANGED <<client, refreshes>> /\ offered' \in Descriptions
  BY DEF Probe, DiscoveryInv
<1>5. CASE Fail(r)
  BY <1>1, <1>5, FailGoesOn DEF Probe
<1>6. CASE service' = [service EXCEPT !.reads[r].stage = "read"]
  <2>1. service' = [service EXCEPT !.reads = [@ EXCEPT ![r] = read]]
    BY <1>6
  <2> HIDE DEF read
  <2>2. service' = [service EXCEPT !.reads = [@ EXCEPT ![r] = read], !.memo = memo]
    BY <1>1, <2>1 DEF Services
  <2> HIDE DEF memo
  <2> QED
    BY <1>1, <1>2, <1>3, <1>4, <2>2, Settles
<1> QED
  BY <1>5, <1>6 DEF Probe

(* The discoveries' own steps, and the server's change of its description. *)
LEMMA DiscoverGoesOn ==
    ASSUME DiscoveryInv, Discover \/ Redescribe
    PROVE  GoesOn
<1>1. CASE Redescribe
  BY <1>1, GrowsNot DEF Redescribe, GoesOn, DiscoveryInv, Checked, Accepted
<1>2. ASSUME NEW r \in DOMAIN service.reads, Given(r) PROVE GoesOn
  <2>1. service.reads[r].info \in Infos /\ service.reads[r].stage \in Underway
    BY <1>2, ReadTyped DEF Given, Underway
  <2> QED
    BY <1>2, <2>1, TakeGoesOn DEF Given
<1>3. ASSUME NEW r \in DOMAIN service.reads, Probe(r) PROVE GoesOn
  BY <1>3, ProbeGoesOn
<1>4. ASSUME NEW r \in DOMAIN service.reads, ReadDescription(r) PROVE GoesOn
  <2>1. offered \in Infos /\ service.reads[r].stage \in Underway
    BY <1>4 DEF ReadDescription, Underway, DiscoveryInv, Infos
  <2> QED
    BY <1>4, <2>1, TakeGoesOn, FailGoesOn DEF ReadDescription
<1> QED
  BY <1>1, <1>2, <1>3, <1>4 DEF Discover
-----------------------------------------------------------------------------
(* The calls.                                                              *)

Walks == {"list", "publicList", "listSpaces"}
Going == {"service", "asked"}
Misled == {"link", "page", "request"}

CallRecords ==
    [op : {None} \union UNION {Ops[c] : c \in Calls}, pc : {"idle"} \union Going \union Finished,
     promise : {None} \union Nat, floor : Nat, dead : SUBSET Nat, url : {None} \union Urls,
     seen : SUBSET Urls, met : SUBSET Items, stood : SUBSET Items,
     why : Misled \union {None, "discovery", "not supported", "no location"}]

FailedIn(reads) == {r \in DOMAIN reads : reads[r].stage = "failed"}

(* What a call has of the discovery it waited on last: one that had not    *)
(* failed when the call began, and that is as fresh as it asked for.       *)
Promised(k, reads) ==
    /\ k.pc = "idle" => k.promise = None
    /\ k.pc = "service" => k.promise # None
    /\ k.promise # None => k.promise \in DOMAIN reads
    /\ k.dead \subseteq FailedIn(reads) /\ k.promise \notin k.dead
    /\ k.promise # None /\ k.floor > 0 =>
         reads[k.promise].since >= k.floor /\ ~reads[k.promise].given

(* What a walk has met: all that stood from its first page on and that its *)
(* next page is not yet due to show.  Only who has yet to learn where the  *)
(* Repository is has no URL.                                               *)
Walked(k, now) ==
    /\ k.pc = "idle" => k.seen = {}
    /\ k.pc \in Going /\ k.url # None =>
         /\ k.url \in Urls /\ Within(k.url)
         /\ k.seen = {} => k.url.cursor = 0
         /\ k.seen # {} => \A i \in k.stood : i \in now /\ (i \in k.met \/ i > k.url.cursor)
    /\ k.pc \in Going /\ k.url = None => k.pc = "service" /\ k.op \in RepositoryOps /\ k.seen = {}
    /\ k.pc # "idle" /\ k.op \notin Walks => k.seen = {}
    /\ k.pc = "done" /\ k.seen # {} => k.stood \subseteq k.met

(* Only a client of a base URL asks for the Spaces Repository.             *)
Local(k) == k.pc # "idle" /\ k.op \in RepositoryOps => client = "base"

CallsInv ==
    /\ faults \in Nat /\ items \subseteq Items /\ call \in [Calls -> CallRecords]
    /\ \A c \in Calls : /\ Promised(call[c], service.reads)
                        /\ Walked(call[c], items) /\ Local(call[c])

IInv == DiscoveryInv /\ CallsInv

(* Where an honest server leads: page after page of the listing, each one  *)
(* further on.                                                             *)
Onward(k) ==
    /\ k.url = Listing \/ k.url.path = <<"page">>
    /\ k.url.cursor \in {0} \union Items
    /\ \A u \in k.seen : u.cursor \in {0} \union Items /\ u.cursor < k.url.cursor
    /\ \A u, v \in k.seen : u.cursor = v.cursor => u = v

Led(k) ==
    k.why \notin Misled /\ (k.pc \in Going /\ k.op \in Walks /\ k.url # None => Onward(k))

Honestly == faults = 0 => style # "circular" /\ \A c \in Calls : Led(call[c])

LEMMA PromisedStays ==
    ASSUME NEW k, NEW reads, NEW next, Grows(reads, next), Promised(k, reads)
    PROVE  Promised(k, next)
  BY DEF Grows, Promised, FailedIn

(* Whoever waits, waits on a discovery that has not failed.                *)
LEMMA AwaitPromised ==
    ASSUME NEW held, NEW since \in Nat, Shares(held, since), Checked(held.reads),
           NEW n, n.pc = "service", n.promise = Get(held, since).memo, n.floor = since,
           n.dead \subseteq FailedIn(held.reads)
    PROVE  Promised(n, Get(held, since).reads)
<1> DEFINE now == Get(held, since)
<1>1. /\ Shares(now, since) /\ now.memo # None /\ Grows(held.reads, now.reads)
  BY GetShares
<1>2. /\ now.memo \in DOMAIN now.reads /\ now.reads[now.memo].stage # "failed"
      /\ now.reads[now.memo].since = since /\ (since > 0 => ~now.reads[now.memo].given)
  BY <1>1 DEF Shares
<1> HIDE DEF now
<1>3. n.dead \subseteq FailedIn(now.reads)
  BY <1>1 DEF Grows, FailedIn
<1>4. now.memo \notin n.dead
  BY <1>2, <1>3 DEF FailedIn
<1>5. n.promise = now.memo
  BY DEF now
<1>6. Promised(n, now.reads)
  BY <1>1, <1>2, <1>3, <1>4, <1>5 DEF Promised
<1> QED
  BY <1>6 DEF now

(* One call takes a step.                                                  *)
LEMMA CallMoves ==
    ASSUME IInv, GoesOn, NEW c \in Calls, NEW n \in CallRecords, Becomes(c, n),
           Promised(n, service'.reads), Walked(n, items), Local(n),
           UNCHANGED items, faults' \in Nat
    PROVE  IInv'
<1>1. /\ call \in [Calls -> CallRecords] /\ items \subseteq Items
      /\ \A d \in Calls : Promised(call[d], service.reads) /\ Walked(call[d], items) /\ Local(call[d])
  BY DEF IInv, CallsInv
<1>2. /\ call' \in [Calls -> CallRecords] /\ call'[c] = n
      /\ \A d \in Calls \ {c} : call'[d] = call[d]
  BY <1>1 DEF Becomes
<1>3. DiscoveryInv' /\ Grows(service.reads, service'.reads) /\ UNCHANGED client
  BY DEF GoesOn
<1>4. \A d \in Calls : Promised(call'[d], service'.reads)
  BY <1>1, <1>2, <1>3, PromisedStays
<1>5. \A d \in Calls : Walked(call'[d], items)
  BY <1>1, <1>2
<1>6. \A d \in Calls : Local(call[d])'
  BY <1>1, <1>2, <1>3 DEF Local
<1> QED
  BY <1>1, <1>2, <1>3, <1>4, <1>5, <1>6 DEF IInv, CallsInv

LEMMA CallTyped ==
    ASSUME IInv, NEW c \in Calls
    PROVE  /\ call[c] \in CallRecords /\ Promised(call[c], service.reads)
           /\ Walked(call[c], items) /\ Local(call[c])
           /\ items \subseteq Items /\ faults \in Nat /\ refreshes \in Nat
           /\ Shares(service, refreshes) /\ Checked(service.reads)
  BY DEF IInv, CallsInv, DiscoveryInv

(* A call that sets out for a page, or for its answer, or for a URL.       *)
Bound(k) ==
    /\ k.url # None =>
         /\ k.url \in Urls /\ Within(k.url)
         /\ k.seen = {} => k.url.cursor = 0
         /\ k.seen # {} => \A i \in k.stood : i \in items /\ (i \in k.met \/ i > k.url.cursor)
    /\ k.url = None => k.op \in RepositoryOps /\ k.seen = {}
    /\ k.op \notin Walks => k.seen = {}
    /\ k.op \in RepositoryOps => client = "base"

LEMMA Apace == Going \intersect Finished = {} /\ "idle" \notin Going /\ "idle" \notin Finished
  BY DEF Going, Finished

LEMMA AwaitKept ==
    ASSUME IInv, NEW c \in Calls, NEW k \in CallRecords, Bound(k),
           NEW held, NEW since \in Nat, Shares(held, since), Checked(held.reads),
           held.reads = service.reads, k.dead \subseteq FailedIn(service.reads),
           Await(c, k, held, since), refreshes' = since,
           UNCHANGED <<client, offered, items>>, faults' \in Nat
    PROVE  IInv'
<1> DEFINE now == Get(held, since)
           n == [k EXCEPT !.pc = "service", !.promise = now.memo, !.floor = since]
<1>1. /\ Shares(now, since) /\ Checked(now.reads) /\ now.memo \in Nat
      /\ Grows(held.reads, now.reads)
  BY GetShares
<1>2. service' = now /\ Becomes(c, n)
  BY DEF Await
<1>3. GoesOn
  BY <1>1, <1>2 DEF GoesOn, DiscoveryInv, IInv, Checked, Accepted
<1> HIDE DEF now
<1>4. /\ n \in CallRecords /\ n.pc = "service" /\ n.promise = now.memo /\ n.floor = since
      /\ n.dead = k.dead /\ n.url = k.url /\ n.seen = k.seen /\ n.met = k.met
      /\ n.stood = k.stood /\ n.op = k.op
  BY <1>1 DEF CallRecords, Going
<1> HIDE DEF n
<1>5. Promised(n, service'.reads)
  BY <1>2, <1>4, AwaitPromised DEF now
<1>6. Walked(n, items) /\ Local(n)
  BY <1>4, Apace DEF Walked, Local, Bound, Going
<1> QED
  BY <1>2, <1>3, <1>4, <1>5, <1>6, CallMoves

LEMMA Idly ==
    ASSUME DiscoveryInv, UNCHANGED <<client, service, refreshes, offered>>
    PROVE  GoesOn
  BY GrowsNot DEF GoesOn, DiscoveryInv, Checked, Accepted

LEMMA AskKept ==
    ASSUME IInv, NEW c \in Calls, NEW k \in CallRecords, Bound(k), k.url # None,
           Promised([k EXCEPT !.pc = "asked"], service.reads), Ask(c, k),
           UNCHANGED <<client, service, refreshes, offered, items>>, faults' \in Nat
    PROVE  IInv'
<1> DEFINE n == [k EXCEPT !.pc = "asked"]
<1>1. /\ n \in CallRecords /\ n.pc = "asked" /\ n.url = k.url /\ n.seen = k.seen
      /\ n.met = k.met /\ n.stood = k.stood /\ n.op = k.op
  BY DEF CallRecords, Going
<1>2. Becomes(c, n) /\ Promised(n, service.reads)
  BY DEF Ask
<1> HIDE DEF n
<1>3. GoesOn
  BY Idly DEF IInv
<1>4. Walked(n, items) /\ Local(n)
  BY <1>1, Apace DEF Walked, Local, Bound, Going
<1> QED
  BY <1>1, <1>2, <1>3, <1>4, CallMoves

LEMMA FinishKept ==
    ASSUME IInv, NEW c \in Calls, call[c].pc \in Going, NEW pc \in Finished,
           NEW why \in Misled \union {None, "discovery", "not supported", "no location"},
           pc = "done" => call[c].op \notin Walks, Finish(c, pc, why),
           UNCHANGED <<client, service, refreshes, offered, items>>, faults' \in Nat
    PROVE  IInv'
<1> DEFINE k == call[c]
           n == [k EXCEPT !.pc = pc, !.why = why, !.url = None]
<1>1. k \in CallRecords /\ Promised(k, service.reads) /\ Walked(k, items) /\ Local(k)
  BY CallTyped
<1>2. Becomes(c, n)
  BY DEF Finish
<1>3. k.pc \in Going /\ (pc = "done" => k.op \notin Walks)
  OBVIOUS
<1> HIDE DEF k
<1>4. /\ n \in CallRecords /\ n.pc = pc /\ n.seen = k.seen /\ n.op = k.op
      /\ n.promise = k.promise /\ n.floor = k.floor /\ n.dead = k.dead
  BY <1>1 DEF CallRecords
<1> HIDE DEF n
<1>5. GoesOn
  BY Idly DEF IInv
<1>6. Promised(n, service'.reads)
  BY <1>1, <1>4, Apace DEF Promised, Going, Finished
<1>7. Walked(n, items) /\ Local(n)
  BY <1>1, <1>3, <1>4, Apace DEF Walked, Local
<1> QED
  BY <1>2, <1>4, <1>5, <1>6, <1>7, CallMoves
-----------------------------------------------------------------------------
(* One lemma per step.                                                     *)

LEMMA ListingUrl == Listing \in Urls /\ Within(Listing) /\ Listing.cursor = 0 /\ Listing # None
<1>1. Listing \in Urls /\ Within(Listing) /\ Listing.cursor = 0
  BY DEF Listing, At, Urls, Places, Within
<1> QED
  BY <1>1, NoneApart DEF NoneApart

LEMMA StartKept ==
    ASSUME IInv, NEW c \in Calls, Start(c)
    PROVE  IInv'
<1> DEFINE idle == call[c]
<1>1. /\ idle \in CallRecords /\ idle.pc = "idle" /\ idle.promise = None /\ idle.seen = {}
      /\ service \in Services /\ service.reads \in Seq(Reads)
      /\ refreshes \in Nat /\ Shares(service, refreshes) /\ Checked(service.reads)
      /\ faults' \in Nat /\ UNCHANGED <<client, offered, items>>
  BY CallTyped DEF Start, Promised, Walked, Shares, Services
<1>2. PICK op \in Ops[c] :
        LET begun == [idle EXCEPT !.op = op, !.dead = Failed,
                                  !.url = IF op \in RepositoryOps THEN None ELSE Listing]
        IN \/ /\ op = "refresh" /\ refreshes' = refreshes + 1
              /\ Await(c, begun, Reset(service), refreshes + 1)
           \/ /\ op \in RepositoryOps => client = "base"
              /\ Await(c, begun, service, refreshes) /\ UNCHANGED refreshes
           \/ op = "publicList" /\ Ask(c, begun) /\ UNCHANGED <<service, refreshes>>
  BY DEF Start, Signed
<1> DEFINE url == IF op \in RepositoryOps THEN None ELSE Listing
           begun == [idle EXCEPT !.op = op, !.dead = Failed, !.url = url]
<1>3. Failed = FailedIn(service.reads) /\ Failed \subseteq Nat
  BY <1>1 DEF Failed, FailedIn
<1>4. op \in UNION {Ops[d] : d \in Calls}
  OBVIOUS
<1> HIDE DEF idle, url
<1>5. /\ begun \in CallRecords /\ begun.url = url /\ begun.seen = {} /\ begun.op = op
      /\ begun.dead = Failed /\ begun.promise = None
  <2>1. url \in {None} \union Urls
    BY ListingUrl DEF url
  <2> QED
    BY <1>1, <1>3, <1>4, <2>1 DEF CallRecords
<1>6. op \in RepositoryOps => client = "base"
  BY <1>2 DEF RepositoryOps
<1>7. Bound(begun)
  BY <1>5, <1>6, ListingUrl DEF Bound, url
<1>8. CASE op = "refresh" /\ refreshes' = refreshes + 1
           /\ Await(c, begun, Reset(service), refreshes + 1)
  <2> HIDE DEF begun
  <2>1. /\ Shares(Reset(service), refreshes + 1) /\ Checked(Reset(service).reads)
        /\ Reset(service).reads = service.reads /\ refreshes + 1 \in Nat
    BY <1>1, ResetShares
  <2> QED
    BY <1>1, <1>3, <1>5, <1>7, <1>8, <2>1, AwaitKept
<1>9. CASE Await(c, begun, service, refreshes) /\ UNCHANGED refreshes
  <2> HIDE DEF begun
  <2> QED
    BY <1>1, <1>3, <1>5, <1>7, <1>9, AwaitKept
<1>10. CASE op = "publicList" /\ Ask(c, begun) /\ UNCHANGED <<service, refreshes>>
  <2> DEFINE n == [begun EXCEPT !.pc = "asked"]
  <2> HIDE DEF begun
  <2>1. n.pc = "asked" /\ n.promise = None /\ n.dead = Failed
    BY <1>5 DEF CallRecords
  <2> HIDE DEF n
  <2>2. Promised(n, service.reads)
    BY <1>3, <2>1, DiscoveryBounds DEF Promised, DiscoveryBounds
  <2>3. begun.url # None
    BY <1>5, <1>10, ListingUrl DEF RepositoryOps, url
  <2> QED
    BY <1>1, <1>5, <1>7, <1>10, <2>2, <2>3, AskKept DEF n
<1> QED
  BY <1>2, <1>8, <1>9, <1>10 DEF url

LEMMA RejectedKept ==
    ASSUME IInv, NEW c \in Calls, Rejected(c)
    PROVE  IInv'
<1>1. call[c].pc \in Going /\ "failed" \in Finished /\ Finish(c, "failed", "discovery")
  BY DEF Rejected, Going, Finished
<1>2. UNCHANGED <<client, service, refreshes, offered, items>> /\ faults' \in Nat
  BY CallTyped DEF Rejected, discoveryVars
<1> QED
  BY <1>1, <1>2, FinishKept

(* A description in use names a Repository of its own server, or none.     *)
LEMMA SpacesHere ==
    ASSUME IInv, NEW r \in DOMAIN service.reads, service.reads[r].stage = "done", client = "base"
    PROVE  service.reads[r].info.spaces \in {"here", None}
  BY DEF IInv, DiscoveryInv, Checked, Accepted

LEMMA DescribedKept ==
    ASSUME IInv, NEW c \in Calls, Described(c)
    PROVE  IInv'
<1> DEFINE k == call[c]
<1>1. /\ k \in CallRecords /\ Promised(k, service.reads) /\ Walked(k, items) /\ Local(k)
      /\ k.pc = "service" /\ k.pc \in Going /\ refreshes \in Nat
      /\ Shares(service, refreshes) /\ Checked(service.reads)
      /\ UNCHANGED <<client, refreshes, offered, items>> /\ faults' \in Nat
  BY CallTyped DEF Described, discoveryVars, Going
<1>2. k.promise \in DOMAIN service.reads /\ service.reads[k.promise].stage = "done"
  BY <1>1 DEF Promised, Described
<1>3. CASE k.op \in {"service", "refresh"}
  <2>1. Finish(c, "done", None) /\ UNCHANGED service
    BY <1>3 DEF Described, RepositoryOps
  <2>2. k.op \notin Walks /\ "done" \in Finished
    BY <1>3 DEF Walks, Finished
  <2> QED
    BY <1>1, <2>1, <2>2, FinishKept
<1>4. CASE k.op \in RepositoryOps /\ k.url = None
  <2> DEFINE spaces == service.reads[k.promise].info.spaces
             url == [Listing EXCEPT !.place = spaces]
             next == [k EXCEPT !.url = url]
  <2>1. client = "base"
    BY <1>1, <1>4 DEF Local
  <2>2. CASE spaces = None
    <3>1. Finish(c, "failed", "not supported") /\ UNCHANGED service /\ "failed" \in Finished
      BY <1>4, <2>2 DEF Described, RepositoryOps, Finished
    <3> QED
      BY <1>1, <3>1, FinishKept
  <2>3. CASE spaces # None
    <3>1. spaces = "here"
      BY <1>2, <2>1, <2>3, SpacesHere
    <3>2. url = Listing
      BY <3>1 DEF Listing, At
    <3>3. Await(c, next, service, refreshes)
      BY <1>4, <2>3 DEF Described, RepositoryOps
    <3>4. k.seen = {} /\ k.dead \subseteq FailedIn(service.reads)
      BY <1>1, <1>4 DEF Walked, Promised
    <3> HIDE DEF url, k
    <3>5. /\ next \in CallRecords /\ next.url = Listing /\ next.seen = {}
          /\ next.op = k.op /\ next.dead = k.dead
      BY <1>1, <3>2, <3>4, ListingUrl DEF CallRecords
    <3> HIDE DEF next
    <3>6. Bound(next)
      BY <2>1, <3>5, ListingUrl DEF Bound
    <3> QED
      BY <1>1, <3>3, <3>4, <3>5, <3>6, AwaitKept
  <2> QED
    BY <2>2, <2>3
<1>5. CASE k.op \notin {"service", "refresh"} /\ k.url # None
  <2>1. Ask(c, k) /\ UNCHANGED service
    BY <1>5 DEF Described
  <2>2. k.url # None
    BY <1>5
  <2>3. Bound(k)
    BY <1>1, <2>2, Apace DEF Bound, Walked, Local
  <2> DEFINE n == [k EXCEPT !.pc = "asked"]
  <2> HIDE DEF k
  <2>4. /\ n.pc = "asked" /\ n.dead = k.dead /\ n.promise = k.promise /\ n.floor = k.floor
    BY <1>1 DEF CallRecords
  <2> HIDE DEF n
  <2>5. Promised(n, service.reads)
    BY <1>1, <2>4 DEF Promised
  <2> QED
    BY <1>1, <2>1, <2>2, <2>3, <2>5, AskKept DEF n
<1> QED
  BY <1>3, <1>4, <1>5 DEF Described

LEMMA CreatedKept ==
    ASSUME IInv, NEW c \in Calls, Created(c)
    PROVE  IInv'
<1>1. /\ call[c].pc \in Going /\ call[c].op \notin Walks
      /\ UNCHANGED <<client, service, refreshes, offered, items>> /\ faults \in Nat
  BY CallTyped DEF Created, Going, Walks
<1>2. CASE Finish(c, "done", None) /\ UNCHANGED faults
  BY <1>1, <1>2, FinishKept DEF Finished
<1>3. CASE faults' = faults + 1 /\ Finish(c, "failed", "no location")
  <2>1. faults' = faults + 1 /\ Finish(c, "failed", "no location")
    BY <1>3
  <2>2. faults' \in Nat
    <3>1. faults \in Nat
      BY <1>1
    <3>2. faults' = faults + 1
      BY <2>1
    <3> QED
      BY <3>1, <3>2
  <2>3. "failed" \in Finished
    BY DEF Finished
  <2> QED
    BY <1>1, <2>1, <2>2, <2>3, FinishKept
<1> QED
  BY <1>2, <1>3 DEF Created
-----------------------------------------------------------------------------
(* Pages and links.                                                        *)

Below == {pair \in Nat \X Nat : pair[1] < pair[2]}

LEMMA LeastItem ==
    ASSUME NEW some \in SUBSET Nat, some # {}
    PROVE  Min(some) \in some /\ \A i \in some : Min(some) <= i
<1>1. IsWellFoundedOn(Below, Nat)
  BY NatLessThanWellFounded DEF OpToRel, Below
<1>2. PICK least \in some : \A i \in some : <<i, least>> \notin Below
  BY <1>1, WFMin
<1>3. ASSUME NEW i \in some PROVE least <= i
  <2>1. i \in Nat /\ least \in Nat
    OBVIOUS
  <2>2. ~(i < least)
    <3> SUFFICES ASSUME i < least PROVE FALSE
      OBVIOUS
    <3>1. <<i, least>> \in Below
      BY <2>1 DEF Below
    <3> QED
      BY <1>2, <3>1
  <2> QED
    BY <2>1, <2>2
<1> QED
  BY <1>3 DEF Min

LEMMA AtMostOne ==
    ASSUME NEW some \in SUBSET Items, Cardinality(some) < 2, NEW i \in some, NEW j \in some
    PROVE  i = j
<1> SUFFICES ASSUME i # j PROVE FALSE
  OBVIOUS
<1>1. IsFiniteSet(some)
  BY ListingBounds, FS_Subset DEF ListingBounds
<1>2. {i, j} = {i} \union {j} /\ j \notin {i}
  OBVIOUS
<1>3. Cardinality({i}) = 1 /\ IsFiniteSet({i})
  BY FS_Singleton
<1>4. Cardinality({i, j}) = 2
  BY <1>2, <1>3, FS_AddElement
<1>5. Cardinality({i, j}) <= Cardinality(some)
  BY <1>1, FS_Subset
<1>6. Cardinality(some) \in Nat
  BY <1>1, FS_CardinalityType
<1> QED
  BY <1>4, <1>5, <1>6

(* What a page and its link owe the walk: an item after the page's cursor  *)
(* is on the page, or after the cursor of the next.                        *)
Owed(url, page, next) ==
    /\ next = None => After(url.cursor) \subseteq page
    /\ next # None => \A i \in After(url.cursor) : i \in page \/ i > next.cursor

LEMMA AfterTyped ==
    ASSUME items \subseteq Items, NEW cursor \in Nat
    PROVE  /\ After(cursor) \subseteq Items /\ After(cursor) \subseteq Nat
           /\ PageAt(cursor) \subseteq After(cursor)
           /\ After(cursor) # {} => /\ Min(After(cursor)) \in After(cursor)
                                    /\ \A i \in After(cursor) : Min(After(cursor)) <= i
                                    /\ PageAt(cursor) = {Min(After(cursor))}
<1>1. After(cursor) \subseteq Items /\ After(cursor) \subseteq Nat
  BY ListingBounds DEF ListingBounds, After
<1> QED
  BY <1>1, LeastItem DEF PageAt

LEMMA LinkOwes ==
    ASSUME items \subseteq Items, NEW url \in Urls
    PROVE  /\ LinkAfter(url) \in Urls \union {None}
           /\ Owed(url, PageAt(url.cursor), LinkAfter(url))
<1> DEFINE after == After(url.cursor)
           last == Min(after)
           away == style = "relative"
           place == IF away THEN "relative" ELSE "here"
           path == IF away /\ url.path # <<>> THEN <<>> ELSE <<"page">>
<1>1. url.cursor \in Nat
  BY DEF Urls
<1>2. after \subseteq Items /\ after \subseteq Nat /\ PageAt(url.cursor) \subseteq after
      /\ (after # {} => last \in after /\ PageAt(url.cursor) = {last} /\ \A i \in after : last <= i)
  BY <1>1, AfterTyped
<1>3. CASE Cardinality(after) < 2
  <2>1. \A i \in after : i \in PageAt(url.cursor)
    <3> SUFFICES ASSUME NEW i \in after PROVE i = last /\ last \in PageAt(url.cursor)
      OBVIOUS
    <3> HIDE DEF after, last
    <3> QED
      BY <1>2, <1>3, AtMostOne
  <2>2. LinkAfter(url) \in {Listing, None}
    BY <1>3 DEF LinkAfter
  <2> QED
    BY <2>1, <2>2, ListingUrl DEF Owed
<1>4. CASE ~(Cardinality(after) < 2)
  <2>1. after # {}
    BY <1>4, FS_EmptySet
  <2>2. LinkAfter(url) = At(place, path, last)
    BY <1>4 DEF LinkAfter
  <2>3. At(place, path, last) \in Urls /\ At(place, path, last).cursor = last
    <3>1. place \in Places
      BY DEF Places
    <3>2. last \in Nat
      BY <1>2, <2>1
    <3>3. path = <<>> \/ path = <<"page">>
      OBVIOUS
    <3> HIDE DEF place, path, last
    <3>4. path \in Seq({"page"})
      <4>1. <<"page">> \in Seq({"page"}) /\ <<>> \in Seq({"page"})
        OBVIOUS
      <4> QED
        BY <3>3, <4>1
    <3> QED
      BY <3>1, <3>2, <3>4 DEF At, Urls
  <2>4. \A i \in after : i \in PageAt(url.cursor) \/ i > last
    <3> SUFFICES ASSUME NEW i \in after PROVE i = last \/ i > last
      BY <1>2, <2>1
    <3> QED
      BY <1>2, <2>1
  <2> HIDE DEF place, path, last, after
  <2> QED
    BY <2>2, <2>3, <2>4, NoneApart DEF NoneApart, Owed, after
<1> QED
  BY <1>3, <1>4

LEMMA MisleadingOwes ==
    ASSUME items \subseteq Items, NEW next \in Misleading, NEW url \in Urls, NEW page
    PROVE  next \in Urls /\ Owed(url, page, next)
<1>1. next \in Urls /\ next.cursor = 0
  <2>1. <<"page">> \in Seq({"page"}) /\ <<>> \in Seq({"page"})
    OBVIOUS
  <2>2. CASE next \in {At(place, <<"page">>, 0) : place \in {"here", "elsewhere", "credentials"}}
    <3>1. PICK place \in {"here", "elsewhere", "credentials"} : next = At(place, <<"page">>, 0)
      BY <2>2
    <3>2. place \in Places
      BY DEF Places
    <3> QED
      BY <2>1, <3>1, <3>2 DEF At, Urls
  <2>3. CASE next = NotUrl
    <3>1. "not a URL" \in Places
      BY DEF Places
    <3> QED
      BY <2>1, <2>3, <3>1 DEF NotUrl, At, Urls
  <2> QED
    BY <2>2, <2>3, ListingUrl DEF Misleading
<1>2. \A i \in After(url.cursor) : i \in Nat \ {0}
  BY ListingBounds DEF ListingBounds, After
<1>3. next # None
  BY <1>1, NoneApart DEF NoneApart
<1> QED
  BY <1>1, <1>2, <1>3 DEF Owed

LEMMA ResolveTyped ==
    ASSUME NEW next \in Urls, NEW page \in Urls
    PROVE  Resolve(next, page) \in Urls /\ Resolve(next, page).cursor = next.cursor
<1>1. /\ page.place \in Places /\ page.path \in Seq({"page"}) /\ next.path \in Seq({"page"})
  BY DEF Urls
<1>2. page.path \o next.path \in Seq({"page"})
  BY <1>1
<1> QED
  BY <1>1, <1>2 DEF Resolve, Urls

(* A page arrives.                                                         *)
LEMMA PageKept ==
    ASSUME IInv, NEW c \in Calls, call[c].pc = "asked", call[c].op \in Walks,
           NEW page \in SUBSET Items, NEW next \in Urls \union {None},
           Owed(call[c].url, page, next), Page(c, page, next),
           UNCHANGED <<client, refreshes, offered, items>>, faults' \in Nat
    PROVE  IInv'
<1> DEFINE k == call[c]
           seen == k.seen \union {k.url}
           stood == IF k.seen = {} THEN items ELSE k.stood
           url == Resolve(next, k.url)
           met == [k EXCEPT !.met = @ \union page, !.seen = seen, !.stood = stood]
           on == [met EXCEPT !.url = url]
<1>1. /\ k \in CallRecords /\ Promised(k, service.reads) /\ Walked(k, items) /\ Local(k)
      /\ items \subseteq Items /\ refreshes \in Nat
      /\ Shares(service, refreshes) /\ Checked(service.reads)
      /\ k.pc = "asked" /\ k.pc \in Going /\ k.op \in Walks
  BY CallTyped DEF Going
<1>2. /\ k.url \in Urls /\ k.seen \in SUBSET Urls /\ k.stood \in SUBSET Items
      /\ k.met \in SUBSET Items /\ k.url.cursor \in Nat
  BY <1>1 DEF Walked, CallRecords, Urls
<1>3. \A i \in stood : i \in items /\ (i \in k.met \/ i > k.url.cursor)
  BY <1>1, <1>2, ListingBounds DEF ListingBounds, Walked
<1>4. \A i \in stood : i \in k.met \union page \/ (next # None /\ i > next.cursor)
  BY <1>3 DEF Owed, After
<1>5. /\ seen \in SUBSET Urls /\ seen # {} /\ stood \in SUBSET Items
      /\ k.met \union page \in SUBSET Items
  BY <1>1, <1>2
<1> HIDE DEF k, seen, stood
<1>6. /\ met \in CallRecords /\ met.met = k.met \union page /\ met.seen = seen
      /\ met.stood = stood /\ met.op = k.op /\ met.dead = k.dead
      /\ met.promise = k.promise /\ met.floor = k.floor /\ met.pc = k.pc
  BY <1>1, <1>5 DEF CallRecords
<1> HIDE DEF met
<1>7. ASSUME NEW n \in CallRecords, n.pc \in {"done", "failed"}, n.pc = "done" => next = None,
             n.seen = seen, n.op = k.op, n.dead = k.dead, n.promise = k.promise,
             n.floor = k.floor, n.stood = stood, n.met = k.met \union page,
             Becomes(c, n), UNCHANGED service
      PROVE  IInv'
  <2>1. GoesOn
    BY <1>7, Idly DEF IInv
  <2>2. n.pc \notin Going /\ n.pc # "idle"
    BY <1>7 DEF Going
  <2>3. Promised(n, service'.reads)
    BY <1>1, <1>7, <2>2 DEF Promised, Going
  <2>4. Walked(n, items) /\ Local(n)
    BY <1>1, <1>4, <1>7, <2>2, Apace DEF Walked, Local
  <2> QED
    BY <1>7, <2>1, <2>3, <2>4, CallMoves
<1>8. CASE next = None /\ Becomes(c, [met EXCEPT !.pc = "done", !.url = None]) /\ UNCHANGED service
  <2> DEFINE n == [met EXCEPT !.pc = "done", !.url = None]
  <2>1. /\ n \in CallRecords /\ n.pc = "done" /\ n.seen = seen /\ n.op = k.op /\ n.dead = k.dead
        /\ n.promise = k.promise /\ n.floor = k.floor /\ n.stood = stood
        /\ n.met = k.met \union page
    BY <1>6 DEF CallRecords, Finished
  <2>2. Becomes(c, n) /\ UNCHANGED service /\ next = None
    BY <1>8
  <2> HIDE DEF n
  <2> QED
    BY <1>7, <2>1, <2>2
<1>9. CASE Becomes(c, [met EXCEPT !.pc = "failed", !.why = "link", !.url = None]) /\ UNCHANGED service
  <2> DEFINE n == [met EXCEPT !.pc = "failed", !.why = "link", !.url = None]
  <2>1. /\ n \in CallRecords /\ n.pc = "failed" /\ n.seen = seen /\ n.op = k.op /\ n.dead = k.dead
        /\ n.promise = k.promise /\ n.floor = k.floor /\ n.stood = stood
        /\ n.met = k.met \union page
    BY <1>6 DEF CallRecords, Finished, Misled
  <2>2. Becomes(c, n) /\ UNCHANGED service
    BY <1>9
  <2> HIDE DEF n
  <2> QED
    BY <1>7, <2>1, <2>2
<1>10. ASSUME next # None, Within(url)
       PROVE  /\ on \in CallRecords /\ Bound(on) /\ on.url # None /\ on.dead = k.dead
              /\ on.promise = k.promise /\ on.floor = k.floor
  <2>1. next \in Urls
    BY <1>10
  <2>2. url \in Urls /\ url.cursor = next.cursor
    BY <1>2, <2>1, ResolveTyped
  <2> HIDE DEF url
  <2>3. /\ on \in CallRecords /\ on.url = url /\ on.met = k.met \union page /\ on.seen = seen
        /\ on.stood = stood /\ on.op = k.op /\ on.dead = k.dead
        /\ on.promise = k.promise /\ on.floor = k.floor
    BY <1>6, <2>2 DEF CallRecords
  <2> HIDE DEF on
  <2>4. Bound(on) /\ on.url # None
    BY <1>1, <1>3, <1>4, <1>5, <1>10, <2>2, <2>3, Apace, NoneApart DEF Bound, Local, NoneApart
  <2> QED
    BY <2>3, <2>4
<1>11. k.dead \subseteq FailedIn(service.reads)
  BY <1>1 DEF Promised
<1>12. CASE next # None /\ Within(url) /\ Await(c, on, service, refreshes)
  <2>1. /\ on \in CallRecords /\ Bound(on) /\ on.dead = k.dead
        /\ Await(c, on, service, refreshes)
    BY <1>10, <1>12
  <2> HIDE DEF on
  <2> QED
    BY <1>1, <1>11, <2>1, AwaitKept
<1>13. CASE next # None /\ Within(url) /\ Ask(c, on) /\ UNCHANGED service
  <2>1. /\ on \in CallRecords /\ Bound(on) /\ on.url # None /\ on.dead = k.dead
        /\ on.promise = k.promise /\ on.floor = k.floor
    BY <1>10, <1>13
  <2>2. Ask(c, on) /\ UNCHANGED service
    BY <1>13
  <2> DEFINE n == [on EXCEPT !.pc = "asked"]
  <2> HIDE DEF on
  <2>3. n.pc = "asked" /\ n.dead = k.dead /\ n.promise = k.promise /\ n.floor = k.floor
    BY <2>1 DEF CallRecords
  <2> HIDE DEF n
  <2>4. Promised(n, service.reads)
    BY <1>1, <2>3 DEF Promised
  <2> QED
    BY <1>1, <2>1, <2>2, <2>4, AskKept DEF n
<1>14. \/ next = None /\ Becomes(c, [met EXCEPT !.pc = "done", !.url = None]) /\ UNCHANGED service
       \/ Becomes(c, [met EXCEPT !.pc = "failed", !.why = "link", !.url = None]) /\ UNCHANGED service
       \/ next # None /\ Within(url) /\ Await(c, on, service, refreshes)
       \/ next # None /\ Within(url) /\ Ask(c, on) /\ UNCHANGED service
  <2> HIDE DEF url
  <2> QED
    BY DEF Page, k, met, seen, stood, url
<1> QED
  BY <1>8, <1>9, <1>12, <1>13, <1>14

LEMMA AnswerKept ==
    ASSUME IInv, NEW c \in Calls, Answer(c)
    PROVE  IInv'
<1> DEFINE url == call[c].url
<1>1. /\ call[c].pc = "asked" /\ call[c].pc \in Going /\ call[c].op \in Walks
      /\ UNCHANGED <<client, refreshes, offered, items>> /\ UNCHANGED faults
      /\ items \subseteq Items
  BY CallTyped DEF Answer, Walks, Going
<1>2. url \in Urls /\ url.cursor \in Nat
  BY <1>1, CallTyped DEF Walked, Urls
<1>3. faults' \in Nat
  BY <1>1, CallTyped
<1>4. CASE Page(c, PageAt(url.cursor), LinkAfter(url))
  <2>1. /\ PageAt(url.cursor) \in SUBSET Items /\ LinkAfter(url) \in Urls \union {None}
        /\ Owed(url, PageAt(url.cursor), LinkAfter(url))
    BY <1>1, <1>2, AfterTyped, LinkOwes
  <2> QED
    BY <1>1, <1>3, <1>4, <2>1, PageKept
<1>5. CASE Finish(c, Missing(c), "page") /\ UNCHANGED service
  <2>1. Missing(c) \in Finished /\ Missing(c) # "done"
    BY DEF Missing, Unlisted, Finished
  <2>2. "page" \in Misled
    BY DEF Misled
  <2>3. Finish(c, Missing(c), "page") /\ UNCHANGED service
    BY <1>5
  <2> QED
    BY <1>1, <1>3, <2>1, <2>2, <2>3, FinishKept
<1> QED
  BY <1>4, <1>5 DEF Answer

LEMMA MisleadKept ==
    ASSUME IInv, NEW c \in Calls, Mislead(c)
    PROVE  IInv'
<1> DEFINE url == call[c].url
<1>1. /\ call[c].pc = "asked" /\ call[c].pc \in Going /\ call[c].op \in Walks
      /\ UNCHANGED <<client, refreshes, offered, items>> /\ faults' = faults + 1
      /\ items \subseteq Items
  BY CallTyped DEF Mislead, Walks, Going
<1>2. url \in Urls /\ url.cursor \in Nat
  BY <1>1, CallTyped DEF Walked, Urls
<1>3. faults' \in Nat
  <2>1. faults \in Nat /\ faults' = faults + 1
    BY <1>1, CallTyped
  <2> QED
    BY <2>1
<1>4. ASSUME NEW next \in Misleading, Page(c, PageAt(url.cursor), next)
      PROVE  IInv'
  <2>1. /\ PageAt(url.cursor) \in SUBSET Items /\ next \in Urls \union {None}
        /\ Owed(url, PageAt(url.cursor), next)
    BY <1>1, <1>2, AfterTyped, MisleadingOwes
  <2> QED
    BY <1>1, <1>3, <1>4, <2>1, PageKept
<1>5. /\ Missing(c) \in Finished /\ Missing(c) # "done"
      /\ "failed" \in Finished /\ "page" \in Misled /\ "request" \in Misled
  BY DEF Missing, Unlisted, Finished, Misled
<1>6. CASE Finish(c, Missing(c), "page") /\ UNCHANGED service
  <2>1. Finish(c, Missing(c), "page") /\ UNCHANGED service
    BY <1>6
  <2> QED
    BY <1>1, <1>3, <1>5, <2>1, FinishKept
<1>7. CASE Finish(c, "failed", "request") /\ UNCHANGED service
  <2>1. Finish(c, "failed", "request") /\ UNCHANGED service
    BY <1>7
  <2> QED
    BY <1>1, <1>3, <1>5, <2>1, FinishKept
<1> QED
  BY <1>4, <1>6, <1>7 DEF Mislead

(* An item that goes no longer stands, and one that comes never did.       *)
LEMMA ChangeKept ==
    ASSUME IInv, Change
    PROVE  IInv'
<1>1. /\ items \subseteq Items /\ call \in [Calls -> CallRecords] /\ DiscoveryInv
      /\ \A c \in Calls : /\ Promised(call[c], service.reads)
                          /\ Walked(call[c], items) /\ Local(call[c])
      /\ faults \in Nat
  BY DEF IInv, CallsInv
<1>2. UNCHANGED <<client, service, refreshes, offered, faults>> /\ items' \subseteq Items
  BY <1>1 DEF Change
<1>3. ASSUME NEW c \in Calls
      PROVE  /\ call'[c] \in CallRecords /\ Promised(call'[c], service.reads)
             /\ Walked(call'[c], items') /\ Local(call[c])'
  <2> DEFINE k == call[c]
             n == [k EXCEPT !.stood = @ \intersect items']
  <2>1. k \in CallRecords /\ Promised(k, service.reads) /\ Walked(k, items) /\ Local(k)
    BY <1>1
  <2>2. call'[c] = n
    BY DEF Change
  <2> HIDE DEF k
  <2>3. k.stood \in SUBSET Items
    BY <2>1 DEF CallRecords
  <2>4. /\ n \in CallRecords /\ n.stood = k.stood \intersect items' /\ n.pc = k.pc /\ n.op = k.op
        /\ n.promise = k.promise /\ n.floor = k.floor /\ n.dead = k.dead /\ n.url = k.url
        /\ n.seen = k.seen /\ n.met = k.met
    BY <2>1, <2>3 DEF CallRecords
  <2> HIDE DEF n
  <2>5. Promised(n, service.reads)
    BY <2>1, <2>4 DEF Promised
  <2>6. Walked(n, items')
    BY <2>1, <2>4 DEF Walked
  <2>7. Local(call[c])'
    BY <1>2, <2>1, <2>2, <2>4 DEF Local
  <2> QED
    BY <2>2, <2>4, <2>5, <2>6, <2>7
<1>4. call' \in [Calls -> CallRecords]
  <2>1. call' = [c \in Calls |-> call'[c]]
    BY DEF Change
  <2> QED
    BY <1>3, <2>1
<1>5. DiscoveryInv'
  BY <1>1, <1>2, Idly DEF GoesOn
<1> QED
  BY <1>1, <1>2, <1>3, <1>4, <1>5 DEF IInv, CallsInv
-----------------------------------------------------------------------------
(* The invariant holds.                                                    *)

LEMMA InitHolds == Init => IInv
<1> SUFFICES ASSUME Init PROVE IInv
  OBVIOUS
<1>1. offered \in Descriptions /\ [offered EXCEPT !.spaces = None] \in Descriptions
  <2>1. offered = [speaks |-> TRUE, of |-> "here", spaces |-> "here"]
    BY DEF Init, InitDiscovery
  <2>2. \A place \in {"here", None} :
          [speaks |-> TRUE, of |-> "here", spaces |-> place] \in Descriptions
    BY DEF Descriptions
  <2>3. [offered EXCEPT !.spaces = None] = [speaks |-> TRUE, of |-> "here", spaces |-> None]
    <3> DEFINE e == [offered EXCEPT !.spaces = None]
    <3>1. offered \in [speaks : {TRUE}, of : {"here"}, spaces : {"here"}]
      BY <2>1
    <3>2. e \in [speaks : {TRUE}, of : {"here"}, spaces : {None}]
      BY <3>1
    <3> HIDE DEF e
    <3>3. e.speaks = TRUE /\ e.of = "here" /\ e.spaces = None
      BY <3>2
    <3>4. e = [speaks |-> TRUE, of |-> "here", spaces |-> None]
      BY <3>2, <3>3
    <3> QED
      BY <3>4 DEF e
  <2> QED
    BY <2>1, <2>2, <2>3
<1>2. PICK supplied \in {None, [offered EXCEPT !.spaces = None]} :
        service = [memo |-> None, supplied |-> supplied, reads |-> <<>>]
  BY DEF Init, InitDiscovery
<1>3. supplied \in Infos
  BY <1>1 DEF Infos
<1>4. <<>> \in Seq(Reads) /\ DOMAIN <<>> = {}
  OBVIOUS
<1>5. service \in Services /\ service.memo = None /\ DOMAIN service.reads = {}
  BY <1>2, <1>3, <1>4 DEF Services
<1>6. refreshes = 0 /\ faults = 0 /\ items \subseteq Items /\ call = [c \in Calls |-> Idle]
  BY DEF Init, InitDiscovery
<1>7. DiscoveryInv
  BY <1>1, <1>5, <1>6 DEF DiscoveryInv, Shares, Checked, Apart
<1>8. Idle \in CallRecords
  BY DEF Idle, CallRecords
<1>9. Promised(Idle, service.reads) /\ Walked(Idle, items)
  BY Apace DEF Idle, Promised, Walked, Going
<1>10. \A c \in Calls : Local(call[c])
  BY <1>6 DEF Local, Idle
<1> QED
  BY <1>6, <1>7, <1>8, <1>9, <1>10 DEF IInv, CallsInv

(* A step that leaves the calls alone.                                     *)
LEMMA CallsStay ==
    ASSUME IInv, GoesOn, UNCHANGED <<items, call>>, faults' \in Nat
    PROVE  IInv'
<1>1. /\ DiscoveryInv' /\ Grows(service.reads, service'.reads)
      /\ UNCHANGED <<client, items, call>> /\ faults' \in Nat
  BY DEF GoesOn
<1>2. \A c \in Calls : Promised(call[c], service.reads) /\ Walked(call[c], items) /\ Local(call[c])
  BY DEF IInv, CallsInv
<1>3. \A c \in Calls : Promised(call[c], service'.reads)
  BY <1>1, <1>2, PromisedStays
<1>4. \A c \in Calls : Local(call[c])'
  BY <1>1, <1>2 DEF Local
<1> QED
  BY <1>1, <1>2, <1>3, <1>4 DEF IInv, CallsInv

LEMMA FaultsTyped ==
    ASSUME faults \in Nat, Discover \/ Redescribe
    PROVE  faults' \in Nat
<1>1. faults' = faults \/ faults' = faults + 1
  BY DEF Discover, Redescribe, Given, Probe, ReadDescription
<1> QED
  BY <1>1

LEMMA StepHolds == IInv /\ [Next]_vars => IInv'
<1> SUFFICES ASSUME IInv, [Next]_vars PROVE IInv'
  OBVIOUS
<1>1. CASE (Discover \/ Redescribe) /\ UNCHANGED <<style, items, call>>
  <2>1. faults' \in Nat
    BY <1>1, FaultsTyped DEF IInv, CallsInv
  <2> QED
    BY <1>1, <2>1, DiscoverGoesOn, CallsStay DEF IInv
<1>2. ASSUME NEW c \in Calls, Start(c) \/ Serve(c) \/ Mislead(c)
      PROVE  IInv'
  BY <1>2, StartKept, RejectedKept, DescribedKept, AnswerKept, CreatedKept, MisleadKept DEF Serve
<1>3. CASE Change
  BY <1>3, ChangeKept
<1>4. CASE UNCHANGED vars
  <2>1. UNCHANGED <<client, service, refreshes, offered, faults, items, call>>
    BY <1>4 DEF vars, discoveryVars
  <2>2. GoesOn /\ faults' \in Nat
    BY <2>1, Idly DEF IInv, CallsInv
  <2> QED
    BY <2>1, <2>2, CallsStay
<1> QED
  BY <1>1, <1>2, <1>3, <1>4 DEF Next, Quiet

(* One reading of the service description serves all who wait for it: two  *)
(* discoveries of one refresh are never under way at once, a failed one is *)
(* told only to those who began before it failed, and nobody who asked for *)
(* a fresh one gets an older (service.ts, memo.ts).                        *)
THEOREM SharedAsRead == Spec => []DescriptionIsShared
<1>1. IInv => DescriptionIsShared
  <2> SUFFICES ASSUME IInv PROVE DescriptionIsShared
    OBVIOUS
  <2>1. Apart(service.reads)
    BY DEF IInv, DiscoveryInv, Shares
  <2>2. OneDiscovery
    BY <2>1 DEF OneDiscovery, Apart
  <2>3. NoOldFailure
    BY CallTyped DEF NoOldFailure, Promised
  <2>4. FreshAfterRefresh
    <3> SUFFICES ASSUME NEW c \in Calls, call[c].promise # None, call[c].floor > 0
                 PROVE  LET read == service.reads[call[c].promise]
                        IN read.since >= call[c].floor /\ ~read.given
      BY DEF FreshAfterRefresh
    <3> QED
      BY CallTyped DEF Promised
  <2> QED
    BY <2>2, <2>3, <2>4 DEF DescriptionIsShared
<1> QED
  BY <1>1, InitHolds, StepHolds, PTL DEF Spec

(* Whatever description and links the server gives, no request of a client *)
(* of a base URL leaves its server (request.ts, pagination.ts).            *)
THEOREM NeverLedAway == Spec => []StaysOnItsServer
<1>1. IInv => StaysOnItsServer
  BY CallTyped DEF StaysOnItsServer, Walked, Going, Within
<1> QED
  BY <1>1, InitHolds, StepHolds, PTL DEF Spec

(* A walk that ends well has met every item that stood from its first page *)
(* on, whatever links it was given and however the listing changed.        *)
THEOREM ListsWhole == Spec => []CompleteListing
<1>1. IInv => CompleteListing
  BY CallTyped DEF CompleteListing, Walked
<1> QED
  BY <1>1, InitHolds, StepHolds, PTL DEF Spec
-----------------------------------------------------------------------------
(* What an honest server's links do to a walk.                             *)

LEMMA LedMoves ==
    ASSUME IInv, Honestly, NEW c \in Calls, NEW n, Becomes(c, n), faults = 0 => Led(n),
           UNCHANGED style, faults' = 0 => faults = 0
    PROVE  Honestly'
<1>1. call \in [Calls -> CallRecords]
  BY DEF IInv, CallsInv
<1>2. call'[c] = n /\ \A d \in Calls \ {c} : call'[d] = call[d]
  BY <1>1 DEF Becomes
<1> QED
  BY <1>2 DEF Honestly

LEMMA AwaitLed ==
    ASSUME IInv, Honestly, NEW c \in Calls, NEW k \in CallRecords,
           faults = 0 => k.why \notin Misled /\ (k.op \in Walks /\ k.url # None => Onward(k)),
           NEW held, NEW since, Await(c, k, held, since), UNCHANGED <<style, faults>>
    PROVE  Honestly'
<1> DEFINE n == [k EXCEPT !.pc = "service", !.promise = Get(held, since).memo, !.floor = since]
<1>1. n.why = k.why /\ n.op = k.op /\ n.url = k.url /\ n.seen = k.seen
  BY DEF CallRecords
<1>2. Becomes(c, n)
  BY DEF Await
<1> HIDE DEF n
<1>3. faults = 0 => Led(n)
  BY <1>1 DEF Led, Onward
<1> QED
  BY <1>2, <1>3, LedMoves

LEMMA AskLed ==
    ASSUME IInv, Honestly, NEW c \in Calls, NEW k \in CallRecords,
           faults = 0 => k.why \notin Misled /\ (k.op \in Walks /\ k.url # None => Onward(k)),
           Ask(c, k), UNCHANGED <<style, faults>>
    PROVE  Honestly'
<1> DEFINE n == [k EXCEPT !.pc = "asked"]
<1>1. n.why = k.why /\ n.op = k.op /\ n.url = k.url /\ n.seen = k.seen
  BY DEF CallRecords
<1>2. Becomes(c, n)
  BY DEF Ask
<1> HIDE DEF n
<1>3. faults = 0 => Led(n)
  BY <1>1 DEF Led, Onward
<1> QED
  BY <1>2, <1>3, LedMoves

LEMMA FinishLed ==
    ASSUME IInv, Honestly, NEW c \in Calls, NEW pc \in Finished, NEW why, why \notin Misled,
           Finish(c, pc, why), UNCHANGED style, faults' = 0 => faults = 0
    PROVE  Honestly'
<1> DEFINE n == [call[c] EXCEPT !.pc = pc, !.why = why, !.url = None]
<1>1. n.pc = pc /\ n.why = why
  BY CallTyped DEF CallRecords
<1>2. Becomes(c, n)
  BY DEF Finish
<1> HIDE DEF n
<1>3. Led(n)
  BY <1>1, Apace DEF Led
<1> QED
  BY <1>2, <1>3, LedMoves

LEMMA StartLed ==
    ASSUME IInv, Honestly, NEW c \in Calls, Start(c)
    PROVE  Honestly'
<1> DEFINE idle == call[c]
<1>1. /\ idle \in CallRecords /\ idle.seen = {} /\ (faults = 0 => idle.why \notin Misled)
      /\ service \in Services /\ service.reads \in Seq(Reads)
      /\ UNCHANGED <<style, faults>>
  BY CallTyped DEF Start, Walked, Shares, Services, Honestly, Led
<1>2. PICK op \in Ops[c] :
        LET begun == [idle EXCEPT !.op = op, !.dead = Failed,
                                  !.url = IF op \in RepositoryOps THEN None ELSE Listing]
        IN \/ Await(c, begun, Reset(service), refreshes + 1)
           \/ Await(c, begun, service, refreshes)
           \/ Ask(c, begun)
  BY DEF Start, Signed
<1> DEFINE url == IF op \in RepositoryOps THEN None ELSE Listing
           begun == [idle EXCEPT !.op = op, !.dead = Failed, !.url = url]
<1>3. Failed \subseteq Nat
  BY <1>1 DEF Failed
<1>4. op \in UNION {Ops[d] : d \in Calls}
  OBVIOUS
<1> HIDE DEF idle, url
<1>5. begun \in CallRecords /\ begun.url = url /\ begun.seen = {} /\ begun.why = idle.why
  <2>1. url \in {None} \union Urls
    BY ListingUrl DEF url
  <2> QED
    BY <1>1, <1>3, <1>4, <2>1 DEF CallRecords
<1>6. \/ Await(c, begun, Reset(service), refreshes + 1) \/ Await(c, begun, service, refreshes)
      \/ Ask(c, begun)
  BY <1>2 DEF url
<1> HIDE DEF begun
<1>7. begun.url # None => Onward(begun)
  BY <1>5, ListingUrl DEF Onward, url
<1> QED
  BY <1>1, <1>5, <1>6, <1>7, AwaitLed, AskLed

LEMMA DescribedLed ==
    ASSUME IInv, Honestly, NEW c \in Calls, Described(c)
    PROVE  Honestly'
<1> DEFINE k == call[c]
<1>1. /\ k \in CallRecords /\ Promised(k, service.reads) /\ Walked(k, items) /\ Local(k)
      /\ k.pc = "service" /\ k.pc \in Going /\ UNCHANGED <<style, faults>>
  BY CallTyped DEF Described, discoveryVars, Going
<1>2. k.promise \in DOMAIN service.reads /\ service.reads[k.promise].stage = "done"
  BY <1>1 DEF Promised, Described
<1>3. faults = 0 => k.why \notin Misled /\ (k.op \in Walks /\ k.url # None => Onward(k))
  BY <1>1 DEF Honestly, Led
<1>4. None \notin Misled /\ "not supported" \notin Misled /\ {"done", "failed"} \subseteq Finished
  BY NoneApart DEF NoneApart, Misled, Finished
<1>5. CASE Ask(c, k)
  BY <1>1, <1>3, <1>5, AskLed
<1>6. CASE Finish(c, "done", None) \/ Finish(c, "failed", "not supported")
  BY <1>1, <1>4, <1>6, FinishLed
<1> DEFINE spaces == service.reads[k.promise].info.spaces
           next == [k EXCEPT !.url = [Listing EXCEPT !.place = spaces]]
<1>7. CASE /\ k.op \in RepositoryOps /\ k.url = None /\ spaces # None
           /\ Await(c, next, service, refreshes)
  <2>1. client = "base" /\ k.seen = {}
    BY <1>1, <1>7 DEF Local, Walked
  <2>2. [Listing EXCEPT !.place = spaces] = Listing
    BY <1>2, <1>7, <2>1, SpacesHere DEF Listing, At
  <2>3. next = [k EXCEPT !.url = Listing]
    BY <2>2
  <2>4. Await(c, next, service, refreshes)
    BY <1>7
  <2> HIDE DEF k, next
  <2>5. next \in CallRecords /\ next.url = Listing /\ next.seen = {} /\ next.why = k.why
    BY <1>1, <2>1, <2>3, ListingUrl DEF CallRecords
  <2>6. Onward(next)
    BY <2>5, ListingUrl DEF Onward
  <2> QED
    BY <1>1, <1>3, <2>4, <2>5, <2>6, AwaitLed
<1>8. \/ Ask(c, k) \/ Finish(c, "done", None) \/ Finish(c, "failed", "not supported")
      \/ /\ k.op \in RepositoryOps /\ k.url = None /\ spaces # None
         /\ Await(c, next, service, refreshes)
  BY DEF Described
<1> QED
  BY <1>5, <1>6, <1>7, <1>8

(* The pages a walk has seen, each with a cursor of its own among the      *)
(* items before the next page's, are fewer than the pages the listing has. *)
LEMMA FewSeen ==
    ASSUME Cardinality(Items) <= MaxPages, NEW seen \in SUBSET Urls,
           NEW last \in Items, NEW other \in Items, last # other,
           \A u \in seen : u.cursor \in ({0} \union Items) \ {last, other},
           \A u, v \in seen : u.cursor = v.cursor => u = v
    PROVE  Cardinality(seen) < MaxPages
<1> DEFINE cursors == Items \union {0}
           without == cursors \ {last}
           rest == without \ {other}
           f == [u \in seen |-> u.cursor]
<1>1. /\ IsFiniteSet(Items) /\ 0 \notin Items /\ Items \subseteq Nat /\ MaxPages \in Nat
      /\ Cardinality(Items) \in Nat
  BY ListingBounds, FS_CardinalityType DEF ListingBounds
<1>2. IsFiniteSet(cursors) /\ Cardinality(cursors) = Cardinality(Items) + 1
  BY <1>1, FS_AddElement
<1>3. last \in cursors /\ other \in without
  OBVIOUS
<1> HIDE DEF cursors
<1>4. IsFiniteSet(without) /\ Cardinality(without) = Cardinality(cursors) - 1
  BY <1>2, <1>3, FS_RemoveElement
<1> HIDE DEF without
<1>5. IsFiniteSet(rest) /\ Cardinality(rest) = Cardinality(without) - 1
  BY <1>3, <1>4, FS_RemoveElement
<1>6. \A u \in seen : u.cursor \in rest
  BY DEF without, cursors
<1>7. f \in Injection(seen, rest)
  BY <1>6 DEF Injection, IsInjective
<1> HIDE DEF rest, f
<1>8. IsFiniteSet(seen) /\ Cardinality(seen) <= Cardinality(rest)
  BY <1>5, <1>7, FS_Injection
<1>9. Cardinality(seen) \in Nat
  BY <1>8, FS_CardinalityType
<1> QED
  BY <1>1, <1>2, <1>4, <1>5, <1>8, <1>9

(* A link of a server that does not circle leads from one page of the      *)
(* listing to the next, while two items or more remain.                    *)
LEMMA LinkLeads ==
    ASSUME items \subseteq Items, NEW page \in Urls, Within(page), style # "circular",
           page = Listing \/ page.path = <<"page">>, LinkAfter(page) # None
    PROVE  LET url == Resolve(LinkAfter(page), page)
           IN /\ url \in Urls /\ Within(url) /\ url.path = <<"page">>
              /\ url.cursor \in Items /\ url.cursor > page.cursor
              /\ \E other \in Items : other > url.cursor
<1> DEFINE after == After(page.cursor)
           last == Min(after)
           path == IF style = "relative" /\ page.path # <<>> THEN <<>> ELSE <<"page">>
           next == At(IF style = "relative" THEN "relative" ELSE "here", path, last)
<1>1. page.cursor \in Nat /\ page.place = "here"
  BY DEF Urls, Within
<1>2. ~(Cardinality(after) < 2)
  BY DEF LinkAfter
<1>3. after # {}
  BY <1>2, FS_EmptySet
<1>4. /\ after \subseteq Items /\ Items \subseteq Nat /\ last \in after
      /\ \A i \in after : last <= i /\ i > page.cursor
  <2>1. \A i \in after : i > page.cursor
    BY DEF After
  <2> QED
    BY <1>1, <1>3, <2>1, AfterTyped, ListingBounds DEF ListingBounds
<1>5. after # {last}
  <2>1. Cardinality({last}) = 1
    BY FS_Singleton
  <2> QED
    BY <1>2, <2>1
<1>6. PICK other \in after : other # last
  BY <1>4, <1>5
<1>7. last \in Nat /\ other \in Nat /\ last <= other
  BY <1>4, <1>6
<1>8. last \in Items /\ last > page.cursor /\ other \in Items /\ other > last
  BY <1>4, <1>6, <1>7
<1>9. page.path = <<>> \/ page.path = <<"page">>
  BY DEF Listing, At
<1>10. LinkAfter(page) = next
  BY <1>2 DEF LinkAfter
<1> HIDE DEF after, last
<1>11. /\ <<>> \o <<"page">> = <<"page">> /\ <<"page">> \o <<>> = <<"page">>
       /\ <<"page">> # <<>>
  OBVIOUS
<1>12. page.path = <<>> => path = <<"page">>
  OBVIOUS
<1>13. style = "relative" => page.path \o path = <<"page">>
  BY <1>9, <1>11
<1>14. style # "relative" => path = <<"page">>
  OBVIOUS
<1> HIDE DEF path
<1>15. Resolve(next, page) = At("here", <<"page">>, last)
  BY <1>1, <1>13, <1>14 DEF Resolve, At
<1>16. <<"page">> \in Seq({"page"}) /\ "here" \in Places
  BY DEF Places
<1>17. Resolve(LinkAfter(page), page) = At("here", <<"page">>, last)
  BY <1>10, <1>15
<1> DEFINE url == At("here", <<"page">>, last)
<1>18. url \in Urls /\ Within(url) /\ url.path = <<"page">> /\ url.cursor = last
  BY <1>7, <1>16 DEF At, Urls, Within
<1> HIDE DEF url
<1> QED
  BY <1>8, <1>17, <1>18 DEF url

LEMMA PageLed ==
    ASSUME Cardinality(Items) <= MaxPages, IInv, Honestly, faults = 0, NEW c \in Calls,
           call[c].pc = "asked", call[c].op \in Walks,
           Page(c, PageAt(call[c].url.cursor), LinkAfter(call[c].url)), UNCHANGED <<style, faults>>
    PROVE  Honestly'
<1> DEFINE k == call[c]
           next == LinkAfter(k.url)
           seen == k.seen \union {k.url}
           stood == IF k.seen = {} THEN items ELSE k.stood
           page == PageAt(k.url.cursor)
           url == Resolve(next, k.url)
           met == [k EXCEPT !.met = @ \union page, !.seen = seen, !.stood = stood]
           on == [met EXCEPT !.url = url]
<1>1. /\ k \in CallRecords /\ items \subseteq Items /\ k.url \in Urls /\ Within(k.url)
      /\ k.pc \in Going /\ style # "circular" /\ k.why \notin Misled /\ Onward(k)
  BY CallTyped DEF Going, Walked, Honestly, Led
<1>2. /\ k.seen \in SUBSET Urls /\ k.stood \in SUBSET Items /\ k.met \in SUBSET Items
      /\ k.url.cursor \in Nat /\ page \in SUBSET Items
  BY <1>1, AfterTyped DEF CallRecords, Urls
<1>3. seen \in SUBSET Urls /\ stood \in SUBSET Items /\ k.met \union page \in SUBSET Items
  BY <1>1, <1>2
<1>4. /\ \A u \in seen : u.cursor \in {0} \union Items /\ u.cursor <= k.url.cursor
      /\ \A u, v \in seen : u.cursor = v.cursor => u = v
  <2>1. \A u \in seen : u.cursor \in Nat
    BY <1>3 DEF Urls
  <2> QED
    BY <1>1, <1>2, <2>1 DEF Onward
<1> HIDE DEF k, seen, stood, page
<1>5. /\ met \in CallRecords /\ met.seen = seen /\ met.why = k.why /\ met.op = k.op
  BY <1>1, <1>3 DEF CallRecords
<1> HIDE DEF met
<1>6. CASE next = None
  <2> DEFINE n == [met EXCEPT !.pc = "done", !.url = None]
  <2>1. Becomes(c, n)
    BY <1>6 DEF Page, k, met, seen, stood, page
  <2>2. n.pc = "done" /\ n.why = k.why
    BY <1>5 DEF CallRecords
  <2> HIDE DEF n
  <2>3. Led(n)
    BY <1>1, <2>2 DEF Led, Going
  <2> QED
    BY <2>1, <2>3, LedMoves
<1>7. CASE next # None
  <2>1. k.url = Listing \/ k.url.path = <<"page">>
    BY <1>1 DEF Onward
  <2>2. /\ url \in Urls /\ Within(url) /\ url.path = <<"page">>
        /\ url.cursor \in Items /\ url.cursor > k.url.cursor
        /\ \E other \in Items : other > url.cursor
    BY <1>1, <1>7, <2>1, LinkLeads
  <2>3. PICK other \in Items : other > url.cursor
    BY <2>2
  <2> HIDE DEF url, next
  <2>4. Items \subseteq Nat
    BY ListingBounds DEF ListingBounds
  <2>5. url.cursor \in Nat /\ other \in Nat /\ \A u \in seen : u.cursor \in Nat
    BY <1>3, <2>2, <2>4 DEF Urls
  <2>6. /\ \A u \in seen : u.cursor < url.cursor /\ u.cursor # other
        /\ url.cursor # other
    BY <1>2, <1>4, <2>2, <2>3, <2>5
  <2>7. Cardinality(seen) < MaxPages
    <3> DEFINE last == url.cursor
    <3>1. last \in Items /\ last # other
      BY <2>2, <2>6
    <3>2. \A u \in seen : u.cursor \in ({0} \union Items) \ {last, other}
      BY <1>4, <2>5, <2>6
    <3> HIDE DEF last
    <3> QED
      BY <1>3, <1>4, <3>1, <3>2, FewSeen
  <2>8. url \notin seen
    BY <2>5, <2>6
  <2>9. Followable(seen, url)
    BY <2>7, <2>8 DEF Followable
  <2>10. on \in CallRecords /\ on.url = url /\ on.seen = seen /\ on.why = k.why
    BY <1>5, <2>2 DEF CallRecords
  <2>11. Await(c, on, service, refreshes) \/ Ask(c, on)
    BY <1>7, <2>2, <2>9 DEF Page, k, met, seen, stood, url, next, page
  <2> HIDE DEF on
  <2>12. Onward(on)
    BY <1>4, <2>2, <2>6, <2>10 DEF Onward
  <2> QED
    BY <1>1, <2>10, <2>11, <2>12, AwaitLed, AskLed
<1> QED
  BY <1>6, <1>7

LEMMA AnswerLed ==
    ASSUME Cardinality(Items) <= MaxPages, IInv, Honestly, NEW c \in Calls, Answer(c)
    PROVE  Honestly'
<1> DEFINE url == call[c].url
<1>1. /\ call[c].pc = "asked" /\ call[c].op \in Walks /\ UNCHANGED <<style, faults>>
      /\ url # None
  BY CallTyped DEF Answer, Walks, Walked, Going
<1>2. CASE faults # 0
  BY <1>1, <1>2 DEF Honestly
<1>3. CASE faults = 0
  <2>1. url = Listing \/ url.path = <<"page">>
    BY <1>1, <1>3 DEF Honestly, Led, Onward, Going
  <2>2. Page(c, PageAt(url.cursor), LinkAfter(url))
    BY <2>1 DEF Answer
  <2> QED
    BY <1>1, <1>3, <2>2, PageLed
<1> QED
  BY <1>2, <1>3

(* What leaves every walk where its links led it.                          *)
LEMMA HonestlyStays ==
    ASSUME Honestly, UNCHANGED style, faults' = 0 => faults = 0,
           \A c \in Calls : /\ call'[c].why = call[c].why /\ call'[c].pc = call[c].pc
                            /\ call'[c].op = call[c].op /\ call'[c].url = call[c].url
                            /\ call'[c].seen = call[c].seen
    PROVE  Honestly'
  BY DEF Honestly, Led, Onward

LEMMA HonestStep ==
    ASSUME Cardinality(Items) <= MaxPages, IInv, Honestly, [Next]_vars
    PROVE  Honestly'
<1>1. faults \in Nat
  BY DEF IInv, CallsInv
<1>2. CASE (Discover \/ Redescribe) /\ UNCHANGED <<style, items, call>>
  <2>1. faults' = faults \/ faults' = faults + 1
    BY <1>2 DEF Discover, Redescribe, Given, Probe, ReadDescription
  <2>2. faults' = 0 => faults = 0
    BY <1>1, <2>1
  <2>3. UNCHANGED <<style, call>>
    BY <1>2
  <2> QED
    BY <2>2, <2>3, HonestlyStays
<1>3. ASSUME NEW c \in Calls, Rejected(c) PROVE Honestly'
  <2>1. "failed" \in Finished /\ "discovery" \notin Misled
    BY DEF Finished, Misled
  <2>2. Finish(c, "failed", "discovery") /\ UNCHANGED <<style, faults>>
    BY <1>3 DEF Rejected, discoveryVars
  <2> QED
    BY <2>1, <2>2, FinishLed
<1>4. ASSUME NEW c \in Calls, Created(c) PROVE Honestly'
  <2>1. /\ {"done", "failed"} \subseteq Finished
        /\ None \notin Misled /\ "no location" \notin Misled
    BY NoneApart DEF NoneApart, Finished, Misled
  <2>2. faults' = 0 => faults = 0
    <3>1. faults' = faults \/ faults' = faults + 1
      BY <1>4 DEF Created
    <3> QED
      BY <1>1, <3>1
  <2>3. (Finish(c, "done", None) \/ Finish(c, "failed", "no location")) /\ UNCHANGED style
    BY <1>4 DEF Created
  <2> QED
    BY <2>1, <2>2, <2>3, FinishLed
<1>5. ASSUME NEW c \in Calls, Mislead(c) PROVE Honestly'
  <2>1. faults' = faults + 1
    BY <1>5 DEF Mislead
  <2>2. faults' # 0
    BY <1>1, <2>1
  <2> QED
    BY <2>2 DEF Honestly
<1>6. CASE Change
  <2>1. call \in [Calls -> CallRecords]
    BY DEF IInv, CallsInv
  <2>2. ASSUME NEW c \in Calls
        PROVE  /\ call'[c].why = call[c].why /\ call'[c].pc = call[c].pc
               /\ call'[c].op = call[c].op /\ call'[c].url = call[c].url
               /\ call'[c].seen = call[c].seen
    <3> DEFINE k == call[c]
    <3>1. k \in CallRecords /\ call'[c] = [k EXCEPT !.stood = @ \intersect items']
      BY <1>6, <2>1 DEF Change
    <3> HIDE DEF k
    <3>2. /\ call'[c].why = k.why /\ call'[c].pc = k.pc /\ call'[c].op = k.op
          /\ call'[c].url = k.url /\ call'[c].seen = k.seen
      BY <3>1 DEF CallRecords
    <3> QED
      BY <3>2 DEF k
  <2>3. UNCHANGED <<style, faults>>
    BY <1>6 DEF Change
  <2> QED
    BY <2>2, <2>3, HonestlyStays
<1>7. CASE UNCHANGED vars
  <2>1. UNCHANGED <<style, faults, call>>
    BY <1>7 DEF vars, discoveryVars
  <2> QED
    BY <2>1, HonestlyStays
<1> QED
  BY <1>2, <1>3, <1>4, <1>5, <1>6, <1>7, StartLed, DescribedLed, AnswerLed DEF Next, Quiet, Serve

LEMMA InitHonest == Init => Honestly
<1> SUFFICES ASSUME Init PROVE Honestly
  OBVIOUS
<1>1. style # "circular" /\ call = [c \in Calls |-> Idle]
  BY DEF Init
<1>2. Led(Idle)
  BY NoneApart, Apace DEF Led, Idle, NoneApart, Misled
<1> QED
  BY <1>1, <1>2 DEF Honestly

(* As long as the listing has no more pages than a walk may take, what a   *)
(* walk says of it is true: one that ends well has met every item that     *)
(* stood, and one that ends badly was failed by its server, whose honest   *)
(* links, absolute or relative, lead through it (pagination.ts).           *)
THEOREM WalksTellTrue ==
    ASSUME Cardinality(Items) <= MaxPages
    PROVE  Spec => []WalksAreTrue
<1>1. IInv /\ Honestly => WalksAreTrue
  <2> SUFFICES ASSUME IInv, Honestly PROVE WalksAreTrue
    OBVIOUS
  <2>1. CompleteListing
    BY CallTyped DEF CompleteListing, Walked
  <2>2. HonestWalksEnd
    BY DEF HonestWalksEnd, Honestly, Led, Misled
  <2> QED
    BY <2>1, <2>2 DEF WalksAreTrue
<1>2. Init => IInv /\ Honestly
  BY InitHolds, InitHonest
<1>3. IInv /\ Honestly /\ [Next]_vars => IInv' /\ Honestly'
  BY StepHolds, HonestStep
<1> QED
  BY <1>1, <1>2, <1>3, PTL DEF Spec
=============================================================================
