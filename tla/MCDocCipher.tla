---------------------------- MODULE MCDocCipher ----------------------------
(* Small instances of DocCipher: a Collection whose epochs p2, p3 and p4    *)
(* arrive while a session is under way.  The reader never gets p4, its      *)
(* entry of the old epoch p1 is corrupt, and p5 belongs to no descriptor.   *)
EXTENDS DocCipher

MCKids == {"me", "other"}
MCMints == {"p1", "p2", "p3", "p4", "p5"}
MCResources == {"r1", "r2"}
MCCorrupt == {<< <<"epoch", "p1">>, "me">>}

Epoch(id, to) == [id |-> id, to |-> to]
NewHmac(to) == [id |-> "p2", to |-> to]
Versioned(epochs, current, hmac, governed) ==
    [desc |-> [epochs |-> epochs, current |-> current, hmac |-> hmac],
     version |-> 1, governed |-> governed]

History(governed) ==
    LET e1 == <<Epoch("p1", {"me", "other"}), Epoch("p2", {"me", "other"})>>
        e2 == e1 \o <<Epoch("p3", {"me", "other"}), Epoch("p4", {"other"})>>
    IN <<Versioned(e1, "p2", NewHmac(MCKids), FALSE),
         Versioned(e2, "p4", NewHmac(MCKids), governed)>>

MCHistory == History(FALSE)

MCCalls == {"c1", "c2", "c3"}

At(id) == [collection |-> FALSE, id |-> id]
OfCollection == [collection |-> TRUE, id |-> None]

Good(key, id) ==
    [jwe |-> TRUE, kids |-> {key}, key |-> key, intact |-> TRUE, derived |-> id,
     binding |-> [v |-> 1, resource |-> id, collection |-> None, epoch |-> key]]
Unbound(key, id) == [Good(key, id) EXCEPT !.binding.resource = None]
MetaEnv(key) ==
    [Unbound(key, "r1") EXCEPT !.binding.collection = "here"]

ReadOf(env) == [kind |-> "read", env |-> env, slot |-> At("r1"), schema |-> None,
                derives |-> FALSE]
SealAt(id, derives) ==
    [kind |-> "seal", env |-> Good("p1", id), slot |-> At(id), schema |-> None,
     derives |-> derives]
SealMeta == [SealAt("r1", FALSE) EXCEPT !.slot = OfCollection]
ApplyOf(key, indexed) ==
    [kind |-> "apply", env |-> MetaEnv(key), slot |-> OfCollection, schema |-> indexed,
     derives |-> FALSE]
Reset == [ReadOf(Good("p1", "r1")) EXCEPT !.kind = "reset"]

(* What a server may hold at r1 that no writer put there: moved from        *)
(* elsewhere, relabelled, or the metadata of another Collection.            *)
Odd == {Unbound("p2", "r2"), [Good("p2", "r1") EXCEPT !.kids = {"p4", "p5"}],
        [Unbound("p2", "r1") EXCEPT !.binding.collection = "there"]}

MCRequests ==
    [c \in MCCalls |->
       CASE c = "c1" -> {ReadOf(env) : env \in Odd \union {Good(key, "r1") : key \in {"p1", "p5"}}}
         [] c = "c2" -> {ReadOf(Good("p4", "r1")), ApplyOf("p2", "s1"), SealAt("r1", TRUE)}
         [] OTHER -> {ReadOf(Good("p3", "r1")), Reset}]

Host(present, verifies, require) ==
    [present |-> present, verifies |-> verifies, require |-> require]
MCPolicies == {Host(TRUE, FALSE, FALSE), Host(TRUE, TRUE, TRUE)}
MCAllModes == {"cipher", "policy", "sealer"}
MCSchemas == {"s1", "s2"}
=============================================================================
