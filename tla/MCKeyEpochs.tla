---------------------------- MODULE MCKeyEpochs ----------------------------
(* Small instances of KeyEpochs: three readers, and up to three recipient  *)
(* operations and a configuration change that overlap.                     *)
EXTENDS KeyEpochs

MCKids == {"a", "b", "c"}
MCCalls == {"c1", "c2", "c3"}
MCMints == MCCalls \union {"p1", "p2"}
MCStores == {"s1", "s2", "s3"}
MCStoreOf == [c \in MCCalls |-> CASE c = "c1" -> "s1" [] c = "c2" -> "s2" [] OTHER -> "s3"]
MCShared == [c \in MCCalls |-> "s1"]
MCHosts == {"collection", "resource"}
MCCollection == {"collection"}
MCConfs == {"blue", "red"}
MCZcaps == {"z1", "z2"}

Ensure(kids, blinded) ==
    [NoRequest EXCEPT !.kind = "ensure", !.kids = kids, !.blinded = blinded]
Initialize(kids) == [NoRequest EXCEPT !.kind = "init", !.kids = kids]
Add(kid, owner) == [NoRequest EXCEPT !.kind = "add", !.kids = {kid}, !.owner = owner]
Remove(retiring, vouched, zcaps) ==
    [NoRequest EXCEPT !.kind = "remove", !.retiring = retiring,
                      !.vouched = vouched, !.zcaps = zcaps]
Replace(kid, retiring, owner, zcaps) ==
    [NoRequest EXCEPT !.kind = "replace", !.kids = {kid}, !.owner = owner,
                      !.retiring = retiring, !.vouched = MCKids, !.zcaps = zcaps]
Masked(req) == [req EXCEPT !.masked = TRUE]
Rename(conf) == [NoRequest EXCEPT !.conf = conf]

Holding(epochs, current, hmac) ==
    [epochs |-> epochs, current |-> current, hmac |-> hmac]

(* A fresh Collection; one reader; two readers and an index key; a reader  *)
(* removed earlier.                                                        *)
MCDescriptors ==
    {Seed,
     Holding(<<[id |-> "p1", to |-> {"a", "b"}]>>, "p1", [id |-> "p1", to |-> {"a", "b"}]),
     Holding(<<[id |-> "p1", to |-> {"a", "b", "c"}], [id |-> "p2", to |-> {"a", "b"}]>>,
             "p2", NoHmac)}

MCObjects ==
    {[declared |-> d # Seed \/ conf # "red", desc |-> d, conf |-> conf] :
        d \in MCDescriptors, conf \in {None, "blue", "red"}}

MCRequests ==
    [c \in MCCalls |->
       CASE c = "c1" -> {Ensure({"a"}, FALSE), Ensure({"a", "b"}, TRUE),
                         Initialize({"a", "b"}), Remove({"b"}, {"a"}, {"z1", "z2"}),
                         Remove({"b", "c"}, MCKids, {"z1"})}
         [] c = "c2" -> {Ensure({"b"}, TRUE), Masked(Ensure({"b"}, FALSE)),
                         Initialize({"b"}), Add("c", "a"), Add("b", "a"),
                         Remove({"b"}, MCKids, {"z1"}),
                         Replace("c", {"b"}, "b", {})}
         [] OTHER -> {Add("c", "a"), Add("c", "c"), Replace("c", {"a"}, "a", {"z2"}),
                      Remove({"a"}, {}, {}), Rename("red")}]

MCRenamed == [c \in MCCalls |-> IF c = "c3" THEN {Rename("red")} ELSE {Add("c", "a"), Add("b", "a")}]
=============================================================================
