---------------------------- MODULE MCGovernedLog ----------------------------
(* Small instances of GovernedLog: three calls through two stores.          *)
EXTENDS GovernedLog

MCCalls == {"c1", "c2", "c3"}
MCStores == {"s1", "s2"}
MCStoreOf == [c \in MCCalls |-> IF c = "c2" THEN "s2" ELSE "s1"]
MCKinds == [c \in MCCalls |-> CASE c = "c1" -> {"update", "seal", "create"}
                                [] c = "c2" -> {"update", "create"}
                                [] OTHER -> {"seeded", "seal", "update"}]
MCStarts == {"none", "client", "log"}
=============================================================================
