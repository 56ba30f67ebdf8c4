--------------------------- MODULE MCProvisioning ---------------------------
(* Small instances of Provisioning: three apps, two of them at a time or    *)
(* one beside an owner, or two owners, over an empty server or a Space that *)
(* stands already.                                                          *)
EXTENDS Provisioning

MCApps == {"wallet", "notes", "board"}
MCMode == [p \in MCApps |-> CASE p = "wallet" -> "edv" [] p = "notes" -> "plaintext" [] OTHER -> "governed"]
MCCasts == {{"wallet", "notes"}, {"wallet", "board"}, {"wallet", "ann"}, {"ann", "bob"}}

Configure(name, controller, type) ==
    [kind |-> "configure", name |-> name, controller |-> controller, type |-> type,
     force |-> FALSE, seeded |-> FALSE]

MCRequests ==
    {Configure("home", None, None), Configure(None, None, "shared"), Configure("work", "carol", None),
     [Configure("home", None, None) EXCEPT !.force = TRUE, !.seeded = TRUE],
     [Configure(None, None, "shared") EXCEPT !.seeded = TRUE]}
    \union [kind : {"delete", "outcome", "register", "deregister", "pause", "resume", "capability"}]
    \union [kind : {"post"}, enc : {"client", None}]

Start(places) ==
    [space |-> IF "space" \in places THEN [rev |-> 1, name |-> "old", controller |-> "carol", type |-> None]
               ELSE NoSpace,
     coll |-> NoColl, policy |-> "none",
     replica |-> IF "replica" \in places THEN [rev |-> 2, paused |-> FALSE, capability |-> "carol"]
                 ELSE NoReplica,
     clock |-> 2]

MCStarts == {Start({}), Start({"space", "replica"})}
=============================================================================
