---------------------------- MODULE MCAddresses ----------------------------
(* Small instances of Addresses: a Space of a server with a base URL, and   *)
(* one that is served from an origin root.                                  *)
EXTENDS Addresses

Home(deployed) == IF deployed = "fixed" THEN <<>> ELSE <<"srv", "space", "s">>

Given(origin, path, slash) == [origin |-> origin, path |-> path, slash |-> slash, mark |-> None]

MCBase == Url("host", <<"srv">>, TRUE)

Deployments == {"hosted", "fixed"}

MCNamed ==
    [d \in Deployments |->
       {Given("host", Home(d), TRUE), Given("host", Home(d), FALSE), Given("HOST", Home(d), TRUE),
        Given("host", Home(d) \o <<"", "">>, TRUE), Given("host", Home(d) \o <<"x", "..">>, FALSE),
        [Given("host", Home(d), TRUE) EXCEPT !.mark = "query"]}]

MCIds ==
    {"notes", "a/b", "meta", "log", "policy", "export", "backend", "replicas", "chunks",
     "service", "space", "", ".", ".."}

MCTargets ==
    [d \in Deployments |->
       {Given("host", Home(d) \o path, slash) : slash \in BOOLEAN,
          path \in {<<>>, <<"notes">>, <<"..", "other">>, <<"%2e%2e", "other">>, <<"notes", "a%2Fb">>,
                    <<"notes", "">>, <<"%zz">>, <<"%6Deta">>}}
       \union {[Given("host", Home(d), slash) EXCEPT !.mark = "query"] : slash \in BOOLEAN}
       \union {Given("HOST", Home(d) \o <<"notes">>, TRUE), Given("host", <<"elsewhere">>, FALSE)}]

MCMinted ==
    [d \in Deployments |-> {[root |-> Given("host", Home(d), slash), target |-> target] :
                              slash \in BOOLEAN, target \in MCTargets[d]}]

MCEncoded == [id \in {"a/b"} |-> "a%2Fb"]
MCDecoded == [segment \in {"a%2Fb", "%zz", "%6Deta"} |->
                CASE segment = "a%2Fb" -> "a/b" [] segment = "%zz" -> "malformed" [] OTHER -> "meta"]
=============================================================================
