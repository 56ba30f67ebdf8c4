----------------------------- MODULE MCListings -----------------------------
(* A small instance of Listings: one walk beside two calls that wait on     *)
(* the description, one of which may refresh it.                            *)
EXTENDS Listings

CONSTANTS c1, c2, c3

MCOps == c1 :> {"list", "publicList", "listSpaces"} @@ c2 :> {"refresh", "createSpace"} @@ c3 :> {"service"}
=============================================================================
