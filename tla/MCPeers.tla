------------------------------ MODULE MCPeers ------------------------------
(***************************************************************************)
(* Peers for TLC: one client has a url that the tracker changes, one has   *)
(* one that it leaves.                                                     *)
(***************************************************************************)
EXTENDS Peers, TLC

CONSTANTS C1, C2, R1, R2, R3,           \* clients and requests
          Localhost1, Address1, Address2  \* urls

SomeCanon == (Localhost1 :> Address1) @@ (Address1 :> Address1)
             @@ (Address2 :> Address2)
SomeUrls  == (C1 :> Localhost1) @@ (C2 :> Address2)
AnyRequest == Permutations(Ids)
=============================================================================
