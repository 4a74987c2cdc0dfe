------------------------------- MODULE MCPush -------------------------------
(* Instances of Push for TLC. *)
EXTENDS Push, TLC

CONSTANTS u1, u2, ia, ga, gb

MCOwners == ia :> u1 @@ ga :> u1 @@ gb :> u2
=============================================================================
