------------------------------ MODULE MCFamily ------------------------------
(* Instances of Family for TLC. *)
EXTENDS Family, TLC

MCRequestSymmetry == Permutations(Requests)
=============================================================================
