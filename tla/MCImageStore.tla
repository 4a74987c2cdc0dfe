---------------------------- MODULE MCImageStore ----------------------------
(* Instances of ImageStore for TLC: one row, which is a user's or a fish's.   *)
EXTENDS ImageStore

MCInit == Init /\ Cardinality({x \in Photos : Exists(x)}) = 1

MCSpec == MCInit /\ [][Next]_vars /\ Fairness
=============================================================================
