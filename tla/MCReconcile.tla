----------------------------- MODULE MCReconcile -----------------------------
(* The instance of Reconcile that shows what created customers do. *)
EXTENDS Reconcile
=============================================================================
