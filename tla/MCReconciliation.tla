-------------------------- MODULE MCReconciliation --------------------------
(***************************************************************************)
(* A handful of orders for model checking Reconciliation.                  *)
(***************************************************************************)
EXTENDS Reconciliation, TLC

Symmetry == Permutations(Orders)
=============================================================================
