-------------------------- MODULE MCReconciliation --------------------------
(***************************************************************************)
(* Small instances of Reconciliation for TLC: two transactions that share  *)
(* a document, so that one can hide behind the other's amount.             *)
(***************************************************************************)
EXTENDS ReconciliationClaims, TLC

CONSTANTS t1, t2, k1, k2, d1, d2, s1, s2

\* Safety only: the drainers are alike.
DrainerSymmetry == Permutations({d1, d2})
TxnAmount == (t1 :> 2) @@ (t2 :> 1)
=============================================================================
