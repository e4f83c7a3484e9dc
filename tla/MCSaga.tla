------------------------------- MODULE MCSaga -------------------------------
(***************************************************************************)
(* Small instances of TransactionSaga for TLC: two records whose plans     *)
(* meet in the same two counters, a retry of the first, and two reversals  *)
(* of it.                                                                  *)
(***************************************************************************)
EXTENDS SagaClaims, TLC

CONSTANTS t1, t2, r1, r2, r3, v1, v2, k1, k2

MCTxn == {t1, t2}
MCRequest == {r1, r2, r3}
MCReversal == {v1, v2}
OneReversalCall == {v1}
MCKey == {k1, k2}
MCSubmits == (r1 :> t1) @@ (r2 :> t1) @@ (r3 :> t2)
MCReverses == (v1 :> t1) @@ (v2 :> t1)
OneReverses == (v1 :> t1)
TwoSubmits == (r1 :> t1) @@ (r3 :> t2)
MCAmount == (t1 :> 2) @@ (t2 :> 1)

\* Safety only: the two calls about the first record are alike, and its reversals.
SagaSymmetry == Permutations({r1, r2}) \cup Permutations({v1, v2})

Window(k) == [type |-> "window", key |-> k]
PerTxn(n) == [type |-> "perTxn", limit |-> n]

\* k1 takes either record and not both by amount; k2 only one by count.
MCThreshold == (k1 :> [amount |-> 2, count |-> Unlimited])
               @@ (k2 :> [amount |-> Unlimited, count |-> 1])
\* Both records meet both windows, t2 after the dimensions changed places: one
\* key or the other is to be given back when the second refuses.
MCPlan == (t1 :> <<Window(k1), Window(k2)>>) @@ (t2 :> <<Window(k2), Window(k1)>>)
\* t1 may have to give the strict k2 back because of the hot k1. The dimension
\* GLOBAL has lost its limit when t2 comes to it: t2 fails closed.
MixedPlan == (t1 :> <<Window(k2), Window(k1)>>)
             @@ (t2 :> <<PerTxn(2), PerTxn(Missing)>>)
=============================================================================
