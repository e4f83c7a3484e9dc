------------------------------ MODULE Amounts ------------------------------
(***************************************************************************)
(* The records that count in the limits, what each is worth, and the sums  *)
(* over sets of them.                                                      *)
(***************************************************************************)
EXTENDS Integers, FiniteSets

CONSTANTS
    Txn,       \* record identifiers
    Amount,    \* the amount of each record, in paise
    MaxAmount  \* a bound on the amounts

ASSUME AmountAssumption ==
    /\ IsFiniteSet(Txn)
    /\ MaxAmount \in Nat /\ Amount \in [Txn -> 0..MaxAmount]

\* The sum of the amounts of a set of records, as the number of its paise.
Paise(T) == UNION {{t} \X (1..Amount[t]) : t \in T}
TotalAmount(T) == Cardinality(Paise(T))
=============================================================================
