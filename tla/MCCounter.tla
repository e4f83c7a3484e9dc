------------------------------ MODULE MCCounter ------------------------------
(***************************************************************************)
(* Small instances of CounterEngine for TLC: the strict window with three  *)
(* calls over its horizon and TTL; the soft ones with two, either of which *)
(* leaves no room for the other.                                           *)
(***************************************************************************)
EXTENDS CounterClaims, TLC

CONSTANTS c1, c2, c3, p1, p2

Payments == {c1, c2, c3}
CallsOf == [k \in Kind |-> IF k = "rolling" THEN {c1, c2, c3} ELSE {c1, c2}]
Clocks == [k \in Kind |-> IF k = "rolling-sharded" THEN 5 ELSE 6]
Amounts == (c1 :> 2) @@ (c2 :> 2) @@ (c3 :> 1)
Limits == [amount |-> 3, count |-> 2]
Symmetry == Permutations({c1, c2}) \cup Permutations({p1, p2})
=============================================================================
