------------------------------ MODULE MCConfig ------------------------------
(***************************************************************************)
(* A small instance of ConfigPlane for TLC: one instance of the service,   *)
(* whose registry and mandatory definition change under a submission, and  *)
(* a client that may be given a second direction.                          *)
(***************************************************************************)
EXTENDS ConfigClaims, TLC

CONSTANTS i1, OUTWARD, INWARD, GLOBAL, PAYER, PAYEE, outCap, inCap,
          a1, a2, p1, x1

Directions == {OUTWARD, INWARD}
Dimensions == {GLOBAL, PAYER, PAYEE}
CapDirection == (outCap :> OUTWARD) @@ (inCap :> INWARD)
OneDirection == [x \in {x1} |-> OUTWARD]
NoTxn == [x \in {} |-> OUTWARD]
AllAtOne == [x \in {a1, a2, p1, x1} |-> i1]
OnePoll == [x \in {a1, a2, p1} |-> i1]

Replace(d, p) == [op |-> "replace", direction |-> d, policy |-> p]
Create(d) == [op |-> "create", definition |-> d]
Update(d, s) == [op |-> "update", definition |-> d, state |-> s]
Deactivate(d) == [op |-> "deactivate", definition |-> d]
Enable(ds) == [op |-> "enable", directions |-> ds]

Configured ==
    [config |-> 1, limits |-> 1,
     directions |-> (OUTWARD :> {GLOBAL, PAYER}) @@ (INWARD :> {GLOBAL})]

\* One admin replaces the registry and changes the definitions under it; the
\* other one enables the second direction.
ServingRequests ==
    (a1 :> {Replace(OUTWARD, {GLOBAL, PAYEE}), Deactivate(outCap), Create(inCap)})
    @@ (a2 :> {Replace(OUTWARD, {PAYEE}), Update(outCap, "active"), Enable(Directions)})
\* Each direction has an admin of its own.
DirectionRequests ==
    (a1 :> {Replace(OUTWARD, {GLOBAL})}) @@ (a2 :> {Replace(INWARD, {GLOBAL})})
=============================================================================
