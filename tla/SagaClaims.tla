----------------------------- MODULE SagaClaims -----------------------------
(***************************************************************************)
(* A sentence of the repository's documents about what an error may lead   *)
(* to, stated of TransactionSaga. The code does not keep it: the run finds  *)
(* where it is broken. The README tells the story.                         *)
(***************************************************************************)
EXTENDS TransactionSaga

\* BRD 3.3 consistency note: an error leads to a false rejection at worst,
\* never to approving more than a limit allows.
NeverOverApproves == StrictLimits
=============================================================================
