----------------------------- MODULE MCArchival -----------------------------
(***************************************************************************)
(* Small instances of Archival for TLC: two sweeps at once over two        *)
(* records, the first of which may be claimed twice.                       *)
(***************************************************************************)
EXTENDS Archival, TLC

CONSTANTS t1, t2

Claims == (t1 :> 2) @@ (t2 :> 1)
=============================================================================
