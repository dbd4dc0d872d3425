------------------------- MODULE MCRequestBoundary -------------------------
(* Two large requests share one slot. *)
EXTENDS RequestBoundary

CONSTANTS r1, r2
=============================================================================
