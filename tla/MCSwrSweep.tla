----------------------------- MODULE MCSwrSweep -----------------------------
(***************************************************************************)
(* TLC instance of SwrSweep: three points, and an early end after two that *)
(* are all reflection or three that measure nothing.                       *)
(***************************************************************************)
EXTENDS SwrSweep
=============================================================================
