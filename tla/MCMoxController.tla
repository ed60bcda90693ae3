-------------------------- MODULE MCMoxController --------------------------
(***************************************************************************)
(* TLC instance of MoxController: two representative press/release slots,  *)
(* VOX (driven from the DSP worker) and CAT.                               *)
(***************************************************************************)
EXTENDS MoxController

MCPttKeys == {"Cat", "Vox"}
=============================================================================
