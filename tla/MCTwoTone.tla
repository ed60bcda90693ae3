----------------------------- MODULE MCTwoTone -----------------------------
(***************************************************************************)
(* TLC instance of TwoTone, which has no constants: presses, settles, the  *)
(* other sources of MOX, refusals and trips in any order.                  *)
(***************************************************************************)
EXTENDS TwoTone
=============================================================================
