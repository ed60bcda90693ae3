------------------------------ MODULE MCMicPtt ------------------------------
(***************************************************************************)
(* TLC instance of MicPtt.  The tail outlasts the frame period, as with    *)
(* the 50 to 100 frames a second of the P1 and P2 radios: one tick of the  *)
(* clock for a frame and three for the tail keep their order and leave     *)
(* room for presses in between.                                            *)
(***************************************************************************)
EXTENDS MicPtt
=============================================================================
