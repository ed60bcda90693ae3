--------------------------- MODULE MCAmpInterlock ---------------------------
(***************************************************************************)
(* TLC instance of AmpInterlock: two amplifiers (the power amplifier and   *)
(* the tuner of the bench setup).                                          *)
(***************************************************************************)
EXTENDS AmpInterlock

CONSTANTS pgxl, tgxl

MCAmps == {pgxl, tgxl}
=============================================================================
