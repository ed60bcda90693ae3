-------------------------- MODULE MCSwrProtection --------------------------
(***************************************************************************)
(* TLC instance of SwrProtection with the thresholds of the code: a match, *)
(* the limit exactly, mismatches under the ceiling and above it, total     *)
(* reflection under and over the open-antenna power, and a coupler that    *)
(* shows more reflected than forward power.                                *)
(***************************************************************************)
EXTENDS SwrProtection

CouplerReadings ==
  {<<0, 0>>, <<8, 2>>, <<8, 6>>, <<8, 8>>, <<8, 9>>, <<20, 12>>, <<20, 20>>}
=============================================================================
