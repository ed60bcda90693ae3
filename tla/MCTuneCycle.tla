---------------------------- MODULE MCTuneCycle ----------------------------
(***************************************************************************)
(* TLC instance of TuneCycle, with up to three settle shots under way.     *)
(***************************************************************************)
EXTENDS TuneCycle
=============================================================================
