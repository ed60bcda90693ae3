----------------------------- MODULE MCRfGate ------------------------------
(***************************************************************************)
(* TLC instances of RfGate: no amplifier at all, or one that connects,     *)
(* joins, answers or not, leaves and reconnects.                           *)
(***************************************************************************)
EXTENDS RfGate

NoAmps == {}
OneAmp == {"pgxl"}
=============================================================================
