---------------------------- MODULE MCMicReorder ----------------------------
(***************************************************************************)
(* TLC instance of MicReorder: the sequence numbers wrap within a session. *)
(***************************************************************************)
EXTENDS MicReorder
=============================================================================
