----------------------------- MODULE MCTxSlice -----------------------------
(***************************************************************************)
(* TLC instance of TxSlice.                                                *)
(***************************************************************************)
EXTENDS TxSlice
=============================================================================
