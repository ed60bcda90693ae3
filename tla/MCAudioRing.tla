---------------------------- MODULE MCAudioRing ----------------------------
(***************************************************************************)
(* TLC instance of AudioRing: eight bytes, frames of two, payloads of one  *)
(* or two frames that tell a lost, doubled or shifted frame from the     *)
(* right one, and seven usable bytes that no number of frames fills.       *)
(***************************************************************************)
EXTENDS AudioRing

MCByte == {0, 1}
MCPayloads == {<<0, 1>>, <<1, 1, 0, 0>>}
MCLengths == {2, 4}

\* FramesStayWhole is not vacuous here.
ASSUME FramesAreWhole == FramesFit
=============================================================================
