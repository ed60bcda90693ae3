--------------------------- MODULE MoxController ---------------------------
(***************************************************************************)
(* The MOX/PTT state machine of src/core/MoxController.cpp.                *)
(*                                                                         *)
(* The controller lives on the main thread: every public slot and every    *)
(* timer slot runs to completion, so each of them is one action.  setMox() *)
(* starts a walk through transient states that single-shot QTimers drive:  *)
(*                                                                         *)
(*   Rx -> RxToTxRfDelay -(rfDelay)-> Tx                                   *)
(*   Tx -> TxToRxInFlight -(keyUp)-> TxToRxFlush -(pttOut)-> Rx            *)
(*                                                                         *)
(* and may turn a walk round at any point.  The signals a slot emits, in   *)
(* the order it emits them, are the value of `signals' after the step: the *)
(* modules that compose this one (RfGate, MicPtt, TuneCycle) attach the    *)
(* synchronous subscribers to that value.                                  *)
(*                                                                         *)
(* Durations are abstracted: an armed timer may elapse at any time.        *)
(* MicPtt restores the durations where they matter.                        *)
(***************************************************************************)
EXTENDS Sequences

CONSTANT PttKeys  \* the press/release slots: onCatPtt, onVoxActive, ...

ASSUME PttKeysAssumption == PttKeys \subseteq {"Cat", "Vox", "Space", "X2"}

VARIABLES
  mox,        \* m_mox, the committed transmit request
  state,      \* m_state, the position in the walk
  pttMode,    \* m_pttMode, the source that claimed transmit last
  manualMox,  \* m_manualMox, set by setTune
  keyBlock,   \* m_keyBlockLatched, refuses keying after a safety trip
  timers,     \* the single-shot timers that are running
  signals     \* what the last step emitted, in order

vars == <<mox, state, pttMode, manualMox, keyBlock, timers, signals>>

MoxState == {"Rx", "RxToTxRfDelay", "Tx", "TxToRxInFlight", "TxToRxFlush"}
PttMode  == {"None", "Manual", "Mic"} \cup PttKeys
WalkTimers == {"rfDelay", "keyUp", "pttOut"}
Timers   == WalkTimers \cup {"micTail"}

\* What one slot can emit, in order.
KeyOnSignals  == <<"moxChanging", "txAboutToBegin", "hardwareFlippedTx">>
KeyOffSignals == <<"moxChanging", "txAboutToEnd", "hardwareFlippedRx">>
Emissions == {<<>>, <<"moxRejected">>, KeyOnSignals, KeyOffSignals,
              <<"txReady", "moxStateOn">>, <<"txaFlushed">>,
              <<"rxReady", "moxStateOff">>}

\* What the BandPlanGuard callback and the interlock policy say to one
\* request: the first refuses with moxRejected, the second without.
Verdicts == {"ok", "rejected", "denied"}

\* Types of the controller's members; `signals' is one of the sequences the
\* slots of MoxController.cpp emit, in the order Thetis' chkMOX handler fixes.
TypeOK ==
  /\ mox \in BOOLEAN
  /\ state \in MoxState
  /\ pttMode \in PttMode
  /\ manualMox \in BOOLEAN
  /\ keyBlock \in BOOLEAN
  /\ timers \subseteq Timers
  /\ signals \in Emissions

Init ==
  /\ mox = FALSE
  /\ state = "Rx"
  /\ pttMode = "None"
  /\ manualMox = FALSE
  /\ keyBlock = FALSE
  /\ timers = {}
  /\ signals = <<>>

(***************************************************************************)
(* setMox(on).                                                             *)
(***************************************************************************)

Emit(s) == signals' = s

\* Mutant: stopAllTimers() forgotten.
MutKeepTimers(on) ==
  /\ state' = IF on THEN "RxToTxRfDelay" ELSE "TxToRxInFlight"
  /\ timers' = timers \cup {IF on THEN "rfDelay" ELSE "keyUp"}
  /\ Emit(IF on THEN KeyOnSignals ELSE KeyOffSignals)

\* Mutant: the break-in state, reserved for CW, entered on the way to receive
\* and the hardware flipped before the amplifiers are told.
MutBreakIn(on) ==
  /\ state' = IF on THEN "RxToTxRfDelay" ELSE "TxToRxBreakIn"
  /\ timers' = {IF on THEN "rfDelay" ELSE "keyUp"}
  /\ Emit(IF on THEN <<"moxChanging", "hardwareFlippedTx", "txAboutToBegin">>
                ELSE <<"moxChanging", "hardwareFlippedRx", "txAboutToEnd">>)

\* The walk a real transition starts: every running timer, the microphone
\* tail among them, is cancelled first.
BeginWalk(on) ==
  IF on
  THEN /\ state' = "RxToTxRfDelay"
       /\ timers' = {"rfDelay"}
       /\ Emit(KeyOnSignals)
  ELSE /\ state' = "TxToRxInFlight"
       /\ timers' = {"keyUp"}
       /\ Emit(KeyOffSignals)

RefuseMox(verdict) ==
  /\ keyBlock \/ verdict # "ok"
  /\ UNCHANGED <<mox, state, keyBlock, timers>>
  /\ Emit(IF keyBlock \/ verdict = "rejected" THEN <<"moxRejected">> ELSE <<>>)

GrantMox(on) ==
  /\ keyBlock' = (keyBlock /\ on)
  /\ mox' = on
  /\ IF mox = on THEN UNCHANGED <<state, timers>> /\ Emit(<<>>)
                 ELSE BeginWalk(on)

\* Mutant: the key-block latch is not consulted.
MutNoLatch(on, verdict) ==
  \/ on /\ verdict # "ok" /\ RefuseMox(verdict)
  \/ on /\ verdict = "ok" /\ GrantMox(TRUE)
  \/ ~on /\ GrantMox(FALSE)

\* A request for OFF always passes and releases the latch; a request for ON
\* must pass the latch, the band plan and the interlock policy.
SetMox(on, verdict) ==
  \/ on /\ RefuseMox(verdict)
  \/ on /\ ~keyBlock /\ verdict = "ok" /\ GrantMox(TRUE)
  \/ ~on /\ GrantMox(FALSE)

(***************************************************************************)
(* The request slots.  A slot claims the PTT mode before it asks for MOX,  *)
(* and keeps the claim when the request is refused.                        *)
(***************************************************************************)

\* RadioModel::setMox: MOX button, TCI, CAT servers, arbiters, decoders.
RequestMox(on, verdict) ==
  /\ SetMox(on, verdict)
  /\ UNCHANGED <<pttMode, manualMox>>

SetTune(on, verdict) ==
  /\ SetMox(on, verdict)
  /\ pttMode' = IF on THEN "Manual" ELSE pttMode
  /\ manualMox' = on

OnPttKey(key, pressed, verdict) ==
  /\ SetMox(pressed, verdict)
  /\ pttMode' = IF pressed THEN key ELSE pttMode
  /\ UNCHANGED manualMox

OnMicPttPressed(verdict) ==
  /\ SetMox(TRUE, verdict)
  /\ pttMode' = "Mic"
  /\ UNCHANGED manualMox

\* A status frame without the PTT bit.  QTimer::start restarts a running
\* timer, which the set of running timers does not show.
OnMicPttReleased ==
  /\ timers' = IF pttMode = "Mic" THEN timers \cup {"micTail"} ELSE timers
  /\ Emit(<<>>)
  /\ UNCHANGED <<mox, state, pttMode, manualMox, keyBlock>>

\* RadioModel::handlePaTelemetry on openAntennaDetected(): unkey, then latch.
OpenAntennaTrip ==
  /\ mox
  /\ keyBlock' = TRUE
  /\ mox' = FALSE
  /\ BeginWalk(FALSE)
  /\ UNCHANGED <<pttMode, manualMox>>

(***************************************************************************)
(* The timer slots.                                                        *)
(***************************************************************************)

OnRfDelayElapsed ==
  /\ "rfDelay" \in timers
  /\ timers' = timers \ {"rfDelay"}
  /\ state' = "Tx"
  /\ Emit(<<"txReady", "moxStateOn">>)
  /\ UNCHANGED <<mox, pttMode, manualMox, keyBlock>>

\* Mutant: the flush timer is not started.
MutNoFlush ==
  /\ "keyUp" \in timers
  /\ timers' = timers \ {"keyUp"}
  /\ state' = "TxToRxFlush"
  /\ Emit(<<"txaFlushed">>)
  /\ UNCHANGED <<mox, pttMode, manualMox, keyBlock>>

OnKeyUpDelayElapsed ==
  /\ "keyUp" \in timers
  /\ timers' = (timers \ {"keyUp"}) \cup {"pttOut"}
  /\ state' = "TxToRxFlush"
  /\ Emit(<<"txaFlushed">>)
  /\ UNCHANGED <<mox, pttMode, manualMox, keyBlock>>

OnPttOutElapsed ==
  /\ "pttOut" \in timers
  /\ timers' = timers \ {"pttOut"}
  /\ state' = "Rx"
  /\ Emit(<<"rxReady", "moxStateOff">>)
  /\ UNCHANGED <<mox, pttMode, manualMox, keyBlock>>

\* setMox(false) only when the microphone is the claimed source; the timer
\* itself has stopped by then, so a repeated OFF leaves the others running.
OnMicPttReleaseTailElapsed ==
  /\ "micTail" \in timers
  /\ UNCHANGED <<pttMode, manualMox>>
  /\ IF pttMode = "Mic" /\ mox
     THEN /\ keyBlock' = FALSE
          /\ mox' = FALSE
          /\ BeginWalk(FALSE)
     ELSE /\ keyBlock' = (keyBlock /\ pttMode # "Mic")
          /\ timers' = timers \ {"micTail"}
          /\ Emit(<<>>)
          /\ UNCHANGED <<mox, state>>

WalkStep == OnRfDelayElapsed \/ OnKeyUpDelayElapsed \/ OnPttOutElapsed

Next ==
  \/ \E on \in BOOLEAN, v \in Verdicts : RequestMox(on, v)
  \/ \E on \in BOOLEAN, v \in Verdicts : SetTune(on, v)
  \/ \E k \in PttKeys, p \in BOOLEAN, v \in Verdicts : OnPttKey(k, p, v)
  \/ \E v \in Verdicts : OnMicPttPressed(v)
  \/ OnMicPttReleased
  \/ OpenAntennaTrip
  \/ OnMicPttReleaseTailElapsed
  \/ OnRfDelayElapsed
  \/ OnKeyUpDelayElapsed
  \/ OnPttOutElapsed

\* A QTimer that is not stopped elapses.
Fairness ==
  /\ WF_vars(OnRfDelayElapsed)
  /\ WF_vars(OnKeyUpDelayElapsed)
  /\ WF_vars(OnPttOutElapsed)
  /\ WF_vars(OnMicPttReleaseTailElapsed)

Spec == Init /\ [][Next]_vars
FairSpec == Spec /\ Fairness

(***************************************************************************)
(* Properties.                                                             *)
(***************************************************************************)

\* The timer that drives the walk is the one its state waits for, there is
\* never a second one, and the state is on the side of the walk that the
\* committed request asks for: setMox stops every timer before it starts the
\* walk round, so no stale timer can finish an abandoned walk.
WalkTimerOf == [s \in MoxState |->
  CASE s = "RxToTxRfDelay"  -> {"rfDelay"}
    [] s = "TxToRxInFlight" -> {"keyUp"}
    [] s = "TxToRxFlush"    -> {"pttOut"}
    [] OTHER                -> {}]

WalkConsistent ==
  /\ timers \cap WalkTimers = WalkTimerOf[state]
  /\ mox <=> state \in {"RxToTxRfDelay", "Tx"}

\* What a step of the walk relies on: types, and the one timer of its state.
MoxInv == TypeOK /\ WalkConsistent

\* While the safety latch is set the transmitter is not keyed, whatever the
\* sources ask for: the open-antenna trip unkeys before it latches, and every
\* request for ON is refused before setMox commits anything.
LatchMeansUnkeyed == keyBlock => ~mox

\* Once released by the operator or tripped, a transmission cannot come back
\* by itself: MOX is committed ON only by a request that passed the latch, and
\* the walk announces it (txAboutToBegin, then the hardware flip) in the same
\* step; MOX is committed OFF only with the OFF announcement.
KeyingIsAnnounced ==
  [][/\ ~mox /\ mox' => ~keyBlock /\ signals' = KeyOnSignals
     /\ mox /\ ~mox' => signals' = KeyOffSignals]_vars

\* What the subscribers hear tells one story, whatever turns the walk round: no
\* txReady of a key that was taken back, no rxReady of an un-key that was, and
\* no announcement twice.
PhaseOf == [s \in MoxState |->
  CASE s = "Rx"             -> "Receive"
    [] s = "RxToTxRfDelay"  -> "Keying"
    [] s = "Tx"             -> "OnAir"
    [] s = "TxToRxInFlight" -> "Draining"
    [] s = "TxToRxFlush"    -> "Drained"]
Phases == INSTANCE TxPhases WITH phase <- PhaseOf[state], heard <- signals
IsTxPhases == Phases!Spec

\* A request that is no longer changed is honoured: the walk ends on the air
\* or back in receive, however often it was turned round before.
RequestIsHonoured ==
  /\ <>[]mox  => <>[](state = "Tx")
  /\ <>[]~mox => <>[](state = "Rx")
=============================================================================
