------------------------------- MODULE RfGate -------------------------------
(***************************************************************************)
(* The RF-flow gate: how RadioModel lets the MOX walk and the amplifier    *)
(* interlock start and stop the transmit channel together.                 *)
(*                                                                         *)
(*   txAboutToBegin   arms the gate if an amplifier has joined, and asks   *)
(*                    for the interlock                                    *)
(*   txReady          starts the channel if the gate is open, else starts  *)
(*                    a 1500 ms failsafe                                   *)
(*   interlockGranted opens the gate, and starts the channel if txReady    *)
(*                    has come                                             *)
(*   txAboutToEnd     releases the interlock                               *)
(*   txaFlushed       posts "stop" to the transmit channel, whose thread   *)
(*                    takes posted calls only between microphone blocks    *)
(*   moxStateChanged(false) disarms the gate                               *)
(*                                                                         *)
(* The composition is by synchronous signals: a step of MoxController or   *)
(* AmpInterlock and the subscribers of what it emits are one step.  The    *)
(* request slots of MoxController differ only in variables nothing here    *)
(* reads, so RequestMox stands for them all.                               *)
(***************************************************************************)
EXTENDS Naturals, Sequences

CONSTANTS
  Amps,          \* the amplifiers that may connect
  MaxShots,      \* bound of AmpInterlock
  MaxFailsafes   \* bound: failsafe single-shots outstanding at a new keying

ASSUME RfGateAssumption ==
  /\ MaxShots \in Nat \ {0}
  /\ MaxFailsafes \in Nat \ {0}

VARIABLES
  mox, state, pttMode, manualMox, keyBlock, timers, signals,
  listening, status, acked, txActive, pending, ackTimer, advance, settling,
  readyShots, wire, granted, request,
  awaiting,      \* m_awaitingInterlockForTx
  txReadyRcvd,   \* m_txReadyReceived
  ownFailsafe,   \* the failsafe of this transmission is outstanding
  oldFailsafes,  \* failsafes of earlier transmissions outstanding
  running,       \* TxChannel::m_running
  stops          \* setRunning(FALSE) calls posted to the worker thread

moxVars == <<mox, state, pttMode, manualMox, keyBlock, timers, signals>>
ampVars == <<listening, status, acked, txActive, pending, ackTimer, advance,
             settling, readyShots, wire, granted, request>>
gateVars == <<awaiting, txReadyRcvd, ownFailsafe, oldFailsafes, running, stops>>
vars == <<moxVars, ampVars, gateVars>>

Mox == INSTANCE MoxController WITH PttKeys <- {}
Amp == INSTANCE AmpInterlock

\* Types of RadioModel's gate and of the run state of the transmit channel;
\* every stop the worker runs was posted by txaFlushed.
TypeOK ==
  /\ Mox!TypeOK
  /\ Amp!TypeOK
  /\ awaiting \in BOOLEAN
  /\ txReadyRcvd \in BOOLEAN
  /\ ownFailsafe \in BOOLEAN
  /\ oldFailsafes \in Nat
  /\ running \in BOOLEAN
  /\ stops \in Nat

Init ==
  /\ Mox!Init
  /\ Amp!Init
  /\ awaiting = FALSE
  /\ txReadyRcvd = FALSE
  /\ ownFailsafe = FALSE
  /\ oldFailsafes = 0
  /\ running = FALSE
  /\ stops = 0

MoxIdle == signals' = <<>>
           /\ UNCHANGED <<mox, state, pttMode, manualMox, keyBlock, timers>>
AmpIdle == granted' = FALSE
           /\ UNCHANGED <<listening, status, acked, txActive, pending, ackTimer,
                          advance, settling, readyShots, wire, request>>

(***************************************************************************)
(* The subscribers of MoxController.                                       *)
(***************************************************************************)

\* txAboutToBegin, before it asks for the interlock: what the request grants
\* at once finds a gate that was not armed.
ArmGate ==
  /\ awaiting' = (Amp!Joined # {})
  /\ txReadyRcvd' = FALSE
  /\ oldFailsafes' = oldFailsafes + (IF ownFailsafe THEN 1 ELSE 0)
  /\ ownFailsafe' = FALSE
  /\ UNCHANGED <<running, stops>>

Key ==
  /\ ~mox
  /\ stops < MaxShots
  /\ oldFailsafes + (IF ownFailsafe THEN 1 ELSE 0) < MaxFailsafes
  /\ Mox!RequestMox(TRUE, "ok")
  /\ ArmGate
  /\ Amp!Request

Unkey ==
  /\ mox
  /\ Mox!RequestMox(FALSE, "ok")
  /\ Amp!Release
  /\ UNCHANGED gateVars

\* Mutant: the failsafe is not armed.
MutNoFailsafe ==
  /\ Mox!OnRfDelayElapsed
  /\ txReadyRcvd' = TRUE
  /\ running' = (running \/ ~awaiting)
  /\ UNCHANGED <<awaiting, ownFailsafe, oldFailsafes, stops>>
  /\ AmpIdle

\* txReady.  The code first asks for the transmit channel, which exists as long
\* as the radio is connected, and so does the failsafe.
TxReady ==
  /\ Mox!OnRfDelayElapsed
  /\ txReadyRcvd' = TRUE
  /\ running' = (running \/ ~awaiting)
  /\ ownFailsafe' = awaiting
  /\ UNCHANGED <<awaiting, oldFailsafes, stops>>
  /\ AmpIdle

\* Mutant: the drain does not stop the channel.
MutNoStop ==
  /\ Mox!OnKeyUpDelayElapsed
  /\ UNCHANGED gateVars
  /\ AmpIdle

\* txaFlushed: the receiver of the connection is the transmit channel, so the
\* call is posted to its thread.
TxaFlushed ==
  /\ Mox!OnKeyUpDelayElapsed
  /\ stops' = stops + 1
  /\ UNCHANGED <<awaiting, txReadyRcvd, ownFailsafe, oldFailsafes, running>>
  /\ AmpIdle

\* Mutant: the gate cleanup of the un-key is forgotten.
MutKeepGate ==
  /\ Mox!OnPttOutElapsed
  /\ UNCHANGED gateVars
  /\ AmpIdle

\* moxStateChanged(FALSE).
MoxStateOff ==
  /\ Mox!OnPttOutElapsed
  /\ awaiting' = FALSE
  /\ txReadyRcvd' = FALSE
  /\ UNCHANGED <<ownFailsafe, oldFailsafes, running, stops>>
  /\ AmpIdle

(***************************************************************************)
(* The subscriber of AmpInterlock, the failsafe and the worker thread.     *)
(***************************************************************************)

OpenGate == awaiting' = FALSE

\* Mutant: a grant that comes first does not open the gate.
MutGrantLost ==
  IF granted' /\ awaiting /\ txReadyRcvd
  THEN OpenGate /\ running' = TRUE
  ELSE UNCHANGED <<awaiting, running>>

\* Whichever of txReady and the grant comes second starts the channel.
OnInterlockGranted ==
  IF granted' /\ awaiting
  THEN OpenGate /\ running' = (running \/ txReadyRcvd)
  ELSE UNCHANGED <<awaiting, running>>

AmpStep ==
  /\ Amp!TimerStep \/ Amp!ClientNext
  /\ OnInterlockGranted
  /\ MoxIdle
  /\ UNCHANGED <<txReadyRcvd, ownFailsafe, oldFailsafes, stops>>

\* The failsafe asks only whether some gate is closed; the oldest elapses
\* first.
Failsafe ==
  /\ IF oldFailsafes > 0
     THEN oldFailsafes' = oldFailsafes - 1 /\ UNCHANGED ownFailsafe
     ELSE ownFailsafe /\ ownFailsafe' = FALSE /\ UNCHANGED oldFailsafes
  /\ IF awaiting
     THEN OpenGate /\ running' = TRUE
     ELSE UNCHANGED <<awaiting, running>>
  /\ UNCHANGED <<txReadyRcvd, stops>>
  /\ MoxIdle
  /\ AmpIdle

\* Mutant: a stop that was not posted.
MutUnguardedStop ==
  /\ stops' = stops - 1
  /\ running' = FALSE
  /\ UNCHANGED <<awaiting, txReadyRcvd, ownFailsafe, oldFailsafes>>
  /\ MoxIdle
  /\ AmpIdle

\* The worker runs a posted setRunning(FALSE).
RunStop ==
  /\ stops > 0
  /\ stops' = stops - 1
  /\ running' = FALSE
  /\ UNCHANGED <<awaiting, txReadyRcvd, ownFailsafe, oldFailsafes>>
  /\ MoxIdle
  /\ AmpIdle

Next ==
  \/ Key
  \/ Unkey
  \/ TxReady
  \/ TxaFlushed
  \/ MoxStateOff
  \/ AmpStep
  \/ Failsafe
  \/ RunStop

\* Timers elapse, posted calls are delivered, and the microphone source feeds
\* the worker, which then takes the posted calls.
Fairness ==
  /\ WF_vars(TxReady)
  /\ WF_vars(TxaFlushed)
  /\ WF_vars(MoxStateOff)
  /\ WF_vars(AmpStep /\ Amp!TimerStep)
  /\ WF_vars(Failsafe)
  /\ WF_vars(RunStop)

Spec == Init /\ [][Next]_vars
FairSpec == Spec /\ Fairness

(***************************************************************************)
(* Properties.                                                             *)
(***************************************************************************)

\* The gate belongs to one transmission: in receive it is disarmed and no
\* txReady is remembered, the interlock is asked for exactly while the
\* transmitter is keyed, and txReady is remembered exactly once the walk has
\* reached transmit.
GateFollowsWalk ==
  /\ state = "Rx" => ~awaiting /\ ~txReadyRcvd
  /\ state = "RxToTxRfDelay" => ~txReadyRcvd
  /\ state = "Tx" => txReadyRcvd
  /\ txActive = mox

\* A keyed transmitter is never silent without a way out: on the air with the
\* gate still closed, the failsafe of this very transmission is outstanding.
SilenceIsTimed == state = "Tx" /\ awaiting => ownFailsafe

\* A closed gate has a request behind it that is still unanswered, so the
\* grant that will open it cannot have gone by unseen.
ClosedGateIsUnanswered == mox /\ awaiting => request # "granted"

\* What a step of the gate relies on: types, a gate that belongs to the walk,
\* and a grant that is still to come.
GateInv == TypeOK /\ GateFollowsWalk /\ ClosedGateIsUnanswered

\* The operator who keeps the transmitter keyed gets it on the air, whatever
\* the amplifiers and the operator's earlier transmissions did.
KeyedGetsRf == <>[]mox => <>[]running

\* The same of a transmitter that is never keyed while the worker still has a
\* stop to run.
PromptStopGetsRf == [](stops > 0 => ~mox) => KeyedGetsRf

\* Without an amplifier that could start it late, the transmit channel stays
\* stopped once txaFlushed's stop has run, until the transmitter is keyed again,
\* and the operator who stays in receive gets silence.
CarrierStops ==
  [](Amp!Joined = {}) =>
    /\ [](running /\ stops = 0 => state \notin {"TxToRxFlush", "Rx"})
    /\ <>[]~mox => <>[]~running

\* The comment on moxStateChanged(FALSE): a late grant does not start a
\* transmit channel that the un-key has already drained.
LateGrantIsIgnored ==
  [][granted' /\ running' /\ ~running =>
       state \notin {"TxToRxFlush", "Rx"}]_vars

\* The comment on txAboutToBegin: no carrier flows while the gate waits for the
\* amplifiers.
NoCarrierWhileAwaiting == awaiting => ~running

\* The comment on txReady: the failsafe releases the gate only when the grant of
\* its own transmission did not fire within 1500 ms.
FailsafeIsOwn == [][oldFailsafes' < oldFailsafes => awaiting' = awaiting]_vars
=============================================================================
