---------------------------- MODULE RfGateProofs ----------------------------
(***************************************************************************)
(* Safety of the RF-flow gate, for every set of amplifiers and every bound *)
(* on outstanding single shots.                                            *)
(*                                                                         *)
(* The gate is composed of two machines whose invariants are proved on     *)
(* their own.  A step of the gate is a step of one of them, or leaves it   *)
(* idle, so both invariants are parts of the invariant of the gate and are *)
(* not proved again: lemmas MoxPartStep and AmpPartStep cite the proofs of *)
(* the parts.  What is left is the gate's own state against the walk.      *)
(***************************************************************************)
EXTENDS RfGate, TLAPS

MoxPart == INSTANCE MoxControllerProofs WITH PttKeys <- {}
AmpPart == INSTANCE AmpInterlockProofs

GateTypes ==
  /\ {awaiting, txReadyRcvd, ownFailsafe, running} \subseteq BOOLEAN
  /\ oldFailsafes \in Nat
  /\ stops \in Nat

\* What the gate adds to the invariants of its parts.  No trip sets the key
\* block here, so that a request for ON is never refused.
GateOwn ==
  /\ ~keyBlock
  /\ GateTypes
  /\ GateFollowsWalk
  /\ ClosedGateIsUnanswered
  /\ SilenceIsTimed

IInv == MoxPart!IInv /\ AmpPart!IInv /\ GateOwn

(***************************************************************************)
(* The parts.                                                              *)
(***************************************************************************)

MoxStep == (\E on \in BOOLEAN : Mox!RequestMox(on, "ok")) \/ Mox!WalkStep
AmpMove == Amp!Request \/ Amp!Release \/ Amp!TimerStep \/ Amp!ClientNext

\* The requests and timers the gate composes are steps of the MOX machine.
LEMMA MoxPartStep ==
  ASSUME MoxPart!IInv, MoxStep
  PROVE  MoxPart!IInv'
<1>1. MoxPart!IInv /\ [MoxPart!Next]_(MoxPart!vars) => MoxPart!IInv'
  BY MoxPart!NextInv DEF MoxPart!PttKeysAssumption
<1>2. ASSUME NEW on \in BOOLEAN, Mox!RequestMox(on, "ok")
      PROVE  MoxPart!RequestMox(on, "ok") /\ "ok" \in MoxPart!Verdicts
  <2>1. MoxPart!RequestMox(on, "ok")
    BY <1>2, Zenon DEF Mox!RequestMox, MoxPart!RequestMox, Mox!SetMox,
      MoxPart!SetMox, Mox!RefuseMox, MoxPart!RefuseMox, Mox!GrantMox,
      MoxPart!GrantMox, Mox!BeginWalk, MoxPart!BeginWalk, Mox!Emit,
      MoxPart!Emit, Mox!KeyOnSignals, MoxPart!KeyOnSignals,
      Mox!KeyOffSignals, MoxPart!KeyOffSignals
  <2> QED BY <2>1 DEF MoxPart!Verdicts
<1>3. Mox!WalkStep => \/ MoxPart!OnRfDelayElapsed
                      \/ MoxPart!OnKeyUpDelayElapsed
                      \/ MoxPart!OnPttOutElapsed
  BY Zenon DEF Mox!WalkStep, Mox!OnRfDelayElapsed, Mox!OnKeyUpDelayElapsed,
    Mox!OnPttOutElapsed, MoxPart!OnRfDelayElapsed,
    MoxPart!OnKeyUpDelayElapsed, MoxPart!OnPttOutElapsed, Mox!Emit,
    MoxPart!Emit
<1>4. MoxPart!Next
  BY <1>2, <1>3 DEF MoxStep, MoxPart!Next
<1> QED BY <1>1, <1>4

LEMMA MoxPartIdle == MoxPart!IInv /\ MoxIdle => MoxPart!IInv'
<1>1. ASSUME MoxIdle PROVE signals' \in MoxPart!Emissions
  BY <1>1 DEF MoxIdle, MoxPart!Emissions
<1> QED
  BY <1>1 DEF MoxIdle, MoxPart!IInv, MoxPart!TypeOK, MoxPart!WalkConsistent,
    MoxPart!LatchMeansUnkeyed

LEMMA AmpPartStep ==
  ASSUME AmpPart!IInv, AmpMove
  PROVE  AmpPart!IInv'
<1>1. AmpPart!IInv /\ [AmpPart!Next]_(AmpPart!ampVars) => AmpPart!IInv'
  BY RfGateAssumption, AmpPart!NextInv DEF AmpPart!MaxShotsAssumption
<1>2. Amp!Request => AmpPart!Request
  BY Zenon DEF Amp!Request, AmpPart!Request, Amp!RequestAlone,
    AmpPart!RequestAlone, Amp!RequestUnlinked, AmpPart!RequestUnlinked,
    Amp!RequestHandshake, AmpPart!RequestHandshake, Amp!Clients,
    AmpPart!Clients, Amp!Joined, AmpPart!Joined, Amp!Grant, AmpPart!Grant
<1>3. Amp!Release => AmpPart!Release
  BY Zenon DEF Amp!Release, AmpPart!Release, Amp!Clients, AmpPart!Clients,
    Amp!Quiet, AmpPart!Quiet
<1>4. Amp!TimerStep => \/ AmpPart!Advance
                       \/ AmpPart!AckTimeout
                       \/ AmpPart!BroadcastTransmitting
                       \/ AmpPart!BroadcastReady
  BY Zenon DEF Amp!TimerStep, Amp!Advance, AmpPart!Advance, Amp!AckTimeout,
    AmpPart!AckTimeout, Amp!BroadcastTransmitting,
    AmpPart!BroadcastTransmitting, Amp!BroadcastReady,
    AmpPart!BroadcastReady, Amp!StartSettle, AmpPart!StartSettle,
    Amp!Joined, AmpPart!Joined, Amp!Grant, AmpPart!Grant, Amp!Quiet,
    AmpPart!Quiet
<1>5. Amp!ClientNext => AmpPart!ClientNext
  BY Zenon DEF Amp!ClientNext, AmpPart!ClientNext, Amp!Connect,
    AmpPart!Connect, Amp!InterlockCreate, AmpPart!InterlockCreate,
    Amp!InterlockReady, AmpPart!InterlockReady, Amp!InterlockEnable,
    AmpPart!InterlockEnable, Amp!InterlockDisable, AmpPart!InterlockDisable,
    Amp!OnClientDisconnected, AmpPart!OnClientDisconnected, Amp!Stop,
    AmpPart!Stop, Amp!Start, AmpPart!Start, Amp!ClientStep,
    AmpPart!ClientStep, Amp!Quiet, AmpPart!Quiet
<1>6. AmpPart!Next
  BY <1>2, <1>3, <1>4, <1>5 DEF AmpMove, AmpPart!Next
<1> QED BY <1>1, <1>6

LEMMA AmpPartIdle == AmpPart!IInv /\ AmpIdle => AmpPart!IInv'
<1> SUFFICES ASSUME AmpPart!IInv, AmpIdle PROVE AmpPart!IInv'
  OBVIOUS
<1>1. AmpPart!TypeOK'
  BY DEF AmpIdle, AmpPart!IInv, AmpPart!TypeOK, AmpPart!ClientStatus,
    AmpPart!WireState
<1>2. AmpPart!RequestNotLost' /\ AmpPart!TimerMeansWaiting'
  BY DEF AmpIdle, AmpPart!IInv, AmpPart!RequestNotLost,
    AmpPart!TimerMeansWaiting
<1> QED BY <1>1, <1>2 DEF AmpPart!IInv

(***************************************************************************)
(* The gate.                                                               *)
(***************************************************************************)

LEMMA InitInv == Init => IInv
<1> SUFFICES ASSUME Init PROVE IInv
  OBVIOUS
<1>1. MoxPart!IInv
  <2>1. MoxPart!Init
    BY DEF Init, Mox!Init, MoxPart!Init
  <2> QED BY <2>1, MoxPart!InitInv DEF MoxPart!PttKeysAssumption
<1>2. AmpPart!IInv
  <2>1. AmpPart!Init
    BY DEF Init, Amp!Init, AmpPart!Init
  <2> QED
    BY <2>1, RfGateAssumption, AmpPart!InitInv
    DEF AmpPart!MaxShotsAssumption
<1>3. GateOwn
  BY DEF Init, Mox!Init, Amp!Init, GateOwn, GateTypes, GateFollowsWalk,
    ClosedGateIsUnanswered, SilenceIsTimed
<1> QED BY <1>1, <1>2, <1>3 DEF IInv

\* What the gate depends on in a step of either machine.
LEMMA RequestFacts ==
  ASSUME NEW on \in BOOLEAN, mox = ~on, ~keyBlock, Mox!RequestMox(on, "ok")
  PROVE  /\ mox' = on
         /\ ~keyBlock'
         /\ state' = IF on THEN "RxToTxRfDelay" ELSE "TxToRxInFlight"
BY DEF Mox!RequestMox, Mox!SetMox, Mox!RefuseMox, Mox!GrantMox, Mox!BeginWalk

LEMMA AmpFacts ==
  ASSUME Amp!TimerStep \/ Amp!ClientNext
  PROVE  /\ UNCHANGED txActive
         /\ (request' = "granted" => granted' \/ request = "granted")
BY DEF Amp!TimerStep, Amp!Advance, Amp!AckTimeout, Amp!BroadcastTransmitting,
  Amp!BroadcastReady, Amp!ClientNext, Amp!Connect, Amp!InterlockCreate,
  Amp!InterlockReady, Amp!InterlockEnable, Amp!InterlockDisable,
  Amp!OnClientDisconnected, Amp!Stop, Amp!Start, Amp!ClientStep, Amp!Grant,
  Amp!Quiet

LEMMA NextInv == IInv /\ [Next]_vars => IInv'
<1> SUFFICES ASSUME IInv, [Next]_vars PROVE IInv'
  OBVIOUS
<1> USE DEF IInv
<1>1. mox \in BOOLEAN /\ MoxPart!IInv /\ AmpPart!IInv
  BY DEF MoxPart!IInv, MoxPart!TypeOK
<1> USE DEF GateOwn, GateTypes, GateFollowsWalk, ClosedGateIsUnanswered,
            SilenceIsTimed
<1>2. CASE Key
  <2>1. MoxPart!IInv' /\ AmpPart!IInv'
    BY <1>1, <1>2, MoxPartStep, AmpPartStep DEF Key, MoxStep, AmpMove
  <2>2. mox' = TRUE /\ ~keyBlock' /\ state' = "RxToTxRfDelay"
    BY <1>1, <1>2, RequestFacts DEF Key
  <2>3. txActive' = TRUE /\ (awaiting' => request' # "granted")
    <3>1. CASE Amp!Joined = {}
      BY <1>2, <3>1 DEF Key, ArmGate, Amp!Request
    <3>2. CASE Amp!Joined # {}
      <4>1. ~Amp!RequestUnlinked /\ ~Amp!RequestAlone
        BY <3>2 DEF Amp!RequestUnlinked, Amp!RequestAlone, Amp!Joined,
          Amp!Clients
      <4> QED BY <1>2, <4>1 DEF Key, Amp!Request, Amp!RequestHandshake
    <3> QED BY <3>1, <3>2
  <2>4. oldFailsafes' \in Nat
    BY <1>2 DEF Key, ArmGate
  <2> QED BY <1>2, <2>1, <2>2, <2>3, <2>4 DEF Key, ArmGate
<1>3. CASE Unkey
  <2>1. MoxPart!IInv' /\ AmpPart!IInv'
    BY <1>1, <1>3, MoxPartStep, AmpPartStep DEF Unkey, MoxStep, AmpMove
  <2>2. mox' = FALSE /\ ~keyBlock' /\ state' = "TxToRxInFlight"
    BY <1>1, <1>3, RequestFacts DEF Unkey
  <2>3. txActive' = FALSE
    BY <1>3 DEF Unkey, Amp!Release
  <2> QED BY <1>3, <2>1, <2>2, <2>3 DEF Unkey, gateVars
<1>4. CASE TxReady
  <2>1. MoxPart!IInv' /\ AmpPart!IInv'
    BY <1>1, <1>4, MoxPartStep, AmpPartIdle DEF TxReady, MoxStep, Mox!WalkStep
  <2>2. running' \in BOOLEAN /\ ownFailsafe' \in BOOLEAN
    BY <1>4 DEF TxReady
  <2> QED BY <1>4, <2>1, <2>2 DEF TxReady, Mox!OnRfDelayElapsed, AmpIdle
<1>5. CASE TxaFlushed
  <2>1. MoxPart!IInv' /\ AmpPart!IInv'
    BY <1>1, <1>5, MoxPartStep, AmpPartIdle
    DEF TxaFlushed, MoxStep, Mox!WalkStep
  <2>2. stops' \in Nat
    BY <1>5 DEF TxaFlushed
  <2> QED BY <1>5, <2>1, <2>2 DEF TxaFlushed, Mox!OnKeyUpDelayElapsed, AmpIdle
<1>6. CASE MoxStateOff
  <2>1. MoxPart!IInv' /\ AmpPart!IInv'
    BY <1>1, <1>6, MoxPartStep, AmpPartIdle
    DEF MoxStateOff, MoxStep, Mox!WalkStep
  <2> QED BY <1>6, <2>1 DEF MoxStateOff, Mox!OnPttOutElapsed, AmpIdle
<1>7. CASE AmpStep
  <2>1. MoxPart!IInv' /\ AmpPart!IInv'
    BY <1>1, <1>7, MoxPartIdle, AmpPartStep DEF AmpStep, AmpMove
  <2>2. /\ UNCHANGED txActive
        /\ (request' = "granted" => granted' \/ request = "granted")
    BY <1>7, AmpFacts DEF AmpStep
  <2>3. /\ running' \in BOOLEAN
        /\ \/ ~awaiting'
           \/ awaiting' = awaiting /\ ~granted'
        /\ awaiting' \in BOOLEAN
        /\ ~awaiting => awaiting' = awaiting
    BY <1>7 DEF AmpStep, OnInterlockGranted, OpenGate
  <2> QED BY <1>7, <2>1, <2>2, <2>3 DEF AmpStep, MoxIdle
<1>8. CASE Failsafe
  <2>1. MoxPart!IInv' /\ AmpPart!IInv'
    BY <1>1, <1>8, MoxPartIdle, AmpPartIdle DEF Failsafe
  <2>2. oldFailsafes' \in Nat /\ ownFailsafe' \in BOOLEAN
    <3>1. CASE oldFailsafes > 0
      BY <1>8, <3>1 DEF Failsafe
    <3>2. CASE ~(oldFailsafes > 0)
      BY <1>8, <3>2 DEF Failsafe
    <3> QED BY <3>1, <3>2
  <2>3. awaiting' = FALSE /\ running' \in BOOLEAN
    BY <1>8 DEF Failsafe, OpenGate
  <2> QED BY <1>8, <2>1, <2>2, <2>3 DEF Failsafe, MoxIdle, AmpIdle
<1>9. CASE RunStop
  <2>1. MoxPart!IInv' /\ AmpPart!IInv'
    BY <1>1, <1>9, MoxPartIdle, AmpPartIdle DEF RunStop
  <2>2. stops' \in Nat
    BY <1>9 DEF RunStop
  <2> QED BY <1>9, <2>1, <2>2 DEF RunStop, MoxIdle, AmpIdle
<1>10. CASE UNCHANGED vars
  <2>1. MoxPart!IInv'
    BY <1>10 DEF vars, moxVars, MoxPart!IInv, MoxPart!TypeOK,
      MoxPart!WalkConsistent, MoxPart!LatchMeansUnkeyed
  <2>2. AmpPart!TypeOK'
    BY <1>10 DEF vars, ampVars, AmpPart!IInv, AmpPart!TypeOK,
      AmpPart!ClientStatus, AmpPart!WireState
  <2>3. AmpPart!IInv'
    BY <1>10, <2>2 DEF vars, ampVars, AmpPart!IInv, AmpPart!RequestNotLost,
      AmpPart!TimerMeansWaiting
  <2> QED BY <1>10, <2>1, <2>3 DEF vars, moxVars, ampVars, gateVars
<1> QED
  BY <1>2, <1>3, <1>4, <1>5, <1>6, <1>7, <1>8, <1>9, <1>10 DEF Next

\* The gate belongs to one transmission and a closed gate has its grant still to
\* come, for every set of amplifiers.
THEOREM GateHolds == Spec => []GateInv
<1>1. ASSUME IInv PROVE GateInv
  <2>1. Mox!TypeOK
    BY <1>1 DEF IInv, MoxPart!IInv, MoxPart!TypeOK, MoxPart!MoxState,
      MoxPart!PttMode, MoxPart!Timers, MoxPart!WalkTimers, MoxPart!Emissions,
      MoxPart!KeyOnSignals, MoxPart!KeyOffSignals, Mox!TypeOK, Mox!MoxState,
      Mox!PttMode, Mox!Timers, Mox!WalkTimers, Mox!Emissions,
      Mox!KeyOnSignals, Mox!KeyOffSignals
  <2>2. Amp!TypeOK
    BY <1>1 DEF IInv, AmpPart!IInv, AmpPart!TypeOK, AmpPart!ClientStatus,
      AmpPart!WireState, AmpPart!RequestState, Amp!TypeOK,
      Amp!ClientStatus, Amp!WireState, Amp!RequestState
  <2> QED BY <1>1, <2>1, <2>2 DEF IInv, GateOwn, GateTypes, GateInv, TypeOK
<1> QED BY InitInv, NextInv, <1>1, PTL DEF Spec

\* A transmitter that is on the air behind a closed gate always has its own
\* failsafe outstanding.
THEOREM SilenceAlwaysTimed == Spec => []SilenceIsTimed
<1>1. IInv => SilenceIsTimed
  BY DEF IInv, GateOwn
<1> QED BY InitInv, NextInv, <1>1, PTL DEF Spec

\* The invariants of the MOX machine and of the interlock survive the
\* composition: the walk has one timer and a request is not lost, whatever the
\* gate, its failsafes and the worker do.
THEOREM PartsStayCorrect ==
  Spec => [](Mox!WalkConsistent /\ Amp!RequestNotLost /\ Amp!TimerMeansWaiting)
<1>1. IInv =>
      Mox!WalkConsistent /\ Amp!RequestNotLost /\ Amp!TimerMeansWaiting
  BY DEF IInv, MoxPart!IInv, AmpPart!IInv, MoxPart!WalkConsistent,
    Mox!WalkConsistent, MoxPart!WalkTimerOf, Mox!WalkTimerOf,
    MoxPart!MoxState, Mox!MoxState, MoxPart!WalkTimers, Mox!WalkTimers,
    AmpPart!RequestNotLost, Amp!RequestNotLost, AmpPart!TimerMeansWaiting,
    Amp!TimerMeansWaiting
<1> QED BY InitInv, NextInv, <1>1, PTL DEF Spec
=============================================================================
