------------------------ MODULE MoxControllerProofs ------------------------
(***************************************************************************)
(* Safety of the MOX controller for every set of press/release slots.      *)
(*                                                                         *)
(* WalkConsistent is inductive once it is joined with the type invariant   *)
(* and with LatchMeansUnkeyed: that the latch is only ever set together    *)
(* with an unkey needs mox to be decided by the same step, and that a      *)
(* timer slot may leave mox alone needs the timer of the state to be the   *)
(* only one that runs.                                                     *)
(***************************************************************************)
EXTENDS MoxController, TLAPS

IInv == TypeOK /\ WalkConsistent /\ LatchMeansUnkeyed

\* The request slots differ in the mode they claim and share setMox(): setMox
\* preserves everything the invariant says of the variables it writes.
LEMMA SetMoxKeepsInv ==
  ASSUME IInv, NEW on \in BOOLEAN, NEW verdict \in Verdicts,
         SetMox(on, verdict), pttMode' \in PttMode, manualMox' \in BOOLEAN
  PROVE  IInv'
<1> USE DEF IInv, TypeOK, WalkConsistent, LatchMeansUnkeyed, WalkTimerOf,
            MoxState, Timers, WalkTimers
<1>1. CASE on /\ RefuseMox(verdict)
  <2>1. signals' \in Emissions
    BY <1>1 DEF RefuseMox, Emit, Emissions
  <2> QED BY <1>1, <2>1 DEF RefuseMox
<1>2. CASE mox = on /\ GrantMox(on) /\ (on => ~keyBlock)
  <2>1. signals' \in Emissions
    BY <1>2 DEF GrantMox, Emit, Emissions
  <2> QED BY <1>2, <2>1 DEF GrantMox
<1>3. CASE mox # on /\ GrantMox(on) /\ (on => ~keyBlock)
  <2>1. signals' \in Emissions
    BY <1>3 DEF GrantMox, BeginWalk, Emit, Emissions
  <2>2. CASE on
    BY <1>3, <2>1, <2>2 DEF GrantMox, BeginWalk
  <2>3. CASE ~on
    BY <1>3, <2>1, <2>3 DEF GrantMox, BeginWalk
  <2> QED BY <2>2, <2>3
<1>4. \/ on /\ RefuseMox(verdict)
      \/ GrantMox(on) /\ (on => ~keyBlock)
  <2>1. CASE on
    BY <2>1 DEF SetMox
  <2>2. CASE ~on
    BY <2>2 DEF SetMox
  <2> QED BY <2>1, <2>2
<1> QED BY <1>1, <1>2, <1>3, <1>4

LEMMA InitInv == Init => IInv
BY DEF Init, IInv, TypeOK, WalkConsistent, LatchMeansUnkeyed, WalkTimerOf,
       MoxState, PttMode, Timers, WalkTimers, Emissions

LEMMA NextInv == IInv /\ [Next]_vars => IInv'
<1> SUFFICES ASSUME IInv, [Next]_vars PROVE IInv'
  OBVIOUS
<1> USE DEF IInv
<1>1. ASSUME NEW on \in BOOLEAN, NEW v \in Verdicts, RequestMox(on, v)
      PROVE  IInv'
  BY <1>1, SetMoxKeepsInv DEF RequestMox, TypeOK
<1>2. ASSUME NEW on \in BOOLEAN, NEW v \in Verdicts, SetTune(on, v)
      PROVE  IInv'
  BY <1>2, SetMoxKeepsInv DEF SetTune, TypeOK, PttMode
<1>3. ASSUME NEW k \in PttKeys, NEW p \in BOOLEAN, NEW v \in Verdicts,
             OnPttKey(k, p, v)
      PROVE  IInv'
  BY <1>3, SetMoxKeepsInv DEF OnPttKey, TypeOK, PttMode
<1>4. ASSUME NEW v \in Verdicts, OnMicPttPressed(v)
      PROVE  IInv'
  BY <1>4, SetMoxKeepsInv DEF OnMicPttPressed, TypeOK, PttMode
<1> USE DEF TypeOK, WalkConsistent, LatchMeansUnkeyed, WalkTimerOf,
            MoxState, Timers, WalkTimers
<1>5. CASE OnMicPttReleased
  <2>1. signals' \in Emissions
    BY <1>5 DEF OnMicPttReleased, Emit, Emissions
  <2> QED BY <1>5, <2>1 DEF OnMicPttReleased
<1>6. CASE OpenAntennaTrip
  <2>1. signals' \in Emissions
    BY <1>6 DEF OpenAntennaTrip, BeginWalk, Emit, Emissions
  <2> QED BY <1>6, <2>1 DEF OpenAntennaTrip, BeginWalk
<1>7. CASE OnMicPttReleaseTailElapsed
  <2>1. signals' \in Emissions
    BY <1>7 DEF OnMicPttReleaseTailElapsed, BeginWalk, Emit, Emissions
  <2>2. CASE pttMode = "Mic" /\ mox
    BY <1>7, <2>1, <2>2 DEF OnMicPttReleaseTailElapsed, BeginWalk
  <2>3. CASE ~(pttMode = "Mic" /\ mox)
    BY <1>7, <2>1, <2>3 DEF OnMicPttReleaseTailElapsed
  <2> QED BY <2>2, <2>3
<1>8. CASE OnRfDelayElapsed
  <2>1. signals' \in Emissions
    BY <1>8 DEF OnRfDelayElapsed, Emit, Emissions
  <2> QED BY <1>8, <2>1 DEF OnRfDelayElapsed
<1>9. CASE OnKeyUpDelayElapsed
  <2>1. signals' \in Emissions
    BY <1>9 DEF OnKeyUpDelayElapsed, Emit, Emissions
  <2> QED BY <1>9, <2>1 DEF OnKeyUpDelayElapsed
<1>10. CASE OnPttOutElapsed
  <2>1. signals' \in Emissions
    BY <1>10 DEF OnPttOutElapsed, Emit, Emissions
  <2> QED BY <1>10, <2>1 DEF OnPttOutElapsed
<1>11. CASE UNCHANGED vars
  BY <1>11 DEF vars
<1> QED
  BY <1>1, <1>2, <1>3, <1>4, <1>5, <1>6, <1>7, <1>8, <1>9, <1>10, <1>11
  DEF Next

\* The type invariant, for every set of press/release slots.
THEOREM TypeCorrect == Spec => []TypeOK
<1>1. IInv => TypeOK
  BY DEF IInv
<1> QED BY InitInv, NextInv, <1>1, PTL DEF Spec

\* setMox() leaves at most the timer of its own walk running.
THEOREM WalkStaysConsistent == Spec => []WalkConsistent
<1>1. IInv => WalkConsistent
  BY DEF IInv
<1> QED BY InitInv, NextInv, <1>1, PTL DEF Spec

\* Both together are what each step of the walk relies on.
THEOREM WalkHolds == Spec => []MoxInv
<1>1. IInv => MoxInv
  BY DEF IInv, MoxInv
<1> QED BY InitInv, NextInv, <1>1, PTL DEF Spec

\* A latched transmitter is never keyed.
THEOREM LatchHolds == Spec => []LatchMeansUnkeyed
<1>1. IInv => LatchMeansUnkeyed
  BY DEF IInv
<1> QED BY InitInv, NextInv, <1>1, PTL DEF Spec

\* Every change of the committed request is announced in the step that makes
\* it, and keying passes the latch.
THEOREM KeyingAlwaysAnnounced == Spec => KeyingIsAnnounced
<1> DEFINE Announced ==
      /\ ~mox /\ mox' => /\ ~keyBlock
                         /\ signals' = KeyOnSignals
      /\ mox /\ ~mox' => signals' = KeyOffSignals
<1>1. IInv /\ [Next]_vars => [Announced]_vars
  <2> SUFFICES ASSUME IInv, Next PROVE Announced
    OBVIOUS
  <2> USE DEF IInv, TypeOK
  <2>1. ASSUME NEW on \in BOOLEAN, NEW v \in Verdicts, SetMox(on, v)
        PROVE  Announced
    BY <2>1 DEF SetMox, RefuseMox, GrantMox, BeginWalk, Emit
  <2>2. ASSUME \/ OnMicPttReleased
               \/ OpenAntennaTrip
               \/ OnMicPttReleaseTailElapsed
               \/ OnRfDelayElapsed
               \/ OnKeyUpDelayElapsed
               \/ OnPttOutElapsed
        PROVE  Announced
    BY <2>2 DEF OnMicPttReleased, OpenAntennaTrip, OnMicPttReleaseTailElapsed,
        OnRfDelayElapsed, OnKeyUpDelayElapsed, OnPttOutElapsed, BeginWalk, Emit
  <2> QED
    BY <2>1, <2>2 DEF Next, RequestMox, SetTune, OnPttKey, OnMicPttPressed
<1> QED BY InitInv, NextInv, <1>1, PTL DEF Spec, KeyingIsAnnounced
(***************************************************************************)
(* The refinement of TxPhases.  A timer slot announces what its state is   *)
(* due for only because the running timer is the one of that state; setMox *)
(* announces a turn only where mox and state are on the same side.         *)
(***************************************************************************)

LEMMA PhaseCases ==
  /\ PhaseOf["Rx"] = "Receive"
  /\ PhaseOf["RxToTxRfDelay"] = "Keying"
  /\ PhaseOf["Tx"] = "OnAir"
  /\ PhaseOf["TxToRxInFlight"] = "Draining"
  /\ PhaseOf["TxToRxFlush"] = "Drained"
BY DEF PhaseOf, MoxState

LEMMA BeginWalkAnnounces ==
  ASSUME IInv, NEW on \in BOOLEAN, mox # on, BeginWalk(on)
  PROVE  Phases!Key \/ Phases!Unkey
<1>1. CASE on
  <2>1. state \in {"Rx", "TxToRxInFlight", "TxToRxFlush"}
    BY <1>1 DEF IInv, TypeOK, WalkConsistent, MoxState
  <2>2. state' = "RxToTxRfDelay" /\ signals' = KeyOnSignals
    BY <1>1 DEF BeginWalk, Emit
  <2>3. PhaseOf[state] \in {"Receive", "Draining", "Drained"}
    BY <2>1, PhaseCases
  <2>4. PhaseOf[state'] = "Keying"
    BY <2>2, PhaseCases
  <2> QED
    BY <2>2, <2>3, <2>4 DEF Phases!Key, Phases!Announce, KeyOnSignals
<1>2. CASE ~on
  <2>1. state \in {"RxToTxRfDelay", "Tx"}
    BY <1>2 DEF IInv, TypeOK, WalkConsistent
  <2>2. state' = "TxToRxInFlight" /\ signals' = KeyOffSignals
    BY <1>2 DEF BeginWalk, Emit
  <2>3. PhaseOf[state] \in {"Keying", "OnAir"}
    BY <2>1, PhaseCases
  <2>4. PhaseOf[state'] = "Draining"
    BY <2>2, PhaseCases
  <2> QED
    BY <2>2, <2>3, <2>4 DEF Phases!Unkey, Phases!Announce, KeyOffSignals
<1> QED BY <1>1, <1>2

LEMMA SilenceAnnounces ==
  ASSUME state' = state, signals' \in {<<>>, <<"moxRejected">>}
  PROVE  Phases!Silence
BY DEF Phases!Silence

LEMMA SetMoxAnnounces ==
  ASSUME IInv, NEW on \in BOOLEAN, NEW verdict \in Verdicts,
         SetMox(on, verdict)
  PROVE  Phases!Next
<1>1. CASE RefuseMox(verdict)
  <2>1. state' = state /\ signals' \in {<<>>, <<"moxRejected">>}
    BY <1>1 DEF RefuseMox, Emit
  <2> QED BY <2>1, SilenceAnnounces DEF Phases!Next
<1>2. CASE GrantMox(on)
  <2>1. CASE mox = on
    <3>1. state' = state /\ signals' = <<>>
      BY <1>2, <2>1 DEF GrantMox, Emit
    <3> QED BY <3>1, SilenceAnnounces DEF Phases!Next
  <2>2. CASE mox # on
    <3>1. BeginWalk(on)
      BY <1>2, <2>2 DEF GrantMox
    <3> QED BY <2>2, <3>1, BeginWalkAnnounces DEF Phases!Next
  <2> QED BY <2>1, <2>2
<1>3. RefuseMox(verdict) \/ GrantMox(on)
  <2>1. on => RefuseMox(verdict) \/ GrantMox(on)
    BY DEF SetMox
  <2>2. ~on => GrantMox(on)
    BY DEF SetMox
  <2> QED BY <2>1, <2>2
<1> QED BY <1>1, <1>2, <1>3

LEMMA PhasesInit == Init => Phases!Init
BY PhaseCases DEF Init, Phases!Init

LEMMA PhasesNext == IInv /\ [Next]_vars => [Phases!Next]_(Phases!vars)
<1> SUFFICES ASSUME IInv, [Next]_vars
             PROVE  Phases!Next \/ UNCHANGED Phases!vars
  OBVIOUS
<1> USE DEF IInv
<1>1. ASSUME NEW on \in BOOLEAN, NEW v \in Verdicts, SetMox(on, v)
      PROVE  Phases!Next
  BY <1>1, SetMoxAnnounces
<1>2. CASE OnMicPttReleased
  <2>1. state' = state /\ signals' = <<>>
    BY <1>2 DEF OnMicPttReleased, Emit
  <2> QED BY <2>1, SilenceAnnounces DEF Phases!Next
<1>3. CASE OpenAntennaTrip
  <2>1. mox # FALSE /\ BeginWalk(FALSE)
    BY <1>3 DEF OpenAntennaTrip
  <2> QED BY <2>1, BeginWalkAnnounces DEF Phases!Next
<1>4. CASE OnMicPttReleaseTailElapsed
  <2>1. CASE pttMode = "Mic" /\ mox
    <3>1. mox # FALSE /\ BeginWalk(FALSE)
      BY <1>4, <2>1 DEF OnMicPttReleaseTailElapsed
    <3> QED BY <3>1, BeginWalkAnnounces DEF Phases!Next
  <2>2. CASE ~(pttMode = "Mic" /\ mox)
    <3>1. state' = state /\ signals' = <<>>
      BY <1>4, <2>2 DEF OnMicPttReleaseTailElapsed, Emit
    <3> QED BY <3>1, SilenceAnnounces DEF Phases!Next
  <2> QED BY <2>1, <2>2
\* The timer that elapses tells the state.
<1>5. /\ "rfDelay" \in timers => state = "RxToTxRfDelay"
      /\ "keyUp" \in timers => state = "TxToRxInFlight"
      /\ "pttOut" \in timers => state = "TxToRxFlush"
  BY DEF TypeOK, WalkConsistent, WalkTimerOf, WalkTimers, MoxState
<1>6. CASE OnRfDelayElapsed
  <2>1. /\ state = "RxToTxRfDelay" /\ state' = "Tx"
        /\ signals' = <<"txReady", "moxStateOn">>
    BY <1>5, <1>6 DEF OnRfDelayElapsed, Emit
  <2>2. PhaseOf[state] = "Keying" /\ PhaseOf[state'] = "OnAir"
    BY <2>1, PhaseCases
  <2> QED BY <2>1, <2>2 DEF Phases!TxReady, Phases!Announce, Phases!Next
<1>7. CASE OnKeyUpDelayElapsed
  <2>1. /\ state = "TxToRxInFlight" /\ state' = "TxToRxFlush"
        /\ signals' = <<"txaFlushed">>
    BY <1>5, <1>7 DEF OnKeyUpDelayElapsed, Emit
  <2>2. PhaseOf[state] = "Draining" /\ PhaseOf[state'] = "Drained"
    BY <2>1, PhaseCases
  <2> QED BY <2>1, <2>2 DEF Phases!Flushed, Phases!Announce, Phases!Next
<1>8. CASE OnPttOutElapsed
  <2>1. /\ state = "TxToRxFlush" /\ state' = "Rx"
        /\ signals' = <<"rxReady", "moxStateOff">>
    BY <1>5, <1>8 DEF OnPttOutElapsed, Emit
  <2>2. PhaseOf[state] = "Drained" /\ PhaseOf[state'] = "Receive"
    BY <2>1, PhaseCases
  <2> QED BY <2>1, <2>2 DEF Phases!RxReady, Phases!Announce, Phases!Next
<1>9. CASE UNCHANGED vars
  BY <1>9 DEF vars, Phases!vars
<1> QED
  BY <1>1, <1>2, <1>3, <1>4, <1>6, <1>7, <1>8, <1>9
  DEF Next, RequestMox, SetTune, OnPttKey, OnMicPttPressed

\* What the subscribers hear of the controller is what TxPhases promises them.
THEOREM WalkTellsOneStory == Spec => IsTxPhases
BY PhasesInit, PhasesNext, InitInv, NextInv, PTL DEF Spec, IsTxPhases, Phases!Spec
=============================================================================
