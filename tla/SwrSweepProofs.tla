--------------------------- MODULE SwrSweepProofs ---------------------------
(***************************************************************************)
(* Safety of the SWR sweep, for every plan, both abort limits and every    *)
(* number of settle shots.                                                 *)
(*                                                                         *)
(* The sweep shares the TUNE cycle with the operator, so the invariant of  *)
(* the cycle, proved in TuneCycleProofs, is a part of the sweep's.  That   *)
(* the carrier of the sweep is on (CarrierHasSweep) is not inductive: a    *)
(* settle shot of an earlier release could end TUNE under it.  It could do *)
(* so only if the release of that TUNE were still latched, and pressing    *)
(* TUNE clears the latch.                                                  *)
(***************************************************************************)
EXTENDS SwrSweep, TLAPS

CyclePart == INSTANCE TuneCycleProofs

CarrierIsKept == carrier => ~pendingOff

SweepTypes ==
  /\ sweep \in Active \cup {"Idle", "Finishing"}
  /\ {stepTimer, watchdog, measuring, carrier} \subseteq BOOLEAN
  /\ index \in 0 .. Points
  /\ sweep \in {"Settling", "Measuring"} => index < Points
  /\ highRun \in 0 .. AbortSwrRun /\ deadRun \in 0 .. AbortDeadRun
  /\ sweep \in Active => highRun < AbortSwrRun /\ deadRun < AbortDeadRun
  /\ txFreq \in {"slice", "sweep"}

\* What the sweep adds to the invariant of the cycle.
SweepOwn ==
  /\ SweepTypes
  /\ SweepIsTimed
  /\ CarrierHasSweep
  /\ CarrierIsKept
  /\ SweepIsUndone

IInv == CyclePart!IInv /\ SweepOwn

(***************************************************************************)
(* The cycle.                                                              *)
(***************************************************************************)

\* The steps the sweep, the operator and the session take of the cycle are
\* steps of TuneCycle, whose invariant they keep.
LEMMA CycleNext == CyclePart!IInv /\ CyclePart!Next => CyclePart!IInv'
BY SwrSweepAssumption, CyclePart!NextInv DEF CyclePart!MaxSettlesAssumption

LEMMA CycleIdle == CyclePart!IInv /\ UNCHANGED tuneVars => CyclePart!IInv'
<1>1. UNCHANGED tuneVars => UNCHANGED CyclePart!vars
  BY DEF tuneVars, CyclePart!vars, CyclePart!moxVars, CyclePart!tuneVars
<1> QED
  BY <1>1, SwrSweepAssumption, CyclePart!NextInv
  DEF CyclePart!MaxSettlesAssumption

\* Pressing TUNE is setTune(TRUE) of the cycle; a refusal may release it twice.
LEMMA PressKeepsCycle ==
  ASSUME CyclePart!IInv, NEW v \in Tune!Mox!Verdicts,
         NEW n \in Nat \ {0},
         Tune!TuneOn, Tune!Engage(v) \/ Tune!Refuse(v, n)
  PROVE  CyclePart!IInv'
<1>1. v \in CyclePart!Mox!Verdicts
  BY DEF Tune!Mox!Verdicts, CyclePart!Mox!Verdicts
<1>2. CyclePart!TuneOn
  BY Zenon DEF Tune!TuneOn, CyclePart!TuneOn
<1>3. CASE Tune!Engage(v)
  <2>1. CyclePart!Engage(v)
    BY <1>3, Zenon DEF Tune!Engage, CyclePart!Engage, Tune!Mox!SetTune,
      CyclePart!Mox!SetTune, Tune!Mox!SetMox, CyclePart!Mox!SetMox,
      Tune!Mox!RefuseMox, CyclePart!Mox!RefuseMox, Tune!Mox!GrantMox,
      CyclePart!Mox!GrantMox, Tune!Mox!BeginWalk, CyclePart!Mox!BeginWalk,
      Tune!Mox!Emit, CyclePart!Mox!Emit, Tune!Mox!KeyOnSignals,
      CyclePart!Mox!KeyOnSignals, Tune!Mox!KeyOffSignals,
      CyclePart!Mox!KeyOffSignals
  <2> QED
    BY <1>1, <1>2, <2>1, CycleNext DEF CyclePart!Next, CyclePart!PressTune
<1>4. CASE Tune!Refuse(v, n)
  <2>1. CyclePart!Refuse(v, n)
    BY <1>4, Zenon DEF Tune!Refuse, CyclePart!Refuse, Tune!Settle,
      CyclePart!Settle, Tune!Mox!Emit, CyclePart!Mox!Emit
  <2> QED
    BY SwrSweepAssumption, <1>1, <1>2, <2>1, CyclePart!RefuseKeepsInv
    DEF CyclePart!MaxSettlesAssumption
<1> QED BY <1>3, <1>4

LEMMA KeyTuneOffKeepsCycle ==
  ASSUME CyclePart!IInv, Tune!ReleaseTune \/ KeyTuneOff
  PROVE  CyclePart!IInv'
<1>1. CASE Tune!ReleaseTune
  <2>1. CyclePart!ReleaseTune
    BY <1>1, Zenon DEF Tune!ReleaseTune, CyclePart!ReleaseTune, Tune!Settle,
      CyclePart!Settle, Tune!Mox!SetTune, CyclePart!Mox!SetTune,
      Tune!Mox!SetMox, CyclePart!Mox!SetMox, Tune!Mox!RefuseMox,
      CyclePart!Mox!RefuseMox, Tune!Mox!GrantMox, CyclePart!Mox!GrantMox,
      Tune!Mox!BeginWalk, CyclePart!Mox!BeginWalk, Tune!Mox!Emit,
      CyclePart!Mox!Emit, Tune!Mox!KeyOnSignals, CyclePart!Mox!KeyOnSignals,
      Tune!Mox!KeyOffSignals, CyclePart!Mox!KeyOffSignals
  <2> QED BY <2>1, CycleNext DEF CyclePart!Next
<1> QED BY <1>1, CycleIdle DEF KeyTuneOff

\* What goes on in the cycle while the sweep looks on.
OtherStep ==
  \/ Tune!SettleElapsed
  \/ Tune!TxReady
  \/ Tune!TxaFlushed
  \/ Tune!RxReady
  \/ \E on \in BOOLEAN : Tune!RequestMox(on)
  \/ Tune!OpenAntennaTrip

LEMMA OtherKeepsCycle ==
  ASSUME CyclePart!IInv, OtherStep \/ Tune!Teardown \/ Tune!Connect
  PROVE  CyclePart!IInv'
<1>1. \/ CyclePart!SettleElapsed
      \/ CyclePart!TxReady
      \/ CyclePart!TxaFlushed
      \/ CyclePart!RxReady
      \/ \E on \in BOOLEAN : CyclePart!RequestMox(on)
      \/ CyclePart!OpenAntennaTrip
      \/ CyclePart!Teardown
      \/ CyclePart!Connect
  BY Zenon DEF OtherStep, Tune!SettleElapsed, CyclePart!SettleElapsed,
    Tune!CompleteTuneOff, CyclePart!CompleteTuneOff, Tune!TxReady,
    CyclePart!TxReady, Tune!TxaFlushed, CyclePart!TxaFlushed, Tune!RxReady,
    CyclePart!RxReady, Tune!RequestMox, CyclePart!RequestMox,
    Tune!OpenAntennaTrip, CyclePart!OpenAntennaTrip, Tune!Teardown,
    CyclePart!Teardown, Tune!Connect, CyclePart!Connect, Tune!Settle,
    CyclePart!Settle, Tune!moxVars, CyclePart!moxVars, Tune!tuneVars,
    CyclePart!tuneVars, Tune!Mox!RequestMox, CyclePart!Mox!RequestMox,
    Tune!Mox!OpenAntennaTrip, CyclePart!Mox!OpenAntennaTrip,
    Tune!Mox!OnRfDelayElapsed, CyclePart!Mox!OnRfDelayElapsed,
    Tune!Mox!OnKeyUpDelayElapsed, CyclePart!Mox!OnKeyUpDelayElapsed,
    Tune!Mox!OnPttOutElapsed, CyclePart!Mox!OnPttOutElapsed,
    Tune!Mox!SetMox, CyclePart!Mox!SetMox, Tune!Mox!RefuseMox,
    CyclePart!Mox!RefuseMox, Tune!Mox!GrantMox, CyclePart!Mox!GrantMox,
    Tune!Mox!BeginWalk, CyclePart!Mox!BeginWalk, Tune!Mox!Emit,
    CyclePart!Mox!Emit, Tune!Mox!KeyOnSignals, CyclePart!Mox!KeyOnSignals,
    Tune!Mox!KeyOffSignals, CyclePart!Mox!KeyOffSignals
<1> QED BY <1>1, CycleNext DEF CyclePart!Next

\* No settle shot, walk or foreign source ends a TUNE that is not being
\* released, and none of them changes the session.
LEMMA OtherFacts ==
  ASSUME OtherStep
  PROVE  /\ connected' = connected
         /\ isTuning /\ ~pendingOff => isTuning' /\ ~pendingOff'
BY DEF OtherStep, Tune!SettleElapsed, Tune!TxReady, Tune!TxaFlushed,
  Tune!RxReady, Tune!RequestMox, Tune!OpenAntennaTrip, Tune!tuneVars

\* A press that keys leaves a TUNE that is on and not being released.
LEMMA EngageFacts ==
  ASSUME NEW v, Tune!TuneOn, Tune!Engage(v)
  PROVE  connected /\ connected' /\ isTuning' /\ ~pendingOff' /\ mox'
BY DEF Tune!TuneOn, Tune!Engage

(***************************************************************************)
(* The sweep.                                                              *)
(***************************************************************************)

LEMMA InitInv == Init => IInv
<1> SUFFICES ASSUME Init PROVE IInv
  OBVIOUS
<1>1. CyclePart!IInv
  <2>1. CyclePart!Init
    BY Zenon DEF Init, Tune!Init, CyclePart!Init, Tune!Mox!Init,
      CyclePart!Mox!Init, Tune!Modes, CyclePart!Modes
  <2> QED
    BY <2>1, SwrSweepAssumption, CyclePart!InitInv
    DEF CyclePart!MaxSettlesAssumption
<1>2. 0 \in 0 .. Points /\ 0 \in 0 .. AbortSwrRun /\ 0 \in 0 .. AbortDeadRun
  BY SwrSweepAssumption
<1>3. SweepTypes
  BY <1>2 DEF Init, SweepTypes, Active
<1>4. SweepOwn
  BY <1>3 DEF Init, SweepOwn, Active, SweepIsTimed, CarrierHasSweep,
    CarrierIsKept, SweepIsUndone
<1> QED BY <1>1, <1>4 DEF IInv

\* finish(), for whatever reason: the sweep waits out its settle, unkeyed.
LEMMA FinishKeepsInv ==
  ASSUME IInv, Finish, UNCHANGED <<txFreq, measuring>>,
         index' \in 0 .. Points, highRun' \in 0 .. AbortSwrRun,
         deadRun' \in 0 .. AbortDeadRun
  PROVE  IInv'
<1>1. CyclePart!IInv'
  BY KeyTuneOffKeepsCycle DEF Finish, IInv
<1> QED
  BY <1>1 DEF IInv, SweepOwn, SweepTypes, SweepIsTimed, CarrierHasSweep,
    CarrierIsKept, SweepIsUndone, Active, Keyed, Finish, End

\* The step to the point with index i, which may be past the last one.
LEMMA NextPointKeepsInv ==
  ASSUME IInv, NEW i \in 0 .. Points, sweep \in {"Keying", "Measuring"},
         NextPoint(i), index' = i, UNCHANGED measuring,
         highRun' \in 0 .. AbortSwrRun - 1, deadRun' \in 0 .. AbortDeadRun - 1
  PROVE  IInv'
<1> USE SwrSweepAssumption
<1>1. /\ highRun' \in 0 .. AbortSwrRun /\ highRun' < AbortSwrRun
      /\ deadRun' \in 0 .. AbortDeadRun /\ deadRun' < AbortDeadRun
  OBVIOUS
<1>2. CASE i >= Points
  <2>1. Finish /\ UNCHANGED txFreq
    BY <1>2 DEF NextPoint
  <2> QED BY <1>1, <2>1, FinishKeepsInv
<1>3. CASE ~(i >= Points)
  <2>1. /\ sweep' = "Settling"
        /\ txFreq' \in {"slice", "sweep"}
        /\ UNCHANGED <<tuneVars, timing, carrier>>
    BY <1>3 DEF NextPoint, IInv, SweepOwn, SweepTypes
  <2>2. CyclePart!IInv'
    BY <2>1, CycleIdle DEF IInv
  <2>3. index' < Points
    BY <1>3
  <2>4. SweepTypes'
    BY <1>1, <2>1, <2>3 DEF IInv, SweepOwn, SweepTypes, Active, timing
  <2>5. SweepIsTimed' /\ CarrierHasSweep' /\ CarrierIsKept' /\ SweepIsUndone'
    BY <2>1 DEF IInv, SweepOwn, SweepIsTimed, CarrierHasSweep, CarrierIsKept,
      SweepIsUndone, Active, Keyed, timing, tuneVars
  <2> QED BY <2>2, <2>4, <2>5 DEF IInv, SweepOwn
<1> QED BY <1>2, <1>3

LEMMA NextInv == IInv /\ [Next]_vars => IInv'
<1> SUFFICES ASSUME IInv, [Next]_vars PROVE IInv'
  OBVIOUS
<1>1. /\ highRun \in 0 .. AbortSwrRun /\ deadRun \in 0 .. AbortDeadRun
      /\ index \in 0 .. Points
      /\ sweep \in Active => /\ highRun \in 0 .. AbortSwrRun - 1
                             /\ deadRun \in 0 .. AbortDeadRun - 1
      /\ sweep \in {"Settling", "Measuring"} => index + 1 \in 0 .. Points
  BY SwrSweepAssumption DEF IInv, SweepOwn, SweepTypes
<1>2. CASE StartSweep
  <2>1. CyclePart!IInv'
    BY <1>2, CycleIdle DEF StartSweep, IInv
  <2>2. SweepTypes'
    <3>1. 0 \in 0 .. Points /\ 0 < AbortSwrRun /\ 0 < AbortDeadRun
          /\ 0 \in 0 .. AbortSwrRun /\ 0 \in 0 .. AbortDeadRun
      BY SwrSweepAssumption
    <3> QED
      BY <1>2, <3>1 DEF StartSweep, IInv, SweepOwn, SweepTypes, Active
  <2>3. SweepIsTimed' /\ CarrierHasSweep' /\ CarrierIsKept' /\ SweepIsUndone'
    BY <1>2 DEF StartSweep, IInv, SweepOwn, SweepIsTimed, CarrierHasSweep,
      CarrierIsKept, SweepIsUndone, Active, Keyed, tuneVars
  <2> QED BY <2>1, <2>2, <2>3 DEF IInv, SweepOwn
<1>3. ASSUME NEW v \in Tune!Mox!Verdicts, BeginKeying(v)
      PROVE  IInv'
  <2>1. CASE ~connected /\ state = "Rx" /\ Finish
    BY <1>1, <1>3, <2>1, FinishKeepsInv DEF BeginKeying, counts
  <2>2. CASE Tune!TuneOn /\ Tune!Refuse(v, 2) /\ End
    <3>1. CyclePart!IInv'
      BY <2>2, PressKeepsCycle DEF IInv
    <3> QED
      BY <1>1, <1>3, <2>2, <3>1 DEF BeginKeying, counts, End, IInv, SweepOwn,
        SweepTypes, SweepIsTimed, CarrierHasSweep, CarrierIsKept,
        SweepIsUndone, Active, Keyed
  <2>3. ASSUME sweep' = "Keying", UNCHANGED timing, CyclePart!IInv',
               carrier' \in BOOLEAN, carrier' => isTuning' /\ ~pendingOff'
        PROVE  IInv'
    BY <1>1, <1>3, <2>3 DEF BeginKeying, counts, timing, IInv, SweepOwn, SweepTypes,
      SweepIsTimed, CarrierHasSweep, CarrierIsKept, SweepIsUndone, Active,
      Keyed
  <2>4. CASE ~connected /\ UNCHANGED <<tuneVars, carrier>>
             /\ sweep' = "Keying" /\ UNCHANGED timing
    <3>1. CyclePart!IInv'
      BY <2>4, CycleIdle DEF IInv
    <3>2. carrier' = FALSE
      BY <1>3, <2>4 DEF BeginKeying, IInv, SweepOwn, SweepTypes,
        CarrierHasSweep, Keyed
    <3>3. sweep' = "Keying" /\ UNCHANGED timing
      BY <2>4
    <3> QED BY <2>3, <3>1, <3>2, <3>3
  <2>5. CASE Tune!TuneOn /\ Tune!Engage(v) /\ carrier' = TRUE
             /\ sweep' = "Keying" /\ UNCHANGED timing
    <3>1. CyclePart!IInv'
      BY <2>5, PressKeepsCycle DEF IInv
    <3> QED BY <2>3, <2>5, <3>1, EngageFacts
  <2>6. CASE Tune!TuneOn /\ Tune!Refuse(v, 1) /\ carrier' = FALSE
             /\ sweep' = "Keying" /\ UNCHANGED timing
    <3>1. CyclePart!IInv'
      BY <2>6, PressKeepsCycle DEF IInv
    <3> QED BY <2>3, <2>6, <3>1
  <2> QED BY <1>3, <2>1, <2>2, <2>4, <2>5, <2>6, Zenon DEF BeginKeying
<1>4. CASE CarrierUp
  BY <1>1, <1>4, NextPointKeepsInv DEF CarrierUp, counts, Active
<1>5. CASE BeginMeasure
  <2>1. CyclePart!IInv'
    BY <1>5, CycleIdle DEF BeginMeasure, IInv
  <2> QED
    BY <1>5, <2>1 DEF BeginMeasure, timing, counts, tuneVars, IInv, SweepOwn,
      SweepTypes, SweepIsTimed, CarrierHasSweep, CarrierIsKept,
      SweepIsUndone, Active, Keyed
<1>6. ASSUME NEW v \in {"fine", "high", "dead"}, ClosePoint(v)
      PROVE  IInv'
  <2>1. /\ highRun' \in 0 .. AbortSwrRun
        /\ deadRun' \in 0 .. AbortDeadRun
    BY <1>1, <1>6, SwrSweepAssumption DEF ClosePoint, Active
  <2>2. CASE highRun' >= AbortSwrRun \/ deadRun' >= AbortDeadRun
    BY <1>1, <1>6, <2>1, <2>2, FinishKeepsInv DEF ClosePoint
  <2>3. CASE ~(highRun' >= AbortSwrRun \/ deadRun' >= AbortDeadRun)
    <3>1. highRun' \in 0 .. AbortSwrRun - 1 /\ deadRun' \in 0 .. AbortDeadRun - 1
      BY <2>1, <2>3, SwrSweepAssumption
    <3> QED BY <1>1, <1>6, <2>3, <3>1, NextPointKeepsInv DEF ClosePoint
  <2> QED BY <2>2, <2>3
<1>7. CASE Restore
  <2>1. CyclePart!IInv'
    BY <1>7, CycleIdle DEF Restore, IInv
  <2> QED
    BY <1>7, <2>1 DEF Restore, counts, tuneVars, IInv, SweepOwn, SweepTypes,
      SweepIsTimed, CarrierHasSweep, CarrierIsKept, SweepIsUndone, Active,
      Keyed
<1>8. CASE AbortSweep \/ Watchdog
  <2>1. CASE Finish /\ UNCHANGED <<counts, txFreq, measuring>>
    BY <1>1, <2>1, FinishKeepsInv DEF counts
  <2>2. CASE Watchdog /\ ~(sweep \in Active)
    BY <2>2 DEF Watchdog, IInv, SweepOwn, SweepIsTimed
  <2> QED BY <1>8, <2>1, <2>2 DEF AbortSweep, Watchdog
<1>9. CASE TuneStep
  <2>1. CASE OtherStep /\ UNCHANGED sweepVars
    <3>1. CyclePart!IInv'
      BY <2>1, OtherKeepsCycle DEF IInv
    <3> QED
      BY <2>1, <3>1, OtherFacts DEF sweepVars, timing, counts, IInv, SweepOwn,
        SweepTypes, SweepIsTimed, CarrierHasSweep, CarrierIsKept,
        SweepIsUndone, Active, Keyed
  <2>2. ASSUME NEW v \in Tune!Mox!Verdicts, Tune!PressTune(v), mox',
               UNCHANGED sweepVars
        PROVE  IInv'
    <3>1. CyclePart!IInv'
      BY <2>2, PressKeepsCycle DEF IInv, Tune!PressTune
    <3>2. isTuning' /\ ~pendingOff' /\ connected' = connected
      BY <2>2, EngageFacts DEF Tune!PressTune, Tune!TuneOn, Tune!Refuse
    <3> QED
      BY <2>2, <3>1, <3>2 DEF sweepVars, timing, counts, IInv, SweepOwn,
        SweepTypes, SweepIsTimed, CarrierHasSweep, CarrierIsKept,
        SweepIsUndone, Active, Keyed
  <2> QED BY <1>9, <2>1, <2>2 DEF TuneStep, OtherStep
<1>10. CASE TuneReleased \/ Teardown \/ Connect
  <2>1. CyclePart!IInv'
    BY <1>10, KeyTuneOffKeepsCycle, PressKeepsCycle, OtherKeepsCycle
    DEF TuneReleased, Teardown, Connect, Tune!PressTune, IInv
  <2>2. CASE TuneReleased
    <3>1. connected' = connected
      BY <2>2 DEF TuneReleased, Tune!ReleaseTune, Tune!PressTune, Tune!TuneOn
    <3> QED
      BY <2>1, <2>2, <3>1 DEF TuneReleased, timing, counts, IInv, SweepOwn,
        SweepTypes, SweepIsTimed, CarrierHasSweep, CarrierIsKept,
        SweepIsUndone, Active, Keyed
  <2>3. CASE Teardown
    BY <2>1, <2>3 DEF Teardown, Tune!Teardown, timing, counts, IInv, SweepOwn,
      SweepTypes, SweepIsTimed, CarrierHasSweep, CarrierIsKept,
      SweepIsUndone, Active, Keyed
  <2>4. CASE Connect
    BY <2>1, <2>4 DEF Connect, Tune!Connect, timing, counts, IInv, SweepOwn,
      SweepTypes, SweepIsTimed, CarrierHasSweep, CarrierIsKept,
      SweepIsUndone, Active, Keyed
  <2> QED BY <1>10, <2>2, <2>3, <2>4
<1>11. CASE Retune \/ UNCHANGED vars
  <2>1. UNCHANGED tuneVars
    BY <1>11 DEF Retune, vars
  <2>2. CyclePart!IInv'
    BY <2>1, CycleIdle DEF IInv
  <2> QED
    BY <1>11, <2>1, <2>2 DEF Retune, vars, tuneVars, sweepVars, timing,
      counts, IInv, SweepOwn, SweepTypes, SweepIsTimed, CarrierHasSweep,
      CarrierIsKept, SweepIsUndone, Active, Keyed
<1> QED
  BY <1>2, <1>3, <1>4, <1>5, <1>6, <1>7, <1>8, <1>9, <1>10, <1>11
  DEF Next, StepElapsed

\* A sweep always has the timer that takes it on, and its carrier is its own,
\* for every plan and both limits.
THEOREM SweepHolds == Spec => []SweepInv
<1>1. ASSUME IInv PROVE SweepInv
  <2>1. Tune!Mox!TypeOK
    BY <1>1, Zenon DEF IInv, CyclePart!IInv, CyclePart!TuneInv,
      CyclePart!TypeOK, CyclePart!Mox!TypeOK, Tune!Mox!TypeOK,
      CyclePart!Mox!MoxState, Tune!Mox!MoxState, CyclePart!Mox!PttMode,
      Tune!Mox!PttMode, CyclePart!Mox!Timers, Tune!Mox!Timers,
      CyclePart!Mox!WalkTimers, Tune!Mox!WalkTimers,
      CyclePart!Mox!Emissions, Tune!Mox!Emissions,
      CyclePart!Mox!KeyOnSignals, Tune!Mox!KeyOnSignals,
      CyclePart!Mox!KeyOffSignals, Tune!Mox!KeyOffSignals
  <2>2. Tune!TypeOK
    BY <1>1, <2>1 DEF IInv, CyclePart!IInv, CyclePart!TuneInv,
      CyclePart!TypeOK, Tune!TypeOK, CyclePart!Modes, Tune!Modes
  <2> QED
    BY <1>1, <2>2 DEF IInv, SweepOwn, SweepTypes, SweepInv, TypeOK
<1> QED BY InitInv, NextInv, <1>1, PTL DEF Spec

\* After a sweep the protection and the operator's frequency are back, over
\* every abort, teardown and reconnect.
THEOREM SweepAlwaysUndone == Spec => []SweepIsUndone
<1>1. IInv => SweepIsUndone
  BY DEF IInv, SweepOwn
<1> QED BY InitInv, NextInv, <1>1, PTL DEF Spec

\* The sweep does not break the cycle it shares with the operator: no TUNE-off
\* is stranded, and outside a cycle what it changed is undone.
THEOREM CycleStaysCorrect ==
  Spec => [](Tune!NoStrandedLatch /\ Tune!TuneUndone)
<1>1. IInv => Tune!NoStrandedLatch /\ Tune!TuneUndone
  BY DEF IInv, CyclePart!IInv, CyclePart!TuneInv, CyclePart!NoStrandedLatch,
    Tune!NoStrandedLatch, CyclePart!TuneUndone, Tune!TuneUndone
<1> QED BY InitInv, NextInv, <1>1, PTL DEF Spec
=============================================================================
