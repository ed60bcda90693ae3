-------------------------- MODULE TuneCycleProofs --------------------------
(***************************************************************************)
(* Safety of the TUNE cycle, for every number of settle shots.             *)
(*                                                                         *)
(* That a cycle is undone rests on what it has saved: an undisturbed cycle *)
(* holds the operator's mode in `saved', and a latched TUNE-off belongs to *)
(* a cycle, so that its completion never restores an older one.            *)
(***************************************************************************)
EXTENDS TuneCycle, TLAPS

CycleKeepsMode ==
  /\ pendingOff => isTuning
  /\ isTuning /\ ~disturbed => saved = chosen /\ mode = "SSB"

IInv == TuneInv /\ TuneUndone /\ CycleKeepsMode

\* Every step of the MOX machine the cycle takes or lets others take keeps its
\* types, and only the end of the walk leads to receive.
MoxStep ==
  \/ \E on \in BOOLEAN, v \in Mox!Verdicts : Mox!SetTune(on, v)
  \/ \E on \in BOOLEAN : Mox!RequestMox(on, "ok")
  \/ Mox!OpenAntennaTrip
  \/ Mox!OnRfDelayElapsed
  \/ Mox!OnKeyUpDelayElapsed

LEMMA MoxSetMox ==
  ASSUME Mox!TypeOK, NEW on \in BOOLEAN, NEW v \in Mox!Verdicts,
         Mox!SetMox(on, v)
  PROVE  /\ mox' \in BOOLEAN /\ keyBlock' \in BOOLEAN
         /\ state' \in Mox!MoxState /\ timers' \subseteq Mox!Timers
         /\ signals' \in Mox!Emissions
         /\ state' = "Rx" => state = "Rx"
         /\ mox /\ ~on => state' # "Rx"
<1> USE DEF Mox!TypeOK, Mox!MoxState, Mox!Timers, Mox!WalkTimers
<1>1. signals' \in Mox!Emissions
  BY DEF Mox!SetMox, Mox!RefuseMox, Mox!GrantMox, Mox!BeginWalk, Mox!Emit,
    Mox!Emissions
<1>2. mox' \in BOOLEAN /\ keyBlock' \in BOOLEAN
  BY DEF Mox!SetMox, Mox!RefuseMox, Mox!GrantMox
<1>3. /\ state' \in Mox!MoxState /\ timers' \subseteq Mox!Timers
      /\ state' = "Rx" => state = "Rx"
      /\ mox /\ ~on => state' # "Rx"
  BY DEF Mox!SetMox, Mox!RefuseMox, Mox!GrantMox, Mox!BeginWalk
<1> QED BY <1>1, <1>2, <1>3

LEMMA MoxStepFacts ==
  ASSUME Mox!TypeOK, MoxStep
  PROVE  Mox!TypeOK' /\ (state' = "Rx" => state = "Rx")
<1> USE DEF Mox!TypeOK
<1>1. ASSUME NEW on \in BOOLEAN, NEW v \in Mox!Verdicts, Mox!SetTune(on, v)
      PROVE  Mox!TypeOK' /\ (state' = "Rx" => state = "Rx")
  BY <1>1, MoxSetMox DEF Mox!SetTune, Mox!PttMode
<1>2. ASSUME NEW on \in BOOLEAN, Mox!RequestMox(on, "ok")
      PROVE  Mox!TypeOK' /\ (state' = "Rx" => state = "Rx")
  <2>1. "ok" \in Mox!Verdicts
    BY DEF Mox!Verdicts
  <2> QED BY <1>2, <2>1, MoxSetMox DEF Mox!RequestMox
<1> USE DEF Mox!MoxState, Mox!Timers, Mox!WalkTimers
<1>3. CASE Mox!OpenAntennaTrip
  <2>1. signals' \in Mox!Emissions
    BY <1>3 DEF Mox!OpenAntennaTrip, Mox!BeginWalk, Mox!Emit, Mox!Emissions
  <2> QED BY <1>3, <2>1 DEF Mox!OpenAntennaTrip, Mox!BeginWalk
<1>4. CASE Mox!OnRfDelayElapsed \/ Mox!OnKeyUpDelayElapsed
  <2>1. signals' \in Mox!Emissions
    BY <1>4 DEF Mox!OnRfDelayElapsed, Mox!OnKeyUpDelayElapsed, Mox!Emit,
      Mox!Emissions
  <2> QED BY <1>4, <2>1 DEF Mox!OnRfDelayElapsed, Mox!OnKeyUpDelayElapsed
<1> QED BY <1>1, <1>2, <1>3, <1>4 DEF MoxStep

LEMMA InitInv == Init => IInv
<1> SUFFICES ASSUME Init PROVE IInv
  OBVIOUS
<1>1. Mox!TypeOK
  BY DEF Init, Mox!Init, Mox!TypeOK, Mox!MoxState, Mox!PttMode, Mox!Timers,
    Mox!WalkTimers, Mox!Emissions
<1>2. settles \in 0 .. MaxSettles
  BY MaxSettlesAssumption DEF Init
<1>3. TypeOK
  BY <1>1, <1>2 DEF Init, TypeOK, Modes
<1> QED BY <1>3 DEF Init, IInv, TuneInv, NoStrandedLatch, TuneUndone,
    CycleKeepsMode

\* A refused press, whoever calls setTune(false) after it and how often.
LEMMA RefuseKeepsInv ==
  ASSUME IInv, NEW v \in Mox!Verdicts, NEW n \in Nat \ {0},
         TuneOn, Refuse(v, n)
  PROVE  IInv'
<1> USE MaxSettlesAssumption
    DEF IInv, TuneInv, TypeOK, NoStrandedLatch, TuneUndone, CycleKeepsMode,
      Modes
<1>1. signals' \in Mox!Emissions
  BY DEF Refuse, Mox!Emit, Mox!Emissions
<1>2. Mox!TypeOK'
  BY <1>1 DEF Refuse, Mox!TypeOK, Mox!PttMode
<1>3. settles' \in 0 .. MaxSettles /\ settles' > 0
  BY DEF Refuse, Settle
<1> QED BY <1>2, <1>3 DEF TuneOn, Refuse

LEMMA NextInv == IInv /\ [Next]_vars => IInv'
<1> SUFFICES ASSUME IInv, [Next]_vars PROVE IInv'
  OBVIOUS
<1> USE MaxSettlesAssumption
    DEF IInv, TuneInv, TypeOK, NoStrandedLatch, TuneUndone, CycleKeepsMode,
      Modes
<1>1. ASSUME NEW v \in Mox!Verdicts, TuneOn, Engage(v)
      PROVE  IInv'
  <2>1. Mox!TypeOK'
    BY <1>1, MoxStepFacts DEF Engage, MoxStep
  <2> QED BY <1>1, <2>1 DEF TuneOn, Engage
<1>2. ASSUME NEW v \in Mox!Verdicts, TuneOn, Refuse(v, 1)
      PROVE  IInv'
  BY <1>2, RefuseKeepsInv
<1>3. CASE ReleaseTune
  <2>1. Mox!SetTune(FALSE, "ok") /\ "ok" \in Mox!Verdicts
    BY <1>3 DEF ReleaseTune, Mox!Verdicts
  <2>2. Mox!TypeOK' /\ (mox => state' # "Rx")
    BY <2>1, MoxStepFacts, MoxSetMox DEF MoxStep, Mox!SetTune
  <2>3. settles' \in 0 .. MaxSettles /\ (~mox => settles' > 0)
    BY <1>3 DEF ReleaseTune, Settle
  <2> QED BY <1>3, <2>2, <2>3 DEF ReleaseTune
<1>4. CASE SettleElapsed
  <2>1. Mox!TypeOK'
    BY <1>4 DEF SettleElapsed, moxVars, Mox!TypeOK
  <2> settles' \in 0 .. MaxSettles /\ state' = state
    BY <1>4 DEF SettleElapsed, moxVars
  <2>2. CASE pendingOff
    <3>1. mode' = IF saved = "CW" THEN "CW" ELSE mode
      BY <1>4, <2>2 DEF SettleElapsed, CompleteTuneOff
    <3>2. mode' \in Modes /\ (~disturbed => mode' = chosen)
      BY <2>2, <3>1
    <3> QED BY <1>4, <2>1, <2>2, <3>2 DEF SettleElapsed, CompleteTuneOff
  <2>3. CASE ~pendingOff
    BY <1>4, <2>1, <2>3 DEF SettleElapsed
  <2> QED BY <2>2, <2>3
<1>5. CASE TxReady \/ TxaFlushed
  <2>1. Mox!TypeOK' /\ (state' = "Rx" => state = "Rx")
    BY <1>5, MoxStepFacts DEF TxReady, TxaFlushed, MoxStep
  <2>2. running' \in BOOLEAN
    BY <1>5 DEF TxReady, TxaFlushed
  <2>3. UNCHANGED <<connected, isTuning, pendingOff, settles, tone, mode,
                    saved, chosen, disturbed>>
    BY <1>5 DEF TxReady, TxaFlushed
  <2> QED BY <2>1, <2>2, <2>3
<1>6. CASE RxReady
  <2>1. signals' \in Mox!Emissions
    BY <1>6 DEF RxReady, Mox!OnPttOutElapsed, Mox!Emit, Mox!Emissions
  <2>2. Mox!TypeOK'
    BY <1>6, <2>1 DEF RxReady, Mox!OnPttOutElapsed, Mox!TypeOK, Mox!MoxState
  <2>3. settles' \in 0 .. MaxSettles /\ (pendingOff => settles' > 0)
    BY <1>6 DEF RxReady, Settle
  <2> QED BY <1>6, <2>2, <2>3 DEF RxReady
<1>7. CASE OpenAntennaTrip \/ \E on \in BOOLEAN : RequestMox(on)
  <2>1. Mox!TypeOK' /\ (state' = "Rx" => state = "Rx")
    BY <1>7, MoxStepFacts DEF OpenAntennaTrip, RequestMox, MoxStep
  <2> QED BY <1>7, <2>1 DEF OpenAntennaTrip, RequestMox, tuneVars
<1>8. CASE Teardown \/ Connect \/ \E m \in Modes : SetMode(m)
  <2>1. Mox!TypeOK'
    BY <1>8 DEF Teardown, Connect, SetMode, moxVars, Mox!TypeOK
  <2>2. CASE Teardown
    BY <2>1, <2>2 DEF Teardown, moxVars
  <2>3. CASE Connect
    BY <2>1, <2>3 DEF Connect, moxVars
  <2>4. ASSUME NEW m \in Modes, SetMode(m) PROVE IInv'
    BY <2>1, <2>4 DEF SetMode, moxVars
  <2> QED BY <1>8, <2>2, <2>3, <2>4
<1>9. CASE UNCHANGED vars
  <2>1. Mox!TypeOK'
    BY <1>9 DEF vars, moxVars, Mox!TypeOK
  <2> QED BY <1>9, <2>1 DEF vars, moxVars, tuneVars
<1> QED BY <1>1, <1>2, <1>3, <1>4, <1>5, <1>6, <1>7, <1>8, <1>9
    DEF Next, PressTune

\* The latch of a TUNE-off always has something that will release it.
THEOREM LatchNeverStranded == Spec => []TuneInv
<1>1. IInv => TuneInv
  BY DEF IInv
<1> QED BY InitInv, NextInv, <1>1, PTL DEF Spec

\* Outside a cycle the tone is off and the operator's mode is back, unless the
\* cycle was disturbed.
THEOREM CycleAlwaysUndone == Spec => []TuneUndone
<1>1. IInv => TuneUndone
  BY DEF IInv
<1> QED BY InitInv, NextInv, <1>1, PTL DEF Spec
=============================================================================
