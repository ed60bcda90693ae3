------------------------------ MODULE SwrSweep ------------------------------
(***************************************************************************)
(* The SWR sweep: SwrSweepController over the TUNE cycle.                  *)
(*                                                                         *)
(*   Idle -> Baseline -> Keying -> (Settling -> Measuring)* -> Finishing   *)
(*                                                                         *)
(* One single-shot drives every step, a second one, the telemetry watchdog *)
(* (restarted by every sample, which shows only in its never elapsing),    *)
(* ends a sweep whose radio has gone quiet.  TUNE is pressed and released  *)
(* through RadioModel::setTune, which the operator, other sources of MOX   *)
(* and the teardown of the session use at the same time.  What a point     *)
(* measured is one of three verdicts.  The transmit frequency is that of   *)
(* the last push on its way to the radio.                                  *)
(***************************************************************************)
EXTENDS Naturals, Sequences

CONSTANTS
  MaxSettles,    \* bound of TuneCycle
  Points,        \* m_plan.points
  AbortSwrRun,   \* kAbortSwrRun
  AbortDeadRun   \* kAbortDeadRun

ASSUME SwrSweepAssumption ==
  {MaxSettles, Points, AbortSwrRun, AbortDeadRun} \subseteq Nat \ {0}

VARIABLES
  mox, state, pttMode, manualMox, keyBlock, timers, signals,
  connected, isTuning, pendingOff, settles, tone, running, mode, saved,
  chosen, disturbed,
  sweep,      \* SwrSweepController::m_state
  stepTimer,  \* m_stepTimer runs
  watchdog,   \* m_watchdog runs
  index,      \* m_index
  highRun,    \* m_highSwrRun
  deadRun,    \* m_deadRun
  txFreq,     \* whose transmit frequency the radio has: "slice" or "sweep"
  measuring,  \* measurement mode of SwrProtectionController
  carrier     \* history: the sweep has pressed TUNE, and nobody released it

tuneVars  == <<mox, state, pttMode, manualMox, keyBlock, timers, signals,
               connected, isTuning, pendingOff, settles, tone, running, mode,
               saved, chosen, disturbed>>
timing    == <<stepTimer, watchdog>>
counts    == <<index, highRun, deadRun>>
sweepVars == <<sweep, timing, counts, txFreq, measuring, carrier>>
vars      == <<tuneVars, sweepVars>>

Tune == INSTANCE TuneCycle

Active == {"Baseline", "Keying", "Settling", "Measuring"}
Keyed  == {"Keying", "Settling", "Measuring"}

\* Types of SwrSweepController's members: a point outside the plan is never
\* measured, and no run of bad points outlasts its limit.
TypeOK ==
  /\ Tune!TypeOK
  /\ sweep \in Active \cup {"Idle", "Finishing"}
  /\ {stepTimer, watchdog, measuring, carrier} \subseteq BOOLEAN
  /\ index \in 0 .. Points
  /\ sweep \in {"Settling", "Measuring"} => index < Points
  /\ highRun \in 0 .. AbortSwrRun /\ deadRun \in 0 .. AbortDeadRun
  /\ sweep \in Active => highRun < AbortSwrRun /\ deadRun < AbortDeadRun
  /\ txFreq \in {"slice", "sweep"}

Init ==
  /\ Tune!Init
  /\ sweep = "Idle"
  /\ stepTimer = FALSE
  /\ watchdog = FALSE
  /\ index = 0
  /\ highRun = 0
  /\ deadRun = 0
  /\ txFreq = "slice"
  /\ measuring = FALSE
  /\ carrier = FALSE

(***************************************************************************)
(* The ways out.                                                           *)
(***************************************************************************)

\* setTune(false), which returns at once if no TUNE is on.
KeyTuneOff == IF isTuning THEN Tune!ReleaseTune ELSE UNCHANGED tuneVars

\* Mutant: the watchdog runs on.
MutEnd ==
  /\ sweep' = "Finishing"
  /\ stepTimer' = TRUE
  /\ carrier' = FALSE
  /\ UNCHANGED watchdog

\* finish(), but for the release of TUNE that goes with it.
End ==
  /\ sweep' = "Finishing"
  /\ stepTimer' = TRUE
  /\ watchdog' = FALSE
  /\ carrier' = FALSE

\* Mutant: TUNE is not released.
MutFinish ==
  /\ sweep' = "Finishing"
  /\ stepTimer' = TRUE
  /\ watchdog' = FALSE
  /\ UNCHANGED <<tuneVars, carrier>>

Finish == KeyTuneOff /\ End

\* Mutant: the operator's frequency is not pushed.
MutRestore ==
  /\ sweep = "Finishing" /\ stepTimer
  /\ sweep' = "Idle"
  /\ stepTimer' = FALSE
  /\ measuring' = FALSE
  /\ UNCHANGED <<tuneVars, watchdog, counts, txFreq, carrier>>

\* The settle after the release has elapsed.
Restore ==
  /\ sweep = "Finishing" /\ stepTimer
  /\ sweep' = "Idle"
  /\ stepTimer' = FALSE
  /\ measuring' = FALSE
  /\ txFreq' = IF connected THEN "slice" ELSE txFreq
  /\ UNCHANGED <<tuneVars, watchdog, counts, carrier>>

\* abortSweep, for the operator or because the radio is gone.
AbortSweep ==
  /\ sweep \in Active
  /\ Finish
  /\ UNCHANGED <<counts, txFreq, measuring>>

Watchdog ==
  /\ watchdog
  /\ IF sweep \in Active THEN Finish
     ELSE watchdog' = FALSE /\ UNCHANGED <<tuneVars, sweep, stepTimer, carrier>>
  /\ UNCHANGED <<counts, txFreq, measuring>>

(***************************************************************************)
(* The steps.                                                              *)
(***************************************************************************)

StartSweep ==
  /\ sweep = "Idle" /\ connected /\ state = "Rx"
  /\ sweep' = "Baseline"
  /\ stepTimer' = TRUE
  /\ watchdog' = TRUE
  /\ index' = 0 /\ highRun' = 0 /\ deadRun' = 0
  /\ measuring' = TRUE
  /\ UNCHANGED <<tuneVars, txFreq, carrier>>

\* Pressing TUNE: refused without a session, by a gate (which releases TUNE at
\* once), or granted.  Only a refusal that finds the walk in receive is seen,
\* and ends the sweep, which releases TUNE once more.
BeginKeying(verdict) ==
  /\ sweep = "Baseline" /\ stepTimer
  /\ UNCHANGED <<counts, txFreq, measuring>>
  /\ \/ ~connected /\ state = "Rx" /\ Finish
     \/ /\ connected /\ state = "Rx"
        /\ Tune!TuneOn /\ Tune!Refuse(verdict, 2)
        /\ End
     \/ /\ \/ ~connected /\ state # "Rx" /\ UNCHANGED <<tuneVars, carrier>>
           \/ Tune!TuneOn /\ Tune!Engage(verdict) /\ carrier' = TRUE
           \/ /\ state # "Rx"
              /\ Tune!TuneOn /\ Tune!Refuse(verdict, 1)
              /\ carrier' = FALSE
        /\ sweep' = "Keying"
        /\ UNCHANGED timing

\* Mutant: one point more than the plan has.
MutNextPoint(i) ==
  IF i > Points
  THEN Finish /\ UNCHANGED txFreq
  ELSE /\ sweep' = "Settling"
       /\ txFreq' = IF connected THEN "sweep" ELSE txFreq
       /\ UNCHANGED <<tuneVars, timing, carrier>>

\* stepToNextPoint, for the point with the given index.
NextPoint(i) ==
  IF i >= Points
  THEN Finish /\ UNCHANGED txFreq
  ELSE /\ sweep' = "Settling"
       /\ txFreq' = IF connected THEN "sweep" ELSE txFreq
       /\ UNCHANGED <<tuneVars, timing, carrier>>

CarrierUp ==
  /\ sweep = "Keying" /\ stepTimer
  /\ NextPoint(index)
  /\ UNCHANGED <<counts, measuring>>

BeginMeasure ==
  /\ sweep = "Settling" /\ stepTimer
  /\ sweep' = "Measuring"
  /\ UNCHANGED <<tuneVars, timing, counts, txFreq, measuring, carrier>>

\* Mutant: a point without a reading is measured again.
MutClosePoint(verdict) ==
  /\ sweep = "Measuring" /\ stepTimer
  /\ UNCHANGED <<highRun, deadRun, measuring>>
  /\ index' = IF verdict = "dead" THEN index ELSE index + 1
  /\ NextPoint(index')

\* A point is closed: a run of them that is all reflection, or that measures
\* nothing, ends the sweep before the next one.
ClosePoint(verdict) ==
  /\ sweep = "Measuring" /\ stepTimer
  /\ highRun' = IF verdict = "high" THEN highRun + 1 ELSE 0
  /\ deadRun' = IF verdict = "dead" THEN deadRun + 1
                ELSE IF highRun' >= AbortSwrRun THEN deadRun ELSE 0
  /\ UNCHANGED measuring
  /\ IF highRun' >= AbortSwrRun \/ deadRun' >= AbortDeadRun
     THEN Finish /\ UNCHANGED <<index, txFreq>>
     ELSE index' = index + 1 /\ NextPoint(index + 1)

(***************************************************************************)
(* Everybody else.                                                         *)
(***************************************************************************)

\* Bound: two settle shots are kept for the sweep, so that the bound does not
\* stop its steps.
Room == settles' <= settles \/ settles' + 2 <= MaxSettles

\* The walk, the settle shots, and sources that leave the sweep's TUNE on.
TuneStep ==
  /\ \/ Tune!SettleElapsed
     \/ Tune!TxReady
     \/ Tune!TxaFlushed
     \/ Tune!RxReady
     \/ \E v \in Tune!Mox!Verdicts : Tune!PressTune(v) /\ mox'
     \/ \E on \in BOOLEAN : Tune!RequestMox(on)
     \/ Tune!OpenAntennaTrip
  /\ Room
  /\ UNCHANGED sweepVars

\* The operator releases TUNE, or a second press is refused.
TuneReleased ==
  /\ \/ Tune!ReleaseTune
     \/ \E v \in Tune!Mox!Verdicts : Tune!PressTune(v) /\ ~mox'
  /\ Room
  /\ carrier' = FALSE
  /\ UNCHANGED <<sweep, timing, counts, txFreq, measuring>>

\* The operator's disconnect severs the connection's signals before it closes
\* it, so nothing tells the sweep.
Teardown ==
  /\ Tune!Teardown
  /\ carrier' = FALSE
  /\ UNCHANGED <<sweep, timing, counts, txFreq, measuring>>

\* A new session is told the frequency of the TX slice, a retune tells it too.
Connect ==
  /\ Tune!Connect
  /\ txFreq' = "slice"
  /\ UNCHANGED <<sweep, timing, counts, measuring, carrier>>

Retune ==
  /\ connected
  /\ txFreq' = "slice"
  /\ UNCHANGED <<tuneVars, sweep, timing, counts, measuring, carrier>>

StepElapsed ==
  \/ \E v \in Tune!Mox!Verdicts : BeginKeying(v)
  \/ CarrierUp
  \/ BeginMeasure
  \/ \E v \in {"fine", "high", "dead"} : ClosePoint(v)
  \/ Restore

Next ==
  \/ StartSweep
  \/ StepElapsed
  \/ Watchdog
  \/ AbortSweep
  \/ TuneStep
  \/ TuneReleased
  \/ Teardown
  \/ Connect
  \/ Retune

\* Timers elapse.  The operator, the sources, the session and the watchdog,
\* which telemetry restarts, owe nothing.
Fairness ==
  /\ WF_vars(StepElapsed)
  /\ WF_vars(Tune!SettleElapsed /\ UNCHANGED sweepVars)
  /\ WF_vars(Tune!TxReady /\ UNCHANGED sweepVars)
  /\ WF_vars(Tune!TxaFlushed /\ UNCHANGED sweepVars)
  /\ WF_vars(Tune!RxReady /\ UNCHANGED sweepVars)

Spec == Init /\ [][Next]_vars
FairSpec == Spec /\ Fairness

(***************************************************************************)
(* Properties.                                                             *)
(***************************************************************************)

\* A sweep is never without the timer that takes it on, whichever of the step,
\* the watchdog and the operator's abort comes first, and neither timer is left
\* running past the sweep it belongs to.
SweepIsTimed ==
  /\ stepTimer <=> sweep # "Idle"
  /\ watchdog <=> sweep \in Active

\* No way out of a sweep leaves its carrier behind: what the sweep has keyed and
\* nobody has released belongs to a sweep that is still measuring.
CarrierHasSweep == carrier => isTuning /\ sweep \in Keyed

\* What a step of the sweep relies on: types, a timer that will take it on, and
\* a carrier that is its own.
SweepInv == TypeOK /\ SweepIsTimed /\ CarrierHasSweep

\* After the sweep the radio transmits on the operator's frequency again, and
\* the SWR protection is no longer suspended, over aborts and reconnects.
SweepIsUndone ==
  sweep = "Idle" => ~measuring /\ (connected => txFreq = "slice")

\* Every sweep ends, and while the session lasts its carrier goes off the air.
SweepEnds ==
  /\ []<>(sweep = "Idle")
  /\ []connected => (carrier ~> ~mox)

\* The comment at the abort in RadioModel.cpp: a sweep cannot survive its radio.
SweepDiesWithRadio == ~connected => sweep \notin Active
=============================================================================
