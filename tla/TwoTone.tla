------------------------------ MODULE TwoTone ------------------------------
(***************************************************************************)
(* The two-tone test: src/core/TwoToneController.cpp over MoxController.   *)
(*                                                                         *)
(* Switching on sets the generator up and keys; if the transmitter is      *)
(* keyed already it is released first and the rest follows 200 ms later.   *)
(* Switching off unkeys and stops the generator 200 ms later.  The second  *)
(* tone may be delayed too.  All of it shares two flags, m_active and      *)
(* m_activationInFlight, and the synchronous moxRejected of any request    *)
(* comes back into the controller.  Presses come at any time.              *)
(*                                                                         *)
(* The radio is powered on and the dependencies are there: without them    *)
(* setActive(true) changes nothing.  The tune-release timer is never       *)
(* started by the code.  Magnitudes and frequencies are left out.          *)
(***************************************************************************)
EXTENDS Sequences

VARIABLES
  mox, state, pttMode, manualMox, keyBlock, timers, signals,
  active,      \* m_active
  inFlight,    \* m_activationInFlight
  settles,     \* the controller's own timers that run
  gen,         \* the post generator runs (setTxPostGenRun)
  secondTone,  \* the magnitude of the second tone is not zero
  power,       \* TransmitModel::power: the operator's, or the two-tone one
  savedPwr,    \* m_savedPwr, valid if savedPwrValid
  savedPwrValid,
  wanted,      \* history: what the operator asked for last
  stale        \* history: the MOX-release settle of an activation has elapsed
               \* after another press or timer had ended that activation

moxVars == <<mox, state, pttMode, manualMox, keyBlock, timers, signals>>
toneVars == <<active, inFlight, settles, gen, secondTone, power, savedPwr,
              savedPwrValid, wanted, stale>>
vars == <<moxVars, toneVars>>

Mox == INSTANCE MoxController WITH PttKeys <- {}

Settles == {"moxRelease", "freq2Delay", "deactivation"}
Powers == {"operator", "twoTone"}

\* Types of TwoToneController's members.  The two flags are never set together:
\* an activation under way is committed by the step that ends it.
TypeOK ==
  /\ Mox!TypeOK
  /\ {active, inFlight, gen, secondTone, savedPwrValid, wanted, stale}
       \subseteq BOOLEAN
  /\ settles \subseteq Settles
  /\ {power, savedPwr} \subseteq Powers
  /\ ~(active /\ inFlight)

Init ==
  /\ Mox!Init
  /\ active = FALSE
  /\ inFlight = FALSE
  /\ settles = {}
  /\ gen = FALSE
  /\ secondTone = FALSE
  /\ power = "operator"
  /\ savedPwr = "operator"
  /\ savedPwrValid = FALSE
  /\ wanted = FALSE
  /\ stale = FALSE

Rejected == signals' = <<"moxRejected">>

RestorePower ==
  /\ power' = IF savedPwrValid THEN savedPwr ELSE power
  /\ savedPwrValid' = FALSE
  /\ UNCHANGED savedPwr

\* What every end of a test does to the flags and the generator.
Finish ==
  /\ gen' = FALSE
  /\ active' = FALSE
  /\ inFlight' = FALSE

\* Mutant: the delayed second tone is not scheduled.
MutSecondToneDelay(inWalk, delayed) == {}

\* The delay of the second tone is started by the commit alone.
SecondToneDelay(inWalk, delayed) ==
  IF inWalk /\ delayed THEN {"freq2Delay"} ELSE {}

\* continueActivation: generator, power snapshot, MOX, commit.  A synchronous
\* rejection has cleaned up, the fresh snapshot included, before setMox
\* returns; the flag it clears is what tells the rest to stop.
Activate(inWalk, rest, verdict, fixed, delayed) ==
  /\ Mox!RequestMox(TRUE, verdict)
  /\ secondTone' = ~delayed
  /\ IF Rejected /\ (inWalk \/ active)
     THEN /\ Finish
          /\ settles' = rest \ {"moxRelease", "freq2Delay"}
          /\ savedPwrValid' = FALSE
          /\ UNCHANGED <<power, savedPwr>>
     ELSE /\ gen' = TRUE
          /\ savedPwrValid' = fixed
          /\ IF fixed THEN savedPwr' = power /\ power' = "twoTone"
                      ELSE UNCHANGED <<savedPwr, power>>
          /\ active' = (active \/ inWalk)
          /\ inFlight' = FALSE
          /\ settles' = rest \cup SecondToneDelay(inWalk, delayed)

(***************************************************************************)
(* setActive.                                                              *)
(***************************************************************************)

SwitchOnKeyed ==
  /\ mox
  /\ Mox!RequestMox(FALSE, "ok")
  /\ inFlight' = TRUE
  /\ settles' = settles \cup {"moxRelease"}
  /\ UNCHANGED <<active, gen, secondTone, power, savedPwr, savedPwrValid>>

SwitchOn ==
  /\ ~active
  /\ wanted' = TRUE
  /\ UNCHANGED stale
  /\ \/ SwitchOnKeyed
     \/ /\ ~mox
        /\ \E v \in Mox!Verdicts, fixed, delayed \in BOOLEAN :
             Activate(TRUE, settles, v, fixed, delayed)

\* Mutant: switching off does not unkey.
MutSwitchOff ==
  /\ active \/ inFlight
  /\ wanted' = FALSE
  /\ settles' = settles \ {"moxRelease", "freq2Delay"}
  /\ UNCHANGED <<moxVars, active, inFlight, gen, secondTone, power, savedPwr,
                 savedPwrValid, stale>>

SwitchOff ==
  /\ active \/ inFlight
  /\ wanted' = FALSE
  /\ Mox!RequestMox(FALSE, "ok")
  /\ settles' = (settles \ {"moxRelease", "freq2Delay"}) \cup {"deactivation"}
  /\ UNCHANGED <<active, inFlight, gen, secondTone, power, savedPwr,
                 savedPwrValid, stale>>

\* A press that asks for what the controller has already is ignored.
PressIgnored ==
  /\ \/ active /\ wanted' = TRUE
     \/ ~active /\ ~inFlight /\ wanted' = FALSE
  /\ UNCHANGED <<moxVars, active, inFlight, settles, gen, secondTone, power,
                 savedPwr, savedPwrValid, stale>>

(***************************************************************************)
(* The timers.                                                             *)
(***************************************************************************)

\* Mutant: the commit does not clear the flag of the walk.
MutMoxReleaseElapsed ==
  /\ "moxRelease" \in settles
  /\ Mox!RequestMox(TRUE, "ok")
  /\ gen' = TRUE
  /\ active' = TRUE
  /\ inFlight' = TRUE
  /\ settles' = settles \ {"moxRelease"}
  /\ UNCHANGED <<secondTone, power, savedPwr, savedPwrValid, wanted, stale>>

MoxReleaseElapsed ==
  /\ "moxRelease" \in settles
  /\ \E v \in Mox!Verdicts, fixed, delayed \in BOOLEAN :
       Activate(inFlight, settles \ {"moxRelease"}, v, fixed, delayed)
  /\ stale' = (stale \/ ~inFlight)
  /\ UNCHANGED wanted

Freq2DelayElapsed ==
  /\ "freq2Delay" \in settles
  /\ settles' = settles \ {"freq2Delay"}
  /\ secondTone' = (secondTone \/ active)
  /\ UNCHANGED <<moxVars, active, inFlight, gen, power, savedPwr, savedPwrValid,
                 wanted, stale>>

\* Mutant: the power snapshot is dropped, not restored.
MutDeactivationElapsed ==
  /\ "deactivation" \in settles
  /\ settles' = settles \ {"deactivation"}
  /\ Finish
  /\ savedPwrValid' = FALSE
  /\ UNCHANGED <<moxVars, secondTone, power, savedPwr, wanted, stale>>

\* continueDeactivation.
DeactivationElapsed ==
  /\ "deactivation" \in settles
  /\ settles' = settles \ {"deactivation"}
  /\ Finish
  /\ RestorePower
  /\ UNCHANGED <<moxVars, secondTone, wanted, stale>>

(***************************************************************************)
(* Everybody else.                                                         *)
(***************************************************************************)

\* Mutant: a rejection leaves the generator running.
MutOtherRequest(on, verdict) ==
  /\ Mox!RequestMox(on, verdict)
  /\ IF Rejected /\ (active \/ inFlight)
     THEN /\ active' = FALSE
          /\ inFlight' = FALSE
          /\ settles' = settles \ {"moxRelease", "freq2Delay"}
          /\ RestorePower
          /\ UNCHANGED gen
     ELSE UNCHANGED <<active, inFlight, settles, gen, power, savedPwr,
                      savedPwrValid>>
  /\ UNCHANGED <<secondTone, wanted, stale>>

\* Another source asks for MOX; onMoxRejected does not know whose request it
\* was that was rejected.
OtherRequest(on, verdict) ==
  /\ Mox!RequestMox(on, verdict)
  /\ IF Rejected /\ (active \/ inFlight)
     THEN /\ Finish
          /\ settles' = settles \ {"moxRelease", "freq2Delay"}
          /\ RestorePower
     ELSE UNCHANGED <<active, inFlight, settles, gen, power, savedPwr,
                      savedPwrValid>>
  /\ UNCHANGED <<secondTone, wanted, stale>>

OpenAntennaTrip ==
  /\ Mox!OpenAntennaTrip
  /\ UNCHANGED toneVars

WalkStep ==
  /\ Mox!WalkStep
  /\ UNCHANGED toneVars

Next ==
  \/ SwitchOn
  \/ SwitchOff
  \/ PressIgnored
  \/ MoxReleaseElapsed
  \/ Freq2DelayElapsed
  \/ DeactivationElapsed
  \/ \E on \in BOOLEAN, v \in Mox!Verdicts : OtherRequest(on, v)
  \/ OpenAntennaTrip
  \/ WalkStep

\* Timers elapse.
Fairness ==
  /\ WF_vars(MoxReleaseElapsed)
  /\ WF_vars(Freq2DelayElapsed)
  /\ WF_vars(DeactivationElapsed)
  /\ WF_vars(WalkStep)

Spec == Init /\ [][Next]_vars
FairSpec == Spec /\ Fairness

(***************************************************************************)
(* Properties.                                                             *)
(***************************************************************************)

\* TwoToneController.h calls twoToneActiveChanged the authoritative source of
\* "two-tone is running": the generator runs only while m_active says so.
\* Otherwise the operator's OFF is taken for a repeat and ignored.
RunningIsReported == gen => active

\* A test that is reported runs, and the operator's power is held back only for
\* a generator that runs, whatever is pressed within the settles: neither a
\* rejection nor a settle of another age leaves a test that is shown but silent.
ReportedIsRunning == (active => gen) /\ (savedPwrValid => gen)

\* An activation under way has a timer that will end it, whoever releases or
\* refuses MOX meanwhile and whatever is pressed.
ActivationIsTimed ==
  inFlight => settles \cap {"moxRelease", "deactivation"} # {}

\* What a step of the test relies on, for presses at any time.  Only the
\* MOX-release settle of an activation that is over can start a generator that
\* is not reported.
TestInv ==
  /\ TypeOK
  /\ ReportedIsRunning
  /\ ActivationIsTimed
  /\ ~stale => RunningIsReported

\* When the generator is off the operator has the power back that was set
\* before the test, whichever way it ended and whatever was pressed meanwhile;
\* only the stale settle takes the test's own power for the operator's.
PowerGivenBack == ~stale /\ ~gen => power = "operator"

\* A test that goes on gets its second tone, however that was delayed.
BothTones == <>[](active /\ ~stale) => <>[]secondTone

\* The operator's OFF ends the test, also if it was pressed within a settle.
OffEndsTest == <>[](~wanted /\ ~stale) => <>[]~gen

\* TwoToneController.h: m_activationInFlight prevents re-entrant
\* setActive(true) calls from engaging twice, so no activation is still to come
\* once one has been committed.
EngagesOnce == active => "moxRelease" \notin settles

\* The comment in continueActivation: m_active is committed only for a walk that
\* has begun, because every refusal is signalled by moxRejected.
CommitMeansKeyed == [][~active /\ active' => mox']_vars

\* The comment in onMoxRejected: the rejection of another source's request is
\* ignored by a test that is on the air.
OthersRejectionIsIgnored ==
  [][active /\ gen /\ settles = {} /\ ~gen' =>
       signals' # <<"moxRejected">>]_vars
=============================================================================
