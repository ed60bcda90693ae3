----------------------------- MODULE TuneCycle -----------------------------
(***************************************************************************)
(* The TUNE cycle: RadioModel::setTune over MoxController.                 *)
(*                                                                         *)
(* TUNE on saves the DSP mode, swaps CW for the sideband, starts the tune  *)
(* tone and keys.  TUNE off only unkeys: what TUNE on changed is undone by *)
(* completeTuneOff, which a 100 ms single shot runs after rxReady, or      *)
(* after the release itself when MOX had dropped before.  Several of these *)
(* shots can be under way, none is ever cancelled, and all look at the one *)
(* latch m_pendingTuneOff.  CWL/LSB and CWU/USB are one pair here.         *)
(***************************************************************************)
EXTENDS Naturals, Sequences

CONSTANT MaxSettles  \* bound: settle shots under way at once

ASSUME MaxSettlesAssumption == MaxSettles \in Nat \ {0}

VARIABLES
  mox, state, pttMode, manualMox, keyBlock, timers, signals,
  connected,   \* a session, with its TX channel, exists
  isTuning,    \* m_isTuning
  pendingOff,  \* m_pendingTuneOff
  settles,     \* the 100 ms single shots under way
  tone,        \* gen1 of the TX channel runs (setTuneTone)
  running,     \* the TX channel runs (setRunning)
  mode,        \* the DSP mode of the TX slice
  saved,       \* m_savedTxDspMode
  chosen,      \* history: the mode the operator chose last
  disturbed    \* history: a cycle since then was pressed again, had its mode
               \* changed by the operator, or was torn down

moxVars  == <<mox, state, pttMode, manualMox, keyBlock, timers, signals>>
tuneVars == <<connected, isTuning, pendingOff, settles, tone, running, mode,
              saved, chosen, disturbed>>
vars == <<moxVars, tuneVars>>

Mox == INSTANCE MoxController WITH PttKeys <- {}

Modes == {"CW", "SSB"}

\* Types of RadioModel's TUNE members.  The settle shots of setTune(false) and
\* rxReady are counted: a shot that elapses was started.
TypeOK ==
  /\ Mox!TypeOK
  /\ {connected, isTuning, pendingOff, tone, running, disturbed}
       \subseteq BOOLEAN
  /\ settles \in 0..MaxSettles
  /\ {mode, saved, chosen} \subseteq Modes

Init ==
  /\ Mox!Init
  /\ connected = TRUE
  /\ isTuning = FALSE
  /\ pendingOff = FALSE
  /\ settles = 0
  /\ tone = FALSE
  /\ running = FALSE
  /\ mode \in Modes
  /\ saved = "SSB"
  /\ chosen = mode
  /\ disturbed = FALSE

(***************************************************************************)
(* RadioModel::setTune.                                                    *)
(***************************************************************************)

Settle(n) ==
  /\ settles + n <= MaxSettles
  /\ settles' = settles + n

\* What setTune(true) changes before it asks for MOX.
TuneOn ==
  /\ connected
  /\ isTuning' = TRUE
  /\ saved' = mode
  /\ mode' = "SSB"
  /\ tone' = TRUE
  /\ disturbed' = (disturbed \/ isTuning)
  /\ UNCHANGED <<connected, running, chosen>>

Engage(verdict) ==
  /\ Mox!SetTune(TRUE, verdict)
  /\ mox'
  /\ pendingOff' = FALSE
  /\ UNCHANGED settles

\* A request that leaves MOX off turns TUNE off again in the same call, and with
\* it the key-block latch.  offs: how often setTune(false) is called.
Refuse(verdict, offs) ==
  /\ ~mox
  /\ keyBlock \/ verdict # "ok"
  /\ pttMode' = "Manual"
  /\ manualMox' = FALSE
  /\ keyBlock' = FALSE
  /\ Mox!Emit(IF keyBlock \/ verdict = "rejected"
              THEN <<"moxRejected">> ELSE <<>>)
  /\ pendingOff' = TRUE
  /\ Settle(offs)
  /\ UNCHANGED <<mox, state, timers>>

\* setTune(true).
PressTune(verdict) == TuneOn /\ (Engage(verdict) \/ Refuse(verdict, 1))

\* Mutant: a release that finds MOX off waits for rxReady all the same.
MutReleaseTune ==
  /\ isTuning
  /\ pendingOff' = TRUE
  /\ Mox!SetTune(FALSE, "ok")
  /\ UNCHANGED <<connected, isTuning, settles, tone, running, mode, saved,
                 chosen, disturbed>>

\* setTune(false).  No rxReady follows when MOX is off already.
ReleaseTune ==
  /\ isTuning
  /\ pendingOff' = TRUE
  /\ Mox!SetTune(FALSE, "ok")
  /\ Settle(IF mox THEN 0 ELSE 1)
  /\ UNCHANGED <<connected, isTuning, tone, running, mode, saved, chosen,
                 disturbed>>

\* Mutant: the mode is not restored.
MutCompleteTuneOff ==
  /\ pendingOff' = FALSE
  /\ tone' = FALSE
  /\ mode' = mode
  /\ isTuning' = FALSE

CompleteTuneOff ==
  /\ pendingOff' = FALSE
  /\ tone' = FALSE
  /\ mode' = IF saved = "CW" THEN "CW" ELSE mode
  /\ isTuning' = FALSE

\* Mutant: a shot elapses that was never started.
MutSettleElapsed ==
  /\ settles' = settles - 1
  /\ IF pendingOff THEN CompleteTuneOff
                   ELSE UNCHANGED <<pendingOff, tone, mode, isTuning>>
  /\ UNCHANGED <<moxVars, connected, running, saved, chosen, disturbed>>

\* A settle shot elapses.
SettleElapsed ==
  /\ settles > 0
  /\ settles' = settles - 1
  /\ IF pendingOff THEN CompleteTuneOff
                   ELSE UNCHANGED <<pendingOff, tone, mode, isTuning>>
  /\ UNCHANGED <<moxVars, connected, running, saved, chosen, disturbed>>

(***************************************************************************)
(* The walk, with RadioModel's subscribers: txReady and txaFlushed reach   *)
(* the TX channel of a session, rxReady starts the settle shot.            *)
(***************************************************************************)

TxReady ==
  /\ Mox!OnRfDelayElapsed
  /\ running' = connected
  /\ UNCHANGED <<connected, isTuning, pendingOff, settles, tone, mode, saved,
                 chosen, disturbed>>

TxaFlushed ==
  /\ Mox!OnKeyUpDelayElapsed
  /\ running' = FALSE
  /\ UNCHANGED <<connected, isTuning, pendingOff, settles, tone, mode, saved,
                 chosen, disturbed>>

\* Mutant: the settle shot is started only while TUNE is not latched.
MutRxReady ==
  /\ Mox!OnPttOutElapsed
  /\ Settle(IF pendingOff THEN 0 ELSE 1)
  /\ UNCHANGED <<connected, isTuning, pendingOff, tone, running, mode, saved,
                 chosen, disturbed>>

RxReady ==
  /\ Mox!OnPttOutElapsed
  /\ Settle(IF pendingOff THEN 1 ELSE 0)
  /\ UNCHANGED <<connected, isTuning, pendingOff, tone, running, mode, saved,
                 chosen, disturbed>>

\* Any other source of MOX, with nothing against it.
RequestMox(on) ==
  /\ Mox!RequestMox(on, "ok")
  /\ UNCHANGED tuneVars

OpenAntennaTrip ==
  /\ connected
  /\ Mox!OpenAntennaTrip
  /\ UNCHANGED tuneVars

\* The operator picks a mode.
SetMode(m) ==
  /\ mode' = m
  /\ chosen' = m
  /\ disturbed' = isTuning
  /\ UNCHANGED <<moxVars, connected, isTuning, pendingOff, settles, tone,
                 running, saved>>

\* teardownConnection: the TX channel goes, the latches are cleared, and the
\* MOX controller with its timers is left alone.
Teardown ==
  /\ connected
  /\ connected' = FALSE
  /\ isTuning' = FALSE
  /\ pendingOff' = FALSE
  /\ tone' = FALSE
  /\ running' = FALSE
  /\ disturbed' = (disturbed \/ isTuning)
  /\ UNCHANGED <<moxVars, settles, mode, saved, chosen>>

Connect ==
  /\ ~connected
  /\ connected' = TRUE
  /\ UNCHANGED <<moxVars, isTuning, pendingOff, settles, tone, running, mode,
                 saved, chosen, disturbed>>

Next ==
  \/ \E v \in Mox!Verdicts : PressTune(v)
  \/ ReleaseTune
  \/ SettleElapsed
  \/ TxReady
  \/ TxaFlushed
  \/ RxReady
  \/ \E on \in BOOLEAN : RequestMox(on)
  \/ OpenAntennaTrip
  \/ \E m \in Modes : SetMode(m)
  \/ Teardown
  \/ Connect

\* Timers elapse.  The operator, the sources and the session owe nothing.
Fairness ==
  /\ WF_vars(SettleElapsed)
  /\ WF_vars(TxReady)
  /\ WF_vars(TxaFlushed)
  /\ WF_vars(RxReady)

Spec == Init /\ [][Next]_vars
FairSpec == Spec /\ Fairness

(***************************************************************************)
(* Properties.                                                             *)
(***************************************************************************)

\* The latch of a pending TUNE-off is never stranded: a settle shot is under
\* way, or the walk that will start one has not come to its end.  Otherwise
\* the rxReady of an unrelated transmission would consume it much later.
NoStrandedLatch == pendingOff => settles > 0 \/ state # "Rx"

\* What a step of the cycle relies on: types, and a latch that is not stranded.
TuneInv == TypeOK /\ NoStrandedLatch

\* A pending TUNE-off completes (completeTuneOff runs) once nobody keys any
\* more.
TuneOffCompletes == <>[]~mox => []<>~pendingOff

\* Outside a cycle nothing of it is left: completeTuneOff has given the
\* operator's mode back and stopped the tune tone.  The mode is given back over
\* every refusal, trip and other source, unless the cycle was disturbed.
TuneUndone == ~isTuning => ~tone /\ (mode = chosen \/ disturbed)

\* RadioModel.h on the saved fields: TUNE off restores exactly what TUNE on has
\* changed, whatever happened between.
TuneRestoresMode == ~isTuning /\ connected => mode = chosen

\* The comment in completeTuneOff: the tone is stopped on a TX channel that the
\* walk has stopped already.
ToneOffIsIdle == [][tone /\ ~tone' /\ connected' => ~running]_vars

\* The comment in teardownConnection: rxReady never fires after the session is
\* torn down, its timers being stopped.
TeardownStopsWalk ==
  [][~connected /\ ~connected' => signals' # <<"rxReady", "moxStateOff">>]_vars

\* MoxController.h: letting go of the key, or a source that asks for MOX off,
\* clears the key block; pressing TUNE asks for MOX on and does not.
PressKeepsLatch == [][keyBlock /\ ~isTuning /\ isTuning' => keyBlock']_vars
=============================================================================
