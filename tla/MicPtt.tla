------------------------------- MODULE MicPtt -------------------------------
(***************************************************************************)
(* The microphone key of the radio, polled into MoxController.             *)
(*                                                                         *)
(* Every status frame of the radio repeats the level of the microphone     *)
(* key, and every frame calls onMicPttFromRadio.  A frame without the bit  *)
(* (re)starts the 150 ms release tail if the microphone is the claimed PTT *)
(* source; the tail then drops MOX.  What that adds up to depends on       *)
(* durations, so this module has a clock: frames come every FrameTicks,    *)
(* the tail lasts TailTicks.  The MOX button is the other source; it goes  *)
(* through RadioModel::setMox, which claims no PTT mode.                   *)
(***************************************************************************)
EXTENDS Naturals, Sequences

CONSTANTS
  FrameTicks,  \* the period of the status frames
  TailTicks    \* kMicPttReleaseTailMs

ASSUME TicksAssumption == FrameTicks \in Nat \ {0} /\ TailTicks \in Nat \ {0}

VARIABLES
  mox, state, pttMode, manualMox, keyBlock, timers, signals,
  key,        \* the level of the microphone key
  nextFrame,  \* ticks to the next status frame
  tail,       \* ticks to the end of the release tail
  button,     \* what the MOX button last asked for
  owner,      \* history: the source that asked for MOX ON last and has it
  seen        \* history: the level the last frame reported

moxVars == <<mox, state, pttMode, manualMox, keyBlock, timers, signals>>
vars == <<moxVars, key, nextFrame, tail, button, owner, seen>>

Mox == INSTANCE MoxController WITH PttKeys <- {}

\* Types of the clock and of the sources of onMicPttFromRadio; the clock never
\* runs past the end of the release tail.
TypeOK ==
  /\ Mox!TypeOK
  /\ key \in BOOLEAN
  /\ nextFrame \in 0..FrameTicks
  /\ tail \in 0..TailTicks
  /\ button \in BOOLEAN
  /\ owner \in {"None", "Button", "Mic"}
  /\ seen \in BOOLEAN

Init ==
  /\ Mox!Init
  /\ key = FALSE
  /\ nextFrame = FrameTicks
  /\ tail = 0
  /\ button = FALSE
  /\ owner = "None"
  /\ seen = FALSE

Claim(source) == owner' = IF mox' THEN source ELSE "None"
KeepOwner     == owner' = IF mox' THEN owner ELSE "None"

\* Mutant: a running tail is not restarted.
MutStartTail ==
  /\ Mox!OnMicPttReleased
  /\ tail' = IF pttMode = "Mic" /\ "micTail" \notin timers
             THEN TailTicks ELSE tail

\* QTimer::start restarts a tail that runs already.
StartTail ==
  /\ Mox!OnMicPttReleased
  /\ tail' = IF pttMode = "Mic" THEN TailTicks ELSE tail

\* Mutant: a press is taken only when the microphone is not the claimed
\* source yet.
MutFrame ==
  /\ nextFrame = 0
  /\ nextFrame' = FrameTicks
  /\ seen' = key
  /\ \/ /\ key
        /\ pttMode # "Mic"
        /\ Mox!OnMicPttPressed("ok")
        /\ Claim("Mic")
        /\ UNCHANGED tail
     \/ /\ key
        /\ pttMode = "Mic"
        /\ UNCHANGED <<moxVars, owner, tail>>
     \/ /\ ~key
        /\ StartTail
        /\ KeepOwner
  /\ UNCHANGED <<key, button>>

\* One status frame.
Frame ==
  /\ nextFrame = 0
  /\ nextFrame' = FrameTicks
  /\ seen' = key
  /\ \/ /\ key
        /\ Mox!OnMicPttPressed("ok")
        /\ Claim("Mic")
        /\ UNCHANGED tail
     \/ /\ ~key
        /\ StartTail
        /\ KeepOwner
  /\ UNCHANGED <<key, button>>

TailElapsed ==
  /\ tail = 0
  /\ Mox!OnMicPttReleaseTailElapsed
  /\ KeepOwner
  /\ UNCHANGED <<key, nextFrame, tail, button, seen>>

\* Mutant: the tail runs on below zero.
MutTick ==
  /\ nextFrame > 0
  /\ nextFrame' = nextFrame - 1
  /\ tail' = IF "micTail" \in timers THEN tail - 1 ELSE tail
  /\ UNCHANGED <<moxVars, key, button, owner, seen>>

\* Time passes until the next frame or the end of the tail is due.
Tick ==
  /\ nextFrame > 0
  /\ nextFrame' = nextFrame - 1
  /\ "micTail" \in timers => tail > 0
  /\ tail' = IF "micTail" \in timers THEN tail - 1 ELSE tail
  /\ UNCHANGED <<moxVars, key, button, owner, seen>>

\* The operator's finger on the microphone key.
MoveKey ==
  /\ key' = ~key
  /\ UNCHANGED <<moxVars, nextFrame, tail, button, owner, seen>>

MoxButton(on) ==
  /\ Mox!RequestMox(on, "ok")
  /\ button' = on
  /\ IF on THEN Claim("Button") ELSE KeepOwner
  /\ UNCHANGED <<key, nextFrame, tail, seen>>

OpenAntennaTrip ==
  /\ Mox!OpenAntennaTrip
  /\ KeepOwner
  /\ button' = FALSE
  /\ UNCHANGED <<key, nextFrame, tail, seen>>

WalkStep ==
  /\ Mox!WalkStep
  /\ UNCHANGED <<key, nextFrame, tail, button, owner, seen>>

Next ==
  \/ Frame
  \/ TailElapsed
  \/ Tick
  \/ MoveKey
  \/ \E on \in BOOLEAN : MoxButton(on)
  \/ OpenAntennaTrip
  \/ WalkStep

\* The radio streams, time passes, timers elapse.
Fairness ==
  /\ WF_vars(Frame)
  /\ WF_vars(TailElapsed)
  /\ WF_vars(Tick)
  /\ WF_vars(WalkStep)

Spec == Init /\ [][Next]_vars
FairSpec == Spec /\ Fairness

(***************************************************************************)
(* Properties.                                                             *)
(***************************************************************************)

\* The constant stream of frames without the PTT bit, from a microphone key
\* that nobody presses any more, does not end a transmission the MOX button
\* has claimed: that ends only by the button (or a safety trip).
IdleStreamIsHarmless ==
  [][owner = "Button" /\ ~seen /\ mox /\ ~mox' => ~button']_vars

\* A held key transmits, again and again whatever the button does, as long as
\* the safety latch does not refuse it.
HeldKeyTransmits == <>[](key /\ ~keyBlock) => []<>mox

\* A released key ends the microphone's transmission.
ReleaseUnkeys == <>[]~key => <>[](mox => owner # "Mic")

\* A press reported within the tail cancels the pending release.
PressCancelsTail ==
  [][nextFrame = 0 /\ nextFrame' # 0 /\ key => "micTail" \notin timers']_vars
=============================================================================
