--------------------------- MODULE MoxUsersProofs ---------------------------
(***************************************************************************)
(* Safety of three users of the MOX controller: the SWR protection, the    *)
(* microphone key of the radio and the two-tone test.                      *)
(*                                                                         *)
(* SwrProtection, for every coupler, limit, power threshold and debounce   *)
(* count.  ProtectionInv is not inductive by itself, and neither is the    *)
(* bound on the exposure.  They are once it is known that a wind-back is   *)
(* at one percent, that an open antenna leaves the key-block latch set,    *)
(* and that the trip count has counted every sample of the exposure.       *)
(* Which sample trips is not used: IsTrip is never expanded.               *)
(*                                                                         *)
(* The other two are taken with INSTANCE further down, each with what its  *)
(* invariant needs.                                                        *)
(***************************************************************************)
EXTENDS SwrProtection, TLAPS

IInv ==
  /\ ProtectionInv
  /\ exposed <= tripCount
  /\ latched => factor = "minimal"
  /\ tripped => keyBlock

\* The three ways this module takes a step of the MOX machine keep its types.
LEMMA MoxStepsKeepTypes ==
  ASSUME Mox!TypeOK,
         \/ \E on \in BOOLEAN, v \in Mox!Verdicts : Mox!RequestMox(on, v)
         \/ Mox!OpenAntennaTrip
         \/ Mox!WalkStep
  PROVE  Mox!TypeOK'
<1> USE DEF Mox!TypeOK, Mox!MoxState, Mox!PttMode, Mox!Timers, Mox!WalkTimers
<1>1. ASSUME NEW on \in BOOLEAN, NEW v \in Mox!Verdicts,
             Mox!RequestMox(on, v)
      PROVE  Mox!TypeOK'
  <2>1. signals' \in Mox!Emissions
    BY <1>1 DEF Mox!RequestMox, Mox!SetMox, Mox!RefuseMox, Mox!GrantMox,
      Mox!BeginWalk, Mox!Emit, Mox!Emissions
  <2>2. mox' \in BOOLEAN /\ keyBlock' \in BOOLEAN
    BY <1>1 DEF Mox!RequestMox, Mox!SetMox, Mox!RefuseMox, Mox!GrantMox
  <2>3. state' \in Mox!MoxState /\ timers' \subseteq Mox!Timers
    BY <1>1 DEF Mox!RequestMox, Mox!SetMox, Mox!RefuseMox, Mox!GrantMox,
      Mox!BeginWalk
  <2> QED BY <1>1, <2>1, <2>2, <2>3 DEF Mox!RequestMox
<1>2. CASE Mox!OpenAntennaTrip
  <2>1. signals' \in Mox!Emissions
    BY <1>2 DEF Mox!OpenAntennaTrip, Mox!BeginWalk, Mox!Emit, Mox!Emissions
  <2> QED BY <1>2, <2>1 DEF Mox!OpenAntennaTrip, Mox!BeginWalk
<1>3. CASE Mox!WalkStep
  <2>1. signals' \in Mox!Emissions
    BY <1>3 DEF Mox!WalkStep, Mox!OnRfDelayElapsed, Mox!OnKeyUpDelayElapsed,
      Mox!OnPttOutElapsed, Mox!Emit, Mox!Emissions
  <2> QED BY <1>3, <2>1 DEF Mox!WalkStep, Mox!OnRfDelayElapsed,
      Mox!OnKeyUpDelayElapsed, Mox!OnPttOutElapsed
<1> QED BY <1>1, <1>2, <1>3

\* A request for MOX passes the key-block latch or leaves MOX and latch alone.
LEMMA RequestsRespectLatch ==
  ASSUME mox \in BOOLEAN, keyBlock \in BOOLEAN,
         NEW on \in BOOLEAN, NEW v, Mox!RequestMox(on, v)
  PROVE  /\ mox' \in BOOLEAN
         /\ on /\ keyBlock => mox' = mox /\ keyBlock'
         /\ ~on => ~mox'
BY DEF Mox!RequestMox, Mox!SetMox, Mox!RefuseMox, Mox!GrantMox

\* A sample that is judged: the count is below the debounce count again, has
\* counted the sample if that was met at full drive, and a latched wind-back
\* is at one percent and stays.
LEMMA JudgeFacts ==
  ASSUME Debounce \in Nat \ {0}, tripCount \in 0 .. Debounce - 1,
         factor \in {"full", "folded", "minimal"},
         {enabled, windBack, highSwr, latched} \subseteq BOOLEAN,
         NEW trips \in BOOLEAN, Judge(trips)
  PROVE  /\ tripCount' \in 0 .. Debounce - 1
         /\ factor' \in {"full", "folded", "minimal"}
         /\ highSwr' \in BOOLEAN /\ latched' \in BOOLEAN
         /\ latched => latched'
         /\ latched' => factor' = "minimal"
         /\ trips /\ factor' = "full" => tripCount' = tripCount + 1
<1>1. CASE trips /\ tripCount + 1 >= Debounce
  BY <1>1 DEF Judge
<1>2. CASE trips /\ ~(tripCount + 1 >= Debounce)
  BY <1>2 DEF Judge
<1>3. CASE ~trips
  BY <1>3 DEF Judge
<1> QED BY <1>1, <1>2, <1>3

LEMMA InitInv == Init => IInv
<1> SUFFICES ASSUME Init PROVE IInv
  OBVIOUS
<1>1. Mox!TypeOK
  BY DEF Init, Mox!Init, Mox!TypeOK, Mox!MoxState, Mox!PttMode, Mox!Timers,
    Mox!WalkTimers, Mox!Emissions
<1>2. mox = FALSE
  BY DEF Init, Mox!Init
<1>3. 0 \in 0 .. Debounce - 1
  BY SwrProtectionAssumption
<1>4. /\ {enabled, windBack, measuring, highSwr, latched} \subseteq BOOLEAN
      /\ ~highSwr /\ ~latched /\ factor = "full"
      /\ tripCount = 0 /\ exposed = 0
  BY DEF Init
<1>5. tripped = FALSE
  BY DEF Init
<1>6. TypeOK
  BY <1>1, <1>3, <1>4, <1>5 DEF TypeOK
<1>7. ReceiveIsClean /\ OpenAntennaHolds
  BY <1>2, <1>4, <1>5 DEF ReceiveIsClean, OpenAntennaHolds
<1>8. exposed <= tripCount
  BY <1>4
<1> QED BY <1>4, <1>5, <1>6, <1>7, <1>8 DEF IInv, ProtectionInv

LEMMA IngestKeepsInv ==
  ASSUME IInv, NEW r \in Readings, NEW tune \in BOOLEAN,
         NEW exempt \in BOOLEAN, Ingest(r, tune, exempt)
  PROVE  IInv'
<1> DEFINE fwd   == r[1]
           trips == IsTrip(r[1], r[2], tune, exempt)
<1>1. trips \in BOOLEAN
  BY DEF IsTrip
<1> HIDE DEF trips
<1>2. /\ Exposure(fwd, trips)
      /\ IF IsSuspended(fwd) THEN Suspend ELSE Judge(trips)
      /\ mox
      /\ UNCHANGED <<moxVars, settings, measuring, tripped>>
  BY DEF Ingest, trips
<1> USE DEF IInv, ProtectionInv, TypeOK, ReceiveIsClean, OpenAntennaHolds
<1>3. Mox!TypeOK'
  BY <1>2 DEF moxVars, Mox!TypeOK
<1>4. CASE IsSuspended(fwd)
  <2>1. tripCount' = 0 /\ factor' = "full" /\ ~highSwr' /\ ~latched'
    BY <1>2, <1>4 DEF IsSuspended, Suspend
  <2>2. exposed' = 0
    BY <1>2, <1>4 DEF IsSuspended, Exposure
  <2>3. 0 \in 0 .. Debounce - 1
    BY SwrProtectionAssumption
  <2>4. highSwr' \in BOOLEAN /\ latched' \in BOOLEAN
    BY <1>2, <1>4 DEF IsSuspended, Suspend
  <2> QED BY <1>2, <1>3, <2>1, <2>2, <2>3, <2>4 DEF moxVars, settings
<1>5. CASE ~IsSuspended(fwd)
  <2>1. /\ tripCount' \in 0 .. Debounce - 1
        /\ factor' \in {"full", "folded", "minimal"}
        /\ highSwr' \in BOOLEAN /\ latched' \in BOOLEAN
        /\ latched' => factor' = "minimal"
        /\ trips /\ factor' = "full" => tripCount' = tripCount + 1
    BY <1>1, <1>2, <1>5, JudgeFacts, SwrProtectionAssumption
  <2>2. exposed' \in Nat /\ exposed' <= tripCount'
    BY <1>2, <2>1, SwrProtectionAssumption DEF Exposure
  <2> QED BY <1>2, <1>3, <2>1, <2>2 DEF moxVars, settings
<1> QED BY <1>4, <1>5

LEMMA NextInv == IInv /\ [Next]_vars => IInv'
<1> SUFFICES ASSUME IInv, [Next]_vars PROVE IInv'
  OBVIOUS
<1>1. ASSUME NEW r \in Readings, NEW tune \in BOOLEAN,
             NEW exempt \in BOOLEAN, Ingest(r, tune, exempt)
      PROVE  IInv'
  BY <1>1, IngestKeepsInv
<1> USE SwrProtectionAssumption
    DEF IInv, ProtectionInv, TypeOK, ReceiveIsClean, OpenAntennaHolds
<1>2. ASSUME NEW r \in Readings, NEW tune \in BOOLEAN, OpenAntenna(r, tune)
      PROVE  IInv'
  <2>1. Mox!OpenAntennaTrip
    BY <1>2 DEF OpenAntenna, DropKey
  <2>2. Mox!TypeOK'
    BY <2>1, MoxStepsKeepTypes
  <2> QED BY <1>2, <2>1, <2>2
      DEF OpenAntenna, OnMoxOff, Mox!OpenAntennaTrip, settings
<1>3. ASSUME NEW on \in BOOLEAN, NEW v \in Mox!Verdicts, RequestMox(on, v)
      PROVE  IInv'
  <2>1. Mox!RequestMox(on, v)
    BY <1>3 DEF RequestMox
  <2>2. Mox!TypeOK'
    BY <2>1, MoxStepsKeepTypes
  <2>3. mox \in BOOLEAN /\ keyBlock \in BOOLEAN
    BY DEF Mox!TypeOK
  <2>4. /\ mox' \in BOOLEAN
        /\ on /\ keyBlock => mox' = mox /\ keyBlock'
        /\ ~on => ~mox'
    BY <2>1, <2>3, RequestsRespectLatch
  <2> QED BY <1>3, <2>2, <2>3, <2>4
      DEF RequestMox, OnMoxOff, swrVars, settings
<1>4. CASE WalkStep
  <2>1. Mox!TypeOK'
    BY <1>4, MoxStepsKeepTypes DEF WalkStep
  <2>2. mox' = mox /\ keyBlock' = keyBlock
    BY <1>4 DEF WalkStep, Mox!WalkStep, Mox!OnRfDelayElapsed,
      Mox!OnKeyUpDelayElapsed, Mox!OnPttOutElapsed
  <2> QED BY <1>4, <2>1, <2>2 DEF WalkStep, settings, swrVars, history
<1>5. CASE \E on \in BOOLEAN : \/ SetEnabled(on)
                               \/ SetWindBackEnabled(on)
                               \/ SetMeasurementMode(on)
  <2>1. Mox!TypeOK'
    BY <1>5 DEF SetEnabled, SetWindBackEnabled, SetMeasurementMode, moxVars,
      Mox!TypeOK
  <2> QED BY <1>5, <2>1 DEF SetEnabled, SetWindBackEnabled,
      SetMeasurementMode, moxVars, settings, swrVars, history
<1>6. CASE UNCHANGED vars
  <2>1. Mox!TypeOK'
    BY <1>6 DEF vars, moxVars, Mox!TypeOK
  <2> QED BY <1>6, <2>1 DEF vars, moxVars, settings, swrVars, history
<1> QED BY <1>1, <1>2, <1>3, <1>4, <1>5, <1>6 DEF Next

\* Nothing of a transmission is left in receive, and an open antenna keeps the
\* key dropped, for every coupler and every limit.
THEOREM ProtectionHolds == Spec => []ProtectionInv
<1>1. IInv => ProtectionInv
  BY DEF IInv
<1> QED BY InitInv, NextInv, <1>1, PTL DEF Spec

\* Over any number of transmissions the amplifier meets fewer than Debounce
\* mismatched samples in a row at full drive.
THEOREM ExposureStaysBounded == Spec => []ExposureIsBounded
<1>1. IInv => ExposureIsBounded
  BY SwrProtectionAssumption
    DEF IInv, ProtectionInv, TypeOK, ExposureIsBounded
<1> QED BY InitInv, NextInv, <1>1, PTL DEF Spec

\* A wind-back is lifted by the end of the transmission and by nothing else.
THEOREM WindBackAlwaysStands == Spec => WindBackStands
<1> DEFINE Stands == latched /\ mox' => latched' /\ factor' = "minimal"
<1>1. IInv /\ IInv' /\ [Next]_vars => [Stands]_vars
  <2> SUFFICES ASSUME IInv, IInv', Next, latched, mox' PROVE latched'
    BY DEF IInv
  <2>1. ASSUME NEW r \in Readings, NEW tune \in BOOLEAN,
               NEW exempt \in BOOLEAN, Ingest(r, tune, exempt)
        PROVE  latched'
    BY <2>1 DEF Ingest, IsSuspended, Judge
  <2>2. ASSUME NEW r \in Readings, NEW tune \in BOOLEAN, OpenAntenna(r, tune)
        PROVE  latched'
    BY <2>2 DEF OpenAntenna, DropKey, Mox!OpenAntennaTrip
  <2>3. ASSUME NEW on \in BOOLEAN, NEW v \in Mox!Verdicts, RequestMox(on, v)
        PROVE  latched'
    BY <2>3 DEF RequestMox, swrVars
  <2> QED BY <2>1, <2>2, <2>3 DEF Next, WalkStep, SetEnabled,
      SetWindBackEnabled, SetMeasurementMode, swrVars
<1> QED BY InitInv, NextInv, <1>1, PTL DEF Spec, WindBackStands

(***************************************************************************)
(* The other users of the controller.  Its own proof is taken over whole:  *)
(* whatever they do to it is one of its steps.                             *)
(***************************************************************************)

MoxPart == INSTANCE MoxControllerProofs WITH PttKeys <- {}

LEMMA MoxPartStep ==
  ASSUME MoxPart!IInv, MoxPart!Next \/ UNCHANGED moxVars
  PROVE  MoxPart!IInv'
<1>1. MoxPart!IInv /\ [MoxPart!Next]_(MoxPart!vars) => MoxPart!IInv'
  BY MoxPart!NextInv DEF MoxPart!PttKeysAssumption
<1>2. CASE UNCHANGED moxVars
  BY <1>1, <1>2 DEF moxVars, MoxPart!vars
<1> QED BY <1>1, <1>2

\* What a request does to the committed transmit request and to the timers.
LEMMA MoxRequestFacts ==
  ASSUME NEW on \in BOOLEAN, NEW v \in MoxPart!Verdicts,
         mox \in BOOLEAN, MoxPart!SetMox(on, v)
  PROVE  /\ on /\ mox => mox'
         /\ ~on => ~mox'
         /\ "micTail" \in timers' => "micTail" \in timers
BY DEF MoxPart!SetMox, MoxPart!RefuseMox, MoxPart!GrantMox, MoxPart!BeginWalk

LEMMA MoxWalkFacts ==
  ASSUME MoxPart!OpenAntennaTrip \/ MoxPart!WalkStep
         \/ MoxPart!OnMicPttReleaseTailElapsed
  PROVE  /\ pttMode' = pttMode
         /\ "micTail" \in timers' => "micTail" \in timers
BY DEF MoxPart!OpenAntennaTrip, MoxPart!BeginWalk, MoxPart!WalkStep,
  MoxPart!OnMicPttReleaseTailElapsed, MoxPart!OnRfDelayElapsed,
  MoxPart!OnKeyUpDelayElapsed, MoxPart!OnPttOutElapsed

(***************************************************************************)
(* MicPtt.  A frame without the bit restarts the tail as long as the       *)
(* microphone is the claimed source, so the tail always has more to run    *)
(* than the next frame has to come, and only a frame with the bit, which   *)
(* restarts nothing, lets it run out.                                      *)
(***************************************************************************)

CONSTANTS FrameTicks, TailTicks
VARIABLES key, nextFrame, tail, button, owner, seen

Ptt == INSTANCE MicPtt

ClockTypes ==
  /\ {key, button, seen} \subseteq BOOLEAN
  /\ nextFrame \in 0 .. FrameTicks
  /\ tail \in 0 .. TailTicks
  /\ owner \in {"None", "Button", "Mic"}

TailOutlastsFrame ==
  ~seen /\ "micTail" \in timers /\ pttMode = "Mic" => nextFrame < tail

PttInv ==
  /\ MoxPart!IInv
  /\ ClockTypes
  /\ FrameTicks < TailTicks => TailOutlastsFrame

\* What MicPtt does to the controller are the controller's steps.
LEMMA PttSteps ==
  /\ \A on \in BOOLEAN : Ptt!Mox!RequestMox(on, "ok") =>
       /\ MoxPart!SetMox(on, "ok") /\ pttMode' = pttMode
       /\ MoxPart!Next
  /\ Ptt!Mox!OnMicPttPressed("ok") =>
       MoxPart!SetMox(TRUE, "ok") /\ MoxPart!Next
  /\ Ptt!Mox!OnMicPttReleased => MoxPart!OnMicPttReleased /\ MoxPart!Next
  /\ Ptt!Mox!OnMicPttReleaseTailElapsed =>
       MoxPart!OnMicPttReleaseTailElapsed /\ MoxPart!Next
  /\ Ptt!Mox!OpenAntennaTrip => MoxPart!OpenAntennaTrip /\ MoxPart!Next
  /\ Ptt!Mox!WalkStep => MoxPart!WalkStep /\ MoxPart!Next
<1>1. "ok" \in MoxPart!Verdicts
  BY DEF MoxPart!Verdicts
<1>2. ASSUME NEW on \in BOOLEAN
      PROVE  Ptt!Mox!SetMox(on, "ok") => MoxPart!SetMox(on, "ok")
  BY Zenon DEF Ptt!Mox!SetMox, MoxPart!SetMox, Ptt!Mox!RefuseMox,
    MoxPart!RefuseMox, Ptt!Mox!GrantMox, MoxPart!GrantMox,
    Ptt!Mox!BeginWalk, MoxPart!BeginWalk, Ptt!Mox!Emit, MoxPart!Emit,
    Ptt!Mox!KeyOnSignals, MoxPart!KeyOnSignals, Ptt!Mox!KeyOffSignals,
    MoxPart!KeyOffSignals
<1>3. ASSUME NEW on \in BOOLEAN, Ptt!Mox!RequestMox(on, "ok")
      PROVE  /\ MoxPart!SetMox(on, "ok") /\ pttMode' = pttMode
             /\ MoxPart!Next
  BY <1>1, <1>2, <1>3 DEF Ptt!Mox!RequestMox, MoxPart!RequestMox,
    MoxPart!Next
<1>4. ASSUME Ptt!Mox!OnMicPttPressed("ok")
      PROVE  MoxPart!SetMox(TRUE, "ok") /\ MoxPart!Next
  BY <1>1, <1>2, <1>4 DEF Ptt!Mox!OnMicPttPressed,
    MoxPart!OnMicPttPressed, MoxPart!Next
<1>5. Ptt!Mox!OnMicPttReleased => MoxPart!OnMicPttReleased
  BY Zenon DEF Ptt!Mox!OnMicPttReleased, MoxPart!OnMicPttReleased,
    Ptt!Mox!Emit, MoxPart!Emit
<1>6. Ptt!Mox!OnMicPttReleaseTailElapsed =>
        MoxPart!OnMicPttReleaseTailElapsed
  BY Zenon DEF Ptt!Mox!OnMicPttReleaseTailElapsed,
    MoxPart!OnMicPttReleaseTailElapsed, Ptt!Mox!BeginWalk,
    MoxPart!BeginWalk, Ptt!Mox!Emit, MoxPart!Emit,
    Ptt!Mox!KeyOnSignals, MoxPart!KeyOnSignals, Ptt!Mox!KeyOffSignals,
    MoxPart!KeyOffSignals
<1>7. Ptt!Mox!OpenAntennaTrip => MoxPart!OpenAntennaTrip
  BY Zenon DEF Ptt!Mox!OpenAntennaTrip, MoxPart!OpenAntennaTrip,
    Ptt!Mox!BeginWalk, MoxPart!BeginWalk, Ptt!Mox!Emit, MoxPart!Emit,
    Ptt!Mox!KeyOnSignals, MoxPart!KeyOnSignals, Ptt!Mox!KeyOffSignals,
    MoxPart!KeyOffSignals
<1>8. Ptt!Mox!WalkStep => MoxPart!WalkStep
  BY Zenon DEF Ptt!Mox!WalkStep, MoxPart!WalkStep,
    Ptt!Mox!OnRfDelayElapsed, MoxPart!OnRfDelayElapsed,
    Ptt!Mox!OnKeyUpDelayElapsed, MoxPart!OnKeyUpDelayElapsed,
    Ptt!Mox!OnPttOutElapsed, MoxPart!OnPttOutElapsed, Ptt!Mox!Emit,
    MoxPart!Emit
<1> QED BY <1>3, <1>4, <1>5, <1>6, <1>7, <1>8
    DEF MoxPart!Next, MoxPart!WalkStep

LEMMA PttInit ==
  ASSUME FrameTicks \in Nat \ {0}, TailTicks \in Nat \ {0}
  PROVE  Ptt!Init => PttInv
<1> SUFFICES ASSUME Ptt!Init PROVE PttInv
  OBVIOUS
<1>1. MoxPart!Init
  BY Zenon DEF Ptt!Init, Ptt!Mox!Init, MoxPart!Init
<1>2. MoxPart!IInv /\ timers = {}
  BY <1>1, MoxPart!InitInv DEF MoxPart!PttKeysAssumption, MoxPart!Init
<1>3. ClockTypes
  <2>1. nextFrame \in 0 .. FrameTicks /\ tail \in 0 .. TailTicks
    BY DEF Ptt!Init
  <2>2. {key, button, seen} \subseteq BOOLEAN /\ owner = "None"
    BY DEF Ptt!Init
  <2> QED BY <2>1, <2>2 DEF ClockTypes
<1>4. TailOutlastsFrame
  BY <1>2 DEF TailOutlastsFrame
<1> QED BY <1>2, <1>3, <1>4, Zenon DEF PttInv

LEMMA PttNext ==
  ASSUME FrameTicks \in Nat \ {0}, TailTicks \in Nat \ {0}
  PROVE  PttInv /\ [Ptt!Next]_(Ptt!vars) => PttInv'
<1> SUFFICES ASSUME PttInv, [Ptt!Next]_(Ptt!vars) PROVE PttInv'
  OBVIOUS
<1> USE DEF PttInv
<1>1. CASE Ptt!Frame
  <2>1. CASE key
    <3>1. Ptt!Mox!OnMicPttPressed("ok") /\ seen' = TRUE
      BY <1>1, <2>1 DEF Ptt!Frame, ClockTypes
    <3>2. MoxPart!IInv'
      BY <3>1, PttSteps, MoxPartStep
    <3>3. ClockTypes'
      BY <1>1, <2>1 DEF Ptt!Frame, Ptt!Claim, ClockTypes
    <3> QED BY <3>1, <3>2, <3>3 DEF TailOutlastsFrame
  <2>2. CASE ~key
    <3>1. /\ Ptt!Mox!OnMicPttReleased /\ pttMode' = pttMode
          /\ tail' = IF pttMode = "Mic" THEN TailTicks ELSE tail
          /\ nextFrame' = FrameTicks
      BY <1>1, <2>2, PttSteps DEF Ptt!Frame, Ptt!StartTail,
        MoxPart!OnMicPttReleased
    <3>2. MoxPart!IInv'
      BY <3>1, PttSteps, MoxPartStep
    <3>3. ClockTypes'
      BY <1>1, <2>2, <3>1 DEF Ptt!Frame, Ptt!KeepOwner, ClockTypes
    <3> QED BY <3>1, <3>2, <3>3 DEF TailOutlastsFrame
  <2> QED BY <2>1, <2>2
<1>2. CASE Ptt!TailElapsed
  <2>1. Ptt!Mox!OnMicPttReleaseTailElapsed
    BY <1>2 DEF Ptt!TailElapsed
  <2>2. MoxPart!IInv'
    BY <2>1, PttSteps, MoxPartStep
  <2>3. pttMode' = pttMode /\ ("micTail" \in timers' => "micTail" \in timers)
    BY <2>1, PttSteps, MoxWalkFacts
  <2> QED BY <1>2, <2>2, <2>3
      DEF Ptt!TailElapsed, Ptt!KeepOwner, ClockTypes, TailOutlastsFrame
<1>3. CASE Ptt!Tick
  <2>1. MoxPart!IInv' /\ timers' = timers /\ pttMode' = pttMode
    BY <1>3, MoxPartStep DEF Ptt!Tick, Ptt!moxVars, moxVars
  <2>2. ClockTypes'
    BY <1>3 DEF Ptt!Tick, ClockTypes
  <2> QED BY <1>3, <2>1, <2>2 DEF Ptt!Tick, ClockTypes, TailOutlastsFrame
<1>4. CASE Ptt!MoveKey \/ UNCHANGED Ptt!vars
  <2>1. MoxPart!IInv' /\ timers' = timers /\ pttMode' = pttMode
    BY <1>4, MoxPartStep DEF Ptt!MoveKey, Ptt!vars, Ptt!moxVars, moxVars
  <2> QED BY <1>4, <2>1
      DEF Ptt!MoveKey, Ptt!vars, ClockTypes, TailOutlastsFrame
<1>5. ASSUME NEW on \in BOOLEAN, Ptt!MoxButton(on)
      PROVE  PttInv'
  <2>1. Ptt!Mox!RequestMox(on, "ok")
    BY <1>5 DEF Ptt!MoxButton
  <2>2. MoxPart!IInv'
    BY <2>1, PttSteps, MoxPartStep
  <2>3. pttMode' = pttMode /\ ("micTail" \in timers' => "micTail" \in timers)
    BY <2>1, PttSteps, MoxRequestFacts
      DEF MoxPart!Verdicts, MoxPart!IInv, MoxPart!TypeOK
  <2> QED BY <1>5, <2>2, <2>3 DEF Ptt!MoxButton, Ptt!Claim, Ptt!KeepOwner,
      ClockTypes, TailOutlastsFrame
<1>6. CASE Ptt!OpenAntennaTrip \/ Ptt!WalkStep
  <2>1. Ptt!Mox!OpenAntennaTrip \/ Ptt!Mox!WalkStep
    BY <1>6 DEF Ptt!OpenAntennaTrip, Ptt!WalkStep
  <2>2. MoxPart!IInv'
    BY <2>1, PttSteps, MoxPartStep
  <2>3. pttMode' = pttMode /\ ("micTail" \in timers' => "micTail" \in timers)
    BY <2>1, PttSteps, MoxWalkFacts
  <2> QED BY <1>6, <2>2, <2>3 DEF Ptt!OpenAntennaTrip, Ptt!KeepOwner,
      Ptt!WalkStep, ClockTypes, TailOutlastsFrame
<1> QED BY <1>1, <1>2, <1>3, <1>4, <1>5, <1>6 DEF Ptt!Next

\* The clock and the sources of the microphone key keep their types, for every
\* frame period and every tail.
THEOREM ClockHolds ==
  ASSUME FrameTicks \in Nat \ {0}, TailTicks \in Nat \ {0}
  PROVE  Ptt!Spec => []Ptt!TypeOK
<1>1. MoxPart!TypeOK => Ptt!Mox!TypeOK
  BY Zenon DEF MoxPart!TypeOK, Ptt!Mox!TypeOK, MoxPart!MoxState,
    Ptt!Mox!MoxState, MoxPart!PttMode, Ptt!Mox!PttMode, MoxPart!Timers,
    Ptt!Mox!Timers, MoxPart!WalkTimers, Ptt!Mox!WalkTimers,
    MoxPart!Emissions, Ptt!Mox!Emissions, MoxPart!KeyOnSignals,
    Ptt!Mox!KeyOnSignals, MoxPart!KeyOffSignals, Ptt!Mox!KeyOffSignals
<1>2. PttInv => Ptt!TypeOK
  BY <1>1 DEF PttInv, ClockTypes, MoxPart!IInv, Ptt!TypeOK
<1> QED BY PttInit, PttNext, <1>2, PTL DEF Ptt!Spec

\* Frames without the PTT bit never end a transmission the MOX button has
\* claimed, for every frame period shorter than the tail.
THEOREM StreamIsHarmless ==
  ASSUME FrameTicks \in Nat \ {0}, TailTicks \in Nat \ {0},
         FrameTicks < TailTicks
  PROVE  Ptt!Spec => Ptt!IdleStreamIsHarmless
<1> DEFINE Harmless ==
      owner = "Button" /\ ~seen /\ mox /\ ~mox' => ~button'
<1>1. PttInv /\ [Ptt!Next]_(Ptt!vars) => [Harmless]_(Ptt!vars)
  <2> SUFFICES ASSUME PttInv, Ptt!Next, ~seen, mox, ~mox' PROVE ~button'
    OBVIOUS
  <2>1. ~Ptt!Frame
    <3>1. CASE Ptt!Mox!OnMicPttPressed("ok")
      BY <3>1, PttSteps, MoxRequestFacts
        DEF PttInv, MoxPart!IInv, MoxPart!TypeOK, MoxPart!Verdicts
    <3>2. CASE Ptt!Mox!OnMicPttReleased
      BY <3>2, PttSteps DEF MoxPart!OnMicPttReleased
    <3> QED BY <3>1, <3>2 DEF Ptt!Frame, Ptt!StartTail
  <2>2. ~Ptt!TailElapsed
    <3> SUFFICES ASSUME Ptt!TailElapsed PROVE FALSE
      OBVIOUS
    <3>1. MoxPart!OnMicPttReleaseTailElapsed /\ tail = 0
      BY PttSteps DEF Ptt!TailElapsed
    <3>2. "micTail" \in timers /\ pttMode = "Mic"
      BY <3>1 DEF MoxPart!OnMicPttReleaseTailElapsed
    <3> QED BY <3>1, <3>2 DEF PttInv, TailOutlastsFrame, ClockTypes
  <2>3. ~Ptt!Tick /\ ~Ptt!MoveKey
    BY DEF Ptt!Tick, Ptt!MoveKey, Ptt!moxVars
  <2>4. ASSUME NEW on \in BOOLEAN, Ptt!MoxButton(on)
        PROVE  ~button'
    <3>1. MoxPart!SetMox(on, "ok") /\ button' = on
      BY <2>4, PttSteps DEF Ptt!MoxButton
    <3> QED BY <3>1, MoxRequestFacts
        DEF PttInv, MoxPart!IInv, MoxPart!TypeOK, MoxPart!Verdicts
  <2>5. CASE Ptt!OpenAntennaTrip
    BY <2>5 DEF Ptt!OpenAntennaTrip
  <2>6. ~Ptt!WalkStep
    BY PttSteps DEF Ptt!WalkStep, MoxPart!WalkStep,
      MoxPart!OnRfDelayElapsed, MoxPart!OnKeyUpDelayElapsed,
      MoxPart!OnPttOutElapsed
  <2> QED BY <2>1, <2>2, <2>3, <2>4, <2>5, <2>6 DEF Ptt!Next
<1> QED BY PttInit, PttNext, <1>1, PTL
    DEF Ptt!Spec, Ptt!IdleStreamIsHarmless

(***************************************************************************)
(* TwoTone, for presses at any time.  As long as every MOX-release settle  *)
(* finds the flag of its activation, a generator that runs is reported,    *)
(* and the operator's power is in place whenever none runs, so that the    *)
(* next snapshot takes that one and not the test's own.                    *)
(***************************************************************************)

VARIABLES active, inFlight, settles, gen, secondTone, power, savedPwr,
          savedPwrValid, wanted, stale

Test == INSTANCE TwoTone

ToneTypes ==
  /\ {active, inFlight, gen, secondTone, savedPwrValid, wanted, stale}
       \subseteq BOOLEAN
  /\ settles \subseteq {"moxRelease", "freq2Delay", "deactivation"}
  /\ {power, savedPwr} \subseteq {"operator", "twoTone"}
  /\ ~(active /\ inFlight)

TestRuns ==
  /\ active => gen
  /\ savedPwrValid => gen
  /\ inFlight => "moxRelease" \in settles \/ "deactivation" \in settles

PowerIsKept ==
  /\ gen => active
  /\ ~gen => power = "operator"
  /\ savedPwrValid => savedPwr = "operator"
  /\ power = "twoTone" => savedPwrValid

ToneInv == ToneTypes /\ TestRuns /\ (~stale => PowerIsKept)

TestIInv == MoxPart!IInv /\ ToneInv

LEMMA TestSteps ==
  /\ \A on \in BOOLEAN, v \in Test!Mox!Verdicts :
       Test!Mox!RequestMox(on, v) => MoxPart!Next
  /\ Test!Mox!OpenAntennaTrip => MoxPart!Next
  /\ Test!Mox!WalkStep => MoxPart!Next
<1>1. ASSUME NEW on \in BOOLEAN, NEW v \in Test!Mox!Verdicts,
             Test!Mox!RequestMox(on, v)
      PROVE  MoxPart!Next
  <2>1. v \in MoxPart!Verdicts
    BY Zenon DEF Test!Mox!Verdicts, MoxPart!Verdicts
  <2>2. MoxPart!RequestMox(on, v)
    BY <1>1, Zenon DEF Test!Mox!RequestMox, MoxPart!RequestMox,
      Test!Mox!SetMox, MoxPart!SetMox, Test!Mox!RefuseMox,
      MoxPart!RefuseMox, Test!Mox!GrantMox, MoxPart!GrantMox,
      Test!Mox!BeginWalk, MoxPart!BeginWalk, Test!Mox!Emit, MoxPart!Emit,
      Test!Mox!KeyOnSignals, MoxPart!KeyOnSignals, Test!Mox!KeyOffSignals,
      MoxPart!KeyOffSignals
  <2> QED BY <2>1, <2>2 DEF MoxPart!Next
<1>2. Test!Mox!OpenAntennaTrip => MoxPart!OpenAntennaTrip
  BY Zenon DEF Test!Mox!OpenAntennaTrip, MoxPart!OpenAntennaTrip,
    Test!Mox!BeginWalk, MoxPart!BeginWalk, Test!Mox!Emit, MoxPart!Emit,
    Test!Mox!KeyOnSignals, MoxPart!KeyOnSignals, Test!Mox!KeyOffSignals,
    MoxPart!KeyOffSignals
<1>3. Test!Mox!WalkStep => MoxPart!WalkStep
  BY Zenon DEF Test!Mox!WalkStep, MoxPart!WalkStep,
    Test!Mox!OnRfDelayElapsed, MoxPart!OnRfDelayElapsed,
    Test!Mox!OnKeyUpDelayElapsed, MoxPart!OnKeyUpDelayElapsed,
    Test!Mox!OnPttOutElapsed, MoxPart!OnPttOutElapsed, Test!Mox!Emit,
    MoxPart!Emit
<1> QED BY <1>1, <1>2, <1>3 DEF MoxPart!Next, MoxPart!WalkStep

\* An activation commits, is cleaned up by its own rejection or, when its flag
\* is gone, starts a generator that nobody will report; the last one is stale.
LEMMA ActivateKeepsTone ==
  ASSUME ToneInv, NEW inWalk \in BOOLEAN, NEW rest, rest \subseteq settles,
         NEW v, NEW fixed \in BOOLEAN, NEW delayed \in BOOLEAN,
         wanted' \in BOOLEAN, stale' \in BOOLEAN,
         ~stale' => ~stale /\ inWalk /\ ~active,
         Test!Activate(inWalk, rest, v, fixed, delayed)
  PROVE  ToneInv'
<1> USE DEF ToneInv, ToneTypes, TestRuns, PowerIsKept
<1>1. CASE Test!Rejected /\ (inWalk \/ active)
  BY <1>1 DEF Test!Activate, Test!Finish
<1>2. CASE ~(Test!Rejected /\ (inWalk \/ active))
  <2>1. settles' \subseteq {"moxRelease", "freq2Delay", "deactivation"}
    BY <1>2 DEF Test!Activate, Test!SecondToneDelay
  <2>2. /\ gen' = TRUE /\ savedPwrValid' = fixed
        /\ active' = (active \/ inWalk)
        /\ inFlight' = FALSE /\ secondTone' = ~delayed
        /\ IF fixed THEN savedPwr' = power /\ power' = "twoTone"
                    ELSE UNCHANGED <<savedPwr, power>>
    BY <1>2 DEF Test!Activate
  <2>3. ToneTypes'
    BY <2>1, <2>2
  <2>4. ~stale' => PowerIsKept'
    BY <2>2
  <2> QED BY <2>2, <2>3, <2>4
<1> QED BY <1>1, <1>2

LEMMA TestInit == Test!Init => TestIInv
<1> SUFFICES ASSUME Test!Init PROVE TestIInv
  OBVIOUS
<1>1. MoxPart!Init
  BY Zenon DEF Test!Init, Test!Mox!Init, MoxPart!Init
<1>2. MoxPart!IInv
  BY <1>1, MoxPart!InitInv DEF MoxPart!PttKeysAssumption
<1>3. ToneInv
  BY DEF Test!Init, ToneInv, ToneTypes, TestRuns, PowerIsKept
<1> QED BY <1>2, <1>3 DEF TestIInv

LEMMA TestNext == TestIInv /\ [Test!Next]_(Test!vars) => TestIInv'
<1> SUFFICES ASSUME TestIInv, [Test!Next]_(Test!vars) PROVE TestIInv'
  OBVIOUS
<1>1. MoxPart!Next \/ UNCHANGED moxVars
  <2>1. "ok" \in Test!Mox!Verdicts
    BY DEF Test!Mox!Verdicts
  <2>2. UNCHANGED Test!moxVars => UNCHANGED moxVars
    BY DEF Test!moxVars, moxVars
  <2>3. Test!SwitchOn => MoxPart!Next
    BY <2>1, TestSteps DEF Test!SwitchOn, Test!SwitchOnKeyed, Test!Activate
  <2>4. Test!SwitchOff => MoxPart!Next
    BY <2>1, TestSteps DEF Test!SwitchOff
  <2>5. Test!MoxReleaseElapsed => MoxPart!Next
    <3> SUFFICES ASSUME Test!MoxReleaseElapsed PROVE MoxPart!Next
      OBVIOUS
    <3>1. PICK v \in Test!Mox!Verdicts, fixed \in BOOLEAN,
               delayed \in BOOLEAN :
            Test!Activate(inFlight, settles \ {"moxRelease"}, v, fixed,
                          delayed)
      BY DEF Test!MoxReleaseElapsed
    <3> QED BY <3>1, TestSteps DEF Test!Activate
  <2>6. ASSUME NEW on \in BOOLEAN, NEW v \in Test!Mox!Verdicts,
               Test!OtherRequest(on, v)
        PROVE  MoxPart!Next
    BY <2>6, TestSteps DEF Test!OtherRequest
  <2>7. Test!OpenAntennaTrip \/ Test!WalkStep => MoxPart!Next
    BY TestSteps DEF Test!OpenAntennaTrip, Test!WalkStep
  <2>8. Test!PressIgnored \/ Test!Freq2DelayElapsed
          \/ Test!DeactivationElapsed \/ UNCHANGED Test!vars
          => UNCHANGED moxVars
    BY <2>2 DEF Test!PressIgnored, Test!Freq2DelayElapsed,
      Test!DeactivationElapsed, Test!vars
  <2> QED BY <2>3, <2>4, <2>5, <2>6, <2>7, <2>8 DEF Test!Next
<1>2. MoxPart!IInv'
  BY <1>1, MoxPartStep DEF TestIInv
<1>3. ToneInv
  BY DEF TestIInv
<1>4. ToneInv'
  <2>1. CASE Test!SwitchOn
    <3>1. ~active /\ wanted' = TRUE /\ stale' = stale
      BY <2>1 DEF Test!SwitchOn
    <3>2. CASE Test!SwitchOnKeyed
      BY <1>3, <3>1, <3>2 DEF Test!SwitchOnKeyed, ToneInv, ToneTypes,
        TestRuns, PowerIsKept
    <3>3. ASSUME NEW v \in Test!Mox!Verdicts, NEW fixed \in BOOLEAN,
                 NEW delayed \in BOOLEAN,
                 Test!Activate(TRUE, settles, v, fixed, delayed)
          PROVE  ToneInv'
      <4>1. stale' \in BOOLEAN
        BY <1>3, <3>1 DEF ToneInv, ToneTypes
      <4> QED BY <1>3, <3>1, <3>3, <4>1, ActivateKeepsTone
    <3> QED BY <2>1, <3>2, <3>3 DEF Test!SwitchOn
  <2>2. CASE Test!SwitchOff
    BY <1>3, <2>2 DEF Test!SwitchOff, ToneInv, ToneTypes, TestRuns,
      PowerIsKept
  <2>3. CASE Test!PressIgnored
    BY <1>3, <2>3 DEF Test!PressIgnored, ToneInv, ToneTypes, TestRuns,
      PowerIsKept
  <2>4. CASE Test!MoxReleaseElapsed
    <3>1. /\ inFlight \in BOOLEAN /\ wanted' \in BOOLEAN
          /\ stale' \in BOOLEAN
          /\ ~stale' => ~stale /\ inFlight /\ ~active
      BY <1>3, <2>4 DEF Test!MoxReleaseElapsed, ToneInv, ToneTypes
    <3>2. PICK v \in Test!Mox!Verdicts, fixed \in BOOLEAN,
               delayed \in BOOLEAN :
            Test!Activate(inFlight, settles \ {"moxRelease"}, v, fixed,
                          delayed)
      BY <2>4 DEF Test!MoxReleaseElapsed
    <3>3. settles \ {"moxRelease"} \subseteq settles
      OBVIOUS
    <3> QED BY <1>3, <3>1, <3>2, <3>3, ActivateKeepsTone
  <2>5. CASE Test!Freq2DelayElapsed
    BY <1>3, <2>5 DEF Test!Freq2DelayElapsed, ToneInv, ToneTypes, TestRuns,
      PowerIsKept
  <2>6. CASE Test!DeactivationElapsed
    BY <1>3, <2>6 DEF Test!DeactivationElapsed, Test!Finish,
      Test!RestorePower, ToneInv, ToneTypes, TestRuns, PowerIsKept
  <2>7. ASSUME NEW on \in BOOLEAN, NEW v \in Test!Mox!Verdicts,
               Test!OtherRequest(on, v)
        PROVE  ToneInv'
    <3>1. CASE Test!Rejected /\ (active \/ inFlight)
      BY <1>3, <2>7, <3>1 DEF Test!OtherRequest, Test!Finish,
        Test!RestorePower, ToneInv, ToneTypes, TestRuns, PowerIsKept
    <3>2. CASE ~(Test!Rejected /\ (active \/ inFlight))
      BY <1>3, <2>7, <3>2 DEF Test!OtherRequest, ToneInv, ToneTypes,
        TestRuns, PowerIsKept
    <3> QED BY <3>1, <3>2
  <2>8. CASE Test!OpenAntennaTrip \/ Test!WalkStep \/ UNCHANGED Test!vars
    <3>1. UNCHANGED Test!toneVars
      BY <2>8 DEF Test!OpenAntennaTrip, Test!WalkStep, Test!vars
    <3> QED BY <1>3, <3>1 DEF Test!toneVars, ToneInv, ToneTypes, TestRuns,
        PowerIsKept
  <2> QED BY <2>1, <2>2, <2>3, <2>4, <2>5, <2>6, <2>7, <2>8 DEF Test!Next
<1> QED BY <1>2, <1>4 DEF TestIInv

\* Whatever is pressed and whoever releases or refuses MOX: a reported test
\* runs, an activation under way has a timer to end it, and a generator that
\* runs is reported unless the settle of an activation that was over started it.
THEOREM TestHolds == Test!Spec => []Test!TestInv
<1>1. MoxPart!TypeOK => Test!Mox!TypeOK
  BY Zenon DEF MoxPart!TypeOK, Test!Mox!TypeOK, MoxPart!MoxState,
    Test!Mox!MoxState, MoxPart!PttMode, Test!Mox!PttMode, MoxPart!Timers,
    Test!Mox!Timers, MoxPart!WalkTimers, Test!Mox!WalkTimers,
    MoxPart!Emissions, Test!Mox!Emissions, MoxPart!KeyOnSignals,
    Test!Mox!KeyOnSignals, MoxPart!KeyOffSignals, Test!Mox!KeyOffSignals
<1>2. TestIInv => Test!TestInv
  BY <1>1 DEF TestIInv, ToneInv, ToneTypes, TestRuns, PowerIsKept,
    MoxPart!IInv, Test!TestInv, Test!TypeOK, Test!Settles, Test!Powers,
    Test!RunningIsReported, Test!ReportedIsRunning, Test!ActivationIsTimed
<1> QED BY TestInit, TestNext, <1>2, PTL DEF Test!Spec

\* Whichever way a test ends, and whatever is pressed before it has, the
\* operator's power is in place again once the generator is off; only that stale
\* settle can lose it.
THEOREM PowerAlwaysGivenBack == Test!Spec => []Test!PowerGivenBack
<1>1. TestIInv => Test!PowerGivenBack
  BY DEF TestIInv, ToneInv, PowerIsKept, Test!PowerGivenBack
<1> QED BY TestInit, TestNext, <1>1, PTL DEF Test!Spec
=============================================================================
