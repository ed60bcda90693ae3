--------------------------- MODULE SwrProtection ---------------------------
(***************************************************************************)
(* SwrProtectionController over the MOX machine, as RadioModel wires them: *)
(*                                                                         *)
(*   handlePaTelemetry  feeds it a sample of forward and reflected watts   *)
(*                      while MOX is committed, and drops the key on an    *)
(*                      open antenna                                       *)
(*   moxChanging        releases it synchronously, on the way to receive   *)
(*   setup page         switches protection and wind-back at any time      *)
(*   SWR sweep          switches measurement mode at any time              *)
(*                                                                         *)
(* Watts are natural numbers and the SWR is compared with the limit        *)
(* exactly.  A drive factor is full, folded back (limit / (swr + 1)) or    *)
(* the one percent of the wind-back.                                       *)
(***************************************************************************)
EXTENDS Integers, Sequences

CONSTANTS
  Readings,     \* the pairs <<forward, reflected>> the coupler may report
  Limit,        \* m_limit, at least 1
  AlexLimit,    \* m_alexFwdLimit
  TuneIgnore,   \* m_tunePowerSwrIgnore
  OpenFwdMin,   \* kOpenAntennaFwdMin
  OpenDelta,    \* kOpenAntennaDeltaMax
  LowFloor,     \* kLowPowerFloor
  Ceiling,      \* kMeasurementCeilingW
  Debounce      \* kTripDebounceCount

ASSUME SwrProtectionAssumption ==
  /\ Readings \subseteq Nat \X Nat
  /\ {AlexLimit, TuneIgnore, OpenFwdMin, OpenDelta, LowFloor, Ceiling}
       \subseteq Nat
  /\ {Limit, Debounce} \subseteq Nat \ {0}

VARIABLES
  mox, state, pttMode, manualMox, keyBlock, timers, signals,
  enabled,        \* m_enabled
  windBack,       \* m_windBackEnabled
  measuring,      \* m_measurementMode
  tripCount,      \* m_tripCount
  factor,         \* m_protectFactor
  highSwr,        \* m_highSwr
  latched,        \* m_windBackLatched
  exposed,        \* history: samples of a mismatch met at full drive, since
                  \* a clean one
  tripped         \* history: nobody has asked for OFF since an open antenna

moxVars  == <<mox, state, pttMode, manualMox, keyBlock, timers, signals>>
settings == <<enabled, windBack>>
swrVars  == <<tripCount, factor, highSwr, latched>>
history  == <<exposed, tripped>>
vars     == <<moxVars, settings, measuring, swrVars, history>>

Mox == INSTANCE MoxController WITH PttKeys <- {}

\* Types of SwrProtectionController's members.  The trip count stays below the
\* debounce count, over every un-key between two samples.
TypeOK ==
  /\ Mox!TypeOK
  /\ {enabled, windBack, measuring, highSwr, latched, tripped}
       \subseteq BOOLEAN
  /\ tripCount \in 0 .. Debounce - 1
  /\ factor \in {"full", "folded", "minimal"}
  /\ exposed \in Nat

Init ==
  /\ Mox!Init
  /\ enabled \in BOOLEAN
  /\ windBack \in BOOLEAN
  /\ measuring = FALSE
  /\ tripCount = 0
  /\ factor = "full"
  /\ highSwr = FALSE
  /\ latched = FALSE
  /\ exposed = 0
  /\ tripped = FALSE

(***************************************************************************)
(* ingest().                                                               *)
(***************************************************************************)

\* swr > m_limit.  With rho = sqrt(rev / fwd) the SWR is (1 + rho) / (1 - rho);
\* more reflected than forward power, or none forward, reads as 1.
IsHigh(fwd, rev) ==
  /\ fwd > 0 /\ rev <= fwd
  /\ fwd > LowFloor \/ rev > LowFloor
  /\ (Limit + 1) * (Limit + 1) * rev > (Limit - 1) * (Limit - 1) * fwd

IsOpen(fwd, rev, tune) ==
  ~tune /\ enabled /\ fwd > OpenFwdMin /\ fwd - rev < OpenDelta

\* Mutant: measurement mode has no ceiling.
MutIsSuspended(fwd) == measuring /\ ~latched

\* Mutant: measurement mode lifts a latched wind-back.
MutIsLifted(fwd) == measuring /\ fwd <= Ceiling

IsSuspended(fwd) == measuring /\ ~latched /\ fwd <= Ceiling

\* A sample that counts towards a trip.  exempt: the tune-time bypass is set up
\* and the tune power slider is low.
IsTrip(fwd, rev, tune, exempt) ==
  /\ enabled /\ fwd > AlexLimit /\ IsHigh(fwd, rev)
  /\ ~(tune /\ exempt /\ fwd >= 1 /\ fwd <= TuneIgnore)

\* Measurement mode publishes the SWR and acts on nothing.
Suspend ==
  /\ tripCount' = 0
  /\ factor' = "full"
  /\ highSwr' = FALSE
  /\ UNCHANGED latched

\* Mutant: a clean sample does not start the count afresh, which then runs past
\* the fold-back.
MutJudge(trips) ==
  /\ tripCount' = IF trips THEN tripCount + 1 ELSE tripCount
  /\ factor' = IF tripCount' >= Debounce THEN "folded" ELSE "full"
  /\ highSwr' = (tripCount' >= Debounce)
  /\ UNCHANGED latched

\* Trip detection, fold-back and the wind-back latch.
Judge(trips) ==
  LET folds == trips /\ tripCount + 1 >= Debounce
      drive == IF folds THEN "folded" ELSE IF trips THEN factor ELSE "full"
  IN  /\ tripCount' = IF trips /\ ~folds THEN tripCount + 1 ELSE 0
      /\ highSwr' = IF trips THEN highSwr \/ folds
                             ELSE highSwr /\ enabled /\ latched
      /\ latched' = (latched \/ (enabled /\ windBack /\ highSwr'))
      /\ factor' = IF latched' THEN "minimal" ELSE drive

Exposure(fwd, trips) ==
  exposed' = IF trips /\ ~(measuring /\ fwd <= Ceiling)
             THEN IF factor = "full" /\ factor' = "full" THEN exposed + 1
                                                         ELSE 0
             ELSE 0

\* handlePaTelemetry with no open antenna.
Ingest(reading, tune, exempt) ==
  LET fwd   == reading[1]
      rev   == reading[2]
      trips == IsTrip(fwd, rev, tune, exempt) IN
  /\ mox
  /\ ~IsOpen(fwd, rev, tune)
  /\ IF IsSuspended(fwd) THEN Suspend ELSE Judge(trips)
  /\ Exposure(fwd, trips)
  /\ UNCHANGED <<moxVars, settings, measuring, tripped>>

(***************************************************************************)
(* The release, and who asks for it.                                       *)
(***************************************************************************)

\* Mutant: the un-key clears the trip count.
MutOnMoxOff ==
  /\ factor' = "full"
  /\ highSwr' = FALSE
  /\ latched' = FALSE
  /\ tripCount' = 0

\* Mutant: the wind-back latch stays.
MutKeepLatch ==
  /\ factor' = "full"
  /\ highSwr' = FALSE
  /\ UNCHANGED <<latched, tripCount>>

OnMoxOff ==
  /\ factor' = "full"
  /\ highSwr' = FALSE
  /\ latched' = FALSE
  /\ UNCHANGED tripCount

\* Mutant: latched before the un-key, which releases the latch.
MutDropKey ==
  /\ mox
  /\ Mox!RequestMox(FALSE, "ok")

DropKey == Mox!OpenAntennaTrip

\* handlePaTelemetry on an open antenna: what ingest() folds back is released
\* again by the un-key within the call.
OpenAntenna(reading, tune) ==
  /\ IsOpen(reading[1], reading[2], tune)
  /\ DropKey
  /\ OnMoxOff
  /\ tripped' = TRUE
  /\ UNCHANGED <<settings, measuring, exposed>>

\* Any source of MOX.
RequestMox(on, verdict) ==
  /\ Mox!RequestMox(on, verdict)
  /\ IF mox /\ ~mox' THEN OnMoxOff ELSE UNCHANGED swrVars
  /\ tripped' = (tripped /\ on)
  /\ UNCHANGED <<settings, measuring, exposed>>

WalkStep ==
  /\ Mox!WalkStep
  /\ UNCHANGED <<settings, measuring, swrVars, history>>

\* Mutant: unticking protection lifts the wind-back.
MutSetEnabled(on) ==
  /\ enabled' = on
  /\ IF on THEN UNCHANGED swrVars ELSE OnMoxOff
  /\ UNCHANGED <<moxVars, windBack, measuring, history>>

SetEnabled(on) ==
  /\ enabled' = on
  /\ UNCHANGED <<moxVars, windBack, measuring, swrVars, history>>

SetWindBackEnabled(on) ==
  /\ windBack' = on
  /\ UNCHANGED <<moxVars, enabled, measuring, swrVars, history>>

\* A switch starts the count afresh; setting what is set does nothing.
SetMeasurementMode(on) ==
  /\ measuring # on
  /\ measuring' = on
  /\ tripCount' = 0
  /\ exposed' = 0
  /\ UNCHANGED <<moxVars, settings, factor, highSwr, latched, tripped>>

Next ==
  \/ \E r \in Readings, tune, exempt \in BOOLEAN : Ingest(r, tune, exempt)
  \/ \E r \in Readings, tune \in BOOLEAN : OpenAntenna(r, tune)
  \/ \E on \in BOOLEAN, v \in Mox!Verdicts : RequestMox(on, v)
  \/ WalkStep
  \/ \E on \in BOOLEAN : SetEnabled(on)
  \/ \E on \in BOOLEAN : SetWindBackEnabled(on)
  \/ \E on \in BOOLEAN : SetMeasurementMode(on)

Spec == Init /\ [][Next]_vars

(***************************************************************************)
(* Properties.                                                             *)
(***************************************************************************)

\* Receive lifts everything: no fold-back, no latch and no warning of one
\* transmission is left for the next, however the key was dropped.
ReceiveIsClean == ~mox => factor = "full" /\ ~highSwr /\ ~latched

\* A wind-back stands for the rest of the transmission, at one percent of the
\* drive: neither clean samples, nor unticking protection or wind-back, nor
\* TUNE, nor measurement mode lifts it.
WindBackStands ==
  [][latched /\ mox' => latched' /\ factor' = "minimal"]_vars

\* The amplifier never meets more than Debounce - 1 mismatched samples in a row
\* at full drive, the samples of earlier transmissions included: tapping the
\* key buys no new debounce window.
ExposureIsBounded == exposed < Debounce

\* Once an open antenna has dropped the key, the transmitter stays unkeyed until
\* somebody has asked for OFF.
OpenAntennaHolds == tripped => ~mox

\* What a sample relies on: types, a clean start, and a key that stays dropped.
ProtectionInv == TypeOK /\ ReceiveIsClean /\ OpenAntennaHolds

\* SwrProtectionController.h on highSwr(): true when the SWR exceeded the limit
\* on the most recent sample, the wind-back apart.
HighSwrIsCurrent ==
  [][\A r \in Readings :
       Ingest(r, FALSE, FALSE) /\ enabled /\ ~measuring /\ r[1] > AlexLimit =>
         (highSwr' <=> IsHigh(r[1], r[2]) \/ latched)]_vars

\* SwrProtectionController.h on stage 1: an SWR over the limit on any sample
\* folds the drive back.
EverySampleFolds ==
  [][\A r \in Readings :
       Ingest(r, FALSE, FALSE) /\ ~measuring /\ IsTrip(r[1], r[2], FALSE, FALSE)
         => factor' # "full"]_vars
=============================================================================
