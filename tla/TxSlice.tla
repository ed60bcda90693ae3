------------------------------ MODULE TxSlice ------------------------------
(***************************************************************************)
(* Which slice transmits: TxSliceArbiter, the slice list of RadioModel and *)
(* the path of MOX and transmit frequency to the radio.                    *)
(*                                                                         *)
(* Three queues lie between a request and the antenna.  setMox runs on the *)
(* main thread and posts hardwareFlipped to the main event loop (flips);   *)
(* onMoxHardwareFlipped and pushTxFrequencyFromTxSlice post their calls to *)
(* the connection thread (calls), which talks to the radio.  A handoff     *)
(* drops MOX in the same call and pushes the frequency of the new slice at *)
(* once, so its push overtakes the flip of its own un-key.                 *)
(*                                                                         *)
(* The radio is one of the second protocol: every datagram carries the     *)
(* whole state, none is acknowledged, and any may be lost.                 *)
(*                                                                         *)
(* A frequency is named by the slice that has it.  The session is up; a    *)
(* restored binding (load) may name any slice.                             *)
(***************************************************************************)
EXTENDS Integers, Sequences, FiniteSets, SequencesExt

CONSTANTS
  MaxSlices,   \* maxSlices(): slice ids are 0 .. MaxSlices - 1
  GraceBeats,  \* heartbeats within kMoxOffGraceMs, the grace after an un-key
  MaxQueue,    \* bound: flips under way, and frequency pushes under way
  MaxLost      \* bound: datagrams lost in a row

ASSUME MaxSlicesAssumption == MaxSlices \in Nat \ {0}
ASSUME GraceBeatsAssumption == GraceBeats \in Nat
ASSUME MaxQueueAssumption == MaxQueue \in Nat \ {0}
ASSUME MaxLostAssumption == MaxLost \in 0 .. GraceBeats

VARIABLES
  mox, state, pttMode, manualMox, keyBlock, timers, signals,
  slices,   \* m_slices, a list of slice ids
  flagged,  \* the slices whose txSlice flag is set
  bound,    \* m_txBoundSliceId
  active,   \* the WDSP receive channels that run; channel id = slice id
  stopped,  \* m_moxStoppedRxChannel
  flips,    \* hardwareFlipped events posted to the main loop
  calls,    \* calls posted to the connection thread
  told,     \* the connection's m_mox and m_tx[0].frequency
  grace,    \* heartbeats left in m_moxOffGrace
  radio,    \* what the last datagram that arrived told the radio
  lost      \* datagrams lost since

moxVars == <<mox, state, pttMode, manualMox, keyBlock, timers, signals>>
wireVars == <<told, grace, radio, lost>>
vars == <<moxVars, slices, flagged, bound, active, stopped, flips, calls,
          wireVars>>

Mox == INSTANCE MoxController WITH PttKeys <- {}

SliceIds == 0 .. MaxSlices - 1
None     == -1
Live     == ToSet(slices)

MoxCall(on) == [op |-> "setMox", on |-> on]
TxCall(id)  == [op |-> "setTxFrequency", slice |-> id]
Calls == {MoxCall(on) : on \in BOOLEAN} \cup {TxCall(id) : id \in SliceIds}

\* Types of the members of TxSliceArbiter, of RadioModel's slice list and of
\* the two queues; no two slices share an id, and so a receive channel.
TypeOK ==
  /\ Mox!TypeOK
  /\ slices \in Seq(SliceIds) /\ Cardinality(Live) = Len(slices)
  /\ flagged \subseteq SliceIds
  /\ active \subseteq SliceIds
  /\ {bound, stopped} \subseteq SliceIds \cup {None}
  /\ flips \in Seq(BOOLEAN) /\ Len(flips) <= MaxQueue
  /\ calls \in Seq(Calls) /\ Len(calls) <= 2 * MaxQueue
  /\ {told, radio} \subseteq [mox : BOOLEAN, tx : SliceIds \cup {None}]
  /\ grace \in 0 .. GraceBeats
  /\ lost \in 0 .. MaxLost

Init ==
  /\ Mox!Init
  /\ slices = <<>>
  /\ flagged = {}
  /\ bound = None
  /\ active = {}
  /\ stopped = None
  /\ flips = <<>>
  /\ calls = <<>>
  /\ told = [mox |-> FALSE, tx |-> None]
  /\ grace = 0
  /\ radio = told
  /\ lost = 0

(***************************************************************************)
(* TxSliceArbiter.                                                         *)
(***************************************************************************)

Posted(op) == Cardinality({i \in DOMAIN calls : calls[i].op = op})

\* MoxController posts a flip, RadioModel the push of a transmit frequency.
Flip(on) ==
  /\ Len(flips) + Posted("setMox") < MaxQueue
  /\ flips' = Append(flips, on)

PushTxFrequency(id) ==
  /\ Posted("setTxFrequency") < MaxQueue
  /\ calls' = Append(calls, TxCall(id))

\* setMox(false) if MOX is committed; the walk to receive is only begun.
DropMox ==
  IF mox THEN Mox!RequestMox(FALSE, "ok") /\ Flip(FALSE)
         ELSE UNCHANGED <<moxVars, flips>>

\* Mutant: the flags of the other slices are left.
MutMoveTo(id) ==
  /\ DropMox
  /\ flagged' = flagged \cup {id}
  /\ bound' = id
  /\ PushTxFrequency(id)

\* Mutant: the transmitter moves under a committed MOX.
MutMoveToKeyed(id) ==
  /\ UNCHANGED <<moxVars, flips>>
  /\ flagged' = {id}
  /\ bound' = id
  /\ PushTxFrequency(id)

\* The transmitter moves to a slice, and txBoundSliceChanged pushes its
\* transmit frequency.
MoveTo(id) ==
  /\ DropMox
  /\ flagged' = {id}
  /\ bound' = id
  /\ PushTxFrequency(id)

StayPut == UNCHANGED <<moxVars, flips, flagged, bound, calls>>

\* syncToSliceList over the list the caller has changed: adopt the flagged
\* slice, keep one of several, or bind the restored slice, else the first.
SyncTo(list, restored) ==
  LET marked == ToSet(list) \cap flagged
      home   == IF restored \in ToSet(list) THEN restored ELSE list[1]
      first  == CHOOSE i \in DOMAIN list :
                  /\ list[i] \in marked
                  /\ \A j \in 1 .. i - 1 : list[j] \notin marked
      keep   == IF restored \in marked THEN restored ELSE list[first]
  IN  CASE list = <<>> ->
             /\ flagged' = {}
             /\ bound' = restored
             /\ UNCHANGED <<moxVars, flips, calls>>
        [] list # <<>> /\ marked = {} -> MoveTo(home)
        [] OTHER ->
             /\ flagged' = {keep}
             /\ bound' = keep
             /\ UNCHANGED <<moxVars, flips, calls>>

\* requestHandoff.  A request for a slice that is gone is refused.
RequestHandoff(id) ==
  /\ id \in Live \ flagged
  /\ MoveTo(id)
  /\ UNCHANGED <<slices, active, stopped, wireVars>>

\* load(): a live slice is handed the transmitter, any other id is kept for
\* syncToSliceList; nothing saved leaves the binding as it is.
Load(restored) ==
  /\ IF restored \in Live
     THEN IF restored \in flagged THEN StayPut ELSE MoveTo(restored)
     ELSE SyncTo(slices, IF restored = None THEN bound ELSE restored)
  /\ UNCHANGED <<slices, active, stopped, wireVars>>

(***************************************************************************)
(* The slice list of RadioModel.                                           *)
(***************************************************************************)

\* Mutant: the size of the list as the id.
MutSizeStamp == Len(slices)

\* addSlice: the lowest id that is free.  The stream allocator may refuse the
\* slice, which is taken off the list again.
LowestFree == CHOOSE id \in SliceIds \ Live :
                \A other \in SliceIds \ Live : id <= other

AddSlice ==
  /\ Len(slices) < MaxSlices
  /\ slices' = Append(slices, LowestFree)
  /\ SyncTo(slices', bound)
  /\ active' = active \cup {LowestFree}
  /\ UNCHANGED <<stopped, wireVars>>

\* The second syncToSliceList finds the flagged slice among the others, or an
\* empty list and leaves the id of the slice that is deleted.
RefuseSlice ==
  /\ Len(slices) < MaxSlices
  /\ IF slices = <<>>
     THEN /\ DropMox
          /\ bound' = LowestFree
          /\ UNCHANGED flagged
          /\ PushTxFrequency(LowestFree)
     ELSE StayPut
  /\ UNCHANGED <<slices, active, stopped, wireVars>>

\* removeSlice: never the last one; a TX slice hands the transmitter over
\* first, to the first slice of the list or to the second.
RemoveSlice(id) ==
  /\ Len(slices) > 1
  /\ \E i \in DOMAIN slices :
       /\ slices[i] = id
       /\ slices' = RemoveAt(slices, i)
  /\ IF id \in flagged THEN MoveTo(slices'[1]) ELSE SyncTo(slices', bound)
  /\ active' = active \ {id}
  /\ UNCHANGED <<stopped, wireVars>>

\* A retune that finds a stream: the channel is switched on if it is off, and
\* the transmit frequency follows the TX slice.
Retune(id) ==
  /\ id \in Live
  /\ active' = active \cup {id}
  /\ IF id = bound THEN PushTxFrequency(id) ELSE UNCHANGED calls
  /\ UNCHANGED <<moxVars, slices, flagged, bound, stopped, flips, wireVars>>

(***************************************************************************)
(* MOX.                                                                    *)
(***************************************************************************)

\* The MoxCheck of RadioModel refuses while no TX slice exists.
RequestMox(on) ==
  LET verdict == IF bound \in Live THEN "ok" ELSE "rejected" IN
  /\ Mox!RequestMox(on, verdict)
  /\ IF mox' # mox THEN Flip(on) ELSE UNCHANGED flips
  /\ UNCHANGED <<slices, flagged, bound, active, stopped, calls, wireVars>>

WalkStep ==
  /\ Mox!WalkStep
  /\ UNCHANGED <<slices, flagged, bound, active, stopped, flips, calls,
                 wireVars>>

\* Mutant: the channel to restore is looked up from the binding.
MutRestore(isTx) ==
  IF isTx
  THEN IF stopped = None THEN stopped' = bound /\ active' = active \ {bound}
                         ELSE UNCHANGED <<stopped, active>>
  ELSE stopped' = None /\ active' = active \cup ({bound} \ {None})

\* The receive channel of the TX slice rests while the radio transmits.
MuteReceiver(isTx) ==
  IF isTx
  THEN IF stopped = None THEN stopped' = bound /\ active' = active \ {bound}
                         ELSE UNCHANGED <<stopped, active>>
  ELSE stopped' = None /\ active' = active \cup ({stopped} \ {None})

\* onMoxHardwareFlipped, from the main event loop.
OnMoxHardwareFlipped ==
  /\ flips # <<>>
  /\ flips' = Tail(flips)
  /\ IF Head(flips) /\ bound \notin Live
     THEN UNCHANGED <<calls, stopped, active>>
     ELSE /\ calls' = Append(calls, MoxCall(Head(flips)))
          /\ MuteReceiver(Head(flips))
  /\ UNCHANGED <<moxVars, slices, flagged, bound, wireVars>>

(***************************************************************************)
(* The connection and the network.                                         *)
(***************************************************************************)

\* sendCmdHighPriority: the datagram arrives or is lost.
SendHighPriority(content) ==
  \/ radio' = content /\ lost' = 0
  \/ lost < MaxLost /\ lost' = lost + 1 /\ UNCHANGED radio

\* Mutant: the heartbeat stops with MOX.
MutSetMox(on) ==
  IF on = told.mox THEN UNCHANGED wireVars
  ELSE /\ told' = [told EXCEPT !.mox = on]
       /\ grace' = 0
       /\ SendHighPriority(told')

\* A repeated value sends nothing.  An un-key opens the grace window; what is
\* left of an earlier one says nothing while the radio is keyed.
SetMox(on) ==
  IF on = told.mox THEN UNCHANGED wireVars
  ELSE /\ told' = [told EXCEPT !.mox = on]
       /\ grace' = IF on THEN 0 ELSE GraceBeats
       /\ SendHighPriority(told')

SetTxFrequency(id) ==
  /\ told' = [told EXCEPT !.tx = id]
  /\ SendHighPriority(told')
  /\ UNCHANGED grace

\* The connection thread takes a call and tells the radio.
ConnectionStep ==
  /\ calls # <<>>
  /\ calls' = Tail(calls)
  /\ IF Head(calls).op = "setMox" THEN SetMox(Head(calls).on)
                                  ELSE SetTxFrequency(Head(calls).slice)
  /\ UNCHANGED <<moxVars, slices, flagged, bound, active, stopped, flips>>

\* The 100 ms heartbeat repeats the state while keyed and within the grace.
Heartbeat ==
  /\ told.mox \/ grace > 0
  /\ SendHighPriority(told)
  /\ grace' = IF told.mox THEN grace ELSE grace - 1
  /\ UNCHANGED <<moxVars, slices, flagged, bound, active, stopped, flips,
                 calls, told>>

Next ==
  \/ \E id \in SliceIds : RequestHandoff(id)
  \/ \E id \in SliceIds \cup {None} : Load(id)
  \/ AddSlice
  \/ RefuseSlice
  \/ \E id \in SliceIds : RemoveSlice(id)
  \/ \E id \in SliceIds : Retune(id)
  \/ \E on \in BOOLEAN : RequestMox(on)
  \/ WalkStep
  \/ OnMoxHardwareFlipped
  \/ ConnectionStep
  \/ Heartbeat

\* Timers elapse and event loops turn.  Requests owe nothing, and of MaxLost + 1
\* datagrams in a row one arrives.
Fairness ==
  /\ WF_vars(WalkStep)
  /\ WF_vars(OnMoxHardwareFlipped)
  /\ WF_vars(ConnectionStep)
  /\ WF_vars(Heartbeat)

Spec == Init /\ [][Next]_vars
FairSpec == Spec /\ Fairness

(***************************************************************************)
(* Properties.                                                             *)
(***************************************************************************)

\* TxSliceArbiter's invariant: as soon as there are slices exactly one has the
\* TX flag, and the cached id names it, over every order of adding, refusing,
\* removing, restoring and handing over.
OneTransmitter == slices # <<>> => bound \in Live /\ flagged = {bound}

\* What a step of the arbiter relies on: types with ids of their own for the
\* slices, and the one transmitter.
SliceInv == TypeOK /\ OneTransmitter

\* A handoff never takes the transmitter of a running transmission with it: MOX
\* has been dropped by the time another slice is bound (requestHandoff,
\* removeSlice and load alike).
HandoffDropsMox == [][bound # bound' => ~mox']_vars

\* Once the posted events and calls have been worked off and the heartbeat
\* rests, radio, receivers and binding agree: the connection was told of MOX and
\* of the bound slice, in that state if the last datagram arrived, and no lost
\* datagram leaves the radio keyed; in receive no channel is left muted, and in
\* transmit the channel to be restored is the one of the slice that transmits.
Settled == flips = <<>> /\ calls = <<>> /\ grace = 0

SettledAgrees ==
  Settled /\ slices # <<>> =>
    /\ told = [mox |-> mox, tx |-> bound]
    /\ lost = 0 => radio = told
    /\ ~mox => ~radio.mox
    /\ stopped = IF mox THEN bound ELSE None
    /\ ~mox => Live \subseteq active

\* A request reaches the radio whatever datagrams are lost, and nothing keeps
\* it transmitting after the last one for OFF: handoffs that drop MOX included.
RadioFollows ==
  /\ <>[]mox  => <>[]radio.mox
  /\ <>[]~mox => <>[]~radio.mox

\* The comment at the handoff's push in RadioModel.cpp: the arbiter drops MOX
\* first, so the frequency moves with the transmitter unkeyed.
FrequencyMovesUnkeyed == [][radio.tx # radio'.tx => ~radio.mox]_vars

\* The comment on deactivateSliceChannel: the channel of a removed slice stops
\* running until a slice takes the id again.
OrphansAreStopped == Settled => active \subseteq Live

\* The comment at the end of bindSliceToStream: no retune switches a channel
\* on, so a channel muted for a transmission stays muted.
MutedWhileKeyed == stopped # None => stopped \notin active
=============================================================================
