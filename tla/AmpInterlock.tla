---------------------------- MODULE AmpInterlock ----------------------------
(***************************************************************************)
(* The amplifier interlock of src/core/SmartSdrApiListener.cpp.            *)
(*                                                                         *)
(* Amplifiers connect as TCP clients and join the interlock.  To transmit, *)
(* the radio broadcasts PTT_REQUESTED, waits for every joined amplifier to *)
(* answer "interlock ready" (500 ms at most), lets the relays settle for   *)
(* 30 ms in a single-shot nobody can cancel, broadcasts TRANSMITTING and   *)
(* emits interlockGranted.  To stop, it broadcasts UNKEY_REQUESTED and,    *)
(* from another single-shot, READY.                                        *)
(*                                                                         *)
(* Everything runs on the main thread: a socket line, a timer slot and a   *)
(* call from RadioModel are one action each.  `granted' says whether the   *)
(* last step emitted interlockGranted.  The amplifier-status frames that   *)
(* follow TRANSMITTING (5 ms) and UNKEY (8 ms) are left out.               *)
(***************************************************************************)
EXTENDS Naturals

CONSTANTS
  Amps,      \* the clients that may connect
  MaxShots   \* bound: single-shots outstanding when a new request is made

ASSUME MaxShotsAssumption == MaxShots \in Nat \ {0}

VARIABLES
  listening,   \* the server accepts clients
  status,      \* m_clients: per client, its place in the interlock
  acked,       \* clients whose ackReady flag is set
  txActive,    \* m_txActive, between txAboutToBegin and txAboutToEnd
  pending,     \* m_pttPendingSource is not empty
  ackTimer,    \* m_pttAckTimeout runs
  advance,     \* advanceToTransmittingIfReady is posted
  settling,    \* 30 ms single-shots outstanding
  readyShots,  \* READY single-shots outstanding
  wire,        \* the interlock state broadcast last
  granted,     \* the last step emitted interlockGranted
  request      \* history: what became of the last request for the amplifiers

ampVars == <<listening, status, acked, txActive, pending, ackTimer, advance,
             settling, readyShots, wire, granted, request>>

\* gone: not connected; client: no interlock; joined: interlock enabled;
\* left: interlock disabled.
ClientStatus == {"gone", "client", "joined", "left"}
WireState == {"READY", "PTT_REQUESTED", "TRANSMITTING", "UNKEY_REQUESTED"}
\* open: amplifiers are asked; cut: the server was stopped before the grant.
RequestState == {"none", "open", "granted", "cut"}

\* Types of the listener's members; the single-shots of broadcastTransmitting
\* and broadcastUnkeySequence are counted, each elapses once.
TypeOK ==
  /\ listening \in BOOLEAN
  /\ status \in [Amps -> ClientStatus]
  /\ acked \subseteq Amps
  /\ txActive \in BOOLEAN
  /\ pending \in BOOLEAN
  /\ ackTimer \in BOOLEAN
  /\ advance \in BOOLEAN
  /\ settling \in Nat
  /\ readyShots \in Nat
  /\ wire \in WireState
  /\ granted \in BOOLEAN
  /\ request \in RequestState

Init ==
  /\ listening = TRUE
  /\ status = [a \in Amps |-> "gone"]
  /\ acked = {}
  /\ txActive = FALSE
  /\ pending = FALSE
  /\ ackTimer = FALSE
  /\ advance = FALSE
  /\ settling = 0
  /\ readyShots = 0
  /\ wire = "READY"
  /\ granted = FALSE
  /\ request = "none"

Clients == {a \in Amps : status[a] # "gone"}
Joined  == {a \in Amps : status[a] = "joined"}  \* hasInterlockedAmp: # {}

Grant == granted' = TRUE /\ request' = "granted"
Quiet == granted' = FALSE /\ UNCHANGED request

(***************************************************************************)
(* setInterlockTransmitting(true), called on txAboutToBegin after          *)
(* setTxActive(true).  The request leaves m_pttPendingSource set even when *)
(* no amplifier has joined and it is granted at once.                      *)
(***************************************************************************)

\* Nobody is connected.
RequestAlone ==
  /\ Clients = {}
  /\ Grant
  /\ UNCHANGED <<acked, pending, ackTimer, advance, readyShots, wire>>

\* Clients are connected, none has joined.
RequestUnlinked ==
  /\ Clients # {} /\ Joined = {}
  /\ pending' = TRUE
  /\ wire' = "TRANSMITTING"
  /\ Grant
  /\ UNCHANGED <<acked, ackTimer, advance, readyShots>>

\* An acknowledgement younger than 500 ms counts for this request.  The ages
\* are abstracted: any of the old acknowledgements may be kept.
RequestHandshake ==
  /\ Joined # {}
  /\ \E stale \in SUBSET (acked \cap Joined) : acked' = acked \ stale
  /\ pending' = TRUE
  /\ ackTimer' = TRUE
  /\ advance' = TRUE
  /\ wire' = "PTT_REQUESTED"
  /\ granted' = FALSE /\ request' = "open"
  /\ UNCHANGED readyShots

Request ==
  /\ ~txActive
  /\ settling + readyShots < MaxShots
  /\ txActive' = TRUE
  /\ RequestAlone \/ RequestUnlinked \/ RequestHandshake
  /\ UNCHANGED <<listening, status, settling>>

\* Mutant: the acknowledgement timer is not stopped.
MutReleaseKeepsTimer ==
  /\ txActive
  /\ txActive' = FALSE
  /\ pending' = FALSE
  /\ wire' = "UNKEY_REQUESTED"
  /\ readyShots' = readyShots + 1
  /\ Quiet
  /\ UNCHANGED <<listening, status, acked, ackTimer, advance, settling>>

\* setInterlockTransmitting(false), called on txAboutToEnd after
\* setTxActive(false).  Without clients it returns before it clears anything.
Release ==
  /\ txActive
  /\ txActive' = FALSE
  /\ \/ /\ Clients = {}
        /\ UNCHANGED <<pending, ackTimer, readyShots, wire>>
     \/ /\ Clients # {}
        /\ pending' = FALSE
        /\ ackTimer' = FALSE
        /\ readyShots' = readyShots + 1
        /\ wire' = "UNKEY_REQUESTED"
  /\ Quiet
  /\ UNCHANGED <<listening, status, acked, advance, settling>>

(***************************************************************************)
(* The handshake.                                                          *)
(***************************************************************************)

\* Mutant: the 30 ms single-shot is not started.
MutNoSettle ==
  /\ pending' = FALSE
  /\ ackTimer' = FALSE
  /\ UNCHANGED settling

\* Both ends of the wait capture the source, clear it and start the settle.
StartSettle ==
  /\ pending' = FALSE
  /\ ackTimer' = FALSE
  /\ settling' = settling + 1

\* Mutant: the timer is stopped before the acknowledgements are counted.
MutAdvanceStopsTimer ==
  /\ advance
  /\ advance' = FALSE
  /\ ackTimer' = (ackTimer /\ ~pending)
  /\ IF pending /\ Joined # {} /\ Joined \subseteq acked
     THEN pending' = FALSE /\ settling' = settling + 1
     ELSE UNCHANGED <<pending, settling>>
  /\ Quiet
  /\ UNCHANGED <<listening, status, acked, txActive, readyShots, wire>>

\* advanceToTransmittingIfReady.
Advance ==
  /\ advance
  /\ advance' = FALSE
  /\ IF pending /\ Joined # {} /\ Joined \subseteq acked
     THEN StartSettle
     ELSE UNCHANGED <<pending, ackTimer, settling>>
  /\ Quiet
  /\ UNCHANGED <<listening, status, acked, txActive, readyShots, wire>>

\* onPttAckTimeout: whoever has not answered is granted anyway and marked as
\* if it had.  The mark keeps its old time stamp, so the next request may wipe
\* it, unless the amplifier has left the interlock until then.
AckTimeout ==
  /\ ackTimer
  /\ IF pending
     THEN StartSettle /\ acked' = acked \cup Joined
     ELSE ackTimer' = FALSE /\ UNCHANGED <<pending, settling, acked>>
  /\ Quiet
  /\ UNCHANGED <<listening, status, txActive, advance, readyShots, wire>>

\* Mutant: TRANSMITTING also broadcast by a shot that was never started.
MutUnguardedBroadcast ==
  /\ settling' = settling - 1
  /\ wire' = "TRANSMITTING"
  /\ Grant
  /\ UNCHANGED <<listening, status, acked, txActive, pending, ackTimer, advance,
                 readyShots>>

\* broadcastTransmitting, from the single-shot.
BroadcastTransmitting ==
  /\ settling > 0
  /\ settling' = settling - 1
  /\ wire' = "TRANSMITTING"
  /\ Grant
  /\ UNCHANGED <<listening, status, acked, txActive, pending, ackTimer, advance,
                 readyShots>>

\* The two READY frames, 2 and 3 ms after UNKEY_REQUESTED, are one step.
BroadcastReady ==
  /\ readyShots > 0
  /\ readyShots' = readyShots - 1
  /\ wire' = "READY"
  /\ Quiet
  /\ UNCHANGED <<listening, status, acked, txActive, pending, ackTimer, advance,
                 settling>>

(***************************************************************************)
(* The clients.                                                            *)
(***************************************************************************)

ClientStep ==
  /\ Quiet
  /\ UNCHANGED <<listening, txActive, pending, ackTimer, settling, readyShots,
                 wire>>

Connect(a) ==
  /\ listening
  /\ status[a] = "gone"
  /\ status' = [status EXCEPT ![a] = "client"]
  /\ UNCHANGED <<acked, advance>>
  /\ ClientStep

InterlockCreate(a) ==
  /\ status[a] = "client"
  /\ status' = [status EXCEPT ![a] = "joined"]
  /\ UNCHANGED <<acked, advance>>
  /\ ClientStep

InterlockReady(a) ==
  /\ status[a] # "gone"
  /\ acked' = acked \cup {a}
  /\ advance' = TRUE
  /\ UNCHANGED status
  /\ ClientStep

InterlockEnable(a) ==
  /\ status[a] = "left"
  /\ status' = [status EXCEPT ![a] = "joined"]
  /\ UNCHANGED <<acked, advance>>
  /\ ClientStep

InterlockDisable(a) ==
  /\ status[a] = "joined"
  /\ status' = [status EXCEPT ![a] = "left"]
  /\ advance' = (advance \/ pending)
  /\ UNCHANGED acked
  /\ ClientStep

\* A disconnect does not look at the wait it may have ended.
OnClientDisconnected(a) ==
  /\ status[a] # "gone"
  /\ status' = [status EXCEPT ![a] = "gone"]
  /\ acked' = acked \ {a}
  /\ UNCHANGED advance
  /\ ClientStep

\* stop(): the single-shots and the pending source survive it.
Stop ==
  /\ listening
  /\ listening' = FALSE
  /\ status' = [a \in Amps |-> "gone"]
  /\ acked' = {}
  /\ ackTimer' = FALSE
  /\ granted' = FALSE
  /\ request' = IF request = "open" THEN "cut" ELSE request
  /\ UNCHANGED <<txActive, pending, advance, settling, readyShots, wire>>

Start ==
  /\ ~listening
  /\ listening' = TRUE
  /\ Quiet
  /\ UNCHANGED <<status, acked, txActive, pending, ackTimer, advance, settling,
                 readyShots, wire>>

\* The slots of the listener's own timers.
TimerStep == Advance \/ AckTimeout \/ BroadcastTransmitting \/ BroadcastReady

ClientNext ==
  \/ \E a \in Amps :
       \/ Connect(a) \/ InterlockCreate(a) \/ InterlockReady(a)
       \/ InterlockEnable(a) \/ InterlockDisable(a) \/ OnClientDisconnected(a)
  \/ Stop
  \/ Start

Next ==
  \/ Request
  \/ Release
  \/ Advance
  \/ AckTimeout
  \/ BroadcastTransmitting
  \/ BroadcastReady
  \/ ClientNext

\* Posted calls and running timers are delivered.
Fairness ==
  /\ WF_ampVars(Advance)
  /\ WF_ampVars(AckTimeout)
  /\ WF_ampVars(BroadcastTransmitting)
  /\ WF_ampVars(BroadcastReady)

Spec == Init /\ [][Next]_ampVars
FairSpec == Spec /\ Fairness

(***************************************************************************)
(* Properties.                                                             *)
(***************************************************************************)

\* A request that waits is never forgotten: as long as the operator keeps the
\* key and the server is not stopped, the 500 ms timer runs or the relays
\* settle, whatever the amplifiers do.  A request that stop() has cut off has
\* nothing left that would answer it.
RequestNotLost ==
  txActive /\ request = "open" => ackTimer \/ settling > 0

\* The 500 ms timer never outlives its wait: whichever of acknowledgement,
\* timeout and un-key ends the wait takes the timer with it, so a timeout
\* cannot start a second settle, nor cut short the wait of a later request.
TimerMeansWaiting == ackTimer => pending

\* The wait of a request ends: an amplifier that refuses, leaves, disconnects or
\* stays silent cannot leave the operator keyed without an answer.  It ends
\* with the grant, with the server or with the un-key.  A listener that blocked
\* on the timeout, as its header says, would end it by the un-key of
\* RadioModel's rollback.
RequestIsAnswered ==
  txActive /\ request = "open" ~> request # "open" \/ ~txActive

\* SmartSdrApiListener.h says interlockGranted fires exactly once after each
\* request: a transmission that has been granted is not granted again.
GrantedOnce ==
  [][granted' /\ txActive /\ txActive' => request # "granted"]_ampVars

\* SmartSdrApiListener.h says that without all acknowledgements the radio does
\* not fall through to TRANSMITTING: a settle starts only for a request that all
\* joined amplifiers have acknowledged.
SettleMeansAcked ==
  [][settling' > settling => Joined # {} /\ Joined \subseteq acked]_ampVars

\* The wire cycle READY, PTT_REQUESTED, TRANSMITTING, UNKEY_REQUESTED, READY:
\* clients are told TRANSMITTING only while the radio wants to transmit.
TransmittingMeansActive ==
  [][wire' = "TRANSMITTING" /\ wire # "TRANSMITTING" => txActive']_ampVars

\* The comment in stop() says it cancels pending interlock state: a stopped
\* server waits for no amplifier.
StopCancelsPending == ~listening => ~pending
=============================================================================
