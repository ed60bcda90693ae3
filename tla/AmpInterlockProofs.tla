------------------------ MODULE AmpInterlockProofs -------------------------
(***************************************************************************)
(* Proofs about AmpInterlock, for every set of amplifiers: the invariants  *)
(* that MCAmpInterlock checks for two.                                     *)
(***************************************************************************)
EXTENDS AmpInterlock, TLAPS

\* The inductive invariant: its three parts are inductive together.
IInv == TypeOK /\ RequestNotLost /\ TimerMeansWaiting

LEMMA InitInv == Init => IInv
<1> SUFFICES ASSUME Init PROVE IInv
  OBVIOUS
<1> USE DEF Init
<1>1. status \in [Amps -> ClientStatus] BY DEF ClientStatus
<1>2. settling \in Nat /\ readyShots \in Nat BY SMT
<1>3. TypeOK BY <1>1, <1>2, Zenon DEF TypeOK, WireState, RequestState
<1> QED BY <1>3 DEF IInv, RequestNotLost, TimerMeansWaiting

\* setInterlockTransmitting(TRUE): each of its three ways.
LEMMA RequestKeepsInv == IInv /\ Request => IInv'
<1> SUFFICES ASSUME IInv, Request PROVE IInv'
  OBVIOUS
<1> USE DEF IInv, TypeOK, RequestNotLost, TimerMeansWaiting, Request,
            ClientStatus, WireState, RequestState
<1>1. CASE RequestAlone
  BY <1>1 DEF RequestAlone, Grant
<1>2. CASE RequestUnlinked
  BY <1>2 DEF RequestUnlinked, Grant
<1>3. CASE RequestHandshake
  BY <1>3 DEF RequestHandshake
<1> QED BY <1>1, <1>2, <1>3

\* Every step keeps the invariant.
LEMMA NextInv == IInv /\ [Next]_ampVars => IInv'
<1> SUFFICES ASSUME IInv, [Next]_ampVars PROVE IInv'
  OBVIOUS
<1> USE DEF IInv
<1>1. CASE Request
  BY <1>1, RequestKeepsInv
<1>2. CASE Release
  <2>1. settling' \in Nat /\ readyShots' \in Nat
    BY <1>2, SMT DEF Release, Quiet, TypeOK
  <2>2. TypeOK'
    BY <1>2, <2>1, Zenon DEF Release, Quiet, TypeOK, WireState,
       RequestState
  <2>3. RequestNotLost'
    BY <1>2 DEF Release, Quiet, TypeOK, RequestNotLost
  <2>4. TimerMeansWaiting'
    <3>1. CASE Clients = {}
      <4>1. pending' = pending /\ ackTimer' = ackTimer
        BY <1>2, <3>1, Zenon DEF Release
      <4> QED BY <4>1 DEF TimerMeansWaiting
    <3>2. CASE Clients # {}
      BY <1>2, <3>2, Zenon DEF Release, TimerMeansWaiting
    <3> QED BY <3>1, <3>2
  <2> QED BY <2>2, <2>3, <2>4
<1>3. CASE Advance
  <2>1. settling' \in Nat /\ readyShots' \in Nat
    BY <1>3, SMT DEF Advance, StartSettle, Quiet, TypeOK
  <2>2. TypeOK'
    BY <1>3, <2>1, Zenon DEF Advance, StartSettle, Quiet, TypeOK, WireState,
       RequestState
  <2>3. RequestNotLost'
    BY <1>3 DEF Advance, StartSettle, Quiet, TypeOK, RequestNotLost
  <2>4. TimerMeansWaiting'
    BY <1>3 DEF Advance, StartSettle, Quiet, TimerMeansWaiting
  <2> QED BY <2>2, <2>3, <2>4
<1>4. CASE AckTimeout
  <2>1. settling' \in Nat /\ readyShots' \in Nat
    BY <1>4, SMT DEF AckTimeout, StartSettle, Quiet, TypeOK
  <2>2. acked' \subseteq Amps
    BY <1>4 DEF AckTimeout, StartSettle, Joined, TypeOK
  <2>3. pending' \in BOOLEAN /\ ackTimer' = FALSE
    BY <1>4 DEF AckTimeout, StartSettle, TypeOK
  <2>4. TypeOK'
    BY <1>4, <2>1, <2>2, <2>3 DEF AckTimeout, Quiet, TypeOK
  <2>5. settling' > 0
    BY <1>4 DEF AckTimeout, StartSettle, TypeOK, TimerMeansWaiting
  <2> QED BY <2>3, <2>4, <2>5 DEF RequestNotLost, TimerMeansWaiting
<1>5. CASE BroadcastTransmitting
  <2>1. settling' \in Nat /\ readyShots' \in Nat
    BY <1>5, SMT DEF BroadcastTransmitting, Grant, TypeOK
  <2>2. TypeOK'
    BY <1>5, <2>1, Zenon DEF BroadcastTransmitting, Grant, TypeOK, WireState,
       RequestState
  <2>3. RequestNotLost'
    BY <1>5 DEF BroadcastTransmitting, Grant, TypeOK, RequestNotLost
  <2>4. TimerMeansWaiting'
    BY <1>5 DEF BroadcastTransmitting, Grant, TimerMeansWaiting
  <2> QED BY <2>2, <2>3, <2>4
<1>6. CASE BroadcastReady
  <2>1. settling' \in Nat /\ readyShots' \in Nat
    BY <1>6, SMT DEF BroadcastReady, Quiet, TypeOK
  <2>2. TypeOK'
    BY <1>6, <2>1, Zenon DEF BroadcastReady, Quiet, TypeOK, WireState,
       RequestState
  <2>3. RequestNotLost'
    BY <1>6 DEF BroadcastReady, Quiet, TypeOK, RequestNotLost
  <2>4. TimerMeansWaiting'
    BY <1>6 DEF BroadcastReady, Quiet, TimerMeansWaiting
  <2> QED BY <2>2, <2>3, <2>4
<1>7. ASSUME NEW a \in Amps, Connect(a) PROVE IInv'
  BY <1>7 DEF Connect, ClientStep, Quiet, TypeOK, RequestNotLost,
     TimerMeansWaiting, ClientStatus, RequestState
<1>8. ASSUME NEW a \in Amps, InterlockCreate(a) PROVE IInv'
  BY <1>8 DEF InterlockCreate, ClientStep, Quiet, TypeOK, RequestNotLost,
     TimerMeansWaiting, ClientStatus, RequestState
<1>9. ASSUME NEW a \in Amps, InterlockReady(a) PROVE IInv'
  BY <1>9 DEF InterlockReady, ClientStep, Quiet, TypeOK, RequestNotLost,
     TimerMeansWaiting, ClientStatus, RequestState
<1>10. ASSUME NEW a \in Amps, InterlockEnable(a) PROVE IInv'
  BY <1>10 DEF InterlockEnable, ClientStep, Quiet, TypeOK, RequestNotLost,
     TimerMeansWaiting, ClientStatus, RequestState
<1>11. ASSUME NEW a \in Amps, InterlockDisable(a) PROVE IInv'
  BY <1>11 DEF InterlockDisable, ClientStep, Quiet, TypeOK, RequestNotLost,
     TimerMeansWaiting, ClientStatus, RequestState
<1>12. ASSUME NEW a \in Amps, OnClientDisconnected(a) PROVE IInv'
  BY <1>12 DEF OnClientDisconnected, ClientStep, Quiet, TypeOK, RequestNotLost,
     TimerMeansWaiting, ClientStatus, RequestState
<1>13. CASE Stop
  BY <1>13 DEF Stop, Quiet, TypeOK, RequestNotLost, TimerMeansWaiting,
               ClientStatus, RequestState
<1>14. CASE Start
  BY <1>14 DEF Start, Quiet, TypeOK, RequestNotLost, TimerMeansWaiting,
               ClientStatus, RequestState
<1>15. CASE UNCHANGED ampVars
  BY <1>15 DEF ampVars, TypeOK, RequestNotLost, TimerMeansWaiting, ClientStatus,
     RequestState
<1> QED
  BY <1>1, <1>2, <1>3, <1>4, <1>5, <1>6, <1>7, <1>8, <1>9, <1>10, <1>11, <1>12,
     <1>13, <1>14, <1>15 DEF Next, ClientNext

LEMMA InvHolds == Spec => []IInv
BY InitInv, NextInv, PTL DEF Spec

\* The listener's members keep their types; the counts of outstanding
\* single-shots never go below zero, since a shot that elapses was started.
THEOREM TypeCorrect == Spec => []TypeOK
<1>1. IInv => TypeOK BY DEF IInv
<1> QED BY <1>1, InvHolds, PTL

\* A request that waits always has its timer running or its settle outstanding,
\* until the operator un-keys or the server is stopped.
THEOREM RequestNeverLost == Spec => []RequestNotLost
<1>1. IInv => RequestNotLost BY DEF IInv
<1> QED BY <1>1, InvHolds, PTL

\* The acknowledgement timer runs only beside a pending request.
THEOREM TimerOnlyWhileWaiting == Spec => []TimerMeansWaiting
<1>1. IInv => TimerMeansWaiting BY DEF IInv
<1> QED BY <1>1, InvHolds, PTL
=============================================================================
