--------------------------- MODULE TxSliceProofs ---------------------------
(***************************************************************************)
(* The transmitter's slice and what the radio is told of it, for every     *)
(* number of slices, queue length and number of lost datagrams.            *)
(*                                                                         *)
(* Nothing of what has settled is true while events and calls are under    *)
(* way.  The invariant says instead where the truth is on its way: the     *)
(* flips alternate and end in mox, the receivers are those of the flips    *)
(* worked off (Keyed), the newest call of either kind carries what the     *)
(* connection will be told, and a radio that still transmits after the     *)
(* un-key has missed as many datagrams as the grace window has spent.      *)
(*                                                                         *)
(* The controller's own invariant is taken over from MoxControllerProofs.  *)
(***************************************************************************)
EXTENDS TxSlice, SequenceTheorems, FiniteSetTheorems, TLAPS

MoxPart == INSTANCE MoxControllerProofs WITH PttKeys <- {}

(***************************************************************************)
(* Numbers and lists.                                                      *)
(***************************************************************************)

LEMMA Smallest ==
  ASSUME NEW S \in SUBSET Nat, S # {}
  PROVE  \E x \in S : \A y \in S : x <= y
<1> DEFINE R == {ss \in Nat \X Nat : ss[1] < ss[2]}
<1>1. IsWellFoundedOn(R, Nat)
  BY NatLessThanWellFounded, Zenon DEF OpToRel
<1> HIDE DEF R
<1>2. \E x \in S : \A y \in S : ~(<<y, x>> \in R)
  <2>1. S \subseteq Nat
    OBVIOUS
  <2> QED BY <1>1, <2>1, WFMin, Zenon
<1>3. \A x, y \in S : ~(<<y, x>> \in R) => x <= y
  BY SMT DEF R
<1> QED BY <1>2, <1>3

DistinctIn(list) == \A i, j \in DOMAIN list : list[i] = list[j] => i = j

\* A list without repetitions has as many elements as places.
LEMMA CountOfDistinct ==
  ASSUME NEW list \in Seq(SliceIds), DistinctIn(list)
  PROVE  /\ IsFiniteSet(ToSet(list))
         /\ Cardinality(ToSet(list)) = Len(list)
<1> DEFINE D == 1 .. Len(list)
<1>1. Len(list) \in Nat /\ DOMAIN list = D /\ list \in [D -> ToSet(list)]
  BY DEF ToSet
<1>2. list \in Bijection(D, ToSet(list))
  BY <1>1 DEF Bijection, Injection, Surjection, IsInjective, DistinctIn, ToSet
<1>3. IsFiniteSet(D) /\ Cardinality(D) = Len(list)
  <2>1. 1 \in Int /\ Len(list) \in Int
    BY <1>1
  <2>2. IsFiniteSet(D) /\ Cardinality(D) =
          IF 1 > Len(list) THEN 0 ELSE Len(list) - 1 + 1
    BY <2>1, FS_Interval
  <2> QED BY <1>1, <2>2
<1> HIDE DEF D
<1>4. ExistsBijection(D, ToSet(list))
  BY <1>2 DEF ExistsBijection
<1> QED BY <1>3, <1>4, FS_Bijection

(***************************************************************************)
(* The queue of calls.                                                     *)
(***************************************************************************)

Pending(q, op) == {i \in DOMAIN q : q[i].op = op}

\* The last call of its kind.
Newest(q, op, i) == i \in Pending(q, op) /\ \A j \in Pending(q, op) : j <= i

LEMMA CallKinds ==
  ASSUME NEW c \in Calls
  PROVE  \/ c.op = "setMox" /\ c.on \in BOOLEAN
         \/ c.op = "setTxFrequency" /\ c.slice \in SliceIds
BY DEF Calls, MoxCall, TxCall

LEMMA PendingFinite ==
  ASSUME NEW q \in Seq(Calls), NEW op
  PROVE  /\ Pending(q, op) \subseteq 1 .. Len(q)
         /\ IsFiniteSet(Pending(q, op))
         /\ Cardinality(Pending(q, op)) \in Nat
<1>1. Pending(q, op) \subseteq 1 .. Len(q) /\ Len(q) \in Int
  BY DEF Pending
<1>2. IsFiniteSet(1 .. Len(q))
  BY <1>1, FS_Interval
<1>3. IsFiniteSet(Pending(q, op))
  BY <1>1, <1>2, FS_Subset
<1> QED BY <1>1, <1>3, FS_CardinalityType

LEMMA PendingOfAppend ==
  ASSUME NEW q \in Seq(Calls), NEW c \in Calls, NEW op
  PROVE  /\ Pending(Append(q, c), op) =
              IF c.op = op THEN Pending(q, op) \cup {Len(q) + 1}
                           ELSE Pending(q, op)
         /\ Cardinality(Pending(Append(q, c), op)) =
              Cardinality(Pending(q, op)) + (IF c.op = op THEN 1 ELSE 0)
<1>1. /\ Len(q) \in Nat /\ Append(q, c) \in Seq(Calls)
      /\ DOMAIN Append(q, c) = 1 .. Len(q) + 1
      /\ \A i \in 1 .. Len(q) : Append(q, c)[i] = q[i]
      /\ Append(q, c)[Len(q) + 1] = c
      /\ DOMAIN q = 1 .. Len(q)
  BY AppendProperties
<1>2. Pending(Append(q, c), op) =
        IF c.op = op THEN Pending(q, op) \cup {Len(q) + 1}
                     ELSE Pending(q, op)
  BY <1>1 DEF Pending
<1>3. /\ IsFiniteSet(Pending(q, op)) /\ Len(q) + 1 \notin Pending(q, op)
      /\ Cardinality(Pending(q, op)) \in Nat
  BY <1>1, PendingFinite
<1>4. CASE c.op = op
  BY <1>2, <1>3, <1>4, FS_AddElement
<1>5. CASE c.op # op
  BY <1>2, <1>3, <1>5
<1> QED BY <1>2, <1>4, <1>5

LEMMA PendingOfTail ==
  ASSUME NEW q \in Seq(Calls), q # <<>>, NEW op
  PROVE  /\ \A i \in Pending(Tail(q), op) : i + 1 \in Pending(q, op)
         /\ \A i \in Pending(q, op) : i # 1 => i - 1 \in Pending(Tail(q), op)
         /\ 1 \in Pending(q, op) <=> Head(q).op = op
         /\ Cardinality(Pending(Tail(q), op)) =
              Cardinality(Pending(q, op)) - (IF Head(q).op = op THEN 1 ELSE 0)
<1> DEFINE P == Pending(q, op)
           T == Pending(Tail(q), op)
           f == [i \in T |-> i + 1]
<1>1. /\ Len(q) \in Nat \ {0} /\ Tail(q) \in Seq(Calls)
      /\ Len(Tail(q)) = Len(q) - 1
      /\ \A i \in 1 .. Len(Tail(q)) : Tail(q)[i] = q[i + 1]
      /\ Head(q) = q[1]
      /\ DOMAIN q = 1 .. Len(q) /\ DOMAIN Tail(q) = 1 .. Len(Tail(q))
  BY HeadTailProperties
<1>2. \A i \in T : i \in Nat /\ i + 1 \in P /\ i + 1 # 1
  BY <1>1 DEF Pending
<1>3. \A i \in P : i \in Nat /\ (i # 1 => i - 1 \in T)
  BY <1>1 DEF Pending
<1>4. 1 \in P <=> Head(q).op = op
  BY <1>1 DEF Pending
<1> HIDE DEF P, T
<1>5. ExistsBijection(T, P \ {1})
  <2>1. f \in [T -> P \ {1}]
    BY <1>2
  <2>2. \A a, b \in T : f[a] = f[b] => a = b
    BY <1>2
  <2>3. \A b \in P \ {1} : \E a \in T : f[a] = b
    <3>1. TAKE b \in P \ {1}
    <3>2. b - 1 \in T /\ b \in Nat
      BY <1>3
    <3>3. f[b - 1] = b
      BY <3>2
    <3> QED BY <3>2, <3>3
  <2> HIDE DEF f
  <2>4. f \in Bijection(T, P \ {1})
    BY <2>1, <2>2, <2>3 DEF Bijection, Injection, Surjection, IsInjective
  <2> QED BY <2>4 DEF ExistsBijection
<1>6. IsFiniteSet(P) /\ IsFiniteSet(T) /\ Cardinality(P) \in Nat
  BY <1>1, PendingFinite DEF P, T
<1>7. Cardinality(T) = Cardinality(P \ {1})
  BY <1>5, <1>6, FS_Bijection
<1>8. Cardinality(P \ {1}) =
        IF 1 \in P THEN Cardinality(P) - 1 ELSE Cardinality(P)
  BY <1>6, FS_RemoveElement
<1>9. Cardinality(T) =
        Cardinality(P) - (IF Head(q).op = op THEN 1 ELSE 0)
  BY <1>4, <1>6, <1>7, <1>8
<1> QED BY <1>2, <1>3, <1>4, <1>9 DEF P, T

LEMMA PendingTogether ==
  ASSUME NEW q \in Seq(Calls)
  PROVE  Len(q) = Cardinality(Pending(q, "setMox"))
                  + Cardinality(Pending(q, "setTxFrequency"))
<1> DEFINE M == Pending(q, "setMox")
           X == Pending(q, "setTxFrequency")
<1>1. Len(q) \in Nat /\ DOMAIN q = 1 .. Len(q) /\ \A i \in 1 .. Len(q) : q[i] \in Calls
  OBVIOUS
<1>2. M \cup X = 1 .. Len(q) /\ M \cap X = {}
  BY <1>1, CallKinds DEF Pending
<1> HIDE DEF M, X
<1>3. /\ IsFiniteSet(M) /\ IsFiniteSet(X)
      /\ Cardinality(M) \in Nat /\ Cardinality(X) \in Nat
  BY PendingFinite DEF M, X
<1>4. Cardinality(M \cup X) = Cardinality(M) + Cardinality(X)
  <2>1. Cardinality({}) = 0
    BY FS_EmptySet
  <2>2. Cardinality(M \cup X) =
          Cardinality(M) + Cardinality(X) - Cardinality(M \cap X)
    BY <1>3, FS_Union
  <2>3. Cardinality(M \cap X) = 0
    BY <1>2, <2>1
  <2> QED BY <1>3, <2>2, <2>3
<1>5. Cardinality(1 .. Len(q)) = Len(q)
  <2>1. 1 \in Int /\ Len(q) \in Int
    BY <1>1
  <2>2. Cardinality(1 .. Len(q)) =
          IF 1 > Len(q) THEN 0 ELSE Len(q) - 1 + 1
    BY <2>1, FS_Interval
  <2> QED BY <1>1, <2>2
<1> QED BY <1>2, <1>4, <1>5 DEF M, X

(***************************************************************************)
(* The invariant.                                                          *)
(***************************************************************************)

Types ==
  /\ slices \in Seq(SliceIds) /\ DistinctIn(slices)
  /\ flagged \subseteq SliceIds
  /\ active \subseteq SliceIds
  /\ bound \in SliceIds \cup {None}
  /\ stopped \in SliceIds \cup {None}
  /\ flips \in Seq(BOOLEAN)
  /\ calls \in Seq(Calls)
  /\ told \in [mox : BOOLEAN, tx : SliceIds \cup {None}]
  /\ radio \in [mox : BOOLEAN, tx : SliceIds \cup {None}]
  /\ grace \in 0 .. GraceBeats
  /\ lost \in 0 .. MaxLost

QueuesFit ==
  /\ Len(flips) + Cardinality(Pending(calls, "setMox")) <= MaxQueue
  /\ Cardinality(Pending(calls, "setTxFrequency")) <= MaxQueue

\* Before the first slice nothing transmits.
EmptySession == slices = <<>> => ~mox /\ flips = <<>> /\ flagged = {}

\* The flips alternate and the last one says what MOX is.
FlipsAlternate ==
  /\ \A i \in 1 .. Len(flips) - 1 : flips[i] # flips[i + 1]
  /\ flips # <<>> => flips[Len(flips)] = mox

\* What the flips worked off so far have made of the hardware.
Keyed == IF flips = <<>> THEN mox ELSE ~flips[1]

Muted ==
  /\ stopped # None <=> Keyed
  /\ flips = <<>> /\ mox => stopped = bound
  /\ Live \subseteq active \cup {stopped}

MoxOnItsWay ==
  /\ Pending(calls, "setMox") = {} => told.mox = Keyed
  /\ \A i \in DOMAIN calls :
       Newest(calls, "setMox", i) => calls[i].on = Keyed

TxOnItsWay ==
  slices # <<>> =>
    /\ Pending(calls, "setTxFrequency") = {} => told.tx = bound
    /\ \A i \in DOMAIN calls :
         Newest(calls, "setTxFrequency", i) => calls[i].slice = bound

\* No more than MaxLost datagrams are lost in a row, and the grace window sends
\* that many after the un-key.
RadioWillKnow ==
  /\ lost = 0 => radio = told
  /\ ~told.mox /\ radio.mox => lost + grace > GraceBeats

Route == FlipsAlternate /\ Muted /\ MoxOnItsWay /\ TxOnItsWay

IInv ==
  /\ MoxPart!IInv /\ Types /\ QueuesFit
  /\ OneTransmitter /\ EmptySession
  /\ Route /\ RadioWillKnow

(***************************************************************************)
(* MOX and its flips.                                                      *)
(***************************************************************************)

MoxStep == (\E on \in BOOLEAN, v \in {"ok", "rejected"} : Mox!RequestMox(on, v))
           \/ Mox!WalkStep

LEMMA MoxPartStep ==
  ASSUME MoxPart!IInv, MoxStep
  PROVE  MoxPart!IInv'
<1>1. MoxPart!IInv /\ [MoxPart!Next]_(MoxPart!vars) => MoxPart!IInv'
  BY MoxPart!NextInv DEF MoxPart!PttKeysAssumption
<1>2. ASSUME NEW on \in BOOLEAN, NEW v \in {"ok", "rejected"},
             Mox!RequestMox(on, v)
      PROVE  MoxPart!RequestMox(on, v) /\ v \in MoxPart!Verdicts
  <2>1. MoxPart!RequestMox(on, v)
    BY <1>2, Zenon DEF Mox!RequestMox, MoxPart!RequestMox, Mox!SetMox,
      MoxPart!SetMox, Mox!RefuseMox, MoxPart!RefuseMox, Mox!GrantMox,
      MoxPart!GrantMox, Mox!BeginWalk, MoxPart!BeginWalk, Mox!Emit,
      MoxPart!Emit, Mox!KeyOnSignals, MoxPart!KeyOnSignals,
      Mox!KeyOffSignals, MoxPart!KeyOffSignals
  <2> QED BY <2>1 DEF MoxPart!Verdicts
<1>3. Mox!WalkStep => \/ MoxPart!OnRfDelayElapsed
                      \/ MoxPart!OnKeyUpDelayElapsed
                      \/ MoxPart!OnPttOutElapsed
  BY Zenon DEF Mox!WalkStep, Mox!OnRfDelayElapsed, Mox!OnKeyUpDelayElapsed,
    Mox!OnPttOutElapsed, MoxPart!OnRfDelayElapsed,
    MoxPart!OnKeyUpDelayElapsed, MoxPart!OnPttOutElapsed, Mox!Emit,
    MoxPart!Emit
<1>4. MoxPart!Next
  BY <1>2, <1>3 DEF MoxStep, MoxPart!Next
<1> QED BY <1>1, <1>4

LEMMA MoxPartIdle == MoxPart!IInv /\ UNCHANGED moxVars => MoxPart!IInv'
BY DEF moxVars, MoxPart!IInv, MoxPart!TypeOK, MoxPart!WalkConsistent,
       MoxPart!LatchMeansUnkeyed

LEMMA MoxIsBoolean == MoxPart!IInv => mox \in BOOLEAN
BY DEF MoxPart!IInv, MoxPart!TypeOK

\* What a request can make of MOX.
LEMMA RequestFacts ==
  ASSUME mox \in BOOLEAN, NEW on \in BOOLEAN, NEW v \in {"ok", "rejected"},
         Mox!RequestMox(on, v)
  PROVE  /\ mox' \in BOOLEAN
         /\ mox' # mox => mox' = on
         /\ ~on => ~mox'
         /\ on /\ v = "rejected" => mox' = mox
BY Zenon DEF Mox!RequestMox, Mox!SetMox, Mox!RefuseMox, Mox!GrantMox

\* A change of MOX is posted; the hardware does not know of it yet.
LEMMA FlipEffect ==
  ASSUME flips \in Seq(BOOLEAN), mox \in BOOLEAN, mox' \in BOOLEAN,
         FlipsAlternate, mox' # mox, flips' = Append(flips, mox')
  PROVE  /\ flips' \in Seq(BOOLEAN) /\ flips' # <<>>
         /\ Len(flips') = Len(flips) + 1
         /\ FlipsAlternate'
         /\ Keyed' = Keyed
<1>1. /\ flips' \in Seq(BOOLEAN) /\ flips' # <<>>
      /\ Len(flips') = Len(flips) + 1
      /\ \A i \in 1 .. Len(flips) : flips'[i] = flips[i]
      /\ flips'[Len(flips) + 1] = mox'
      /\ Len(flips) \in Nat
  BY AppendProperties
<1>2. FlipsAlternate'
  <2>1. ASSUME NEW i \in 1 .. Len(flips') - 1
        PROVE  flips'[i] # flips'[i + 1]
    <3>1. CASE i = Len(flips)
      <4>1. flips # <<>> /\ i \in 1 .. Len(flips)
        BY <1>1, <3>1
      <4>2. flips'[i] = mox /\ flips'[i + 1] = mox'
        BY <1>1, <3>1, <4>1 DEF FlipsAlternate
      <4> QED BY <4>2
    <3>2. CASE i # Len(flips)
      <4>1. /\ i \in 1 .. Len(flips) - 1 /\ i \in 1 .. Len(flips)
            /\ i + 1 \in 1 .. Len(flips)
        BY <1>1, <3>2
      <4>2. flips[i] # flips[i + 1]
        BY <4>1 DEF FlipsAlternate
      <4> QED BY <1>1, <4>1, <4>2
    <3> QED BY <3>1, <3>2
  <2> QED BY <1>1, <2>1 DEF FlipsAlternate
<1>3. Keyed' = Keyed
  <2>1. CASE flips = <<>>
    <3>1. flips'[1] = mox'
      BY <1>1, <2>1
    <3>2. Keyed = mox /\ Keyed' = ~mox'
      BY <1>1, <2>1, <3>1 DEF Keyed
    <3> QED BY <3>2
  <2>2. CASE flips # <<>>
    <3>1. flips'[1] = flips[1]
      BY <1>1, <2>2
    <3> QED BY <1>1, <2>2, <3>1 DEF Keyed
  <2> QED BY <2>1, <2>2
<1> QED BY <1>1, <1>2, <1>3

\* The hardware follows the flip that is worked off.
LEMMA UnflipEffect ==
  ASSUME flips \in Seq(BOOLEAN), mox \in BOOLEAN, mox' = mox,
         FlipsAlternate, flips # <<>>, flips' = Tail(flips)
  PROVE  /\ flips' \in Seq(BOOLEAN)
         /\ Len(flips') = Len(flips) - 1
         /\ flips[1] \in BOOLEAN /\ Head(flips) = flips[1]
         /\ FlipsAlternate'
         /\ Keyed' = flips[1] /\ Keyed = ~flips[1]
         /\ flips' = <<>> => flips[1] = mox
<1>1. /\ flips' \in Seq(BOOLEAN) /\ Len(flips') = Len(flips) - 1
      /\ \A i \in 1 .. Len(flips') : flips'[i] = flips[i + 1]
      /\ Len(flips) \in Nat \ {0}
      /\ flips[1] \in BOOLEAN /\ Head(flips) = flips[1]
  BY HeadTailProperties
<1>2. FlipsAlternate'
  <2>1. ASSUME NEW i \in 1 .. Len(flips') - 1
        PROVE  flips'[i] # flips'[i + 1]
    <3>1. /\ i + 1 \in 1 .. Len(flips) - 1
          /\ flips'[i] = flips[i + 1] /\ flips'[i + 1] = flips[i + 1 + 1]
      BY <1>1
    <3>2. flips[i + 1] # flips[i + 1 + 1]
      BY <3>1 DEF FlipsAlternate
    <3> QED BY <3>1, <3>2
  <2>2. ASSUME flips' # <<>> PROVE flips'[Len(flips')] = mox'
    <3>1. Len(flips') \in 1 .. Len(flips') /\ Len(flips') + 1 = Len(flips)
      BY <1>1, <2>2
    <3> QED BY <1>1, <3>1 DEF FlipsAlternate
  <2> QED BY <2>1, <2>2 DEF FlipsAlternate
<1>3. Keyed = ~flips[1]
  BY <1>1 DEF Keyed
<1>4. CASE flips' = <<>>
  <2>1. Len(flips) = 1
    <3>1. Len(flips') = 0
      <4>1. Len(<<>>) = 0
        BY EmptySeq
      <4> QED BY <1>4, <4>1, Zenon
    <3>2. Len(flips') = Len(flips) - 1 /\ Len(flips) \in Nat
      BY <1>1
    <3> QED BY <3>1, <3>2
  <2>2. flips[1] = mox
    BY <2>1 DEF FlipsAlternate
  <2>3. Keyed' = flips[1]
    BY <1>4, <2>2 DEF Keyed
  <2> QED BY <1>1, <1>2, <1>3, <2>2, <2>3
<1>5. CASE flips' # <<>>
  <2>1. 1 \in 1 .. Len(flips') /\ 1 \in 1 .. Len(flips) - 1 /\ 1 + 1 \in 1 .. Len(flips)
    BY <1>1, <1>5
  <2>2. flips'[1] = flips[1 + 1] /\ flips[1] # flips[1 + 1]
    BY <1>1, <2>1 DEF FlipsAlternate
  <2>3. flips[1 + 1] \in BOOLEAN
    BY <2>1, ElementOfSeq
  <2>4. Keyed' = ~flips'[1]
    BY <1>5 DEF Keyed
  <2>5. Keyed' = flips[1]
    BY <1>1, <2>2, <2>3, <2>4
  <2> QED BY <1>1, <1>2, <1>3, <1>5, <2>5
<1> QED BY <1>4, <1>5

LEMMA PostedIsPending ==
  ASSUME Types
  PROVE  \A op : /\ Posted(op) = Cardinality(Pending(calls, op))
                 /\ Posted(op) \in Nat
<1>1. calls \in Seq(Calls)
  BY DEF Types
<1>2. ASSUME NEW op PROVE /\ Posted(op) = Cardinality(Pending(calls, op))
                          /\ Posted(op) \in Nat
  <2>1. Posted(op) = Cardinality(Pending(calls, op))
    BY DEF Posted, Pending
  <2>2. Cardinality(Pending(calls, op)) \in Nat
    BY <1>1, PendingFinite
  <2> QED BY <2>1, <2>2
<1> QED BY <1>2

\* setMox(false) of the arbiter.
LEMMA DropEffect ==
  ASSUME MoxPart!IInv, Types, QueuesFit, FlipsAlternate, DropMox
  PROVE  /\ MoxPart!IInv' /\ ~mox'
         /\ flips' \in Seq(BOOLEAN) /\ FlipsAlternate' /\ Keyed' = Keyed
         /\ \/ flips' = flips
            \/ /\ flips' # <<>> /\ Len(flips') = Len(flips) + 1
               /\ Len(flips') + Posted("setMox") <= MaxQueue
<1>1. mox \in BOOLEAN /\ flips \in Seq(BOOLEAN)
  BY MoxIsBoolean DEF Types
<1>2. CASE ~mox
  <2>1. UNCHANGED moxVars /\ flips' = flips /\ mox' = mox
    BY <1>2 DEF DropMox, moxVars
  <2>2. MoxPart!IInv'
    BY <2>1, MoxPartIdle
  <2>3. FlipsAlternate' /\ Keyed' = Keyed
    BY <2>1 DEF FlipsAlternate, Keyed
  <2> QED BY <1>1, <1>2, <2>1, <2>2, <2>3
<1>3. CASE mox
  <2>1. Mox!RequestMox(FALSE, "ok") /\ Flip(FALSE)
    BY <1>3 DEF DropMox
  <2>2. MoxPart!IInv'
    BY <2>1, MoxPartStep DEF MoxStep
  <2>3. mox' \in BOOLEAN /\ ~mox' /\ mox' = FALSE /\ mox' # mox
    <3>1. mox' \in BOOLEAN /\ ~mox'
      BY <1>1, <2>1, RequestFacts
    <3> QED BY <1>3, <3>1
  <2>4. /\ flips' = Append(flips, mox')
        /\ Len(flips) + Posted("setMox") < MaxQueue
    BY <2>1, <2>3 DEF Flip
  <2>5. /\ flips' \in Seq(BOOLEAN) /\ flips' # <<>>
        /\ Len(flips') = Len(flips) + 1 /\ FlipsAlternate' /\ Keyed' = Keyed
    BY <1>1, <2>3, <2>4, FlipEffect
  <2>6. Posted("setMox") \in Nat /\ Len(flips) \in Nat
    BY <1>1, PostedIsPending DEF Types
  <2>7. Len(flips') + Posted("setMox") <= MaxQueue
    BY <2>4, <2>5, <2>6, MaxQueueAssumption
  <2> QED BY <2>2, <2>3, <2>5, <2>7
<1> QED BY <1>1, <1>2, <1>3

(***************************************************************************)
(* What is on its way to the radio.                                        *)
(***************************************************************************)

\* A call of the other kind.
LEMMA NewestOfAppendOther ==
  ASSUME NEW q \in Seq(Calls), NEW c \in Calls, NEW op, c.op # op
  PROVE  /\ Pending(Append(q, c), op) = Pending(q, op)
         /\ \A i \in DOMAIN Append(q, c) :
              Newest(Append(q, c), op, i) =>
                /\ i \in DOMAIN q /\ Newest(q, op, i)
                /\ Append(q, c)[i] = q[i]
<1>1. Pending(Append(q, c), op) = Pending(q, op)
  BY PendingOfAppend
<1>2. /\ \A i \in 1 .. Len(q) : Append(q, c)[i] = q[i]
      /\ Pending(q, op) \subseteq 1 .. Len(q) /\ DOMAIN q = 1 .. Len(q)
  BY AppendProperties, PendingFinite
<1> QED BY <1>1, <1>2 DEF Newest

\* A call of this kind is the newest one.
LEMMA NewestOfAppend ==
  ASSUME NEW q \in Seq(Calls), NEW c \in Calls, NEW op, c.op = op
  PROVE  /\ Pending(Append(q, c), op) # {}
         /\ \A i \in DOMAIN Append(q, c) :
              Newest(Append(q, c), op, i) => Append(q, c)[i] = c
<1>1. /\ Len(q) \in Nat /\ Append(q, c)[Len(q) + 1] = c
      /\ DOMAIN Append(q, c) = 1 .. Len(q) + 1
  BY AppendProperties
<1>2. Len(q) + 1 \in Pending(Append(q, c), op)
  BY <1>1 DEF Pending
<1>3. ASSUME NEW i \in DOMAIN Append(q, c), Newest(Append(q, c), op, i)
      PROVE  i = Len(q) + 1
  BY <1>1, <1>2, <1>3 DEF Newest
<1> QED BY <1>1, <1>2, <1>3

\* What the tail still has to say, the whole queue had.
LEMMA NewestOfTail ==
  ASSUME NEW q \in Seq(Calls), q # <<>>, NEW op
  PROVE  /\ \A i \in DOMAIN Tail(q) :
              Newest(Tail(q), op, i) =>
                /\ i + 1 \in DOMAIN q /\ Newest(q, op, i + 1)
                /\ Tail(q)[i] = q[i + 1]
         /\ Pending(Tail(q), op) = {} =>
              IF Head(q).op = op THEN Newest(q, op, 1) ELSE Pending(q, op) = {}
<1>1. /\ Len(q) \in Nat \ {0} /\ Tail(q) \in Seq(Calls)
      /\ Len(Tail(q)) = Len(q) - 1
      /\ \A i \in 1 .. Len(Tail(q)) : Tail(q)[i] = q[i + 1]
      /\ DOMAIN q = 1 .. Len(q) /\ DOMAIN Tail(q) = 1 .. Len(Tail(q))
  BY HeadTailProperties
<1>2. /\ \A i \in Pending(Tail(q), op) : i + 1 \in Pending(q, op)
      /\ \A i \in Pending(q, op) : i # 1 => i - 1 \in Pending(Tail(q), op)
      /\ 1 \in Pending(q, op) <=> Head(q).op = op
      /\ Pending(q, op) \subseteq 1 .. Len(q)
  BY PendingOfTail, PendingFinite
<1>3. ASSUME NEW i \in DOMAIN Tail(q), Newest(Tail(q), op, i)
      PROVE  /\ i + 1 \in DOMAIN q /\ Newest(q, op, i + 1)
             /\ Tail(q)[i] = q[i + 1]
  <2>1. /\ i \in Pending(Tail(q), op) /\ i \in Nat /\ i >= 1
        /\ \A j \in Pending(Tail(q), op) : j <= i
    BY <1>1, <1>3 DEF Newest
  <2>2. ASSUME NEW j \in Pending(q, op) PROVE j <= i + 1
    <3>1. CASE j = 1
      BY <2>1, <3>1
    <3>2. CASE j # 1
      <4>1. j - 1 \in Pending(Tail(q), op) /\ j \in Int
        BY <1>1, <1>2, <3>2
      <4>2. j - 1 <= i
        BY <2>1, <4>1
      <4> QED BY <2>1, <4>1, <4>2
    <3> QED BY <3>1, <3>2
  <2>3. i + 1 \in Pending(q, op)
    BY <1>2, <2>1
  <2>4. Tail(q)[i] = q[i + 1] /\ i + 1 \in DOMAIN q
    BY <1>1, <1>2, <2>3
  <2> QED BY <2>2, <2>3, <2>4 DEF Newest
<1>4. ASSUME Pending(Tail(q), op) = {}
      PROVE  IF Head(q).op = op THEN Newest(q, op, 1) ELSE Pending(q, op) = {}
  <2>1. \A j \in Pending(q, op) : j = 1
    BY <1>2, <1>4
  <2> QED BY <1>2, <2>1 DEF Newest
<1> QED BY <1>3, <1>4

\* A push of the transmit frequency.
LEMMA PushEffect ==
  ASSUME Types, QueuesFit, MoxOnItsWay, NEW id \in SliceIds,
         PushTxFrequency(id), told' = told, Keyed' = Keyed
  PROVE  /\ calls' \in Seq(Calls)
         /\ Cardinality(Pending(calls', "setMox")) = Posted("setMox")
         /\ Cardinality(Pending(calls', "setTxFrequency")) <= MaxQueue
         /\ MoxOnItsWay'
         /\ Pending(calls', "setTxFrequency") # {}
         /\ \A i \in DOMAIN calls' :
              Newest(calls', "setTxFrequency", i) => calls'[i].slice = id
<1> DEFINE c == TxCall(id)
<1>1. /\ calls \in Seq(Calls) /\ calls' = Append(calls, c)
      /\ Posted("setTxFrequency") < MaxQueue
  BY DEF PushTxFrequency, Types
<1>2. c \in Calls /\ c.op = "setTxFrequency" /\ c.slice = id
  BY DEF Calls, TxCall
<1> HIDE DEF c
<1>3. calls' \in Seq(Calls)
  BY <1>1, <1>2, AppendProperties
<1>4. c.op # "setMox"
  BY <1>2
<1>5. Cardinality(Pending(calls', "setMox")) = Posted("setMox")
  <2>1. Pending(calls', "setMox") = Pending(calls, "setMox")
    BY <1>1, <1>2, <1>4, NewestOfAppendOther
  <2> QED BY <2>1, PostedIsPending
<1>6. Cardinality(Pending(calls', "setTxFrequency")) <= MaxQueue
  <2>1. Cardinality(Pending(calls', "setTxFrequency")) =
          Posted("setTxFrequency") + 1
    <3>1. Cardinality(Pending(calls', "setTxFrequency")) =
            Cardinality(Pending(calls, "setTxFrequency")) + 1
      BY <1>1, <1>2, PendingOfAppend
    <3> QED BY <3>1, PostedIsPending
  <2>2. Posted("setTxFrequency") \in Nat /\ MaxQueue \in Nat
    BY PostedIsPending, MaxQueueAssumption
  <2> QED BY <1>1, <2>1, <2>2
<1>7. MoxOnItsWay'
  <2>1. /\ Pending(calls', "setMox") = Pending(calls, "setMox")
        /\ \A i \in DOMAIN calls' :
             Newest(calls', "setMox", i) =>
               /\ i \in DOMAIN calls /\ Newest(calls, "setMox", i)
               /\ calls'[i] = calls[i]
    BY <1>1, <1>2, <1>4, NewestOfAppendOther
  <2>2. Pending(calls', "setMox") = {} => told'.mox = Keyed'
    BY <2>1 DEF MoxOnItsWay
  <2>3. ASSUME NEW i \in DOMAIN calls', Newest(calls', "setMox", i)
        PROVE  calls'[i].on = Keyed'
    <3>1. /\ i \in DOMAIN calls /\ Newest(calls, "setMox", i)
          /\ calls'[i] = calls[i]
      BY <2>1, <2>3
    <3>2. calls[i].on = Keyed
      BY <3>1 DEF MoxOnItsWay
    <3> QED BY <3>1, <3>2
  <2> QED BY <2>2, <2>3 DEF MoxOnItsWay
<1>8. /\ Pending(calls', "setTxFrequency") # {}
      /\ \A i \in DOMAIN calls' :
           Newest(calls', "setTxFrequency", i) => calls'[i].slice = id
  BY <1>1, <1>2, NewestOfAppend
<1> QED BY <1>3, <1>5, <1>6, <1>7, <1>8

(***************************************************************************)
(* The slice list.                                                         *)
(***************************************************************************)

LEMMA ElementsOfAppend ==
  ASSUME NEW list \in Seq(SliceIds), DistinctIn(list),
         NEW id \in SliceIds \ ToSet(list)
  PROVE  /\ Append(list, id) \in Seq(SliceIds) /\ Append(list, id) # <<>>
         /\ DistinctIn(Append(list, id))
         /\ ToSet(Append(list, id)) = ToSet(list) \cup {id}
<1>1. /\ Append(list, id) \in Seq(SliceIds) /\ Append(list, id) # <<>>
      /\ \A i \in 1 .. Len(list) : Append(list, id)[i] = list[i]
      /\ Append(list, id)[Len(list) + 1] = id
      /\ Len(list) \in Nat
      /\ DOMAIN list = 1 .. Len(list)
      /\ DOMAIN Append(list, id) = 1 .. Len(list) + 1
  BY AppendProperties
<1>2. \A i \in 1 .. Len(list) : list[i] # id
  BY <1>1 DEF ToSet
<1>3. DistinctIn(Append(list, id))
  BY <1>1, <1>2 DEF DistinctIn
<1>4. ToSet(Append(list, id)) = ToSet(list) \cup {id}
  BY <1>1 DEF ToSet
<1> QED BY <1>1, <1>3, <1>4

LEMMA ElementsOfRemove ==
  ASSUME NEW list \in Seq(SliceIds), DistinctIn(list), NEW p \in DOMAIN list
  PROVE  /\ RemoveAt(list, p) \in Seq(SliceIds)
         /\ Len(RemoveAt(list, p)) = Len(list) - 1
         /\ DistinctIn(RemoveAt(list, p))
         /\ ToSet(RemoveAt(list, p)) = ToSet(list) \ {list[p]}
<1> DEFINE before == SubSeq(list, 1, p - 1)
           after  == SubSeq(list, p + 1, Len(list))
           rest   == before \o after
           n      == Len(list)
<1>1. /\ n \in Nat \ {0} /\ p \in 1 .. n /\ p \in Int
      /\ DOMAIN list = 1 .. n
      /\ \A i \in 1 .. n : list[i] \in SliceIds
  OBVIOUS
<1>2. /\ before \in Seq(SliceIds) /\ Len(before) = p - 1
      /\ \A i \in 1 .. p - 1 : before[i] = list[i]
  <2>1. \A i \in 1 .. p - 1 : list[i] \in SliceIds
    BY <1>1
  <2>2. 1 \in Int /\ p - 1 \in Int
    BY <1>1
  <2>3. /\ before \in Seq(SliceIds)
        /\ Len(before) = IF 1 <= p - 1 THEN (p - 1) - 1 + 1 ELSE 0
        /\ \A i \in 1 .. (p - 1) - 1 + 1 : before[i] = list[1 + i - 1]
    BY <2>1, <2>2, SubSeqProperties
  <2> HIDE DEF before
  <2>4. Len(before) = p - 1
    BY <1>1, <2>3
  <2>5. \A i \in 1 .. p - 1 : i \in 1 .. (p - 1) - 1 + 1 /\ 1 + i - 1 = i
    BY <1>1
  <2>6. \A i \in 1 .. p - 1 : before[i] = list[i]
    BY <2>3, <2>5
  <2> QED BY <2>3, <2>4, <2>6
<1>3. /\ after \in Seq(SliceIds) /\ Len(after) = n - p
      /\ \A i \in 1 .. n - p : after[i] = list[p + i]
  <2>1. \A i \in p + 1 .. n : list[i] \in SliceIds
    BY <1>1
  <2>2. p + 1 \in Int /\ n \in Int
    BY <1>1
  <2>3. /\ after \in Seq(SliceIds)
        /\ Len(after) = IF p + 1 <= n THEN n - (p + 1) + 1 ELSE 0
        /\ \A i \in 1 .. n - (p + 1) + 1 : after[i] = list[p + 1 + i - 1]
    BY <2>1, <2>2, SubSeqProperties
  <2> HIDE DEF after, n
  <2>4. Len(after) = n - p
    BY <1>1, <2>3
  <2>5. \A i \in 1 .. n - p : i \in 1 .. n - (p + 1) + 1 /\ p + 1 + i - 1 = p + i
    BY <1>1
  <2>6. \A i \in 1 .. n - p : after[i] = list[p + i]
    BY <2>3, <2>5
  <2> QED BY <2>3, <2>4, <2>6
<1> HIDE DEF before, after
<1>4. /\ rest \in Seq(SliceIds) /\ Len(rest) = Len(before) + Len(after)
      /\ \A i \in 1 .. Len(before) + Len(after) :
           rest[i] = IF i <= Len(before) THEN before[i]
                     ELSE after[i - Len(before)]
  BY <1>2, <1>3, ConcatProperties
<1> HIDE DEF rest, n
<1>5. /\ Len(rest) = n - 1 /\ DOMAIN rest = 1 .. n - 1
      /\ \A i \in 1 .. n - 1 : rest[i] = IF i < p THEN list[i] ELSE list[i + 1]
  <2>1. Len(rest) = n - 1
    BY <1>1, <1>2, <1>3, <1>4
  <2>2. DOMAIN rest = 1 .. n - 1
    BY <1>4, <2>1
  <2>3. ASSUME NEW i \in 1 .. n - 1
        PROVE  rest[i] = IF i < p THEN list[i] ELSE list[i + 1]
    <3>1. i \in 1 .. Len(before) + Len(after)
      BY <1>1, <1>2, <1>3
    <3>2. CASE i < p
      <4>1. i <= Len(before) /\ i \in 1 .. p - 1
        BY <1>1, <1>2, <3>2
      <4> QED BY <1>2, <1>4, <3>1, <3>2, <4>1
    <3>3. CASE ~(i < p)
      <4>1. /\ ~(i <= Len(before)) /\ i - Len(before) \in 1 .. n - p
            /\ p + (i - Len(before)) = i + 1
        BY <1>1, <1>2, <3>3
      <4>2. rest[i] = after[i - Len(before)]
        BY <1>4, <3>1, <4>1
      <4>3. after[i - Len(before)] = list[p + (i - Len(before))]
        BY <1>3, <4>1
      <4> QED BY <3>3, <4>1, <4>2, <4>3
    <3> QED BY <3>2, <3>3
  <2> QED BY <2>1, <2>2, <2>3
<1>6. DistinctIn(rest)
  <2> SUFFICES ASSUME NEW i \in 1 .. n - 1, NEW j \in 1 .. n - 1,
                      rest[i] = rest[j]
               PROVE  i = j
    BY <1>5 DEF DistinctIn
  <2> DEFINE a == IF i < p THEN i ELSE i + 1
             b == IF j < p THEN j ELSE j + 1
  <2>1. a \in 1 .. n /\ b \in 1 .. n
    BY <1>1
  <2>2. rest[i] = list[a] /\ rest[j] = list[b]
    BY <1>5
  <2>3. a = b
    BY <1>1, <2>1, <2>2 DEF DistinctIn
  <2> QED BY <1>1, <2>3
<1>7. ToSet(rest) = ToSet(list) \ {list[p]}
  <2>1. ASSUME NEW i \in 1 .. n - 1
        PROVE  rest[i] \in ToSet(list) \ {list[p]}
    <3> DEFINE a == IF i < p THEN i ELSE i + 1
    <3>1. a \in 1 .. n /\ a # p
      BY <1>1
    <3>2. rest[i] = list[a]
      BY <1>5
    <3>3. list[a] # list[p]
      BY <1>1, <3>1 DEF DistinctIn
    <3> QED BY <1>1, <3>1, <3>2, <3>3 DEF ToSet
  <2>2. ASSUME NEW k \in 1 .. n, list[k] # list[p]
        PROVE  \E i \in 1 .. n - 1 : rest[i] = list[k]
    <3>1. CASE k < p
      <4>1. k \in 1 .. n - 1
        BY <1>1, <3>1
      <4> QED BY <1>5, <3>1, <4>1
    <3>2. CASE k > p
      <4>1. k - 1 \in 1 .. n - 1 /\ ~(k - 1 < p) /\ k - 1 + 1 = k
        BY <1>1, <3>2
      <4> QED BY <1>5, <4>1
    <3>3. CASE k = p
      BY <2>2, <3>3
    <3> QED BY <1>1, <3>1, <3>2, <3>3
  <2>3. /\ ToSet(rest) = {rest[i] : i \in 1 .. n - 1}
        /\ ToSet(list) = {list[k] : k \in 1 .. n}
    BY <1>1, <1>5 DEF ToSet
  <2>4. ToSet(rest) \subseteq ToSet(list) \ {list[p]}
    BY <2>1, <2>3
  <2>5. ToSet(list) \ {list[p]} \subseteq ToSet(rest)
    BY <2>2, <2>3
  <2> QED BY <2>4, <2>5
<1>8. RemoveAt(list, p) = rest
  BY DEF RemoveAt, rest, before, after
<1> QED BY <1>4, <1>5, <1>6, <1>7, <1>8 DEF n

\* A list that is not full leaves an id, and LowestFree is one of those.
LEMMA LowestFreeIsFree ==
  ASSUME slices \in Seq(SliceIds), DistinctIn(slices), Len(slices) < MaxSlices
  PROVE  LowestFree \in SliceIds \ Live
<1>1. MaxSlices \in Nat /\ SliceIds \subseteq Nat
  BY MaxSlicesAssumption DEF SliceIds
<1>2. IsFiniteSet(SliceIds) /\ Cardinality(SliceIds) = MaxSlices
  <2>1. 0 \in Int /\ MaxSlices - 1 \in Int
    BY <1>1
  <2>2. IsFiniteSet(0 .. MaxSlices - 1)
        /\ Cardinality(0 .. MaxSlices - 1) =
             IF 0 > MaxSlices - 1 THEN 0 ELSE MaxSlices - 1 - 0 + 1
    BY <2>1, FS_Interval
  <2> QED BY <1>1, <2>2, MaxSlicesAssumption DEF SliceIds
<1>3. Cardinality(Live) = Len(slices)
  BY CountOfDistinct DEF Live
<1>4. Live \subseteq SliceIds
  BY DEF Live, ToSet
<1> DEFINE free == SliceIds \ Live
<1>5. free # {}
  <2>1. ASSUME free = {} PROVE FALSE
    <3>1. Live = SliceIds
      BY <1>4, <2>1
    <3>2. Len(slices) = MaxSlices /\ Len(slices) \in Int
      BY <1>2, <1>3, <3>1
    <3> QED BY <1>1, <3>2
  <2> QED BY <2>1
<1>6. \E x \in free : \A y \in free : x <= y
  <2>1. free \in SUBSET Nat
    BY <1>1
  <2> HIDE DEF free
  <2> QED BY <1>5, <2>1, Smallest
<1> QED BY <1>6 DEF LowestFree

(***************************************************************************)
(* The arbiter.                                                            *)
(***************************************************************************)

\* A list that has the flagged slice keeps it.
LEMMA SyncKeeps ==
  ASSUME NEW list \in Seq(SliceIds), DistinctIn(list), NEW restored,
         SyncTo(list, restored), bound \in ToSet(list), flagged = {bound}
  PROVE  StayPut
<1> DEFINE marked == ToSet(list) \cap flagged
           first  == CHOOSE i \in DOMAIN list :
                       /\ list[i] \in marked
                       /\ \A j \in 1 .. i - 1 : list[j] \notin marked
           keep   == IF restored \in marked THEN restored ELSE list[first]
<1>1. marked = {bound} /\ list # <<>>
  BY DEF ToSet
<1>2. PICK p \in DOMAIN list : list[p] = bound
  BY DEF ToSet
<1>3. \A j \in 1 .. p - 1 : list[j] \notin marked
  <2>1. TAKE j \in 1 .. p - 1
  <2>2. p \in 1 .. Len(list) /\ Len(list) \in Nat
    OBVIOUS
  <2>3. j \in DOMAIN list /\ j # p
    BY <2>2
  <2>4. list[j] # bound
    BY <1>2, <2>3 DEF DistinctIn
  <2> HIDE DEF marked
  <2> QED BY <1>1, <2>4
<1>4. list[first] \in marked
  <2> HIDE DEF marked
  <2>1. \E i \in DOMAIN list : /\ list[i] \in marked
                               /\ \A j \in 1 .. i - 1 : list[j] \notin marked
    BY <1>1, <1>2, <1>3
  <2> QED BY <2>1
<1>5. keep = bound
  <2> HIDE DEF marked, first
  <2> QED BY <1>1, <1>4
<1>6. /\ flagged' = {keep} /\ bound' = keep
      /\ UNCHANGED <<moxVars, flips, calls>>
  BY <1>1 DEF SyncTo
<1> QED BY <1>5, <1>6 DEF StayPut

\* A list without a flagged slice gets one.
LEMMA SyncBinds ==
  ASSUME NEW list \in Seq(SliceIds), list # <<>>, NEW restored,
         SyncTo(list, restored), flagged = {}
  PROVE  \E id \in ToSet(list) : MoveTo(id)
<1>1. ToSet(list) \cap flagged = {}
  OBVIOUS
<1>2. MoveTo(IF restored \in ToSet(list) THEN restored ELSE list[1])
  BY <1>1 DEF SyncTo
<1>3. list[1] \in ToSet(list)
  <2>1. 1 \in DOMAIN list
    BY EmptySeq
  <2> QED BY <2>1 DEF ToSet
<1> QED BY <1>2, <1>3

\* What the operations on slices do: the list stays a list of distinct ids, no
\* receiver of a live slice is lost, and the transmitter stays where it is, moves
\* to a live slice, or there is no slice yet.
ListKept ==
  /\ slices' \in Seq(SliceIds) /\ DistinctIn(slices')
  /\ slices # <<>> => slices' # <<>>
  /\ active' \subseteq SliceIds
  /\ Live' \subseteq active' \cup {stopped'}
  /\ UNCHANGED <<stopped, wireVars>>

Stays == StayPut /\ (slices' # <<>> => slices # <<>> /\ bound \in Live')
Moves == \E id \in Live' : slices' # <<>> /\ MoveTo(id)
Unborn ==
  /\ slices = <<>> /\ slices' = <<>>
  /\ UNCHANGED <<moxVars, flips>>
  /\ flagged' = {}
  /\ bound' \in SliceIds \cup {None}
  /\ \/ UNCHANGED calls
     \/ bound' \in SliceIds /\ PushTxFrequency(bound')

ListStep ==
  \/ \E id \in SliceIds : RequestHandoff(id)
  \/ \E id \in SliceIds \cup {None} : Load(id)
  \/ AddSlice
  \/ RefuseSlice
  \/ \E id \in SliceIds : RemoveSlice(id)

LEMMA LiveOfEmpty ==
  ASSUME Types
  PROVE  /\ Live \subseteq SliceIds
         /\ Live # {} <=> slices # <<>>
<1>1. slices \in Seq(SliceIds)
  BY DEF Types
<1>2. ASSUME slices # <<>> PROVE Live # {}
  <2>1. 1 \in DOMAIN slices
    BY <1>1, <1>2, EmptySeq
  <2> QED BY <2>1 DEF Live, ToSet
<1>3. ASSUME slices = <<>> PROVE Live = {}
  BY <1>3 DEF Live, ToSet
<1>4. Live \subseteq SliceIds
  BY <1>1 DEF Live, ToSet
<1> QED BY <1>2, <1>3, <1>4

LEMMA ListStepEffect ==
  ASSUME IInv, ListStep
  PROVE  ListKept /\ (Stays \/ Moves \/ Unborn)
<1> USE DEF IInv, Route
<1>1. /\ slices \in Seq(SliceIds) /\ DistinctIn(slices) /\ active \subseteq SliceIds
      /\ Live \subseteq active \cup {stopped}
      /\ bound \in SliceIds \cup {None}
  BY DEF Types, Muted
<1>2. Live \subseteq SliceIds /\ (Live # {} <=> slices # <<>>)
  BY LiveOfEmpty
<1>3. slices # <<>> => bound \in Live /\ flagged = {bound}
  BY DEF OneTransmitter
<1>4. slices = <<>> => flagged = {}
  BY DEF EmptySession
<1>5. ASSUME UNCHANGED <<slices, active, stopped, wireVars>>
      PROVE  ListKept /\ Live' = Live
  BY <1>1, <1>5 DEF ListKept, Live
<1>6. ASSUME NEW id \in SliceIds, RequestHandoff(id)
      PROVE  ListKept /\ Moves
  <2>1. UNCHANGED <<slices, active, stopped, wireVars>> /\ id \in Live /\ MoveTo(id)
    BY <1>6 DEF RequestHandoff
  <2> QED BY <1>2, <1>5, <2>1 DEF Moves
<1>7. ASSUME NEW id \in SliceIds \cup {None}, Load(id)
      PROVE  ListKept /\ (Stays \/ Moves \/ Unborn)
  <2>1. UNCHANGED <<slices, active, stopped, wireVars>>
    BY <1>7 DEF Load
  <2>2. ListKept /\ Live' = Live /\ slices' = slices
    BY <1>5, <2>1
  <2>3. CASE id \in Live
    <3>1. StayPut \/ MoveTo(id)
      BY <1>7, <2>3 DEF Load
    <3>2. slices' # <<>>
      BY <1>2, <2>2, <2>3
    <3>3. CASE StayPut
      BY <1>3, <2>2, <3>2, <3>3 DEF Stays
    <3>4. CASE MoveTo(id)
      BY <2>2, <2>3, <3>2, <3>4 DEF Moves
    <3> QED BY <2>2, <3>1, <3>3, <3>4
  <2>4. CASE id \notin Live
    <3> DEFINE kept == IF id = None THEN bound ELSE id
    <3>1. SyncTo(slices, kept) /\ kept \in SliceIds \cup {None}
      BY <1>1, <1>7, <2>4 DEF Load
    <3> HIDE DEF kept
    <3>2. CASE slices = <<>>
      <4>1. flagged' = {} /\ bound' = kept /\ UNCHANGED <<moxVars, flips, calls>>
        BY <3>1, <3>2 DEF SyncTo
      <4>2. Unborn
        BY <2>2, <3>1, <3>2, <4>1 DEF Unborn
      <4> QED BY <2>2, <4>2
    <3>3. CASE slices # <<>>
      <4>1. StayPut
        BY <1>1, <1>3, <3>1, <3>3, SyncKeeps DEF Live
      <4>2. Stays
        BY <1>3, <2>2, <3>3, <4>1 DEF Stays
      <4> QED BY <2>2, <4>2
    <3> QED BY <3>2, <3>3
  <2> QED BY <2>3, <2>4
<1>8. CASE AddSlice
  <2> DEFINE id == LowestFree
  <2>1. /\ slices' = Append(slices, id) /\ SyncTo(slices', bound)
        /\ active' = active \cup {id} /\ UNCHANGED <<stopped, wireVars>>
        /\ Len(slices) < MaxSlices
    BY <1>8 DEF AddSlice
  <2>2. id \in SliceIds \ ToSet(slices)
    BY <1>1, <2>1, LowestFreeIsFree DEF Live
  <2> HIDE DEF id
  <2>3. /\ slices' \in Seq(SliceIds) /\ slices' # <<>> /\ DistinctIn(slices')
        /\ ToSet(slices') = ToSet(slices) \cup {id}
    BY <1>1, <2>1, <2>2, ElementsOfAppend
  <2>4. Live' = Live \cup {id}
    BY <2>3 DEF Live
  <2>5. ListKept
    BY <1>1, <2>1, <2>2, <2>3, <2>4 DEF ListKept
  <2>6. CASE slices = <<>>
    <3>1. \E i \in ToSet(slices') : MoveTo(i)
      BY <1>4, <2>1, <2>3, <2>6, SyncBinds
    <3>2. Moves
      BY <2>3, <3>1 DEF Moves, Live
    <3> QED BY <2>5, <3>2
  <2>7. CASE slices # <<>>
    <3>1. bound \in ToSet(slices') /\ flagged = {bound}
      BY <1>3, <2>3, <2>7 DEF Live
    <3>2. StayPut
      BY <2>1, <2>3, <3>1, SyncKeeps
    <3>3. Stays
      BY <1>3, <2>4, <2>7, <3>2 DEF Stays
    <3> QED BY <2>5, <3>3
  <2> QED BY <2>6, <2>7
<1>9. CASE RefuseSlice
  <2>1. UNCHANGED <<slices, active, stopped, wireVars>> /\ Len(slices) < MaxSlices
    BY <1>9 DEF RefuseSlice
  <2>2. ListKept /\ Live' = Live /\ slices' = slices
    BY <1>5, <2>1
  <2>3. CASE slices = <<>>
    <3>1. /\ DropMox /\ bound' = LowestFree /\ flagged' = flagged
          /\ PushTxFrequency(LowestFree)
      BY <1>9, <2>3 DEF RefuseSlice
    <3>2. UNCHANGED <<moxVars, flips>>
      BY <2>3, <3>1 DEF DropMox, EmptySession
    <3>3. LowestFree \in SliceIds
      BY <1>1, <2>1, LowestFreeIsFree
    <3>4. Unborn
      BY <1>4, <2>2, <2>3, <3>1, <3>2, <3>3 DEF Unborn
    <3> QED BY <2>2, <3>4
  <2>4. CASE slices # <<>>
    <3>1. StayPut
      BY <1>9, <2>4 DEF RefuseSlice
    <3>2. Stays
      BY <1>3, <2>2, <2>4, <3>1 DEF Stays
    <3> QED BY <2>2, <3>2
  <2> QED BY <2>3, <2>4
<1>10. ASSUME NEW id \in SliceIds, RemoveSlice(id)
       PROVE  ListKept /\ (Stays \/ Moves)
  <2>1. PICK p \in DOMAIN slices :
          slices[p] = id /\ slices' = RemoveAt(slices, p)
    BY <1>10 DEF RemoveSlice
  <2>2. /\ Len(slices) > 1
        /\ IF id \in flagged THEN MoveTo(slices'[1]) ELSE SyncTo(slices', bound)
        /\ active' = active \ {id} /\ UNCHANGED <<stopped, wireVars>>
    BY <1>10 DEF RemoveSlice
  <2>3. /\ slices' \in Seq(SliceIds) /\ Len(slices') = Len(slices) - 1
        /\ DistinctIn(slices') /\ ToSet(slices') = ToSet(slices) \ {id}
    BY <1>1, <2>1, ElementsOfRemove
  <2>4. /\ slices # <<>> /\ slices' # <<>>
        /\ 1 \in DOMAIN slices' /\ slices'[1] \in ToSet(slices')
    <3>1. Len(slices) \in Nat /\ Len(<<>>) = 0
      BY <1>1, EmptySeq
    <3>2. slices # <<>> /\ slices' # <<>>
      BY <2>2, <2>3, <3>1
    <3>3. 1 \in DOMAIN slices'
      BY <2>2, <2>3, <3>1
    <3> QED BY <3>2, <3>3 DEF ToSet
  <2>5. Live' = Live \ {id}
    BY <2>3 DEF Live
  <2>6. ListKept
    BY <1>1, <2>2, <2>3, <2>4, <2>5 DEF ListKept
  <2>7. CASE id \in flagged
    <3>1. slices'[1] \in Live' /\ MoveTo(slices'[1])
      BY <2>2, <2>4, <2>7 DEF Live
    <3> QED BY <2>4, <2>6, <3>1 DEF Moves
  <2>8. CASE id \notin flagged
    <3>1. bound # id /\ bound \in ToSet(slices') /\ flagged = {bound}
      BY <1>3, <2>3, <2>4, <2>8 DEF Live
    <3>2. StayPut
      BY <2>2, <2>3, <2>8, <3>1, SyncKeeps
    <3>3. Stays
      BY <2>4, <3>1, <3>2 DEF Stays, Live
    <3> QED BY <2>6, <3>3
  <2> QED BY <2>7, <2>8
<1> QED BY <1>6, <1>7, <1>8, <1>9, <1>10 DEF ListStep

(***************************************************************************)
(* Every step keeps the invariant.                                         *)
(***************************************************************************)

LEMMA InitInv == Init => IInv
<1> SUFFICES ASSUME Init PROVE IInv
  OBVIOUS
<1>1. MoxPart!IInv
  <2>1. MoxPart!Init
    BY DEF Init, Mox!Init, MoxPart!Init
  <2> QED BY <2>1, MoxPart!InitInv DEF MoxPart!PttKeysAssumption
<1>2. /\ slices = <<>> /\ flagged = {} /\ bound = None /\ active = {}
      /\ stopped = None /\ flips = <<>> /\ calls = <<>>
      /\ told = [mox |-> FALSE, tx |-> None] /\ radio = told
      /\ grace = 0 /\ lost = 0 /\ mox = FALSE
  BY DEF Init, Mox!Init
<1>3. GraceBeats \in Nat /\ MaxLost \in Nat /\ MaxQueue \in Nat
  BY GraceBeatsAssumption, MaxLostAssumption, MaxQueueAssumption
<1>4. told \in [mox : BOOLEAN, tx : SliceIds \cup {None}]
  BY <1>2
<1>5. Types
  BY <1>2, <1>3, <1>4 DEF Types, DistinctIn
<1>6. \A op : Pending(calls, op) = {}
  BY <1>2 DEF Pending
<1>7. QueuesFit
  <2>1. Cardinality({}) = 0 /\ Len(flips) = 0
    BY <1>2, FS_EmptySet, EmptySeq
  <2>2. Cardinality(Pending(calls, "setMox")) = 0
    BY <1>6, <2>1
  <2>3. Cardinality(Pending(calls, "setTxFrequency")) = 0
    BY <1>6, <2>1
  <2> QED BY <1>3, <2>1, <2>2, <2>3 DEF QueuesFit
<1>8. Keyed = FALSE
  BY <1>2 DEF Keyed
<1>9. FlipsAlternate /\ Muted
  <2>1. Len(flips) = 0 /\ Live = {}
    BY <1>2, EmptySeq DEF Live, ToSet
  <2> QED BY <1>2, <1>8, <2>1 DEF FlipsAlternate, Muted
<1>10. MoxOnItsWay
  <2>1. told.mox = FALSE
    BY <1>2
  <2>2. DOMAIN calls = {}
    BY <1>2
  <2> QED BY <1>8, <2>1, <2>2 DEF MoxOnItsWay
<1>11. TxOnItsWay /\ OneTransmitter /\ EmptySession
  BY <1>2 DEF TxOnItsWay, OneTransmitter, EmptySession
<1>12. RadioWillKnow
  <2>1. radio.mox = FALSE
    BY <1>2
  <2> QED BY <1>2, <2>1 DEF RadioWillKnow
<1> QED BY <1>1, <1>5, <1>7, <1>9, <1>10, <1>11, <1>12 DEF IInv, Route

LEMMA StaysKeepsInv ==
  ASSUME IInv, ListKept, Stays
  PROVE  IInv'
<1> USE DEF IInv, Route
<1>1. /\ UNCHANGED moxVars
      /\ mox' = mox /\ flips' = flips /\ flagged' = flagged /\ bound' = bound
      /\ calls' = calls /\ stopped' = stopped
      /\ told' = told /\ grace' = grace /\ radio' = radio /\ lost' = lost
      /\ slices' # <<>> => slices # <<>> /\ bound \in Live'
  BY DEF ListKept, Stays, StayPut, moxVars, wireVars
<1>2. MoxPart!IInv'
  BY <1>1, MoxPartIdle
<1>3. Types' /\ QueuesFit'
  BY <1>1 DEF ListKept, Types, QueuesFit
<1>4. OneTransmitter' /\ EmptySession'
  BY <1>1 DEF ListKept, OneTransmitter, EmptySession
<1>5. Keyed' = Keyed
  BY <1>1 DEF Keyed
<1>6. FlipsAlternate' /\ Muted'
  BY <1>1, <1>5 DEF ListKept, FlipsAlternate, Muted
<1>7. MoxOnItsWay' /\ TxOnItsWay'
  BY <1>1, <1>5 DEF MoxOnItsWay, TxOnItsWay
<1>8. RadioWillKnow'
  BY <1>1 DEF RadioWillKnow
<1> QED BY <1>2, <1>3, <1>4, <1>6, <1>7, <1>8

LEMMA MovesKeepsInv ==
  ASSUME IInv, ListKept, Moves
  PROVE  IInv' /\ ~mox'
<1> USE DEF IInv, Route
<1>1. PICK id \in Live' : slices' # <<>> /\ MoveTo(id)
  BY DEF Moves
<1>2. /\ DropMox /\ flagged' = {id} /\ bound' = id /\ PushTxFrequency(id)
      /\ stopped' = stopped
      /\ told' = told /\ grace' = grace /\ radio' = radio /\ lost' = lost
  BY <1>1 DEF MoveTo, ListKept, wireVars
<1>3. id \in SliceIds
  BY <1>1 DEF ListKept, Live, ToSet
<1>4. /\ MoxPart!IInv' /\ ~mox'
      /\ flips' \in Seq(BOOLEAN) /\ FlipsAlternate' /\ Keyed' = Keyed
      /\ \/ flips' = flips
         \/ /\ flips' # <<>> /\ Len(flips') = Len(flips) + 1
            /\ Len(flips') + Posted("setMox") <= MaxQueue
  BY <1>2, DropEffect
<1>5. /\ calls' \in Seq(Calls)
      /\ Cardinality(Pending(calls', "setMox")) = Posted("setMox")
      /\ Cardinality(Pending(calls', "setTxFrequency")) <= MaxQueue
      /\ MoxOnItsWay'
      /\ Pending(calls', "setTxFrequency") # {}
      /\ \A i \in DOMAIN calls' :
           Newest(calls', "setTxFrequency", i) => calls'[i].slice = id
  BY <1>2, <1>3, <1>4, PushEffect
<1>6. Types'
  BY <1>2, <1>3, <1>4, <1>5 DEF ListKept, Types
<1>7. QueuesFit'
  <2>1. Posted("setMox") = Cardinality(Pending(calls, "setMox"))
    BY PostedIsPending
  <2>2. Len(flips') + Posted("setMox") <= MaxQueue
    BY <1>4, <2>1 DEF QueuesFit
  <2> QED BY <1>5, <2>2 DEF QueuesFit
<1>8. OneTransmitter' /\ EmptySession'
  BY <1>1, <1>2 DEF OneTransmitter, EmptySession
<1>9. Muted'
  BY <1>2, <1>4 DEF ListKept, Muted
<1>10. TxOnItsWay'
  BY <1>2, <1>5 DEF TxOnItsWay
<1>11. RadioWillKnow'
  BY <1>2 DEF RadioWillKnow
<1> QED BY <1>4, <1>5, <1>6, <1>7, <1>8, <1>9, <1>10, <1>11

LEMMA UnbornKeepsInv ==
  ASSUME IInv, ListKept, Unborn
  PROVE  IInv'
<1> USE DEF IInv, Route
<1>1. /\ UNCHANGED moxVars
      /\ mox' = mox /\ flips' = flips /\ stopped' = stopped
      /\ told' = told /\ grace' = grace /\ radio' = radio /\ lost' = lost
      /\ slices = <<>> /\ slices' = <<>> /\ flagged' = {}
      /\ bound' \in SliceIds \cup {None}
  BY DEF ListKept, Unborn, moxVars, wireVars
<1>2. ~mox /\ flips = <<>>
  BY <1>1 DEF EmptySession
<1>3. MoxPart!IInv'
  BY <1>1, MoxPartIdle
<1>4. Keyed' = Keyed
  BY <1>1 DEF Keyed
<1>5. /\ calls' \in Seq(Calls)
      /\ Cardinality(Pending(calls', "setMox")) = Posted("setMox")
      /\ Cardinality(Pending(calls', "setTxFrequency")) <= MaxQueue
      /\ MoxOnItsWay'
  <2>1. CASE calls' = calls
    <3>1. MoxOnItsWay'
      BY <1>1, <1>4, <2>1 DEF MoxOnItsWay
    <3>2. Cardinality(Pending(calls', "setMox")) = Posted("setMox")
      BY <2>1, PostedIsPending
    <3> QED BY <2>1, <3>1, <3>2 DEF Types, QueuesFit
  <2>2. CASE bound' \in SliceIds /\ PushTxFrequency(bound')
    BY <1>1, <1>4, <2>2, PushEffect
  <2> QED BY <2>1, <2>2 DEF Unborn
<1>6. Types'
  BY <1>1, <1>5 DEF ListKept, Types
<1>7. QueuesFit'
  <2>1. Posted("setMox") = Cardinality(Pending(calls, "setMox"))
    BY PostedIsPending
  <2> QED BY <1>1, <1>5, <2>1 DEF QueuesFit
<1>8. OneTransmitter' /\ EmptySession' /\ TxOnItsWay'
  BY <1>1, <1>2 DEF OneTransmitter, EmptySession, TxOnItsWay
<1>9. FlipsAlternate' /\ Muted'
  BY <1>1, <1>2, <1>4 DEF ListKept, FlipsAlternate, Muted
<1>10. RadioWillKnow'
  BY <1>1 DEF RadioWillKnow
<1> QED BY <1>3, <1>5, <1>6, <1>7, <1>8, <1>9, <1>10

LEMMA RetuneKeepsInv ==
  ASSUME IInv, NEW id \in SliceIds, Retune(id)
  PROVE  IInv'
<1> USE DEF IInv, Route
<1>1. /\ UNCHANGED moxVars
      /\ mox' = mox /\ flips' = flips /\ stopped' = stopped
      /\ told' = told /\ grace' = grace /\ radio' = radio /\ lost' = lost
      /\ slices' = slices /\ flagged' = flagged /\ bound' = bound
      /\ active' = active \cup {id} /\ Live' = Live
      /\ \/ calls' = calls
         \/ id = bound /\ PushTxFrequency(id)
  BY DEF Retune, moxVars, wireVars, Live
<1>2. MoxPart!IInv'
  BY <1>1, MoxPartIdle
<1>3. Keyed' = Keyed
  BY <1>1 DEF Keyed
<1>4. /\ calls' \in Seq(Calls)
      /\ Cardinality(Pending(calls', "setMox")) = Posted("setMox")
      /\ Cardinality(Pending(calls', "setTxFrequency")) <= MaxQueue
      /\ MoxOnItsWay' /\ TxOnItsWay'
  <2>1. CASE calls' = calls
    <3>1. MoxOnItsWay' /\ TxOnItsWay'
      BY <1>1, <1>3, <2>1 DEF MoxOnItsWay, TxOnItsWay
    <3>2. Cardinality(Pending(calls', "setMox")) = Posted("setMox")
      BY <2>1, PostedIsPending
    <3> QED BY <2>1, <3>1, <3>2 DEF Types, QueuesFit
  <2>2. CASE id = bound /\ PushTxFrequency(id)
    <3>1. /\ calls' \in Seq(Calls)
          /\ Cardinality(Pending(calls', "setMox")) = Posted("setMox")
          /\ Cardinality(Pending(calls', "setTxFrequency")) <= MaxQueue
          /\ MoxOnItsWay'
          /\ Pending(calls', "setTxFrequency") # {}
          /\ \A i \in DOMAIN calls' :
               Newest(calls', "setTxFrequency", i) => calls'[i].slice = id
      BY <1>1, <1>3, <2>2, PushEffect
    <3>2. TxOnItsWay'
      BY <1>1, <2>2, <3>1 DEF TxOnItsWay
    <3> QED BY <3>1, <3>2
  <2> QED BY <1>1, <2>1, <2>2
<1>5. Types'
  BY <1>1, <1>4 DEF Types
<1>6. QueuesFit'
  <2>1. Posted("setMox") = Cardinality(Pending(calls, "setMox"))
    BY PostedIsPending
  <2> QED BY <1>1, <1>4, <2>1 DEF QueuesFit
<1>7. OneTransmitter' /\ EmptySession'
  BY <1>1 DEF OneTransmitter, EmptySession
<1>8. FlipsAlternate' /\ Muted'
  BY <1>1, <1>3 DEF FlipsAlternate, Muted
<1>9. RadioWillKnow'
  BY <1>1 DEF RadioWillKnow
<1> QED BY <1>2, <1>4, <1>5, <1>6, <1>7, <1>8, <1>9

LEMMA RequestMoxKeepsInv ==
  ASSUME IInv, NEW on \in BOOLEAN, RequestMox(on)
  PROVE  IInv'
<1> USE DEF IInv, Route
<1> DEFINE verdict == IF bound \in Live THEN "ok" ELSE "rejected"
<1>1. /\ Mox!RequestMox(on, verdict) /\ verdict \in {"ok", "rejected"}
      /\ IF mox' # mox THEN Flip(on) ELSE UNCHANGED flips
      /\ slices' = slices /\ flagged' = flagged /\ bound' = bound
      /\ active' = active /\ stopped' = stopped /\ calls' = calls
      /\ told' = told /\ grace' = grace /\ radio' = radio /\ lost' = lost
  BY DEF RequestMox, wireVars
<1>2. MoxPart!IInv'
  BY <1>1, MoxPartStep DEF MoxStep
<1>3. mox \in BOOLEAN
  BY MoxIsBoolean
<1>4. /\ mox' \in BOOLEAN
      /\ mox' # mox => mox' = on
      /\ ~on => ~mox'
      /\ on /\ verdict = "rejected" => mox' = mox
  BY <1>1, <1>3, RequestFacts
<1>5. slices = <<>> => mox' = mox
  <2>1. SUFFICES ASSUME slices = <<>> PROVE mox' = mox
    OBVIOUS
  <2>2. verdict = "rejected" /\ ~mox
    BY <2>1, LiveOfEmpty DEF EmptySession
  <2> QED BY <1>3, <1>4, <2>2
<1> HIDE DEF verdict
<1>6. /\ flips' \in Seq(BOOLEAN) /\ FlipsAlternate' /\ Keyed' = Keyed
      /\ Len(flips') + Cardinality(Pending(calls, "setMox")) <= MaxQueue
      /\ mox' = mox => flips' = flips
      /\ flips' = <<>> => mox' = mox
  <2>1. CASE mox' = mox
    BY <1>1, <2>1 DEF Types, FlipsAlternate, Keyed, QueuesFit
  <2>2. CASE mox' # mox
    <3>1. flips' = Append(flips, mox') /\ Len(flips) + Posted("setMox") < MaxQueue
      BY <1>1, <1>4, <2>2 DEF Flip
    <3>2. /\ flips' \in Seq(BOOLEAN) /\ flips' # <<>>
          /\ Len(flips') = Len(flips) + 1 /\ FlipsAlternate' /\ Keyed' = Keyed
      BY <1>3, <1>4, <2>2, <3>1, FlipEffect DEF Types
    <3>3. /\ Posted("setMox") = Cardinality(Pending(calls, "setMox"))
          /\ Posted("setMox") \in Nat /\ Len(flips) \in Nat /\ MaxQueue \in Nat
      BY PostedIsPending, MaxQueueAssumption DEF Types
    <3>4. Len(flips') + Cardinality(Pending(calls, "setMox")) <= MaxQueue
      BY <3>1, <3>2, <3>3
    <3> QED BY <2>2, <3>2, <3>4
  <2> QED BY <2>1, <2>2
<1>7. Types'
  BY <1>1, <1>6 DEF Types
<1>8. QueuesFit'
  BY <1>1, <1>6 DEF QueuesFit
<1>9. OneTransmitter' /\ EmptySession'
  BY <1>1, <1>5, <1>6 DEF OneTransmitter, EmptySession, Live
<1>10. Muted'
  BY <1>1, <1>6 DEF Muted, Live
<1>11. MoxOnItsWay' /\ TxOnItsWay'
  BY <1>1, <1>6 DEF MoxOnItsWay, TxOnItsWay
<1>12. RadioWillKnow'
  BY <1>1 DEF RadioWillKnow
<1> QED BY <1>2, <1>6, <1>7, <1>8, <1>9, <1>10, <1>11, <1>12

LEMMA WalkStepKeepsInv ==
  ASSUME IInv, WalkStep
  PROVE  IInv'
<1> USE DEF IInv, Route
<1>1. /\ Mox!WalkStep
      /\ slices' = slices /\ flagged' = flagged /\ bound' = bound
      /\ active' = active /\ stopped' = stopped /\ calls' = calls
      /\ flips' = flips
      /\ told' = told /\ grace' = grace /\ radio' = radio /\ lost' = lost
  BY DEF WalkStep, wireVars
<1>2. MoxPart!IInv'
  BY <1>1, MoxPartStep DEF MoxStep
<1>3. mox' = mox
  BY <1>1 DEF Mox!WalkStep, Mox!OnRfDelayElapsed, Mox!OnKeyUpDelayElapsed,
    Mox!OnPttOutElapsed
<1>4. Types' /\ QueuesFit'
  BY <1>1 DEF Types, QueuesFit
<1>5. OneTransmitter' /\ EmptySession'
  BY <1>1, <1>3 DEF OneTransmitter, EmptySession, Live
<1>6. Keyed' = Keyed
  BY <1>1, <1>3 DEF Keyed
<1>7. FlipsAlternate' /\ Muted'
  BY <1>1, <1>3, <1>6 DEF FlipsAlternate, Muted, Live
<1>8. MoxOnItsWay' /\ TxOnItsWay'
  BY <1>1, <1>6 DEF MoxOnItsWay, TxOnItsWay
<1>9. RadioWillKnow'
  BY <1>1 DEF RadioWillKnow
<1> QED BY <1>2, <1>4, <1>5, <1>7, <1>8, <1>9

LEMMA FlipKeepsInv ==
  ASSUME IInv, OnMoxHardwareFlipped
  PROVE  IInv'
<1> USE DEF IInv, Route
<1> DEFINE c == MoxCall(flips[1])
<1>1. /\ flips # <<>> /\ flips' = Tail(flips)
      /\ UNCHANGED moxVars /\ mox' = mox
      /\ slices' = slices /\ flagged' = flagged /\ bound' = bound
      /\ told' = told /\ grace' = grace /\ radio' = radio /\ lost' = lost
  BY DEF OnMoxHardwareFlipped, moxVars, wireVars
<1>2. /\ slices # <<>> /\ bound \in Live /\ bound \in SliceIds
      /\ Live \subseteq SliceIds /\ Live' = Live /\ bound # None
  <2>1. slices # <<>> /\ bound \in Live
    BY <1>1 DEF EmptySession, OneTransmitter
  <2>2. Live \subseteq SliceIds
    BY LiveOfEmpty
  <2>3. None \notin SliceIds
    BY DEF None, SliceIds
  <2> QED BY <1>1, <2>1, <2>2, <2>3 DEF Live
<1>3. mox \in BOOLEAN /\ MoxPart!IInv'
  BY <1>1, MoxIsBoolean, MoxPartIdle
<1>4. /\ flips' \in Seq(BOOLEAN)
      /\ Len(flips') = Len(flips) - 1
      /\ flips[1] \in BOOLEAN /\ Head(flips) = flips[1]
      /\ FlipsAlternate'
      /\ Keyed' = flips[1] /\ Keyed = ~flips[1]
      /\ flips' = <<>> => flips[1] = mox
  BY <1>1, <1>3, UnflipEffect DEF Types
<1>5. calls' = Append(calls, c) /\ MuteReceiver(flips[1])
  BY <1>2, <1>4 DEF OnMoxHardwareFlipped
<1>6. c \in Calls /\ c.op = "setMox" /\ c.on = flips[1]
  BY <1>4 DEF Calls, MoxCall
<1>7. c.op # "setTxFrequency"
  BY <1>6
<1> HIDE DEF c
<1>8. /\ stopped' # None <=> flips[1]
      /\ flips[1] => stopped' = bound
      /\ Live \subseteq active' \cup {stopped'}
      /\ active' \subseteq SliceIds /\ stopped' \in SliceIds \cup {None}
  <2>1. CASE flips[1]
    <3>1. stopped = None
      BY <1>4, <2>1 DEF Muted
    <3>2. stopped' = bound /\ active' = active \ {bound}
      BY <1>5, <2>1, <3>1 DEF MuteReceiver
    <3>3. Live \subseteq active \cup {None} /\ None \notin Live
      BY <1>2, <3>1 DEF Muted, None, SliceIds
    <3> QED BY <1>2, <2>1, <3>2, <3>3 DEF Types
  <2>2. CASE ~flips[1]
    <3>1. stopped' = None /\ active' = active \cup ({stopped} \ {None})
      BY <1>5, <2>2 DEF MuteReceiver
    <3>2. Live \subseteq active \cup {stopped} /\ active \subseteq SliceIds
          /\ stopped \in SliceIds \cup {None}
      BY DEF Muted, Types
    <3> QED BY <1>2, <2>2, <3>1, <3>2
  <2> QED BY <2>1, <2>2
<1>9. calls \in Seq(Calls) /\ calls' \in Seq(Calls)
  BY <1>5, <1>6, AppendProperties DEF Types
<1>10. Types'
  BY <1>1, <1>4, <1>8, <1>9 DEF Types
<1>11. QueuesFit'
  <2>1. Cardinality(Pending(calls', "setMox")) =
          Cardinality(Pending(calls, "setMox")) + 1
    BY <1>5, <1>6, <1>9, PendingOfAppend
  <2>2. Cardinality(Pending(calls', "setTxFrequency")) =
          Cardinality(Pending(calls, "setTxFrequency"))
    BY <1>5, <1>6, <1>7, <1>9, NewestOfAppendOther
  <2>3. /\ Cardinality(Pending(calls, "setMox")) \in Nat
        /\ Len(flips) \in Nat /\ MaxQueue \in Nat
    BY <1>9, PendingFinite, MaxQueueAssumption DEF Types
  <2> QED BY <1>4, <2>1, <2>2, <2>3 DEF QueuesFit
<1>12. OneTransmitter' /\ EmptySession'
  BY <1>1, <1>2 DEF OneTransmitter, EmptySession
<1>13. Muted'
  <2>1. flips' = <<>> /\ mox' => stopped' = bound'
    BY <1>1, <1>4, <1>8
  <2> QED BY <1>2, <1>4, <1>8, <2>1 DEF Muted
<1>14. MoxOnItsWay'
  <2>1. /\ Pending(calls', "setMox") # {}
        /\ \A i \in DOMAIN calls' : Newest(calls', "setMox", i) => calls'[i] = c
    BY <1>5, <1>6, <1>9, NewestOfAppend
  <2> QED BY <1>4, <1>6, <2>1 DEF MoxOnItsWay
<1>15. TxOnItsWay'
  <2>1. /\ Pending(calls', "setTxFrequency") = Pending(calls, "setTxFrequency")
        /\ \A i \in DOMAIN calls' :
             Newest(calls', "setTxFrequency", i) =>
               /\ i \in DOMAIN calls /\ Newest(calls, "setTxFrequency", i)
               /\ calls'[i] = calls[i]
    <3>1. calls' = Append(calls, c) /\ c \in Calls /\ c.op # "setTxFrequency"
      BY <1>5, <1>6, <1>7
    <3> QED BY <1>9, <3>1, NewestOfAppendOther
  <2>2. /\ Pending(calls, "setTxFrequency") = {} => told.tx = bound
        /\ \A i \in DOMAIN calls :
             Newest(calls, "setTxFrequency", i) => calls[i].slice = bound
    BY <1>2 DEF TxOnItsWay
  <2>3. ASSUME NEW i \in DOMAIN calls', Newest(calls', "setTxFrequency", i)
        PROVE  calls'[i].slice = bound'
    BY <1>1, <2>1, <2>2, <2>3
  <2>4. Pending(calls', "setTxFrequency") = {} => told'.tx = bound'
    BY <1>1, <2>1, <2>2
  <2> QED BY <2>3, <2>4 DEF TxOnItsWay
<1>16. RadioWillKnow'
  BY <1>1 DEF RadioWillKnow
<1> QED BY <1>3, <1>4, <1>10, <1>11, <1>12, <1>13, <1>14, <1>15, <1>16

ToldTypes == [mox : BOOLEAN, tx : SliceIds \cup {None}]

\* A datagram arrives or adds to those lost in a row.
LEMMA SendEffect ==
  ASSUME Types, NEW content \in ToldTypes, SendHighPriority(content)
  PROVE  /\ radio' \in ToldTypes /\ lost' \in 0 .. MaxLost
         /\ \/ radio' = content /\ lost' = 0
            \/ radio' = radio /\ lost' = lost + 1
<1>1. MaxLost \in Nat /\ lost \in 0 .. MaxLost /\ radio \in ToldTypes
  BY MaxLostAssumption, GraceBeatsAssumption DEF Types, ToldTypes
<1>2. CASE radio' = content /\ lost' = 0
  BY <1>1, <1>2
<1>3. CASE lost < MaxLost /\ lost' = lost + 1 /\ UNCHANGED radio
  BY <1>1, <1>3
<1> QED BY <1>2, <1>3 DEF SendHighPriority

LEMMA ConnectionKeepsInv ==
  ASSUME IInv, ConnectionStep
  PROVE  IInv'
<1> USE DEF IInv, Route
<1>1. /\ calls # <<>> /\ calls' = Tail(calls) /\ calls \in Seq(Calls)
      /\ IF Head(calls).op = "setMox" THEN SetMox(Head(calls).on)
                                      ELSE SetTxFrequency(Head(calls).slice)
      /\ UNCHANGED moxVars /\ mox' = mox
      /\ slices' = slices /\ flagged' = flagged /\ bound' = bound
      /\ active' = active /\ stopped' = stopped /\ flips' = flips
  BY DEF ConnectionStep, Types, moxVars
<1>2. /\ calls' \in Seq(Calls) /\ Head(calls) = calls[1]
      /\ calls[1] \in Calls /\ 1 \in DOMAIN calls
  BY <1>1, HeadTailProperties
<1>3. MoxPart!IInv' /\ Keyed' = Keyed
  BY <1>1, MoxPartIdle DEF Keyed
<1>4. /\ told \in ToldTypes /\ radio \in ToldTypes
      /\ grace \in 0 .. GraceBeats /\ lost \in 0 .. MaxLost
      /\ GraceBeats \in Nat /\ MaxLost \in Nat
  BY GraceBeatsAssumption, MaxLostAssumption DEF Types, ToldTypes
\* What the connection is told, and that the radio hears of it in time.
<1>5. /\ told' \in ToldTypes /\ radio' \in ToldTypes
      /\ grace' \in 0 .. GraceBeats /\ lost' \in 0 .. MaxLost
      /\ IF calls[1].op = "setMox"
         THEN told'.mox = calls[1].on /\ told'.tx = told.tx
         ELSE told'.mox = told.mox /\ told'.tx = calls[1].slice
      /\ RadioWillKnow'
  <2>1. CASE calls[1].op = "setMox" /\ calls[1].on = told.mox
    <3>1. /\ told' = told /\ grace' = grace /\ radio' = radio /\ lost' = lost
      BY <1>1, <1>2, <2>1 DEF SetMox, wireVars
    <3>2. RadioWillKnow'
      BY <3>1 DEF RadioWillKnow
    <3> QED BY <1>4, <2>1, <3>1, <3>2
  <2>2. CASE calls[1].op = "setMox" /\ calls[1].on # told.mox
    <3> DEFINE on == calls[1].on
    <3>1. on \in BOOLEAN
      BY <1>2, <2>2, CallKinds
    <3>2. /\ told' = [told EXCEPT !.mox = on]
          /\ grace' = IF on THEN 0 ELSE GraceBeats
          /\ SendHighPriority(told')
      BY <1>1, <1>2, <2>2 DEF SetMox
    <3> HIDE DEF on
    <3>3. told' \in ToldTypes /\ told'.mox = on /\ told'.tx = told.tx
      BY <1>4, <3>1, <3>2 DEF ToldTypes
    <3>4. grace' \in 0 .. GraceBeats
      BY <1>4, <3>2
    <3>5. /\ radio' \in ToldTypes /\ lost' \in 0 .. MaxLost
          /\ \/ radio' = told' /\ lost' = 0
             \/ radio' = radio /\ lost' = lost + 1
      BY <3>2, <3>3, SendEffect
    <3>6. lost' = 0 => radio' = told'
      BY <1>4, <3>5
    <3>7. ~told'.mox /\ radio'.mox => lost' + grace' > GraceBeats
      <4>1. SUFFICES ASSUME ~told'.mox, radio'.mox
                     PROVE  lost' + grace' > GraceBeats
        OBVIOUS
      <4>2. lost' = lost + 1
        BY <3>5, <4>1
      <4>3. grace' = GraceBeats
        BY <3>2, <3>3, <4>1
      <4> QED BY <1>4, <4>2, <4>3
    <3> QED BY <2>2, <3>3, <3>4, <3>5, <3>6, <3>7 DEF RadioWillKnow, on
  <2>3. CASE calls[1].op # "setMox"
    <3> DEFINE id == calls[1].slice
    <3>1. id \in SliceIds
      BY <1>2, <2>3, CallKinds
    <3>2. /\ told' = [told EXCEPT !.tx = id]
          /\ SendHighPriority(told') /\ grace' = grace
      BY <1>1, <1>2, <2>3 DEF SetTxFrequency
    <3> HIDE DEF id
    <3>3. told' \in ToldTypes /\ told'.mox = told.mox /\ told'.tx = id
      BY <1>4, <3>1, <3>2 DEF ToldTypes
    <3>4. /\ radio' \in ToldTypes /\ lost' \in 0 .. MaxLost
          /\ \/ radio' = told' /\ lost' = 0
             \/ radio' = radio /\ lost' = lost + 1
      BY <3>2, <3>3, SendEffect
    <3>5. lost' = 0 => radio' = told'
      BY <1>4, <3>4
    <3>6. ~told'.mox /\ radio'.mox => lost' + grace' > GraceBeats
      <4>1. SUFFICES ASSUME ~told'.mox, radio'.mox
                     PROVE  lost' + grace' > GraceBeats
        OBVIOUS
      <4>2. radio' = radio /\ lost' = lost + 1
        BY <3>4, <4>1
      <4>3. lost + grace > GraceBeats
        BY <3>3, <4>1, <4>2 DEF RadioWillKnow
      <4> QED BY <1>4, <3>2, <4>2, <4>3
    <3> QED BY <1>4, <2>3, <3>2, <3>3, <3>4, <3>5, <3>6 DEF RadioWillKnow, id
  <2> QED BY <2>1, <2>2, <2>3
<1>6. Types'
  BY <1>1, <1>2, <1>5 DEF Types, ToldTypes
<1>7. QueuesFit'
  <2>1. ASSUME NEW op
        PROVE  Cardinality(Pending(calls', op)) <= Cardinality(Pending(calls, op))
    <3>1. Cardinality(Pending(calls', op)) =
            Cardinality(Pending(calls, op))
            - (IF Head(calls).op = op THEN 1 ELSE 0)
      BY <1>1, PendingOfTail
    <3>2. Cardinality(Pending(calls, op)) \in Nat
      BY <1>1, PendingFinite
    <3> QED BY <3>1, <3>2
  <2>2. /\ Cardinality(Pending(calls, "setMox")) \in Nat
        /\ Cardinality(Pending(calls, "setTxFrequency")) \in Nat
        /\ Cardinality(Pending(calls', "setMox")) \in Nat
        /\ Cardinality(Pending(calls', "setTxFrequency")) \in Nat
    BY <1>1, <1>2, PendingFinite
  <2>3. /\ Cardinality(Pending(calls', "setMox"))
             <= Cardinality(Pending(calls, "setMox"))
        /\ Cardinality(Pending(calls', "setTxFrequency"))
             <= Cardinality(Pending(calls, "setTxFrequency"))
    BY <2>1
  <2>4. Len(flips) \in Nat /\ MaxQueue \in Nat
    BY MaxQueueAssumption DEF Types
  <2> QED BY <1>1, <2>2, <2>3, <2>4 DEF QueuesFit
<1>8. OneTransmitter' /\ EmptySession'
  BY <1>1 DEF OneTransmitter, EmptySession, Live
<1>9. FlipsAlternate' /\ Muted'
  BY <1>1, <1>3 DEF FlipsAlternate, Muted, Live
<1>10. ASSUME NEW op
       PROVE  /\ \A i \in DOMAIN calls' :
                   Newest(calls', op, i) =>
                     /\ i + 1 \in DOMAIN calls /\ Newest(calls, op, i + 1)
                     /\ calls'[i] = calls[i + 1]
              /\ Pending(calls', op) = {} =>
                   IF calls[1].op = op THEN Newest(calls, op, 1)
                                       ELSE Pending(calls, op) = {}
  BY <1>1, <1>2, NewestOfTail
<1>11. MoxOnItsWay'
  <2>1. ASSUME NEW i \in DOMAIN calls', Newest(calls', "setMox", i)
        PROVE  calls'[i].on = Keyed'
    BY <1>3, <1>10, <2>1 DEF MoxOnItsWay
  <2>2. ASSUME Pending(calls', "setMox") = {} PROVE told'.mox = Keyed'
    <3>1. CASE calls[1].op = "setMox"
      <4>1. Newest(calls, "setMox", 1)
        BY <1>10, <2>2, <3>1
      <4>2. calls[1].on = Keyed
        BY <1>2, <4>1 DEF MoxOnItsWay
      <4> QED BY <1>3, <1>5, <3>1, <4>2
    <3>2. CASE calls[1].op # "setMox"
      <4>1. Pending(calls, "setMox") = {}
        BY <1>10, <2>2, <3>2
      <4> QED BY <1>3, <1>5, <3>2, <4>1 DEF MoxOnItsWay
    <3> QED BY <3>1, <3>2
  <2> QED BY <2>1, <2>2 DEF MoxOnItsWay
<1>12. TxOnItsWay'
  <2> SUFFICES ASSUME slices # <<>>
               PROVE  /\ Pending(calls', "setTxFrequency") = {} => told'.tx = bound
                      /\ \A i \in DOMAIN calls' :
                           Newest(calls', "setTxFrequency", i) =>
                             calls'[i].slice = bound
    BY <1>1 DEF TxOnItsWay
  <2>1. ASSUME NEW i \in DOMAIN calls', Newest(calls', "setTxFrequency", i)
        PROVE  calls'[i].slice = bound
    <3>1. /\ i + 1 \in DOMAIN calls /\ Newest(calls, "setTxFrequency", i + 1)
          /\ calls'[i] = calls[i + 1]
      BY <1>10, <2>1
    <3>2. calls[i + 1].slice = bound
      BY <3>1 DEF TxOnItsWay
    <3> QED BY <3>1, <3>2
  <2>2. ASSUME Pending(calls', "setTxFrequency") = {} PROVE told'.tx = bound
    <3>1. CASE calls[1].op = "setTxFrequency"
      <4>1. Newest(calls, "setTxFrequency", 1)
        BY <1>10, <2>2, <3>1
      <4>2. calls[1].slice = bound
        BY <1>2, <4>1 DEF TxOnItsWay
      <4>3. calls[1].op # "setMox"
        BY <3>1
      <4> QED BY <1>5, <4>2, <4>3
    <3>2. CASE calls[1].op # "setTxFrequency"
      <4>1. Pending(calls, "setTxFrequency") = {} /\ calls[1].op = "setMox"
        BY <1>2, <1>10, <2>2, <3>2, CallKinds
      <4> QED BY <1>5, <4>1 DEF TxOnItsWay
    <3> QED BY <3>1, <3>2
  <2> QED BY <2>1, <2>2
<1> QED BY <1>3, <1>5, <1>6, <1>7, <1>8, <1>9, <1>11, <1>12

LEMMA HeartbeatKeepsInv ==
  ASSUME IInv, Heartbeat
  PROVE  IInv'
<1> USE DEF IInv, Route
<1>1. /\ told.mox \/ grace > 0
      /\ SendHighPriority(told)
      /\ grace' = IF told.mox THEN grace ELSE grace - 1
      /\ UNCHANGED moxVars /\ mox' = mox
      /\ slices' = slices /\ flagged' = flagged /\ bound' = bound
      /\ active' = active /\ stopped' = stopped /\ flips' = flips
      /\ calls' = calls /\ told' = told
  BY DEF Heartbeat, moxVars
<1>2. MoxPart!IInv' /\ Keyed' = Keyed
  BY <1>1, MoxPartIdle DEF Keyed
<1>3. /\ told \in ToldTypes /\ grace \in 0 .. GraceBeats
      /\ lost \in 0 .. MaxLost /\ GraceBeats \in Nat /\ MaxLost \in Nat
  BY GraceBeatsAssumption, MaxLostAssumption DEF Types, ToldTypes
<1>4. /\ radio' \in ToldTypes /\ lost' \in 0 .. MaxLost
      /\ \/ radio' = told /\ lost' = 0
         \/ radio' = radio /\ lost' = lost + 1
  BY <1>1, <1>3, SendEffect
<1>5. grace' \in 0 .. GraceBeats
  BY <1>1, <1>3
<1>6. Types' /\ QueuesFit'
  BY <1>1, <1>4, <1>5 DEF Types, ToldTypes, QueuesFit
<1>7. OneTransmitter' /\ EmptySession'
  BY <1>1 DEF OneTransmitter, EmptySession, Live
<1>8. FlipsAlternate' /\ Muted'
  BY <1>1, <1>2 DEF FlipsAlternate, Muted, Live
<1>9. MoxOnItsWay' /\ TxOnItsWay'
  BY <1>1, <1>2 DEF MoxOnItsWay, TxOnItsWay
<1>10. RadioWillKnow'
  <2>1. lost' = 0 => radio' = told'
    BY <1>1, <1>3, <1>4
  <2>2. ASSUME ~told.mox, radio'.mox PROVE lost' + grace' > GraceBeats
    <3>1. radio' = radio /\ lost' = lost + 1
      BY <1>4, <2>2
    <3>2. lost + grace > GraceBeats /\ grace' = grace - 1
      BY <1>1, <2>2, <3>1 DEF RadioWillKnow
    <3> QED BY <1>3, <3>1, <3>2
  <2> QED BY <1>1, <2>1, <2>2 DEF RadioWillKnow
<1> QED BY <1>2, <1>6, <1>7, <1>8, <1>9, <1>10

LEMMA ListStepKeepsInv ==
  ASSUME IInv, ListStep
  PROVE  IInv' /\ (bound' # bound => ~mox')
<1>1. ListKept /\ (Stays \/ Moves \/ Unborn)
  BY ListStepEffect
<1>2. CASE Stays
  BY <1>1, <1>2, StaysKeepsInv DEF Stays, StayPut
<1>3. CASE Moves
  BY <1>1, <1>3, MovesKeepsInv
<1>4. CASE Unborn
  <2>1. ~mox /\ mox' = mox
    BY <1>4 DEF IInv, EmptySession, Unborn, moxVars
  <2> QED BY <1>1, <1>4, <2>1, UnbornKeepsInv
<1> QED BY <1>1, <1>2, <1>3, <1>4

LEMMA StutterKeepsInv ==
  ASSUME IInv, UNCHANGED vars
  PROVE  IInv'
<1> USE DEF IInv, Route
<1>1. /\ UNCHANGED moxVars
      /\ mox' = mox /\ flips' = flips /\ flagged' = flagged /\ bound' = bound
      /\ slices' = slices /\ active' = active
      /\ calls' = calls /\ stopped' = stopped
      /\ told' = told /\ grace' = grace /\ radio' = radio /\ lost' = lost
  BY DEF vars, moxVars, wireVars
<1>2. MoxPart!IInv' /\ Keyed' = Keyed
  BY <1>1, MoxPartIdle DEF Keyed
<1>3. Types' /\ QueuesFit'
  BY <1>1 DEF Types, QueuesFit
<1>4. OneTransmitter' /\ EmptySession'
  BY <1>1 DEF OneTransmitter, EmptySession, Live
<1>5. FlipsAlternate' /\ Muted'
  BY <1>1, <1>2 DEF FlipsAlternate, Muted, Live
<1>6. MoxOnItsWay' /\ TxOnItsWay'
  BY <1>1, <1>2 DEF MoxOnItsWay, TxOnItsWay
<1>7. RadioWillKnow'
  BY <1>1 DEF RadioWillKnow
<1> QED BY <1>2, <1>3, <1>4, <1>5, <1>6, <1>7

LEMMA NextInv == IInv /\ [Next]_vars => IInv'
<1> SUFFICES ASSUME IInv, [Next]_vars PROVE IInv'
  OBVIOUS
<1>1. CASE ListStep
  BY <1>1, ListStepKeepsInv
<1>2. ASSUME NEW id \in SliceIds, Retune(id) PROVE IInv'
  BY <1>2, RetuneKeepsInv
<1>3. ASSUME NEW on \in BOOLEAN, RequestMox(on) PROVE IInv'
  BY <1>3, RequestMoxKeepsInv
<1>4. CASE WalkStep
  BY <1>4, WalkStepKeepsInv
<1>5. CASE OnMoxHardwareFlipped
  BY <1>5, FlipKeepsInv
<1>6. CASE ConnectionStep
  BY <1>6, ConnectionKeepsInv
<1>7. CASE Heartbeat
  BY <1>7, HeartbeatKeepsInv
<1>8. CASE UNCHANGED vars
  BY <1>8, StutterKeepsInv
<1> QED BY <1>1, <1>2, <1>3, <1>4, <1>5, <1>6, <1>7, <1>8 DEF Next, ListStep

(***************************************************************************)
(* The theorems.                                                           *)
(***************************************************************************)

LEMMA InvImpliesSliceInv == IInv => SliceInv
<1> SUFFICES ASSUME IInv PROVE SliceInv
  OBVIOUS
<1> USE DEF IInv
<1>1. Mox!TypeOK
  <2>1. MoxPart!TypeOK
    BY DEF MoxPart!IInv
  <2> QED BY <2>1, Zenon DEF MoxPart!TypeOK, Mox!TypeOK, MoxPart!MoxState,
        Mox!MoxState, MoxPart!PttMode, Mox!PttMode, MoxPart!Timers, Mox!Timers,
        MoxPart!WalkTimers, Mox!WalkTimers, MoxPart!Emissions, Mox!Emissions,
        MoxPart!KeyOnSignals, Mox!KeyOnSignals, MoxPart!KeyOffSignals,
        Mox!KeyOffSignals
<1>2. Cardinality(Live) = Len(slices)
  BY CountOfDistinct DEF Types, Live
<1>3. Len(flips) <= MaxQueue /\ Len(calls) <= 2 * MaxQueue
  <2>1. calls \in Seq(Calls) /\ Len(flips) \in Nat /\ MaxQueue \in Nat
    BY MaxQueueAssumption DEF Types
  <2>2. Len(calls) = Cardinality(Pending(calls, "setMox"))
                     + Cardinality(Pending(calls, "setTxFrequency"))
    BY <2>1, PendingTogether
  <2>3. /\ Cardinality(Pending(calls, "setMox")) \in Nat
        /\ Cardinality(Pending(calls, "setTxFrequency")) \in Nat
    BY <2>1, PendingFinite
  <2> QED BY <2>1, <2>2, <2>3 DEF QueuesFit
<1>4. TypeOK
  BY <1>1, <1>2, <1>3 DEF Types, TypeOK
<1> QED BY <1>4 DEF SliceInv

LEMMA InvImpliesSettledAgrees == IInv => SettledAgrees
<1> SUFFICES ASSUME IInv, Settled, slices # <<>>
             PROVE  /\ told = [mox |-> mox, tx |-> bound]
                    /\ lost = 0 => radio = told
                    /\ ~mox => ~radio.mox
                    /\ stopped = IF mox THEN bound ELSE None
                    /\ ~mox => Live \subseteq active
  BY DEF SettledAgrees
<1> USE DEF IInv, Route
<1>1. flips = <<>> /\ grace = 0 /\ DOMAIN calls = {} /\ Keyed = mox
  BY DEF Settled, Keyed
<1>2. \A op : Pending(calls, op) = {}
  BY <1>1 DEF Pending
<1>3. told.mox = mox /\ told.tx = bound
  BY <1>1, <1>2 DEF MoxOnItsWay, TxOnItsWay
<1>4. told = [mox |-> mox, tx |-> bound]
  BY <1>3 DEF Types
<1>5. ~mox => ~radio.mox
  <2>1. SUFFICES ASSUME ~mox, radio.mox PROVE FALSE
    OBVIOUS
  <2>2. lost + grace > GraceBeats
    BY <1>3, <2>1 DEF RadioWillKnow
  <2>3. lost \in Int /\ lost <= MaxLost /\ MaxLost <= GraceBeats /\ MaxLost \in Int
        /\ GraceBeats \in Int
    BY MaxLostAssumption, GraceBeatsAssumption DEF Types
  <2> QED BY <1>1, <2>2, <2>3
<1>6. mox \in BOOLEAN
  BY MoxIsBoolean
<1>7. stopped = IF mox THEN bound ELSE None
  BY <1>1, <1>6 DEF Muted
<1>8. ~mox => Live \subseteq active
  <2>1. None \notin Live
    BY LiveOfEmpty DEF None, SliceIds
  <2> QED BY <1>7, <2>1 DEF Muted
<1>9. lost = 0 => radio = told
  BY DEF RadioWillKnow
<1> QED BY <1>4, <1>5, <1>7, <1>8, <1>9

\* At any number of slices exactly one has the transmitter, and the cached id
\* names it.
THEOREM SliceHolds == Spec => []SliceInv
<1> QED BY InitInv, NextInv, InvImpliesSliceInv, PTL DEF Spec

\* Once everything posted is worked off, the connection, the radio and the
\* receivers agree with the controller and the arbiter; for every number of
\* lost datagrams the grace window can make up for.
THEOREM SettledAlwaysAgrees == Spec => []SettledAgrees
<1> QED BY InitInv, NextInv, InvImpliesSettledAgrees, PTL DEF Spec

\* The transmitter moves with MOX dropped.
THEOREM HandoffAlwaysDropsMox == Spec => HandoffDropsMox
<1>1. IInv /\ [Next]_vars => [bound # bound' => ~mox']_vars
  <2> SUFFICES ASSUME IInv, Next, bound # bound' PROVE ~mox'
    OBVIOUS
  <2>1. CASE ListStep
    BY <2>1, ListStepKeepsInv
  <2>2. CASE \/ \E id \in SliceIds : Retune(id)
             \/ \E on \in BOOLEAN : RequestMox(on)
             \/ WalkStep
             \/ OnMoxHardwareFlipped
             \/ ConnectionStep
             \/ Heartbeat
    <3>1. bound' = bound
      BY <2>2 DEF Retune, RequestMox, WalkStep, OnMoxHardwareFlipped,
        ConnectionStep, Heartbeat
    <3> QED BY <3>1
  <2> QED BY <2>1, <2>2 DEF Next, ListStep
<1> QED BY InitInv, NextInv, <1>1, PTL DEF Spec, HandoffDropsMox
=============================================================================
