----------------------------- MODULE MicReorder -----------------------------
(***************************************************************************)
(* MicReorderBuffer: the microphone blocks of a Protocol 2 radio put back  *)
(* in order, between the UDP port and the transmit channel.                *)
(*                                                                         *)
(* The radio numbers its blocks modulo 2^32 (2 * Half here) and the buffer *)
(* knows that number only; a block's data is its position in the stream.   *)
(* The network loses, delays and duplicates blocks.  A gap is waited for   *)
(* until Depth blocks are held behind it, and is then filled with repeats  *)
(* of the last block.  Every push is one action: the class has one caller, *)
(* the handler of port 1026 on the connection thread.                      *)
(***************************************************************************)
EXTENDS Integers, Sequences, FiniteSetsExt

CONSTANTS
  Depth,        \* kDepth
  Slots,        \* kSlots
  ResyncDelta,  \* kResyncDelta
  Half,         \* half the sequence numbers: the range of a signed distance
  Lag,          \* bound: how many blocks the network lets overtake one
  MaxBlocks     \* bound: blocks sent in a session

ASSUME MicReorderAssumption ==
  /\ {Depth, Slots, ResyncDelta, Half, Lag, MaxBlocks} \subseteq Nat \ {0}
  /\ Depth <= Slots /\ Slots < ResyncDelta /\ ResyncDelta < Half
  /\ Lag < Half

VARIABLES
  sent,     \* how many blocks the radio has sent since SendStart
  wire,     \* the positions of the blocks under way
  valid,    \* m_valid
  nextSeq,  \* m_nextSeq
  held,     \* m_pending: the slots in use, and what each holds
  last,     \* m_lastEmitted
  out       \* the blocks the last push emitted

vars == <<sent, wire, valid, nextSeq, held, last, out>>

Silence == -1  \* m_lastEmitted of a fresh session is all zeros
Seqs    == 0 .. 2 * Half - 1
Number(n) == n % (2 * Half)
Block(p) == [seq |-> Number(p), at |-> p]
SlotsWith(pending, seq) == {i \in DOMAIN pending : pending[i].seq = seq}
Count(pending) == Cardinality(DOMAIN pending)

\* Types of the buffer's members.  A sequence number takes one slot, and the
\* slots never run out.
TypeOK ==
  /\ sent \in 0 .. MaxBlocks
  /\ wire \subseteq 0 .. sent - 1
  /\ valid \in BOOLEAN
  /\ nextSeq \in Seqs
  /\ DOMAIN held \subseteq 1 .. Slots /\ Count(held) < Slots
  /\ held \in [DOMAIN held -> [seq : Seqs, at : 0 .. sent - 1]]
  /\ \A i, j \in DOMAIN held : held[i].seq = held[j].seq => i = j
  /\ last \in {Silence} \cup 0 .. sent - 1
  /\ out \in Seq({Silence} \cup 0 .. sent - 1)

Init ==
  /\ sent = 0
  /\ wire = {}
  /\ valid = FALSE
  /\ nextSeq = 0
  /\ held = <<>>
  /\ last = Silence
  /\ out = <<>>

(***************************************************************************)
(* The helpers of push().                                                  *)
(***************************************************************************)

\* Mutant: the distance is not signed.
MutDistance(from, to) == Number(to - from)

\* The signed distance of two sequence numbers.
Distance(from, to) == Number(to - from + Half) - Half

Put(i, b) == [j \in DOMAIN held \cup {i} |-> IF j = i THEN b ELSE held[j]]
FreeSlots == 1 .. Slots \ DOMAIN held

\* Mutant: a frame that is held already takes another slot.
MutStored(b) == IF FreeSlots # {} THEN Put(Min(FreeSlots), b) ELSE held

\* store(): a frame that is held already is overwritten in place; with every
\* slot in use the newcomer is dropped.
Stored(b) ==
  IF SlotsWith(held, b.seq) # {} THEN Put(Min(SlotsWith(held, b.seq)), b)
  ELSE IF FreeSlots # {} THEN Put(Min(FreeSlots), b)
  ELSE held

\* minPendingSeq(): the sequence number that all others are ahead of.
MinPending(pending) ==
  (CHOOSE b \in Range(pending) :
     \A c \in Range(pending) : Distance(b.seq, c.seq) >= 0).seq

\* Mutant: one block too few, or one too many.
MutEagerFull(pending) == Count(pending) >= Depth - 1
MutLateFull(pending)  == Count(pending) > Depth

IsFull(pending) == Count(pending) >= Depth

\* emitBlock() for what leads, then drainPending(): the frames held for the
\* sequence numbers from seq on are emitted as long as there is no gap.
Emit(lead, pending, seq) ==
  LET holds(n) == SlotsWith(pending, Number(seq + n)) # {}
      data(n)  == pending[Min(SlotsWith(pending, Number(seq + n)))].at
      run      == CHOOSE n \in 0 .. Count(pending) :
                    ~holds(n) /\ \A i \in 0 .. n - 1 : holds(i)
      drained  == UNION {SlotsWith(pending, Number(seq + i)) : i \in 0 .. run - 1}
  IN  /\ out' = lead \o [i \in 1 .. run |-> data(i - 1)]
      /\ last' = out'[Len(out')]
      /\ nextSeq' = Number(seq + run)
      /\ held' = Restrict(pending, DOMAIN pending \ drained)

(***************************************************************************)
(* push(), for the block at position p.                                    *)
(***************************************************************************)

Ahead(p) == IF valid THEN Distance(nextSeq, Number(p)) ELSE 0

DropStale(p) ==
  /\ Ahead(p) < 0
  /\ out' = <<>>
  /\ UNCHANGED <<valid, nextSeq, held, last>>

\* The block that is due, or the first of a session.
PassOn(p) ==
  /\ Ahead(p) = 0
  /\ valid' = TRUE
  /\ Emit(<<p>>, held, Number(p + 1))

Resync(p) ==
  /\ Ahead(p) >= ResyncDelta
  /\ Emit(<<p>>, <<>>, Number(p + 1))
  /\ UNCHANGED valid

HoldBack(p) ==
  /\ Ahead(p) \in 1 .. ResyncDelta - 1
  /\ ~IsFull(Stored(Block(p)))
  /\ held' = Stored(Block(p))
  /\ out' = <<>>
  /\ UNCHANGED <<valid, nextSeq, last>>

\* The gap below the earliest frame is given up and concealed.
Conceal(p) ==
  LET pending == Stored(Block(p))
      first   == MinPending(pending) IN
  /\ Ahead(p) \in 1 .. ResyncDelta - 1
  /\ IsFull(pending)
  /\ Emit([i \in 1 .. Distance(nextSeq, first) |-> last], pending, first)
  /\ UNCHANGED valid

Push(p) == DropStale(p) \/ PassOn(p) \/ Resync(p) \/ HoldBack(p) \/ Conceal(p)

(***************************************************************************)
(* The radio and the network.                                              *)
(***************************************************************************)

\* The position whose turn it is, out of the sequence number alone.
Due == IF valid THEN sent - Distance(nextSeq, Number(sent)) ELSE Silence

\* Bounds: no block is overtaken by more than Lag others, and an outage ends
\* before half of the sequence numbers (33 days of blocks) have gone by.
Send ==
  /\ sent < MaxBlocks
  /\ \A p \in wire : sent - p < Lag
  /\ valid => sent - Due < Half - 1
  /\ sent' = sent + 1
  /\ wire' = wire \cup {sent}
  /\ out' = <<>>
  /\ UNCHANGED <<valid, nextSeq, held, last>>

Lose(p) ==
  /\ wire' = wire \ {p}
  /\ out' = <<>>
  /\ UNCHANGED <<sent, valid, nextSeq, held, last>>

\* A block comes in; a copy of it may still be under way.
Receive(p) ==
  /\ wire' \in {wire, wire \ {p}}
  /\ UNCHANGED sent
  /\ Push(p)

\* SendStart of a new session: reset(), and the radio counts from zero.  The
\* link has been silent for seconds, so nothing of the old one is under way.
SendStart ==
  /\ sent' = 0
  /\ wire' = {}
  /\ valid' = FALSE
  /\ nextSeq' = 0
  /\ held' = <<>>
  /\ last' = Silence
  /\ out' = <<>>

Next ==
  \/ Send
  \/ \E p \in wire : Lose(p)
  \/ \E p \in wire : Receive(p)
  \/ SendStart

Spec == Init /\ [][Next]_vars

(***************************************************************************)
(* Properties.                                                             *)
(***************************************************************************)

Positions == {b.at : b \in Range(held)}

\* A block is held back only for a gap in front of it that can still close:
\* the due block is missing, everything held is ahead of it, and fewer than
\* Depth blocks wait, which bounds the delay the buffer adds.
HoldIsShort ==
  /\ \A p \in Positions : Due < p /\ p < Due + ResyncDelta
  /\ Count(held) < Depth

\* What a step of the buffer relies on: types, and a short hold.
HoldInv == TypeOK /\ HoldIsShort

\* A block is given up only after Depth blocks behind it have come in: what the
\* buffer conceals is not merely late by a block or two, and duplicates do not
\* count.
ConcealOnlyLost ==
  [][out' # <<>> /\ out'[1] = last =>
       Cardinality((Range(out') \ {last}) \cup Positions') >= Depth]_vars

\* Over loss, delay, duplicates and the wrap of the numbers, the blocks come out
\* in order and once each, every position is filled, what is given up is never
\* played later, and what was held is played.
Playout == INSTANCE MicPlayout WITH
  Place <- 0 .. MaxBlocks - 1, Jump <- ResyncDelta,
  next <- Due, waiting <- Positions

IsPlayout == Playout!Spec
=============================================================================
