----------------------------- MODULE MicPlayout -----------------------------
(***************************************************************************)
(* What the transmitter is promised of the microphone stream: time runs    *)
(* on.  Every position of the stream is filled once and in order, by its   *)
(* own block if that is here in time, else by a repeat of what was played  *)
(* last.  Only a gap of at least Jump positions is skipped.                *)
(***************************************************************************)
EXTENDS Integers, Sequences, FiniteSetsExt

CONSTANTS
  Place,    \* the positions of the stream
  Jump,     \* the gap that counts as a new stream
  Silence   \* what is played before anything is, and no position

VARIABLES
  next,     \* the position to be filled next, or Silence before the first
  waiting,  \* blocks that are here and ahead of a gap
  last,     \* what was played last
  out       \* what the last step played

vars == <<next, waiting, last, out>>

Init ==
  /\ next = Silence
  /\ waiting = {}
  /\ last = Silence
  /\ out = <<>>

Start(p) ==
  /\ next = Silence
  /\ next' = p + 1
  /\ out' = <<p>>
  /\ last' = p
  /\ UNCHANGED waiting

Nothing ==
  /\ out' = <<>>
  /\ UNCHANGED <<next, waiting, last>>

Wait(p) ==
  /\ next # Silence /\ p > next
  /\ waiting' = waiting \cup {p}
  /\ out' = <<>>
  /\ UNCHANGED <<next, last>>

\* The positions from next to q are filled; q's own block is there.
Play(p, q) ==
  LET here    == waiting \cup {p}
      fill(n) == LET before == {b \in here : b <= n}
                 IN  IF before = {} THEN last ELSE Max(before)
  IN  /\ next # Silence /\ p >= next
      /\ q \in here
      /\ next' = q + 1
      /\ out' = [i \in 1 .. q + 1 - next |-> fill(next + i - 1)]
      /\ last' = q
      /\ waiting' = {b \in here : b > q}

Skip(p) ==
  /\ next # Silence /\ p >= next + Jump
  /\ next' = p + 1
  /\ out' = <<p>>
  /\ last' = p
  /\ waiting' = {}

NewSession ==
  /\ next' = Silence
  /\ waiting' = {}
  /\ last' = Silence
  /\ out' = <<>>

Next ==
  \/ Nothing
  \/ NewSession
  \/ \E p \in Place : Start(p) \/ Wait(p) \/ Skip(p)
  \/ \E p, q \in Place : Play(p, q)

Spec == Init /\ [][Next]_vars
=============================================================================
