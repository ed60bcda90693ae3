-------------------------------- MODULE Fifo --------------------------------
(***************************************************************************)
(* What a byte ring between two threads promises: the bytes that are       *)
(* accepted come out once each and in order, batch after batch, and the    *)
(* consumer takes or drops them from the head only.                        *)
(***************************************************************************)
EXTENDS Naturals, Sequences

CONSTANTS
  Byte,   \* what is transported
  Bound   \* how many bytes fit

VARIABLES
  offered,  \* the bytes the producer is pushing, or <<>>
  queue,    \* the bytes accepted and not yet taken
  taken     \* the bytes the last pop returned

vars == <<offered, queue, taken>>

Batch == UNION {[1..n -> Byte] : n \in 0..Bound}

Init ==
  /\ offered = <<>>
  /\ queue = <<>>
  /\ taken = <<>>

Offer ==
  /\ offered' \in Batch
  /\ UNCHANGED <<queue, taken>>

\* All of the batch or nothing.
Accept ==
  /\ Len(queue) + Len(offered) <= Bound
  /\ queue' = queue \o offered
  /\ offered' = <<>>
  /\ UNCHANGED taken

Take(n) ==
  /\ taken' = SubSeq(queue, 1, n)
  /\ queue' = SubSeq(queue, n + 1, Len(queue))
  /\ UNCHANGED offered

Drop(n) ==
  /\ queue' = SubSeq(queue, n + 1, Len(queue))
  /\ UNCHANGED <<offered, taken>>

Next ==
  \/ Offer
  \/ Accept
  \/ \E n \in 1..Len(queue) : Take(n) \/ Drop(n)

Spec == Init /\ [][Next]_vars
=============================================================================
