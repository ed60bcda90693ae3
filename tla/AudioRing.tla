----------------------------- MODULE AudioRing -----------------------------
(***************************************************************************)
(* The lock-free byte ring of src/core/audio/AudioRingSpsc.h, one producer *)
(* thread and one consumer thread.                                         *)
(*                                                                         *)
(* Every atomic access and every copied byte is a step of its own.  The    *)
(* acquire/release pairs order a counter after the bytes it publishes, and *)
(* each counter has one writer, so the interleavings of these steps are    *)
(* the executions.  The counters are never masked: they wrap with size_t,  *)
(* whose range is a multiple of the capacity.                              *)
(***************************************************************************)
EXTENDS Integers, Sequences

CONSTANTS
  Byte,      \* the values a byte may have
  Capacity,  \* kCapacity
  Wrap,      \* the range of size_t
  Payloads,  \* what the producer pushes
  Lengths,   \* the sizes the consumer pops and drops
  Frame      \* the size of the frames that both handle whole

ASSUME RingAssumption ==
  /\ Capacity \in Nat \ {0, 1}
  /\ Wrap \in Nat \ {0, 1} /\ Wrap % Capacity = 0
  /\ 0 \in Byte
  /\ Payloads \subseteq Seq(Byte) \ {<<>>}
  /\ Lengths \subseteq Nat \ {0}
  /\ Frame \in Nat \ {0}
  /\ \A n \in Lengths \cup {Len(p) : p \in Payloads} : n % Frame = 0

VARIABLES
  buf,       \* m_buf
  wr,        \* m_wr, written by the producer only
  rd,        \* m_rd, written by the consumer only
  producer,  \* where the producer is in its call
  src,       \* the bytes it pushes, after the cut of an oversize input
  mayWait,   \* it called pushCopy, not tryPushCopy
  seenRd,    \* the value of m_rd it loaded
  copied,    \* the bytes it has copied in
  consumer,  \* where the consumer is in its call
  want,      \* the bytes it takes or drops
  got,       \* the bytes it has copied out
  taken      \* what the last popInto returned

pVars == <<wr, producer, src, mayWait, seenRd, copied>>
cVars == <<rd, consumer, want, got, taken>>
vars == <<buf, pVars, cVars>>

Usable == Capacity - 1
Index(i) == i % Capacity
Used(w, r) == (w - r) % Wrap
Free == Usable - Used(wr, seenRd)

\* Types of the ring, of the two calls under way and of the counters, which stay
\* inside size_t.
TypeOK ==
  /\ buf \in [0..Usable -> Byte]
  /\ {wr, rd, seenRd} \subseteq 0..(Wrap - 1)
  /\ producer \in {"idle", "check", "reload", "copy"}
  /\ src \in Seq(Byte) /\ Len(src) <= Usable
  /\ mayWait \in BOOLEAN
  /\ copied \in 0..Len(src)
  /\ consumer \in {"idle", "copy", "drop"}
  /\ want \in 0..Usable
  /\ got \in Seq(Byte) /\ Len(got) <= want
  /\ taken \in Seq(Byte)

Init ==
  /\ buf = [i \in 0..Usable |-> 0]
  /\ wr = 0 /\ rd = 0 /\ seenRd = 0
  /\ producer = "idle" /\ src = <<>> /\ mayWait = FALSE /\ copied = 0
  /\ consumer = "idle" /\ want = 0 /\ got = <<>> /\ taken = <<>>

(***************************************************************************)
(* The producer: tryPushCopy and pushCopy.                                 *)
(***************************************************************************)

\* An input larger than the ring loses its oldest bytes here.
BeginPush(batch) ==
  /\ producer = "idle"
  /\ src' = IF Len(batch) > Usable
            THEN SubSeq(batch, Len(batch) - Usable + 1, Len(batch)) ELSE batch
  /\ mayWait' \in BOOLEAN
  /\ seenRd' = rd
  /\ producer' = "check"
  /\ UNCHANGED <<buf, wr, copied, cVars>>

\* The locals of the call end with it.
EndPush == src' = <<>> /\ mayWait' = FALSE /\ seenRd' = 0 /\ copied' = 0

\* Mutant: tryPushCopy writes over the oldest bytes of a full ring.
MutCheckFree ==
  /\ producer = "check"
  /\ producer' = IF mayWait /\ Len(src) > Free THEN "reload" ELSE "copy"
  /\ UNCHANGED <<src, mayWait, seenRd, copied>>
  /\ UNCHANGED <<buf, wr, cVars>>

\* Mutant: the partial write of the original tryPushCopy.
MutPartialWrite ==
  /\ producer = "check"
  /\ producer' = IF Free = 0 THEN "idle" ELSE "copy"
  /\ IF producer' = "idle" THEN EndPush
     ELSE /\ src' = IF Free < Len(src) THEN SubSeq(src, 1, Free) ELSE src
          /\ UNCHANGED <<mayWait, seenRd, copied>>
  /\ UNCHANGED <<buf, wr, cVars>>

\* All of the input or nothing; pushCopy yields and looks again.
CheckFree ==
  /\ producer = "check"
  /\ producer' = IF Len(src) <= Free THEN "copy"
                 ELSE IF mayWait THEN "reload" ELSE "idle"
  /\ IF producer' = "idle"
     THEN EndPush ELSE UNCHANGED <<src, mayWait, seenRd, copied>>
  /\ UNCHANGED <<buf, wr, cVars>>

\* Mutant: the yield loop does not load m_rd again.
MutReload ==
  /\ producer = "reload"
  /\ producer' = "check"
  /\ UNCHANGED <<buf, wr, src, mayWait, seenRd, copied, cVars>>

Reload ==
  /\ producer = "reload"
  /\ producer' = "check"
  /\ seenRd' = rd
  /\ UNCHANGED <<buf, wr, src, mayWait, copied, cVars>>

\* One byte of the two memcpy calls.
CopyIn ==
  /\ producer = "copy"
  /\ copied < Len(src)
  /\ buf' = [buf EXCEPT ![Index(wr + copied)] = src[copied + 1]]
  /\ copied' = copied + 1
  /\ UNCHANGED <<wr, producer, src, mayWait, seenRd, cVars>>

\* Mutant: the counter is published before the bytes.
MutPublish ==
  /\ producer = "copy"
  /\ wr' = (wr + Len(src)) % Wrap
  /\ producer' = "idle"
  /\ EndPush
  /\ UNCHANGED <<buf, cVars>>

\* Mutant: the counter runs past the range of size_t.
MutPublishUnwrapped ==
  /\ producer = "copy"
  /\ copied = Len(src)
  /\ wr' = wr + copied
  /\ producer' = "idle"
  /\ EndPush
  /\ UNCHANGED <<buf, cVars>>

\* The release store of m_wr.
Publish ==
  /\ producer = "copy"
  /\ copied = Len(src)
  /\ wr' = (wr + copied) % Wrap
  /\ producer' = "idle"
  /\ EndPush
  /\ UNCHANGED <<buf, cVars>>

(***************************************************************************)
(* The consumer: popInto and dropOldest.                                   *)
(***************************************************************************)

\* The acquire load of m_wr fixes how much the call takes.
BeginTake(n, how) ==
  /\ consumer = "idle"
  /\ Used(wr, rd) > 0
  /\ want' = IF n < Used(wr, rd) THEN n ELSE Used(wr, rd)
  /\ consumer' = how
  /\ UNCHANGED <<buf, rd, got, taken, pVars>>

CopyOut ==
  /\ consumer = "copy"
  /\ Len(got) < want
  /\ got' = Append(got, buf[Index(rd + Len(got))])
  /\ UNCHANGED <<buf, rd, consumer, want, taken, pVars>>

Release ==
  /\ rd' = (rd + want) % Wrap
  /\ consumer' = "idle"
  /\ want' = 0
  /\ got' = <<>>

\* The release store of m_rd.
Return ==
  /\ consumer = "copy"
  /\ Len(got) = want
  /\ taken' = got
  /\ Release
  /\ UNCHANGED <<buf, pVars>>

DropOldest ==
  /\ consumer = "drop"
  /\ Release
  /\ UNCHANGED <<buf, taken, pVars>>

ProducerStep == CheckFree \/ Reload \/ CopyIn \/ Publish
ConsumerStep == CopyOut \/ Return \/ DropOldest

Next ==
  \/ \E batch \in Payloads : BeginPush(batch)
  \/ CheckFree
  \/ Reload
  \/ CopyIn
  \/ Publish
  \/ \E n \in Lengths, how \in {"copy", "drop"} : BeginTake(n, how)
  \/ CopyOut
  \/ Return
  \/ DropOldest

\* Both threads run, and the audio callback calls popInto again and again.
Fairness ==
  /\ WF_vars(ProducerStep)
  /\ WF_vars(ConsumerStep)
  /\ WF_vars(\E n \in Lengths : BeginTake(n, "copy"))

Spec == Init /\ [][Next]_vars
FairSpec == Spec /\ Fairness

(***************************************************************************)
(* Properties.                                                             *)
(***************************************************************************)

\* No byte is read while it is written: the bytes of a push under way and the
\* bytes the consumer may still read are different bytes of the buffer, although
\* each thread works with a counter of the other that may be out of date.
RaceFree ==
  producer = "copy" =>
    \A i \in 0..(Len(src) - 1), j \in 0..(Used(wr, rd) - 1) :
      Index(wr + i) # Index(rd + j)

\* What a step of either thread relies on: types, and bytes of its own.
RingInv == TypeOK /\ RaceFree

\* The cut of an input that does not fit an empty ring leaves an odd size.
FramesFit ==
  /\ Wrap % Frame = 0
  /\ \A p \in Payloads : Len(p) <= Usable

\* Pushes and pops of whole frames keep both counters on a frame boundary, also
\* when the ring overflows (the alignment note on tryPushCopy), where every
\* input fits an empty ring.
FramesStayWhole == FramesFit => wr % Frame = 0 /\ rd % Frame = 0

\* A pushCopy that waits for room gets it from a consumer that keeps popping.
WaitEnds == producer = "reload" ~> producer = "copy"

\* The ring implements the queue: what popInto returns is what was pushed, once
\* and in order.
Contents == [k \in 1..Used(wr, rd) |-> buf[Index(rd + k - 1)]]
Queue == INSTANCE Fifo WITH Bound <- Usable, offered <- src, queue <- Contents
IsFifo == Queue!Spec

\* The first paragraph on tryPushCopy: it writes whatever fits, and nothing only
\* if the ring is full.
TryPushWritesWhatFits ==
  [][producer = "check" /\ producer' = "idle" => Free = 0]_vars
=============================================================================
