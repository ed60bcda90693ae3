---------------------------- MODULE QueueProofs ----------------------------
(***************************************************************************)
(* Safety of two queues: the byte ring between two audio threads, and the  *)
(* buffer that puts the blocks of the microphone back in order.            *)
(*                                                                         *)
(* The ring, for every capacity, range of the counters, payload and read   *)
(* size.  The counters are compared modulo the range of size_t and used as *)
(* indices modulo the capacity, so the first lemmas are about remainders.  *)
(* The rest follows from two facts that are inductive together: what each  *)
(* thread believes of the other's counter errs on the safe side            *)
(* (CountersAgree), and what has been copied so far is a copy              *)
(* (CopiesAgree), because no byte is written while it is read.             *)
(*                                                                         *)
(* The buffer, for every depth, number of slots, resync distance and range *)
(* of the sequence numbers, is taken with INSTANCE further down.  It knows *)
(* sequence numbers only, so its lemmas rest on the same remainders: all it*)
(* looks at lies within half of the range, where a number is a position.   *)
(***************************************************************************)
EXTENDS AudioRing, SequenceTheorems, FiniteSetTheorems, TLAPS

(***************************************************************************)
(* Remainders.                                                             *)
(***************************************************************************)

LEMMA ModDef ==
  ASSUME NEW a \in Int, NEW m \in Nat \ {0}
  PROVE  /\ a % m \in 0 .. m - 1
         /\ a \div m \in Int
         /\ a = m * (a \div m) + (a % m)
BY SMT

LEMMA SmallMultiple ==
  ASSUME NEW m \in Nat \ {0}, NEW k \in Int, m * k < m, -m < m * k
  PROVE  k = 0
<1>1. CASE k >= 1
  <2>1. m * k >= m
    BY <1>1
  <2> QED BY <2>1
<1>2. CASE k <= -1
  <2>1. m * k <= -m
    BY <1>2
  <2> QED BY <2>1
<1> QED BY <1>1, <1>2

LEMMA ModUnique ==
  ASSUME NEW m \in Nat \ {0}, NEW q \in Int, NEW r \in 0 .. m - 1
  PROVE  (m * q + r) % m = r
<1> DEFINE a == m * q + r
           d == a \div m - q
<1>1. a \in Int
  OBVIOUS
<1> HIDE DEF a
<1>2. /\ a % m \in 0 .. m - 1
      /\ a \div m \in Int
      /\ a = m * (a \div m) + (a % m)
  BY <1>1, ModDef
<1>3. d \in Int /\ m * d = r - (a % m)
  BY <1>2 DEF a
<1> HIDE DEF d
<1>4. m * d < m /\ -m < m * d
  <2>1. r - (a % m) < m /\ -m < r - (a % m)
    BY <1>2
  <2> QED BY <1>3, <2>1
<1>5. m * d = 0
  <2>1. d = 0
    BY <1>3, <1>4, SmallMultiple
  <2> QED BY <2>1
<1>6. a % m = r
  BY <1>2, <1>3, <1>5
<1> QED BY <1>6 DEF a

\* Multiples of the modulus do not change a remainder.
LEMMA ModShift ==
  ASSUME NEW a \in Int, NEW m \in Nat \ {0}, NEW k \in Int
  PROVE  (a + m * k) % m = a % m
<1> DEFINE q == a \div m
           r == a % m
<1>1. r \in 0 .. m - 1 /\ q \in Int /\ a = m * q + r
  BY ModDef
<1> HIDE DEF q, r
<1>2. a + m * k = m * (q + k) + r
  BY <1>1
<1>3. (m * (q + k) + r) % m = r
  BY <1>1, ModUnique
<1> QED BY <1>2, <1>3 DEF r

LEMMA ModSmall ==
  ASSUME NEW m \in Nat \ {0}, NEW r \in 0 .. m - 1
  PROVE  r % m = r
<1>1. (m * 0 + r) % m = r
  BY ModUnique
<1> QED BY <1>1

\* Numbers less than the modulus apart have different remainders.
LEMMA ModApart ==
  ASSUME NEW a \in Int, NEW b \in Int, NEW m \in Nat \ {0},
         a % m = b % m, a - b < m, -m < a - b
  PROVE  a = b
<1> DEFINE d == a \div m - b \div m
<1>1. /\ a \div m \in Int /\ b \div m \in Int
      /\ a = m * (a \div m) + (a % m) /\ b = m * (b \div m) + (b % m)
      /\ a % m \in Int /\ b % m \in Int
  BY ModDef
<1>2. d \in Int /\ a - b = m * d
  BY <1>1
<1> HIDE DEF d
<1>3. d = 0
  BY <1>2, SmallMultiple
<1>4. m * d = 0
  BY <1>3
<1> QED BY <1>2, <1>4

\* A remainder may be taken early.
LEMMA ModSum ==
  ASSUME NEW a \in Int, NEW k \in Int, NEW m \in Nat \ {0}
  PROVE  ((a % m) + k) % m = (a + k) % m
<1> DEFINE q == a \div m
<1>1. q \in Int /\ a % m \in Int /\ a = m * q + (a % m)
  BY ModDef
<1> HIDE DEF q
<1> DEFINE s == (a % m) + k
<1>2. s \in Int /\ s + m * q = a + k
  BY <1>1
<1> HIDE DEF s
<1>3. (s + m * q) % m = s % m
  BY <1>1, <1>2, ModShift
<1> QED BY <1>2, <1>3 DEF s

LEMMA ModDiff ==
  ASSUME NEW a \in Int, NEW k \in Int, NEW m \in Nat \ {0}
  PROVE  (k - (a % m)) % m = (k - a) % m
<1> DEFINE q == a \div m
<1>1. q \in Int /\ a % m \in Int /\ a = m * q + (a % m)
  BY ModDef
<1> HIDE DEF q
<1> DEFINE s == k - a
<1>2. s \in Int /\ s + m * q = k - (a % m)
  BY <1>1
<1> HIDE DEF s
<1>3. (s + m * q) % m = s % m
  BY <1>1, <1>2, ModShift
<1> QED BY <1>2, <1>3 DEF s

(***************************************************************************)
(* The counters.                                                           *)
(***************************************************************************)

Counter == 0 .. Wrap - 1

LEMMA Sizes ==
  /\ Capacity \in Nat /\ Capacity > 1
  /\ Wrap \in Nat /\ Wrap > 1
  /\ Usable = Capacity - 1
  /\ Capacity <= Wrap
  /\ \E k \in Int : Wrap = Capacity * k
<1>1. /\ Capacity \in Nat /\ Capacity > 1
      /\ Wrap \in Nat /\ Wrap > 1
      /\ Wrap % Capacity = 0
  BY RingAssumption
<1>2. Wrap \div Capacity \in Int /\ Wrap = Capacity * (Wrap \div Capacity)
  BY <1>1, ModDef
<1>3. Capacity <= Wrap
  <2>1. ASSUME Wrap < Capacity PROVE FALSE
    <3>1. Wrap % Capacity = Wrap
      BY <1>1, <2>1, ModSmall
    <3> QED BY <1>1, <3>1
  <2> QED BY <1>1, <2>1
<1> QED BY <1>1, <1>2, <1>3 DEF Usable

\* The distance of two counters, without the remainder.
LEMMA UsedCases ==
  ASSUME NEW w \in Counter, NEW r \in Counter
  PROVE  Used(w, r) = IF r <= w THEN w - r ELSE w - r + Wrap
<1> USE Sizes DEF Counter
<1>1. CASE r <= w
  <2>1. w - r \in 0 .. Wrap - 1
    BY <1>1
  <2> QED BY <1>1, <2>1, ModSmall DEF Used
<1>2. CASE ~(r <= w)
  <2>1. w - r + Wrap \in 0 .. Wrap - 1
    BY <1>2
  <2>2. (w - r + Wrap * 1) % Wrap = (w - r) % Wrap
    BY ModShift
  <2>3. (w - r + Wrap) % Wrap = w - r + Wrap
    BY <2>1, ModSmall
  <2> QED BY <1>2, <2>2, <2>3 DEF Used
<1> QED BY <1>1, <1>2

LEMMA UsedTyped ==
  ASSUME NEW w \in Counter, NEW r \in Counter
  PROVE  Used(w, r) \in Counter
<1>1. w - r \in Int /\ Wrap \in Nat \ {0}
  BY Sizes DEF Counter
<1> QED BY <1>1, ModDef DEF Used, Counter

\* Advancing a counter by less than the ring holds.
LEMMA AdvanceCases ==
  ASSUME NEW w \in Counter, NEW n \in 0 .. Usable
  PROVE  /\ (w + n) % Wrap = IF w + n < Wrap THEN w + n ELSE w + n - Wrap
         /\ (w + n) % Wrap \in Counter
<1>1. /\ Wrap \in Nat \ {0}
      /\ w \in 0 .. Wrap - 1 /\ n \in Nat /\ n < Wrap
  BY Sizes DEF Counter
<1>2. CASE w + n < Wrap
  <2>1. w + n \in 0 .. Wrap - 1
    BY <1>1, <1>2
  <2>2. (w + n) % Wrap = w + n
    BY <1>1, <2>1, ModSmall
  <2> QED BY <1>2, <2>1, <2>2 DEF Counter
<1>3. CASE ~(w + n < Wrap)
  <2> DEFINE x == w + n - Wrap
  <2>1. x \in 0 .. Wrap - 1 /\ x \in Int /\ w + n = x + Wrap * 1
    BY <1>1, <1>3
  <2> HIDE DEF x
  <2>2. (x + Wrap * 1) % Wrap = x % Wrap
    BY <1>1, <2>1, 1 \in Int, ModShift
  <2>3. x % Wrap = x
    BY <1>1, <2>1, ModSmall
  <2>4. (w + n) % Wrap = x
    BY <2>1, <2>2, <2>3
  <2> QED BY <1>3, <2>1, <2>4 DEF Counter, x
<1> QED BY <1>2, <1>3

\* A publication adds to the bytes in use what it publishes, a release takes
\* away what it releases, whatever wraps.
LEMMA UsedAfterPublish ==
  ASSUME NEW w \in Counter, NEW r \in Counter, NEW n \in 0 .. Usable,
         Used(w, r) + n <= Usable
  PROVE  Used((w + n) % Wrap, r) = Used(w, r) + n
<1> DEFINE v == (w + n) % Wrap
<1>1. v \in Counter /\ v = IF w + n < Wrap THEN w + n ELSE w + n - Wrap
  BY AdvanceCases
<1> HIDE DEF v
<1>2. Used(v, r) = IF r <= v THEN v - r ELSE v - r + Wrap
  BY <1>1, UsedCases
<1>3. Used(w, r) = IF r <= w THEN w - r ELSE w - r + Wrap
  BY UsedCases
<1>4. Used(v, r) = Used(w, r) + n
  BY <1>1, <1>2, <1>3, Sizes DEF Counter
<1> QED BY <1>4 DEF v

LEMMA UsedAfterRelease ==
  ASSUME NEW w \in Counter, NEW r \in Counter, NEW n \in 0 .. Usable,
         n <= Used(w, r)
  PROVE  Used(w, (r + n) % Wrap) = Used(w, r) - n
<1> DEFINE v == (r + n) % Wrap
<1>1. v \in Counter /\ v = IF r + n < Wrap THEN r + n ELSE r + n - Wrap
  BY AdvanceCases
<1> HIDE DEF v
<1>2. Used(w, v) = IF v <= w THEN w - v ELSE w - v + Wrap
  BY <1>1, UsedCases
<1>3. Used(w, r) = IF r <= w THEN w - r ELSE w - r + Wrap
  BY UsedCases
<1>4. Used(w, v) = Used(w, r) - n
  BY <1>1, <1>2, <1>3, Sizes DEF Counter
<1> QED BY <1>4 DEF v

\* The counters wrap at a multiple of the capacity, so that an index does not
\* see it.
LEMMA IndexOfWrapped ==
  ASSUME NEW x \in Int
  PROVE  /\ Index(x) \in 0 .. Usable
         /\ Index(x + Wrap) = Index(x)
         /\ Index(x - Wrap) = Index(x)
<1> USE Sizes
<1>1. PICK k \in Int : Wrap = Capacity * k
  OBVIOUS
<1> x - Wrap \in Int /\ Capacity \in Nat \ {0}
  OBVIOUS
<1>2. (x + Capacity * k) % Capacity = x % Capacity
  BY ModShift
<1>3. (x - Wrap + Capacity * k) % Capacity = (x - Wrap) % Capacity
  BY ModShift
<1>4. x % Capacity \in 0 .. Capacity - 1
  BY ModDef
<1>5. x - Wrap + Capacity * k = x
  BY <1>1
<1> QED BY <1>1, <1>2, <1>3, <1>4, <1>5 DEF Index

\* An index counted from an advanced counter is one counted from the old one.
LEMMA IndexOfAdvanced ==
  ASSUME NEW w \in Counter, NEW n \in 0 .. Usable, NEW i \in Int
  PROVE  Index(((w + n) % Wrap) + i) = Index(w + n + i)
<1> DEFINE v == (w + n) % Wrap
<1>1. v = IF w + n < Wrap THEN w + n ELSE w + n - Wrap
  BY AdvanceCases
<1> HIDE DEF v
<1> USE Sizes DEF Counter
<1>2. CASE w + n < Wrap
  BY <1>1, <1>2 DEF v
<1>3. CASE ~(w + n < Wrap)
  <2>1. w + n + i \in Int
    OBVIOUS
  <2>2. Index(w + n + i - Wrap) = Index(w + n + i)
    BY <2>1, IndexOfWrapped
  <2>3. v + i = w + n + i - Wrap
    BY <1>1, <1>3
  <2>4. Index(v + i) = Index(w + n + i)
    BY <2>2, <2>3
  <2> QED BY <2>4 DEF v
<1> QED BY <1>2, <1>3

\* The write position, counted from the read position.
LEMMA IndexOfWrite ==
  ASSUME NEW w \in Counter, NEW r \in Counter, NEW i \in Int
  PROVE  Index(w + i) = Index(r + Used(w, r) + i)
<1> USE Sizes DEF Counter
<1>1. CASE r <= w
  BY <1>1, UsedCases
<1>2. CASE ~(r <= w)
  <2>1. Index(w + i + Wrap) = Index(w + i)
    BY IndexOfWrapped
  <2> QED BY <1>2, <2>1, UsedCases
<1> QED BY <1>1, <1>2

\* Positions less than the capacity apart are different bytes of the buffer.
LEMMA IndexApart ==
  ASSUME NEW x \in Int, NEW y \in Int, x # y,
         x - y < Capacity, -Capacity < x - y
  PROVE  Index(x) # Index(y)
<1>1. Capacity \in Nat \ {0}
  BY Sizes
<1>2. x % Capacity # y % Capacity
  BY <1>1, ModApart
<1> QED BY <1>2 DEF Index

(***************************************************************************)
(* The invariant.                                                          *)
(***************************************************************************)

\* The producer's old value of m_rd makes the ring look fuller than it is, never
\* emptier; the consumer's old value of m_wr makes it look emptier.
CountersAgree ==
  /\ Used(wr, rd) <= Usable
  /\ producer # "idle" => /\ Used(wr, rd) <= Used(wr, seenRd)
                          /\ Used(wr, seenRd) <= Usable
  /\ producer = "copy" => Len(src) + Used(wr, seenRd) <= Usable
  /\ producer # "copy" => copied = 0
  /\ consumer # "idle" => want \in 1 .. Used(wr, rd)
  /\ consumer # "copy" => got = <<>>

\* The bytes copied in are those of the input, and nothing has changed the
\* bytes that were copied out.
CopiesAgree ==
  /\ \A i \in 0 .. copied - 1 : buf[Index(wr + i)] = src[i + 1]
  /\ \A j \in 1 .. Len(got) : got[j] = buf[Index(rd + j - 1)]

IInv == TypeOK /\ CountersAgree /\ CopiesAgree

\* The values the proofs compute with.
LEMMA Typed ==
  ASSUME TypeOK
  PROVE  /\ wr \in Counter /\ rd \in Counter /\ seenRd \in Counter
         /\ Used(wr, rd) \in Counter
         /\ Used(wr, seenRd) \in Counter
         /\ Len(src) \in 0 .. Usable /\ copied \in 0 .. Len(src)
         /\ Len(got) \in 0 .. want /\ want \in 0 .. Usable
         /\ Usable \in Nat \ {0}
<1>1. wr \in Counter /\ rd \in Counter /\ seenRd \in Counter
  BY DEF TypeOK, Counter
<1>2. Used(wr, rd) \in Counter /\ Used(wr, seenRd) \in Counter
  BY <1>1, UsedTyped
<1>3. /\ Len(src) \in 0 .. Usable /\ copied \in 0 .. Len(src)
      /\ Len(got) \in 0 .. want /\ want \in 0 .. Usable
  BY Sizes DEF TypeOK
<1> QED BY <1>1, <1>2, <1>3, Sizes

\* Why no byte is read while it is written: the two ranges lie side by side in
\* the ring and together are smaller than it.
LEMMA Untouched ==
  ASSUME TypeOK, CountersAgree, producer = "copy",
         NEW i \in 0 .. Len(src) - 1, NEW j \in 0 .. Used(wr, rd) - 1
  PROVE  Index(wr + i) # Index(rd + j)
<1> DEFINE u == Used(wr, rd)
<1>1. /\ wr \in Counter /\ rd \in Counter /\ u \in Int
      /\ Len(src) \in Int /\ Len(src) + u <= Usable
  <2> DEFINE seen == Used(wr, seenRd)
  <2>1. /\ wr \in Counter /\ rd \in Counter
        /\ u \in Counter /\ seen \in Counter /\ Len(src) \in 0 .. Usable
    BY Typed
  <2>2. u <= seen /\ Len(src) + seen <= Usable
    BY DEF CountersAgree
  <2> HIDE DEF u, seen
  <2> QED BY <2>1, <2>2, Sizes DEF Counter
<1>2. i \in Int /\ j \in Int /\ Index(wr + i) = Index(rd + u + i)
  BY <1>1, IndexOfWrite
<1> HIDE DEF u
<1>3. Index(rd + u + i) # Index(rd + j)
  <2>1. rd + u + i \in Int /\ rd + j \in Int
    BY <1>1, <1>2, Sizes DEF Counter
  <2>2. i >= 0 /\ j >= 0 /\ j < u /\ i < Len(src)
    BY <1>1 DEF u
  <2>3. /\ (rd + u + i) - (rd + j) > 0
        /\ (rd + u + i) - (rd + j) < Capacity
    BY <1>1, <1>2, <2>2, Sizes DEF Counter
  <2> HIDE DEF u
  <2> QED BY <2>1, <2>3, IndexApart, Sizes
<1> QED BY <1>2, <1>3

LEMMA InitInv == Init => IInv
<1> SUFFICES ASSUME Init PROVE IInv
  OBVIOUS
<1>1. TypeOK
  <2>1. 0 \in Byte /\ 0 \in 0 .. Wrap - 1 /\ 0 \in 0 .. Usable
    BY RingAssumption, Sizes
  <2>2. buf \in [0 .. Usable -> Byte]
    BY <2>1 DEF Init
  <2>3. src \in Seq(Byte) /\ Len(src) = 0 /\ got \in Seq(Byte) /\ Len(got) = 0
        /\ taken \in Seq(Byte)
    BY DEF Init
  <2>4. {wr, rd, seenRd} \subseteq 0 .. Wrap - 1
    BY <2>1 DEF Init
  <2>5. /\ producer \in {"idle", "check", "reload", "copy"}
        /\ consumer \in {"idle", "copy", "drop"}
        /\ mayWait \in BOOLEAN
        /\ copied = 0 /\ want = 0 /\ Usable \in Nat
    BY Sizes DEF Init
  <2> QED BY <2>1, <2>2, <2>3, <2>4, <2>5 DEF TypeOK
<1>2. Used(0, 0) = 0
  BY UsedCases, Sizes DEF Counter
<1>3. CountersAgree /\ CopiesAgree
  BY <1>2, Sizes DEF Init, CountersAgree, CopiesAgree
<1> QED BY <1>1, <1>3 DEF IInv

\* The cut of an oversize input.
LEMMA OfferedFits ==
  ASSUME NEW batch \in Payloads, BeginPush(batch)
  PROVE  src' \in Seq(Byte) /\ Len(src') <= Usable
<1>1. batch \in Seq(Byte) /\ Len(batch) \in Nat
  BY RingAssumption
<1>2. CASE Len(batch) > Usable
  <2> DEFINE m == Len(batch) - Usable + 1
  <2>1. m \in Int /\ m >= 1 /\ Len(batch) - m + 1 = Usable
    BY <1>1, <1>2, Sizes
  <2>2. \A i \in m .. Len(batch) : batch[i] \in Byte
    BY <1>1, <2>1
  <2>3. src' = SubSeq(batch, m, Len(batch))
    BY <1>2 DEF BeginPush
  <2> HIDE DEF m
  <2>4. SubSeq(batch, m, Len(batch)) \in Seq(Byte)
    BY <1>1, <2>1, <2>2, SubSeqProperties
  <2>5. Len(SubSeq(batch, m, Len(batch))) =
          IF m <= Len(batch) THEN Len(batch) - m + 1 ELSE 0
    BY <1>1, <2>1, <2>2, SubSeqProperties
  <2> QED BY <1>1, <2>1, <2>3, <2>4, <2>5, Sizes
<1>3. CASE ~(Len(batch) > Usable)
  BY <1>1, <1>3, Sizes DEF BeginPush
<1> QED BY <1>2, <1>3

LEMMA BeginPushKeepsInv ==
  ASSUME IInv, NEW batch \in Payloads, BeginPush(batch)
  PROVE  IInv'
<1> USE DEF IInv
<1>1. TypeOK'
  <2>1. src' \in Seq(Byte) /\ Len(src') <= Usable
    BY OfferedFits
  <2>2. copied' \in 0 .. Len(src')
    BY <2>1 DEF BeginPush, CountersAgree
  <2> QED BY <2>1, <2>2 DEF BeginPush, TypeOK, cVars
<1>2. CountersAgree'
  <2>1. /\ wr' = wr /\ rd' = rd /\ seenRd' = rd
        /\ producer = "idle" /\ producer' = "check" /\ copied' = copied
        /\ consumer' = consumer /\ want' = want /\ got' = got
    BY DEF BeginPush, cVars
  <2>2. Used(wr, rd) \in Int
    BY Typed, Sizes DEF Counter
  <2> QED BY <2>1, <2>2 DEF CountersAgree
<1>3. CopiesAgree'
  BY DEF BeginPush, CountersAgree, CopiesAgree, cVars
<1> QED BY <1>1, <1>2, <1>3

LEMMA CheckKeepsInv ==
  ASSUME IInv, CheckFree \/ Reload
  PROVE  IInv'
<1> USE DEF IInv
<1>1. /\ wr' = wr /\ rd' = rd /\ buf' = buf
      /\ consumer' = consumer /\ want' = want /\ got' = got /\ taken' = taken
  BY DEF CheckFree, Reload, cVars
<1>2. /\ Used(wr, rd) \in Int /\ Used(wr, seenRd) \in Int
      /\ Len(src) \in Int /\ Usable \in Nat /\ rd \in Counter
  BY Typed, Sizes DEF Counter
<1>3. copied = 0 /\ copied' = 0 /\ producer # "idle"
  BY DEF CheckFree, Reload, EndPush, CountersAgree
<1>4. CASE CheckFree
  <2>1. CASE producer' = "idle"
    <3>1. src' = <<>> /\ mayWait' = FALSE /\ seenRd' = 0
      BY <1>4, <2>1 DEF CheckFree, EndPush
    <3>2. TypeOK'
      <4>1. 0 \in 0 .. Wrap - 1 /\ src' \in Seq(Byte) /\ Len(src') = 0
        BY <3>1, Sizes
      <4>2. {wr', rd', seenRd'} \subseteq 0 .. Wrap - 1
        BY <1>1, <3>1, <4>1 DEF TypeOK
      <4>3. mayWait' \in BOOLEAN
        BY <3>1
      <4>4. copied' \in 0 .. Len(src')
        BY <1>3, <4>1
      <4> QED BY <1>1, <1>2, <2>1, <4>1, <4>2, <4>3, <4>4 DEF TypeOK
    <3>3. CountersAgree'
      BY <1>1, <1>3, <2>1 DEF CountersAgree
    <3>4. CopiesAgree'
      BY <1>1, <1>3 DEF CopiesAgree
    <3> QED BY <3>2, <3>3, <3>4
  <2>2. CASE producer' # "idle"
    <3>1. /\ producer' \in {"copy", "reload"}
          /\ producer' = "copy" => Len(src) <= Usable - Used(wr, seenRd)
          /\ src' = src /\ mayWait' = mayWait /\ seenRd' = seenRd
      BY <1>4, <2>2 DEF CheckFree, Free
    <3>2. TypeOK'
      BY <1>1, <1>3, <3>1 DEF TypeOK
    <3>3. CountersAgree'
      BY <1>1, <1>2, <1>3, <3>1 DEF CountersAgree
    <3>4. CopiesAgree'
      BY <1>1, <1>3 DEF CopiesAgree
    <3> QED BY <3>2, <3>3, <3>4
  <2> QED BY <2>1, <2>2
<1>5. CASE Reload
  <2>1. /\ producer' = "check" /\ src' = src /\ mayWait' = mayWait
        /\ seenRd' = rd
    BY <1>5 DEF Reload
  <2>2. TypeOK'
    <3>1. {wr', rd', seenRd'} \subseteq 0 .. Wrap - 1
      BY <1>1, <2>1 DEF TypeOK
    <3> QED BY <1>1, <1>3, <2>1, <3>1 DEF TypeOK
  <2>3. CountersAgree'
    BY <1>1, <1>2, <1>3, <2>1 DEF CountersAgree
  <2>4. CopiesAgree'
    BY <1>1, <1>3 DEF CopiesAgree
  <2> QED BY <2>2, <2>3, <2>4
<1> QED BY <1>4, <1>5

LEMMA CopyInKeepsInv ==
  ASSUME IInv, CopyIn
  PROVE  IInv'
<1> USE DEF IInv
<1> DEFINE at == Index(wr + copied)
<1>1. /\ wr' = wr /\ rd' = rd /\ seenRd' = seenRd /\ src' = src
      /\ producer = "copy" /\ producer' = producer /\ mayWait' = mayWait
      /\ consumer' = consumer /\ want' = want /\ got' = got /\ taken' = taken
      /\ copied < Len(src) /\ copied' = copied + 1
      /\ buf' = [buf EXCEPT ![at] = src[copied + 1]]
  BY DEF CopyIn, cVars
<1>2. /\ wr \in Counter /\ rd \in Counter /\ copied \in Nat
      /\ Len(src) \in 0 .. Usable /\ Used(wr, rd) \in Nat
      /\ Len(got) \in Nat /\ Len(got) <= want /\ want \in Nat
      /\ wr \in Int /\ rd \in Int /\ Usable < Capacity
      /\ Usable \in Nat /\ Capacity \in Nat
  BY Typed, Sizes DEF Counter
<1>3. wr + copied \in Int /\ at \in 0 .. Usable
  <2>1. wr + copied \in Int
    BY <1>2
  <2> QED BY <2>1, IndexOfWrapped
<1>4. buf \in [0 .. Usable -> Byte] /\ src \in Seq(Byte)
  BY DEF TypeOK
<1>5. src[copied + 1] \in Byte
  BY <1>1, <1>2, <1>4, ElementOfSeq
<1> HIDE DEF at
<1>6. TypeOK'
  <2>1. buf' \in [0 .. Usable -> Byte]
    BY <1>1, <1>4, <1>5
  <2>2. copied' \in 0 .. Len(src')
    BY <1>1, <1>2
  <2> QED BY <1>1, <2>1, <2>2 DEF TypeOK
<1>7. CountersAgree'
  BY <1>1 DEF CountersAgree
<1>8. ASSUME NEW i \in 0 .. copied' - 1
      PROVE  buf'[Index(wr' + i)] = src'[i + 1]
  <2>1. CASE i = copied
    BY <1>1, <1>3, <1>4, <2>1 DEF at
  <2>2. CASE i # copied
    <3>1. i \in Int /\ 0 <= i /\ i < copied
      BY <1>1, <1>2, <2>2
    <3>2. /\ wr + i \in Int /\ wr + i # wr + copied
          /\ (wr + i) - (wr + copied) < Capacity
          /\ -Capacity < (wr + i) - (wr + copied)
      BY <1>1, <1>2, <3>1
    <3>3. Index(wr + i) # at
      BY <1>3, <3>2, IndexApart DEF at
    <3>4. Index(wr + i) \in 0 .. Usable
      BY <3>2, IndexOfWrapped
    <3>5. buf[Index(wr + i)] = src[i + 1]
      <4>1. i \in 0 .. copied - 1
        BY <1>2, <3>1
      <4> QED BY <4>1 DEF CopiesAgree
    <3>6. buf'[Index(wr + i)] = buf[Index(wr + i)]
      BY <1>1, <1>4, <3>3, <3>4
    <3> QED BY <1>1, <3>5, <3>6
  <2> QED BY <2>1, <2>2
<1>9. ASSUME NEW j \in 1 .. Len(got')
      PROVE  got'[j] = buf'[Index(rd' + j - 1)]
  <2>1. consumer = "copy"
    BY <1>1, <1>2 DEF CountersAgree
  <2>2. /\ j \in 1 .. Len(got) /\ j - 1 \in 0 .. Used(wr, rd) - 1
        /\ rd + j - 1 \in Int /\ rd + (j - 1) = rd + j - 1
    BY <1>1, <1>2, <2>1 DEF CountersAgree
  <2>3. copied \in 0 .. Len(src) - 1
    BY <1>1, <1>2
  <2>4. at # Index(rd + (j - 1))
    BY <1>1, <2>2, <2>3, Untouched DEF at
  <2>5. Index(rd + j - 1) \in 0 .. Usable /\ at # Index(rd + j - 1)
    BY <2>2, <2>4, IndexOfWrapped
  <2>6. got[j] = buf[Index(rd + j - 1)]
    BY <2>2 DEF CopiesAgree
  <2> QED BY <1>1, <1>4, <2>5, <2>6
<1>10. CopiesAgree'
  BY <1>8, <1>9 DEF CopiesAgree
<1> QED BY <1>6, <1>7, <1>10

LEMMA PublishKeepsInv ==
  ASSUME IInv, Publish
  PROVE  IInv'
<1> USE DEF IInv
<1>1. /\ wr' = (wr + copied) % Wrap
      /\ rd' = rd /\ buf' = buf /\ seenRd' = 0 /\ src' = <<>>
      /\ producer = "copy" /\ producer' = "idle" /\ mayWait' = FALSE
      /\ copied = Len(src) /\ copied' = 0
      /\ consumer' = consumer /\ want' = want /\ got' = got /\ taken' = taken
  BY DEF Publish, EndPush, cVars
<1>2. /\ wr \in Counter /\ rd \in Counter /\ copied \in 0 .. Usable
      /\ Used(wr, rd) \in Nat /\ Used(wr, seenRd) \in Nat
      /\ want \in Nat /\ Usable \in Nat
  BY <1>1, Typed, Sizes DEF Counter
<1>3. Used(wr, rd) + copied <= Usable
  BY <1>1, <1>2 DEF CountersAgree
<1>4. wr' \in Counter
  BY <1>1, <1>2, AdvanceCases
<1>5. Used(wr', rd') = Used(wr, rd) + copied
  BY <1>1, <1>2, <1>3, UsedAfterPublish
<1>6. TypeOK'
  <2>1. 0 \in 0 .. Wrap - 1 /\ src' \in Seq(Byte) /\ Len(src') = 0
    BY <1>1, Sizes
  <2>2. {wr', rd', seenRd'} \subseteq 0 .. Wrap - 1
    BY <1>1, <1>2, <1>4, <2>1 DEF Counter
  <2>3. mayWait' \in BOOLEAN
    BY <1>1
  <2>4. copied' \in 0 .. Len(src')
    BY <1>1, <2>1
  <2> QED BY <1>1, <1>2, <2>1, <2>2, <2>3, <2>4 DEF TypeOK
<1>7. CountersAgree'
  BY <1>1, <1>2, <1>3, <1>5 DEF CountersAgree
<1>8. CopiesAgree'
  BY <1>1 DEF CopiesAgree
<1> QED BY <1>6, <1>7, <1>8

LEMMA BeginTakeKeepsInv ==
  ASSUME IInv, NEW n \in Lengths, NEW how \in {"copy", "drop"},
         BeginTake(n, how)
  PROVE  IInv'
<1> USE DEF IInv
<1>1. /\ wr' = wr /\ rd' = rd /\ seenRd' = seenRd /\ buf' = buf
      /\ src' = src /\ copied' = copied /\ mayWait' = mayWait
      /\ producer' = producer /\ taken' = taken /\ got' = got
      /\ consumer = "idle" /\ consumer' = how
      /\ Used(wr, rd) > 0
      /\ want' = IF n < Used(wr, rd) THEN n ELSE Used(wr, rd)
  BY DEF BeginTake, pVars
<1>2. Used(wr, rd) \in Nat /\ Usable \in Nat /\ n \in Nat \ {0}
  BY Typed, Sizes, RingAssumption DEF Counter
<1>3. got = <<>> /\ Len(got) = 0 /\ Used(wr, rd) <= Usable
  BY <1>1 DEF CountersAgree
<1>4. want' \in 1 .. Used(wr, rd) /\ want' \in 0 .. Usable
  BY <1>1, <1>2, <1>3
<1>5. TypeOK'
  BY <1>1, <1>3, <1>4 DEF TypeOK
<1>6. CountersAgree'
  BY <1>1, <1>3, <1>4 DEF CountersAgree
<1>7. CopiesAgree'
  BY <1>1 DEF CopiesAgree
<1> QED BY <1>5, <1>6, <1>7

LEMMA CopyOutKeepsInv ==
  ASSUME IInv, CopyOut
  PROVE  IInv'
<1> USE DEF IInv
<1> DEFINE byte == buf[Index(rd + Len(got))]
<1>1. /\ wr' = wr /\ rd' = rd /\ seenRd' = seenRd /\ buf' = buf
      /\ src' = src /\ copied' = copied /\ mayWait' = mayWait
      /\ producer' = producer /\ taken' = taken /\ want' = want
      /\ consumer = "copy" /\ consumer' = consumer
      /\ Len(got) < want /\ got' = Append(got, byte)
  BY DEF CopyOut, pVars
<1>2. /\ Len(got) \in Nat /\ want \in Nat /\ rd \in Int
      /\ got \in Seq(Byte) /\ buf \in [0 .. Usable -> Byte]
  BY Typed, Sizes DEF Counter, TypeOK
<1>3. byte \in Byte
  <2>1. rd + Len(got) \in Int
    BY <1>2
  <2>2. Index(rd + Len(got)) \in 0 .. Usable
    BY <2>1, IndexOfWrapped
  <2> QED BY <1>2, <2>2
<1>4. byte = buf[Index(rd + (Len(got) + 1) - 1)]
  <2>1. rd + (Len(got) + 1) - 1 = rd + Len(got)
    BY <1>2
  <2> QED BY <2>1
<1> HIDE DEF byte
<1>5. /\ got' \in Seq(Byte) /\ Len(got') = Len(got) + 1
      /\ \A j \in 1 .. Len(got) : got'[j] = got[j]
      /\ got'[Len(got) + 1] = byte
  BY <1>1, <1>2, <1>3, AppendProperties
<1>6. TypeOK'
  BY <1>1, <1>2, <1>5 DEF TypeOK
<1>7. CountersAgree'
  BY <1>1 DEF CountersAgree
<1>8. ASSUME NEW j \in 1 .. Len(got')
      PROVE  got'[j] = buf'[Index(rd' + j - 1)]
  <2>1. CASE j = Len(got) + 1
    BY <1>1, <1>4, <1>5, <2>1
  <2>2. CASE j # Len(got) + 1
    <3>1. j \in 1 .. Len(got)
      BY <1>2, <1>5, <2>2
    <3> QED BY <1>1, <1>5, <3>1 DEF CopiesAgree
  <2> QED BY <2>1, <2>2
<1>9. CopiesAgree'
  BY <1>1, <1>8 DEF CopiesAgree
<1> QED BY <1>6, <1>7, <1>9

LEMMA ReleaseKeepsInv ==
  ASSUME IInv, Return \/ DropOldest
  PROVE  IInv'
<1> USE DEF IInv
<1>1. /\ wr' = wr /\ seenRd' = seenRd /\ buf' = buf
      /\ src' = src /\ copied' = copied /\ mayWait' = mayWait
      /\ producer' = producer /\ taken' \in {taken, got}
      /\ consumer # "idle" /\ consumer' = "idle"
      /\ rd' = (rd + want) % Wrap /\ want' = 0 /\ got' = <<>>
  BY DEF Return, DropOldest, Release, pVars
<1>2. /\ wr \in Counter /\ rd \in Counter /\ seenRd \in Counter
      /\ want \in 0 .. Usable /\ want \in Nat /\ Usable \in Nat
      /\ Used(wr, rd) \in Nat /\ Used(wr, seenRd) \in Nat
  BY Typed, Sizes DEF Counter
<1>3. want <= Used(wr, rd)
  BY <1>1, <1>2 DEF CountersAgree
<1>4. rd' \in Counter /\ Used(wr', rd') = Used(wr, rd) - want
  BY <1>1, <1>2, <1>3, AdvanceCases, UsedAfterRelease
<1>5. TypeOK'
  <2>1. got' \in Seq(Byte) /\ Len(got') = 0 /\ taken' \in Seq(Byte)
    BY <1>1 DEF TypeOK
  <2>2. {wr', rd', seenRd'} \subseteq 0 .. Wrap - 1
    BY <1>1, <1>2, <1>4 DEF Counter
  <2> QED BY <1>1, <1>2, <2>1, <2>2 DEF TypeOK
<1>6. CountersAgree'
  BY <1>1, <1>2, <1>4 DEF CountersAgree
<1>7. CopiesAgree'
  <2>1. Len(got') = 0
    BY <1>1
  <2> QED BY <1>1, <2>1 DEF CopiesAgree
<1> QED BY <1>5, <1>6, <1>7

LEMMA NextInv == IInv /\ [Next]_vars => IInv'
<1> SUFFICES ASSUME IInv, [Next]_vars PROVE IInv'
  OBVIOUS
<1>1. CASE \E batch \in Payloads : BeginPush(batch)
  BY <1>1, BeginPushKeepsInv
<1>2. CASE CheckFree \/ Reload
  BY <1>2, CheckKeepsInv
<1>3. CASE CopyIn
  BY <1>3, CopyInKeepsInv
<1>4. CASE Publish
  BY <1>4, PublishKeepsInv
<1>5. CASE \E n \in Lengths, how \in {"copy", "drop"} : BeginTake(n, how)
  BY <1>5, BeginTakeKeepsInv
<1>6. CASE CopyOut
  BY <1>6, CopyOutKeepsInv
<1>7. CASE Return \/ DropOldest
  BY <1>7, ReleaseKeepsInv
<1>8. CASE UNCHANGED vars
  BY <1>8 DEF vars, pVars, cVars, IInv, TypeOK, CountersAgree, CopiesAgree,
              Used, Index
<1> QED BY <1>1, <1>2, <1>3, <1>4, <1>5, <1>6, <1>7, <1>8 DEF Next

\* What each thread of the ring believes, at every step of the other.
THEOREM Invariance == Spec => []IInv
BY InitInv, NextInv, PTL DEF Spec

\* No byte of the ring is read while it is written, and the counters stay inside
\* size_t: a producer and a consumer that each work with an old value of the
\* other's counter, on a ring whose counters wrap, in every interleaving.
THEOREM RingHolds == Spec => []RingInv
<1>1. IInv => RingInv
  BY Untouched DEF IInv, RingInv, RaceFree
<1> QED BY <1>1, Invariance, PTL

(***************************************************************************)
(* Frames.                                                                 *)
(***************************************************************************)

Whole(x) == x % Frame = 0

LEMMA WholeMultiple ==
  ASSUME NEW x \in Int
  PROVE  Whole(x) <=> \E k \in Int : x = Frame * k
<1>1. Frame \in Nat \ {0}
  BY RingAssumption
<1>2. ASSUME Whole(x) PROVE \E k \in Int : x = Frame * k
  <2>1. x \div Frame \in Int /\ x = Frame * (x \div Frame) + (x % Frame)
    BY <1>1, ModDef
  <2>2. x = Frame * (x \div Frame)
    BY <1>1, <1>2, <2>1 DEF Whole
  <2> QED BY <2>1, <2>2
<1>3. ASSUME NEW k \in Int, x = Frame * k PROVE Whole(x)
  <2>1. 0 \in 0 .. Frame - 1
    BY <1>1
  <2>2. (Frame * k + 0) % Frame = 0
    BY <1>1, <2>1, ModUnique
  <2>3. Frame * k + 0 = x
    BY <1>1, <1>3
  <2> QED BY <2>2, <2>3 DEF Whole
<1> QED BY <1>2, <1>3

LEMMA WholeSums ==
  ASSUME NEW x \in Int, NEW y \in Int, Whole(x), Whole(y)
  PROVE  Whole(x + y) /\ Whole(x - y)
<1>1. Frame \in Nat \ {0}
  BY RingAssumption
<1>2. PICK k \in Int : x = Frame * k
  BY WholeMultiple
<1>3. PICK l \in Int : y = Frame * l
  BY WholeMultiple
<1>4. /\ k + l \in Int /\ x + y \in Int /\ x + y = Frame * (k + l)
      /\ k - l \in Int /\ x - y \in Int /\ x - y = Frame * (k - l)
  BY <1>1, <1>2, <1>3
<1> QED BY <1>4, WholeMultiple

\* The counters and what a call under way adds to them are whole frames.
Aligned == Whole(wr) /\ Whole(rd) /\ Whole(Len(src)) /\ Whole(want)

LEMMA AdvanceStaysWhole ==
  ASSUME Whole(Wrap), NEW w \in Counter, NEW n \in 0 .. Usable,
         Whole(w), Whole(n)
  PROVE  Whole((w + n) % Wrap)
<1>1. w \in Int /\ n \in Int /\ w + n \in Int /\ Wrap \in Int
  BY Sizes DEF Counter
<1>2. Whole(w + n) /\ Whole(w + n - Wrap)
  <2>1. Whole(w + n)
    BY <1>1, WholeSums
  <2> QED BY <1>1, <2>1, WholeSums
<1>3. \/ (w + n) % Wrap = w + n
      \/ (w + n) % Wrap = w + n - Wrap
  BY AdvanceCases
<1> QED BY <1>2, <1>3

LEMMA UsedIsWhole ==
  ASSUME Whole(Wrap), NEW w \in Counter, NEW r \in Counter,
         Whole(w), Whole(r)
  PROVE  Whole(Used(w, r))
<1>1. w \in Int /\ r \in Int /\ w - r \in Int /\ Wrap \in Int
  BY Sizes DEF Counter
<1>2. Whole(w - r) /\ Whole(w - r + Wrap)
  <2>1. Whole(w - r)
    BY <1>1, WholeSums
  <2> QED BY <1>1, <2>1, WholeSums
<1>3. Used(w, r) = w - r \/ Used(w, r) = w - r + Wrap
  BY UsedCases
<1> QED BY <1>2, <1>3

LEMMA AlignedInit == Init => Aligned
<1>1. Whole(0)
  <2>1. 0 \in Int /\ 0 = Frame * 0
    BY RingAssumption
  <2> QED BY <2>1, WholeMultiple
<1>2. Len(<<>>) = 0
  OBVIOUS
<1> QED BY <1>1, <1>2 DEF Init, Aligned

LEMMA AlignedNext ==
  ASSUME FramesFit, IInv, Aligned, [Next]_vars
  PROVE  Aligned'
<1> USE DEF IInv, Aligned
<1>1. /\ Whole(0) /\ Len(<<>>) = 0 /\ Whole(Wrap)
  <2>1. 0 \in Int /\ 0 = Frame * 0 /\ Len(<<>>) = 0
    BY RingAssumption
  <2> QED BY <2>1, WholeMultiple DEF FramesFit, Whole
<1>2. ASSUME NEW batch \in Payloads, BeginPush(batch) PROVE Aligned'
  <2>1. Len(batch) \in Nat /\ Len(batch) <= Usable /\ Usable \in Nat
    BY RingAssumption, Sizes DEF FramesFit
  <2>2. Len(batch) \in Lengths \cup {Len(p) : p \in Payloads}
    OBVIOUS
  <2>3. Whole(Len(batch))
    BY <2>2, RingAssumption DEF Whole
  <2>4. src' = batch /\ wr' = wr /\ rd' = rd /\ want' = want
    BY <1>2, <2>1 DEF BeginPush, cVars
  <2> QED BY <2>3, <2>4
<1>3. CASE CheckFree \/ Reload \/ CopyIn
  <2>1. /\ wr' = wr /\ rd' = rd /\ want' = want
        /\ src' = src \/ src' = <<>>
    BY <1>3 DEF CheckFree, EndPush, Reload, CopyIn, cVars
  <2> QED BY <1>1, <2>1
<1>4. CASE Publish
  <2>1. /\ wr' = (wr + Len(src)) % Wrap /\ rd' = rd /\ want' = want
        /\ src' = <<>>
    BY <1>4 DEF Publish, EndPush, cVars
  <2>2. wr \in Counter /\ Len(src) \in 0 .. Usable
    BY Typed
  <2>3. Whole(wr')
    BY <1>1, <2>1, <2>2, AdvanceStaysWhole
  <2> QED BY <1>1, <2>1, <2>3
<1>5. ASSUME NEW n \in Lengths, NEW how \in {"copy", "drop"}, BeginTake(n, how)
      PROVE  Aligned'
  <2>1. /\ want' \in {n, Used(wr, rd)}
        /\ wr' = wr /\ rd' = rd /\ src' = src
    BY <1>5 DEF BeginTake, pVars
  <2>2. n \in Lengths \cup {Len(p) : p \in Payloads}
    OBVIOUS
  <2>3. Whole(n)
    BY <2>2, RingAssumption DEF Whole
  <2>4. Whole(Used(wr, rd))
    BY <1>1, Typed, UsedIsWhole
  <2> QED BY <2>1, <2>3, <2>4
<1>6. CASE CopyOut
  BY <1>6 DEF CopyOut, pVars
<1>7. CASE Return \/ DropOldest
  <2>1. /\ rd' = (rd + want) % Wrap /\ wr' = wr /\ src' = src /\ want' = 0
    BY <1>7 DEF Return, DropOldest, Release, pVars
  <2>2. rd \in Counter /\ want \in 0 .. Usable
    BY Typed
  <2>3. Whole(rd')
    BY <1>1, <2>1, <2>2, AdvanceStaysWhole
  <2> QED BY <1>1, <2>1, <2>3
<1>8. CASE UNCHANGED vars
  BY <1>8 DEF vars, pVars, cVars
<1> QED BY <1>2, <1>3, <1>4, <1>5, <1>6, <1>7, <1>8 DEF Next

\* A ring whose inputs are whole frames that fit it never hands out half a
\* frame: both counters stay on a frame boundary, however often the ring is full
\* and whatever the consumer drops.
THEOREM FramesHold == Spec => []FramesStayWhole
<1>1. Init => (FramesFit => Aligned)
  BY AlignedInit
<1>2. IInv /\ (FramesFit => Aligned) /\ [Next]_vars => (FramesFit => Aligned)'
  BY AlignedNext
<1>3. (FramesFit => Aligned) => FramesStayWhole
  BY DEF Aligned, Whole, FramesStayWhole
<1> QED BY <1>1, <1>2, <1>3, Invariance, PTL DEF Spec

(***************************************************************************)
(* The queue.  A push is offered, then accepted or taken back; a copied    *)
(* byte changes nothing that the queue shows.                              *)
(***************************************************************************)

Readable(b, w, r) == [k \in 1 .. Used(w, r) |-> b[Index(r + k - 1)]]

LEMMA ReadableBytes ==
  ASSUME NEW b \in [0 .. Usable -> Byte], NEW w \in Counter, NEW r \in Counter
  PROVE  /\ Readable(b, w, r) \in Seq(Byte)
         /\ Len(Readable(b, w, r)) = Used(w, r)
         /\ \A k \in 1 .. Used(w, r) : Readable(b, w, r)[k] = b[Index(r + k - 1)]
<1>1. Used(w, r) \in Nat /\ r \in Int
  <2>1. Used(w, r) \in Counter
    BY UsedTyped
  <2> QED BY <2>1, Sizes DEF Counter
<1>2. ASSUME NEW k \in 1 .. Used(w, r) PROVE b[Index(r + k - 1)] \in Byte
  <2>1. r + k - 1 \in Int
    BY <1>1
  <2>2. Index(r + k - 1) \in 0 .. Usable
    BY <2>1, IndexOfWrapped
  <2> QED BY <2>2
<1>3. Readable(b, w, r) \in [1 .. Used(w, r) -> Byte]
  BY <1>2 DEF Readable
<1> QED BY <1>1, <1>3 DEF Readable

\* Contents in this step and in the next.
LEMMA ContentsBytes ==
  ASSUME IInv
  PROVE  /\ Contents = Readable(buf, wr, rd)
         /\ Contents \in Seq(Byte)
         /\ Len(Contents) = Used(wr, rd)
         /\ Len(Contents) \in 0 .. Usable
         /\ \A k \in 1 .. Used(wr, rd) : Contents[k] = buf[Index(rd + k - 1)]
<1>1. Contents = Readable(buf, wr, rd)
  BY DEF Contents, Readable
<1>2. buf \in [0 .. Usable -> Byte] /\ wr \in Counter /\ rd \in Counter
  BY Typed DEF IInv, TypeOK
<1>3. Used(wr, rd) \in 0 .. Usable
  BY Typed, Sizes DEF IInv, CountersAgree, Counter
<1> QED BY <1>1, <1>2, <1>3, ReadableBytes

\* A byte copied in is not one of those the consumer may read.
LEMMA CopyInKeepsContents ==
  ASSUME IInv, CopyIn
  PROVE  Contents' = Contents
<1> USE DEF IInv
<1> DEFINE at == Index(wr + copied)
<1>1. /\ wr' = wr /\ rd' = rd /\ producer = "copy"
      /\ copied \in 0 .. Len(src) - 1
      /\ buf' = [buf EXCEPT ![at] = src[copied + 1]]
      /\ buf \in [0 .. Usable -> Byte]
  BY Typed, Sizes DEF CopyIn, cVars, TypeOK
<1>2. ASSUME NEW k \in 1 .. Used(wr, rd)
      PROVE  buf'[Index(rd + k - 1)] = buf[Index(rd + k - 1)]
  <2>1. /\ k - 1 \in 0 .. Used(wr, rd) - 1
        /\ rd + k - 1 \in Int /\ rd + (k - 1) = rd + k - 1
    <3> DEFINE u == Used(wr, rd)
    <3>1. rd \in Counter /\ u \in Counter
      BY Typed
    <3>2. k \in 1 .. u
      OBVIOUS
    <3> HIDE DEF u
    <3>3. rd \in Int /\ u \in Int
      BY <3>1, Sizes DEF Counter
    <3>4. /\ k - 1 \in 0 .. u - 1
          /\ rd + k - 1 \in Int /\ rd + (k - 1) = rd + k - 1
      BY <3>2, <3>3
    <3> QED BY <3>4 DEF u
  <2>2. at # Index(rd + (k - 1))
    BY <1>1, <2>1, Untouched
  <2>3. Index(rd + k - 1) \in 0 .. Usable /\ at # Index(rd + k - 1)
    BY <2>1, <2>2, IndexOfWrapped
  <2> HIDE DEF at
  <2> QED BY <1>1, <2>3
<1>3. Contents' = [k \in 1 .. Used(wr, rd) |-> buf'[Index(rd + k - 1)]]
  BY <1>1 DEF Contents
<1> QED BY <1>2, <1>3 DEF Contents

LEMMA PublishAccepts ==
  ASSUME IInv, IInv', Publish
  PROVE  Queue!Accept
<1> USE DEF IInv
<1> DEFINE u == Used(wr, rd)
<1>1. /\ wr' = (wr + copied) % Wrap /\ rd' = rd /\ buf' = buf
      /\ producer = "copy" /\ copied = Len(src)
      /\ src' = <<>> /\ taken' = taken
  BY DEF Publish, EndPush, cVars
<1>2. /\ wr \in Counter /\ rd \in Counter /\ wr' \in Counter
      /\ copied \in 0 .. Usable /\ copied \in Nat
      /\ u \in Nat /\ Used(wr, seenRd) \in Nat /\ Usable \in Nat /\ rd \in Int
      /\ src \in Seq(Byte) /\ buf \in [0 .. Usable -> Byte]
  <2>1. /\ wr \in Counter /\ rd \in Counter
        /\ u \in Counter /\ Used(wr, seenRd) \in Counter
        /\ copied \in 0 .. Usable
    BY <1>1, Typed
  <2>2. wr' \in Counter
    BY <1>1, <2>1, AdvanceCases
  <2>3. src \in Seq(Byte) /\ buf \in [0 .. Usable -> Byte]
    BY DEF TypeOK
  <2> HIDE DEF u
  <2> QED BY <2>1, <2>2, <2>3, Sizes DEF Counter
<1>3. u + copied <= Usable
  BY <1>1, <1>2 DEF CountersAgree
<1>4. Used(wr', rd') = u + copied
  BY <1>1, <1>2, <1>3, UsedAfterPublish
<1>5. /\ Contents \in Seq(Byte) /\ Len(Contents) = u
      /\ \A k \in 1 .. u : Contents[k] = buf[Index(rd + k - 1)]
  BY ContentsBytes
<1>6. /\ Contents' \in Seq(Byte) /\ Len(Contents') = u + copied
      /\ \A k \in 1 .. u + copied : Contents'[k] = buf[Index(rd + k - 1)]
  <2>1. Contents' = Readable(buf, wr', rd)
    BY <1>1 DEF Contents, Readable
  <2>2. Used(wr', rd) = u + copied
    BY <1>1, <1>4
  <2>3. wr' \in Counter /\ rd \in Counter /\ buf \in [0 .. Usable -> Byte]
    BY <1>2
  <2>4. /\ Readable(buf, wr', rd) \in Seq(Byte)
        /\ Len(Readable(buf, wr', rd)) = Used(wr', rd)
        /\ \A k \in 1 .. Used(wr', rd) :
             Readable(buf, wr', rd)[k] = buf[Index(rd + k - 1)]
    BY <2>3, ReadableBytes
  <2> HIDE DEF u
  <2> QED BY <1>1, <2>1, <2>2, <2>4, Zenon
<1>7. ASSUME NEW k \in u + 1 .. u + copied
      PROVE  buf[Index(rd + k - 1)] = src[k - u]
  <2> DEFINE i == k - u - 1
  <2>1. /\ i \in 0 .. copied - 1 /\ i \in Int /\ i + 1 = k - u
        /\ rd + u + i = rd + k - 1
    <3> HIDE DEF u
    <3> QED BY <1>2
  <2> HIDE DEF i, u
  <2>2. Index(wr + i) = Index(rd + u + i)
    BY <1>2, <2>1, IndexOfWrite DEF u
  <2>3. buf[Index(wr + i)] = src[i + 1]
    BY <2>1 DEF CopiesAgree
  <2> QED BY <2>1, <2>2, <2>3
<1> HIDE DEF u
<1>8. Contents' = Contents \o src
  <2>1. /\ Contents \o src \in Seq(Byte)
        /\ Len(Contents \o src) = u + copied
        /\ \A k \in 1 .. u + copied : (Contents \o src)[k] =
             IF k <= u THEN Contents[k] ELSE src[k - u]
    BY <1>1, <1>2, <1>5, ConcatProperties
  <2>2. ASSUME NEW k \in 1 .. u + copied PROVE Contents'[k] = (Contents \o src)[k]
    <3>1. CASE k <= u
      <4>1. k \in 1 .. u
        BY <1>2, <3>1
      <4> QED BY <1>5, <1>6, <2>1, <3>1, <4>1
    <3>2. CASE ~(k <= u)
      <4>1. k \in u + 1 .. u + copied
        BY <1>2, <3>2
      <4> QED BY <1>6, <1>7, <2>1, <3>2, <4>1
    <3> QED BY <3>1, <3>2
  <2> QED BY <1>6, <2>1, <2>2, SeqEqual
<1>9. Len(Contents) + Len(src) <= Usable
  BY <1>1, <1>3, <1>5
<1> QED BY <1>1, <1>8, <1>9 DEF Queue!Accept

\* The consumer goes on behind what it took or dropped.
LEMMA ReleaseTakes ==
  ASSUME IInv, Return \/ DropOldest
  PROVE  /\ want \in 1 .. Len(Contents)
         /\ Contents' = SubSeq(Contents, want + 1, Len(Contents))
<1> USE DEF IInv
<1> DEFINE u == Used(wr, rd)
<1>1. /\ rd' = (rd + want) % Wrap /\ wr' = wr /\ buf' = buf
      /\ consumer # "idle"
  BY DEF Return, DropOldest, Release, pVars
<1>2. /\ wr \in Counter /\ rd \in Counter /\ u \in Counter
      /\ want \in 0 .. Usable /\ want \in 1 .. u
      /\ buf \in [0 .. Usable -> Byte]
  BY <1>1, Typed DEF CountersAgree, TypeOK
<1>3. u \in Nat /\ rd \in Int /\ want \in Nat /\ want >= 1 /\ want <= u
  <2> HIDE DEF u
  <2> QED BY <1>2, Sizes DEF Counter
<1>4. rd' \in Counter
  BY <1>1, <1>2, AdvanceCases
<1>5. Used(wr', rd') = u - want
  BY <1>1, <1>2, <1>3, UsedAfterRelease
<1>6. /\ Contents \in Seq(Byte) /\ Len(Contents) = u
      /\ \A k \in 1 .. u : Contents[k] = buf[Index(rd + k - 1)]
  BY ContentsBytes
<1>7. /\ Contents' \in Seq(Byte) /\ Len(Contents') = u - want
      /\ \A k \in 1 .. u - want : Contents'[k] = buf[Index(rd' + k - 1)]
  <2>1. Contents' = Readable(buf, wr, rd')
    BY <1>1 DEF Contents, Readable
  <2>2. Used(wr, rd') = u - want
    BY <1>1, <1>5
  <2>3. wr \in Counter /\ rd' \in Counter /\ buf \in [0 .. Usable -> Byte]
    BY <1>2, <1>4
  <2>4. /\ Readable(buf, wr, rd') \in Seq(Byte)
        /\ Len(Readable(buf, wr, rd')) = Used(wr, rd')
        /\ \A k \in 1 .. Used(wr, rd') :
             Readable(buf, wr, rd')[k] = buf[Index(rd' + k - 1)]
    BY <2>3, ReadableBytes
  <2> HIDE DEF u
  <2> QED BY <2>1, <2>2, <2>4, Zenon
<1> HIDE DEF u
<1>8. ASSUME NEW k \in 1 .. u - want
      PROVE  Index(rd' + k - 1) = Index(rd + (want + k) - 1)
  <2>1. k - 1 \in Int
    OBVIOUS
  <2>2. Index(((rd + want) % Wrap) + (k - 1)) = Index(rd + want + (k - 1))
    BY <1>2, <2>1, IndexOfAdvanced
  <2>3. rd' \in Int
    BY <1>4, Sizes DEF Counter
  <2>4. /\ rd' + k - 1 = rd' + (k - 1)
        /\ rd + (want + k) - 1 = rd + want + (k - 1)
    BY <1>3, <2>3
  <2> QED BY <1>1, <2>2, <2>4
<1> DEFINE rest == SubSeq(Contents, want + 1, Len(Contents))
<1>9. /\ rest \in Seq(Byte) /\ Len(rest) = u - want
      /\ \A k \in 1 .. u - want : rest[k] = Contents[want + k]
  <2>1. want + 1 \in Int /\ u \in Int /\ u - (want + 1) + 1 = u - want
    BY <1>3
  <2>2. \A k \in want + 1 .. u : Contents[k] \in Byte
    BY <1>3, <1>6
  <2>3. /\ rest \in Seq(Byte)
        /\ Len(rest) = IF want + 1 <= u THEN u - (want + 1) + 1 ELSE 0
        /\ \A k \in 1 .. u - (want + 1) + 1 :
             rest[k] = Contents[(want + 1) + k - 1]
    BY <1>6, <2>1, <2>2, SubSeqProperties
  <2> HIDE DEF rest
  <2>4. Len(rest) = u - want
    BY <1>3, <2>1, <2>3
  <2>5. ASSUME NEW k \in 1 .. u - want PROVE rest[k] = Contents[want + k]
    <3>1. (want + 1) + k - 1 = want + k
      BY <1>3
    <3> QED BY <2>1, <2>3, <3>1
  <2> QED BY <2>3, <2>4, <2>5
<1> HIDE DEF rest
<1>10. ASSUME NEW k \in 1 .. u - want PROVE Contents'[k] = rest[k]
  <2>1. want + k \in 1 .. u
    BY <1>3
  <2> QED BY <1>6, <1>7, <1>8, <1>9, <2>1
<1>11. Contents' = rest
  BY <1>7, <1>9, <1>10, SeqEqual
<1> QED BY <1>2, <1>6, <1>11 DEF rest

LEMMA ReturnTakes ==
  ASSUME IInv, Return
  PROVE  Queue!Take(want)
<1> USE DEF IInv
<1>1. taken' = got /\ Len(got) = want /\ src' = src /\ consumer = "copy"
  BY DEF Return, pVars
<1>2. /\ want \in 1 .. Len(Contents)
      /\ Contents' = SubSeq(Contents, want + 1, Len(Contents))
  BY ReleaseTakes
<1>3. got = SubSeq(Contents, 1, want)
  <2>1. /\ Contents \in Seq(Byte) /\ Len(Contents) = Used(wr, rd)
        /\ got \in Seq(Byte) /\ want \in Int /\ want >= 1
        /\ want <= Len(Contents) /\ Len(Contents) \in Int
    BY <1>2, ContentsBytes DEF TypeOK
  <2>2. \A j \in 1 .. want : got[j] = Contents[j] /\ Contents[j] \in Byte
    <3>1. \A j \in 1 .. want : got[j] = buf[Index(rd + j - 1)]
      BY <1>1 DEF CopiesAgree
    <3>2. \A j \in 1 .. want : j \in 1 .. Len(Contents)
      BY <2>1
    <3>3. \A j \in 1 .. Len(Contents) : Contents[j] = buf[Index(rd + j - 1)]
      BY <2>1, ContentsBytes
    <3>4. \A j \in 1 .. Len(Contents) : Contents[j] \in Byte
      BY <2>1, ElementOfSeq
    <3> QED BY <3>1, <3>2, <3>3, <3>4
  <2> DEFINE head == SubSeq(Contents, 1, want)
  <2>3. /\ head \in Seq(Byte)
        /\ Len(head) = IF 1 <= want THEN want - 1 + 1 ELSE 0
        /\ \A j \in 1 .. want - 1 + 1 : head[j] = Contents[1 + j - 1]
    BY <2>1, <2>2, SubSeqProperties
  <2> HIDE DEF head
  <2>4. Len(head) = want /\ \A j \in 1 .. want : head[j] = Contents[j]
    BY <2>1, <2>3
  <2>5. got = head
    BY <1>1, <2>1, <2>2, <2>3, <2>4, SeqEqual
  <2> QED BY <2>5 DEF head
<1> QED BY <1>1, <1>2, <1>3 DEF Queue!Take

LEMMA DropDrops ==
  ASSUME IInv, DropOldest
  PROVE  Queue!Drop(want)
<1>1. taken' = taken /\ src' = src
  BY DEF DropOldest, pVars
<1> QED BY <1>1, ReleaseTakes DEF Queue!Drop

\* What is offered is a batch.
LEMMA OfferOf ==
  ASSUME src' \in Seq(Byte), Len(src') <= Usable, Contents' = Contents,
         taken' = taken
  PROVE  Queue!Offer
<1>1. src' \in [1 .. Len(src') -> Byte] /\ Len(src') \in 0 .. Usable
  BY Sizes
<1>2. src' \in Queue!Batch
  BY <1>1 DEF Queue!Batch
<1> QED BY <1>2 DEF Queue!Offer

LEMMA QueueInit == Init => Queue!Init
<1> SUFFICES ASSUME Init PROVE Queue!Init
  OBVIOUS
<1>1. IInv
  BY InitInv
<1>2. Contents \in Seq(Byte) /\ Len(Contents) = 0
  <2>1. Used(wr, rd) = 0
    BY UsedCases, Sizes DEF Init, Counter
  <2> QED BY <1>1, <2>1, ContentsBytes
<1>3. Contents = <<>>
  BY <1>2
<1> QED BY <1>3 DEF Init, Queue!Init

LEMMA QueueNext ==
  ASSUME IInv, IInv', [Next]_vars
  PROVE  [Queue!Next]_Queue!vars
<1>1. ASSUME buf' = buf, wr' = wr, rd' = rd PROVE Contents' = Contents
  BY <1>1 DEF Contents
<1>2. ASSUME src' = src, taken' = taken, Contents' = Contents
      PROVE  UNCHANGED Queue!vars
  BY <1>2 DEF Queue!vars
<1>3. ASSUME NEW batch \in Payloads, BeginPush(batch) PROVE Queue!Next
  <2>1. Contents' = Contents /\ taken' = taken
    BY <1>1, <1>3 DEF BeginPush, cVars
  <2>2. Queue!Offer
    BY <1>3, <2>1, OfferedFits, OfferOf
  <2> QED BY <2>2 DEF Queue!Next
<1>4. CASE CheckFree
  <2>1. Contents' = Contents /\ taken' = taken
    BY <1>1, <1>4 DEF CheckFree, cVars
  <2>2. CASE producer' = "idle"
    <3>1. src' \in Seq(Byte) /\ Len(src') = 0
      <4>1. src' = <<>>
        BY <1>4, <2>2 DEF CheckFree, EndPush
      <4> QED BY <4>1
    <3>2. Queue!Offer
      BY <2>1, <3>1, OfferOf, Sizes
    <3> QED BY <3>2 DEF Queue!Next
  <2>3. CASE producer' # "idle"
    BY <1>2, <1>4, <2>1, <2>3 DEF CheckFree
  <2> QED BY <2>2, <2>3
<1>5. CASE Reload
  BY <1>1, <1>2, <1>5 DEF Reload, cVars
<1>6. CASE CopyIn
  <2>1. Contents' = Contents
    BY <1>6, CopyInKeepsContents
  <2> QED BY <1>2, <1>6, <2>1 DEF CopyIn, cVars
<1>7. CASE Publish
  BY <1>7, PublishAccepts DEF Queue!Next
<1>8. ASSUME NEW n \in Lengths, NEW how \in {"copy", "drop"}, BeginTake(n, how)
      PROVE  UNCHANGED Queue!vars
  BY <1>1, <1>2, <1>8 DEF BeginTake, pVars
<1>9. CASE CopyOut
  BY <1>1, <1>2, <1>9 DEF CopyOut, pVars
<1>10. CASE Return
  BY <1>10, ReturnTakes, ReleaseTakes DEF Queue!Next
<1>11. CASE DropOldest
  BY <1>11, DropDrops, ReleaseTakes DEF Queue!Next
<1>12. CASE UNCHANGED vars
  BY <1>1, <1>2, <1>12 DEF vars, pVars, cVars
<1> QED BY <1>3, <1>4, <1>5, <1>6, <1>7, <1>8, <1>9, <1>10, <1>11, <1>12
        DEF Next

\* The ring implements the queue: what popInto returns is what was pushed, once
\* and in order, whatever the sizes, and a byte that is lost was dropped from
\* the head.
THEOREM RingIsFifo == Spec => IsFifo
BY QueueInit, QueueNext, Invariance, PTL DEF Spec, IsFifo, Queue!Spec

(***************************************************************************)
(* The buffer of microphone blocks.                                        *)
(***************************************************************************)

CONSTANTS Depth, Slots, ResyncDelta, Half, Lag, MaxBlocks
VARIABLES sent, wire, valid, nextSeq, held, last, out

Mic == INSTANCE MicReorder

(***************************************************************************)
(* Sequence numbers and positions.                                         *)
(***************************************************************************)

\* A set of natural numbers has a least one.
LEMMA LeastNatural ==
  ASSUME NEW S, S \subseteq Nat, S # {}
  PROVE  \E x \in S : \A y \in S : x <= y
<1>1. PICK x \in S : \A y \in S : <<y, x>> \notin OpToRel(<, Nat)
  BY WFMin, NatLessThanWellFounded, Zenon
<1>2. \A y \in S : ~(y < x)
  BY <1>1, Zenon DEF OpToRel
<1> QED BY <1>2

\* The constants, taken apart.
LEMMA BufferSizes ==
  ASSUME Mic!MicReorderAssumption
  PROVE  /\ {Depth, Slots, ResyncDelta, Half, Lag, MaxBlocks} \subseteq Nat \ {0}
         /\ Depth <= Slots /\ Slots < ResyncDelta /\ ResyncDelta < Half
         /\ Lag < Half
         /\ 2 * Half \in Nat \ {0}
<1>1. Half \in Nat \ {0}
  BY DEF Mic!MicReorderAssumption
<1>2. 2 * Half \in Nat \ {0}
  BY <1>1
<1> QED BY <1>2 DEF Mic!MicReorderAssumption

\* The numbers of positions.
LEMMA NumberTyped ==
  ASSUME Mic!MicReorderAssumption, NEW a \in Int
  PROVE  Mic!Number(a) \in Mic!Seqs
<1>1. 2 * Half \in Nat \ {0}
  BY BufferSizes
<1>2. a % (2 * Half) \in 0 .. 2 * Half - 1
  BY <1>1, ModDef
<1> QED BY <1>2 DEF Mic!Number, Mic!Seqs

LEMMA NumberStep ==
  ASSUME Mic!MicReorderAssumption, NEW a \in Int, NEW k \in Int
  PROVE  Mic!Number(Mic!Number(a) + k) = Mic!Number(a + k)
<1>1. 2 * Half \in Nat \ {0}
  BY BufferSizes
<1> QED BY <1>1, ModSum DEF Mic!Number

\* A number names one position of a window of 2 * Half.
LEMMA NumberApart ==
  ASSUME Mic!MicReorderAssumption, NEW a \in Int, NEW b \in Int,
         Mic!Number(a) = Mic!Number(b), a - b < 2 * Half, -(2 * Half) < a - b
  PROVE  a = b
<1>1. 2 * Half \in Nat \ {0}
  BY BufferSizes
<1> QED BY <1>1, ModApart DEF Mic!Number

\* Within half of the numbers the signed distance of two sequence numbers is the
\* distance of the positions, on whichever side of a wrap they lie.
LEMMA DistanceIs ==
  ASSUME Mic!MicReorderAssumption, NEW a \in Int, NEW b \in Int,
         -Half <= b - a, b - a < Half
  PROVE  Mic!Distance(Mic!Number(a), Mic!Number(b)) = b - a
<1> DEFINE m == 2 * Half
           x == a % m
           y == b % m
           d == Half - x
           e == b + Half
<1>1. m \in Nat \ {0} /\ Half \in Nat
  BY BufferSizes
<1>2. b - a + Half \in 0 .. m - 1
  BY <1>1
<1> HIDE DEF m
<1>3. x \in Int /\ y \in Int
  BY <1>1, ModDef
<1>4. (e - x) % m = (e - a) % m
  <2>1. e \in Int
    BY <1>1
  <2> HIDE DEF e
  <2> QED BY <1>1, <2>1, ModDiff
<1> HIDE DEF x
<1>5. (y + d) % m = (b + d) % m
  <2>1. d \in Int
    BY <1>1, <1>3
  <2> HIDE DEF d
  <2> QED BY <1>1, <2>1, ModSum
<1> HIDE DEF y
<1>6. (b - a + Half) % m = b - a + Half
  BY <1>1, <1>2, ModSmall
<1>7. /\ y + d = y - x + Half
      /\ b + d = e - x
      /\ e - a = b - a + Half
  BY <1>1, <1>3
<1>8. (y - x + Half) % m = b - a + Half
  BY <1>4, <1>5, <1>6, <1>7
<1>9. b - a + Half - Half = b - a
  BY <1>1
<1> QED BY <1>8, <1>9 DEF Mic!Number, Mic!Distance, m, x, y

\* The least and the greatest element, once they are known.
LEMMA MinIs ==
  ASSUME NEW S, S \subseteq Int, NEW x \in S, \A y \in S : x <= y
  PROVE  Mic!Min(S) = x
<1>1. PICK z \in S : z = Mic!Min(S) /\ \A y \in S : z =< y
  BY Zenon DEF Mic!Min
<1>2. z = x
  BY <1>1
<1> QED BY <1>1, <1>2, Zenon

LEMMA MaxIs ==
  ASSUME NEW S, S \subseteq Int, NEW x \in S, \A y \in S : x >= y
  PROVE  Mic!Playout!Max(S) = x
<1>1. PICK z \in S : z = Mic!Playout!Max(S) /\ \A y \in S : z >= y
  BY Zenon DEF Mic!Playout!Max
<1>2. z = x
  BY <1>1
<1> QED BY <1>1, <1>2, Zenon

(***************************************************************************)
(* What the slots hold, and a push that emits.  A sequence number finds the*)
(* slot of its position because everything held lies within half of the    *)
(* numbers.                                                                *)
(***************************************************************************)

\* The count of MicReorder is the cardinality of the library.
LEMMA CountIs ==
  ASSUME NEW pending
  PROVE  Mic!Count(pending) = Cardinality(DOMAIN pending)
BY Zenon DEF Mic!Count, Mic!Cardinality, Cardinality

\* The positions of held blocks.
Ats(pending) == {pending[i].at : i \in DOMAIN pending}

\* The n positions from lo on are held, and then there is a gap.
Runs(pending, lo, n) ==
  /\ lo + n \notin Ats(pending)
  /\ \A i \in 0 .. n - 1 : lo + i \in Ats(pending)

\* The blocks from a position on.
From(pending, lo) ==
  [s \in {i \in DOMAIN pending : lo <= pending[i].at} |-> pending[s]]

\* Blocks of positions from lo up to hi, each in one slot.
Fits(pending, lo, hi) ==
  /\ DOMAIN pending \subseteq 1 .. Slots
  /\ pending \in [DOMAIN pending -> [seq : Mic!Seqs, at : lo .. hi - 1]]
  /\ \A i \in DOMAIN pending : pending[i].seq = Mic!Number(pending[i].at)
  /\ \A i, j \in DOMAIN pending : pending[i].at = pending[j].at => i = j

\* The types that follow.
LEMMA FitsTyped ==
  ASSUME NEW pending, NEW lo \in Nat, NEW hi \in Nat, Fits(pending, lo, hi),
         Mic!MicReorderAssumption
  PROVE  /\ \A i \in DOMAIN pending : pending[i].at \in lo .. hi - 1
         /\ Ats(pending) \subseteq lo .. hi - 1
         /\ IsFiniteSet(DOMAIN pending)
         /\ Mic!Count(pending) \in Nat
<1>1. \A i \in DOMAIN pending : pending[i].at \in lo .. hi - 1
  BY DEF Fits
<1>2. Ats(pending) \subseteq lo .. hi - 1
  BY <1>1 DEF Ats
<1>3. IsFiniteSet(DOMAIN pending)
  <2>1. IsFiniteSet(1 .. Slots)
    BY BufferSizes, FS_Interval
  <2> QED BY <2>1, FS_Subset DEF Fits
<1>4. Mic!Count(pending) \in Nat
  BY <1>3, FS_CardinalityType, CountIs
<1> QED BY <1>1, <1>2, <1>3, <1>4

\* A sequence number names one block of a window.
LEMMA SlotsOfPosition ==
  ASSUME Mic!MicReorderAssumption, NEW pending, NEW lo \in Nat, NEW hi \in Nat,
         Fits(pending, lo, hi), hi - lo <= Half,
         NEW p \in lo .. lo + Half
  PROVE  /\ Mic!SlotsWith(pending, Mic!Number(p))
              = {i \in DOMAIN pending : pending[i].at = p}
         /\ \A i \in DOMAIN pending :
              pending[i].at = p => Mic!Min(Mic!SlotsWith(pending, Mic!Number(p))) = i
<1>1. ASSUME NEW i \in DOMAIN pending, pending[i].seq = Mic!Number(p)
      PROVE  pending[i].at = p
  <2>1. pending[i].at \in lo .. hi - 1
    BY FitsTyped
  <2>2. Mic!Number(pending[i].at) = Mic!Number(p)
    BY <1>1 DEF Fits
  <2>3. pending[i].at - p < 2 * Half /\ -(2 * Half) < pending[i].at - p
    BY <2>1, BufferSizes
  <2>4. pending[i].at \in Int /\ p \in Int
    BY <2>1
  <2> HIDE DEF Fits
  <2> QED BY <2>2, <2>3, <2>4, NumberApart
<1>2. Mic!SlotsWith(pending, Mic!Number(p))
        = {i \in DOMAIN pending : pending[i].at = p}
  BY <1>1 DEF Mic!SlotsWith, Fits
<1>3. ASSUME NEW i \in DOMAIN pending, pending[i].at = p
      PROVE  Mic!Min(Mic!SlotsWith(pending, Mic!Number(p))) = i
  <2>1. Mic!SlotsWith(pending, Mic!Number(p)) = {i}
    BY <1>2, <1>3 DEF Fits
  <2>2. i \in Int
    BY DEF Fits
  <2>3. Mic!Min({i}) = i
    BY <2>2, MinIs
  <2> QED BY <2>1, <2>3
<1> QED BY <1>2, <1>3

\* The numbers below n.
LEMMA CountUpTo ==
  ASSUME NEW n \in Nat
  PROVE  Cardinality(0 .. n - 1) = n
<1>1. 0 \in Int /\ n - 1 \in Int /\ (0 > n - 1 <=> n = 0) /\ n - 1 - 0 + 1 = n
  OBVIOUS
<1>2. Cardinality(0 .. n - 1) = IF 0 > n - 1 THEN 0 ELSE n - 1 - 0 + 1
  BY <1>1, FS_Interval, Zenon
<1> QED BY <1>1, <1>2

\* The run of held blocks that starts at lo ends: it takes a slot per position,
\* and there are no more slots in use than Count.
LEMMA RunEnds ==
  ASSUME Mic!MicReorderAssumption, NEW pending, NEW lo \in Nat, NEW hi \in Nat,
         Fits(pending, lo, hi), lo <= hi
  PROVE  \E n \in 0 .. Mic!Count(pending) : Runs(pending, lo, n)
<1> DEFINE S == {n \in Nat : lo + n \notin Ats(pending)}
<1>1. hi - lo \in S
  BY FitsTyped
<1>2. PICK n \in S : \A m \in S : n <= m
  BY <1>1, LeastNatural
<1>3. n \in Nat /\ \A i \in 0 .. n - 1 : lo + i \in Ats(pending)
  BY <1>2
<1>4. \A i \in 0 .. n - 1 : \E j \in DOMAIN pending : pending[j].at = lo + i
  BY <1>3 DEF Ats
<1> DEFINE f == [i \in 0 .. n - 1 |->
                   CHOOSE j \in DOMAIN pending : pending[j].at = lo + i]
<1>5. \A i \in 0 .. n - 1 : f[i] \in DOMAIN pending /\ pending[f[i]].at = lo + i
  BY <1>4
<1>6. f \in [0 .. n - 1 -> DOMAIN pending]
  BY <1>5
<1> HIDE DEF f
<1>7. ASSUME NEW i \in 0 .. n - 1, NEW j \in 0 .. n - 1, f[i] = f[j]
      PROVE  i = j
  BY <1>5, <1>7
<1>8. f \in Injection(0 .. n - 1, DOMAIN pending)
  BY <1>6, <1>7 DEF Injection, IsInjective
<1>9. Cardinality(0 .. n - 1) <= Mic!Count(pending)
  <2>1. IsFiniteSet(DOMAIN pending)
    BY FitsTyped
  <2>2. Cardinality(0 .. n - 1) <= Cardinality(DOMAIN pending)
    BY <1>8, <2>1, FS_Injection
  <2> QED BY <2>2, CountIs
<1>10. Cardinality(0 .. n - 1) = n
  <2>1. n \in Nat
    BY <1>3
  <2> QED BY <2>1, CountUpTo, Zenon
<1>11. n \in 0 .. Mic!Count(pending)
  BY <1>3, <1>9, <1>10, FitsTyped
<1> QED BY <1>2, <1>3, <1>11 DEF Runs

\* What a push emits and keeps: what leads, then the run from lo.
LEMMA Emitted ==
  ASSUME Mic!MicReorderAssumption, NEW pending, NEW lo \in Nat, NEW hi \in Nat,
         Fits(pending, lo, hi), lo <= hi, hi - lo <= Half,
         NEW lead, Mic!Emit(lead, pending, Mic!Number(lo))
  PROVE  \E n \in 0 .. Mic!Count(pending) :
           /\ Runs(pending, lo, n)
           /\ out' = lead \o [i \in 1 .. n |-> lo + i - 1]
           /\ last' = out'[Len(out')]
           /\ nextSeq' = Mic!Number(lo + n)
           /\ held' = From(pending, lo + n)
<1> DEFINE At(n) == Mic!SlotsWith(pending, Mic!Number(Mic!Number(lo) + n))
           Holds(n) == At(n) # {}
           run == CHOOSE n \in 0 .. Mic!Count(pending) :
                    ~Holds(n) /\ \A i \in 0 .. n - 1 : Holds(i)
           drained == UNION {At(i) : i \in 0 .. run - 1}
<1>1. Mic!Count(pending) \in Nat /\ Mic!Count(pending) <= Half
  <2> Slots \in Nat /\ Slots >= 1
    BY BufferSizes
  <2>1. IsFiniteSet(1 .. Slots) /\ Cardinality(1 .. Slots) = Slots
    BY FS_Interval
  <2>2. Cardinality(DOMAIN pending) <= Slots
    BY <2>1, FS_Subset DEF Fits
  <2> QED BY <2>2, CountIs, FitsTyped, BufferSizes
<1>2. ASSUME NEW n \in 0 .. Mic!Count(pending)
      PROVE  /\ At(n) = {i \in DOMAIN pending : pending[i].at = lo + n}
             /\ Holds(n) <=> lo + n \in Ats(pending)
             /\ \A i \in At(n) : Mic!Min(At(n)) = i
  <2>1. lo + n \in lo .. lo + Half
    BY <1>1
  <2>2. Mic!Number(Mic!Number(lo) + n) = Mic!Number(lo + n)
    BY NumberStep
  <2>3. /\ At(n) = {i \in DOMAIN pending : pending[i].at = lo + n}
        /\ \A i \in DOMAIN pending : pending[i].at = lo + n => Mic!Min(At(n)) = i
    BY <2>1, <2>2, SlotsOfPosition
  <2> HIDE DEF At
  <2> QED BY <2>3 DEF Ats
<1> HIDE DEF At
<1>3. run \in 0 .. Mic!Count(pending) /\ Runs(pending, lo, run)
  <2>1. PICK n \in 0 .. Mic!Count(pending) : Runs(pending, lo, n)
    BY RunEnds
  <2>2. ASSUME NEW k \in 0 .. Mic!Count(pending)
        PROVE  (~Holds(k) /\ \A i \in 0 .. k - 1 : Holds(i)) <=> Runs(pending, lo, k)
    <3>1. \A i \in 0 .. k - 1 : i \in 0 .. Mic!Count(pending)
      BY <1>1
    <3> HIDE DEF Holds
    <3> QED BY <1>2, <3>1 DEF Runs
  <2> HIDE DEF Holds
  <2>3. ~Holds(n) /\ \A i \in 0 .. n - 1 : Holds(i)
    BY <2>1, <2>2
  <2>4. /\ run \in 0 .. Mic!Count(pending)
        /\ ~Holds(run) /\ \A i \in 0 .. run - 1 : Holds(i)
    BY <2>3, Zenon
  <2> QED BY <2>2, <2>4
<1>4. /\ out' = lead \o [i \in 1 .. run |-> pending[Mic!Min(At(i - 1))].at]
      /\ last' = out'[Len(out')]
      /\ nextSeq' = Mic!Number(Mic!Number(lo) + run)
      /\ held' = Mic!Restrict(pending, DOMAIN pending \ drained)
  BY Zenon DEF Mic!Emit, At
<1> HIDE DEF run, Holds
<1>5. ASSUME NEW i \in 1 .. run
      PROVE  pending[Mic!Min(At(i - 1))].at = lo + i - 1
  <2>1. i - 1 \in 0 .. run - 1 /\ i - 1 \in 0 .. Mic!Count(pending)
    BY <1>1, <1>3
  <2>2. lo + (i - 1) \in Ats(pending)
    BY <1>3, <2>1 DEF Runs
  <2>3. PICK j \in DOMAIN pending : pending[j].at = lo + (i - 1)
    BY <2>2 DEF Ats
  <2>4. Mic!Min(At(i - 1)) = j
    BY <1>2, <2>1, <2>3
  <2> QED BY <2>3, <2>4
<1>6. [i \in 1 .. run |-> pending[Mic!Min(At(i - 1))].at]
        = [i \in 1 .. run |-> lo + i - 1]
  BY <1>5, Zenon
<1>7. drained = {i \in DOMAIN pending : pending[i].at < lo + run}
  <2>1. ASSUME NEW i \in drained
        PROVE  i \in DOMAIN pending /\ pending[i].at < lo + run
    <3>1. PICK n \in 0 .. run - 1 : i \in At(n)
      OBVIOUS
    <3>2. n \in 0 .. Mic!Count(pending)
      BY <1>1, <1>3
    <3>3. i \in DOMAIN pending /\ pending[i].at = lo + n
      BY <1>2, <3>1, <3>2
    <3> QED BY <1>3, <1>1, <3>3
  <2>2. ASSUME NEW i \in DOMAIN pending, pending[i].at < lo + run
        PROVE  i \in drained
    <3> DEFINE n == pending[i].at - lo
    <3>1. /\ n \in 0 .. run - 1 /\ n \in 0 .. Mic!Count(pending)
          /\ pending[i].at = lo + n
      <4> PICK a : a = pending[i].at
        OBVIOUS
      <4>1. a \in lo .. hi - 1
        BY FitsTyped
      <4>2. run \in Nat /\ run <= Mic!Count(pending) /\ a < lo + run
        BY <1>1, <1>3, <2>2
      <4>3. /\ a - lo \in 0 .. run - 1 /\ a - lo \in 0 .. Mic!Count(pending)
            /\ a = lo + (a - lo)
        BY <1>1, <4>1, <4>2
      <4> QED BY <4>3
    <3> HIDE DEF n
    <3>2. i \in At(n)
      BY <1>2, <3>1
    <3> QED BY <3>1, <3>2
  <2> QED BY <2>1, <2>2
<1> HIDE DEF drained
<1>8. DOMAIN pending \ drained = {i \in DOMAIN pending : lo + run <= pending[i].at}
  BY <1>1, <1>3, <1>7, FitsTyped
<1>9. held' = From(pending, lo + run)
  BY <1>4, <1>8, Zenon DEF Mic!Restrict, From
<1>10. nextSeq' = Mic!Number(lo + run)
  BY <1>1, <1>3, <1>4, NumberStep
<1> QED BY <1>3, <1>4, <1>6, <1>9, <1>10, Zenon

(***************************************************************************)
(* store().                                                                *)
(***************************************************************************)

\* Putting the block of p in the slot that has it, or in a free one.
LEMMA PutFits ==
  ASSUME Mic!MicReorderAssumption, NEW lo \in Nat, NEW hi \in Nat,
         Fits(held, lo, hi), NEW p \in lo .. hi - 1, NEW i \in 1 .. Slots,
         \A j \in DOMAIN held : held[j].at = p => j = i
  PROVE  /\ Fits(Mic!Put(i, Mic!Block(p)), lo, hi)
         /\ Ats(Mic!Put(i, Mic!Block(p)))
              = {p} \cup {held[j].at : j \in DOMAIN held \ {i}}
         /\ DOMAIN Mic!Put(i, Mic!Block(p)) = DOMAIN held \cup {i}
         /\ Mic!Count(Mic!Put(i, Mic!Block(p))) <= Mic!Count(held) + 1
<1> DEFINE s == Mic!Put(i, Mic!Block(p))
<1>1. DOMAIN s = DOMAIN held \cup {i}
  BY DEF Mic!Put
<1>2. \A j \in DOMAIN s : s[j] = IF j = i THEN Mic!Block(p) ELSE held[j]
  BY DEF Mic!Put
<1>3. s = [j \in DOMAIN s |-> s[j]]
  BY DEF Mic!Put
<1> HIDE DEF s
<1>4. /\ Mic!Block(p) \in [seq : Mic!Seqs, at : lo .. hi - 1]
      /\ Mic!Block(p).seq = Mic!Number(p) /\ Mic!Block(p).at = p
  BY NumberTyped DEF Mic!Block
<1>5. \A j \in DOMAIN s : s[j] \in [seq : Mic!Seqs, at : lo .. hi - 1]
  BY <1>1, <1>2, <1>4 DEF Fits
<1>6. \A j \in DOMAIN s : s[j].seq = Mic!Number(s[j].at)
  BY <1>1, <1>2, <1>4 DEF Fits
<1>7. \A j, k \in DOMAIN s : s[j].at = s[k].at => j = k
  BY <1>1, <1>2, <1>4 DEF Fits
<1>8. Fits(s, lo, hi)
  <2>1. DOMAIN s \subseteq 1 .. Slots
    BY <1>1 DEF Fits
  <2>2. s \in [DOMAIN s -> [seq : Mic!Seqs, at : lo .. hi - 1]]
    BY <1>3, <1>5
  <2> QED BY <1>6, <1>7, <2>1, <2>2 DEF Fits
<1>9. Ats(s) = {p} \cup {held[j].at : j \in DOMAIN held \ {i}}
  BY <1>1, <1>2, <1>4 DEF Ats
<1>10. Mic!Count(s) <= Mic!Count(held) + 1
  <2>1. /\ Cardinality(DOMAIN held \cup {i})
             = IF i \in DOMAIN held THEN Cardinality(DOMAIN held)
               ELSE Cardinality(DOMAIN held) + 1
    BY FitsTyped, FS_AddElement
  <2> QED BY <1>1, <2>1, FitsTyped, CountIs
<1> QED BY <1>1, <1>8, <1>9, <1>10 DEF s

\* What store() does: the block is in one slot, and takes at most one more.
LEMMA StoredFits ==
  ASSUME Mic!MicReorderAssumption, NEW lo \in Nat, NEW hi \in Nat,
         Fits(held, lo, hi), hi - lo <= Half, NEW p \in lo .. hi - 1,
         Mic!Count(held) < Slots
  PROVE  /\ Fits(Mic!Stored(Mic!Block(p)), lo, hi)
         /\ Ats(Mic!Stored(Mic!Block(p))) = Ats(held) \cup {p}
         /\ DOMAIN Mic!Stored(Mic!Block(p)) # {}
         /\ Mic!Count(Mic!Stored(Mic!Block(p))) <= Mic!Count(held) + 1
<1> DEFINE with == Mic!SlotsWith(held, Mic!Block(p).seq)
           free == Mic!Min(Mic!FreeSlots)
<1>1. /\ with = {i \in DOMAIN held : held[i].at = p}
      /\ \A i \in DOMAIN held : held[i].at = p => Mic!Min(with) = i
  <2>1. Mic!Block(p).seq = Mic!Number(p)
    BY DEF Mic!Block
  <2>2. p \in lo .. lo + Half
    BY BufferSizes
  <2>3. /\ Mic!SlotsWith(held, Mic!Number(p))
              = {i \in DOMAIN held : held[i].at = p}
        /\ \A i \in DOMAIN held : held[i].at = p =>
             Mic!Min(Mic!SlotsWith(held, Mic!Number(p))) = i
    BY <2>2, SlotsOfPosition
  <2> QED BY <2>1, <2>3, Zenon
<1> HIDE DEF with
<1>2. CASE with # {}
  <2>1. PICK i \in DOMAIN held : held[i].at = p
    BY <1>1, <1>2
  <2>2. Mic!Stored(Mic!Block(p)) = Mic!Put(i, Mic!Block(p))
    BY <1>1, <1>2, <2>1 DEF Mic!Stored, with
  <2>3. i \in 1 .. Slots /\ \A j \in DOMAIN held : held[j].at = p => j = i
    BY <2>1 DEF Fits
  <2>4. {p} \cup {held[j].at : j \in DOMAIN held \ {i}} = Ats(held) \cup {p}
    BY <2>1 DEF Ats
  <2>5. /\ Fits(Mic!Put(i, Mic!Block(p)), lo, hi)
        /\ Ats(Mic!Put(i, Mic!Block(p)))
             = {p} \cup {held[j].at : j \in DOMAIN held \ {i}}
        /\ DOMAIN Mic!Put(i, Mic!Block(p)) = DOMAIN held \cup {i}
        /\ Mic!Count(Mic!Put(i, Mic!Block(p))) <= Mic!Count(held) + 1
    BY <2>3, PutFits
  <2>6. DOMAIN Mic!Put(i, Mic!Block(p)) # {}
    BY <2>5
  <2> QED BY <2>2, <2>4, <2>5, <2>6, Zenon
<1>3. CASE with = {}
  <2>1. DOMAIN held # 1 .. Slots
    <3>1. Slots \in Nat /\ Slots >= 1
      BY BufferSizes
    <3>2. Cardinality(1 .. Slots) = Slots
      BY <3>1, FS_Interval
    <3> QED BY <3>1, <3>2, CountIs
  <2>2. Mic!FreeSlots # {} /\ Mic!FreeSlots \subseteq Nat
    <3>1. DOMAIN held \subseteq 1 .. Slots
      BY DEF Fits
    <3>2. (1 .. Slots) \ DOMAIN held # {}
      BY <2>1, <3>1, Zenon
    <3>3. 1 .. Slots \subseteq Nat
      BY BufferSizes
    <3> QED BY <3>2, <3>3 DEF Mic!FreeSlots
  <2>3. free \in Mic!FreeSlots
    <3>1. PICK x \in Mic!FreeSlots : \A y \in Mic!FreeSlots : x <= y
      BY <2>2, LeastNatural
    <3>2. Mic!FreeSlots \subseteq Int /\ x \in Mic!FreeSlots
      BY <2>2, <3>1
    <3> HIDE DEF Mic!FreeSlots
    <3>3. Mic!Min(Mic!FreeSlots) = x
      BY <3>1, <3>2, MinIs
    <3> QED BY <3>2, <3>3
  <2> HIDE DEF free
  <2>4. Mic!Stored(Mic!Block(p)) = Mic!Put(free, Mic!Block(p))
    BY <1>3, <2>2, Zenon DEF Mic!Stored, with, free
  <2>5. free \in 1 .. Slots /\ free \notin DOMAIN held
    BY <2>3 DEF Mic!FreeSlots
  <2>6. \A j \in DOMAIN held : held[j].at = p => j = free
    BY <1>1, <1>3
  <2>7. DOMAIN held \ {free} = DOMAIN held
    BY <2>5
  <2>8. {p} \cup {held[j].at : j \in DOMAIN held \ {free}} = Ats(held) \cup {p}
    BY <2>7 DEF Ats
  <2>9. /\ Fits(Mic!Put(free, Mic!Block(p)), lo, hi)
        /\ Ats(Mic!Put(free, Mic!Block(p)))
             = {p} \cup {held[j].at : j \in DOMAIN held \ {free}}
        /\ DOMAIN Mic!Put(free, Mic!Block(p)) = DOMAIN held \cup {free}
        /\ Mic!Count(Mic!Put(free, Mic!Block(p))) <= Mic!Count(held) + 1
    BY <2>5, <2>6, PutFits
  <2>10. DOMAIN Mic!Put(free, Mic!Block(p)) # {}
    BY <2>9
  <2> QED BY <2>4, <2>8, <2>9, <2>10, Zenon
<1> QED BY <1>2, <1>3

\* What is left after a run, which is fewer blocks unless the run is empty.
LEMMA RestFits ==
  ASSUME Mic!MicReorderAssumption, NEW pending, NEW lo \in Nat, NEW hi \in Nat,
         Fits(pending, lo, hi), NEW n \in Nat, Runs(pending, lo, n)
  PROVE  /\ Fits(From(pending, lo + n), lo + n + 1, hi)
         /\ Ats(From(pending, lo + n)) = {a \in Ats(pending) : lo + n < a}
         /\ Mic!Count(From(pending, lo + n)) \in Nat
         /\ Mic!Count(From(pending, lo + n)) <= Mic!Count(pending)
         /\ n > 0 => /\ Mic!Count(From(pending, lo + n)) < Mic!Count(pending)
                     /\ lo + n <= hi
<1> DEFINE rest == From(pending, lo + n)
           kept == {i \in DOMAIN pending : lo + n <= pending[i].at}
<1>1. DOMAIN rest = kept /\ \A i \in kept : rest[i] = pending[i]
  BY DEF From
<1>2. rest = [i \in DOMAIN rest |-> rest[i]]
  BY DEF From
<1> HIDE DEF rest
<1>3. \A i \in kept : pending[i].at \in lo + n + 1 .. hi - 1
  BY FitsTyped DEF Runs, Ats
<1>4. kept \subseteq DOMAIN pending
  OBVIOUS
<1>5. \A i \in DOMAIN rest : rest[i] \in [seq : Mic!Seqs, at : lo + n + 1 .. hi - 1]
  <2> SUFFICES ASSUME NEW i \in kept
               PROVE  pending[i] \in [seq : Mic!Seqs, at : lo + n + 1 .. hi - 1]
    BY <1>1
  <2>1. pending[i] \in [seq : Mic!Seqs, at : lo .. hi - 1]
    BY DEF Fits
  <2> QED BY <1>3, <2>1
<1>6. Fits(rest, lo + n + 1, hi)
  <2>1. rest \in [DOMAIN rest -> [seq : Mic!Seqs, at : lo + n + 1 .. hi - 1]]
    BY <1>2, <1>5
  <2>2. DOMAIN rest \subseteq 1 .. Slots
    BY <1>1 DEF Fits
  <2>3. \A i \in DOMAIN rest : rest[i].seq = Mic!Number(rest[i].at)
    BY <1>1 DEF Fits
  <2>4. \A i, j \in DOMAIN rest : rest[i].at = rest[j].at => i = j
    BY <1>1 DEF Fits
  <2> QED BY <2>1, <2>2, <2>3, <2>4 DEF Fits
<1>7. Ats(rest) = {a \in Ats(pending) : lo + n < a}
  <2>1. Ats(rest) = {pending[i].at : i \in kept}
    BY <1>1 DEF Ats
  <2>2. \A i \in DOMAIN pending : pending[i].at \in Int
    BY FitsTyped
  <2>3. ASSUME NEW i \in kept
        PROVE  pending[i].at \in Ats(pending) /\ lo + n < pending[i].at
    BY <1>3 DEF Ats
  <2>4. ASSUME NEW i \in DOMAIN pending, lo + n < pending[i].at PROVE i \in kept
    BY <2>2, <2>4
  <2> HIDE DEF kept
  <2> QED BY <2>1, <2>3, <2>4 DEF Ats
<1>8. IsFiniteSet(kept) /\ Cardinality(kept) \in Nat
      /\ Cardinality(kept) <= Cardinality(DOMAIN pending)
      /\ (Cardinality(DOMAIN pending) = Cardinality(kept) => DOMAIN pending = kept)
  BY <1>4, FitsTyped, FS_Subset, FS_CardinalityType
<1>9. Mic!Count(rest) \in Nat /\ Mic!Count(rest) <= Mic!Count(pending)
  BY <1>1, <1>8, CountIs
<1>10. ASSUME n > 0
       PROVE  Mic!Count(rest) < Mic!Count(pending) /\ lo + n <= hi
  <2>1. lo + (n - 1) \in Ats(pending)
    <3>1. n - 1 \in 0 .. n - 1
      BY <1>10
    <3> QED BY <3>1, Zenon DEF Runs
  <2>2. PICK i \in DOMAIN pending : pending[i].at = lo + (n - 1)
    BY <2>1 DEF Ats
  <2>3. lo + n <= hi
    BY <2>2, FitsTyped
  <2>4. i \notin kept
    BY <2>2
  <2>5. kept # DOMAIN pending
    BY <2>2, <2>4
  <2>6. Cardinality(DOMAIN pending) \in Nat
    BY FitsTyped, FS_CardinalityType
  <2>7. Cardinality(kept) < Cardinality(DOMAIN pending)
    BY <1>8, <2>5, <2>6
  <2> QED BY <1>1, <2>3, <2>7, CountIs
<1> QED BY <1>6, <1>7, <1>9, <1>10 DEF rest

(***************************************************************************)
(* The invariant of the buffer.                                            *)
(***************************************************************************)

\* The buffer is about to play d: its number and what it played last say so, and
\* it holds blocks ahead of d only.
Turn(d) ==
  /\ d \in 1 .. sent /\ sent - d < Half
  /\ nextSeq = Mic!Number(d)
  /\ last = d - 1
  /\ Fits(held, d + 1, sent)
  /\ \A a \in Ats(held) : a < d + ResyncDelta

\* Types; in a session, the turn of one position; outside of one, nothing held; no
\* block under way is older than Lag; and the buffer is never full.
BufferInv ==
  /\ Mic!TypeOK
  /\ valid => Turn(Mic!Due)
  /\ ~valid => DOMAIN held = {} /\ last = -1
  /\ \A p \in wire : sent - p <= Lag
  /\ Mic!Count(held) < Depth

\* The position that is due follows from its number.
LEMMA DueFromNumber ==
  ASSUME Mic!MicReorderAssumption, NEW n \in Nat, NEW d \in 1 .. n, n - d < Half
  PROVE  n - Mic!Distance(Mic!Number(d), Mic!Number(n)) = d
<1>1. Mic!Distance(Mic!Number(d), Mic!Number(n)) = n - d
  <2>1. -Half <= n - d /\ d \in Int
    BY BufferSizes
  <2> QED BY <2>1, DistanceIs
<1> QED BY <1>1

\* Held blocks are typed.
LEMMA HeldTyped ==
  ASSUME Mic!MicReorderAssumption, NEW pending, NEW lo \in Nat, NEW hi \in Nat,
         Fits(pending, lo, hi), hi - lo <= Half
  PROVE  /\ DOMAIN pending \subseteq 1 .. Slots
         /\ pending \in [DOMAIN pending -> [seq : Mic!Seqs, at : 0 .. hi - 1]]
         /\ \A i, j \in DOMAIN pending : pending[i].seq = pending[j].seq => i = j
<1>1. pending \in [DOMAIN pending -> [seq : Mic!Seqs, at : 0 .. hi - 1]]
  <2>1. lo .. hi - 1 \subseteq 0 .. hi - 1
    OBVIOUS
  <2>2. [seq : Mic!Seqs, at : lo .. hi - 1]
          \subseteq [seq : Mic!Seqs, at : 0 .. hi - 1]
    BY <2>1
  <2> QED BY <2>2 DEF Fits
<1>2. ASSUME NEW i \in DOMAIN pending, NEW j \in DOMAIN pending,
             pending[i].seq = pending[j].seq
      PROVE  i = j
  <2>1. pending[i].at \in lo .. hi - 1 /\ pending[j].at \in lo .. hi - 1
    BY FitsTyped
  <2>2. Mic!Number(pending[i].at) = Mic!Number(pending[j].at)
    BY <1>2 DEF Fits
  <2>3. pending[i].at - pending[j].at < 2 * Half
        /\ -(2 * Half) < pending[i].at - pending[j].at
    BY <2>1, BufferSizes
  <2>4. pending[i].at \in Int /\ pending[j].at \in Int
    BY <2>1
  <2>5. pending[i].at = pending[j].at
    BY <2>2, <2>3, <2>4, NumberApart
  <2> QED BY <2>5 DEF Fits
<1> QED BY <1>1, <1>2 DEF Fits

(***************************************************************************)
(* What a step leaves behind: the buffer moved on by a run, or is left alone.*)
(***************************************************************************)

\* The state after the run that begins at lo.
LEMMA Advances ==
  ASSUME Mic!MicReorderAssumption, Mic!TypeOK, \A p \in wire : sent - p <= Lag,
         sent' = sent, wire' \subseteq wire, valid' = TRUE,
         NEW pending, NEW lo \in 1 .. sent, NEW n \in Nat, sent - lo < Half,
         Fits(pending, lo, sent), Runs(pending, lo, n),
         \A a \in Ats(pending) : a < lo + ResyncDelta,
         Mic!Count(pending) <= Depth, n > 0 \/ Mic!Count(pending) < Depth,
         nextSeq' = Mic!Number(lo + n), last' = lo + n - 1,
         held' = From(pending, lo + n),
         out' \in Seq({-1} \cup 0 .. sent - 1)
  PROVE  /\ BufferInv'
         /\ Mic!Due' = lo + n
         /\ Ats(held') = {a \in Ats(pending) : lo + n < a}
<1>1. /\ sent \in Nat /\ lo \in Nat /\ lo >= 1 /\ lo <= sent
      /\ Depth \in Nat /\ Half \in Nat /\ ResyncDelta \in Nat
      /\ Depth <= Slots /\ Slots \in Nat
  BY BufferSizes DEF Mic!TypeOK
<1>2. /\ Fits(held', lo + n + 1, sent)
      /\ Ats(held') = {a \in Ats(pending) : lo + n < a}
      /\ Mic!Count(held') \in Nat
      /\ Mic!Count(held') <= Mic!Count(pending)
      /\ n > 0 => Mic!Count(held') < Mic!Count(pending) /\ lo + n <= sent
  <2> DEFINE rest == From(pending, lo + n)
  <2>1. /\ Fits(rest, lo + n + 1, sent)
        /\ Ats(rest) = {a \in Ats(pending) : lo + n < a}
        /\ Mic!Count(rest) \in Nat
        /\ Mic!Count(rest) <= Mic!Count(pending)
        /\ n > 0 => Mic!Count(rest) < Mic!Count(pending) /\ lo + n <= sent
    BY <1>1, RestFits
  <2> HIDE DEF rest
  <2> QED BY <2>1, Zenon DEF rest
<1>3. Mic!Count(pending) \in Nat
  BY <1>1, FitsTyped
<1>4. Mic!Count(held') < Depth
  BY <1>1, <1>2, <1>3
<1>5. lo + n \in 1 .. sent /\ sent - (lo + n) < Half
  BY <1>1, <1>2
<1>6. Mic!Due' = lo + n
  <2>1. sent - Mic!Distance(Mic!Number(lo + n), Mic!Number(sent)) = lo + n
    BY <1>1, <1>5, DueFromNumber
  <2> QED BY <2>1, Zenon DEF Mic!Due
<1>7. \A a \in Ats(held') : a < lo + n + ResyncDelta
  <2>1. Ats(pending) \subseteq lo .. sent - 1
    BY <1>1, FitsTyped
  <2> SUFFICES ASSUME NEW a \in Ats(held') PROVE a < lo + n + ResyncDelta
    OBVIOUS
  <2>2. a \in Ats(pending)
    BY <1>2
  <2>3. a \in Int /\ a < lo + ResyncDelta
    BY <2>1, <2>2
  <2> QED BY <1>1, <2>3
<1>8. Turn(lo + n)'
  BY <1>2, <1>5, <1>7 DEF Turn
<1>9. Mic!TypeOK'
  <2>1. /\ DOMAIN held' \subseteq 1 .. Slots
        /\ held' \in [DOMAIN held' -> [seq : Mic!Seqs, at : 0 .. sent - 1]]
        /\ \A i, j \in DOMAIN held' : held'[i].seq = held'[j].seq => i = j
    <3>1. lo + n + 1 \in Nat /\ sent - (lo + n + 1) <= Half
      BY <1>1, <1>5
    <3> HIDE DEF Fits
    <3> QED BY <1>1, <1>2, <3>1, HeldTyped
  <2>2. Mic!Count(held') < Slots
    BY <1>1, <1>2, <1>4
  <2>3. nextSeq' \in Mic!Seqs
    BY <1>5, NumberTyped
  <2>4. last' \in {-1} \cup 0 .. sent - 1
    <3>1. lo + n - 1 \in 0 .. sent - 1
      BY <1>1, <1>5
    <3> QED BY <3>1, Zenon
  <2>5. sent' \in 0 .. MaxBlocks /\ wire' \subseteq 0 .. sent' - 1
    BY DEF Mic!TypeOK
  <2> QED BY <2>1, <2>2, <2>3, <2>4, <2>5, Zenon DEF Mic!TypeOK, Mic!Silence
<1>10. \A p \in wire' : sent' - p <= Lag
  OBVIOUS
<1>11. BufferInv'
  <2>1. Turn(Mic!Due)'
    BY <1>6, <1>8, Zenon DEF Turn
  <2> QED BY <1>4, <1>9, <1>10, <2>1, Zenon DEF BufferInv
<1> QED BY <1>2, <1>6, <1>11

\* An interval that grows at its end.
LEMMA LongerInterval ==
  ASSUME NEW a \in Int, NEW b \in Int, NEW c \in Int, b <= c
  PROVE  a .. b - 1 \subseteq a .. c - 1
OBVIOUS

\* The state after a step that leaves the buffer alone.
LEMMA Rests ==
  ASSUME Mic!MicReorderAssumption, BufferInv,
         sent' \in {sent, sent + 1}, sent' <= MaxBlocks,
         wire' \subseteq 0 .. sent' - 1, \A p \in wire' : sent' - p <= Lag,
         valid => sent' - Mic!Due < Half,
         valid' = valid, nextSeq' = nextSeq, held' = held, last' = last,
         out' = <<>>
  PROVE  BufferInv' /\ Mic!Due' = Mic!Due
<1>1. /\ sent \in Nat /\ sent' \in Nat /\ sent <= sent'
  BY DEF BufferInv, Mic!TypeOK
<1>2. Mic!TypeOK'
  <2>1. held' \in [DOMAIN held' -> [seq : Mic!Seqs, at : 0 .. sent' - 1]]
    <3>1. held \in [DOMAIN held -> [seq : Mic!Seqs, at : 0 .. sent - 1]]
      BY DEF BufferInv, Mic!TypeOK
    <3>2. 0 .. sent - 1 \subseteq 0 .. sent' - 1
      <4>1. 0 \in Int /\ sent \in Int /\ sent' \in Int /\ sent <= sent'
        BY <1>1
      <4> QED BY <4>1, LongerInterval, Zenon
    <3>3. [seq : Mic!Seqs, at : 0 .. sent - 1]
            \subseteq [seq : Mic!Seqs, at : 0 .. sent' - 1]
      BY <3>2
    <3> QED BY <3>1, <3>3
  <2>2. last' \in {-1} \cup 0 .. sent' - 1
    BY <1>1 DEF BufferInv, Mic!TypeOK, Mic!Silence
  <2>3. out' \in Seq({-1} \cup 0 .. sent' - 1)
    OBVIOUS
  <2>4. sent' \in 0 .. MaxBlocks
    BY <1>1, BufferSizes
  <2> QED BY <2>1, <2>2, <2>3, <2>4, Zenon
          DEF BufferInv, Mic!TypeOK, Mic!Silence, Mic!Count
<1>3. CASE valid
  <2> PICK d : d = Mic!Due
    OBVIOUS
  <2>1. Turn(d)
    BY <1>3, Zenon DEF BufferInv
  <2>2. d \in 1 .. sent /\ d \in 1 .. sent' /\ sent' - d < Half
    BY <1>1, <1>3, <2>1 DEF Turn
  <2>3. Fits(held', d + 1, sent')
    <3>1. held \in [DOMAIN held -> [seq : Mic!Seqs, at : d + 1 .. sent - 1]]
      BY <2>1 DEF Turn, Fits
    <3>2. d + 1 .. sent - 1 \subseteq d + 1 .. sent' - 1
      <4>1. d + 1 \in Int /\ sent \in Int /\ sent' \in Int /\ sent <= sent'
        BY <1>1, <2>2
      <4> QED BY <4>1, LongerInterval, Zenon
    <3>3. [seq : Mic!Seqs, at : d + 1 .. sent - 1]
            \subseteq [seq : Mic!Seqs, at : d + 1 .. sent' - 1]
      BY <3>2
    <3>4. held' \in [DOMAIN held' -> [seq : Mic!Seqs, at : d + 1 .. sent' - 1]]
      BY <3>1, <3>3
    <3> QED BY <2>1, <3>4, Zenon DEF Turn, Fits
  <2>4. Turn(d)'
    BY <2>1, <2>2, <2>3 DEF Turn
  <2>5. Mic!Due' = d
    <3>1. sent' - Mic!Distance(Mic!Number(d), Mic!Number(sent')) = d
      BY <1>1, <2>2, DueFromNumber
    <3>2. nextSeq' = Mic!Number(d) /\ valid'
      BY <1>3, <2>1 DEF Turn
    <3> QED BY <3>1, <3>2, Zenon DEF Mic!Due
  <2>6. Turn(Mic!Due)'
    BY <2>4, <2>5, Zenon DEF Turn
  <2> QED BY <1>2, <1>3, <2>5, <2>6, Zenon DEF BufferInv, Mic!Count
<1>4. CASE ~valid
  <2>1. Mic!Due' = Mic!Due
    BY <1>4 DEF Mic!Due
  <2> QED BY <1>2, <1>4, <2>1, Zenon DEF BufferInv, Mic!Count
<1> QED BY <1>3, <1>4

\* The earliest block held.
LEMMA EarliestHeld ==
  ASSUME Mic!MicReorderAssumption, NEW pending, NEW lo \in Nat, NEW hi \in Nat,
         Fits(pending, lo, hi), hi - lo <= Half, DOMAIN pending # {}
  PROVE  \E f \in Ats(pending) :
           /\ \A a \in Ats(pending) : f <= a
           /\ Mic!MinPending(pending) = Mic!Number(f)
<1>1. Ats(pending) # {} /\ Ats(pending) \subseteq Nat
  <2>1. Ats(pending) # {}
    BY DEF Ats
  <2>2. Ats(pending) \subseteq lo .. hi - 1
    BY FitsTyped
  <2> QED BY <2>1, <2>2
<1>2. PICK f \in Ats(pending) : \A a \in Ats(pending) : f <= a
  BY <1>1, LeastNatural
<1>3. PICK i \in DOMAIN pending : pending[i].at = f
  BY DEF Ats
<1> DEFINE Earliest(b) ==
      \A c \in Mic!Range(pending) : Mic!Distance(b.seq, c.seq) >= 0
<1>4. ASSUME NEW j \in DOMAIN pending, NEW k \in DOMAIN pending
      PROVE  Mic!Distance(pending[j].seq, pending[k].seq)
               = pending[k].at - pending[j].at
  <2>1. pending[j].at \in lo .. hi - 1 /\ pending[k].at \in lo .. hi - 1
    BY FitsTyped
  <2>2. /\ -Half <= pending[k].at - pending[j].at
        /\ pending[k].at - pending[j].at < Half
        /\ pending[k].at \in Int /\ pending[j].at \in Int
    BY <2>1, BufferSizes
  <2>3. pending[j].seq = Mic!Number(pending[j].at)
        /\ pending[k].seq = Mic!Number(pending[k].at)
    BY DEF Fits
  <2>4. Mic!Distance(Mic!Number(pending[j].at), Mic!Number(pending[k].at))
          = pending[k].at - pending[j].at
    BY <2>2, DistanceIs
  <2> QED BY <2>3, <2>4, Zenon
<1>5. Mic!Range(pending) = {pending[j] : j \in DOMAIN pending}
  BY Zenon DEF Mic!Range
<1>6. pending[i] \in Mic!Range(pending) /\ Earliest(pending[i])
  <2>1. ASSUME NEW k \in DOMAIN pending
        PROVE  Mic!Distance(pending[i].seq, pending[k].seq) >= 0
    <3>1. pending[k].at \in Ats(pending) /\ pending[k].at \in Int /\ f \in Int
      BY <1>1 DEF Ats
    <3>2. Mic!Distance(pending[i].seq, pending[k].seq) = pending[k].at - f
      BY <1>3, <1>4
    <3>3. f <= pending[k].at
      BY <1>2, <3>1
    <3>4. pending[k].at - f >= 0
      BY <3>1, <3>3
    <3> QED BY <3>2, <3>4
  <2> QED BY <1>5, <2>1, Zenon
<1> DEFINE chosen == CHOOSE b \in Mic!Range(pending) : Earliest(b)
<1>7. chosen \in Mic!Range(pending) /\ Earliest(chosen)
  BY <1>6, Zenon
<1>8. Mic!MinPending(pending) = chosen.seq
  BY Zenon DEF Mic!MinPending
<1> HIDE DEF chosen
<1>9. PICK j \in DOMAIN pending : chosen = pending[j]
  BY <1>5, <1>7, Zenon
<1>10. Mic!Distance(pending[j].seq, pending[i].seq) >= 0
  BY <1>6, <1>7, <1>9
<1>11. pending[i].at - pending[j].at >= 0
  BY <1>4, <1>10
<1>12. pending[j].at \in Ats(pending) /\ pending[j].at \in Int
  BY <1>1 DEF Ats
<1>13. pending[j].at = f
  BY <1>1, <1>2, <1>3, <1>11, <1>12
<1>14. chosen.seq = Mic!Number(f)
  BY <1>9, <1>13 DEF Fits
<1> QED BY <1>2, <1>8, <1>14

\* What leads and what follows, as one sequence.
LEMMA LeadAndRun ==
  ASSUME NEW S, NEW lead \in Seq(S), NEW lo \in Int, NEW n \in Nat,
         \A i \in 1 .. n : lo + i - 1 \in S
  PROVE  /\ lead \o [i \in 1 .. n |-> lo + i - 1]
              = [i \in 1 .. Len(lead) + n |->
                   IF i <= Len(lead) THEN lead[i] ELSE lo + i - Len(lead) - 1]
         /\ lead \o [i \in 1 .. n |-> lo + i - 1] \in Seq(S)
         /\ Len(lead \o [i \in 1 .. n |-> lo + i - 1]) = Len(lead) + n
<1> DEFINE run == [i \in 1 .. n |-> lo + i - 1]
           both == [i \in 1 .. Len(lead) + n |->
                      IF i <= Len(lead) THEN lead[i] ELSE lo + i - Len(lead) - 1]
<1>1. run \in Seq(S) /\ Len(run) = n /\ \A i \in 1 .. n : run[i] = lo + i - 1
  OBVIOUS
<1> HIDE DEF run
<1>2. lead \o run \in Seq(S) /\ Len(lead \o run) = Len(lead) + n
  BY <1>1
<1>3. Len(lead) \in Nat
  OBVIOUS
<1>4. ASSUME NEW i \in 1 .. Len(lead) + n
      PROVE  (lead \o run)[i] = both[i]
  <2>1. CASE i <= Len(lead)
    BY <1>1, <1>3, <2>1
  <2>2. CASE ~(i <= Len(lead))
    <3>1. i - Len(lead) \in 1 .. n
      BY <1>3, <2>2
    <3>2. (lead \o run)[i] = run[i - Len(lead)]
      BY <1>1, <1>3, <2>2
    <3>3. run[i - Len(lead)] = lo + (i - Len(lead)) - 1
      BY <1>1, <3>1
    <3>4. lo + (i - Len(lead)) - 1 = lo + i - Len(lead) - 1
      BY <1>3
    <3> QED BY <2>2, <3>2, <3>3, <3>4
  <2> QED BY <2>1, <2>2
<1> DEFINE cat == lead \o run
<1>5. cat \in Seq(S) /\ Len(cat) = Len(lead) + n
      /\ \A i \in 1 .. Len(lead) + n : cat[i] = both[i]
  BY <1>2, <1>4
<1> HIDE DEF cat
<1>6. cat = [i \in 1 .. Len(cat) |-> cat[i]]
  BY <1>5
<1>7. cat = both
  BY <1>5, <1>6
<1> QED BY <1>2, <1>7 DEF run, cat

(***************************************************************************)
(* The pushes.                                                             *)
(***************************************************************************)

\* What a block under way finds.
LEMMA OnTheWire ==
  ASSUME Mic!MicReorderAssumption, BufferInv, NEW p \in wire
  PROVE  /\ p \in 0 .. sent - 1 /\ sent \in Nat /\ sent - p <= Lag
         /\ ~valid => Mic!Ahead(p) = 0 /\ Mic!Due = -1
         /\ valid => /\ Mic!Due \in 1 .. sent /\ sent - Mic!Due < Half
                     /\ Mic!Ahead(p) = p - Mic!Due
<1>1. p \in 0 .. sent - 1 /\ sent \in Nat /\ sent - p <= Lag
  BY DEF BufferInv, Mic!TypeOK
<1>2. ASSUME ~valid PROVE Mic!Ahead(p) = 0 /\ Mic!Due = -1
  BY <1>2 DEF Mic!Ahead, Mic!Due, Mic!Silence
<1>3. ASSUME valid
      PROVE  /\ Mic!Due \in 1 .. sent /\ sent - Mic!Due < Half
             /\ Mic!Ahead(p) = p - Mic!Due
  <2> PICK d : d = Mic!Due
    OBVIOUS
  <2>1. d \in 1 .. sent /\ sent - d < Half /\ nextSeq = Mic!Number(d)
    BY <1>3 DEF BufferInv, Turn
  <2>2. -Half <= p - d /\ p - d < Half /\ p \in Int /\ d \in Int
    BY <1>1, <2>1, BufferSizes
  <2>3. Mic!Distance(Mic!Number(d), Mic!Number(p)) = p - d
    BY <2>2, DistanceIs
  <2>4. Mic!Ahead(p) = p - d
    BY <1>3, <2>1, <2>3, Zenon DEF Mic!Ahead
  <2> QED BY <2>1, <2>4
<1> QED BY <1>1, <1>2, <1>3

\* Sequences of positions, typed as the output is.
LEMMA OutTyped ==
  ASSUME NEW n \in Nat, NEW k \in Nat, NEW f, f = [i \in 1 .. k |-> f[i]],
         \A i \in 1 .. k : f[i] \in {-1} \cup 0 .. n - 1
  PROVE  f \in Seq({-1} \cup 0 .. n - 1)
<1> DEFINE S == {-1} \cup 0 .. n - 1
<1> HIDE DEF S
<1>1. ASSUME NEW g \in [1 .. k -> S] PROVE g \in Seq(S)
  OBVIOUS
<1>2. f \in [1 .. k -> S]
  BY DEF S
<1> QED BY <1>1, <1>2 DEF S

\* The due block, and the run of held blocks behind it, come out.
LEMMA PassOnStep ==
  ASSUME Mic!MicReorderAssumption, BufferInv, NEW p \in wire, Mic!PassOn(p),
         sent' = sent, wire' \subseteq wire
  PROVE  /\ BufferInv'
         /\ valid => p = Mic!Due
         /\ \E n \in Nat :
              /\ Runs(held, p + 1, n)
              /\ out' = [i \in 1 .. n + 1 |-> p + i - 1]
              /\ Len(out') = n + 1
              /\ last' = p + n
              /\ Mic!Due' = p + 1 + n
              /\ Ats(held') = {a \in Ats(held) : p + 1 + n < a}
<1>1. /\ p \in 0 .. sent - 1 /\ sent \in Nat /\ sent - p <= Lag /\ p \in Nat
      /\ Half \in Nat /\ Lag < Half /\ Lag \in Nat
  BY OnTheWire, BufferSizes
<1>2. valid => p = Mic!Due
  <2>1. valid => Mic!Due \in Int /\ p - Mic!Due = 0
    BY OnTheWire DEF Mic!PassOn
  <2> QED BY <1>1, <2>1
<1>3. Fits(held, p + 1, sent) /\ \A a \in Ats(held) : a < p + 1 + ResyncDelta
  <2>1. CASE valid
    <3> PICK d : d = Mic!Due
      OBVIOUS
    <3>1. Fits(held, d + 1, sent) /\ \A a \in Ats(held) : a < d + ResyncDelta
      BY <2>1 DEF BufferInv, Turn
    <3>2. p = d
      BY <1>2, <2>1
    <3>3. Fits(held, p + 1, sent)
      BY <3>1, <3>2
    <3>4. Ats(held) \subseteq p + 1 .. sent - 1
      BY <1>1, <3>3, FitsTyped
    <3>5. \A a \in Ats(held) : a < p + 1 + ResyncDelta
      <4> SUFFICES ASSUME NEW a \in Ats(held) PROVE a < p + 1 + ResyncDelta
        OBVIOUS
      <4>1. a < p + ResyncDelta /\ a \in Int /\ ResyncDelta \in Nat
        BY <3>1, <3>2, <3>4, BufferSizes
      <4> QED BY <1>1, <4>1
    <3> QED BY <3>3, <3>5
  <2>2. CASE ~valid
    <3>1. /\ DOMAIN held = {}
          /\ held \in [DOMAIN held -> [seq : Mic!Seqs, at : 0 .. sent - 1]]
      BY <2>2 DEF BufferInv, Mic!TypeOK
    <3>2. held \in [DOMAIN held -> [seq : Mic!Seqs, at : p + 1 .. sent - 1]]
      BY <3>1
    <3> QED BY <3>1, <3>2 DEF Fits, Ats
  <2> QED BY <2>1, <2>2
<1>4. PICK n \in 0 .. Mic!Count(held) :
        /\ Runs(held, p + 1, n)
        /\ out' = <<p>> \o [i \in 1 .. n |-> p + 1 + i - 1]
        /\ last' = out'[Len(out')]
        /\ nextSeq' = Mic!Number(p + 1 + n)
        /\ held' = From(held, p + 1 + n)
  <2>1. Mic!Emit(<<p>>, held, Mic!Number(p + 1))
    BY DEF Mic!PassOn
  <2>2. p + 1 \in Nat /\ p + 1 <= sent /\ sent - (p + 1) <= Half
    BY <1>1
  <2> QED BY <1>1, <1>3, <2>1, <2>2, Emitted
<1>5. n \in Nat /\ p + 1 \in Nat
  BY <1>1, <1>3, FitsTyped
<1>6. /\ out' = [i \in 1 .. n + 1 |-> p + i - 1]
      /\ Len(out') = n + 1 /\ last' = p + n
  <2> DEFINE cat == <<p>> \o [i \in 1 .. n |-> p + 1 + i - 1]
  <2>1. <<p>> \in Seq(Int) /\ Len(<<p>>) = 1 /\ <<p>>[1] = p
    BY <1>1
  <2>2. \A i \in 1 .. n : p + 1 + i - 1 \in Int
    BY <1>1
  <2>3. /\ cat = [i \in 1 .. 1 + n |->
                    IF i <= 1 THEN <<p>>[i] ELSE p + 1 + i - 1 - 1]
        /\ Len(cat) = 1 + n
    BY <1>5, <2>1, <2>2, LeadAndRun
  <2> HIDE DEF cat
  <2>4. \A i \in 1 .. n + 1 : cat[i] = p + i - 1
    <3> SUFFICES ASSUME NEW i \in 1 .. n + 1 PROVE cat[i] = p + i - 1
      OBVIOUS
    <3>1. i \in 1 .. 1 + n /\ i \in Int
      BY <1>5
    <3>2. cat[i] = IF i <= 1 THEN <<p>>[i] ELSE p + 1 + i - 1 - 1
      BY <2>3, <3>1
    <3>3. CASE i = 1
      BY <1>1, <2>1, <3>2, <3>3
    <3>4. CASE i # 1
      <4>1. ~(i <= 1) /\ p + 1 + i - 1 - 1 = p + i - 1
        BY <1>1, <3>1, <3>4
      <4> QED BY <3>2, <4>1
    <3> QED BY <3>3, <3>4
  <2>5. cat = [i \in 1 .. n + 1 |-> cat[i]]
    BY <1>5, <2>3
  <2>6. cat = [i \in 1 .. n + 1 |-> p + i - 1]
    BY <2>4, <2>5
  <2>7. cat[n + 1] = p + n
    <3>1. n + 1 \in 1 .. n + 1 /\ p + (n + 1) - 1 = p + n
      BY <1>1, <1>5
    <3>2. cat[n + 1] = p + (n + 1) - 1
      BY <2>4, <3>1, Zenon
    <3> QED BY <3>1, <3>2
  <2>8. out' = cat
    BY <1>4 DEF cat
  <2>9. Len(out') = n + 1
    BY <1>5, <2>3, <2>8
  <2>10. last' = cat[n + 1]
    BY <1>4, <2>8, <2>9, Zenon
  <2> QED BY <2>6, <2>7, <2>8, <2>9, <2>10, Zenon
<1>7. p + 1 + n <= sent
  <2>1. n > 0 => p + 1 + n <= sent
    BY <1>1, <1>3, <1>4, <1>5, RestFits
  <2> QED BY <1>1, <1>5, <2>1
<1>8. out' \in Seq({-1} \cup 0 .. sent - 1)
  <2>1. \A i \in 1 .. n + 1 : out'[i] \in {-1} \cup 0 .. sent - 1
    BY <1>1, <1>5, <1>6, <1>7
  <2>2. out' = [i \in 1 .. n + 1 |-> out'[i]]
    BY <1>6
  <2>3. sent \in Nat /\ n + 1 \in Nat
    BY <1>1, <1>5
  <2> QED BY <2>1, <2>2, <2>3, OutTyped, Zenon
<1>9. /\ BufferInv' /\ Mic!Due' = p + 1 + n
      /\ Ats(held') = {a \in Ats(held) : p + 1 + n < a}
  <2>1. p + 1 \in 1 .. sent /\ sent - (p + 1) < Half
    BY <1>1
  <2>2. Mic!Count(held) \in Nat /\ Mic!Count(held) < Depth /\ Depth \in Nat
    BY <1>1, <1>3, <1>5, FitsTyped, BufferSizes DEF BufferInv
  <2>3. Mic!TypeOK /\ (\A q \in wire : sent - q <= Lag) /\ valid' = TRUE
    BY DEF BufferInv, Mic!PassOn
  <2>4. last' = p + 1 + n - 1
    BY <1>1, <1>5, <1>6
  <2>5. Mic!Count(held) <= Depth
    BY <2>2
  <2> QED BY <1>3, <1>4, <1>5, <1>8, <2>1, <2>2, <2>3, <2>4, <2>5, Advances
<1> QED BY <1>2, <1>4, <1>5, <1>6, <1>9

\* After a jump the buffer starts over at p.
LEMMA ResyncStep ==
  ASSUME Mic!MicReorderAssumption, BufferInv, NEW p \in wire, Mic!Resync(p),
         sent' = sent, wire' \subseteq wire
  PROVE  /\ BufferInv'
         /\ valid /\ p >= Mic!Due + ResyncDelta
         /\ out' = <<p>> /\ last' = p /\ Mic!Due' = p + 1 /\ Ats(held') = {}
<1>1. /\ p \in 0 .. sent - 1 /\ sent \in Nat /\ sent - p <= Lag /\ p \in Nat
      /\ Half \in Nat /\ Lag < Half /\ Lag \in Nat /\ ResyncDelta \in Nat \ {0}
      /\ Depth \in Nat \ {0}
  BY OnTheWire, BufferSizes
<1>2. valid /\ p >= Mic!Due + ResyncDelta
  <2>1. Mic!Ahead(p) >= ResyncDelta
    BY DEF Mic!Resync
  <2>2. valid
    BY <1>1, <2>1, OnTheWire
  <2>3. Mic!Due \in 1 .. sent /\ Mic!Ahead(p) = p - Mic!Due
    BY <2>2, OnTheWire
  <2> QED BY <1>1, <2>1, <2>2, <2>3
<1> DEFINE none == <<>>
<1>3. /\ DOMAIN none = {}
      /\ none \in [DOMAIN none -> [seq : Mic!Seqs, at : p + 1 .. sent - 1]]
  <2>1. none \in Seq([seq : Mic!Seqs, at : p + 1 .. sent - 1]) /\ Len(none) = 0
    OBVIOUS
  <2>2. DOMAIN none = 1 .. 0
    BY <2>1
  <2>3. 1 .. 0 = {}
    OBVIOUS
  <2> HIDE DEF none
  <2>4. none \in [1 .. Len(none) -> [seq : Mic!Seqs, at : p + 1 .. sent - 1]]
    BY <2>1
  <2> QED BY <2>1, <2>2, <2>3, <2>4
<1> HIDE DEF none
<1>4. /\ Fits(none, p + 1, sent) /\ Ats(none) = {} /\ Mic!Count(none) = 0
  <2>1. Mic!Count(none) = 0
    BY <1>3, CountIs, FS_EmptySet
  <2> QED BY <1>3, <2>1 DEF Fits, Ats
<1>5. PICK n \in 0 .. Mic!Count(none) :
        /\ Runs(none, p + 1, n)
        /\ out' = <<p>> \o [i \in 1 .. n |-> p + 1 + i - 1]
        /\ last' = out'[Len(out')]
        /\ nextSeq' = Mic!Number(p + 1 + n)
        /\ held' = From(none, p + 1 + n)
  <2>1. Mic!Emit(<<p>>, none, Mic!Number(p + 1))
    BY DEF Mic!Resync, none
  <2>2. p + 1 \in Nat /\ p + 1 <= sent /\ sent - (p + 1) <= Half
    BY <1>1
  <2> QED BY <1>1, <1>4, <2>1, <2>2, Emitted
<1>6. n = 0 /\ p + 1 + n = p + 1
  BY <1>1, <1>4, <1>5
<1>7. out' = <<p>> /\ last' = p
  <2>1. <<p>> \in Seq(Int) /\ Len(<<p>>) = 1 /\ <<p>>[1] = p
    BY <1>1
  <2>2. [i \in 1 .. n |-> p + 1 + i - 1] = <<>>
    BY <1>6
  <2>3. out' = <<p>>
    <3>1. <<p>> \o <<>> = <<p>>
      BY <2>1, ConcatEmptySeq
    <3> QED BY <1>5, <2>2, <3>1, Zenon
  <2>4. out'[Len(out')] = <<p>>[Len(<<p>>)]
    BY <2>3, Zenon
  <2>5. <<p>>[Len(<<p>>)] = <<p>>[1]
    BY <2>1, Zenon
  <2>6. last' = p
    BY <1>5, <2>1, <2>4, <2>5, Zenon
  <2> QED BY <2>3, <2>6
<1>8. out' \in Seq({-1} \cup 0 .. sent - 1)
  <2>1. p \in {-1} \cup 0 .. sent - 1
    BY <1>1
  <2> HIDE DEF Mic!Seqs
  <2> QED BY <1>7, <2>1
<1>9. BufferInv' /\ Mic!Due' = p + 1 /\ Ats(held') = {}
  <2>1. p + 1 \in 1 .. sent /\ sent - (p + 1) < Half /\ n \in Nat
    BY <1>1, <1>6
  <2>2. Mic!TypeOK /\ (\A q \in wire : sent - q <= Lag) /\ valid' = TRUE
    BY <1>2 DEF BufferInv, Mic!Resync, Mic!TypeOK
  <2>3. last' = p + 1 + n - 1
    BY <1>1, <1>6, <1>7
  <2>4. Mic!Count(none) <= Depth /\ Mic!Count(none) < Depth
    BY <1>1, <1>4
  <2>5. \A a \in Ats(none) : a < p + 1 + ResyncDelta
    BY <1>4
  <2>6. /\ BufferInv' /\ Mic!Due' = p + 1 + n
        /\ Ats(held') = {a \in Ats(none) : p + 1 + n < a}
    BY <1>4, <1>5, <1>8, <2>1, <2>2, <2>3, <2>4, <2>5, Advances
  <2> QED BY <1>4, <1>6, <2>6
<1> QED BY <1>2, <1>7, <1>9

\* A block ahead of the one that is due, once it is stored.
LEMMA StoredAhead ==
  ASSUME Mic!MicReorderAssumption, BufferInv, NEW p \in wire,
         Mic!Ahead(p) \in 1 .. ResyncDelta - 1
  PROVE  LET pending == Mic!Stored(Mic!Block(p)) IN
         /\ valid /\ Mic!Due < p
         /\ Fits(pending, Mic!Due + 1, sent)
         /\ Ats(pending) = Ats(held) \cup {p}
         /\ \A a \in Ats(pending) : Mic!Due < a /\ a < Mic!Due + ResyncDelta
         /\ DOMAIN pending # {}
         /\ Mic!Count(pending) \in Nat /\ Mic!Count(pending) <= Depth
<1> DEFINE pending == Mic!Stored(Mic!Block(p))
<1> PICK d : d = Mic!Due
  OBVIOUS
<1>1. /\ p \in 0 .. sent - 1 /\ sent \in Nat
      /\ Half \in Nat /\ ResyncDelta \in Nat \ {0}
      /\ Depth \in Nat \ {0} /\ Depth <= Slots /\ Slots \in Nat
  BY OnTheWire, BufferSizes
<1>2. valid
  BY <1>1, OnTheWire
<1>3. d \in 1 .. sent /\ sent - d < Half /\ d < p /\ p < d + ResyncDelta
  <2>1. d \in 1 .. sent /\ sent - d < Half /\ Mic!Ahead(p) = p - d
    BY <1>2, OnTheWire
  <2> QED BY <1>1, <2>1
<1>4. Fits(held, d + 1, sent) /\ \A a \in Ats(held) : a < d + ResyncDelta
  BY <1>2 DEF BufferInv, Turn
<1>5. d + 1 \in Nat /\ sent - (d + 1) <= Half /\ p \in d + 1 .. sent - 1
  BY <1>1, <1>3
<1>6. Mic!Count(held) \in Nat /\ Mic!Count(held) < Depth /\ Mic!Count(held) < Slots
  <2>1. Mic!Count(held) \in Nat
    BY <1>1, <1>4, <1>5, FitsTyped
  <2>2. Mic!Count(held) < Depth /\ Mic!Count(held) < Slots
    BY DEF BufferInv, Mic!TypeOK
  <2> QED BY <2>1, <2>2
<1>7. /\ Fits(pending, d + 1, sent)
      /\ Ats(pending) = Ats(held) \cup {p}
      /\ DOMAIN pending # {}
      /\ Mic!Count(pending) <= Mic!Count(held) + 1
  BY <1>1, <1>4, <1>5, <1>6, StoredFits
<1> HIDE DEF pending
<1>8. Ats(pending) \subseteq d + 1 .. sent - 1 /\ Mic!Count(pending) \in Nat
  BY <1>1, <1>5, <1>7, FitsTyped
<1>9. \A a \in Ats(pending) : d < a /\ a < d + ResyncDelta
  <2> SUFFICES ASSUME NEW a \in Ats(pending) PROVE d < a /\ a < d + ResyncDelta
    OBVIOUS
  <2>1. a \in d + 1 .. sent - 1
    BY <1>8
  <2>2. a \in Ats(held) \/ a = p
    BY <1>7
  <2> QED BY <1>1, <1>3, <1>4, <2>1, <2>2
<1>10. Mic!Count(pending) <= Depth
  BY <1>1, <1>6, <1>7, <1>8
<1> QED BY <1>2, <1>3, <1>7, <1>8, <1>9, <1>10 DEF pending

\* The block joins those that wait.
LEMMA HoldBackStep ==
  ASSUME Mic!MicReorderAssumption, BufferInv, NEW p \in wire, Mic!HoldBack(p),
         sent' = sent, wire' \subseteq wire
  PROVE  /\ BufferInv'
         /\ valid /\ p > Mic!Due
         /\ out' = <<>> /\ last' = last /\ Mic!Due' = Mic!Due
         /\ Ats(held') = Ats(held) \cup {p}
<1> PICK d : d = Mic!Due
  OBVIOUS
<1> DEFINE pending == Mic!Stored(Mic!Block(p))
<1>1. held' = pending /\ ~Mic!IsFull(pending) /\ out' = <<>>
      /\ valid' = valid /\ nextSeq' = nextSeq /\ last' = last
  BY DEF Mic!HoldBack
<1>2. /\ valid /\ d < p
      /\ Fits(pending, d + 1, sent)
      /\ Ats(pending) = Ats(held) \cup {p}
      /\ \A a \in Ats(pending) : d < a /\ a < d + ResyncDelta
      /\ Mic!Count(pending) \in Nat
  BY StoredAhead DEF Mic!HoldBack
<1> HIDE DEF pending
<1>3. Turn(d)
  BY <1>2, Zenon DEF BufferInv
<1>4. sent \in Nat /\ d \in 1 .. sent /\ sent - d < Half /\ nextSeq = Mic!Number(d)
  BY <1>3 DEF Turn, BufferInv, Mic!TypeOK
<1>5. Mic!Count(pending) < Depth /\ Mic!Count(pending) < Slots
  <2>1. Depth \in Nat /\ Slots \in Nat /\ Depth <= Slots
    BY BufferSizes
  <2>2. ~(Mic!Count(pending) >= Depth)
    BY <1>1, Zenon DEF Mic!IsFull
  <2> QED BY <1>2, <2>1, <2>2
<1>6. Mic!TypeOK'
  <2>1. d + 1 \in Nat /\ sent - (d + 1) <= Half
    BY <1>4, BufferSizes
  <2>2. /\ DOMAIN pending \subseteq 1 .. Slots
        /\ pending \in [DOMAIN pending -> [seq : Mic!Seqs, at : 0 .. sent - 1]]
        /\ \A i, j \in DOMAIN pending : pending[i].seq = pending[j].seq => i = j
    BY <1>2, <1>4, <2>1, HeldTyped
  <2>3. out' \in Seq({-1} \cup 0 .. sent - 1)
    BY <1>1
  <2>4. /\ sent \in 0 .. MaxBlocks /\ wire' \subseteq 0 .. sent - 1
        /\ valid' \in BOOLEAN /\ nextSeq' \in Mic!Seqs
        /\ last' \in {-1} \cup 0 .. sent - 1
    BY <1>1 DEF BufferInv, Mic!TypeOK, Mic!Silence
  <2> QED BY <1>1, <1>5, <2>2, <2>3, <2>4, Zenon
          DEF Mic!TypeOK, Mic!Silence
<1>7. Turn(d)'
  BY <1>1, <1>2, <1>3, Zenon DEF Turn
<1>8. Mic!Due' = d
  <2>1. sent - Mic!Distance(Mic!Number(d), Mic!Number(sent)) = d
    BY <1>4, DueFromNumber
  <2> QED BY <1>1, <1>2, <1>4, <2>1, Zenon DEF Mic!Due
<1>9. \A q \in wire' : sent' - q <= Lag
  BY DEF BufferInv
<1>10. BufferInv'
  <2>1. Turn(Mic!Due)'
    BY <1>7, <1>8, Zenon DEF Turn
  <2>2. Mic!Count(held') < Depth /\ valid'
    BY <1>1, <1>2, <1>5, Zenon
  <2> QED BY <1>6, <1>9, <2>1, <2>2, Zenon DEF BufferInv
<1>11. p > d
  BY <1>2, <1>4, OnTheWire
<1> QED BY <1>1, <1>2, <1>8, <1>10, <1>11, Zenon

\* As many positions as slots.
LEMMA PositionsCount ==
  ASSUME Mic!MicReorderAssumption, NEW pending, NEW lo \in Nat, NEW hi \in Nat,
         Fits(pending, lo, hi)
  PROVE  /\ IsFiniteSet(Ats(pending))
         /\ Cardinality(Ats(pending)) = Mic!Count(pending)
<1> DEFINE g == [i \in DOMAIN pending |-> pending[i].at]
<1>1. g \in [DOMAIN pending -> Ats(pending)]
  BY DEF Ats
<1>2. \A i, j \in DOMAIN pending : g[i] = g[j] => i = j
  BY DEF Fits
<1>3. \A a \in Ats(pending) : \E i \in DOMAIN pending : g[i] = a
  BY DEF Ats
<1> HIDE DEF g
<1>4. g \in Bijection(DOMAIN pending, Ats(pending))
  BY <1>1, <1>2, <1>3 DEF Bijection, Injection, Surjection, IsInjective
<1>5. ExistsBijection(DOMAIN pending, Ats(pending))
  BY <1>4, Zenon DEF ExistsBijection
<1>6. IsFiniteSet(DOMAIN pending)
  BY FitsTyped
<1> QED BY <1>5, <1>6, FS_Bijection, CountIs

\* Everything below the earliest block f is filled with the last one, then the
\* run from f comes out; Depth blocks were here.
LEMMA ConcealStep ==
  ASSUME Mic!MicReorderAssumption, BufferInv, NEW p \in wire, Mic!Conceal(p),
         sent' = sent, wire' \subseteq wire
  PROVE  LET here == Ats(held) \cup {p} IN
         /\ BufferInv'
         /\ valid /\ p > Mic!Due
         /\ IsFiniteSet(here) /\ Cardinality(here) >= Depth
         /\ \E f \in here, n \in Nat :
              /\ n > 0 /\ Mic!Due < f /\ \A a \in here : f <= a
              /\ f + n \notin here /\ \A i \in 0 .. n - 1 : f + i \in here
              /\ out' = [i \in 1 .. f + n - Mic!Due |->
                           IF i <= f - Mic!Due THEN last ELSE Mic!Due + i - 1]
              /\ Len(out') = f + n - Mic!Due
              /\ last' = f + n - 1
              /\ Mic!Due' = f + n
              /\ Ats(held') = {a \in here : f + n < a}
<1> DEFINE pending == Mic!Stored(Mic!Block(p))
           here == Ats(held) \cup {p}
<1> PICK d : d = Mic!Due
  OBVIOUS
<1>1. /\ Mic!Ahead(p) \in 1 .. ResyncDelta - 1
      /\ Mic!IsFull(pending)
      /\ Mic!Emit([i \in 1 .. Mic!Distance(nextSeq, Mic!MinPending(pending)) |-> last],
                  pending, Mic!MinPending(pending))
      /\ valid' = valid
  BY DEF Mic!Conceal
<1>2. /\ valid /\ d < p
      /\ Fits(pending, d + 1, sent)
      /\ Ats(pending) = here
      /\ \A a \in here : d < a /\ a < d + ResyncDelta
      /\ DOMAIN pending # {}
      /\ Mic!Count(pending) \in Nat /\ Mic!Count(pending) <= Depth
  BY <1>1, StoredAhead
<1> HIDE DEF pending
<1>3. /\ sent \in Nat /\ d \in 1 .. sent /\ sent - d < Half
      /\ nextSeq = Mic!Number(d) /\ last = d - 1
      /\ p \in 0 .. sent - 1
      /\ Half \in Nat /\ Depth \in Nat
  BY <1>2, BufferSizes DEF Turn, BufferInv, Mic!TypeOK
<1>4. IsFiniteSet(here) /\ Cardinality(here) >= Depth
  <2>1. d + 1 \in Nat
    BY <1>3
  <2>2. IsFiniteSet(here) /\ Cardinality(here) = Mic!Count(pending)
    BY <1>2, <1>3, <2>1, PositionsCount
  <2>3. Mic!Count(pending) >= Depth
    BY <1>1, Zenon DEF Mic!IsFull
  <2> QED BY <2>2, <2>3
<1> HIDE DEF here
<1>5. PICK f \in here : /\ \A a \in here : f <= a
                        /\ Mic!MinPending(pending) = Mic!Number(f)
  <2>1. d + 1 \in Nat /\ sent - (d + 1) <= Half
    BY <1>3
  <2>2. \E f \in Ats(pending) : /\ \A a \in Ats(pending) : f <= a
                                /\ Mic!MinPending(pending) = Mic!Number(f)
    BY <1>2, <1>3, <2>1, EarliestHeld
  <2> QED BY <1>2, <2>2, Zenon
<1>6. here \subseteq d + 1 .. sent - 1
  BY <1>2, <1>3, FitsTyped
<1>7. /\ f \in 1 .. sent /\ d < f /\ sent - f < Half /\ sent - f <= Half
      /\ f \in Nat /\ f <= sent /\ f - d \in Nat
  BY <1>3, <1>5, <1>6
<1>8. Mic!Distance(nextSeq, Mic!MinPending(pending)) = f - d
  <2>1. -Half <= f - d /\ f - d < Half /\ f \in Int /\ d \in Int
    BY <1>3, <1>7
  <2> QED BY <1>3, <1>5, <2>1, DistanceIs
<1>9. Fits(pending, f, sent)
  <2>1. \A i \in DOMAIN pending : pending[i].at \in f .. sent - 1
    <3> SUFFICES ASSUME NEW i \in DOMAIN pending
                 PROVE  pending[i].at \in f .. sent - 1
      OBVIOUS
    <3>1. pending[i].at \in here
      BY <1>2 DEF Ats
    <3>2. pending[i].at \in d + 1 .. sent - 1 /\ f <= pending[i].at
      BY <1>5, <1>6, <3>1
    <3> QED BY <1>3, <1>7, <3>2
  <2>2. pending \in [DOMAIN pending -> [seq : Mic!Seqs, at : d + 1 .. sent - 1]]
    BY <1>2 DEF Fits
  <2>3. pending \in [DOMAIN pending -> [seq : Mic!Seqs, at : f .. sent - 1]]
    <3> SUFFICES ASSUME NEW i \in DOMAIN pending
                 PROVE  pending[i] \in [seq : Mic!Seqs, at : f .. sent - 1]
      BY <2>2
    <3>1. pending[i] \in [seq : Mic!Seqs, at : d + 1 .. sent - 1]
      BY <2>2
    <3> QED BY <2>1, <3>1
  <2> QED BY <1>2, <2>3 DEF Fits
<1> DEFINE lead == [i \in 1 .. f - d |-> last]
<1>10. PICK n \in 0 .. Mic!Count(pending) :
         /\ Runs(pending, f, n)
         /\ out' = lead \o [i \in 1 .. n |-> f + i - 1]
         /\ last' = out'[Len(out')]
         /\ nextSeq' = Mic!Number(f + n)
         /\ held' = From(pending, f + n)
  <2>1. Mic!Emit(lead, pending, Mic!Number(f))
    BY <1>1, <1>5, <1>8, Zenon
  <2> HIDE DEF lead
  <2> QED BY <1>3, <1>7, <1>9, <2>1, Emitted
<1>11. /\ n \in Nat /\ n > 0
       /\ f + n \notin here /\ \A i \in 0 .. n - 1 : f + i \in here
  <2>1. f + n \notin here /\ \A i \in 0 .. n - 1 : f + i \in here
    BY <1>2, <1>10 DEF Runs
  <2>2. n # 0
    <3>1. f + 0 = f
      BY <1>7
    <3> QED BY <1>5, <2>1, <3>1
  <2> QED BY <1>2, <2>1, <2>2
<1>12. /\ out' = [i \in 1 .. f + n - d |-> IF i <= f - d THEN last ELSE d + i - 1]
       /\ Len(out') = f + n - d /\ last' = f + n - 1
  <2> DEFINE cat == lead \o [i \in 1 .. n |-> f + i - 1]
  <2>1. /\ lead \in Seq(Int) /\ Len(lead) = f - d
        /\ \A i \in 1 .. f - d : lead[i] = last
    BY <1>3, <1>7
  <2> HIDE DEF lead
  <2>2. \A i \in 1 .. n : f + i - 1 \in Int
    BY <1>7
  <2>3. /\ \A i \in 1 .. (f - d) + n :
              cat[i] = IF i <= f - d THEN lead[i] ELSE f + i - (f - d) - 1
        /\ Len(cat) = (f - d) + n
        /\ cat = [i \in 1 .. (f - d) + n |-> cat[i]]
    <3>1. f \in Int /\ n \in Nat
      BY <1>7, <1>11
    <3>2. /\ cat = [i \in 1 .. Len(lead) + n |->
                      IF i <= Len(lead) THEN lead[i] ELSE f + i - Len(lead) - 1]
          /\ Len(cat) = Len(lead) + n
      <4>1. lead \in Seq(Int)
        BY <2>1
      <4> QED BY <2>2, <3>1, <4>1, LeadAndRun
    <3> HIDE DEF cat
    <3>3. Len(cat) = (f - d) + n
      BY <2>1, <3>2
    <3>4. /\ \A i \in 1 .. Len(lead) + n :
                cat[i] = IF i <= Len(lead) THEN lead[i] ELSE f + i - Len(lead) - 1
          /\ cat = [i \in 1 .. Len(lead) + n |-> cat[i]]
      BY <3>2
    <3> QED BY <2>1, <3>3, <3>4
  <2> HIDE DEF cat
  <2>4. (f - d) + n = f + n - d
    BY <1>3, <1>7, <1>11
  <2>5. \A i \in 1 .. f + n - d : cat[i] = IF i <= f - d THEN last ELSE d + i - 1
    <3> SUFFICES ASSUME NEW i \in 1 .. f + n - d
                 PROVE  cat[i] = IF i <= f - d THEN last ELSE d + i - 1
      OBVIOUS
    <3>1. cat[i] = IF i <= f - d THEN lead[i] ELSE f + i - (f - d) - 1
      BY <2>3, <2>4
    <3>2. f + i - (f - d) - 1 = d + i - 1 /\ (i <= f - d => i \in 1 .. f - d)
      BY <1>3, <1>7
    <3> QED BY <2>1, <3>1, <3>2
  <2>6. cat = [i \in 1 .. f + n - d |-> cat[i]]
    BY <2>3, <2>4
  <2>7. cat = [i \in 1 .. f + n - d |-> IF i <= f - d THEN last ELSE d + i - 1]
    BY <2>5, <2>6
  <2>8. cat[f + n - d] = f + n - 1
    <3>1. /\ f + n - d \in 1 .. f + n - d /\ ~(f + n - d <= f - d)
          /\ d + (f + n - d) - 1 = f + n - 1
      BY <1>3, <1>7, <1>11
    <3> QED BY <2>5, <3>1
  <2>9. out' = cat
    BY <1>10 DEF cat
  <2>10. Len(out') = f + n - d
    BY <2>3, <2>4, <2>9
  <2> QED BY <1>10, <2>7, <2>8, <2>9, <2>10, Zenon
<1>13. f + n <= sent
  BY <1>3, <1>7, <1>9, <1>10, <1>11, RestFits
<1>14. out' \in Seq({-1} \cup 0 .. sent - 1)
  <2>1. \A i \in 1 .. f + n - d : out'[i] \in {-1} \cup 0 .. sent - 1
    <3> SUFFICES ASSUME NEW i \in 1 .. f + n - d
                 PROVE  out'[i] \in 0 .. sent - 1
      OBVIOUS
    <3>1. out'[i] = IF i <= f - d THEN last ELSE d + i - 1
      BY <1>12
    <3> QED BY <1>3, <1>7, <1>11, <1>13, <3>1
  <2>2. out' = [i \in 1 .. f + n - d |-> out'[i]]
    BY <1>12
  <2>3. sent \in Nat /\ f + n - d \in Nat
    BY <1>3, <1>7, <1>11
  <2> QED BY <2>1, <2>2, <2>3, OutTyped, Zenon
<1>15. /\ BufferInv' /\ Mic!Due' = f + n
       /\ Ats(held') = {a \in here : f + n < a}
  <2>1. Mic!TypeOK /\ (\A q \in wire : sent - q <= Lag) /\ valid' = TRUE
    BY <1>1, <1>2 DEF BufferInv, Mic!TypeOK
  <2>2. \A a \in Ats(pending) : a < f + ResyncDelta
    <3> SUFFICES ASSUME NEW a \in here PROVE a < f + ResyncDelta
      BY <1>2
    <3>1. a \in d + 1 .. sent - 1 /\ a < d + ResyncDelta /\ ResyncDelta \in Nat
      BY <1>2, <1>6, BufferSizes
    <3> QED BY <1>3, <1>7, <3>1
  <2>3. /\ BufferInv' /\ Mic!Due' = f + n
        /\ Ats(held') = {a \in Ats(pending) : f + n < a}
    BY <1>2, <1>7, <1>9, <1>10, <1>11, <1>12, <1>14, <2>1, <2>2, Advances
  <2> QED BY <1>2, <2>3
<1>16. p > d
  BY <1>2, <1>3
<1>17. /\ n > 0 /\ Mic!Due < f /\ \A a \in here : f <= a
       /\ f + n \notin here /\ \A i \in 0 .. n - 1 : f + i \in here
       /\ out' = [i \in 1 .. f + n - Mic!Due |->
                    IF i <= f - Mic!Due THEN last ELSE Mic!Due + i - 1]
       /\ Len(out') = f + n - Mic!Due
       /\ last' = f + n - 1
       /\ Mic!Due' = f + n
       /\ Ats(held') = {a \in here : f + n < a}
  BY <1>5, <1>7, <1>11, <1>12, <1>15, Zenon
<1>18. \E e \in here, k \in Nat :
         /\ k > 0 /\ Mic!Due < e /\ \A a \in here : e <= a
         /\ e + k \notin here /\ \A i \in 0 .. k - 1 : e + i \in here
         /\ out' = [i \in 1 .. e + k - Mic!Due |->
                      IF i <= e - Mic!Due THEN last ELSE Mic!Due + i - 1]
         /\ Len(out') = e + k - Mic!Due
         /\ last' = e + k - 1
         /\ Mic!Due' = e + k
         /\ Ats(held') = {a \in here : e + k < a}
  <2> WITNESS f \in here, n \in Nat
  <2> QED BY <1>17, Zenon
<1> QED BY <1>2, <1>4, <1>15, <1>16, <1>18, Zenon DEF here

(***************************************************************************)
(* Every step keeps the invariant.                                         *)
(***************************************************************************)

\* The empty sequence as a function of no slots.
LEMMA NothingHeld ==
  ASSUME NEW S, NEW h, h = <<>>
  PROVE  DOMAIN h = {} /\ Mic!Count(h) = 0 /\ h \in [DOMAIN h -> S]
<1>1. h \in Seq(S) /\ Len(h) = 0
  OBVIOUS
<1>2. h \in [1 .. 0 -> S]
  BY <1>1
<1>3. 1 .. 0 = {}
  OBVIOUS
<1>4. DOMAIN h = {}
  BY <1>2, <1>3
<1>5. Mic!Count(h) = 0
  BY <1>4, CountIs, FS_EmptySet
<1> QED BY <1>2, <1>3, <1>4, <1>5

LEMMA BufferInit ==
  ASSUME Mic!MicReorderAssumption
  PROVE  Mic!Init => BufferInv
<1> SUFFICES ASSUME Mic!Init PROVE BufferInv
  OBVIOUS
<1>1. /\ sent = 0 /\ wire = {} /\ valid = FALSE /\ nextSeq = 0
      /\ held = <<>> /\ last = -1 /\ out = <<>>
  BY DEF Mic!Init, Mic!Silence
<1>2. /\ DOMAIN held = {} /\ Mic!Count(held) = 0
      /\ held \in [DOMAIN held -> [seq : Mic!Seqs, at : 0 .. sent - 1]]
  BY <1>1, NothingHeld
<1>3. Mic!TypeOK
  <2>1. out \in Seq({-1} \cup 0 .. sent - 1)
    BY <1>1
  <2>2. nextSeq \in Mic!Seqs /\ sent \in 0 .. MaxBlocks
    BY <1>1, BufferSizes DEF Mic!Seqs
  <2>3. DOMAIN held \subseteq 1 .. Slots /\ Mic!Count(held) < Slots
    BY <1>2, BufferSizes
  <2>4. \A i, j \in DOMAIN held : held[i].seq = held[j].seq => i = j
    BY <1>2
  <2>5. wire \subseteq 0 .. sent - 1 /\ valid \in BOOLEAN
        /\ last \in {-1} \cup 0 .. sent - 1
    BY <1>1
  <2> QED BY <1>2, <2>1, <2>2, <2>3, <2>4, <2>5, Zenon DEF Mic!TypeOK, Mic!Silence
<1>4. Mic!Count(held) < Depth
  BY <1>2, BufferSizes
<1> QED BY <1>1, <1>2, <1>3, <1>4 DEF BufferInv

\* A new session begins like the first.
LEMMA BufferFresh ==
  ASSUME Mic!MicReorderAssumption
  PROVE  (Mic!Init => BufferInv)'
<1>1. Mic!Init => BufferInv
  BY BufferInit
<1> QED BY <1>1, PTL

LEMMA SendStartStep ==
  ASSUME Mic!MicReorderAssumption, Mic!SendStart
  PROVE  BufferInv'
<1>1. Mic!Init'
  BY DEF Mic!SendStart, Mic!Init
<1> QED BY <1>1, BufferFresh

LEMMA SendStep ==
  ASSUME Mic!MicReorderAssumption, BufferInv, Mic!Send
  PROVE  BufferInv' /\ Mic!Due' = Mic!Due
<1>1. /\ sent \in Nat /\ wire \subseteq 0 .. sent - 1
      /\ sent < MaxBlocks /\ sent' = sent + 1 /\ wire' = wire \cup {sent}
      /\ MaxBlocks \in Nat /\ Lag \in Nat \ {0} /\ Half \in Nat
  BY BufferSizes DEF Mic!Send, BufferInv, Mic!TypeOK
<1>2. wire' \subseteq 0 .. sent' - 1
  BY <1>1
<1>3. \A p \in wire' : sent' - p <= Lag
  <2> SUFFICES ASSUME NEW p \in wire' PROVE sent + 1 - p <= Lag
    BY <1>1
  <2>1. CASE p \in wire
    <3>1. sent - p < Lag /\ p \in Int
      BY <1>1, <2>1 DEF Mic!Send
    <3> QED BY <1>1, <3>1
  <2>2. CASE p = sent
    BY <1>1, <2>2
  <2> QED BY <1>1, <2>1, <2>2
<1>4. valid => sent' - Mic!Due < Half
  <2> SUFFICES ASSUME valid PROVE sent' - Mic!Due < Half
    OBVIOUS
  <2> PICK d : d = Mic!Due
    OBVIOUS
  <2>1. sent - d < Half - 1 /\ d \in 1 .. sent
    BY DEF Mic!Send, BufferInv, Turn
  <2>2. sent' - d < Half
    BY <1>1, <2>1
  <2> QED BY <2>2, Zenon
<1>5. /\ valid' = valid /\ nextSeq' = nextSeq /\ held' = held /\ last' = last
      /\ out' = <<>>
  BY DEF Mic!Send
<1>6. sent' \in {sent, sent + 1} /\ sent' <= MaxBlocks
  BY <1>1
<1> QED BY <1>2, <1>3, <1>4, <1>5, <1>6, Rests

\* A lost or a stale block leaves the buffer alone.
LEMMA IdleStep ==
  ASSUME Mic!MicReorderAssumption, BufferInv, sent' = sent, wire' \subseteq wire,
         valid' = valid, nextSeq' = nextSeq, held' = held, last' = last,
         out' = <<>>
  PROVE  BufferInv' /\ Mic!Due' = Mic!Due
<1>1. /\ sent \in Nat /\ sent <= MaxBlocks /\ wire \subseteq 0 .. sent - 1
      /\ \A p \in wire : sent - p <= Lag
      /\ valid => sent - Mic!Due < Half
  BY DEF BufferInv, Mic!TypeOK, Turn
<1>2. /\ sent' \in {sent, sent + 1} /\ sent' <= MaxBlocks
      /\ wire' \subseteq 0 .. sent' - 1 /\ \A p \in wire' : sent' - p <= Lag
      /\ valid => sent' - Mic!Due < Half
  BY <1>1
<1> QED BY <1>2, Rests

LEMMA UnchangedStep ==
  ASSUME BufferInv, UNCHANGED Mic!vars
  PROVE  BufferInv' /\ Mic!Due' = Mic!Due
<1>1. /\ sent' = sent /\ wire' = wire /\ valid' = valid /\ nextSeq' = nextSeq
      /\ held' = held /\ last' = last /\ out' = out
  BY DEF Mic!vars
<1>2. Mic!Due' = Mic!Due
  BY <1>1 DEF Mic!Due
<1> QED BY <1>1, <1>2 DEF BufferInv, Mic!TypeOK, Turn, Fits, Mic!Count

LEMMA BufferNext ==
  ASSUME Mic!MicReorderAssumption
  PROVE  BufferInv /\ [Mic!Next]_(Mic!vars) => BufferInv'
<1> SUFFICES ASSUME BufferInv, [Mic!Next]_(Mic!vars) PROVE BufferInv'
  OBVIOUS
<1>1. CASE Mic!Send
  BY <1>1, SendStep
<1>2. ASSUME NEW p \in wire, Mic!Lose(p) PROVE BufferInv'
  <2>1. /\ sent' = sent /\ wire' \subseteq wire
        /\ valid' = valid /\ nextSeq' = nextSeq /\ held' = held /\ last' = last
        /\ out' = <<>>
    BY <1>2 DEF Mic!Lose
  <2> QED BY <2>1, IdleStep
<1>3. ASSUME NEW p \in wire, Mic!Receive(p) PROVE BufferInv'
  <2>1. sent' = sent /\ wire' \subseteq wire
    BY <1>3 DEF Mic!Receive
  <2>2. CASE Mic!DropStale(p)
    BY <2>1, <2>2, IdleStep DEF Mic!DropStale
  <2>3. CASE Mic!PassOn(p)
    BY <2>1, <2>3, PassOnStep
  <2>4. CASE Mic!Resync(p)
    BY <2>1, <2>4, ResyncStep
  <2>5. CASE Mic!HoldBack(p)
    BY <2>1, <2>5, HoldBackStep
  <2>6. CASE Mic!Conceal(p)
    BY <2>1, <2>6, ConcealStep
  <2> QED BY <1>3, <2>2, <2>3, <2>4, <2>5, <2>6 DEF Mic!Receive, Mic!Push
<1>4. CASE Mic!SendStart
  BY <1>4, SendStartStep
<1>5. CASE UNCHANGED Mic!vars
  BY <1>5, UnchangedStep
<1> QED BY <1>1, <1>2, <1>3, <1>4, <1>5 DEF Mic!Next

(***************************************************************************)
(* The properties.                                                         *)
(***************************************************************************)

\* The positions held, in the words of MicReorder.
LEMMA PositionsAre ==
  /\ Mic!Positions = Ats(held)
  /\ Mic!Positions' = Ats(held')
BY DEF Mic!Positions, Mic!Range, Ats

\* What waits is ahead of the due position because it fits there.
LEMMA HoldFromInv ==
  ASSUME Mic!MicReorderAssumption
  PROVE  BufferInv => Mic!HoldInv
<1> SUFFICES ASSUME BufferInv PROVE Mic!HoldInv
  OBVIOUS
<1>1. ASSUME NEW a \in Mic!Positions
      PROVE  Mic!Due < a /\ a < Mic!Due + ResyncDelta
  <2>1. a \in Ats(held)
    BY <1>1, PositionsAre
  <2>2. valid
    BY <2>1 DEF BufferInv, Ats
  <2> PICK d : d = Mic!Due
    OBVIOUS
  <2>3. /\ d \in 1 .. sent /\ Fits(held, d + 1, sent) /\ sent \in Nat
        /\ \A b \in Ats(held) : b < d + ResyncDelta
    BY <2>2 DEF BufferInv, Turn, Mic!TypeOK
  <2>4. Ats(held) \subseteq d + 1 .. sent - 1
    <3>1. d + 1 \in Nat
      BY <2>3
    <3> QED BY <2>3, <3>1, FitsTyped
  <2>5. d < a /\ a < d + ResyncDelta
    BY <2>1, <2>3, <2>4
  <2> QED BY <2>5, Zenon
<1> QED BY <1>1, Zenon DEF BufferInv, Mic!HoldInv, Mic!HoldIsShort

\* What holds between two pushes of the buffer, for every depth, number of slots,
\* resync distance and range of the sequence numbers: nextSeq and lastEmitted stand
\* for one position, and what is stored is ahead of it.
THEOREM BufferInvariance ==
  ASSUME Mic!MicReorderAssumption
  PROVE  Mic!Spec => []BufferInv
<1>1. Mic!Init => BufferInv
  BY BufferInit
<1>2. BufferInv /\ [Mic!Next]_(Mic!vars) => BufferInv'
  BY BufferNext
<1> QED BY <1>1, <1>2, PTL DEF Mic!Spec

\* A block is held back only for a gap in front of it that can still close, and
\* never more than Depth - 1 of them, so push() cannot run out of slots or add more
\* delay than that, whatever the network loses, reorders or repeats.
THEOREM HoldStaysShort ==
  ASSUME Mic!MicReorderAssumption
  PROVE  Mic!Spec => []Mic!HoldInv
BY BufferInvariance, HoldFromInv, PTL

\* A push that repeats the last block has heard of Depth blocks behind the gap.
ConcealsLost ==
  out' # <<>> /\ out'[1] = last =>
    Mic!Cardinality((Mic!Range(out') \ {last}) \cup Mic!Positions') >= Depth

\* Of the blocks here, each is either emitted or goes on waiting.
LEMMA ConcealStepIsLost ==
  ASSUME Mic!MicReorderAssumption, BufferInv, NEW p \in wire, Mic!Conceal(p),
         sent' = sent, wire' \subseteq wire
  PROVE  ConcealsLost
<1> DEFINE here == Ats(held) \cup {p}
           heard == (Mic!Range(out') \ {last}) \cup Mic!Positions'
           d == Mic!Due
<1>1. PICK f \in here, n \in Nat :
        /\ n > 0 /\ d < f /\ \A a \in here : f <= a
        /\ f + n \notin here /\ \A i \in 0 .. n - 1 : f + i \in here
        /\ out' = [i \in 1 .. f + n - d |-> IF i <= f - d THEN last ELSE d + i - 1]
        /\ Len(out') = f + n - d
        /\ last' = f + n - 1
        /\ Mic!Due' = f + n
        /\ Ats(held') = {a \in here : f + n < a}
  BY ConcealStep, Zenon
<1>2. IsFiniteSet(here) /\ Cardinality(here) >= Depth /\ valid /\ BufferInv'
  BY ConcealStep
<1>3. d \in 1 .. sent /\ sent \in Nat /\ last = d - 1 /\ p \in 0 .. sent - 1
  BY <1>2 DEF BufferInv, Turn, Mic!TypeOK
<1>4. Ats(held) \subseteq 0 .. sent - 1
  <2>1. Fits(held, d + 1, sent) /\ d + 1 \in Nat
    <3>1. Turn(d)
      BY <1>2, Zenon DEF BufferInv
    <3> QED BY <1>3, <3>1 DEF Turn
  <2>2. Ats(held) \subseteq d + 1 .. sent - 1
    BY <1>3, <2>1, FitsTyped
  <2> QED BY <1>3, <2>2
<1>5. here \subseteq 0 .. sent - 1
  BY <1>3, <1>4
<1> HIDE DEF here, d
<1>6. ASSUME NEW a \in here PROVE a \in heard
  <2>1. a \in Int /\ f \in Int /\ f <= a /\ a # f + n /\ d \in Int
    <3>1. a \in 0 .. sent - 1 /\ f \in 0 .. sent - 1
      BY <1>5, Zenon
    <3>2. f <= a /\ a # f + n
      BY <1>1, Zenon
    <3> QED BY <1>3, <3>1, <3>2
  <2>2. CASE f + n < a
    BY <1>1, <2>2, PositionsAre
  <2>3. CASE a < f + n
    <3> DEFINE i == a - d + 1
    <3>1. i \in 1 .. f + n - d /\ ~(i <= f - d) /\ d + i - 1 = a
      <4>1. n \in Nat /\ d < f
        BY <1>1
      <4> QED BY <2>1, <2>3, <4>1
    <3> HIDE DEF i
    <3>2. i \in DOMAIN out' /\ out'[i] = a
      BY <1>1, <3>1
    <3>3. a \in Mic!Range(out')
      BY <3>2, Zenon DEF Mic!Range
    <3>4. a # last
      BY <1>1, <1>3, <2>1
    <3> QED BY <3>3, <3>4
  <2> QED BY <1>1, <2>1, <2>2, <2>3
<1>7. heard \subseteq -1 .. sent
  <2>1. ASSUME NEW i \in DOMAIN out' PROVE out'[i] \in -1 .. sent
    <3>1. out' \in Seq({-1} \cup 0 .. sent' - 1)
      BY <1>2 DEF BufferInv, Mic!TypeOK, Mic!Silence
    <3>2. out'[i] \in {-1} \cup 0 .. sent - 1
      BY <3>1
    <3> QED BY <1>3, <3>2
  <2>2. Mic!Range(out') \subseteq -1 .. sent
    BY <2>1 DEF Mic!Range
  <2>3. Mic!Positions' \subseteq -1 .. sent
    <3>1. Mic!Positions' \subseteq here
      BY <1>1, PositionsAre, Zenon
    <3>2. 0 .. sent - 1 \subseteq -1 .. sent
      BY <1>3
    <3> QED BY <1>5, <3>1, <3>2, Zenon
  <2> QED BY <2>2, <2>3
<1> HIDE DEF heard
<1>8. IsFiniteSet(heard)
  <2>1. IsFiniteSet(-1 .. sent)
    BY <1>3, FS_Interval
  <2> QED BY <1>7, <2>1, FS_Subset
<1>9. here \subseteq heard
  BY <1>6
<1>10. Cardinality(here) <= Cardinality(heard)
  BY <1>8, <1>9, FS_Subset
<1>11. Cardinality(heard) >= Depth
  <2>1. Cardinality(here) \in Nat /\ Cardinality(heard) \in Nat /\ Depth \in Nat
    BY <1>2, <1>8, FS_CardinalityType, BufferSizes
  <2> QED BY <1>2, <1>10, <2>1
<1>12. Mic!Cardinality(heard) = Cardinality(heard)
  BY Zenon DEF Mic!Cardinality, Cardinality
<1>13. Mic!Cardinality(heard) >= Depth
  BY <1>11, <1>12
<1> QED BY <1>13, Zenon DEF ConcealsLost, heard

\* The other pushes do not begin with the last block.
LEMMA StepConcealsLost ==
  ASSUME Mic!MicReorderAssumption, BufferInv, [Mic!Next]_(Mic!vars)
  PROVE  [ConcealsLost]_(Mic!vars)
<1>1. ASSUME out' = <<>> PROVE ConcealsLost
  BY <1>1 DEF ConcealsLost
<1>2. ASSUME NEW p \in wire, Mic!Receive(p) PROVE ConcealsLost
  <2>1. sent' = sent /\ wire' \subseteq wire
    BY <1>2 DEF Mic!Receive
  <2>2. CASE Mic!PassOn(p)
    <3>1. PICK n \in Nat : out' = [i \in 1 .. n + 1 |-> p + i - 1]
      BY <2>1, <2>2, PassOnStep
    <3>2. p \in Nat
      BY OnTheWire
    <3>3. out'[1] = p
      BY <3>1, <3>2
    <3>4. last # p
      <4>1. CASE valid
        <5> PICK d : d = Mic!Due
          OBVIOUS
        <5>1. last = d - 1 /\ d \in Int
          BY <4>1 DEF BufferInv, Turn
        <5>2. p = d
          BY <2>1, <2>2, <4>1, PassOnStep
        <5> QED BY <5>1, <5>2
      <4>2. CASE ~valid
        BY <3>2, <4>2 DEF BufferInv
      <4> QED BY <4>1, <4>2
    <3> QED BY <3>3, <3>4, Zenon DEF ConcealsLost
  <2>3. CASE Mic!Resync(p)
    <3> PICK d : d = Mic!Due
      OBVIOUS
    <3>1. valid /\ p >= d + ResyncDelta /\ out' = <<p>>
      BY <2>1, <2>3, ResyncStep
    <3>2. last = d - 1 /\ d \in Int /\ p \in Nat /\ ResyncDelta \in Nat
      BY <3>1, OnTheWire, BufferSizes DEF BufferInv, Turn
    <3>3. last # p
      BY <3>1, <3>2
    <3>4. out'[1] = p
      BY <3>1
    <3> QED BY <3>3, <3>4, Zenon DEF ConcealsLost
  <2>4. CASE Mic!Conceal(p)
    BY <2>1, <2>4, ConcealStepIsLost
  <2>5. CASE Mic!DropStale(p) \/ Mic!HoldBack(p)
    BY <1>1, <2>5 DEF Mic!DropStale, Mic!HoldBack
  <2> QED BY <1>2, <2>2, <2>3, <2>4, <2>5 DEF Mic!Receive, Mic!Push
<1>3. CASE Mic!Send \/ Mic!SendStart \/ \E p \in wire : Mic!Lose(p)
  BY <1>1, <1>3 DEF Mic!Send, Mic!SendStart, Mic!Lose
<1> QED BY <1>2, <1>3, Zenon DEF Mic!Next

\* push() gives a gap up only when Depth blocks behind it have come in: no reordering
\* by fewer, and no duplicate, makes it conceal a block that is merely late.
THEOREM OnlyLostConcealed ==
  ASSUME Mic!MicReorderAssumption
  PROVE  Mic!Spec => Mic!ConcealOnlyLost
<1>1. Mic!Spec => []BufferInv
  BY BufferInvariance
<1>2. BufferInv /\ [Mic!Next]_(Mic!vars) => [ConcealsLost]_(Mic!vars)
  BY StepConcealsLost
<1>3. Mic!Spec => [][ConcealsLost]_(Mic!vars)
  BY <1>1, <1>2, PTL DEF Mic!Spec
<1> QED BY <1>3 DEF Mic!ConcealOnlyLost, ConcealsLost

(***************************************************************************)
(* The playout.  The position that is due is next, the positions held wait.*)
(***************************************************************************)

\* What fills a position: its own block if that is here.
LEMMA FillIs ==
  ASSUME NEW here, here \subseteq Nat, NEW m \in here
  PROVE  /\ {b \in here : b <= m} # {}
         /\ Mic!Playout!Max({b \in here : b <= m}) = m
<1> DEFINE before == {b \in here : b <= m}
<1>1. m \in before /\ before \subseteq Int /\ \A b \in before : m >= b
  <2>1. m \in Nat /\ m \in before /\ before \subseteq here
    OBVIOUS
  <2>2. ASSUME NEW b \in before PROVE b \in Nat /\ m >= b
    <3>1. b \in Nat /\ b <= m
      OBVIOUS
    <3> QED BY <2>1, <3>1
  <2> HIDE DEF before
  <2>3. before \subseteq Int
    BY <2>2
  <2> QED BY <2>1, <2>2, <2>3
<1> HIDE DEF before
<1>2. Mic!Playout!Max(before) = m
  BY <1>1, MaxIs
<1> QED BY <1>1, <1>2 DEF before

\* Silence, and nothing waits.
LEMMA PlayoutInit ==
  ASSUME Mic!MicReorderAssumption
  PROVE  Mic!Init => Mic!Playout!Init
<1> SUFFICES ASSUME Mic!Init PROVE Mic!Playout!Init
  OBVIOUS
<1>1. Mic!Due = Mic!Silence /\ last = Mic!Silence /\ out = <<>>
  BY DEF Mic!Init, Mic!Due
<1>2. DOMAIN held = {}
  BY NothingHeld DEF Mic!Init
<1>3. Mic!Positions = {}
  BY <1>2, PositionsAre DEF Ats
<1> QED BY <1>1, <1>3 DEF Mic!Playout!Init

\* What waits and what has just come in was sent.
LEMMA WaitingTyped ==
  ASSUME Mic!MicReorderAssumption, BufferInv, NEW p \in wire
  PROVE  Ats(held) \cup {p} \subseteq 0 .. sent - 1
<1>1. p \in 0 .. sent - 1 /\ sent \in Nat
  BY OnTheWire
<1>2. CASE valid
  <2> DEFINE d == Mic!Due
  <2>1. Turn(d)
    BY <1>2, Zenon DEF BufferInv
  <2>2. Fits(held, d + 1, sent) /\ d + 1 \in Nat
    BY <1>1, <2>1 DEF Turn
  <2> HIDE DEF d
  <2>3. Ats(held) \subseteq d + 1 .. sent - 1
    BY <1>1, <2>2, FitsTyped
  <2> QED BY <1>1, <2>2, <2>3
<1>3. CASE ~valid
  <2>1. Ats(held) = {}
    BY <1>3 DEF BufferInv, Ats
  <2> QED BY <1>1, <2>1
<1> QED BY <1>2, <1>3

\* Filling the positions from the one that is due up to q.
LEMMA PlayOf ==
  ASSUME Mic!MicReorderAssumption, BufferInv, BufferInv', sent' = sent,
         NEW p \in wire, valid, Mic!Due <= p,
         NEW q \in Ats(held) \cup {p}, Mic!Due <= q,
         Mic!Due' = q + 1, last' = q,
         out' = [i \in 1 .. q + 1 - Mic!Due |-> out'[i]],
         \A i \in 1 .. q + 1 - Mic!Due :
           LET m == Mic!Due + i - 1 IN
           \/ /\ m \in Ats(held) \cup {p} /\ out'[i] = m
           \/ /\ \A b \in Ats(held) \cup {p} : m < b
              /\ out'[i] = last,
         Ats(held') = {b \in Ats(held) \cup {p} : b > q}
  PROVE  Mic!Playout!Next
<1> DEFINE d == Mic!Due
           here == Ats(held) \cup {p}
           fill(m) == LET before == {b \in Mic!Positions \cup {p} : b <= m}
                      IN  IF before = {} THEN last ELSE Mic!Playout!Max(before)
<1>1. here \subseteq 0 .. sent - 1 /\ sent \in Nat /\ sent <= MaxBlocks
  BY WaitingTyped DEF BufferInv, Mic!TypeOK
<1>2. d \in 1 .. sent
  BY OnTheWire
<1>3. Mic!Positions \cup {p} = here
  BY PositionsAre, Zenon
<1>4. p \in here /\ q \in here /\ here \subseteq Nat
  BY <1>1
<1>5. \A i \in 1 .. q + 1 - d :
        \/ d + i - 1 \in here /\ out'[i] = d + i - 1
        \/ (\A b \in here : d + i - 1 < b) /\ out'[i] = last
  OBVIOUS
<1> HIDE DEF here, d
<1>6. ASSUME NEW i \in 1 .. q + 1 - d
      PROVE  out'[i] = fill(d + i - 1)
  <2> DEFINE m == d + i - 1
             before == {b \in here : b <= m}
  <2>1. CASE m \in here /\ out'[i] = m
    <3>1. before # {} /\ Mic!Playout!Max(before) = m
      BY <1>4, <2>1, FillIs
    <3> HIDE DEF before, m
    <3> QED BY <1>3, <2>1, <3>1, Zenon DEF before, m
  <2>2. CASE (\A b \in here : m < b) /\ out'[i] = last
    <3>1. before = {}
      <4>1. m \in Int
        BY <1>2
      <4> HIDE DEF m
      <4> QED BY <1>4, <2>2, <4>1
    <3> HIDE DEF before, m
    <3> QED BY <1>3, <2>2, <3>1, Zenon DEF before, m
  <2> QED BY <1>5, <2>1, <2>2
<1>7. out' = [i \in 1 .. q + 1 - d |-> fill(d + i - 1)]
  <2>1. out' = [i \in 1 .. q + 1 - d |-> out'[i]]
    BY Zenon DEF d
  <2> HIDE DEF fill
  <2>2. [i \in 1 .. q + 1 - d |-> out'[i]]
          = [i \in 1 .. q + 1 - d |-> fill(d + i - 1)]
    BY <1>6, Zenon
  <2> QED BY <2>1, <2>2, Zenon
<1>8. Mic!Positions' = {b \in Mic!Positions \cup {p} : b > q}
  BY <1>3, PositionsAre, Zenon DEF here
<1>9. d # Mic!Silence /\ p >= d
  BY <1>2 DEF d, Mic!Silence
<1>10. Mic!Playout!Play(p, q)
  <2>1. q \in Mic!Positions \cup {p}
    BY <1>3, <1>4, Zenon
  <2> QED BY <1>7, <1>8, <1>9, <2>1, Zenon DEF Mic!Playout!Play, d
<1>11. p \in 0 .. MaxBlocks - 1 /\ q \in 0 .. MaxBlocks - 1
  <2>1. MaxBlocks \in Nat
    BY BufferSizes
  <2>2. p \in 0 .. sent - 1 /\ q \in 0 .. sent - 1
    BY <1>1, <1>4, Zenon
  <2> QED BY <1>1, <2>1, <2>2
<1> QED BY <1>10, <1>11, Zenon DEF Mic!Playout!Next

\* A push in turn plays from p to the end of the run.
LEMMA PassOnPlays ==
  ASSUME Mic!MicReorderAssumption, BufferInv, BufferInv', sent' = sent,
         wire' \subseteq wire, NEW p \in wire, Mic!PassOn(p)
  PROVE  Mic!Playout!Next
<1>1. PICK n \in Nat :
        /\ Runs(held, p + 1, n)
        /\ out' = [i \in 1 .. n + 1 |-> p + i - 1]
        /\ Len(out') = n + 1
        /\ last' = p + n
        /\ Mic!Due' = p + 1 + n
        /\ Ats(held') = {a \in Ats(held) : p + 1 + n < a}
  BY PassOnStep, Zenon
<1>2. /\ Ats(held) \cup {p} \subseteq 0 .. sent - 1
      /\ sent \in Nat /\ p \in Nat /\ p \in 0 .. sent - 1
      /\ sent <= MaxBlocks /\ MaxBlocks \in Nat
  <2>1. Ats(held) \cup {p} \subseteq 0 .. sent - 1
    BY WaitingTyped
  <2>2. p \in 0 .. sent - 1 /\ sent \in Nat
    BY OnTheWire
  <2>3. sent <= MaxBlocks /\ MaxBlocks \in Nat
    BY BufferSizes DEF BufferInv, Mic!TypeOK
  <2> QED BY <2>1, <2>2, <2>3
<1>3. CASE valid
  <2> DEFINE d == Mic!Due
             here == Ats(held) \cup {p}
             q == p + n
  <2>1. d = p
    BY <1>3, PassOnStep
  <2>2. d \in 1 .. sent /\ \A a \in Ats(held) : d < a
    <3>1. Turn(d)
      BY <1>3, Zenon DEF BufferInv
    <3>2. d \in 1 .. sent /\ Fits(held, d + 1, sent)
      BY <3>1 DEF Turn
    <3> HIDE DEF d
    <3>3. Ats(held) \subseteq d + 1 .. sent - 1
      <4>1. d + 1 \in Nat
        BY <1>2, <3>2
      <4> QED BY <1>2, <3>2, <4>1, FitsTyped
    <3>4. \A a \in Ats(held) : d < a
      BY <1>2, <3>2, <3>3
    <3> QED BY <3>2, <3>4
  <2> HIDE DEF d
  <2>3. ASSUME NEW i \in 1 .. n + 1 PROVE p + i - 1 \in here
    <3>1. CASE i = 1
      BY <1>2, <3>1
    <3>2. CASE i # 1
      <4>1. i - 2 \in 0 .. n - 1 /\ p + 1 + (i - 2) = p + i - 1
        <5>1. n \in Nat /\ p \in Nat /\ i \in Nat /\ i >= 2 /\ i <= n + 1
          BY <1>1, <1>2, <3>2
        <5> QED BY <5>1
      <4>2. p + 1 + (i - 2) \in Ats(held)
        BY <1>1, <4>1, Zenon DEF Runs
      <4> QED BY <4>1, <4>2
    <3> QED BY <3>1, <3>2
  <2>4. q \in here
    <3>1. n + 1 \in 1 .. n + 1 /\ p + (n + 1) - 1 = p + n
      BY <1>1, <1>2
    <3> QED BY <2>3, <3>1
  <2>5. /\ q + 1 - d = n + 1 /\ d <= p /\ d <= q /\ q + 1 = p + 1 + n
    BY <1>1, <1>2, <2>1
  <2>6. ASSUME NEW i \in 1 .. n + 1
        PROVE  d + i - 1 \in here /\ out'[i] = d + i - 1
    BY <1>1, <2>1, <2>3
  <2>7. Ats(held') = {b \in here : b > q}
    <3>1. ASSUME NEW b \in Ats(held), p + 1 + n < b PROVE b > q
      BY <1>1, <1>2, <3>1
    <3>2. ASSUME NEW b \in here, b > q PROVE b \in Ats(held) /\ p + 1 + n < b
      <4>1. b \in Nat
        BY <1>2
      <4>2. b # p
        BY <1>1, <1>2, <3>2
      <4>3. b \in Ats(held) /\ b # p + 1 + n
        BY <1>1, <4>2 DEF Runs
      <4> QED BY <1>1, <1>2, <3>2, <4>1, <4>3
    <3> HIDE DEF q
    <3> QED BY <1>1, <3>1, <3>2
  <2>8. out' = [i \in 1 .. q + 1 - d |-> out'[i]]
    BY <1>1, <2>5
  <2>9. \A i \in 1 .. q + 1 - d :
          \/ d + i - 1 \in here /\ out'[i] = d + i - 1
          \/ (\A b \in here : d + i - 1 < b) /\ out'[i] = last
    BY <2>5, <2>6
  <2>10. Mic!Due' = q + 1 /\ last' = q
    BY <1>1, <2>5
  <2> HIDE DEF q
  <2> QED BY <1>3, <2>4, <2>5, <2>7, <2>8, <2>9, <2>10, PlayOf, Zenon DEF d, here
<1>4. CASE ~valid
  <2>1. Ats(held) = {}
    BY <1>4 DEF BufferInv, Ats
  <2>2. n = 0
    <3>1. n > 0 => 0 \in 0 .. n - 1
      BY <1>1
    <3> QED BY <1>1, <2>1, <3>1 DEF Runs
  <2>3. out' = <<p>>
    BY <1>1, <1>2, <2>2
  <2>4. last' = p /\ Mic!Due' = p + 1
    BY <1>1, <1>2, <2>2
  <2>5. Mic!Positions' = Mic!Positions
    BY <1>1, <2>1, PositionsAre
  <2>6. Mic!Due = Mic!Silence
    BY <1>4 DEF Mic!Due
  <2>7. Mic!Playout!Start(p)
    BY <2>3, <2>4, <2>5, <2>6, Zenon DEF Mic!Playout!Start
  <2>8. p \in 0 .. MaxBlocks - 1
    BY <1>2
  <2> QED BY <2>7, <2>8, Zenon DEF Mic!Playout!Next
<1> QED BY <1>3, <1>4

\* A push that conceals plays from the due position to the end of the run.
LEMMA ConcealPlays ==
  ASSUME Mic!MicReorderAssumption, BufferInv, BufferInv', sent' = sent,
         wire' \subseteq wire, NEW p \in wire, Mic!Conceal(p)
  PROVE  Mic!Playout!Next
<1> DEFINE d == Mic!Due
           here == Ats(held) \cup {p}
<1>1. PICK f \in here, n \in Nat :
        /\ n > 0 /\ d < f /\ \A a \in here : f <= a
        /\ f + n \notin here /\ \A i \in 0 .. n - 1 : f + i \in here
        /\ out' = [i \in 1 .. f + n - d |-> IF i <= f - d THEN last ELSE d + i - 1]
        /\ Len(out') = f + n - d
        /\ last' = f + n - 1
        /\ Mic!Due' = f + n
        /\ Ats(held') = {a \in here : f + n < a}
  BY ConcealStep, Zenon
<1>2. valid /\ p > d
  BY ConcealStep
<1>3. d \in 1 .. sent /\ sent \in Nat /\ here \subseteq 0 .. sent - 1
  BY <1>2, OnTheWire, WaitingTyped
<1> HIDE DEF d, here
<1> DEFINE q == f + n - 1
<1>4. f \in Nat /\ d \in Nat /\ d < f /\ n \in Nat /\ n > 0
  <2>1. f \in 0 .. sent - 1
    BY <1>3, Zenon
  <2> QED BY <1>1, <1>3, <2>1
<1>5. q \in here
  <2>1. n - 1 \in 0 .. n - 1 /\ f + (n - 1) = q
    BY <1>4
  <2>2. f + (n - 1) \in here
    BY <1>1, <2>1, Zenon
  <2> QED BY <2>1, <2>2
<1>6. q + 1 = f + n /\ q + 1 - d = f + n - d /\ d <= q
  BY <1>4
<1>7. ASSUME NEW i \in 1 .. f + n - d
      PROVE  \/ d + i - 1 \in here /\ out'[i] = d + i - 1
             \/ (\A b \in here : d + i - 1 < b) /\ out'[i] = last
  <2>1. out'[i] = IF i <= f - d THEN last ELSE d + i - 1
    BY <1>1
  <2>2. CASE i <= f - d
    <3>1. d + i - 1 < f
      BY <1>4, <2>2
    <3>2. ASSUME NEW b \in here PROVE d + i - 1 < b
      <4>1. b \in 0 .. sent - 1 /\ f <= b
        BY <1>1, <1>3, Zenon
      <4> QED BY <1>3, <1>4, <3>1, <4>1
    <3> QED BY <2>1, <2>2, <3>2
  <2>3. CASE ~(i <= f - d)
    <3> DEFINE k == d + i - 1 - f
    <3>1. k \in 0 .. n - 1 /\ f + k = d + i - 1
      BY <1>4, <2>3
    <3> HIDE DEF k
    <3>2. f + k \in here
      BY <1>1, <3>1, Zenon
    <3> QED BY <2>1, <2>3, <3>1, <3>2
  <2> QED BY <2>2, <2>3
<1>8. Ats(held') = {b \in here : b > q}
  <2> SUFFICES ASSUME NEW b \in here PROVE f + n < b <=> b > q
    BY <1>1
  <2>1. b \in 0 .. sent - 1 /\ b # f + n
    BY <1>1, <1>3
  <2> QED BY <1>3, <1>4, <2>1
<1>9. out' = [i \in 1 .. q + 1 - d |-> out'[i]]
  BY <1>1, <1>6
<1>10. \A i \in 1 .. q + 1 - d :
         \/ d + i - 1 \in here /\ out'[i] = d + i - 1
         \/ (\A b \in here : d + i - 1 < b) /\ out'[i] = last
  BY <1>6, <1>7
<1>11. Mic!Due' = q + 1 /\ last' = q
  BY <1>1, <1>6
<1>12. d <= p
  <2>1. p \in 0 .. sent - 1
    BY OnTheWire
  <2> QED BY <1>2, <1>3, <2>1
<1> HIDE DEF q
<1> QED BY <1>2, <1>5, <1>6, <1>8, <1>9, <1>10, <1>11, <1>12, PlayOf, Zenon
        DEF d, here

\* Send, Lose and DropStale are Nothing, PassOn is Start or Play, Resync is Skip,
\* HoldBack is Wait, Conceal is Play and SendStart is NewSession.
LEMMA PlayoutNext ==
  ASSUME Mic!MicReorderAssumption, BufferInv, BufferInv',
         [Mic!Next]_(Mic!vars)
  PROVE  [Mic!Playout!Next]_(Mic!Playout!vars)
<1>1. ASSUME Mic!Due' = Mic!Due, held' = held, last' = last, out' = <<>>
      PROVE  Mic!Playout!Next
  <2>1. Mic!Positions' = Mic!Positions
    BY <1>1 DEF Mic!Positions
  <2> QED BY <1>1, <2>1, Zenon DEF Mic!Playout!Next, Mic!Playout!Nothing
<1>2. CASE Mic!Send
  BY <1>1, <1>2, SendStep DEF Mic!Send
<1>3. ASSUME NEW p \in wire, Mic!Lose(p) PROVE Mic!Playout!Next
  <2>1. /\ sent' = sent /\ wire' \subseteq wire
        /\ valid' = valid /\ nextSeq' = nextSeq /\ held' = held /\ last' = last
        /\ out' = <<>>
    BY <1>3 DEF Mic!Lose
  <2> QED BY <1>1, <2>1, IdleStep
<1>4. ASSUME NEW p \in wire, Mic!Receive(p) PROVE Mic!Playout!Next
  <2>1. sent' = sent /\ wire' \subseteq wire
    BY <1>4 DEF Mic!Receive
  <2>2. p \in 0 .. MaxBlocks - 1
    <3>1. p \in 0 .. sent - 1 /\ sent \in Nat
      BY OnTheWire
    <3>2. sent <= MaxBlocks /\ MaxBlocks \in Nat
      BY BufferSizes DEF BufferInv, Mic!TypeOK
    <3> QED BY <3>1, <3>2
  <2>3. CASE Mic!DropStale(p)
    BY <1>1, <2>1, <2>3, IdleStep DEF Mic!DropStale
  <2>4. CASE Mic!PassOn(p)
    BY <2>1, <2>4, PassOnPlays
  <2>5. CASE Mic!Resync(p)
    <3>1. /\ valid /\ p >= Mic!Due + ResyncDelta /\ out' = <<p>>
          /\ last' = p /\ Mic!Due' = p + 1 /\ Ats(held') = {}
      BY <2>1, <2>5, ResyncStep
    <3>2. Mic!Due # Mic!Silence
      BY <3>1, OnTheWire DEF Mic!Silence
    <3>3. Mic!Positions' = {}
      BY <3>1, PositionsAre
    <3>4. Mic!Playout!Skip(p)
      BY <3>1, <3>2, <3>3, Zenon DEF Mic!Playout!Skip
    <3> QED BY <2>2, <3>4, Zenon DEF Mic!Playout!Next
  <2>6. CASE Mic!HoldBack(p)
    <3>1. /\ valid /\ p > Mic!Due /\ out' = <<>> /\ last' = last
          /\ Mic!Due' = Mic!Due /\ Ats(held') = Ats(held) \cup {p}
      BY <2>1, <2>6, HoldBackStep
    <3>2. Mic!Due # Mic!Silence
      BY <3>1, OnTheWire DEF Mic!Silence
    <3>3. Mic!Positions' = Mic!Positions \cup {p}
      BY <3>1, PositionsAre, Zenon
    <3>4. Mic!Playout!Wait(p)
      BY <3>1, <3>2, <3>3, Zenon DEF Mic!Playout!Wait
    <3> QED BY <2>2, <3>4, Zenon DEF Mic!Playout!Next
  <2>7. CASE Mic!Conceal(p)
    BY <2>1, <2>7, ConcealPlays
  <2> QED BY <1>4, <2>3, <2>4, <2>5, <2>6, <2>7 DEF Mic!Receive, Mic!Push
<1>5. CASE Mic!SendStart
  <2>1. /\ Mic!Due' = Mic!Silence /\ last' = Mic!Silence /\ out' = <<>>
        /\ held' = <<>>
    BY <1>5 DEF Mic!SendStart, Mic!Due
  <2>2. DOMAIN held' = {}
    BY <2>1, NothingHeld
  <2>3. Mic!Positions' = {}
    BY <2>2, PositionsAre DEF Ats
  <2> QED BY <2>1, <2>3, Zenon DEF Mic!Playout!Next, Mic!Playout!NewSession
<1>6. CASE UNCHANGED Mic!vars
  <2>1. held' = held /\ last' = last /\ out' = out
    BY <1>6 DEF Mic!vars
  <2>2. Mic!Positions' = Mic!Positions
    BY <2>1 DEF Mic!Positions
  <2> QED BY <1>6, <2>1, <2>2, UnchangedStep DEF Mic!Playout!vars
<1> QED BY <1>2, <1>3, <1>4, <1>5, <1>6, Zenon DEF Mic!Next

\* The buffer of sequence numbers implements the playout of positions: over loss,
\* delay, duplicates and the wrap of the numbers, blocks come out in order and once
\* each, every position is filled, and what is given up is never played later.
THEOREM BufferPlaysOut ==
  ASSUME Mic!MicReorderAssumption
  PROVE  Mic!Spec => Mic!IsPlayout
<1>1. Mic!Init => Mic!Playout!Init
  BY PlayoutInit
<1>2. Mic!Spec => []BufferInv
  BY BufferInvariance
<1>3. BufferInv /\ BufferInv' /\ [Mic!Next]_(Mic!vars)
        => [Mic!Playout!Next]_(Mic!Playout!vars)
  BY PlayoutNext
<1> QED BY <1>1, <1>2, <1>3, PTL
        DEF Mic!Spec, Mic!IsPlayout, Mic!Playout!Spec

=============================================================================
