----------------------------- MODULE BufferProofs -----------------------------
(***************************************************************************)
(* Proofs about Buffer for vectors, reserves and extra buffers of any      *)
(* size: the indices stay in the vector, the buffer is a queue of bytes    *)
(* until it breaks, and it breaks only for want of room.                   *)
(***************************************************************************)
EXTENDS Buffer, SequenceTheorems, TLAPS

\* A function on 1..n is a sequence of length n.
LEMMA FunctionIsSeq ==
  ASSUME NEW S, NEW n \in Nat, NEW f \in [1..n -> S]
  PROVE  f \in Seq(S) /\ Len(f) = n
<1>1. f \in Seq(S)
  BY SeqDef
<1>2. DOMAIN f = 1..n /\ DOMAIN f = 1..Len(f) /\ Len(f) \in Nat
  BY <1>1, LenProperties
<1>3. QED
  BY <1>1, <1>2

\* The bytes made next.
LEMMA FreshProperties ==
  ASSUME made \in Nat, NEW n \in Nat
  PROVE  /\ Fresh(n) \in Seq(Nat) /\ Len(Fresh(n)) = n
         /\ \A i \in 1..n : Fresh(n)[i] = made + i
<1>1. Fresh(n) \in [1..n -> Nat]
  BY DEF Fresh
<1>2. QED
  BY <1>1, FunctionIsSeq DEF Fresh

\* A part of a sequence.
LEMMA SliceProperties ==
  ASSUME NEW s \in Seq(Nat), NEW from \in Nat, NEW to \in Nat,
         from <= to, to <= Len(s)
  PROVE  /\ Slice(s, from, to) \in Seq(Nat) /\ Len(Slice(s, from, to)) = to - from
         /\ \A i \in 1..to - from : Slice(s, from, to)[i] = s[from + i]
<1>1. to - from \in Nat
  OBVIOUS
<1>2. \A i \in 1..to - from : s[from + i] \in Nat
  <2>1. \A i \in 1..to - from : from + i \in 1..Len(s)
    BY LenProperties
  <2>2. QED
    BY <2>1, ElementOfSeq
<1>3. Slice(s, from, to) \in [1..to - from -> Nat]
  BY <1>2 DEF Slice
<1>4. QED
  BY <1>1, <1>3, FunctionIsSeq DEF Slice

\* Copying keeps the length.
LEMMA CopiedProperties ==
  ASSUME NEW s \in Seq(Nat), NEW data \in Seq(Nat), NEW at \in Nat
  PROVE  /\ Copied(s, data, at) \in Seq(Nat) /\ Len(Copied(s, data, at)) = Len(s)
         /\ \A i \in 1..Len(s) :
              Copied(s, data, at)[i] =
                IF i - at \in 1..Len(data) THEN data[i - at] ELSE s[i]
<1>1. /\ DOMAIN s = 1..Len(s) /\ Len(s) \in Nat /\ \A i \in 1..Len(s) : s[i] \in Nat
      /\ DOMAIN data = 1..Len(data) /\ \A i \in 1..Len(data) : data[i] \in Nat
  BY LenProperties, ElementOfSeq
<1>2. Copied(s, data, at) \in [1..Len(s) -> Nat]
  BY <1>1 DEF Copied
<1>3. QED
  BY <1>1, <1>2, FunctionIsSeq DEF Copied

\* resize() keeps what fits.
LEMMA ResizedProperties ==
  ASSUME NEW s \in Seq(Nat), NEW n \in Nat
  PROVE  /\ Resized(s, n) \in Seq(Nat) /\ Len(Resized(s, n)) = n
         /\ \A i \in 1..n : i <= Len(s) => Resized(s, n)[i] = s[i]
<1>1. DOMAIN s = 1..Len(s) /\ Len(s) \in Nat /\ \A i \in 1..Len(s) : s[i] \in Nat
  BY LenProperties, ElementOfSeq
<1>2. Resized(s, n) \in [1..n -> Nat]
  BY <1>1 DEF Resized, Blank
<1>3. QED
  BY <1>1, <1>2, FunctionIsSeq DEF Resized

\* Bytes that are copied behind a part of a sequence lengthen that part.
LEMMA CopyAppends ==
  ASSUME NEW s \in Seq(Nat), NEW data \in Seq(Nat), NEW r \in Nat, NEW w \in Nat,
         r <= w, w + Len(data) <= Len(s)
  PROVE  Slice(Copied(s, data, w), r, w + Len(data)) = Slice(s, r, w) \o data
<1> DEFINE t == Copied(s, data, w)
           n == Len(data)
           e == w + n
           a == Slice(s, r, w)
           lhs == Slice(t, r, e)
           rhs == a \o data
<1>1. n \in Nat /\ Len(s) \in Nat /\ e \in Nat /\ e = w + n /\ r <= e /\ e <= Len(s) /\ w <= Len(s)
  BY LenProperties
<1>2. /\ t \in Seq(Nat) /\ Len(t) = Len(s)
      /\ \A i \in 1..Len(s) : t[i] = IF i - w \in 1..n THEN data[i - w] ELSE s[i]
  BY CopiedProperties
<1> HIDE DEF t, e
<1>3. /\ lhs \in Seq(Nat) /\ Len(lhs) = e - r
      /\ \A i \in 1..e - r : lhs[i] = t[r + i]
  <2>1. t \in Seq(Nat) /\ r <= e /\ e <= Len(t)
    BY <1>1, <1>2
  <2>2. QED
    BY <1>1, <2>1, SliceProperties, ZenonT(40)
<1>4. /\ a \in Seq(Nat) /\ Len(a) = w - r
      /\ \A i \in 1..w - r : a[i] = s[r + i]
  BY <1>1, SliceProperties, ZenonT(40)
<1> HIDE DEF a
<1>5. /\ rhs \in Seq(Nat) /\ Len(rhs) = Len(a) + n
      /\ \A i \in 1..Len(a) + n : rhs[i] = IF i <= Len(a) THEN a[i] ELSE data[i - Len(a)]
  BY <1>4, ConcatProperties, ZenonT(40)
<1> HIDE DEF lhs, rhs, n
<1>6. Len(lhs) = Len(rhs)
  BY <1>1, <1>3, <1>4, <1>5
<1>7. ASSUME NEW i \in 1..Len(lhs)
      PROVE  lhs[i] = rhs[i]
  <2>1. i \in Int /\ r + i \in 1..Len(s) /\ i \in 1..e - r /\ i \in 1..Len(a) + n
    <3>1. i \in 1..e - r /\ i \in Int /\ i >= 1 /\ i <= e - r
      BY <1>1, <1>3
    <3>2. r + i \in 1..Len(s)
      BY <1>1, <3>1
    <3>3. e - r = Len(a) + n
      BY <1>1, <1>4
    <3>4. QED
      BY <3>1, <3>2, <3>3
  <2>2. lhs[i] = IF r + i - w \in 1..n THEN data[r + i - w] ELSE s[r + i]
    <3>1. lhs[i] = t[r + i]
      BY <1>3, <2>1
    <3>2. QED
      BY <1>2, <2>1, <3>1
  <2>3. CASE i <= w - r
    <3>1. i \in 1..w - r /\ ~(r + i - w \in 1..n)
      BY <1>1, <2>1, <2>3
    <3>2. QED
      BY <1>4, <1>5, <2>1, <2>2, <2>3, <3>1
  <2>4. CASE ~(i <= w - r)
    <3>1. r + i - w \in 1..n /\ i - Len(a) = r + i - w
      BY <1>1, <1>4, <2>1, <2>4
    <3>2. QED
      BY <1>4, <1>5, <2>1, <2>2, <2>4, <3>1
  <2>5. QED
    BY <2>3, <2>4
<1>8. lhs = rhs
  BY <1>3, <1>5, <1>6, <1>7, SeqEqual
<1>9. QED
  BY <1>8 DEF lhs, rhs, a, t, e, n
\* Bytes that are copied to an index are found there.
LEMMA CopyIsFound ==
  ASSUME NEW s \in Seq(Nat), NEW data \in Seq(Nat), NEW at \in Nat,
         at + Len(data) <= Len(s)
  PROVE  Slice(Copied(s, data, at), at, at + Len(data)) = data
<1>1. Len(data) \in Nat /\ Len(s) \in Nat /\ at <= Len(s)
  BY LenProperties
<1>2. Slice(s, at, at) \in Seq(Nat) /\ Len(Slice(s, at, at)) = 0
  BY <1>1, SliceProperties
<1>3. Slice(s, at, at) = <<>>
  BY <1>2, EmptySeq
<1>4. Slice(Copied(s, data, at), at, at + Len(data)) = Slice(s, at, at) \o data
  BY CopyAppends
<1>5. QED
  BY <1>3, <1>4, ConcatEmptySeq

\* resize() keeps a part that fits.
LEMMA ResizeKeeps ==
  ASSUME NEW s \in Seq(Nat), NEW n \in Nat, NEW r \in Nat, NEW w \in Nat,
         r <= w, w <= Len(s), w <= n
  PROVE  Slice(Resized(s, n), r, w) = Slice(s, r, w)
<1> DEFINE t == Resized(s, n)
<1>1. /\ t \in Seq(Nat) /\ Len(t) = n
      /\ \A i \in 1..n : i <= Len(s) => t[i] = s[i]
  BY ResizedProperties
<1> HIDE DEF t
<1>2. /\ Slice(t, r, w) \in Seq(Nat) /\ Len(Slice(t, r, w)) = w - r
      /\ \A i \in 1..w - r : Slice(t, r, w)[i] = t[r + i]
  BY <1>1, SliceProperties
<1>3. /\ Slice(s, r, w) \in Seq(Nat) /\ Len(Slice(s, r, w)) = w - r
      /\ \A i \in 1..w - r : Slice(s, r, w)[i] = s[r + i]
  BY SliceProperties
<1>4. ASSUME NEW i \in 1..w - r
      PROVE  t[r + i] = s[r + i]
  <2>1. r + i \in 1..n /\ r + i <= Len(s)
    BY LenProperties
  <2>2. QED
    BY <1>1, <2>1
<1>5. QED
  BY <1>2, <1>3, <1>4, SeqEqual, ZenonT(40) DEF t

\* Bytes that are copied before a part of a sequence are put in front of it.
LEMMA CopyPrepends ==
  ASSUME NEW s \in Seq(Nat), NEW data \in Seq(Nat), NEW q \in Nat,
         NEW w \in Nat, q + Len(data) <= w, w <= Len(s)
  PROVE  Slice(Copied(s, data, q), q, w) = data \o Slice(s, q + Len(data), w)
<1> DEFINE t == Copied(s, data, q)
           n == Len(data)
           r == q + n
           a == Slice(s, r, w)
           lhs == Slice(t, q, w)
           rhs == data \o a
<1>1. n \in Nat /\ Len(s) \in Nat /\ r \in Nat /\ q + n = r /\ q <= w /\ r <= w
  BY LenProperties
<1>2. /\ t \in Seq(Nat) /\ Len(t) = Len(s)
      /\ \A i \in 1..Len(s) : t[i] = IF i - q \in 1..n THEN data[i - q] ELSE s[i]
  BY CopiedProperties
<1> HIDE DEF t, r
<1>3. /\ lhs \in Seq(Nat) /\ Len(lhs) = w - q
      /\ \A i \in 1..w - q : lhs[i] = t[q + i]
  <2>1. t \in Seq(Nat) /\ q <= w /\ w <= Len(t)
    BY <1>1, <1>2
  <2>2. QED
    BY <2>1, SliceProperties
<1>4. /\ a \in Seq(Nat) /\ Len(a) = w - r
      /\ \A i \in 1..w - r : a[i] = s[r + i]
  BY <1>1, SliceProperties
<1> HIDE DEF a
<1>5. /\ rhs \in Seq(Nat) /\ Len(rhs) = n + Len(a)
      /\ \A i \in 1..n + Len(a) : rhs[i] = IF i <= n THEN data[i] ELSE a[i - n]
  BY <1>4, ConcatProperties, ZenonT(40)
<1> HIDE DEF lhs, rhs, n
<1>6. Len(lhs) = Len(rhs)
  BY <1>1, <1>3, <1>4, <1>5
<1>7. ASSUME NEW i \in 1..Len(lhs)
      PROVE  lhs[i] = rhs[i]
  <2>1. i \in Int /\ q + i \in 1..Len(s) /\ i \in 1..w - q /\ i \in 1..n + Len(a)
        /\ q + i - q = i
    BY <1>1, <1>3, <1>4
  <2>2. lhs[i] = IF i \in 1..n THEN data[i] ELSE s[q + i]
    <3>1. lhs[i] = t[q + i]
      BY <1>3, <2>1
    <3> DEFINE j == q + i
    <3>2. j \in 1..Len(s) /\ j - q = i
      BY <2>1
    <3> HIDE DEF j
    <3>3. t[j] = IF j - q \in 1..n THEN data[j - q] ELSE s[j]
      BY <1>2, <3>2
    <3>4. t[j] = IF i \in 1..n THEN data[i] ELSE s[j]
      BY <3>2, <3>3
    <3>5. QED
      BY <3>1, <3>4 DEF j
  <2>3. CASE i <= n
    <3>1. i \in 1..n
      BY <1>1, <2>1, <2>3
    <3>2. QED
      BY <1>5, <2>1, <2>2, <2>3, <3>1
  <2>4. CASE ~(i <= n)
    <3>1. ~(i \in 1..n) /\ i - n \in 1..w - r /\ r + (i - n) = q + i
      BY <1>1, <2>1, <2>4
    <3>2. a[i - n] = s[q + i]
      BY <1>4, <3>1
    <3>3. QED
      BY <1>5, <2>1, <2>2, <2>4, <3>1, <3>2
  <2>5. QED
    BY <2>3, <2>4
<1>8. lhs = rhs
  BY <1>3, <1>5, <1>6, <1>7, SeqEqual
<1>9. QED
  BY <1>8 DEF lhs, rhs, a, t, r, n

\* Two adjacent parts make up a sequence.
LEMMA SlicesJoin ==
  ASSUME NEW s \in Seq(Nat), NEW w \in Nat, w <= Len(s)
  PROVE  Slice(s, 0, w) \o Slice(s, w, Len(s)) = s
<1> DEFINE a == Slice(s, 0, w)
           b == Slice(s, w, Len(s))
           n == Len(s)
<1>1. n \in Nat /\ 0 <= w /\ 0 \in Nat /\ w - 0 = w
  BY LenProperties
<1>2. /\ a \in Seq(Nat) /\ Len(a) = w /\ \A i \in 1..w : a[i] = s[i]
  BY <1>1, SliceProperties
<1>3. /\ b \in Seq(Nat) /\ Len(b) = n - w /\ \A i \in 1..n - w : b[i] = s[w + i]
  <2>1. w <= n /\ n <= Len(s)
    BY <1>1
  <2>2. QED
    BY <1>1, <2>1, SliceProperties
<1> HIDE DEF a, b, n
<1>4. /\ a \o b \in Seq(Nat) /\ Len(a \o b) = Len(a) + Len(b)
      /\ \A i \in 1..Len(a) + Len(b) : (a \o b)[i] = IF i <= Len(a) THEN a[i] ELSE b[i - Len(a)]
  BY <1>2, <1>3, ConcatProperties, ZenonT(40)
<1>5. Len(a) + Len(b) = n
  BY <1>1, <1>2, <1>3
<1>6. ASSUME NEW i \in 1..n
      PROVE  (a \o b)[i] = s[i]
  <2>1. CASE i <= w
    <3>1. i \in 1..w
      BY <1>1, <2>1
    <3>2. QED
      BY <1>2, <1>4, <1>5, <2>1, <3>1
  <2>2. CASE ~(i <= w)
    <3>1. i - w \in 1..n - w /\ w + (i - w) = i
      BY <1>1, <2>2
    <3>2. b[i - w] = s[i]
      BY <1>3, <3>1
    <3>3. QED
      BY <1>2, <1>4, <1>5, <2>2, <3>2
  <2>3. QED
    BY <2>1, <2>2
<1>7. Len(a \o b) = Len(s) /\ n = Len(s)
  BY <1>4, <1>5 DEF n
<1>8. a \o b = s
  BY <1>4, <1>6, <1>7, SeqEqual
<1>9. QED
  BY <1>8 DEF a, b

\* What is left of a part when its first bytes are taken.
LEMMA SliceRest ==
  ASSUME NEW s \in Seq(Nat), NEW r \in Nat, NEW w \in Nat, NEW n \in Nat,
         r + n <= w, w <= Len(s)
  PROVE  Slice(s, r + n, w) = SubSeq(Slice(s, r, w), n + 1, w - r)
<1> DEFINE a == Slice(s, r, w)
           e == r + n
           lhs == Slice(s, e, w)
           rhs == SubSeq(a, n + 1, w - r)
<1>1. /\ Len(s) \in Nat /\ e \in Nat /\ e = r + n /\ e <= w /\ r <= w /\ w - r \in Int
      /\ n + 1 \in Int
  BY LenProperties
<1> HIDE DEF e
<1>2. /\ lhs \in Seq(Nat) /\ Len(lhs) = w - e
      /\ \A i \in 1..w - e : lhs[i] = s[e + i]
  BY <1>1, SliceProperties
<1>3. /\ a \in Seq(Nat) /\ Len(a) = w - r
      /\ \A i \in 1..w - r : a[i] = s[r + i]
  BY <1>1, SliceProperties
<1> HIDE DEF a
<1>4. \A i \in n + 1..w - r : a[i] \in Nat
  <2>1. \A i \in n + 1..w - r : i \in 1..Len(a)
    BY <1>3
  <2>2. QED
    BY <1>3, <2>1, ElementOfSeq
<1>5. /\ rhs \in Seq(Nat) /\ Len(rhs) = IF n + 1 <= w - r THEN w - r - (n + 1) + 1 ELSE 0
      /\ \A i \in 1..w - r - (n + 1) + 1 : rhs[i] = a[n + 1 + i - 1]
  BY <1>1, <1>4, SubSeqProperties
<1> HIDE DEF lhs, rhs
<1>6. Len(rhs) = Len(lhs)
  BY <1>1, <1>2, <1>5
<1>7. ASSUME NEW i \in 1..Len(lhs)
      PROVE  lhs[i] = rhs[i]
  <2>1. /\ i \in 1..w - e /\ i \in 1..w - r - (n + 1) + 1 /\ n + i \in 1..w - r
        /\ n + 1 + i - 1 = n + i /\ r + (n + i) = e + i
    BY <1>1, <1>2
  <2>2. rhs[i] = a[n + i] /\ a[n + i] = s[e + i]
    BY <1>3, <1>5, <2>1
  <2>3. QED
    BY <1>2, <2>1, <2>2
<1>8. lhs = rhs
  BY <1>2, <1>5, <1>6, <1>7, SeqEqual
<1>9. QED
  BY <1>8 DEF lhs, rhs, a, e

------------------------------------------------------------------------------
(* append().                                                               *)

\* What a copy of data to the index w of s makes of the buffer.
Laid(s, r, w, data) ==
  /\ buffer' = Copied(s, data, w)
  /\ readIndex' = r
  /\ writeIndex' = w + Len(data)
  /\ broken' = broken

\* The bytes for which there is no room, in a vector with content from
\* readIndex to w.
NoRoom(w, n) == \/ w - readIndex + n + kCheapPrepend >= Len(buffer)
                \/ n = Len(buffer) - w

\* append() lays the bytes where they are, behind the moved content or in the
\* resized vector, or it breaks.
LEMMA AppendCases ==
  ASSUME TypeOK, broken = "no",
         NEW s \in Seq(Nat), Len(s) = Len(buffer),
         NEW w \in Nat, readIndex <= w, w <= Len(s),
         NEW data \in Seq(Nat), AppendAt(s, w, data)
  PROVE  \/ /\ broken' \in {"assert", "overrun"}
            /\ UNCHANGED <<buffer, readIndex, writeIndex>>
            /\ NoRoom(w, Len(data))
         \/ Laid(s, readIndex, w, data) /\ w + Len(data) < Len(s)
         \/ /\ Laid(Copied(s, Slice(s, readIndex, w), kCheapPrepend),
                    kCheapPrepend, MovedBack(w), data)
            /\ MovedBack(w) + Len(data) < Len(s)
         \/ /\ Laid(Resized(s, Len(s) - w + Len(data)), readIndex, w, data)
            /\ Len(s) - w < Len(data)
            /\ w + Len(data) < Len(s) - w + Len(data)
<1> DEFINE n     == Len(data)
           room  == Len(s) - w
           moved == Copied(s, Slice(s, readIndex, w), kCheapPrepend)
           grown == Resized(s, room + n)
<1> USE SizeAssumption
<1>1. /\ n \in Nat /\ Len(s) \in Nat /\ readIndex \in Nat /\ kCheapPrepend \in Nat
      /\ room \in Nat
  BY LenProperties DEF TypeOK
<1>2. Len(moved) = Len(s) /\ Len(grown) = room + n
  <2>1. Slice(s, readIndex, w) \in Seq(Nat)
    BY <1>1, SliceProperties
  <2>2. room + n \in Nat
    BY <1>1
  <2>3. Len(moved) = Len(s)
    BY <1>1, <2>1, CopiedProperties
  <2>4. QED
    BY <2>2, <2>3, ResizedProperties
<1> HIDE DEF moved, grown
<1>3. CASE n <= room
  <2>1. ~(n > room)
    BY <1>1, <1>3
  <2>2. CASE room <= n
    <3>1. /\ broken' \in {"assert", "overrun"}
          /\ UNCHANGED <<buffer, readIndex, writeIndex>>
      BY <2>1, <2>2, Zenon DEF AppendAt
    <3>2. n = room
      BY <1>1, <1>3, <2>2
    <3>3. QED
      BY <3>1, <3>2 DEF NoRoom
  <2>3. CASE ~(room <= n)
    <3>1. Laid(s, readIndex, w, data)
      BY <2>1, <2>3, Zenon DEF AppendAt, Laid
    <3>2. w + n < Len(s)
      BY <1>1, <2>3
    <3>3. QED
      BY <3>1, <3>2
  <2>4. QED
    BY <2>2, <2>3
<1>4. CASE n > room /\ FitsAfterMove(w, n)
  <2> DEFINE left == Len(moved) - MovedBack(w)
  <2>1. CASE left <= n
    <3>1. /\ broken' \in {"assert", "overrun"}
          /\ UNCHANGED <<buffer, readIndex, writeIndex>>
      BY <1>4, <2>1, Zenon DEF AppendAt, moved
    <3>2. w - readIndex + n + kCheapPrepend >= Len(buffer)
      BY <1>1, <1>2, <2>1 DEF MovedBack
    <3>3. QED
      BY <3>1, <3>2 DEF NoRoom
  <2>2. CASE ~(left <= n)
    <3>1. Laid(moved, kCheapPrepend, MovedBack(w), data)
      BY <1>4, <2>2, Zenon DEF AppendAt, Laid, moved
    <3>2. MovedBack(w) + n < Len(s)
      BY <1>1, <1>2, <2>2 DEF MovedBack
    <3>3. QED
      BY <3>1, <3>2 DEF moved
  <2>3. QED
    BY <2>1, <2>2
<1>5. CASE n > room /\ ~FitsAfterMove(w, n)
  <2> DEFINE left == Len(grown) - w
  <2>1. CASE left <= n
    <3>1. /\ broken' \in {"assert", "overrun"}
          /\ UNCHANGED <<buffer, readIndex, writeIndex>>
      BY <1>5, <2>1, Zenon DEF AppendAt, grown
    <3>2. w - readIndex + n + kCheapPrepend >= Len(buffer)
      BY <1>1, <1>5 DEF FitsAfterMove
    <3>3. QED
      BY <3>1, <3>2 DEF NoRoom
  <2>2. CASE ~(left <= n)
    <3>1. Laid(grown, readIndex, w, data)
      BY <1>5, <2>2, Zenon DEF AppendAt, Laid, grown
    <3>2. w + n < room + n /\ room < n
      BY <1>1, <1>2, <1>5, <2>2
    <3>3. QED
      BY <3>1, <3>2 DEF grown
  <2>3. QED
    BY <2>1, <2>2
<1>6. QED
  BY <1>1, <1>3, <1>4, <1>5
------------------------------------------------------------------------------
(* The inductive invariant and the refinement.                             *)

\* The indices of the vector, which never has less than the reserved bytes.
Inv == TypeOK /\ kCheapPrepend <= Len(buffer)

\* The variables of Inv have legal values in the next state.
Settled == /\ buffer' \in Seq(Nat) /\ readIndex' \in Nat /\ writeIndex' \in Nat
           /\ readIndex' <= writeIndex' /\ writeIndex' <= Len(buffer')
           /\ kCheapPrepend <= Len(buffer')

\* The readable bytes are as many as the indices say.
LEMMA ReadableProperties ==
  ASSUME TypeOK
  PROVE  Readable \in Seq(Nat) /\ Len(Readable) = writeIndex - readIndex
BY SliceProperties DEF TypeOK, Readable

\* Bytes that were laid down make the content longer.
LEMMA LaidEffect ==
  ASSUME NEW s \in Seq(Nat), NEW r \in Nat, NEW w \in Nat, NEW data \in Seq(Nat),
         r <= w, w + Len(data) <= Len(s), kCheapPrepend <= Len(s), Laid(s, r, w, data)
  PROVE  Settled /\ Readable' = Slice(s, r, w) \o data
<1>1. Len(data) \in Nat /\ Len(s) \in Nat
  BY LenProperties
<1>2. buffer' \in Seq(Nat) /\ Len(buffer') = Len(s)
  BY CopiedProperties DEF Laid
<1>3. Settled
  <2>1. readIndex' = r /\ writeIndex' = w + Len(data)
    BY DEF Laid
  <2>2. w + Len(data) \in Nat /\ r <= w + Len(data)
    BY <1>1
  <2>3. QED
    BY <1>2, <2>1, <2>2 DEF Settled
<1>4. Readable' = Slice(Copied(s, data, w), r, w + Len(data))
  BY DEF Laid, Readable
<1>5. QED
  BY <1>3, <1>4, CopyAppends

\* append() lengthens the content by the bytes, or breaks for want of room.
LEMMA AppendEffect ==
  ASSUME Inv, broken = "no",
         NEW s \in Seq(Nat), Len(s) = Len(buffer),
         NEW w \in Nat, readIndex <= w, w <= Len(s),
         NEW data \in Seq(Nat), AppendAt(s, w, data)
  PROVE  \/ /\ broken' \in {"assert", "overrun"}
            /\ UNCHANGED <<buffer, readIndex, writeIndex>>
            /\ NoRoom(w, Len(data))
         \/ /\ Settled /\ broken' = "no"
            /\ Readable' = Slice(s, readIndex, w) \o data
<1> USE SizeAssumption
<1> DEFINE n == Len(data)
           content == Slice(s, readIndex, w)
<1>1. /\ n \in Nat /\ Len(s) \in Nat /\ readIndex \in Nat /\ kCheapPrepend \in Nat
      /\ kCheapPrepend <= Len(s) /\ TypeOK
  BY LenProperties DEF Inv, TypeOK
<1>2. content \in Seq(Nat) /\ Len(content) = w - readIndex
  BY <1>1, SliceProperties
<1> HIDE DEF content, n
<1>3. CASE Laid(s, readIndex, w, data) /\ w + n < Len(s)
  <2>1. w + n <= Len(s)
    BY <1>1, <1>3
  <2>2. QED
    BY <1>1, <1>3, <2>1, LaidEffect DEF Laid, content, n
<1>4. CASE /\ Laid(Copied(s, content, kCheapPrepend), kCheapPrepend, MovedBack(w), data)
           /\ MovedBack(w) + n < Len(s)
  <2> DEFINE moved == Copied(s, content, kCheapPrepend)
             e == kCheapPrepend + Len(content)
  <2>1. /\ MovedBack(w) = e /\ e \in Nat /\ kCheapPrepend <= e /\ e + n <= Len(s)
        /\ e <= Len(s)
    BY <1>1, <1>2, <1>4 DEF MovedBack
  <2>2. moved \in Seq(Nat) /\ Len(moved) = Len(s)
    BY <1>1, <1>2, CopiedProperties
  <2>3. Slice(moved, kCheapPrepend, e) = content
    BY <1>1, <1>2, <2>1, CopyIsFound
  <2> HIDE DEF moved, e
  <2>4. Laid(moved, kCheapPrepend, e, data)
    BY <1>4, <2>1 DEF moved
  <2>5. Settled /\ Readable' = Slice(moved, kCheapPrepend, e) \o data
    BY <1>1, <2>1, <2>2, <2>4, LaidEffect, SMTT(40) DEF n
  <2>6. QED
    BY <2>3, <2>4, <2>5 DEF Laid, content
<1>5. CASE /\ Laid(Resized(s, Len(s) - w + n), readIndex, w, data)
           /\ Len(s) - w < n
           /\ w + n < Len(s) - w + n
  <2> DEFINE m == Len(s) - w + n
             grown == Resized(s, m)
  <2>1. m \in Nat /\ w <= m /\ w + n <= m /\ kCheapPrepend <= m
    BY <1>1, <1>5, SMTT(40)
  <2> HIDE DEF m
  <2>2. grown \in Seq(Nat) /\ Len(grown) = m
    BY <2>1, ResizedProperties
  <2>3. Slice(grown, readIndex, w) = content
    BY <1>1, <2>1, ResizeKeeps DEF content
  <2> HIDE DEF grown
  <2>4. Laid(grown, readIndex, w, data)
    BY <1>5 DEF grown, m
  <2>5. Settled /\ Readable' = Slice(grown, readIndex, w) \o data
    BY <1>1, <2>1, <2>2, <2>4, LaidEffect, ZenonT(40) DEF n
  <2>6. QED
    BY <2>3, <2>4, <2>5 DEF Laid, content
<1>6. QED
  BY <1>1, <1>3, <1>4, <1>5, AppendCases DEF content, n
\* What every step does to the queue, and when it may break the buffer.
QueueStep == [BQ!Next]_<<Readable, made, broken = "no">>

BreakExcused ==
  broken' # "no" => \/ readableBytes + (made' - made) + kCheapPrepend >= Len(buffer)
                    \/ made' - made = writeableBytes

StepOK == Inv' /\ QueueStep /\ BreakExcused

\* The initial vector holds nothing.
LEMMA InitOK == Init => Inv /\ BQ!Init
<1> SUFFICES ASSUME Init
             PROVE  Inv /\ BQ!Init
  OBVIOUS
<1> DEFINE n == kCheapPrepend + kInitialSize
<1>1. n \in Nat /\ kCheapPrepend \in Nat /\ kCheapPrepend <= n
  BY SizeAssumption
<1>2. buffer = [i \in 1..n |-> Blank] /\ buffer \in [1..n -> Nat]
  BY DEF Init, Blank
<1> HIDE DEF n
<1>3. buffer \in Seq(Nat) /\ Len(buffer) = n
  BY <1>1, <1>2, FunctionIsSeq
<1>4. readIndex = kCheapPrepend /\ writeIndex = kCheapPrepend /\ made = 0 /\ broken = "no"
  BY DEF Init
<1>5. Inv
  BY <1>1, <1>3, <1>4 DEF Inv, TypeOK
<1>6. Readable \in Seq(Nat) /\ Len(Readable) = 0
  <2>1. TypeOK
    BY <1>5 DEF Inv
  <2>2. Len(Readable) = kCheapPrepend - kCheapPrepend /\ Readable \in Seq(Nat)
    BY <1>4, <2>1, ReadableProperties
  <2>3. QED
    BY <1>1, <2>2
<1>7. Readable = <<>>
  BY <1>6, EmptySeq
<1>8. QED
  BY <1>4, <1>5, <1>7 DEF BQ!Init

\* Bytes were handed to the buffer that a Push accounts for, or broke it.
LEMMA PushOK ==
  ASSUME Inv, broken = "no", NEW n \in Nat, made' = made + n,
         \/ /\ broken' \in {"assert", "overrun"}
            /\ UNCHANGED <<buffer, readIndex, writeIndex>>
            /\ \/ readableBytes + n + kCheapPrepend >= Len(buffer)
               \/ n = writeableBytes
         \/ /\ Settled /\ broken' = "no"
            /\ Readable' = Readable \o Fresh(n) \/ Readable' = Fresh(n) \o Readable
  PROVE  StepOK
<1>1. made \in Nat /\ made' \in Nat /\ made' >= made /\ made' - made = n
  BY DEF Inv, TypeOK
<1>2. BQ!Fresh(made' - made) = Fresh(n)
  BY <1>1 DEF BQ!Fresh, Fresh
<1>3. BQ!Handed
  BY <1>1 DEF BQ!Handed
<1>4. CASE /\ broken' \in {"assert", "overrun"}
           /\ UNCHANGED <<buffer, readIndex, writeIndex>>
           /\ \/ readableBytes + n + kCheapPrepend >= Len(buffer)
              \/ n = writeableBytes
  <2>1. Inv'
    BY <1>1, <1>4 DEF Inv, TypeOK
  <2>2. BQ!Break
    BY <1>3, <1>4 DEF BQ!Break, Readable
  <2>3. BreakExcused
    BY <1>1, <1>4 DEF BreakExcused
  <2>4. QED
    BY <2>1, <2>2, <2>3 DEF StepOK, QueueStep, BQ!Next
<1>5. CASE /\ Settled /\ broken' = "no"
           /\ Readable' = Readable \o Fresh(n) \/ Readable' = Fresh(n) \o Readable
  <2>1. Inv'
    BY <1>1, <1>5 DEF Inv, TypeOK, Settled
  <2>2. BQ!Push \/ BQ!PushFront
    BY <1>2, <1>3, <1>5 DEF BQ!Push, BQ!PushFront
  <2>3. BreakExcused
    BY <1>5 DEF BreakExcused
  <2>4. QED
    BY <2>1, <2>2, <2>3 DEF StepOK, QueueStep, BQ!Next
<1>6. QED
  BY <1>4, <1>5

LEMMA AppendOK ==
  ASSUME Inv, broken = "no", NEW n \in Nat, append(n)
  PROVE  StepOK
<1>1. /\ buffer \in Seq(Nat) /\ writeIndex \in Nat /\ readIndex <= writeIndex
      /\ writeIndex <= Len(buffer) /\ made \in Nat
  BY DEF Inv, TypeOK
<1>2. Fresh(n) \in Seq(Nat) /\ Len(Fresh(n)) = n
  BY <1>1, FreshProperties
<1>3. AppendAt(buffer, writeIndex, Fresh(n)) /\ made' = made + n
  BY DEF append
<1>4. \/ /\ broken' \in {"assert", "overrun"}
         /\ UNCHANGED <<buffer, readIndex, writeIndex>>
         /\ NoRoom(writeIndex, n)
      \/ /\ Settled /\ broken' = "no"
         /\ Readable' = Readable \o Fresh(n)
  BY <1>1, <1>2, <1>3, AppendEffect DEF Readable
<1>5. NoRoom(writeIndex, n) => \/ readableBytes + n + kCheapPrepend >= Len(buffer)
                               \/ n = writeableBytes
  BY DEF NoRoom, readableBytes, writeableBytes
<1>6. QED
  BY <1>3, <1>4, <1>5, PushOK

LEMMA ReadFdOK ==
  ASSUME Inv, broken = "no", NEW n \in Nat, readFd(n)
  PROVE  StepOK
<1> DEFINE w == Len(buffer) - writeIndex
<1>1. /\ buffer \in Seq(Nat) /\ writeIndex \in Nat /\ readIndex \in Nat
      /\ readIndex <= writeIndex /\ writeIndex <= Len(buffer) /\ made \in Nat
      /\ Len(buffer) \in Nat /\ kCheapPrepend \in Nat /\ kCheapPrepend <= Len(buffer)
      /\ w \in Nat /\ w = writeableBytes
  BY SizeAssumption, LenProperties DEF Inv, TypeOK, writeableBytes
<1>2. Fresh(n) \in Seq(Nat) /\ Len(Fresh(n)) = n
  BY <1>1, FreshProperties
<1>3. made' = made + n
  BY DEF readFd
<1>4. CASE n <= w
  <2>1. Laid(buffer, readIndex, writeIndex, Fresh(n))
    BY <1>1, <1>2, <1>4 DEF readFd, Laid
  <2>2. writeIndex + Len(Fresh(n)) <= Len(buffer)
    BY <1>1, <1>2, <1>4
  <2>3. Settled /\ Readable' = Readable \o Fresh(n)
    BY <1>1, <1>2, <2>1, <2>2, LaidEffect DEF Readable
  <2>4. QED
    BY <1>3, <2>1, <2>3, PushOK DEF Laid
<1>5. CASE ~(n <= Len(buffer) - writeIndex)
  <2> DEFINE F == Fresh(n)
             fits == Slice(F, 0, w)
             rest == Slice(F, w, n)
             s == Copied(buffer, fits, writeIndex)
             full == Len(buffer)
  <2>1. w <= n /\ n - w \in Nat /\ 0 <= w /\ 0 \in Nat /\ w - 0 = w
    BY <1>1, <1>5
  <2>2. F \in Seq(Nat) /\ Len(F) = n /\ w <= Len(F) /\ n <= Len(F)
    BY <1>2, <2>1
  <2>3. AppendAt(s, full, rest)
    BY <1>1, <1>5 DEF readFd
  <2>4. writeIndex + w = full /\ full \in Nat
    BY <1>1
  <2> HIDE DEF F, w, full
  <2>5. fits \in Seq(Nat) /\ Len(fits) = w
    BY <1>1, <2>1, <2>2, SliceProperties
  <2>6. rest \in Seq(Nat) /\ Len(rest) = n - w
    BY <1>1, <2>1, <2>2, SliceProperties
  <2>7. fits \o rest = F
    BY <1>1, <2>2, SlicesJoin
  <2> HIDE DEF fits, rest
  <2>8. /\ s \in Seq(Nat) /\ Len(s) = Len(buffer)
        /\ Slice(s, readIndex, full) = Readable \o fits
    <3>1. s \in Seq(Nat) /\ Len(s) = Len(buffer)
      BY <1>1, <2>5, CopiedProperties
    <3>2. writeIndex + Len(fits) = full /\ writeIndex + Len(fits) <= Len(buffer)
      BY <1>1, <2>4, <2>5 DEF full
    <3>3. Slice(s, readIndex, writeIndex + Len(fits)) = Slice(buffer, readIndex, writeIndex) \o fits
      <4>1. /\ buffer \in Seq(Nat) /\ fits \in Seq(Nat)
            /\ readIndex \in Nat /\ writeIndex \in Nat /\ readIndex <= writeIndex
        BY <1>1, <2>5
      <4>2. QED
        BY <3>2, <4>1, CopyAppends, ZenonT(40) DEF s
    <3>4. QED
      BY <3>1, <3>2, <3>3, Zenon DEF Readable
  <2>9. (Readable \o fits) \o rest = Readable \o F
    <3>1. Readable \in Seq(Nat)
      BY ReadableProperties DEF Inv
    <3>2. QED
      <4>1. (Readable \o fits) \o rest = Readable \o (fits \o rest)
        <5>1. \A a, b, c \in Seq(Nat) : (a \o b) \o c = a \o (b \o c)
          BY ConcatAssociative, SMTT(40)
        <5>2. QED
          BY <2>5, <2>6, <3>1, <5>1, Zenon
      <4>2. QED
        BY <2>7, <4>1, Zenon
  <2> HIDE DEF s
  <2>10. \/ /\ broken' \in {"assert", "overrun"}
            /\ UNCHANGED <<buffer, readIndex, writeIndex>>
            /\ NoRoom(full, Len(rest))
         \/ /\ Settled /\ broken' = "no"
            /\ Readable' = Slice(s, readIndex, full) \o rest
    <3>1. full \in Nat /\ readIndex <= full /\ full <= Len(s) /\ Len(s) = Len(buffer)
      BY <1>1, <2>8 DEF full
    <3>2. QED
      BY <2>3, <2>6, <2>8, <3>1, AppendEffect
  <2>11. NoRoom(full, Len(rest)) => readableBytes + n + kCheapPrepend >= Len(buffer)
    BY <1>1, <1>5, <2>6 DEF NoRoom, readableBytes, full, w
  <2>12. QED
    BY <1>3, <2>8, <2>9, <2>10, <2>11, PushOK DEF F
<1>6. QED
  BY <1>4, <1>5
LEMMA PrependOK ==
  ASSUME Inv, broken = "no", NEW n \in Nat, prepend(n)
  PROVE  StepOK
<1> DEFINE q == readIndex - n
<1>1. /\ buffer \in Seq(Nat) /\ Len(buffer) \in Nat
      /\ writeIndex \in Nat /\ readIndex \in Nat
      /\ readIndex <= writeIndex /\ writeIndex <= Len(buffer) /\ made \in Nat
      /\ kCheapPrepend <= Len(buffer)
  BY LenProperties DEF Inv, TypeOK
<1>2. /\ buffer' = Copied(buffer, Fresh(n), q)
      /\ readIndex' = q /\ writeIndex' = writeIndex /\ broken' = broken
      /\ made' = made + n
      /\ n < readIndex
  BY DEF prepend, PrependIndex, prependableBytes
<1>3. /\ Fresh(n) \in Seq(Nat) /\ Len(Fresh(n)) = n
  BY <1>1, FreshProperties
<1>4. q \in Nat /\ q + n = readIndex /\ q + n <= writeIndex /\ q <= writeIndex
  BY <1>1, <1>2
<1> HIDE DEF q
<1>5. buffer' \in Seq(Nat) /\ Len(buffer') = Len(buffer)
  BY <1>1, <1>2, <1>3, <1>4, CopiedProperties
<1>6. Settled
  BY <1>1, <1>2, <1>4, <1>5 DEF Settled
<1>7. Slice(Copied(buffer, Fresh(n), q), q, writeIndex)
        = Fresh(n) \o Slice(buffer, q + Len(Fresh(n)), writeIndex)
  <2> DEFINE data == Fresh(n)
  <2>1. data \in Seq(Nat) /\ q + Len(data) <= writeIndex
    BY <1>3, <1>4
  <2>2. buffer \in Seq(Nat) /\ q \in Nat /\ writeIndex \in Nat /\ writeIndex <= Len(buffer)
    BY <1>1, <1>4
  <2> HIDE DEF data
  <2>3. Slice(Copied(buffer, data, q), q, writeIndex)
          = data \o Slice(buffer, q + Len(data), writeIndex)
    BY <2>1, <2>2, CopyPrepends, Zenon
  <2>4. QED
    BY <2>3 DEF data
<1>8. Readable' = Fresh(n) \o Readable
  BY <1>2, <1>3, <1>4, <1>7, Zenon DEF Readable
<1>9. QED
  BY <1>2, <1>6, <1>8, PushOK

\* Nothing is handed to the buffer, and its content is the same or a rest of
\* what it was.
LEMMA PopOK ==
  ASSUME Inv, broken = "no", UNCHANGED <<made, broken>>, Settled,
         Readable' = Readable \/ BQ!Pop
  PROVE  StepOK
<1>1. Inv'
  BY DEF Inv, TypeOK, Settled
<1>2. QueueStep
  BY DEF QueueStep, BQ!Next
<1>3. BreakExcused
  BY DEF BreakExcused
<1>4. QED
  BY <1>1, <1>2, <1>3 DEF StepOK

LEMMA RetrieveOK ==
  ASSUME Inv, broken = "no", NEW n \in Nat, retrieve(n)
  PROVE  StepOK
<1>1. /\ buffer \in Seq(Nat) /\ Len(buffer) \in Nat
      /\ writeIndex \in Nat /\ readIndex \in Nat
      /\ readIndex <= writeIndex /\ writeIndex <= Len(buffer)
      /\ kCheapPrepend <= Len(buffer)
  BY LenProperties DEF Inv, TypeOK
<1>2. /\ readIndex' = readIndex + n /\ readIndex + n <= writeIndex
      /\ UNCHANGED <<buffer, writeIndex, made, broken>>
  BY <1>1 DEF retrieve, readableBytes
<1>3. Settled
  BY <1>1, <1>2 DEF Settled
<1>4. Len(Readable) = writeIndex - readIndex
  BY ReadableProperties DEF Inv
<1>5. Slice(buffer, readIndex + n, writeIndex)
        = SubSeq(Slice(buffer, readIndex, writeIndex), n + 1, writeIndex - readIndex)
  BY <1>1, <1>2, SliceRest
<1>6. Readable' = SubSeq(Readable, n + 1, Len(Readable))
  BY <1>2, <1>4, <1>5, Zenon DEF Readable
<1>7. n \in 0..Len(Readable)
  BY <1>1, <1>2, <1>4
<1>8. BQ!Pop
  BY <1>2, <1>6, <1>7 DEF BQ!Pop
<1>9. QED
  BY <1>2, <1>3, <1>8, PopOK

LEMMA RetrieveAllOK ==
  ASSUME Inv, broken = "no", retrieveAll
  PROVE  StepOK
<1>1. /\ buffer \in Seq(Nat) /\ Len(buffer) \in Nat /\ kCheapPrepend \in Nat
      /\ kCheapPrepend <= Len(buffer)
  BY SizeAssumption, LenProperties DEF Inv, TypeOK
<1>2. /\ readIndex' = kCheapPrepend /\ writeIndex' = kCheapPrepend
      /\ UNCHANGED <<buffer, made, broken>>
  BY DEF retrieveAll
<1>3. Settled
  BY <1>1, <1>2 DEF Settled
<1>4. Readable' = <<>>
  <2>1. Readable' = Slice(buffer, kCheapPrepend, kCheapPrepend)
    BY <1>2 DEF Readable
  <2>2. /\ Slice(buffer, kCheapPrepend, kCheapPrepend) \in Seq(Nat)
        /\ Len(Slice(buffer, kCheapPrepend, kCheapPrepend)) = kCheapPrepend - kCheapPrepend
    BY <1>1, SliceProperties
  <2>3. kCheapPrepend - kCheapPrepend = 0
    BY <1>1
  <2>4. QED
    BY <2>1, <2>2, <2>3, EmptySeq
<1>5. Readable \in Seq(Nat) /\ Len(Readable) \in Nat
  BY ReadableProperties, LenProperties DEF Inv
<1>6. SubSeq(Readable, Len(Readable) + 1, Len(Readable)) = <<>>
  BY <1>5, SubSeqEmpty
<1>7. BQ!Pop
  BY <1>2, <1>4, <1>5, <1>6 DEF BQ!Pop
<1>8. QED
  BY <1>2, <1>3, <1>7, PopOK

LEMMA ShrinkOK ==
  ASSUME Inv, broken = "no", NEW reserve \in Nat, shrink(reserve)
  PROVE  StepOK
<1> DEFINE m == kCheapPrepend + readableBytes + reserve
           blank == [i \in 1..m |-> Blank]
           e == kCheapPrepend + Len(Readable)
<1>1. kCheapPrepend \in Nat /\ readableBytes \in Nat
  BY SizeAssumption DEF Inv, TypeOK, readableBytes
<1>2. Readable \in Seq(Nat) /\ Len(Readable) = readableBytes
  BY ReadableProperties DEF Inv, readableBytes
<1>3. m \in Nat /\ e \in Nat /\ kCheapPrepend <= e /\ e <= m /\ kCheapPrepend <= m
  BY <1>1, <1>2
<1>4. /\ buffer' = Copied(blank, Readable, kCheapPrepend)
      /\ readIndex' = kCheapPrepend /\ writeIndex' = e
      /\ UNCHANGED <<made, broken>>
  BY <1>2 DEF shrink
<1> HIDE DEF m
<1>5. blank \in Seq(Nat) /\ Len(blank) = m
  <2>1. blank \in [1..m -> Nat]
    BY DEF Blank
  <2> HIDE DEF blank
  <2>2. QED
    BY <1>3, <2>1, FunctionIsSeq
<1> HIDE DEF blank, e
<1>6. buffer' \in Seq(Nat) /\ Len(buffer') = m
  BY <1>1, <1>2, <1>4, <1>5, CopiedProperties
<1>7. Settled
  BY <1>1, <1>3, <1>4, <1>6 DEF Settled
<1>8. Slice(Copied(blank, Readable, kCheapPrepend), kCheapPrepend,
            kCheapPrepend + Len(Readable)) = Readable
  BY <1>1, <1>2, <1>3, <1>5, CopyIsFound DEF e
<1>9. Readable' = Slice(buffer', readIndex', writeIndex')
  BY DEF Readable
<1>10. Readable' = Readable
  BY <1>4, <1>8, <1>9, Zenon DEF e
<1>11. QED
  BY <1>4, <1>7, <1>10, PopOK

------------------------------------------------------------------------------
(* The specification.                                                      *)

LEMMA StepsOK ==
  ASSUME Inv, [Next]_vars
  PROVE  Inv' /\ QueueStep /\ (BreakExcused \/ UNCHANGED vars)
<1>1. CASE UNCHANGED vars
  BY <1>1 DEF vars, Inv, TypeOK, QueueStep, Readable
<1>2. CASE Next
  <2>1. broken = "no" /\ made \in Nat
    BY <1>2 DEF Next, Inv, TypeOK
  <2>2. /\ \A n \in 0..(MaxMade - made) : n \in Nat
        /\ \A n \in 1..readableBytes : n \in Nat
        /\ \A n \in 0..MaxReserve : n \in Nat
    BY <2>1, SizeAssumption DEF Inv, TypeOK, readableBytes
  <2>3. \/ \E n \in Nat : append(n) \/ readFd(n) \/ prepend(n)
        \/ \E n \in Nat : retrieve(n)
        \/ retrieveAll
        \/ \E n \in Nat : shrink(n)
    BY <1>2, <2>2, Zenon DEF Next
  <2>4. StepOK
    BY <2>1, <2>3, AppendOK, ReadFdOK, PrependOK, RetrieveOK, RetrieveAllOK, ShrinkOK
  <2>5. QED
    BY <2>4 DEF StepOK
<1>3. QED
  BY <1>1, <1>2

\* The indices stay in the vector, in order, however the bytes come and go.
THEOREM TypeCorrect == Spec => []TypeOK
<1>1. Init => Inv
  BY InitOK
<1>2. Inv /\ [Next]_vars => Inv'
  BY StepsOK
<1>3. Inv => TypeOK
  BY DEF Inv
<1>4. QED
  BY <1>1, <1>2, <1>3, PTL DEF Spec

\* Hazard: bytes are lost, repeated or misplaced.  Until it breaks, a Buffer of
\* any size is a queue of bytes.
THEOREM IsAQueue == Spec => ImplementsByteQueue
<1>1. Init => Inv /\ BQ!Init
  BY InitOK
<1>2. Inv /\ [Next]_vars => Inv' /\ [BQ!Next]_<<Readable, made, broken = "no">>
  BY StepsOK DEF QueueStep
<1>3. QED
  BY <1>1, <1>2, PTL DEF Spec, ImplementsByteQueue, BQ!Spec

\* Hazard: makespace() and append() misjudge the room.  The buffer breaks only
\* by bytes for which there is not a byte to spare besides the reserved ones,
\* or that fit exactly where they are.
THEOREM BreaksForWantOfRoom == Spec => BreaksOnlyWithoutRoom
<1>1. Init => Inv
  BY InitOK
<1>2. Inv /\ [Next]_vars => Inv' /\ (BreakExcused \/ UNCHANGED vars)
  BY StepsOK
<1>3. QED
  BY <1>1, <1>2, PTL DEF Spec, BreaksOnlyWithoutRoom, BreakExcused
==============================================================================
