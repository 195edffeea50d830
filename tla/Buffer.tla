-------------------------------- MODULE Buffer --------------------------------
(***************************************************************************)
(* summer::net::Buffer (src/net/Buffer.{h,cc}): the readable bytes lie in  *)
(* a vector between readIndex_ and writeIndex_.  Indices count from zero:  *)
(* the byte at index i is buffer[i + 1].                                   *)
(*                                                                         *)
(* A failed assertion ends the process, and so does, in effect, a copy     *)
(* past the end of the vector (undefined behaviour): after either, broken  *)
(* is set and nothing more happens.                                        *)
(***************************************************************************)
EXTENDS Integers, Sequences

CONSTANTS kCheapPrepend, kInitialSize,
          ExtraSize,   \* the size of extrabuf in readFd()
          MaxMade,     \* bound: bytes handed to the buffer
          MaxReserve   \* bound: the argument of shrink()

ASSUME SizeAssumption ==
  {kCheapPrepend, kInitialSize, ExtraSize, MaxMade, MaxReserve} \subseteq Nat

VARIABLES buffer, readIndex, writeIndex,
          made,     \* history: bytes made so far
          broken    \* "no", "assert" or "overrun"

vars == <<buffer, readIndex, writeIndex, made, broken>>

\* A byte nobody wrote.
Blank == 0

TypeOK == /\ buffer \in Seq(Nat)
          /\ made \in Nat
          /\ broken \in {"no", "assert", "overrun"}
          /\ readIndex \in Nat /\ writeIndex \in Nat
          /\ readIndex <= writeIndex /\ writeIndex <= Len(buffer)

Init == /\ buffer = [i \in 1..(kCheapPrepend + kInitialSize) |-> Blank]
        /\ readIndex = kCheapPrepend /\ writeIndex = kCheapPrepend
        /\ made = 0
        /\ broken = "no"

readableBytes == writeIndex - readIndex
writeableBytes == Len(buffer) - writeIndex
prependableBytes == readIndex

Fresh(n) == [i \in 1..n |-> made + i]

\* The bytes of s between the indices from and to.
Slice(s, from, to) == [i \in 1..(to - from) |-> s[from + i]]

\* s with data copied to the index at.
Copied(s, data, at) ==
  [i \in DOMAIN s |-> IF i - at \in DOMAIN data THEN data[i - at] ELSE s[i]]

Resized(s, n) == [i \in 1..n |-> IF i \in DOMAIN s THEN s[i] ELSE Blank]

Readable == Slice(buffer, readIndex, writeIndex)

------------------------------------------------------------------------------
(* Faulty forms, for the mutants of PROJECT.json.                          *)

\* makespace() forgets the reserved bytes in writeIndex_.
MovedToStart(w) == w - readIndex

\* makespace() overlooks that the bytes before readIndex_ can be used.
FitsBehind(w, n) == FALSE

\* prepend() copies before it moves readIndex_.
IndexBefore(n) == readIndex

------------------------------------------------------------------------------

\* The condition under which makespace(n) moves the content instead of resizing.
FitsAfterMove(w, n) == Len(buffer) - w + readIndex >= n + kCheapPrepend

\* writeIndex_ after the content was moved, w before.
MovedBack(w) == kCheapPrepend + (w - readIndex)

\* append(data) when writeIndex_ is w and the vector holds s: makespace(),
\* the assertion, the copy.  writeableBytes() is unsigned: when resize() has
\* left less than writeIndex_ bytes it is huge, and the assertion holds.
AppendAt(s, w, data) ==
  LET n    == Len(data)
      room == Len(s) - w
      big  == n > room
      move == big /\ FitsAfterMove(w, n)
      s1   == IF move THEN Copied(s, Slice(s, readIndex, w), kCheapPrepend)
              ELSE IF big THEN Resized(s, room + n) ELSE s
      w1   == IF move THEN MovedBack(w) ELSE w
      left == Len(s1) - w1
  IN  IF left <= n
        THEN /\ broken' = IF left < 0 THEN "overrun" ELSE "assert"
             /\ UNCHANGED <<buffer, readIndex, writeIndex>>
        ELSE /\ buffer' = Copied(s1, data, w1)
             /\ readIndex' = IF move THEN kCheapPrepend ELSE readIndex
             /\ writeIndex' = w1 + n
             /\ UNCHANGED broken

append(n) ==
  /\ AppendAt(buffer, writeIndex, Fresh(n))
  /\ made' = made + n

\* readFd() when readv() delivers n bytes: first to the vector, the rest by
\* way of extrabuf.  (When readv() fails nothing changes.)
readFd(n) ==
  LET w == writeableBytes
  IN  /\ n <= w + ExtraSize
      /\ made' = made + n
      /\ IF n <= w
           THEN /\ buffer' = Copied(buffer, Fresh(n), writeIndex)
                /\ writeIndex' = writeIndex + n
                /\ UNCHANGED <<readIndex, broken>>
           ELSE AppendAt(Copied(buffer, Slice(Fresh(n), 0, w), writeIndex),
                         Len(buffer), Slice(Fresh(n), w, n))

\* Where prepend(n) copies to.
PrependIndex(n) == readIndex - n

\* prepend(): its caller keeps to assert(len < prependableBytes()).
prepend(n) ==
  /\ n < prependableBytes
  /\ made' = made + n
  /\ buffer' = Copied(buffer, Fresh(n), PrependIndex(n))
  /\ readIndex' = readIndex - n
  /\ UNCHANGED <<writeIndex, broken>>

\* retrieve(): the indices stay where they are even when nothing is left.
retrieve(n) ==
  /\ n <= readableBytes
  /\ readIndex' = readIndex + n
  /\ UNCHANGED <<buffer, writeIndex, made, broken>>

\* retrieveAll() and retrieveAsString().
retrieveAll ==
  /\ readIndex' = kCheapPrepend /\ writeIndex' = kCheapPrepend
  /\ UNCHANGED <<buffer, made, broken>>

\* shrink(): a new vector with the content, the reserved bytes and some more.
shrink(reserve) ==
  /\ buffer' = Copied([i \in 1..(kCheapPrepend + readableBytes + reserve) |-> Blank],
                      Readable, kCheapPrepend)
  /\ readIndex' = kCheapPrepend
  /\ writeIndex' = kCheapPrepend + readableBytes
  /\ UNCHANGED <<made, broken>>

Next == /\ broken = "no"
        /\ \/ \E n \in 0..(MaxMade - made) : append(n) \/ readFd(n) \/ prepend(n)
           \/ \E n \in 1..readableBytes : retrieve(n)
           \/ retrieveAll
           \/ \E reserve \in 0..MaxReserve : shrink(reserve)

Spec == Init /\ [][Next]_vars

------------------------------------------------------------------------------
(* Properties.                                                             *)

\* Hazard: bytes are lost, repeated or misplaced when the content is moved in
\* the vector, when a read overflows it, or when something is put in front.
\* Until it breaks, a Buffer is a queue of bytes.
BQ == INSTANCE ByteQueue WITH queue <- Readable, ok <- broken = "no"
ImplementsByteQueue == BQ!Spec

\* Hazard: makespace() resizes to fewer bytes than it needs, append() asserts
\* more room than it needs, and retrieve() never gives room back, so that a
\* long exchange of small messages could break the buffer.  It breaks only by
\* bytes for which there is not a byte to spare besides the reserved ones even
\* when the content is moved, or that fit exactly where they are.
BreaksOnlyWithoutRoom ==
  [][broken' # "no" =>
       LET n == made' - made
       IN  \/ readableBytes + n + kCheapPrepend >= Len(buffer)
           \/ n = writeableBytes]_vars
==============================================================================
