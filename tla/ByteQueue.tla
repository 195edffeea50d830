------------------------------ MODULE ByteQueue ------------------------------
(***************************************************************************)
(* What a Buffer promises: a queue of bytes, until it breaks for want of   *)
(* room.  Bytes are numbered in the order in which they are made, so that  *)
(* a lost, repeated or misplaced byte cannot go unnoticed.                 *)
(***************************************************************************)
EXTENDS Naturals, Sequences

VARIABLES queue,   \* the readable bytes
          made,    \* how many bytes were handed to the buffer so far
          ok       \* has it not broken?

\* The next n bytes.
Fresh(n) == [i \in 1..n |-> made + i]

\* Some bytes are handed to the buffer.
Handed == ok /\ made' \in Nat /\ made' >= made

Init == queue = <<>> /\ made = 0 /\ ok = TRUE

\* append() and readFd().
Push == Handed /\ queue' = queue \o Fresh(made' - made) /\ UNCHANGED ok

\* prepend().
PushFront == Handed /\ queue' = Fresh(made' - made) \o queue /\ UNCHANGED ok

\* retrieve() of some bytes, retrieveAll(), retrieveAsString().
Pop == /\ ok
       /\ \E n \in 0..Len(queue) : queue' = SubSeq(queue, n + 1, Len(queue))
       /\ UNCHANGED <<made, ok>>

\* There is no room for the bytes.
Break == Handed /\ ok' = FALSE /\ UNCHANGED queue

Next == Push \/ PushFront \/ Pop \/ Break

Spec == Init /\ [][Next]_<<queue, made, ok>>
==============================================================================
