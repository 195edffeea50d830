------------------------------ MODULE TaskQueue ------------------------------
(***************************************************************************)
(* What an EventLoop promises to the code that hands it functors, without  *)
(* threads, locks, poll() or the eventfd: functors are accepted into one   *)
(* queue and performed from its head, each exactly once, while the         *)
(* executor is open.  EventLoop implements this specification.             *)
(***************************************************************************)
EXTENDS Naturals, Sequences

CONSTANT Tasks      \* the functors

VARIABLES queue,    \* accepted and not yet performed, oldest first
          done      \* performed so far, in the order of their execution

qvars == <<queue, done>>

Init == /\ queue = <<>>
        /\ done = <<>>

\* A functor is accepted.
Submit(f) == /\ queue' = Append(queue, f)
             /\ UNCHANGED done

\* The oldest accepted functor is performed.
Perform == /\ queue # <<>>
           /\ done' = Append(done, Head(queue))
           /\ queue' = Tail(queue)

Next == Perform \/ \E f \in Tasks : Submit(f)

Spec == Init /\ [][Next]_qvars
==============================================================================
