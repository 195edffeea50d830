--------------------------- MODULE EventLoopProofs ---------------------------
(***************************************************************************)
(* Proofs about EventLoop for any set of foreign threads and any set of    *)
(* functors: type correctness, the absence of lost wakeups, and that the   *)
(* two queues of the loop behave as one FIFO queue (TaskQueue).            *)
(***************************************************************************)
EXTENDS EventLoop, SequenceTheorems, TLAPS

\* The expected shape of one step, per action: used to split every proof.
LEMMA NextCases ==
  ASSUME [Next]_vars
  PROVE  \/ LoopEnter \/ LoopTest \/ HandleRead \/ IoReturn \/ SwapFunctors
         \/ RunFunctor \/ FunctorReturn \/ FunctorsDone
         \/ (\E list \in ActiveLists : PollReturn(list))
         \/ OwnerQuit
         \/ (\E f \in Tasks : OwnerQueueInLoop(f))
         \/ (\E t \in Threads : Wakeup(t))
         \/ (\E t \in Threads : Quit(t))
         \/ (\E t \in Threads, f \in Tasks : RunInLoop(t, f))
         \/ (\E t \in Threads, f \in Tasks : QueueInLoop(t, f))
         \/ UNCHANGED vars
BY DEF Next, LoopStep, Poll, OwnerUserStep, ForeignStep

\* The lists poll() can return are lists of channels.
LEMMA ActiveListsAreSequences == \A list \in ActiveLists : list \in Seq(Channels)
<1>1. <<>> \in Seq(Channels)
  BY EmptySeq
<1>2. \A c \in Channels : <<c>> \in Seq(Channels)
  OBVIOUS
<1>3. \A c, d \in Channels : <<c, d>> \in Seq(Channels)
  OBVIOUS
<1>4. QED
  BY <1>1, <1>2, <1>3 DEF ActiveLists, Channels

\* TypeOK holds initially and is preserved by every step.
THEOREM TypeCorrect == Spec => []TypeOK
<1>1. Init => TypeOK
  <2>1. <<>> \in Seq(Channels) /\ <<>> \in Seq(Tasks)
    BY EmptySeq
  <2>2. Init => poster \in [Threads -> Tasks \cup {NoTask}]
    BY DEF Init
  <2>3. Init => wakeups \in Nat
    BY DEF Init
  <2>4. QED
    BY <2>1, <2>2, <2>3, Zenon DEF Init, TypeOK
<1>2. TypeOK /\ [Next]_vars => TypeOK'
  <2> SUFFICES ASSUME TypeOK, [Next]_vars
               PROVE  TypeOK'
    OBVIOUS
  <2> USE DEF TypeOK
  <2>1. CASE LoopEnter
    BY <2>1 DEF LoopEnter, histVars
  <2>2. CASE LoopTest
    BY <2>2 DEF LoopTest, LoopGoesOn, histVars
  <2>3. CASE HandleRead
    BY <2>3, HeadTailProperties DEF HandleRead, histVars
  <2>4. CASE IoReturn
    BY <2>4, HeadTailProperties DEF IoReturn, histVars
  <2>5. CASE SwapFunctors
    BY <2>5, EmptySeq DEF SwapFunctors, SwappedIn, SwappedOut, histVars
  <2>6. CASE RunFunctor
    BY <2>6, HeadTailProperties, AppendProperties DEF RunFunctor
  <2>7. CASE FunctorReturn
    BY <2>7 DEF FunctorReturn, histVars
  <2>8. CASE FunctorsDone
    BY <2>8 DEF FunctorsDone, histVars
  <2>9. ASSUME NEW list \in ActiveLists, PollReturn(list)
        PROVE  TypeOK'
    BY <2>9, ActiveListsAreSequences DEF PollReturn, histVars
  <2>10. CASE OwnerQuit
    BY <2>10 DEF OwnerQuit, histVars
  <2>11. ASSUME NEW f \in Tasks, OwnerQueueInLoop(f)
         PROVE  TypeOK'
    BY <2>11, AppendProperties DEF OwnerQueueInLoop, WakesLoop, Signal, loopVars
  <2>12. ASSUME NEW t \in Threads, Wakeup(t)
         PROVE  TypeOK'
    BY <2>12 DEF Wakeup, Signal, loopVars, histVars
  <2>13. ASSUME NEW t \in Threads, Quit(t)
         PROVE  TypeOK'
    BY <2>13 DEF Quit, histVars
  <2>14. ASSUME NEW t \in Threads, NEW f \in Tasks, RunInLoop(t, f)
         PROVE  TypeOK'
    BY <2>14, AppendProperties DEF RunInLoop, loopVars
  <2>15. ASSUME NEW t \in Threads, NEW f \in Tasks, QueueInLoop(t, f)
         PROVE  TypeOK'
    BY <2>15, AppendProperties DEF QueueInLoop, loopVars
  <2>16. CASE UNCHANGED vars
    BY <2>16 DEF vars
  <2>17. QED
    BY <2>1, <2>2, <2>3, <2>4, <2>5, <2>6, <2>7, <2>8, <2>9, <2>10, <2>11,
       <2>12, <2>13, <2>14, <2>15, <2>16, NextCases
<1>3. QED
  BY <1>1, <1>2, PTL DEF Spec

------------------------------------------------------------------------------
(* No lost wakeup.                                                         *)

\* NoLostWakeup is not inductive alone: queueInLoop() on the owner thread
\* trusts callingPendingFunctor_, and leaving the dispatch of the channels is
\* safe only because the batch takes the whole queue; and a functor queued
\* without a wakeup must not be one that was promised a wakeup before.
SignalledQueued == signalled \subseteq Queued

\* The functor appended by a push is the only new entry of the queue.
LEMMA AppendedEntries ==
  ASSUME NEW s \in Seq(Tasks), NEW f \in Tasks,
         NEW i \in DOMAIN Append(s, f)
  PROVE  (i \in DOMAIN s /\ Append(s, f)[i] = s[i]) \/ Append(s, f)[i] = f
<1>1. DOMAIN Append(s, f) = 1..(Len(s) + 1) /\ DOMAIN s = 1..Len(s) /\ Len(s) \in Nat
  BY AppendProperties, LenProperties
<1>2. i \in 1..Len(s) \/ i = Len(s) + 1
  BY <1>1
<1>3. QED
  BY <1>1, <1>2, AppendProperties

\* callingPendingFunctor_ is TRUE exactly while a batch is being called.
LEMMA CallingStep ==
  ASSUME TypeOK, CallingOnlyInBatch, [Next]_vars
  PROVE  CallingOnlyInBatch'
<1> USE DEF CallingOnlyInBatch, TypeOK
<1>1. CASE LoopEnter
  BY <1>1 DEF LoopEnter
<1>2. CASE LoopTest
  BY <1>2 DEF LoopTest, LoopGoesOn
<1>3. CASE HandleRead
  BY <1>3 DEF HandleRead
<1>4. CASE IoReturn
  BY <1>4 DEF IoReturn
<1>5. CASE SwapFunctors
  BY <1>5 DEF SwapFunctors, SwappedIn, SwappedOut
<1>6. CASE RunFunctor
  BY <1>6 DEF RunFunctor
<1>7. CASE FunctorReturn
  BY <1>7 DEF FunctorReturn
<1>8. CASE FunctorsDone
  BY <1>8 DEF FunctorsDone
<1>9. ASSUME NEW list \in ActiveLists, PollReturn(list)
      PROVE  CallingOnlyInBatch'
  BY <1>9 DEF PollReturn
<1>10. CASE OwnerQuit
  BY <1>10 DEF OwnerQuit
<1>11. ASSUME NEW f \in Tasks, OwnerQueueInLoop(f)
       PROVE  CallingOnlyInBatch'
  BY <1>11 DEF OwnerQueueInLoop, WakesLoop, Signal, loopVars
<1>12. ASSUME NEW t \in Threads, Wakeup(t)
       PROVE  CallingOnlyInBatch'
  BY <1>12 DEF Wakeup, Signal, loopVars
<1>13. ASSUME NEW t \in Threads, Quit(t)
       PROVE  CallingOnlyInBatch'
  BY <1>13 DEF Quit
<1>14. ASSUME NEW t \in Threads, NEW f \in Tasks, RunInLoop(t, f)
       PROVE  CallingOnlyInBatch'
  BY <1>14 DEF RunInLoop, loopVars
<1>15. ASSUME NEW t \in Threads, NEW f \in Tasks, QueueInLoop(t, f)
       PROVE  CallingOnlyInBatch'
  BY <1>15 DEF QueueInLoop, loopVars
<1>16. CASE UNCHANGED vars
  BY <1>16 DEF vars
<1>17. QED
  BY <1>1, <1>2, <1>3, <1>4, <1>5, <1>6, <1>7, <1>8, <1>9, <1>10, <1>11,
     <1>12, <1>13, <1>14, <1>15, <1>16, NextCases

\* Each step keeps a wakeup behind every functor that was promised one.
LEMMA NoLostWakeupStep ==
  ASSUME TypeOK, CallingOnlyInBatch, SignalledQueued, NoLostWakeup, [Next]_vars
  PROVE  NoLostWakeup'
<1> USE DEF NoLostWakeup
<1>1. CASE LoopEnter
  BY <1>1 DEF LoopEnter, histVars
<1>2. CASE LoopTest
  BY <1>2 DEF LoopTest, LoopGoesOn, histVars
<1>3. CASE HandleRead
  BY <1>3 DEF HandleRead
<1>4. CASE IoReturn
  BY <1>4 DEF IoReturn
<1>5. CASE SwapFunctors
  BY <1>5 DEF SwapFunctors, SwappedIn, SwappedOut
<1>6. CASE RunFunctor
  BY <1>6 DEF RunFunctor
<1>7. CASE FunctorReturn
  BY <1>7 DEF FunctorReturn, histVars
<1>8. CASE FunctorsDone
  BY <1>8 DEF FunctorsDone, histVars
<1>9. ASSUME NEW list \in ActiveLists, PollReturn(list)
      PROVE  NoLostWakeup'
  BY <1>9 DEF PollReturn
<1>10. CASE OwnerQuit
  BY <1>10 DEF OwnerQuit, histVars
<1>11. ASSUME NEW f \in Tasks, OwnerQueueInLoop(f)
       PROVE  NoLostWakeup'
  <2>1. CASE calling
    BY <1>11, <2>1 DEF OwnerQueueInLoop, WakesLoop, Signal, TypeOK
  <2>2. CASE ~calling /\ pc # "handle"
    <3>1. pc = "idle"
      BY <1>11, <2>2 DEF OwnerQueueInLoop, WakesLoop, Signal, OwnerRunsUserCode, CallingOnlyInBatch
    <3>2. pendingFunctors' = Append(pendingFunctors, f) /\ signalled' = signalled
          /\ wakeups' = wakeups /\ poster' = poster
      BY <1>11, <2>2 DEF OwnerQueueInLoop, WakesLoop, Signal
    <3>3. f \notin signalled
      BY <1>11 DEF OwnerQueueInLoop, WakesLoop, Signal, SignalledQueued
    <3>4. QED
      BY <3>1, <3>2, <3>3, AppendedEntries DEF TypeOK
  <2>3. CASE pc = "handle"
    BY <1>11, <2>3 DEF OwnerQueueInLoop, WakesLoop, Signal, loopVars
  <2>4. QED
    BY <2>1, <2>2, <2>3
<1>12. ASSUME NEW t \in Threads, Wakeup(t)
       PROVE  NoLostWakeup'
  BY <1>12 DEF Wakeup, Signal, loopVars, histVars, TypeOK
<1>13. ASSUME NEW t \in Threads, Quit(t)
       PROVE  NoLostWakeup'
  BY <1>13 DEF Quit, histVars
<1>14. ASSUME NEW t \in Threads, NEW f \in Tasks, RunInLoop(t, f)
       PROVE  NoLostWakeup'
  <2>1. poster'[t] = f /\ \A u \in Threads \ {t} : poster'[u] = poster[u]
    BY <1>14 DEF RunInLoop, TypeOK
  <2>2. poster[t] = NoTask /\ pc' = pc /\ wakeups' = wakeups
        /\ pendingFunctors' = Append(pendingFunctors, f)
        /\ signalled' = signalled \cup {f}
    BY <1>14 DEF RunInLoop, loopVars
  <2>3. SUFFICES ASSUME pc # "handle", NEW i \in DOMAIN pendingFunctors',
                        pendingFunctors'[i] \in signalled'
                 PROVE  wakeups' > 0 \/ \E u \in Threads : poster'[u] = pendingFunctors'[i]
    BY <2>2
  <2>4. CASE pendingFunctors'[i] = f
    BY <2>1, <2>4
  <2>5. CASE pendingFunctors'[i] # f
    <3>1. i \in DOMAIN pendingFunctors /\ pendingFunctors'[i] = pendingFunctors[i]
      BY <2>2, <2>3, <2>5, AppendedEntries DEF TypeOK
    <3>2. wakeups > 0 \/ \E u \in Threads : poster[u] = pendingFunctors[i]
      BY <2>2, <2>3, <2>5, <3>1
    <3>3. pendingFunctors[i] # NoTask
      BY <3>1, NoTaskAssumption DEF TypeOK
    <3>4. QED
      BY <2>1, <2>2, <3>1, <3>2, <3>3
  <2>6. QED
    BY <2>4, <2>5
<1>15. ASSUME NEW t \in Threads, NEW f \in Tasks, QueueInLoop(t, f)
       PROVE  NoLostWakeup'
  <2>1. pc' = pc /\ wakeups' = wakeups /\ poster' = poster
        /\ signalled' = signalled
        /\ pendingFunctors' = Append(pendingFunctors, f)
    BY <1>15 DEF QueueInLoop, loopVars
  <2>2. f \notin signalled
    BY <1>15 DEF QueueInLoop, SignalledQueued
  <2>3. QED
    BY <2>1, <2>2, AppendedEntries DEF TypeOK
<1>16. CASE UNCHANGED vars
  BY <1>16 DEF vars
<1>17. QED
  BY <1>1, <1>2, <1>3, <1>4, <1>5, <1>6, <1>7, <1>8, <1>9, <1>10, <1>11,
     <1>12, <1>13, <1>14, <1>15, <1>16, NextCases

\* The functors of a push are those queued before and the new one.
LEMMA QueuedAppended ==
  ASSUME NEW f \in Tasks, TypeOK, pushed' = Append(pushed, f)
  PROVE  Queued' = Queued \cup {f}
<1>1. DOMAIN pushed' = 1..(Len(pushed) + 1) /\ DOMAIN pushed = 1..Len(pushed)
      /\ Len(pushed) \in Nat
  BY AppendProperties, LenProperties DEF TypeOK
<1>2. pushed'[Len(pushed) + 1] = f /\ \A i \in 1..Len(pushed) : pushed'[i] = pushed[i]
  BY AppendProperties DEF TypeOK
<1>3. QED
  BY <1>1, <1>2 DEF Queued

\* Only queued functors are promised a wakeup.
LEMMA SignalledStep ==
  ASSUME TypeOK, SignalledQueued, [Next]_vars
  PROVE  SignalledQueued'
<1> USE DEF SignalledQueued
<1>1. CASE pushed' = pushed /\ signalled' = signalled
  BY <1>1 DEF Queued
<1>2. ASSUME NEW f \in Tasks, pushed' = Append(pushed, f),
             signalled' \in {signalled, signalled \cup {f}}
      PROVE  SignalledQueued'
  BY <1>2, QueuedAppended
<1>3. ASSUME NEW f \in Tasks, OwnerQueueInLoop(f)
      PROVE  SignalledQueued'
  BY <1>2, <1>3 DEF OwnerQueueInLoop, WakesLoop, Signal
<1>4. ASSUME NEW t \in Threads, NEW f \in Tasks,
             RunInLoop(t, f) \/ QueueInLoop(t, f)
      PROVE  SignalledQueued'
  BY <1>2, <1>4 DEF RunInLoop, QueueInLoop
<1>5. QED
  BY <1>1, <1>3, <1>4, NextCases DEF LoopEnter, LoopTest, HandleRead, IoReturn,
     SwapFunctors, RunFunctor, FunctorReturn, FunctorsDone, PollReturn,
     OwnerQuit, Wakeup, Quit, histVars, vars

\* A functor handed over with a wakeup always has one behind it.
THEOREM WakeupsAreNotLost == Spec => []NoLostWakeup
<1>1. Init => CallingOnlyInBatch /\ SignalledQueued /\ NoLostWakeup
  BY DEF Init, CallingOnlyInBatch, SignalledQueued, NoLostWakeup
<1>2. TypeOK /\ CallingOnlyInBatch /\ SignalledQueued /\ NoLostWakeup /\ [Next]_vars
        => (CallingOnlyInBatch /\ SignalledQueued /\ NoLostWakeup)'
  BY CallingStep, SignalledStep, NoLostWakeupStep
<1>3. QED
  BY <1>1, <1>2, TypeCorrect, PTL DEF Spec

------------------------------------------------------------------------------
(* The two queues are one FIFO queue.                                      *)

\* Taking the head of the batch moves it from the backlog to what has run.
LEMMA MoveHead ==
  ASSUME NEW r \in Seq(Tasks), NEW b \in Seq(Tasks), NEW p \in Seq(Tasks), b # <<>>
  PROVE  /\ b \o p # <<>>
         /\ Head(b \o p) = Head(b)
         /\ Tail(b \o p) = Tail(b) \o p
         /\ Append(r, Head(b)) \o (Tail(b) \o p) = r \o (b \o p)
<1>1. Head(b) \in Tasks /\ Tail(b) \in Seq(Tasks) /\ b = <<Head(b)>> \o Tail(b)
  BY HeadTailProperties, ConcatProperties
<1>2. b \o p # <<>> /\ Head(b \o p) = Head(b) /\ Tail(b \o p) = Tail(b) \o p
  BY HeadTailProperties, ConcatProperties, LenProperties
<1>3. Append(r, Head(b)) = r \o <<Head(b)>>
  BY <1>1, AppendIsConcat
<1>4. <<Head(b)>> \in Seq(Tasks) /\ Tail(b) \o p \in Seq(Tasks)
  BY <1>1, ConcatProperties
<1>5. (r \o <<Head(b)>>) \o (Tail(b) \o p) = r \o (<<Head(b)>> \o (Tail(b) \o p))
  BY <1>4, ConcatAssociative, SMTT(40)
<1>6. <<Head(b)>> \o (Tail(b) \o p) = (<<Head(b)>> \o Tail(b)) \o p
  BY <1>1, <1>4, ConcatAssociative
<1>7. QED
  BY <1>1, <1>2, <1>3, <1>5, <1>6

\* A functor pushed behind the pending ones is behind the whole backlog.
LEMMA PushLast ==
  ASSUME NEW b \in Seq(Tasks), NEW p \in Seq(Tasks), NEW f \in Tasks
  PROVE  b \o Append(p, f) = Append(b \o p, f)
<1>1. <<f>> \in Seq(Tasks) /\ b \o p \in Seq(Tasks)
  BY ConcatProperties
<1>2. Append(p, f) = p \o <<f>> /\ Append(b \o p, f) = (b \o p) \o <<f>>
  BY <1>1, AppendIsConcat
<1>3. QED
  BY <1>1, <1>2, ConcatAssociative

\* Each step of the loop submits one functor to the abstract executor,
\* performs its oldest one, or leaves both of its sequences alone.
LEMMA BacklogStep ==
  ASSUME TypeOK, CallingOnlyInBatch, [Next]_vars
  PROVE  \/ /\ \E f \in Tasks : /\ Backlog' = Append(Backlog, f)
                               /\ pushed' = Append(pushed, f)
            /\ ran' = ran
         \/ /\ RunFunctor
            /\ Backlog # <<>>
            /\ ran' = Append(ran, Head(Backlog))
            /\ Backlog' = Tail(Backlog)
            /\ ran' \o Backlog' = ran \o Backlog
            /\ pushed' = pushed
         \/ UNCHANGED <<Backlog, ran, pushed>>
<1>1. CASE UNCHANGED <<functors, pendingFunctors, ran, pushed>>
  BY <1>1 DEF Backlog
<1>2. ASSUME NEW f \in Tasks, UNCHANGED <<functors, ran>>,
             pendingFunctors' = Append(pendingFunctors, f),
             pushed' = Append(pushed, f)
      PROVE  Backlog' = Append(Backlog, f)
  BY <1>2, PushLast DEF Backlog, TypeOK
<1>3. CASE SwapFunctors
  <2>1. functors = <<>> /\ functors' = pendingFunctors /\ pendingFunctors' = <<>>
        /\ UNCHANGED <<ran, pushed>>
    BY <1>3 DEF SwapFunctors, SwappedIn, SwappedOut, CallingOnlyInBatch, histVars
  <2>2. functors \o pendingFunctors = pendingFunctors
        /\ pendingFunctors \o <<>> = pendingFunctors
    BY <2>1, ConcatEmptySeq DEF TypeOK
  <2>3. QED
    BY <2>1, <2>2 DEF Backlog
<1>4. CASE RunFunctor
  <2>1. functors # <<>> /\ functors' = Tail(functors)
        /\ ran' = Append(ran, Head(functors))
        /\ UNCHANGED <<pendingFunctors, pushed>>
    BY <1>4 DEF RunFunctor
  <2>2. /\ functors \o pendingFunctors # <<>>
        /\ Head(functors \o pendingFunctors) = Head(functors)
        /\ Tail(functors \o pendingFunctors) = Tail(functors) \o pendingFunctors
        /\ Append(ran, Head(functors)) \o (Tail(functors) \o pendingFunctors)
             = ran \o (functors \o pendingFunctors)
    BY <2>1, MoveHead, ZenonT(40) DEF TypeOK
  <2>3. QED
    BY <1>4, <2>1, <2>2, Zenon DEF Backlog
<1>5. ASSUME NEW f \in Tasks, OwnerQueueInLoop(f)
      PROVE  /\ Backlog' = Append(Backlog, f)
             /\ pushed' = Append(pushed, f)
             /\ ran' = ran
  BY <1>2, <1>5 DEF OwnerQueueInLoop, WakesLoop, Signal, loopVars
<1>6. ASSUME NEW t \in Threads, NEW f \in Tasks,
             RunInLoop(t, f) \/ QueueInLoop(t, f)
      PROVE  /\ Backlog' = Append(Backlog, f)
             /\ pushed' = Append(pushed, f)
             /\ ran' = ran
  BY <1>2, <1>6 DEF RunInLoop, QueueInLoop, loopVars
<1>7. ASSUME NEW list \in ActiveLists, PollReturn(list)
      PROVE  UNCHANGED <<functors, pendingFunctors, ran, pushed>>
  BY <1>7 DEF PollReturn, histVars
<1>8. ASSUME NEW t \in Threads, Wakeup(t) \/ Quit(t)
      PROVE  UNCHANGED <<functors, pendingFunctors, ran, pushed>>
  BY <1>8 DEF Wakeup, Signal, Quit, loopVars, histVars
<1>9. ASSUME LoopEnter \/ LoopTest \/ HandleRead \/ IoReturn \/ FunctorReturn
             \/ FunctorsDone \/ OwnerQuit \/ UNCHANGED vars
      PROVE  UNCHANGED <<functors, pendingFunctors, ran, pushed>>
  BY <1>9 DEF LoopEnter, LoopTest, HandleRead, IoReturn, FunctorReturn,
     FunctorsDone, OwnerQuit, histVars, vars
<1>10. QED
  BY <1>1, <1>3, <1>4, <1>5, <1>6, <1>7, <1>8, <1>9, NextCases

\* What ran, followed by what is still queued, is what was queued: the swap of
\* doPendingFunctor() neither loses, repeats nor reorders a functor.
THEOREM FunctorsRunInOrder == Spec => []NothingLostOrReordered
<1>1. Init => CallingOnlyInBatch /\ NothingLostOrReordered
  <2>1. <<>> \o (<<>> \o <<>>) = <<>>
    BY EmptySeq, ConcatEmptySeq
  <2>2. QED
    BY <2>1 DEF Init, CallingOnlyInBatch, NothingLostOrReordered, Backlog
<1>2. TypeOK /\ CallingOnlyInBatch /\ NothingLostOrReordered /\ [Next]_vars
        => (CallingOnlyInBatch /\ NothingLostOrReordered)'
  <2> SUFFICES ASSUME TypeOK, CallingOnlyInBatch, NothingLostOrReordered, [Next]_vars
               PROVE  NothingLostOrReordered'
    BY CallingStep
  <2>1. ran \in Seq(Tasks) /\ Backlog \in Seq(Tasks)
    BY ConcatProperties DEF TypeOK, Backlog
  <2>2. \A f \in Tasks : ran \o Append(Backlog, f) = Append(ran \o Backlog, f)
    BY <2>1, PushLast
  <2>3. QED
    BY <2>2, BacklogStep DEF NothingLostOrReordered
<1>3. QED
  BY <1>1, <1>2, TypeCorrect, PTL DEF Spec

\* The event loop, with its mutex, its eventfd, its batch and its pending
\* queue, is an executor that performs functors in the order of submission.
THEOREM LoopImplementsTaskQueue == Spec => ImplementsTaskQueue
<1>1. Init => CallingOnlyInBatch /\ TQ!Init
  <2>1. <<>> \o <<>> = <<>>
    BY EmptySeq, ConcatEmptySeq
  <2>2. QED
    BY <2>1 DEF Init, CallingOnlyInBatch, TQ!Init, Backlog
<1>2. TypeOK /\ CallingOnlyInBatch /\ [Next]_vars
        => CallingOnlyInBatch' /\ [TQ!Next]_(TQ!qvars)
  <2> SUFFICES ASSUME TypeOK, CallingOnlyInBatch, [Next]_vars
               PROVE  [TQ!Next]_(TQ!qvars)
    BY CallingStep
  <2>1. QED
    BY BacklogStep DEF TQ!Next, TQ!qvars, TQ!Submit, TQ!Perform
<1>3. QED
  BY <1>1, <1>2, TypeCorrect, PTL DEF Spec, TQ!Spec, ImplementsTaskQueue
==============================================================================
