------------------------ MODULE EventLoopThreadProofs ------------------------
(***************************************************************************)
(* Proofs about EventLoopThread for any foreign threads and any functors:  *)
(* what runs in the thread is an EventLoop, whose theorems it inherits,    *)
(* and the pointer to it is valid where the code relies on it.             *)
(***************************************************************************)
EXTENDS EventLoopThread, EventLoopProofs

\* Where the creator and the thread can be together.
Rendezvous ==
  /\ own = "new" => th = "none" /\ ~loopPtr
  /\ own \in {"return", "usable", "null", "dtorQuit", "join"} =>
       th \in {"published", "looping", "returned", "gone"}
  /\ th \in {"published", "looping"} => loopPtr
  /\ loopPtr => th \in {"published", "looping", "returned"}

\* The loop is left only when its code called quit() or the destructor did:
\* loop() forgets a quit() that came before it.
QuitOnPurpose ==
  /\ th \in {"none", "init", "published"} => pc = "idle"
  /\ th = "looping" => pc # "idle"
  /\ th = "looping" /\ quit => selfQuit \/ own \in {"join", "done"}
  /\ th \in {"returned", "gone"} => selfQuit \/ own \in {"join", "done"}

EltInv == /\ own \in {"new", "check", "wait", "return", "usable", "null",
                      "dtorQuit", "join", "done"}
          /\ th \in {"none", "init", "published", "looping", "returned", "gone"}
          /\ loopPtr \in BOOLEAN /\ selfQuit \in BOOLEAN
          /\ Rendezvous
          /\ QuitOnPurpose
          /\ ThreadDoneWithObject

\* A step of the loop leaves it only by the test of quit_.
LEMMA LeavingIsQuitting ==
  ASSUME LoopStep \/ Poll, pc # "idle", pc' = "idle"
  PROVE  quit
BY DEF LoopStep, Poll, PollReturn, LoopTest, LoopGoesOn, HandleRead, IoReturn,
       SwapFunctors, RunFunctor, FunctorReturn, FunctorsDone

\* The steps of the loop do not touch quit_.
LEMMA LoopKeepsQuit ==
  ASSUME LoopStep \/ Poll
  PROVE  quit' = quit
BY DEF LoopStep, Poll, PollReturn, LoopTest, HandleRead, IoReturn,
       SwapFunctors, RunFunctor, FunctorReturn, FunctorsDone

\* Nor do other threads move the loop.
LEMMA UsersKeepLoop ==
  ASSUME NEW t \in Threads, UseLoop(t)
  PROVE  UNCHANGED <<pc, quit, own, th, loopPtr, selfQuit>>
BY DEF UseLoop, Wakeup, RunInLoop, QueueInLoop, loopVars, eltVars

\* Every step of the thread and its users is a step of an EventLoop.
LEMMA StepIsLoopStep ==
  ASSUME EltNext
  PROVE  [Next]_vars
<1>1. CASE StartLoop
  BY <1>1 DEF StartLoop
<1>2. CASE SpuriousWakeup
  BY <1>2 DEF SpuriousWakeup
<1>3. CASE DtorReadLoop
  BY <1>3 DEF DtorReadLoop
<1>4. CASE CreatorStep
  BY <1>4, CreatorAssumption
     DEF CreatorStep, StartLoopCheck, StartLoopReturn, DtorQuit, Join, Next, ForeignStep
<1>5. CASE ThreadStep
  BY <1>5 DEF ThreadStep, Publish, EnterLoop, ThreadLoopStep, ClearLoop, ThreadExit, Next
<1>6. CASE ThreadUserStep
  BY <1>6 DEF ThreadUserStep, Next, OwnerUserStep
<1>7. ASSUME NEW t \in Threads, UseLoop(t)
      PROVE  [Next]_vars
  BY <1>7 DEF UseLoop, Next, ForeignStep
<1>8. CASE Terminated
  BY <1>8 DEF Terminated, allVars
<1>9. QED
  BY <1>1, <1>2, <1>3, <1>4, <1>5, <1>6, <1>7, <1>8 DEF EltNext

\* The thread runs an EventLoop: whatever is proved of EventLoop holds here.
THEOREM ThreadRunsEventLoop == EltSpec => Spec
<1>1. EltInit => Init
  BY DEF EltInit
<1>2. [EltNext]_allVars => [Next]_vars
  BY StepIsLoopStep DEF allVars
<1>3. QED
  BY <1>1, <1>2, PTL DEF EltSpec, Spec

\* The invariant holds at first and is kept by every step.
LEMMA EltInvariance == EltSpec => []EltInv
<1>1. EltInit => EltInv
  BY DEF EltInit, Init, EltInv, Rendezvous, QuitOnPurpose, ThreadDoneWithObject
<1>2. EltInv /\ [EltNext]_allVars => EltInv'
  <2> SUFFICES ASSUME EltInv, [EltNext]_allVars
               PROVE  EltInv'
    OBVIOUS
  <2> USE DEF EltInv, Rendezvous, QuitOnPurpose, ThreadDoneWithObject
  <2>1. CASE StartLoop
    BY <2>1 DEF StartLoop, vars, loopVars
  <2>2. CASE SpuriousWakeup
    BY <2>2 DEF SpuriousWakeup, vars, loopVars
  <2>3. CASE DtorReadLoop
    BY <2>3 DEF DtorReadLoop, vars, loopVars
  <2>4. CASE StartLoopCheck
    BY <2>4 DEF StartLoopCheck, vars, loopVars
  <2>5. CASE StartLoopReturn
    BY <2>5 DEF StartLoopReturn, vars, loopVars
  <2>6. CASE DtorQuit
    <3>1. pc' = pc /\ own' = "join" /\ UNCHANGED <<th, loopPtr, selfQuit>>
      BY <2>6 DEF DtorQuit, Quit, vars, loopVars
    <3>2. QED
      BY <3>1, <2>6 DEF DtorQuit
  <2>7. CASE Join
    BY <2>7 DEF Join, Joinable, vars, loopVars
  <2>8. CASE Publish
    BY <2>8 DEF Publish, vars, loopVars
  <2>9. CASE EnterLoop
    BY <2>9 DEF EnterLoop, LoopEnter
  <2>10. CASE ThreadLoopStep
    <3>1. /\ th = "looping" /\ pc # "idle"
          /\ th' = IF pc' = "idle" THEN "returned" ELSE th
          /\ quit' = quit /\ UNCHANGED <<own, loopPtr, selfQuit>>
      BY <2>10, LoopKeepsQuit DEF ThreadLoopStep
    <3>2. pc' = "idle" => quit
      BY <2>10, <3>1, LeavingIsQuitting DEF ThreadLoopStep
    <3>3. QED
      BY <3>1, <3>2
  <2>11. CASE ClearLoop
    BY <2>11 DEF ClearLoop, vars, loopVars
  <2>12. CASE ThreadExit
    BY <2>12 DEF ThreadExit, vars, loopVars
  <2>13. CASE ThreadUserStep
    <3>1. /\ th = "init" \/ th = "looping"
          /\ pc' = pc /\ UNCHANGED <<own, th, loopPtr>>
          /\ \/ quit' = quit /\ selfQuit' = selfQuit
             \/ selfQuit' = (selfQuit \/ th = "looping")
      BY <2>13 DEF ThreadUserStep, OwnerQuit, OwnerQueueInLoop, loopVars
    <3>2. QED
      BY <3>1
  <2>14. ASSUME NEW t \in Threads, UseLoop(t)
         PROVE  EltInv'
    BY <2>14, UsersKeepLoop
  <2>15. CASE Terminated \/ UNCHANGED allVars
    BY <2>15 DEF Terminated, allVars, eltVars, vars, loopVars
  <2>16. QED
    BY <2>1, <2>2, <2>3, <2>4, <2>5, <2>6, <2>7, <2>8, <2>9, <2>10, <2>11,
       <2>12, <2>13, <2>14, <2>15 DEF EltNext, CreatorStep, ThreadStep
<1>3. QED
  BY <1>1, <1>2, PTL DEF EltSpec

\* The types of the loop's variables and of the thread's.
THEOREM EltTypeCorrect == EltSpec => []EltTypeOK
<1>1. TypeOK /\ EltInv => EltTypeOK
  BY DEF EltInv, EltTypeOK
<1>2. QED
  BY <1>1, ThreadRunsEventLoop, TypeCorrect, EltInvariance, PTL

\* Hazard: loop_ is a pointer to another thread's stack.  It is cleared before
\* the loop it points to is gone, and who was handed it can dereference it as
\* long as only the destructor ends the loop.
THEOREM HandedLoopExists == EltSpec => []PublishedLoopExists
<1>1. EltInv => PublishedLoopExists
  BY DEF EltInv, Rendezvous, QuitOnPurpose, PublishedLoopExists, LoopExists
<1>2. QED
  BY <1>1, EltInvariance, PTL

\* Hazard: a destructor that finds loop_ cleared does not join.  The thread is
\* past its last use of the object by then.
THEOREM ObjectOutlivesThread == EltSpec => []ThreadDoneWithObject
<1>1. EltInv => ThreadDoneWithObject
  BY DEF EltInv
<1>2. QED
  BY <1>1, EltInvariance, PTL

\* The wakeups of a loop in a thread are not lost, as in EventLoop.
THEOREM ThreadLosesNoWakeup == EltSpec => []NoLostWakeup
BY ThreadRunsEventLoop, WakeupsAreNotLost, PTL
==============================================================================
