------------------------------ MODULE EventLoop ------------------------------
(***************************************************************************)
(* summer::net::EventLoop (src/net/EventLoop.{h,cc}): the reactor of one   *)
(* thread.  The owner thread runs loop(): poll, dispatch the active        *)
(* channels, run the pending functors.  Any thread may hand it functors    *)
(* with runInLoop() / queueInLoop() and may call quit().                   *)
(*                                                                         *)
(* A critical section of mutex_ (one push_back, one swap) is one step.     *)
(* For a foreign thread the push of queueInLoop() and the write of         *)
(* wakeup() are two steps.  runInLoop() on the owner thread is the call    *)
(* functor() itself and changes nothing here.                              *)
(***************************************************************************)
EXTENDS Naturals, Sequences, FiniteSets

CONSTANTS Threads,   \* the threads other than the owner of the loop
          Tasks,     \* functors; each is queued at most once (the bound)
          NoTask     \* "no functor": a sentinel outside Tasks

ASSUME NoTaskAssumption == NoTask \notin Tasks

VARIABLES
  pc,                \* where the owner thread is in loop()
  quit,              \* quit_
  calling,           \* callingPendingFunctor_
  wakeups,           \* the counter of the eventfd wakeupFd_
  activeChannels,    \* activeChannels_, the part not dispatched yet
  pendingFunctors,   \* pendingFunctors_
  functors,          \* the local vector of doPendingFunctor(), from i on
  running,           \* the functor whose body is executing, or NoTask
  poster,            \* foreign thread -> functor pushed by its runInLoop(),
                     \*   whose wakeup() is still to come, or NoTask
  pushed,            \* history: every functor queued, in order
  ran,               \* history: every functor started by doPendingFunctor()
  signalled          \* history: functors whose poster calls wakeup()

loopVars  == <<pc, quit, calling, activeChannels, functors, running>>
histVars  == <<pushed, ran, signalled>>
vars == <<pc, quit, calling, wakeups, activeChannels, pendingFunctors,
          functors, running, poster, pushed, ran, signalled>>

\* "wakeup" is wakeupChannel_; "io" stands for any other channel of the loop.
Channels == {"wakeup", "io"}

\* What poll() may put in activeChannels_; the empty list is a timeout.
ActiveLists == {<<>>, <<"wakeup">>, <<"io">>, <<"wakeup", "io">>, <<"io", "wakeup">>}

Listed(list, c) == \E i \in DOMAIN list : list[i] = c

Queued == {pushed[i] : i \in DOMAIN pushed}

\* The whole backlog of the loop, oldest first.
Backlog == functors \o pendingFunctors

TypeOK ==
  /\ pc \in {"idle", "test", "poll", "handle", "run"}
  /\ quit \in BOOLEAN
  /\ calling \in BOOLEAN
  /\ wakeups \in Nat
  /\ activeChannels \in Seq(Channels)
  /\ pendingFunctors \in Seq(Tasks)
  /\ functors \in Seq(Tasks)
  /\ running \in Tasks \cup {NoTask}
  /\ poster \in [Threads -> Tasks \cup {NoTask}]
  /\ pushed \in Seq(Tasks)
  /\ ran \in Seq(Tasks)
  /\ signalled \in SUBSET Tasks

Init ==
  /\ pc = "idle"
  /\ quit = FALSE
  /\ calling = FALSE
  /\ wakeups = 0
  /\ activeChannels = <<>>
  /\ pendingFunctors = <<>>
  /\ functors = <<>>
  /\ running = NoTask
  /\ poster = [t \in Threads |-> NoTask]
  /\ pushed = <<>>
  /\ ran = <<>>
  /\ signalled = {}

------------------------------------------------------------------------------
(* The owner thread: loop(), handleRead() and doPendingFunctor().          *)

\* Faulty forms of the next operators, for the mutants of PROJECT.json.
LoopForever == TRUE          \* quit_ is never tested
LoopOnce    == FALSE         \* no while: one test, no iteration
CopyLeft    == pendingFunctors   \* the queue is copied, not swapped
NoBatch     == <<>>          \* the queue is swapped and dropped
NeverWakes  == FALSE         \* queueInLoop() without its wakeup()

\* The condition of while(!quit_).
LoopGoesOn == ~quit

\* functors.swap(pendingFunctors_): what each side holds afterwards.
SwappedIn  == pendingFunctors
SwappedOut == <<>>

\* The condition of queueInLoop() on the owner thread (which implies
\* isInLoopThread()): are functors being called?
WakesLoop == calling

\* write() on the eventfd adds to its counter.
Signal(n) == n + 1

\* loop() is called (assert(!looping_)): looping_ = true; quit_ = false.
LoopEnter ==
  /\ pc = "idle"
  /\ pc' = "test"
  /\ quit' = FALSE
  /\ UNCHANGED <<calling, wakeups, activeChannels, pendingFunctors, functors,
                 running, poster, histVars>>

\* while(!quit_): leave the loop, or clear activeChannels_ and call poll().
LoopTest ==
  /\ pc = "test"
  /\ pc' = IF LoopGoesOn THEN "poll" ELSE "idle"
  /\ activeChannels' = <<>>
  /\ UNCHANGED <<quit, calling, wakeups, pendingFunctors, functors, running,
                 poster, histVars>>

\* poll() returns: the pollers are level-triggered, so the wakeup channel is
\* listed exactly when the eventfd counter is not zero.
PollReturn(list) ==
  /\ pc = "poll"
  /\ Listed(list, "wakeup") <=> wakeups > 0
  /\ activeChannels' = list
  /\ pc' = "handle"
  /\ UNCHANGED <<quit, calling, wakeups, pendingFunctors, functors, running,
                 poster, histVars>>

Poll == \E list \in ActiveLists : PollReturn(list)

\* The five seconds of poll(5*1000, ...) pass with nothing ready.
PollTimeout == PollReturn(<<>>)

\* handleRead(): the callback of wakeupChannel_ drains the eventfd.
HandleRead ==
  /\ pc = "handle"
  /\ activeChannels # <<>>
  /\ Head(activeChannels) = "wakeup"
  /\ wakeups' = 0
  /\ activeChannels' = Tail(activeChannels)
  /\ UNCHANGED <<pc, quit, calling, pendingFunctors, functors, running,
                 poster, histVars>>

\* The callback of another channel returns to loop().
IoReturn ==
  /\ pc = "handle"
  /\ activeChannels # <<>>
  /\ Head(activeChannels) = "io"
  /\ activeChannels' = Tail(activeChannels)
  /\ UNCHANGED <<pc, quit, calling, wakeups, pendingFunctors, functors,
                 running, poster, histVars>>

\* doPendingFunctor(): callingPendingFunctor_ = true and the swap.
SwapFunctors ==
  /\ pc = "handle"
  /\ activeChannels = <<>>
  /\ calling' = TRUE
  /\ functors' = SwappedIn
  /\ pendingFunctors' = SwappedOut
  /\ pc' = "run"
  /\ UNCHANGED <<quit, wakeups, activeChannels, running, poster, histVars>>

\* functors[i]() is called.
RunFunctor ==
  /\ pc = "run"
  /\ running = NoTask
  /\ functors # <<>>
  /\ running' = Head(functors)
  /\ functors' = Tail(functors)
  /\ ran' = Append(ran, Head(functors))
  /\ UNCHANGED <<pc, quit, calling, wakeups, activeChannels, pendingFunctors,
                 poster, pushed, signalled>>

FunctorReturn ==
  /\ running # NoTask
  /\ running' = NoTask
  /\ UNCHANGED <<pc, quit, calling, wakeups, activeChannels, pendingFunctors,
                 functors, poster, histVars>>

\* callingPendingFunctor_ = false; the end of the iteration.
FunctorsDone ==
  /\ pc = "run"
  /\ running = NoTask
  /\ functors = <<>>
  /\ calling' = FALSE
  /\ pc' = "test"
  /\ UNCHANGED <<quit, wakeups, activeChannels, pendingFunctors, functors,
                 running, poster, histVars>>

------------------------------------------------------------------------------
(* What code on the owner thread may call: before loop(), in a channel     *)
(* callback, or in a functor.                                              *)

OwnerRunsUserCode ==
  \/ pc = "idle"
  \/ pc = "handle" /\ activeChannels # <<>> /\ Head(activeChannels) = "io"
  \/ running # NoTask

\* queueInLoop(f) on the owner thread: it writes the eventfd only when
\* functors are being called (isInLoopThread()&&callingPendingFunctor_).
OwnerQueueInLoop(f) ==
  /\ OwnerRunsUserCode
  /\ f \notin Queued
  /\ pendingFunctors' = Append(pendingFunctors, f)
  /\ pushed' = Append(pushed, f)
  /\ wakeups' = IF WakesLoop THEN Signal(wakeups) ELSE wakeups
  /\ signalled' = IF calling THEN signalled \cup {f} ELSE signalled
  /\ UNCHANGED <<loopVars, poster, ran>>

\* quit() on the owner thread.
OwnerQuit ==
  /\ OwnerRunsUserCode
  /\ quit' = TRUE
  /\ UNCHANGED <<pc, calling, wakeups, activeChannels, pendingFunctors,
                 functors, running, poster, histVars>>

------------------------------------------------------------------------------
(* Foreign threads.                                                        *)

\* runInLoop(f) on a foreign thread, first half: queueInLoop(f).
RunInLoop(t, f) ==
  /\ poster[t] = NoTask
  /\ f \notin Queued
  /\ pendingFunctors' = Append(pendingFunctors, f)
  /\ pushed' = Append(pushed, f)
  /\ poster' = [poster EXCEPT ![t] = f]
  /\ signalled' = signalled \cup {f}
  /\ UNCHANGED <<loopVars, wakeups, ran>>

\* Second half: wakeup() adds one to the eventfd counter.
Wakeup(t) ==
  /\ poster[t] # NoTask
  /\ wakeups' = Signal(wakeups)
  /\ poster' = [poster EXCEPT ![t] = NoTask]
  /\ UNCHANGED <<loopVars, pendingFunctors, histVars>>

\* queueInLoop(f) called directly by a foreign thread (as in
\* TcpServer::removeConnectionInLoop): there is no wakeup().
QueueInLoop(t, f) ==
  /\ poster[t] = NoTask
  /\ f \notin Queued
  /\ pendingFunctors' = Append(pendingFunctors, f)
  /\ pushed' = Append(pushed, f)
  /\ UNCHANGED <<loopVars, wakeups, poster, ran, signalled>>

\* quit() on a foreign thread: the flag only, there is no wakeup().
Quit(t) ==
  /\ poster[t] = NoTask
  /\ quit' = TRUE
  /\ UNCHANGED <<pc, calling, wakeups, activeChannels, pendingFunctors,
                 functors, running, poster, histVars>>

------------------------------------------------------------------------------

\* The steps of the owner thread inside loop(), user code left out.
LoopStep == \/ LoopTest
            \/ HandleRead
            \/ IoReturn
            \/ SwapFunctors
            \/ RunFunctor
            \/ FunctorReturn
            \/ FunctorsDone

OwnerUserStep == OwnerQuit \/ \E f \in Tasks : OwnerQueueInLoop(f)

ForeignStep(t) == \/ Wakeup(t)
                  \/ Quit(t)
                  \/ \E f \in Tasks : RunInLoop(t, f) \/ QueueInLoop(t, f)

Next == \/ LoopEnter
        \/ LoopStep
        \/ Poll
        \/ OwnerUserStep
        \/ \E t \in Threads : ForeignStep(t)

Spec == Init /\ [][Next]_vars

\* The owner keeps running, callbacks and functors return, a thread inside
\* runInLoop() reaches its wakeup(), a readable eventfd ends poll().
Fairness == /\ WF_vars(LoopStep)
            /\ WF_vars(wakeups > 0 /\ Poll)
            /\ \A t \in Threads : WF_vars(Wakeup(t))

\* The loop with a poll() that need not time out.
FairSpec == Spec /\ Fairness

\* poll() ends after its five seconds.
PollTimesOut == WF_vars(PollTimeout)

------------------------------------------------------------------------------
(* Properties.                                                             *)

\* Hazard: a functor is pushed just before, during or just after the poll()
\* that should notice it.  Unless the loop is dispatching and will swap the
\* queue before it polls again, a functor that was handed over with a wakeup
\* has that wakeup still in the eventfd, or its poster is about to write it.
NoLostWakeup ==
  pc # "handle" =>
    \A i \in DOMAIN pendingFunctors :
      pendingFunctors[i] \in signalled =>
        wakeups > 0 \/ \E t \in Threads : poster[t] = pendingFunctors[i]

\* Functors are neither lost, run twice nor reordered by the two queues:
\* what ran, what is left of the batch and what is pending is what was queued.
NothingLostOrReordered == ran \o Backlog = pushed

\* callingPendingFunctor_ is what queueInLoop() trusts to decide that the
\* running batch will not see a new functor: it is set exactly while the
\* functors of a batch are being called.
CallingOnlyInBatch == /\ calling <=> pc = "run"
                      /\ functors # <<>> => pc = "run"
                      /\ running # NoTask => pc = "run"

\* The loop implements the abstract executor.
TQ == INSTANCE TaskQueue WITH queue <- Backlog, done <- ran
ImplementsTaskQueue == TQ!Spec

HasRun(f) == \E i \in DOMAIN ran : ran[i] = f

\* A functor handed over with a wakeup runs, even if poll() never times out,
\* unless the loop is told to quit or was not started.
PromptRun ==
  \A f \in Tasks : (f \in signalled) ~> (HasRun(f) \/ quit \/ pc = "idle")

\* Every queued functor runs, if only after the timeout of poll(), unless the
\* loop is told to quit or is not running.
EveryFunctorRuns ==
  PollTimesOut =>
    \A f \in Tasks : (f \in Queued) ~> (HasRun(f) \/ quit \/ pc = "idle")

\* quit() called while the loop runs ends it, although quit() wakes nobody.
QuitStopsLoop ==
  PollTimesOut => ((quit /\ pc # "idle") ~> (pc = "idle"))
==============================================================================
