--------------------------- MODULE EventLoopThread ---------------------------
(***************************************************************************)
(* summer::net::EventLoopThread (src/net/EventLoopThread.{h,cc}): a thread *)
(* that builds an EventLoop on its stack, publishes its address to the     *)
(* creator waiting in startLoop(), runs it, and is stopped and joined by   *)
(* the destructor.  The loop itself is module EventLoop; Creator is one of *)
(* its foreign threads.  base::Thread and base::Condition are the steps    *)
(* start/join and wait/notify below.                                       *)
(***************************************************************************)
EXTENDS EventLoop

CONSTANT Creator     \* the thread that owns the EventLoopThread object

ASSUME CreatorAssumption == Creator \in Threads

VARIABLES
  own,        \* the creator: where it is in the life of the object
  th,         \* the started thread: where it is in threadFunc()
  loopPtr,    \* loop_ # NULL
  selfQuit    \* history: code inside the loop called quit()

eltVars == <<own, th, loopPtr, selfQuit>>
allVars == <<vars, eltVars>>

EltTypeOK ==
  /\ TypeOK
  /\ own \in {"new", "check", "wait", "return", "usable", "null",
              "dtorQuit", "join", "done"}
  /\ th \in {"none", "init", "published", "looping", "returned", "gone"}
  /\ loopPtr \in BOOLEAN /\ selfQuit \in BOOLEAN

\* The EventLoop is a local variable of threadFunc().
LoopExists == th \in {"init", "published", "looping", "returned"}

EltInit == /\ Init
           /\ own = "new"
           /\ th = "none"
           /\ loopPtr = FALSE /\ selfQuit = FALSE

------------------------------------------------------------------------------
(* Faulty forms of operators below, for the mutants of PROJECT.json.       *)

\* The thread publishes its loop without waking the creator.
PublishSilently ==
  /\ th = "init"
  /\ th' = "published"
  /\ loopPtr' = TRUE
  /\ UNCHANGED <<vars, own, selfQuit>>

\* The thread leaves loop_ pointing at its dead stack.
ThreadExitUncleared ==
  /\ th = "returned"
  /\ th' = "gone"
  /\ UNCHANGED <<vars, own, loopPtr, selfQuit>>

\* join() returns at once.
NoJoin == TRUE

------------------------------------------------------------------------------
(* The creator.                                                            *)

\* startLoop(): assert(!thread_.started()); thread_.start().
StartLoop ==
  /\ own = "new"
  /\ own' = "check"
  /\ th' = "init"
  /\ UNCHANGED <<vars, loopPtr, selfQuit>>

\* while(loop_ == NULL) cond_.wait(), with mutex_ held.
StartLoopCheck ==
  /\ own = "check"
  /\ own' = IF loopPtr THEN "return" ELSE "wait"
  /\ UNCHANGED <<vars, th, loopPtr, selfQuit>>

\* return loop_: it is read again, after mutex_ is released.
StartLoopReturn ==
  /\ own = "return"
  /\ own' = IF loopPtr THEN "usable" ELSE "null"
  /\ UNCHANGED <<vars, th, loopPtr, selfQuit>>

\* pthread_cond_wait() may return without a signal.
SpuriousWakeup ==
  /\ own = "wait"
  /\ own' = "check"
  /\ UNCHANGED <<vars, th, loopPtr, selfQuit>>

\* The creator, and the threads it gave the pointer to, use the loop.
UseLoop(t) ==
  /\ \/ own = "usable"
     \/ poster[t] # NoTask
  /\ \/ Wakeup(t)
     \/ \E f \in Tasks : RunInLoop(t, f) \/ QueueInLoop(t, f)
  /\ UNCHANGED eltVars

\* ~EventLoopThread(): exiting_ = true; if(loop_), read without mutex_.  The
\* other users of the loop are done with it by then.
DtorReadLoop ==
  /\ own \in {"new", "usable", "null"}
  /\ \A t \in Threads : poster[t] = NoTask
  /\ own' = IF loopPtr THEN "dtorQuit" ELSE "done"
  /\ UNCHANGED <<vars, th, loopPtr, selfQuit>>

\* loop_->quit(): it sets the flag of the loop, or writes to the stack of a
\* thread that has ended and is not joined yet, where nobody reads it.
DtorQuit ==
  /\ own = "dtorQuit"
  /\ own' = "join"
  /\ IF LoopExists THEN Quit(Creator) ELSE UNCHANGED vars
  /\ UNCHANGED <<th, loopPtr, selfQuit>>

\* What pthread_join() waits for.
Joinable == th = "gone"

\* thread_.join() returns.
Join ==
  /\ own = "join"
  /\ Joinable
  /\ own' = "done"
  /\ UNCHANGED <<vars, th, loopPtr, selfQuit>>

------------------------------------------------------------------------------
(* threadFunc().                                                           *)

\* loop_ = &loop; cond_.notify(); with mutex_ held.
Publish ==
  /\ th = "init"
  /\ th' = "published"
  /\ loopPtr' = TRUE
  /\ own' = IF own = "wait" THEN "check" ELSE own
  /\ UNCHANGED <<vars, selfQuit>>

\* loop.loop() is entered: it resets quit_.
EnterLoop ==
  /\ th = "published"
  /\ LoopEnter
  /\ th' = "looping"
  /\ UNCHANGED <<own, loopPtr, selfQuit>>

\* One step of loop.loop(); when the loop is left, loop() returns.
ThreadLoopStep ==
  /\ th = "looping"
  /\ LoopStep \/ Poll
  /\ th' = IF pc' = "idle" THEN "returned" ELSE th
  /\ UNCHANGED <<own, loopPtr, selfQuit>>

\* User code on the loop's thread: callback_(&loop) before the loop is
\* published, channel callbacks and functors later.
ThreadUserStep ==
  /\ th = "init" \/ (th = "looping" /\ pc # "idle")
  /\ \/ (\E f \in Tasks : OwnerQueueInLoop(f)) /\ UNCHANGED selfQuit
     \/ OwnerQuit /\ selfQuit' = (selfQuit \/ th = "looping")
  /\ UNCHANGED <<own, th, loopPtr>>

\* loop_ = NULL, without mutex_.
ClearLoop ==
  /\ th = "returned"
  /\ loopPtr
  /\ loopPtr' = FALSE
  /\ UNCHANGED <<vars, own, th, selfQuit>>

\* threadFunc() returns: ~EventLoop runs, the thread ends.
ThreadExit ==
  /\ th = "returned"
  /\ ~loopPtr
  /\ th' = "gone"
  /\ UNCHANGED <<vars, own, loopPtr, selfQuit>>

------------------------------------------------------------------------------

Finished == own = "done" /\ th \in {"none", "gone"}

\* The end of the object's life, not a deadlock.
Terminated == Finished /\ UNCHANGED allVars

ThreadStep == Publish \/ EnterLoop \/ ThreadLoopStep \/ ClearLoop \/ ThreadExit

CreatorStep == StartLoopCheck \/ StartLoopReturn \/ DtorQuit \/ Join

EltNext == \/ StartLoop
           \/ SpuriousWakeup
           \/ DtorReadLoop
           \/ CreatorStep
           \/ ThreadStep
           \/ ThreadUserStep
           \/ \E t \in Threads : UseLoop(t)
           \/ Terminated

EltSpec == EltInit /\ [][EltNext]_allVars

\* Both threads are scheduled; poll() ends after five seconds or as soon as
\* the eventfd is readable; callbacks return.
EltFairSpec ==
  /\ EltSpec
  /\ WF_allVars(CreatorStep)
  /\ WF_allVars(Publish \/ EnterLoop \/ ClearLoop \/ ThreadExit)
  /\ WF_allVars(ThreadLoopStep /\ LoopStep)
  /\ WF_allVars(ThreadLoopStep /\ PollTimeout)
  /\ WF_allVars(ThreadLoopStep /\ wakeups > 0 /\ Poll)
  /\ \A t \in Threads : WF_allVars(UseLoop(t) /\ Wakeup(t))

------------------------------------------------------------------------------
(* Properties.                                                             *)

\* Hazard: loop_ is a pointer to another thread's stack.  Whatever ends the
\* loop, loop_ is set to NULL before that stack goes away; and whoever was
\* handed the pointer (the user of the object, the destructor about to call
\* quit()) can dereference it, as long as the destructor is the only one to end
\* the loop.
PublishedLoopExists ==
  /\ loopPtr => LoopExists
  /\ own \in {"usable", "dtorQuit"} => LoopExists \/ selfQuit

\* Hazard: the destructor does not join a thread whose loop_ is NULL.  Once it
\* is done, the thread has ended or is past its last use of the object.
ThreadDoneWithObject ==
  own = "done" => th \in {"none", "gone"} \/ (th = "returned" /\ ~loopPtr)

\* startLoop() returns the loop.  If code inside the loop ends it before the
\* creator looks, loop_ is NULL again and startLoop() may wait for ever.
StartLoopReturns == (own = "check") ~> (own = "usable" \/ selfQuit)

\* A destructor that calls quit() once loop() has reset quit_ returns.  (Before
\* that the call is forgotten, and the destructor waits for ever.)
DtorReturnsWhenLooping == (own = "dtorQuit" /\ th = "looping") ~> (own = "done")
==============================================================================
