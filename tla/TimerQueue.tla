------------------------------ MODULE TimerQueue ------------------------------
(***************************************************************************)
(* summer::net::TimerQueue (src/net/TimerQueue.{h,cc}, Timer.{h,cc},       *)
(* TimerId.h): the timers of one event loop, ordered by expiration, with   *)
(* one timerfd armed for the first of them.                                *)
(*                                                                         *)
(* A Timer is an object of the heap: TimerId and both sets of the queue    *)
(* hold its address, and addresses are reused after delete.  Time is a     *)
(* small counter; the loop's functor queue is FIFO (module TaskQueue).     *)
(***************************************************************************)
EXTENDS Naturals, Sequences, FiniteSets

CONSTANTS Addrs,       \* addresses that new Timer may return
          NoAddr,      \* the null pointer
          Delays,      \* distance of the requested expirations from the clock
          Intervals,   \* intervals asked for; 0 is a timer that does not repeat
          MaxTime,     \* bound: the last instant of the clock
          MaxSeq,      \* bound: the number of timers created
          MaxPending   \* bound: the length of the functor queue

ASSUME NoAddrAssumption == NoAddr \notin Addrs
ASSUME DelaysAssumption == Delays \subseteq Nat /\ Intervals \subseteq Nat
ASSUME BoundsAssumption == MaxTime \in Nat \ {0} /\ MaxSeq \in Nat /\ MaxPending \in Nat

VARIABLES
  now,            \* the clock
  heap,           \* address -> Timer object, or Freed
  ids,            \* the TimerIds handed out: pairs <<address, sequence>>
  timers,         \* timers_: pairs <<expiration, address>>
  activeTimers,   \* activeTimers_: pairs <<address, sequence>>
  cancelTimers,   \* cancelTimers_: pairs <<address, sequence>>
  timerfd,        \* the instant the timerfd is armed for; 0 when disarmed
  readable,       \* the timerfd has expired and was not read
  active,         \* timerfdChannel_ is in activeChannels_ of the loop
  doing,          \* doingExpiredTimers_, and the rest of handleRead()
  handled,        \* the local now of handleRead()
  expired,        \* the local vector expired of handleRead()
  toRun,          \* the part of expired whose run() is still to come
  running,        \* the timer whose callback is executing, or NoAddr
  pending,        \* functors queued for the loop
  crashed,        \* the process died of undefined behaviour
  fired,          \* history: sequences of the timers started
  cancelled,      \* history: sequences of the timers cancelInLoop() deleted
  missed          \* history: the last arming of the timerfd came too late

queueVars == <<timers, activeTimers, cancelTimers>>
fdVars    == <<timerfd, readable, missed>>
runVars   == <<doing, handled, expired, toRun, running>>
histVars  == <<fired, cancelled>>
vars == <<now, heap, ids, queueVars, fdVars, active, runVars, pending,
          crashed, histVars>>

Freed == [seq |-> 0, expiration |-> 0, interval |-> 0]
Seqs  == 1..MaxSeq
TimerObjects == [seq : Seqs, expiration : Nat, interval : Intervals]

\* Timer::numCreated_, the last sequence number given out.
numCreated == Cardinality(ids)

Live(a)  == heap[a] # Freed
Active(a) == <<a, heap[a].seq>>

\* timers_.begin()->first
First(entries) == (CHOOSE e \in entries : \A d \in entries : e[1] <= d[1])[1]

TypeOK ==
  /\ now \in 1..MaxTime
  /\ heap \in [Addrs -> TimerObjects \cup {Freed}]
  /\ ids \subseteq Addrs \X Seqs
  /\ timers \subseteq Nat \X Addrs
  /\ activeTimers \subseteq Addrs \X Seqs
  /\ cancelTimers \subseteq (Addrs \cup {NoAddr}) \X Nat
  /\ timerfd \in Nat
  /\ readable \in BOOLEAN /\ active \in BOOLEAN /\ doing \in BOOLEAN
  /\ handled \in 0..MaxTime
  /\ expired \subseteq Nat \X Addrs
  /\ toRun \subseteq expired
  /\ running \in Addrs \cup {NoAddr}
  /\ pending \in Seq([op : {"add", "cancel"}, addr : Addrs, seq : Seqs])
  /\ crashed \in BOOLEAN /\ missed \in BOOLEAN
  /\ fired \subseteq Seqs /\ cancelled \subseteq Seqs

Init ==
  /\ now = 1
  /\ heap = [a \in Addrs |-> Freed]
  /\ ids = {}
  /\ timers = {} /\ activeTimers = {} /\ cancelTimers = {}
  /\ timerfd = 0 /\ readable = FALSE /\ active = FALSE
  /\ doing = FALSE /\ handled = 0 /\ expired = {} /\ toRun = {} /\ running = NoAddr
  /\ pending = <<>>
  /\ crashed = FALSE /\ missed = FALSE
  /\ fired = {} /\ cancelled = {}

------------------------------------------------------------------------------
(* Faulty forms of operators below, for the mutants of PROJECT.json.       *)

\* The timerfd is armed only when it is not armed already.
ResetTimerfdIfIdle(when) ==
  /\ missed' = (when <= now)
  /\ timerfd' = IF timerfd # 0 THEN timerfd ELSE when
  /\ readable' = (readable /\ when < now)

\* activeTimers_ is searched by address alone; or the heap is, not the set.
FoundAddr(a, seq) == \E id \in activeTimers : id[1] = a
FoundLive(a, seq) == Active(a) = <<a, seq>>

\* lower_bound on the wrong side of an expiration.
ExpiredTooSoon(e) == e[1] <= now + 1

\* insert() forgets the empty set.
BeforeFirst(when) == timers # {} /\ when < First(timers)

\* repeat() is not tested.
AlwaysRepeats(a) == Active(a) \notin cancelTimers

------------------------------------------------------------------------------
(* The timerfd.                                                            *)

\* resetTimerfd(when): a span of zero disarms the timerfd, a negative one is
\* refused (EINVAL, logged); a call that succeeds clears its expirations.
ResetTimerfd(when) ==
  /\ missed' = (when <= now)
  /\ timerfd' = CASE when > now -> when
                  [] when = now -> 0
                  [] OTHER      -> timerfd
  /\ readable' = (readable /\ when < now)

\* The clock moves, whatever the loop is doing, and the timerfd may expire.
Tick ==
  /\ now < MaxTime
  /\ now' = now + 1
  /\ IF timerfd # 0 /\ timerfd <= now + 1
       THEN timerfd' = 0 /\ readable' = TRUE
       ELSE UNCHANGED <<timerfd, readable>>
  /\ UNCHANGED <<heap, ids, queueVars, active, runVars, pending, crashed,
                 histVars, missed>>

------------------------------------------------------------------------------
(* The operations of the queue, on the loop thread.                        *)

\* What insert() returns: earliestChanged.
EarliestChanged(when) == timers = {} \/ when < First(timers)

\* insert() and the rest of addTimerInLoop().
AddTimerInLoop(a, when, seq) ==
  /\ timers' = timers \cup {<<when, a>>}
  /\ activeTimers' = activeTimers \cup {<<a, seq>>}
  /\ IF EarliestChanged(when)
       THEN ResetTimerfd(when)
       ELSE UNCHANGED fdVars
  /\ UNCHANGED <<cancelTimers, runVars, crashed, histVars>>

\* Does activeTimers_.find() find the timer of this TimerId?
Found(a, seq) == <<a, seq>> \in activeTimers

\* What *activeTimers_.end() holds is no timer.
EndValue == <<NoAddr, 0>>

\* cancelInLoop() reads through the iterator before it compares it with
\* end(): a timer that is not found kills the process, or else nothing of
\* what was read is used but *end(), put in cancelTimers_.
CancelInLoop(a, seq) ==
  \/ /\ Found(a, seq)
     /\ timers' = timers \ {<<heap[a].expiration, a>>}
     /\ activeTimers' = activeTimers \ {<<a, seq>>}
     /\ heap' = [heap EXCEPT ![a] = Freed]
     /\ cancelled' = cancelled \cup {heap[a].seq}
     /\ UNCHANGED <<cancelTimers, crashed, fired>>
  \/ /\ ~Found(a, seq)
     /\ crashed' = TRUE
     /\ UNCHANGED <<heap, queueVars, histVars>>
  \/ /\ ~Found(a, seq)
     /\ cancelTimers' = IF doing THEN cancelTimers \cup {EndValue} ELSE cancelTimers
     /\ UNCHANGED <<heap, timers, activeTimers, crashed, histVars>>

\* poll() lists timerfdChannel_.
Poll ==
  /\ readable /\ ~active /\ ~doing
  /\ active' = TRUE
  /\ UNCHANGED <<now, heap, ids, queueVars, fdVars, runVars, pending,
                 crashed, histVars>>

\* Which entries lower_bound(now, UINTPTR_MAX) leaves behind it.
Expired(e) == e[1] <= now

\* handleRead() up to its loop: read the timerfd, getExpired(now).
HandleRead ==
  /\ active /\ ~doing
  /\ active' = FALSE
  /\ readable' = FALSE
  /\ handled' = now
  /\ expired' = {e \in timers : Expired(e)}
  /\ toRun' = expired'
  /\ timers' = timers \ expired'
  /\ activeTimers' = activeTimers \ {Active(e[2]) : e \in expired'}
  /\ doing' = TRUE
  /\ cancelTimers' = {}
  /\ UNCHANGED <<now, heap, ids, timerfd, missed, running, pending,
                 crashed, histVars>>

\* it->second->run(): the next timer in the order of the set.
RunTimer(e) ==
  /\ doing /\ running = NoAddr
  /\ e \in toRun
  /\ \A d \in toRun : e[1] <= d[1]
  /\ toRun' = toRun \ {e}
  /\ running' = e[2]
  /\ fired' = fired \cup {heap[e[2]].seq}
  /\ UNCHANGED <<now, heap, ids, queueVars, fdVars, active, doing, handled,
                 expired, pending, crashed, cancelled>>

RunReturn ==
  /\ running # NoAddr
  /\ running' = NoAddr
  /\ UNCHANGED <<now, heap, ids, queueVars, fdVars, active, doing, handled,
                 expired, toRun, pending, crashed, histVars>>

\* Is the timer at a restarted by reset()?
Repeats(a) == heap[a].interval > 0 /\ Active(a) \notin cancelTimers

\* reset(expired, now): restart() or delete, then arm for the first timer.
Reset ==
  /\ doing /\ toRun = {} /\ running = NoAddr
  /\ LET again == {e[2] : e \in expired} \cap {a \in Addrs : Repeats(a)}
         gone  == {e[2] : e \in expired} \ again
         next(a) == handled + heap[a].interval
     IN  /\ heap' = [a \in Addrs |->
                       IF a \in again THEN [heap[a] EXCEPT !.expiration = next(a)]
                       ELSE IF a \in gone THEN Freed ELSE heap[a]]
         /\ timers' = timers \cup {<<next(a), a>> : a \in again}
         /\ activeTimers' = activeTimers \cup {Active(a) : a \in again}
  /\ IF timers' # {} THEN ResetTimerfd(First(timers')) ELSE UNCHANGED fdVars
  /\ doing' = FALSE
  /\ expired' = {}
  /\ UNCHANGED <<now, ids, cancelTimers, active, handled, toRun, running,
                 pending, crashed, histVars>>

------------------------------------------------------------------------------
(* The callers.                                                            *)

\* addTimer(): new Timer(cb, when, interval).
NewTimer(a, when, i) ==
  /\ ~Live(a)
  /\ numCreated < MaxSeq
  /\ ids' = ids \cup {<<a, numCreated + 1>>}
  /\ heap' = [heap EXCEPT ![a] = [seq |-> numCreated + 1, expiration |-> when,
                                  interval |-> i]]

\* Code of the loop thread runs between two handlers or in a timer callback:
\* runInLoop() executes at once.
LoopThreadCalls == running # NoAddr \/ ~doing

LoopAddTimer(a, d, i) ==
  /\ LoopThreadCalls
  /\ NewTimer(a, now + d, i)
  /\ AddTimerInLoop(a, now + d, numCreated + 1)
  /\ UNCHANGED <<now, active, pending>>

LoopCancel(id) ==
  /\ LoopThreadCalls
  /\ CancelInLoop(id[1], id[2])
  /\ UNCHANGED <<now, ids, fdVars, active, runVars, pending>>

\* Another thread: runInLoop() queues the call.
Queue(op, a, seq) ==
  /\ Len(pending) < MaxPending
  /\ pending' = Append(pending, [op |-> op, addr |-> a, seq |-> seq])

AddTimer(a, d, i) ==
  /\ NewTimer(a, now + d, i)
  /\ Queue("add", a, numCreated + 1)
  /\ UNCHANGED <<now, queueVars, fdVars, active, runVars, crashed, histVars>>

Cancel(id) ==
  /\ Queue("cancel", id[1], id[2])
  /\ UNCHANGED <<now, heap, ids, queueVars, fdVars, active, runVars,
                 crashed, histVars>>

\* doPendingFunctor() runs the next functor of another thread.
RunFunctor ==
  /\ ~doing /\ pending # <<>>
  /\ pending' = Tail(pending)
  /\ LET f == Head(pending)
     IN  IF f.op = "add"
           THEN /\ AddTimerInLoop(f.addr, heap[f.addr].expiration, f.seq)
                /\ UNCHANGED heap
           ELSE /\ CancelInLoop(f.addr, f.seq)
                /\ UNCHANGED <<fdVars, runVars>>
  /\ UNCHANGED <<now, ids, active>>

------------------------------------------------------------------------------

LoopStep == \/ Poll
            \/ HandleRead
            \/ \E e \in toRun : RunTimer(e)
            \/ RunReturn
            \/ Reset
            \/ RunFunctor

Calls == \/ \E a \in Addrs, d \in Delays, i \in Intervals :
              LoopAddTimer(a, d, i) \/ AddTimer(a, d, i)
         \/ \E id \in ids : LoopCancel(id) \/ Cancel(id)

\* A dead process takes no step.
Next == ~crashed /\ (Tick \/ LoopStep \/ Calls)

Spec == Init /\ [][Next]_vars

\* The loop thread is scheduled, an iteration of the loop handles both the
\* channels and the functors, callbacks return, and time does not stand still.
FairSpec ==
  /\ Spec
  /\ WF_vars(~crashed /\ Poll)
  /\ WF_vars(~crashed /\ HandleRead)
  /\ WF_vars(~crashed /\ \E e \in toRun : RunTimer(e))
  /\ WF_vars(~crashed /\ RunReturn)
  /\ WF_vars(~crashed /\ Reset)
  /\ WF_vars(~crashed /\ RunFunctor)
  /\ WF_vars(~crashed /\ Tick)

------------------------------------------------------------------------------
(* Properties.                                                             *)

\* The assertions on timers_ and activeTimers_: the two sets hold the same
\* timers, all of them allocated, under their present expiration and sequence.
ListsAgree ==
  /\ activeTimers = {Active(e[2]) : e \in timers}
  /\ \A e \in timers : Live(e[2]) /\ heap[e[2]].expiration = e[1]

\* Each raw pointer in the vector of handleRead() is that of a timer still
\* allocated and not in the queue as well (it would be deleted twice).
ExpiredTimersAreOwned ==
  \A e \in expired : Live(e[2]) /\ heap[e[2]].expiration = e[1]
                     /\ \A d \in timers : d[2] # e[2]

\* Hazard: a callback cancels, re-adds, or lets addresses be reused while
\* handleRead() walks its vector.  Both sets and the vector stay in order.
TimersAreOwned == ListsAgree /\ ExpiredTimersAreOwned

\* Which timer starts in this step.
Starts(a) == running = NoAddr /\ running' = a

\* Hazard: an expiration on the boundary, a timer cancelled or handled before.
\* No timer runs before its expiration, nor after cancelInLoop() removed it, nor
\* a second time if it does not repeat.
RunsAsAsked ==
  [][\A a \in Addrs : Starts(a) =>
       /\ heap[a].expiration <= now
       /\ heap[a].seq \notin cancelled
       /\ heap[a].interval = 0 => heap[a].seq \notin fired]_vars

\* Hazard: a TimerId outlives its timer and the address is used again.  A
\* cancellation deletes the timer it names and no other.
StaleIdHitsNobody ==
  [][\A s \in cancelled' \ cancelled :
       \E id \in ids : id[2] = s /\ id \in activeTimers /\ id \notin activeTimers'
                       /\ activeTimers' = activeTimers \ {id}]_vars

\* Hazard: the timerfd is armed only when the first timer changes, and left
\* alone by cancelInLoop().  Unless the last arming came too late, it covers
\* the first timer whenever handleRead() is not running.
TimerfdCoversFirst ==
  (~doing /\ timers # {} /\ ~missed) =>
     readable \/ active \/ (timerfd # 0 /\ timerfd <= First(timers))

\* Every timer that falls due leaves the queue: it runs or is cancelled.  (When
\* an arming of the timerfd comes too late, nothing may run until the next.)
DueTimersLeave ==
  \A t \in 2..MaxTime - 1, a \in Addrs :
     (<<t, a>> \in timers) ~> (<<t, a>> \notin timers \/ crashed \/ missed)
==============================================================================
