# A TLA+ model of the summer network library

summer is a small C++ reactor library in the style of muduo: an event loop per
thread, timers, TCP servers and clients, and a publish/subscribe hub as an
application. This directory holds TLA+ modules translated from its source, the
TLC configurations that check them, and TLAPS proofs about the event loop, the
thread that owns one, the timers, the pollers, the buffer, the server with its
connections, the client, and the hub.
All paths below are relative to the repository; line numbers refer to its `.cc`
and `.h` files. `PROJECT.json` maps every definition to the lines it models.

To check a module: `tlc -workers 2 -config TcpServer.cfg MCTcpServer`, say; the
pairs are in the table of runs. To check the proofs: `tlapm EventLoopProofs.tla`, and
the same for the other modules whose name ends in `Proofs`.

## 1. The system

### Components, their state and their operations

| Component | State | Operations | Interacts with |
|---|---|---|---|
| `EventLoop` | `quit_`, `callingPendingFunctor_`, `pendingFunctors_` (under `mutex_`), the eventfd `wakeupFd_`, `activeChannels_` | `loop`, `quit`, `runInLoop`, `queueInLoop`, `wakeup`, `handleRead`, `doPendingFunctor` | every other component runs on one; other threads reach it through the functor queue |
| `EventLoopThread`, `base::Thread` | `loop_`, `exiting_`, mutex and condition | `startLoop`, `threadFunc`, destructor | publishes a loop on its own stack to its creator |
| `TimerQueue`, `Timer`, `TimerId` | `timers_`, `activeTimers_`, `cancelTimers_`, `doingExpiredTimers_`, the timerfd | `addTimer`, `cancel`, `handleRead`, `getExpired`, `reset` | a channel of its loop; user callbacks add and cancel timers |
| `Channel` | `events_`, `revents_`, `index_` | `handleEvent`, `enable*/disable*`, `update` | the poller keeps a plain pointer to it |
| Pollers | `channelMap_`, `pollfds_` or the epoll set | `poll`, `updateChannel`, `removeChannel` | called by their loop |
| `TcpConnection` | `state_`, its channel, `inputBuffer_`, `outputBuffer_` | `send`, `shutdown`, `handleRead/Write/Close/Error`, `connectionEstablished`, `connectionDestroyed` | held by shared pointers of the server, of functors and of users |
| `TcpServer`, `Acceptor`, `EventLoopThreadPool` | `connections_`, `next_` | `newConnection`, `removeConnection`, `getNextLoop` | base loop and io loops exchange functors |
| `Connector` | `state_`, `channel_`, `retryDelayMs_` | `start`, `restart`, `startInLoop`, `handleWrite`, `handleError`, `retry`, `resetChannel` | timers and functors of its loop |
| `TcpClient` | `connect_`, `retry_`, `connection_` (under `mutex_`) | `connect`, `disconnect`, `newConnection`, `removeConnection` | a `Connector` and one `TcpConnection` at a time |
| `Buffer` | a byte vector and two indexes | `append`, `retrieve`, `prepend`, `makespace`, `readFd` | used by connections |
| hub: codec, server, `PubSubClient` | topics, audiences, subscriptions of a connection | parse, publish, subscribe, unsubscribe | an application of `TcpServer` and `TcpClient` |
| `CountDownLatch` | a count | `wait`, `countDown` | start-up of threads |
| socket wrappers, `Timestamp`, `Atomic`, `Logging` | none of interest | | |

### What is hard about it

- *Interleaving.* A foreign thread pushes a functor and writes the eventfd in two
  steps (`EventLoop.cc:116`), anywhere in the loop's iteration. `send`, `shutdown`
  and `disconnect` of other threads test the state of a connection and act later.
- *Ordering.* Establishing, removing and destroying a connection are functors
  that hop between two loops, while its events keep arriving.
- *Lifetime.* Timers, channels and loops are named by plain pointers: addresses
  of timers are reused, a channel dies with its connection while the poller
  knows it, a loop is on the stack of a thread that ends.
- *Re-entrance.* Callbacks add and cancel timers while `handleRead` walks its
  vector; the connector gives up the channel whose handler is running.
- *Timeouts and retries.* The timerfd is armed only when the first timer changes;
  a failed `connect()` is tried again with a growing delay.
- *Boundaries.* A timer due now, a full write, a poller that reports a hang-up to
  a channel that asked for no event, more ready channels than `events_` has room for,
  bytes that just fit a buffer, a request that arrives in two parts.
- *Bookkeeping.* `PollPoller` moves its last entry into the place of a removed one,
  whose owner must learn its new index; descriptors are used again.

The list, line by line, is under `hazards` in `PROJECT.json`.

### What makes each component correct

- Event loop: no functor lost, repeated or reordered; no wakeup lost; `quit` ends it.
- Loop thread: whoever gets the loop's address can use it; the thread is done with
  the object when the destructor is; both calls return.
- Timers: the two sets agree; no early run, no run after a cancellation, one run
  for a one-shot; a stale `TimerId` cancels nobody; due timers leave the queue.
- Connections: no assertion fails; the poller never has a dead channel; map and
  state agree; the byte stream is what was sent; dead connections are freed.
- Client: one attempt or connection at a time, every open socket has one owner,
  a client that retries keeps trying.
- Pollers: what they watch is what the channels ask for; no legal call fails an
  assertion; no ready channel is left out for ever; both report the same.
- Buffer: a queue of bytes, which breaks only when there is no room.
- Hub: a subscriber ends up with the last publication and misses none on the way; the
  hub and its clients agree on the subscriptions; what was sent is read.

## 2. The modules

| Module | Models | Kind |
|---|---|---|
| `TaskQueue` | what an event loop promises: a FIFO executor | abstract specification |
| `EventLoop` | `EventLoop.{h,cc}` | component, refines `TaskQueue` |
| `EventLoopProofs` | | theorems about `EventLoop` |
| `EventLoopThread` | `EventLoopThread.{h,cc}`, `Thread`, `Condition` | extends `EventLoop` |
| `EventLoopThreadProofs` | | theorems about `EventLoopThread` |
| `TimerQueue` | `TimerQueue`, `Timer`, `TimerId` | component |
| `TimerQueueProofs` | | theorems about `TimerQueue` |
| `TcpConnection` | `TcpConnection`, its `Channel`, `poll()` as a loop sees it | state and handlers |
| `TcpServer` | `TcpServer`, `Acceptor`, `EventLoopThreadPool` | extends `TcpConnection` |
| `TcpServerProofs` | | theorems about `TcpServer` |
| `Connector` | `Connector` | state and handlers |
| `TcpClient` | `TcpClient` | extends `Connector` |
| `TcpClientProofs` | | theorems about `TcpClient` |
| `Channel` | `Channel` as the pollers see it | state and operations |
| `EpollPoller`, `PollPoller` | the two pollers | extend `Channel` |
| `Pollers` | both under the same calls (`Poller.h`, `NewDefaultPoller.cc`) | composes them |
| `PollersProofs` | | theorems about `Pollers` |
| `ByteQueue` | what a buffer promises: a queue of bytes | abstract specification |
| `Buffer` | `Buffer.{h,cc}` | component, refines `ByteQueue` |
| `BufferProofs` | | theorems about `Buffer` |
| `Hub` | `hub/codec.cc`, `hub.cc`, `pubsub.cc`, `pub.cc`, `sub.cc` | component |
| `HubProofs` | | theorems about `Hub` |
| `MCTcpServer`, `MCTcpClient`, `MCHub` | | instances for TLC |

Variables have the names of the members they stand for (`pendingFunctors`,
`activeTimers`, `connections`), actions the names of the functions. An action is
a step between two points at which another thread, a callback of the user or the
kernel can come in: a critical section of a mutex is one step, a handler that
calls a user callback is split there. *History* variables (`pushed`, `ran`,
`signalled`, `selfQuit`, `fired`, `cancelled`, `missed`, `upped`, `downed`, `gaveUp`,
`silenced`, `made`, `published`, `joined`, `wants`, `heard`) record what happened; they
guard nothing, except that `made` is bounded.

**EventLoop.** `pc` is the place of the owner thread in `loop()`; `wakeups` is the
eventfd counter. `functors` is the local vector of `doPendingFunctor`. A foreign
`runInLoop` is `RunInLoop` (push) then `Wakeup` (write); a foreign call of
`queueInLoop` does not write the eventfd, as `EventLoop.cc:128` tests
`isInLoopThread()`. Code on the owner thread may queue functors and quit before
`loop()`, in the callback of an "io" channel and in a functor.

**EventLoopThread.** The creator (`own`) and the thread (`th`) each have a place in
their functions; `loopPtr` is `loop_ # NULL`. Spurious returns of
`pthread_cond_wait` are steps. `quit()` on a loop that is gone writes to the
stack of a thread not joined yet, and changes nothing.

**TimerQueue.** The clock is a counter that may move at any time. `heap` maps
addresses to timers, so that addresses are reused. `resetTimerfd` with a distance
of zero disarms the timerfd and with a negative one is refused. `cancelInLoop`
dereferences what `find()` returned before comparing it with `end()`: when the timer
is not found, either the process ends (`crashed`) or nothing of what was read is
used except by `cancelTimers_.insert(*it)`. (`insert()` reads
`timers_.begin()->first` of an empty set in the same way; its value is not used, so
that read is left out.)

**TcpConnection and TcpServer.** Each loop has a phase, its active channels, the
batch of functors being run and the pending ones. `revents` holds the callbacks
that `handleEvent` will still call, as poll() decided them. `registered` is the
poller's view of the channel. `Alive` is the reference count: the map, functors
bound to a `TcpConnectionPtr`, a callback in progress, the user's pointers; the
functors of `sendInLoop` and `shutdownInLoop` hold a plain `this` and do not
count. The peer connects, sends, closes and resets as it likes. `HupUnasked` is
the difference between the pollers: epoll reports a hang-up to a registered
channel that asks for nothing, `PollPoller` hides such a channel from poll(2).

**Connector and TcpClient.** A socket is its file descriptor; the kernel's answers
to `connect()` fall into the three classes of the `switch` in `startInLoop`.
`disconnect()` of another thread is four steps: `connect_`, the lock and the
test, `setState`, the queued functor. A connection object is named by its socket;
its data are the business of `TcpConnection`.

**Channel, EpollPoller, PollPoller, Pollers.** A channel is an address, and is in the
pollers from its first `update()` to `removeChannel()`; then address and descriptor may
be used again. The module gives both pollers the same calls, each with an index of
its own (in the code `index_` belongs to whichever poller there is). The kernel's
interest list is a table from descriptors to a mask and a pointer. `pollfds` is the
vector with its negated descriptors. `EpollReport` and `PollReport` are what a poll()
makes of a descriptor in a given condition, a hang-up among them. `EpollWait` lets
the kernel fill `events_` with any part of what is ready, as `man epoll_wait` allows;
`events_` doubles when it was full. Assertions are not guards: `EpollAccepts` and
`PollAccepts` say that the next call passes them, and the property `AssertionsHold`
that this is always so.

**Buffer.** The vector, both indexes, and the arithmetic of `makespace()` with
unsigned numbers. `resize(writeableBytes() + more)` leaves less room than was asked for
unless the free part of the vector behind `writeIndex_` is larger than `writeIndex_`: the
assertion of `append()` then fails, or, when the vector has become shorter than
`writeIndex_`, passes because the difference is unsigned, and the copy runs over the
end. Bytes that fit exactly fail the assertion as well. Both ends are `broken`, after
which nothing happens. Bytes are numbered as they are made, so that any loss, repetition
or misplacement shows in the refinement of `ByteQueue`.

**Hub.** The parser needs whole lines, so a line is the least part in which a
stream can arrive: a subscription is one line, a publication two. A read takes any
number of the lines that wait; `HubServer::onMessage` is a step for the read and one for
each message, between which clients go on. Where the parser tests the first CRLF instead
of the second (`codec.cc:31`), a publication cut in two is read through a null pointer:
the process that parses it dies (`crashed`). Publications are named by who made
them and when; the content is a name, and so is a topic. The hub's set of topics per
connection is changed in a copy of the context only (`hub.cc:168`, `hub.cc:176`), so it is
always empty and left out. Connections that ended stay in the audiences, since no
callback tells the hub; `send()` to them does nothing.

## 3. The runs

| Run | Module, cfg | Distinct states | Shows |
|---|---|---|---|
| `event_loop` | `EventLoop` | 41 133 | safety, refinement of `TaskQueue`, liveness |
| `loop_thread` | `EventLoopThread` | 5 380 | the life of the object, safety and liveness |
| `timer_queue` | `TimerQueue` | 534 649 | the sets, the timerfd, runs and cancellations, liveness |
| `server_single` | `MCTcpServer`, `TcpServer` | 740 551 | one loop, two connections, epoll, sending callbacks |
| `server_pool` | `MCTcpServer`, `TcpServerPool` | 320 173 | base loop and two io loops, poll(2), with liveness |
| `server_send` | `MCTcpServer`, `TcpServerSend` | 644 810 | the byte stream under three senders |
| `client` | `MCTcpClient`, `TcpClient` | 20 163 | attempts, sockets, channel, with liveness |
| `pollers` | `Pollers` | 305 622 | tables and reports of both pollers, with liveness |
| `buffer` | `Buffer` | 103 309 | refinement of `ByteQueue`, when it breaks |
| `hub` | `MCHub`, `Hub` | 40 249 | subscriptions and publications in parts, with liveness |
| `server_pool_epoll` | `MCTcpServer`, `TcpServerPoolEpoll` | | violated: `EraseFindsConnection` |
| `server_down` | `MCTcpServer`, `TcpServerDown` | | violated: `UpThenDown` |

### Properties

- `NoLostWakeup`: a functor handed over with a wakeup has it in the eventfd, or its
  poster is about to write it, unless the loop is about to swap the queue.
  `PromptRun` is its consequence: such a functor runs even if poll() never times
  out. `EveryFunctorRuns` and `QuitStopsLoop` need the five-second timeout, which is
  stated as a premise of the property (`PollTimesOut`).
- `ImplementsTaskQueue`: the loop is a FIFO executor, `TaskQueue` with `queue <- Backlog`
  and `done <- ran`. (`NothingLostOrReordered`, what ran, the rest of the batch and the
  queue are together what was queued, in order, follows from it and is proved.)
- `PublishedLoopExists`: `loop_` is NULL before the loop is destroyed, and whoever
  was handed the loop can use it, unless code inside the loop ended it.
  `ThreadDoneWithObject`: after the destructor the thread does not touch the object.
  `StartLoopReturns`, `DtorReturnsWhenLooping` (the destructor returns if the thread
  was inside `loop()` when it quit it; see section 5 for the other case).
- `TimersAreOwned`: `ListsAgree` is what the assertions of `TimerQueue` say about sizes,
  in full; `ExpiredTimersAreOwned` concerns the vector of raw pointers.
  `RunsAsAsked`: not too early, not after the cancellation, a one-shot once.
  `StaleIdHitsNobody`: the reuse of addresses. `TimerfdCoversFirst`: the arming of
  the timerfd, of which `DueTimersLeave` is the purpose.
- `AssertionsHold` (server, client, pollers): no `assert` of the code fails and no
  functor uses a freed connection. `NoDanglingChannel`: a registered channel has a live
  connection. `MapHoldsTheOpen`: `connections_` has the connections that are not
  closed, up to the functor on its way to the base loop. `StreamIntact`: whole
  messages, each sender's in order. `PendingOutputIsWatched`: while output waits, the
  poller is asked for POLLOUT and the write side is open. `ClosedConnectionsAreFreed`:
  in the end every connection whose peer went away is freed.
- `OneAttempt`: calls, timers, attempts and connections are never two at once, and
  never none while the client is to keep trying. `SocketsAreOwned`: open sockets
  and their owners correspond one to one. `HandledChannelExists`: `resetChannel` is
  deferred long enough. `NeverGivesUp`.
- `EpollWatchesTheAsking`: the interest list is exactly what the channels ask for.
  `PollEntriesAgree`: one entry per channel, at its index, and no other.
  `PollersAgree`: equal reports, save for channels that once asked for nothing
  (`silenced`), which `PollPoller` goes on ignoring. `NobodyIsLeftOut`: every ready
  channel is reported again and again, however small `events_` was.
- `ImplementsByteQueue`, and `BreaksOnlyWithoutRoom`: when a buffer breaks, the bytes did
  not fit even after moving the content, or fitted exactly.
- `SubscribersAreUpToDate`, `SubscribersMissNothing`, `AudiencesAreAsWanted`,
  `EverythingIsRead`: section 1. The last excepts a process that died of a cut publication.

Every safety property of the passing runs is proved as well, three of those of the server
under hypotheses (section 4).

### Bounds

- `Tasks`: each functor is queued once, so the number of functors bounds queue,
  eventfd counter and histories. Three functors and two foreign threads give a
  running functor, one behind it in the batch and one queued meanwhile, from
  any side. The proofs remove the bound for the safety properties.
- `MaxSeq`, `Addrs`, `MaxTime`, `Delays`, `MaxPending`: three timers on two
  addresses are the least in which an address is reused while another timer is in
  the queue. The clock has three instants and the requested distances are 0, 1
  and 2, so a timer can be due at once, become first, or be overtaken.
  `DueTimersLeave` is stated for the instant that the clock is sure to pass.
- `Conns`, `MaxSends`, `MsgLen`: with two connections the functors and events of
  one surround those of the other. Two messages of two bytes give partial
  writes, and a write-complete callback that is carried out after a close.
  `server_send` has one connection, a message from the loop and one from each of two
  threads.
- `Fds`, `MaxCalls`, delays: two descriptors let the old connection's socket live
  on while the next attempt gets another one or the same one again. The delays
  1 and 3 let the back-off reach its maximum.
- Io loops: two, and up to two connections, so that each loop has its turn.
- `Channels`, `Fds`, `InitMaxEvents`: with three channels a removal can move the entry of a
  third one; three descriptors let one be used again by another channel; `events_` begins
  with one place, so that it is full, and doubles, within three channels. (`Fds` begins at
  zero, the descriptor that a plain change of sign would not hide.)
- `kCheapPrepend = 2`, `kInitialSize = 5`, `ExtraSize = 3` in place of 8, 1024 and 65536, and
  seven bytes: every branch of `append` and `readFd` is met, before and after moves, with
  exact fits, short resizes and overruns. The proofs remove the bound.
- `MaxCalls`: the reader makes three calls, the writer one, on one topic: a
  subscription before, between and after publications, and its withdrawal.
- A poll() that finds nothing to do is left out of `TcpServer` and `TcpClient` (it
  changes nothing); in `EventLoop` it is there.

### Fairness

- `EventLoop`: the owner thread keeps running and callbacks return (weak fairness
  of `LoopStep`), a readable eventfd ends poll() (level-triggered pollers), a thread
  between push and write gets to write. Nothing is assumed about users.
- `EventLoopThread`: both threads are scheduled, and the same for the loop. The
  timeout of poll() is assumed: `quit()` wakes nobody.
- `TimerQueue`: an iteration handles channels and functors, callbacks return, the
  clock moves. The loop is not assumed to be faster than the clock.
- `TcpServer`: each loop is scheduled, the listening socket is served. The
  functors queued without a wakeup are run, which is `EveryFunctorRuns`.
- `TcpClient`: the loop and threads inside `disconnect()` are scheduled, timers
  expire, the kernel answers every `connect()` in progress.
- `Pollers`: the loop goes on polling. `Hub`: the hub and the loop of each client are
  scheduled; nobody has to make a request.

A loop is one thread, so one weak fairness condition per loop is enough wherever
its steps exclude each other.

Deadlock is checked everywhere except in `TimerQueue`, whose clock stops at
`MaxTime` and whose process may end, in `Buffer`, which may break, and in `Hub`, whose
clients need not ask for anything and whose processes may die. `Pollers` has no end;
the other modules have an explicit step for
the end of a behaviour (`Terminated`, `Finished`).

## 4. The proofs

Every theorem holds for any value of the constants under their named assumptions, and
for behaviours of any length.

| Module | Theorem | Statement |
|---|---|---|
| `EventLoopProofs` | `TypeCorrect` | `Spec => []TypeOK` |
| | `WakeupsAreNotLost` | `Spec => []NoLostWakeup` |
| | `FunctorsRunInOrder` | `Spec => []NothingLostOrReordered` |
| | `LoopImplementsTaskQueue` | `Spec => ImplementsTaskQueue` |
| `EventLoopThreadProofs` | `ThreadRunsEventLoop` | `EltSpec => Spec` |
| | `EltTypeCorrect` | `EltSpec => []EltTypeOK` |
| | `HandedLoopExists` | `EltSpec => []PublishedLoopExists` |
| | `ObjectOutlivesThread` | `EltSpec => []ThreadDoneWithObject` |
| `PollersProofs` | `AssertionsNeverFail` | `Spec => []AssertionsHold` |
| | `EpollIsExact` | `Spec => []EpollWatchesTheAsking` |
| | `PollEntriesAreExact` | `Spec => []PollEntriesAgree` |
| | `PollersReportTheSame` | `Spec => []PollersAgree` |
| `BufferProofs` | `TypeCorrect` | `Spec => []TypeOK` |
| | `IsAQueue` | `Spec => ImplementsByteQueue` |
| | `BreaksForWantOfRoom` | `Spec => BreaksOnlyWithoutRoom` |
| `TimerQueueProofs` | `TypeCorrect` | `Spec => []TypeOK` |
| | `TimersHaveOneOwner` | `Spec => []TimersAreOwned` |
| | `TimersRunAsAsked` | `Spec => RunsAsAsked` |
| | `StaleIdsAreHarmless` | `Spec => StaleIdHitsNobody` |
| | `FirstIsCovered` | `Spec => []TimerfdCoversFirst` |
| `TcpServerProofs` | `TypeCorrect` | `Spec => []TypeOK` |
| | `ChannelsAreOwned` | `Spec => []NoDanglingChannel` |
| | `StreamsAreIntact` | `Spec => []StreamIntact` |
| | `MapIsRight` | `Spec => []MapHoldsTheOpen`, if `Senders = {}` |
| | `OutputIsWatched` | `Spec => []PendingOutputIsWatched`, if `Senders = {}` |
| | `NoAssertionFails` | `Spec => []AssertionsHold`, if `Senders = {}` and `HupUnasked => IoLoops = <<>>` |
| `TcpClientProofs` | `TypeCorrect` | `Spec => []TypeOK` |
| | `NoAssertionFails` | `Spec => []AssertionsHold` |
| | `AttemptsAreOne` | `Spec => []OneAttempt` |
| | `SocketsHaveAnOwner` | `Spec => []SocketsAreOwned` |
| | `ChannelOutlivesItsHandler` | `Spec => []HandledChannelExists` |
| `HubProofs` | `TypeCorrect` | `Spec => []TypeOK` |
| | `AudiencesFollow` | `Spec => []AudiencesAreAsWanted` |
| | `LastIsHeardLast` | `Spec => []SubscribersAreUpToDate` |
| | `NothingIsMissed` | `Spec => []SubscribersMissNothing` |

**EventLoop.** `NoLostWakeup` is not inductive: `queueInLoop` on the owner thread decides
by `callingPendingFunctor_` whether to write the eventfd, and a functor must not get into
the queue twice. The invariant that is inductive is `TypeOK`, `CallingOnlyInBatch`
(the flag is set exactly while a batch is run, and a batch or a running functor
exist only then), `SignalledQueued` (the history `signalled` names queued functors
only, so that a fresh functor is not in it) and `NoLostWakeup` itself. Each has a
lemma for one step (`CallingStep`, `SignalledStep`, `NoLostWakeupStep`), by cases
on the actions. For the refinement, `BacklogStep` shows that each step appends one
functor to the backlog, moves one from its head to `ran`, or leaves both; `MoveHead`
and `PushLast` are the facts about sequences behind it.

**EventLoopThread.** Every step of the thread and its users is a step of its loop
(`StepIsLoopStep`), so a behaviour of the whole is a behaviour of `EventLoop` and the
theorems above hold of it. `EltInv` adds to the three properties `Rendezvous`, where
creator and thread can be together, and `QuitOnPurpose`: the loop is left only when its
own code or the destructor called `quit()` *after* `loop()` was entered, which is why a
loop that was handed out still exists.

**Pollers.** `Inv` consists of `ChannelTypeOK`, `DistinctFds`, `EpollInv` and `PollInv`: each
channel in the poller has an index of its own and at that index the entry
`EntryOf(ch)`, and every entry belongs to some channel. The distinct descriptors are
what makes the search by descriptor in `removeChannel` find the owner of the moved
entry (`EntryOwner`); the removal itself (`PollRemoval`) is the long proof. All four
theorems follow from `Inv`.

**Buffer.** The invariant is `TypeOK` with `kCheapPrepend <= Len(buffer)`. Lemmas say
what a slice, a copy and a resize do to the readable bytes (`CopyAppends`, `CopyIsFound`,
`ResizeKeeps`, `CopyPrepends`); `AppendCases` goes through the branches of `append` and
`AppendEffect` joins them; `readFd` is a copy followed by an append.

**TimerQueue.** The invariant adds to `TimersAreOwned` what makes addresses and sequence
numbers safe: `IdsInv` (numbers are below the counter, and one names one `TimerId`, and
the number of every live timer was handed out), `PendingInv` (a timer whose `addTimer`
is still a functor has no other owner), `BatchInv` (`handleRead` handles what is due),
and `HistInv` (a live timer is not one of those cancelled, and a one-shot that ran is in
the part of the vector already dealt with). There is a lemma per action; `NewTimerKeeps`
and `CancelKeeps` serve the calls of the loop and those of other threads. The first two
action properties follow from it by looking at the one step that starts a timer, or the
ones that cancel. `TimerfdCoversFirst` is inductive with it, since `First` of fewer timers
is not smaller (`FirstOfFewer`).

**TcpServer.** What makes the server hard to reason about is that establishing, removing
and destroying a connection are functors, that a batch is run while the next one is
gathered, and that events come in between. The proof sees the functors a loop has still
to call as one sequence, `Todo(l)`: the rest of its batch with what is pending behind it.
Every step takes the head of one such sequence, or puts one functor behind one, or leaves
them alone (`Evolve`, shown once for each action), and the swap of the two vectors changes
nothing. The invariants then speak of functors a loop awaits (`Awaits`) and of two of them
in their order (`Before`). There are four:

- `CoreInv` holds in every instance. Batches and events are of connections of that loop
  that are established, a connection whose `connectionEstablished` is queued is new to the
  poller, and it is queued once. `DestroyInv` builds on it: a registered channel has its
  connection in the map, or its `connectionDestroyed` is still to run. Either one is an
  owner, which is `NoDanglingChannel`.
- `SentInv` holds in every instance: what a sender has in the stream of a connection,
  in its queued `sendInLoop` functors and in its call under way is in the order of its
  messages, and the stream consists of whole messages. A direct write happens only when
  the output buffer is empty (`SentThrough`), so partial writes reorder nothing.
- `QuietInv` needs that no thread but the loops calls `send()` or `shutdown()`. The
  functors on the way out (`removeConnectionInLoop`, then `connectionDestroyed`) are for
  closed connections, and a closed connection stays closed. With other senders it does not:
  `shutdown()` of another thread can overwrite `kDisconnected`, and a queued `sendInLoop`
  asks for POLLOUT on a connection that was closed (section 5). TLC refutes
  `MapHoldsTheOpen`, `PendingOutputIsWatched` and `AssertionsHold` in the instance of
  `server_send`, which checks none of them.
- `CloseInv` needs moreover that no channel is closed twice: `HandleClose` is called for an
  open connection only, each functor on the way out is there once, and without a pool
  `connectionDestroyed` does not wait for another poll(). With a pool and epoll a second
  hang-up comes in between, which is the finding of `server_pool_epoll`; so the hypothesis
  `HupUnasked => IoLoops = <<>>` is just what the code needs.

The assumption `SendersAssumption`, that `Senders` are threads other than the loops,
is used to tell a call on the loop from a queued one.

**TcpClient.** `ClientInv` is one invariant for all five theorems, as each of the
properties needs the others: an assertion of the connector holds because there is only one
attempt, and there is only one because no assertion fails. `LoopInv` says that the loop is in
one place, and that poll() finds one thing at a time. `EventInv` says that what was found or
is being handled stays true until it is done, which is where a retry timer, a queued
`resetChannel` and a close in one iteration could collide. `ChannelInv` relates `channel_`
to the attempt and to the queued `resetChannel()`: while one is queued there is a timer or a
connection, so the next attempt cannot begin. `LifeInv` and `ShutdownInv` follow
a connection from `connection_` to its queued `connectionDestroyed` to the end of the batch,
with every `shutdownInLoop` in front; `CallerInv` is the mutex. In the proof each action
does one of three things to the functors (`QueueSteps`: `Pushes`, `Takes`, `Swaps`), and
whatever calls `startInLoop()` does so with no channel and in `kDisConnected`, with one of
three outcomes (`Begins`, and the lemmas `TimerBegins`, `RunStartBegins`,
`LoopConnectBegins` and `RestartBegins`). There are no hypotheses: the theorems hold
with and without retries, for any number of threads, descriptors and calls. (That users
call `connect()` again only after a final failure is in the model, see section 5.)

**Hub.** A client and the hub are joined by two sequences: `ToCome(c)`, the lines of c that
the hub has still to use, in its buffer or in the socket, and `Delivered(c)`, what c has
heard followed, while it lives, by the publications in its socket. However a stream is cut,
a read moves lines within `ToCome` (`ReadSame`), and a client that reads whole publications
moves them within `Delivered`; one that reads the first half of one dies, and what it has
heard is a beginning of what it was to hear (`ClientReads`). A request uses up one line at
the head of `ToCome`, or the two of a publication (`Uses`). Over these sequences `HubInv`
says:

- the lines are in form, a text just behind its "pub", so that what the parser takes for the
  content is a content (`FormInv`);
- the last request of a client about a topic is its wish, and when there is none on its way
  the audience agrees with the wish (`WantInv`), of which `AudiencesAreAsWanted` is the case
  of no lines at all;
- the publications of a client are numbered as it made them, those on their way above those
  published (`TextInv`); hence a topic has each once, and `content_` is the last (`TopicInv`);
- what is delivered was published (`HeardInv`), in order (`OrderInv`), nothing is missing
  (`MissInv`), and the last comes last (`SubscribersAreUpToDate`).

`HearingStep` puts into one lemma what any step can do to a client's `Delivered`, to a topic
and to a subscription: the three properties follow from it without further cases on the
actions. A client that never connected (`NewInv`) is in no audience, which is why the
connection that the hub accepts begins without subscriptions.

Only model-checked is liveness, which is out of the prover's reach: `PromptRun`,
`EveryFunctorRuns`, `QuitStopsLoop`, `StartLoopReturns`, `DtorReturnsWhenLooping`,
`DueTimersLeave`, `ClosedConnectionsAreFreed`, `NeverGivesUp`, `NobodyIsLeftOut` and
`EverythingIsRead`.

## 5. Where the code and its documents disagree

Two runs are expected to find a violation; `findings` in `PROJECT.json` quotes
the lines.

- `server_down`: `connectionCallback_` is not called when a connection ends, though
  `EchoServer_test.cc:57` and `hub/hub.cc:125` handle that call.
- `server_pool_epoll`: with a pool and epoll, `handleClose` can run twice and the
  assertion `n == 1` of `removeConnectionInLoop` fails.

Other behaviour of the models that a user of the library should know of, and about
which its documents say nothing:

- `loop()` resets `quit_`: the destructor of an `EventLoopThread` that comes before the
  thread has entered `loop()` waits for ever (`DtorReturnsWhenLooping` excepts it).
- A repeating timer that its own callback cancels comes back: it is in neither set at
  that time, and `cancelTimers_` receives `*end()` instead of it.
- `shutdown()` with output pending sets `kDisconnecting`; the second `shutdown()`, which
  `handleWrite` makes when the output is gone, does nothing in that state, so the write
  side is never closed.
- A `Buffer` grows only while more than half of it is free behind `writeIndex_`
  (section 2).
- A channel that asks for nothing and then for something again is ignored by `PollPoller`
  for good. No channel of the library does so.
- A publication that arrives in two parts ends the process that parses it, the hub or
  a subscriber.
- `publish()` and `subscribe()` before the client is connected are dropped
  (`pubsub.cc:108`), and the programs, which quit when told that the connection is down
  (`pub.cc:28`), are never told.
- An arming of the timerfd for an instant that is not in the future (a slow
  callback, a delay of zero) leaves it disarmed or unchanged; the due timer waits
  until another arming (`missed` in `TimerQueue`).
- `shutdown()` on another thread tests and sets `state_` in two steps, and can
  overwrite `kDisconnected` with `kDisconnecting`.
- `sendInLoop` does not look at `state_`. A send of another thread can be carried
  out between `handleClose` and `connectionDestroyed`, and ask for POLLOUT on a channel
  about to be removed, which the pollers' assertion refuses. If the user drops its pointer right after `send`, the functor may find the
  connection freed.
- If code inside the loop of an `EventLoopThread` quits at once, `startLoop()` may find
  `loop_` NULL again and wait for ever, or return NULL.
- A `Connector` stays in `kConnected` when its connection ends without a retry: a second
  `TcpClient::connect()` fails `assert(state_ == kDisConnected)`. So does a
  `connect()` while an attempt or a retry timer is under way. `TcpClient` lets
  users connect again only after an attempt failed for good.
- `disconnect()` before the connection is up does not stop it from coming up.

## 6. What is not modelled

- `CountDownLatch`: a count under a mutex and a condition, used only by its own test.
- `Buffer::swap()`: it exchanges two members and has no caller. `findCRLF()` is part of
  the parser in `Hub`. Failing `epoll_ctl`, `epoll_wait` and `poll` end the process.
- In `Hub`: `kError`, which no client of the repository can cause; the reconnection of a
  `PubSubClient`, which does not ask for it.
- Socket wrappers and addresses: system calls, whose effects are environment
  actions of the modules that use them. `Timestamp`, `Atomic`, `Logging`:
  formatting, a compiler builtin and output. The test programs.
- System calls interrupted by signals (EINTR) and failures that the library treats as
  fatal (`LOG_FATAL`, EMFILE in `accept`): the process ends.
- SIGPIPE: taken to be ignored by the application.
- The destruction of a `TcpServer`, a pool or a `TcpClient` with live connections.
- `RetryEnabled = FALSE` for the client beyond what `connect_ = FALSE` shows (the same
  branch of `removeConnection`).
- In the passing server runs `handleClose` is reached through the end of the stream; the
  other way, the close callback of a channel that reads nothing, needs a second hang-up
  and occurs in `server_pool_epoll` only.

## 7. Plan

1. Proofs: what holds of the server with other senders, whose functors may meet a closed
   connection; the action properties that those invariants give.
2. The destruction of a `TcpClient` and of an `EventLoopThreadPool` while in use.
3. `Connector` under calls of `connect()` and `stop()` that its present users do not make.
