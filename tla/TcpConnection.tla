---------------------------- MODULE TcpConnection ----------------------------
(***************************************************************************)
(* summer::net::TcpConnection (src/net/TcpConnection.{h,cc}) with the      *)
(* Channel it owns (Channel.{h,cc}), the socket under it and the loops it  *)
(* runs on.  The module has the state and the handlers of connections; the *)
(* modules that create connections (TcpServer) compose them.               *)
(*                                                                         *)
(* A loop is seen through what EventLoop guarantees: events of one poll()  *)
(* are handled one after the other, then the functors pending at that time *)
(* are run in order.  That functors are run at all (wakeups, timeouts) is  *)
(* the business of module EventLoop.                                       *)
(***************************************************************************)
EXTENDS Naturals, Sequences, FiniteSets

CONSTANTS Conns,       \* the connections; each is made at most once
          NoConn,      \* no connection
          Listener,    \* acceptChannel_, when it is in an active list
          Loops,       \* the event loops, one thread each
          NoLoop,      \* the loop of a connection that does not exist yet
          Senders,     \* user threads that are not loops
          MaxSends,    \* bound: messages sent by each loop and by each sender
          MsgLen,      \* bytes of a message
          WriteComplete, \* did the user set writeCompleteCallback_?
          HupUnasked   \* does the poller report a hang-up to a channel that
                       \* asks for no event?  epoll does; PollPoller ignores
                       \* such a channel

ASSUME SentinelAssumption == {NoConn, Listener} \cap Conns = {} /\ NoLoop \notin Loops
ASSUME SendersAssumption == Senders \cap Loops = {}
ASSUME SendAssumption == MaxSends \in Nat /\ MsgLen \in Nat \ {0}
ASSUME FlagAssumption == {HupUnasked, WriteComplete} \subseteq BOOLEAN

VARIABLES
  \* Loops.
  phase,          \* "poll", "events" or "functors"
  active,         \* activeChannels_, the part not dispatched yet
  current,        \* the channel in handleEvent(), or NoConn
  user,           \* the connection whose user callback is executing, or NoConn
  batch,          \* the local vector of doPendingFunctor(), kept to its end
  next,           \* the index of the functor to call
  pending,        \* pendingFunctors_
  \* Connections.
  loopOf,         \* loop_
  state,          \* state_; "none" before the constructor
  events,         \* events_ of the channel
  registered,     \* the poller's view of the channel: "new", "in", "out"
  revents,        \* callbacks of the present handleEvent() still to come
  outputBuffer,   \* outputBuffer_, bytes in order
  upped, downed,  \* connectionCallback_ was called for up, for down
  \* Sockets and the peers at their other end.
  peer,           \* "absent", "open", "closed" (FIN) or "reset" (RST)
  inbox,          \* has the socket bytes to read?
  soError,        \* has the socket an error to report?
  wrShut,         \* shutdownWrite() was called
  wire,           \* bytes accepted by the socket, in order
  \* Users.
  held,           \* connections a user keeps a TcpConnectionPtr of
  call,           \* sender -> the call of send() or shutdown() it is in
  sends,          \* messages sent so far by each loop and each sender
  failed          \* the assertion that aborted the process, or "none"

loopVars == <<phase, active, current, user, batch, next, pending>>
connVars == <<loopOf, state, events, registered, revents, outputBuffer>>
cbVars   == <<upped, downed>>
sockVars == <<peer, inbox, soError, wrShut, wire>>
userVars == <<held, call, sends>>
tcpVars  == <<loopVars, connVars, cbVars, sockVars, userVars, failed>>

States   == {"none", "kConnecting", "kConnected", "kDisconnecting", "kDisconnected"}
Bytes    == (Loops \cup Senders) \X (1..MaxSends) \X (1..MsgLen)
Ops      == {"established", "destroyed", "remove", "send", "shutdown", "writeComplete"}
Functors == [op : Ops, conn : Conns, data : Seq(Bytes)]
Idle     == [op |-> "idle", conn |-> NoConn]

TcpTypeOK ==
  /\ phase \in [Loops -> {"poll", "events", "functors"}]
  /\ active \in [Loops -> SUBSET (Conns \cup {Listener})]
  /\ current \in [Loops -> Conns \cup {NoConn}]
  /\ user \in [Loops -> Conns \cup {NoConn}]
  /\ batch \in [Loops -> Seq(Functors)] /\ pending \in [Loops -> Seq(Functors)]
  /\ next \in [Loops -> Nat]
  /\ loopOf \in [Conns -> Loops \cup {NoLoop}]
  /\ state \in [Conns -> States]
  /\ events \in [Conns -> SUBSET {"read", "write"}]
  /\ registered \in [Conns -> {"new", "in", "out"}]
  /\ revents \in [Conns -> SUBSET {"close", "error", "read", "write"}]
  /\ outputBuffer \in [Conns -> Seq(Bytes)] /\ wire \in [Conns -> Seq(Bytes)]
  /\ upped \subseteq Conns /\ downed \subseteq Conns
  /\ peer \in [Conns -> {"absent", "open", "closed", "reset"}]
  /\ inbox \subseteq Conns /\ soError \subseteq Conns /\ wrShut \subseteq Conns
  /\ held \subseteq Conns
  /\ call \in [Senders -> [op : {"idle", "send", "shutdown", "shutdownSet"},
                           conn : Conns \cup {NoConn}]]
  /\ sends \in [Loops \cup Senders -> 0..MaxSends]
  /\ failed \in {"none", "established", "erase", "updateChannel",
                 "removeChannel", "use after free"}

TcpInit ==
  /\ phase = [l \in Loops |-> "poll"]
  /\ active = [l \in Loops |-> {}]
  /\ current = [l \in Loops |-> NoConn]
  /\ user = [l \in Loops |-> NoConn]
  /\ batch = [l \in Loops |-> <<>>]
  /\ next = [l \in Loops |-> 1]
  /\ pending = [l \in Loops |-> <<>>]
  /\ loopOf = [c \in Conns |-> NoLoop]
  /\ state = [c \in Conns |-> "none"]
  /\ events = [c \in Conns |-> {}]
  /\ registered = [c \in Conns |-> "new"]
  /\ revents = [c \in Conns |-> {}]
  /\ outputBuffer = [c \in Conns |-> <<>>]
  /\ upped = {} /\ downed = {}
  /\ peer = [c \in Conns |-> "absent"]
  /\ inbox = {} /\ soError = {} /\ wrShut = {}
  /\ wire = [c \in Conns |-> <<>>]
  /\ held = {}
  /\ call = [s \in Senders |-> Idle]
  /\ sends = [s \in Loops \cup Senders |-> 0]
  /\ failed = "none"

Functor(op, c) == [op |-> op, conn |-> c, data |-> <<>>]

\* queueInLoop(f) on the loop l.
Queue(l, f) == pending' = [pending EXCEPT ![l] = Append(@, f)]

------------------------------------------------------------------------------
(* The peer and the socket (outside the program).                          *)

PeerConnect(c) ==
  /\ peer[c] = "absent"
  /\ peer' = [peer EXCEPT ![c] = "open"]
  /\ UNCHANGED <<loopVars, connVars, cbVars, inbox, soError, wrShut, wire,
                 userVars, failed>>

PeerSend(c) ==
  /\ peer[c] = "open"
  /\ inbox' = inbox \cup {c}
  /\ UNCHANGED <<loopVars, connVars, cbVars, peer, soError, wrShut, wire,
                 userVars, failed>>

PeerClose(c) ==
  /\ peer[c] = "open"
  /\ peer' = [peer EXCEPT ![c] = "closed"]
  /\ UNCHANGED <<loopVars, connVars, cbVars, inbox, soError, wrShut, wire,
                 userVars, failed>>

PeerReset(c) ==
  /\ peer[c] \in {"open", "closed"}
  /\ peer' = [peer EXCEPT ![c] = "reset"]
  /\ soError' = soError \cup {c}
  /\ UNCHANGED <<loopVars, connVars, cbVars, inbox, wrShut, wire, userVars, failed>>

\* End of file and hang-up as poll(2) and epoll(7) report them.
Eof(c) == peer[c] \in {"closed", "reset"}
Hup(c) == peer[c] = "reset" \/ (peer[c] = "closed" /\ c \in wrShut)

\* A write fails on a connection reset by its peer or shut down (SIGPIPE, which
\* the library leaves to its user, is taken to be ignored).
WriteFails(c) == peer[c] = "reset" \/ c \in wrShut

------------------------------------------------------------------------------
(* Faulty forms of operators below, for the mutants of PROJECT.json.       *)

\* The end of the stream does not wake the reader.
ReadReadyData(c) == "read" \in events[c] /\ c \in inbox

\* handleClose() without disableAll(), and without setState().
CloseConnectionEnabled(c) ==
  /\ state' = [state EXCEPT ![c] = "kDisconnected"]
  /\ UNCHANGED <<loopOf, events, registered, outputBuffer>>

CloseConnectionSilently(c) ==
  /\ events' = [events EXCEPT ![c] = {}]
  /\ UNCHANGED <<loopOf, state, registered, outputBuffer>>

\* sendInLoop() does not look at the output buffer.
WritesAtOnce(c) == TRUE

\* handleWrite() stops after any progress.
AnyProgress(c, n) == n > 0

\* connectionDestroyed() without removeChannel().
ChannelForgotten(c) == UNCHANGED <<state, events, downed, registered, failed>>

\* shutdownInLoop() does not wait for the output.
ShutdownAtOnce(c) == wrShut' = wrShut \cup {c}


------------------------------------------------------------------------------
(* poll() and Channel::handleEvent().                                      *)

ReadReady(c) == "read" \in events[c] /\ (c \in inbox \/ Eof(c))

\* The callbacks handleEvent() will call for the events of a channel that is
\* writable (w) or not: POLLHUP closes only without POLLIN.
Callbacks(c, w) ==
  {r \in {"close", "error", "read", "write"} :
     CASE r = "close" -> Hup(c) /\ ~ReadReady(c)
       [] r = "error" -> c \in soError
       [] r = "read"  -> ReadReady(c)
       [] r = "write" -> w /\ "write" \in events[c]}

\* What the poller of loop l reports, given the channels that are writable.
Reported(l, writable) ==
  {c \in Conns : /\ loopOf[c] = l
                 /\ registered[c] = "in"
                 /\ events[c] # {} \/ HupUnasked
                 /\ Callbacks(c, c \in writable) # {}}

\* poll() returns on loop l; other is what else is ready there.  A poll() after
\* which there is nothing to do changes nothing and is left out.
Poll(l, other) ==
  /\ phase[l] = "poll"
  /\ \E writable \in SUBSET {c \in Conns : loopOf[c] = l /\ "write" \in events[c]} :
       LET ready == Reported(l, writable)
       IN  /\ ready \cup other # {} \/ pending[l] # <<>>
           /\ active' = [active EXCEPT ![l] = ready \cup other]
           /\ revents' = [c \in Conns |-> IF c \in ready THEN Callbacks(c, c \in writable)
                                          ELSE revents[c]]
  /\ phase' = [phase EXCEPT ![l] = "events"]
  /\ UNCHANGED <<current, user, batch, next, pending, loopOf, state, events,
                 registered, outputBuffer, cbVars, sockVars, userVars, failed>>

\* The loop l is between two callbacks.
Between(l) == phase[l] = "events" /\ current[l] = NoConn /\ user[l] = NoConn

\* handleEvent() of the next active channel begins.
Dispatch(l, c) ==
  /\ Between(l)
  /\ c \in active[l]
  /\ active' = [active EXCEPT ![l] = @ \ {c}]
  /\ current' = [current EXCEPT ![l] = c]
  /\ UNCHANGED <<phase, user, batch, next, pending, connVars, cbVars, sockVars,
                 userVars, failed>>

\* The callbacks are called in the order close, error, read, write.
Order == [close |-> 1, error |-> 2, read |-> 3, write |-> 4]

Calling(l, c, r) ==
  /\ current[l] = c /\ user[l] = NoConn
  /\ r \in revents[c]
  /\ \A q \in revents[c] : Order[r] <= Order[q]
  /\ revents' = [revents EXCEPT ![c] = @ \ {r}]

\* handleEvent() returns.
EventHandled(l) ==
  /\ current[l] # NoConn /\ user[l] = NoConn
  /\ revents[current[l]] = {}
  /\ current' = [current EXCEPT ![l] = NoConn]
  /\ UNCHANGED <<phase, active, user, batch, next, pending, connVars, cbVars,
                 sockVars, userVars, failed>>

------------------------------------------------------------------------------
(* Channel::update(): a channel that was removed cannot be updated.        *)

Update(c, ev) ==
  /\ events' = [events EXCEPT ![c] = ev]
  /\ IF registered[c] = "out"
       THEN failed' = "updateChannel" /\ UNCHANGED registered
       ELSE registered' = [registered EXCEPT ![c] = "in"] /\ UNCHANGED failed

------------------------------------------------------------------------------
(* Handlers of the connection, on its loop.                                *)

\* handleClose() up to closeCallback_; the channel is registered, the poller
\* has just reported it.
CloseConnection(c) ==
  /\ state' = [state EXCEPT ![c] = "kDisconnected"]
  /\ events' = [events EXCEPT ![c] = {}]
  /\ UNCHANGED <<loopOf, registered, outputBuffer>>

\* handleRead() when there are bytes: messageCallback_.
HandleMessage(l, c) ==
  /\ Calling(l, c, "read")
  /\ c \in inbox
  /\ inbox' = inbox \ {c}
  /\ user' = [user EXCEPT ![l] = c]
  /\ UNCHANGED <<phase, active, current, batch, next, pending, loopOf, state,
                 events, registered, outputBuffer, cbVars, peer, soError,
                 wrShut, wire, userVars, failed>>

\* handleRead() when readv() fails: savedErrno is ignored.
HandleReadError(l, c) ==
  /\ Calling(l, c, "read")
  /\ c \notin inbox /\ c \in soError
  /\ soError' = soError \ {c}
  /\ UNCHANGED <<loopVars, loopOf, state, events, registered, outputBuffer,
                 cbVars, peer, inbox, wrShut, wire, userVars, failed>>

\* The two ways into handleClose(): closeCallback of the channel, and
\* handleRead() at the end of the stream.
ClosesNow(l, c) ==
  \/ Calling(l, c, "close")
  \/ Calling(l, c, "read") /\ c \notin inbox /\ c \notin soError

\* handleError() reads, and so clears, SO_ERROR.
HandleError(l, c) ==
  /\ Calling(l, c, "error")
  /\ soError' = soError \ {c}
  /\ UNCHANGED <<loopVars, loopOf, state, events, registered, outputBuffer,
                 cbVars, peer, inbox, wrShut, wire, userVars, failed>>

\* The whole output was written: writeCompleteCallback_ is queued.
QueueWriteComplete(c, done) ==
  IF done /\ WriteComplete THEN Queue(loopOf[c], Functor("writeComplete", c))
                           ELSE UNCHANGED pending

\* Writing n bytes empties the output buffer.
Empties(c, n) == n = Len(outputBuffer[c])

\* handleWrite(): when the buffer is empty and shutdown() was called before,
\* it is called again, and does nothing: it wants kConnected.
HandleWrite(l, c) ==
  /\ Calling(l, c, "write")
  /\ IF "write" \notin events[c]
       THEN UNCHANGED <<events, registered, failed, outputBuffer, wire, soError, pending>>
     ELSE IF WriteFails(c)
       THEN /\ soError' = soError \ {c}
            /\ UNCHANGED <<events, registered, failed, outputBuffer, wire, pending>>
     ELSE \E n \in 1..Len(outputBuffer[c]) :
            /\ wire' = [wire EXCEPT ![c] = @ \o SubSeq(outputBuffer[c], 1, n)]
            /\ outputBuffer' = [outputBuffer EXCEPT ![c] = SubSeq(@, n + 1, Len(@))]
            /\ IF Empties(c, n)
                 THEN Update(c, events[c] \ {"write"})
                 ELSE UNCHANGED <<events, registered, failed>>
            /\ QueueWriteComplete(c, Empties(c, n))
            /\ UNCHANGED soError
  /\ UNCHANGED <<phase, active, current, user, batch, next, loopOf, state, cbVars, peer, inbox, wrShut, userVars>>

\* May sendInLoop() write to the socket itself?
WritesDirectly(c) == "write" \notin events[c] /\ outputBuffer[c] = <<>>

\* sendInLoop(data): write what the socket takes, keep the rest and ask for
\* POLLOUT.
SendInLoop(c, data) ==
  /\ \E n \in 0..Len(data) :
       /\ n > 0 => WritesDirectly(c) /\ ~WriteFails(c)
       /\ QueueWriteComplete(c, n = Len(data))
       /\ wire' = [wire EXCEPT ![c] = @ \o SubSeq(data, 1, n)]
       /\ outputBuffer' = [outputBuffer EXCEPT ![c] = @ \o SubSeq(data, n + 1, Len(data))]
       /\ IF n < Len(data) /\ "write" \notin events[c]
            THEN Update(c, events[c] \cup {"write"})
            ELSE UNCHANGED <<events, registered, failed>>
  /\ soError' = IF WritesDirectly(c) /\ WriteFails(c) THEN soError \ {c} ELSE soError

\* The test of state_ in shutdown().
MayShutdown(c) == state[c] = "kConnected"

\* shutdownInLoop().
ShutdownInLoop(c) ==
  wrShut' = IF "write" \in events[c] THEN wrShut ELSE wrShut \cup {c}

\* connectionEstablished(), and the user keeps a pointer when it has threads.
ConnectionEstablished(l, c) ==
  /\ state' = [state EXCEPT ![c] = "kConnected"]
  /\ events' = [events EXCEPT ![c] = @ \cup {"read"}]
  /\ registered' = [registered EXCEPT ![c] = "in"]
  /\ upped' = upped \cup {c}
  /\ user' = [user EXCEPT ![l] = c]
  /\ held' = IF Senders # {} THEN held \cup {c} ELSE held

\* connectionDestroyed(): the assertions of removeChannel() want a channel
\* that is registered and asks for nothing.
ConnectionDestroyed(c) ==
  /\ IF state[c] = "kConnecting"
       THEN /\ state' = [state EXCEPT ![c] = "kDisconnected"]
            /\ events' = [events EXCEPT ![c] = {}]
            /\ downed' = downed \cup {c}
       ELSE UNCHANGED <<state, events, downed>>
  /\ IF registered[c] = "in" /\ events'[c] = {}
       THEN registered' = [registered EXCEPT ![c] = "out"] /\ UNCHANGED failed
       ELSE failed' = "removeChannel" /\ UNCHANGED registered
==============================================================================
