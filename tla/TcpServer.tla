------------------------------ MODULE TcpServer ------------------------------
(***************************************************************************)
(* summer::net::TcpServer (src/net/TcpServer.{h,cc}) with its Acceptor and *)
(* its EventLoopThreadPool: the base loop accepts connections and owns the *)
(* map of them; each connection lives on one io loop of the pool, or on    *)
(* the base loop when the pool is empty.  Connections are module           *)
(* TcpConnection.                                                          *)
(*                                                                         *)
(* A connection is destroyed with its last shared_ptr.  The functors       *)
(* sendInLoop and shutdownInLoop hold a plain this pointer.                *)
(***************************************************************************)
EXTENDS TcpConnection

CONSTANTS Base,        \* the loop of the acceptor
          IoLoops      \* the loops of the pool, in order

ASSUME PoolAssumption == Base \in Loops /\ IoLoops \in Seq(Loops)

VARIABLES connections,   \* connections_: the connections in the map
          nextLoop       \* next_ of the pool, counted from one

serverVars == <<connections, nextLoop>>
vars == <<tcpVars, serverVars>>

TypeOK == /\ TcpTypeOK
          /\ connections \subseteq Conns
          /\ nextLoop \in DOMAIN IoLoops \cup {1}

Init == TcpInit /\ connections = {} /\ nextLoop = 1

\* Functors bound to a TcpConnectionPtr.
Owning == {"established", "destroyed", "remove", "writeComplete"}

\* The TcpConnection object exists: something holds a shared_ptr to it.
Alive(c) ==
  \/ c \in connections \cup held
  \/ \E l \in Loops : \/ user[l] = c
                      \/ \E i \in DOMAIN pending[l] :
                           pending[l][i].conn = c /\ pending[l][i].op \in Owning
                      \/ \E i \in DOMAIN batch[l] :
                           batch[l][i].conn = c /\ batch[l][i].op \in Owning

------------------------------------------------------------------------------
(* Accepting.                                                              *)

\* Connections waiting in the backlog of the listening socket.
Backlog == {c \in Conns : peer[c] # "absent" /\ loopOf[c] = NoLoop}

PollLoop(l) == Poll(l, IF l = Base /\ Backlog # {} THEN {Listener} ELSE {})
               /\ UNCHANGED serverVars

\* getNextLoop()
NextLoop == IF IoLoops = <<>> THEN Base ELSE IoLoops[nextLoop]

\* Faulty form: next_ is not wrapped.
NextUnwrapped == nextLoop + 1

\* next_ after a call of getNextLoop().
NextIndex == IF nextLoop >= Len(IoLoops) THEN 1 ELSE nextLoop + 1

\* Acceptor::handleRead() accepts one connection; newConnection() makes the
\* object, hands it to its loop and puts it in the map.
Accept(c) ==
  /\ Between(Base)
  /\ Listener \in active[Base]
  /\ c \in Backlog
  /\ active' = [active EXCEPT ![Base] = @ \ {Listener}]
  /\ loopOf' = [loopOf EXCEPT ![c] = NextLoop]
  /\ nextLoop' = NextIndex
  /\ connections' = connections \cup {c}
  /\ IF NextLoop = Base
       THEN ConnectionEstablished(Base, c) /\ UNCHANGED pending
       ELSE /\ Queue(NextLoop, Functor("established", c))
            /\ state' = [state EXCEPT ![c] = "kConnecting"]
            /\ UNCHANGED <<events, registered, upped, user, held>>
  /\ UNCHANGED <<phase, current, batch, next, revents, outputBuffer, downed,
                 sockVars, call, sends, failed>>

------------------------------------------------------------------------------
(* Removing.                                                               *)

\* removeConnectionInLoop(): assert(n == 1) on what erase() returns, then
\* connectionDestroyed is queued (and not signalled) to the connection's loop.
RemoveConnectionInLoop(c, queues) ==
  /\ connections' = connections \ {c}
  /\ failed' = IF c \in connections THEN failed ELSE "erase"
  /\ pending' = [queues EXCEPT ![loopOf[c]] = Append(@, Functor("destroyed", c))]

\* closeCallback_ is removeConnection(): the base loop removes the connection
\* at once, an io loop has the base loop do it.
RemoveConnection(l, c) ==
  IF l = Base THEN RemoveConnectionInLoop(c, pending)
              ELSE Queue(Base, Functor("remove", c)) /\ UNCHANGED <<connections, failed>>

\* handleClose().
HandleClose(l, c) ==
  /\ ClosesNow(l, c)
  /\ CloseConnection(c)
  /\ RemoveConnection(l, c)
  /\ UNCHANGED <<phase, active, current, user, batch, next, cbVars, sockVars,
                 userVars, nextLoop>>

------------------------------------------------------------------------------
(* doPendingFunctor().                                                     *)

SwapFunctors(l) ==
  /\ Between(l)
  /\ active[l] = {}
  /\ phase' = [phase EXCEPT ![l] = "functors"]
  /\ batch' = [batch EXCEPT ![l] = pending[l]]
  /\ pending' = [pending EXCEPT ![l] = <<>>]
  /\ UNCHANGED <<active, current, user, next, connVars, cbVars, sockVars,
                 userVars, failed, serverVars>>

\* The functor of loop l whose turn it is, on connection c.
Runs(l, op, c) ==
  /\ phase[l] = "functors" /\ user[l] = NoConn
  /\ next[l] \in DOMAIN batch[l]
  /\ batch[l][next[l]].op = op /\ batch[l][next[l]].conn = c
  /\ next' = [next EXCEPT ![l] = @ + 1]

\* assert(state_ == kConnecting)
RunEstablished(l, c) ==
  /\ Runs(l, "established", c)
  /\ ConnectionEstablished(l, c)
  /\ failed' = IF state[c] = "kConnecting" THEN failed ELSE "established"
  /\ UNCHANGED <<phase, active, current, batch, pending, loopOf, revents,
                 outputBuffer, downed, sockVars, call, sends, serverVars>>

RunDestroyed(l, c) ==
  /\ Runs(l, "destroyed", c)
  /\ ConnectionDestroyed(c)
  /\ UNCHANGED <<phase, active, current, user, batch, pending, loopOf, revents,
                 outputBuffer, upped, sockVars, userVars, serverVars>>

RunRemove(l, c) ==
  /\ Runs(l, "remove", c)
  /\ RemoveConnectionInLoop(c, pending)
  /\ UNCHANGED <<phase, active, current, user, batch, connVars, cbVars, sockVars,
                 userVars, nextLoop>>

\* writeCompleteCallback_(conn)
RunWriteComplete(l, c) ==
  /\ Runs(l, "writeComplete", c)
  /\ user' = [user EXCEPT ![l] = c]
  /\ UNCHANGED <<phase, active, current, batch, pending, connVars, cbVars,
                 sockVars, userVars, failed, serverVars>>

RunSend(l, c) ==
  /\ Runs(l, "send", c)
  /\ IF Alive(c)
       THEN SendInLoop(c, batch[l][next[l]].data)
       ELSE /\ failed' = "use after free"
            /\ UNCHANGED <<pending, events, registered, outputBuffer, wire, soError>>
  /\ UNCHANGED <<phase, active, current, user, batch, loopOf, state, revents,
                 cbVars, peer, inbox, wrShut, userVars, serverVars>>

RunShutdown(l, c) ==
  /\ Runs(l, "shutdown", c)
  /\ IF Alive(c)
       THEN ShutdownInLoop(c) /\ UNCHANGED failed
       ELSE failed' = "use after free" /\ UNCHANGED wrShut
  /\ UNCHANGED <<phase, active, current, user, batch, pending, connVars, cbVars,
                 peer, inbox, soError, wire, userVars, serverVars>>

\* The batch is done; its functors, and what they hold, are destroyed.
FunctorsDone(l) ==
  /\ phase[l] = "functors" /\ user[l] = NoConn
  /\ next[l] > Len(batch[l])
  /\ phase' = [phase EXCEPT ![l] = "poll"]
  /\ batch' = [batch EXCEPT ![l] = <<>>]
  /\ next' = [next EXCEPT ![l] = 1]
  /\ UNCHANGED <<active, current, user, pending, connVars, cbVars, sockVars,
                 userVars, failed, serverVars>>

------------------------------------------------------------------------------
(* User code: callbacks on the loops, calls from other threads.            *)

Message(s) == [i \in 1..MsgLen |-> <<s, sends[s] + 1, i>>]

\* send() in a callback of its connection.  (l = loopOf[c] there.)
LoopSend(l) ==
  LET c == user[l]
  IN  /\ c # NoConn
      /\ sends[l] < MaxSends
      /\ state[c] = "kConnected"
      /\ sends' = [sends EXCEPT ![l] = @ + 1]
      /\ SendInLoop(c, Message(l))
      /\ UNCHANGED <<phase, active, current, user, batch, next, loopOf, state,
                     revents, cbVars, peer, inbox, wrShut, held, call, serverVars>>

\* shutdown() in a callback of its connection.
LoopShutdown(l) ==
  LET c == user[l]
  IN  /\ c # NoConn
      /\ MayShutdown(c)
      /\ state' = [state EXCEPT ![c] = "kDisconnecting"]
      /\ ShutdownInLoop(c)
      /\ UNCHANGED <<loopVars, loopOf, events, registered, revents, outputBuffer,
                     cbVars, peer, inbox, soError, wire, userVars, failed,
                     serverVars>>

CallbackReturn(l) ==
  /\ user[l] # NoConn
  /\ user' = [user EXCEPT ![l] = NoConn]
  /\ UNCHANGED <<phase, active, current, batch, next, pending, connVars, cbVars,
                 sockVars, userVars, failed, serverVars>>

\* A thread enters send() or shutdown() and reads state_.
CallBegins(s, op, c) ==
  /\ call[s] = Idle
  /\ c \in held
  /\ IF op = "send" THEN state[c] = "kConnected" ELSE MayShutdown(c)
  /\ op = "send" => sends[s] < MaxSends
  /\ call' = [call EXCEPT ![s] = [op |-> op, conn |-> c]]
  /\ UNCHANGED <<loopVars, connVars, cbVars, sockVars, held, sends, failed,
                 serverVars>>

\* send(): runInLoop(sendInLoop) with a plain this.
SendQueues(s) ==
  LET c == call[s].conn
  IN  /\ call[s].op = "send"
      /\ Queue(loopOf[c], [op |-> "send", conn |-> c, data |-> Message(s)])
      /\ sends' = [sends EXCEPT ![s] = @ + 1]
      /\ call' = [call EXCEPT ![s] = Idle]
      /\ UNCHANGED <<phase, active, current, user, batch, next, connVars, cbVars,
                     sockVars, held, failed, serverVars>>

\* shutdown(): setState(kDisconnecting), then runInLoop(shutdownInLoop).
ShutdownSets(s) ==
  /\ call[s].op = "shutdown"
  /\ state' = [state EXCEPT ![call[s].conn] = "kDisconnecting"]
  /\ call' = [call EXCEPT ![s].op = "shutdownSet"]
  /\ UNCHANGED <<loopVars, loopOf, events, registered, revents, outputBuffer,
                 cbVars, sockVars, held, sends, failed, serverVars>>

ShutdownQueues(s) ==
  /\ call[s].op = "shutdownSet"
  /\ Queue(loopOf[call[s].conn], Functor("shutdown", call[s].conn))
  /\ call' = [call EXCEPT ![s] = Idle]
  /\ UNCHANGED <<phase, active, current, user, batch, next, connVars, cbVars,
                 sockVars, held, sends, failed, serverVars>>

\* The user lets go of its pointer.
Release(c) ==
  /\ c \in held
  /\ \A s \in Senders : call[s].conn # c
  /\ held' = held \ {c}
  /\ UNCHANGED <<loopVars, connVars, cbVars, sockVars, call, sends, failed,
                 serverVars>>

------------------------------------------------------------------------------

EventStep(l) ==
  \/ \E c \in Conns : /\ \/ Dispatch(l, c)
                         \/ HandleMessage(l, c)
                         \/ HandleReadError(l, c)
                         \/ HandleError(l, c)
                         \/ HandleWrite(l, c)
                      /\ UNCHANGED serverVars
  \/ EventHandled(l) /\ UNCHANGED serverVars
  \/ \E c \in Conns : HandleClose(l, c)

FunctorStep(l) ==
  \/ \E c \in Conns : \/ RunEstablished(l, c)
                      \/ RunDestroyed(l, c)
                      \/ RunRemove(l, c)
                      \/ RunWriteComplete(l, c)
                      \/ RunSend(l, c)
                      \/ RunShutdown(l, c)
  \/ FunctorsDone(l)

LoopStep(l) == \/ PollLoop(l)
               \/ EventStep(l)
               \/ SwapFunctors(l)
               \/ FunctorStep(l)
               \/ CallbackReturn(l)

UserStep == \/ \E l \in Loops : LoopSend(l) \/ LoopShutdown(l)
            \/ \E s \in Senders : \/ \E c \in Conns, op \in {"send", "shutdown"} :
                                       CallBegins(s, op, c)
                                  \/ SendQueues(s)
                                  \/ ShutdownSets(s)
                                  \/ ShutdownQueues(s)
            \/ \E c \in Conns : Release(c)

PeerStep == \E c \in Conns : /\ \/ PeerConnect(c)
                              \/ PeerSend(c)
                              \/ PeerClose(c)
                              \/ PeerReset(c)
                           /\ UNCHANGED serverVars

\* An assertion that fails ends the process.
Running == failed = "none"

\* The end of a behaviour: the process died, or all connections came and went.
Finished == /\ ~Running \/ \A c \in Conns : registered[c] = "out" /\ ~Alive(c)
            /\ UNCHANGED vars

Next == \/ /\ Running
           /\ \/ \E l \in Loops : LoopStep(l)
              \/ \E c \in Conns : Accept(c)
              \/ UserStep
              \/ PeerStep
        \/ Finished

Spec == Init /\ [][Next]_vars

\* Each loop is scheduled and its callbacks return.
FairSpec == /\ Spec
            /\ \A l \in Loops : WF_vars(Running /\ LoopStep(l))
            /\ WF_vars(Running /\ \E c \in Conns : Accept(c))

------------------------------------------------------------------------------
(* Properties.                                                             *)

\* No assertion of TcpConnection, TcpServer or the poller fails.
AssertionsHold == failed = "none"

\* removeConnectionInLoop(): assert(n == 1).
EraseFindsConnection == failed # "erase"

\* Hazard: the poller keeps a plain pointer to the channel, which dies with
\* its connection.  A registered channel has a connection that is alive.
NoDanglingChannel == \A c \in Conns : registered[c] = "in" => Alive(c)

\* Hazard: the server forgets a connection that still reads, or keeps one
\* that was closed.  Leaving the map and being closed go together, except for
\* the time the base loop has not heard of it.
MapHoldsTheOpen ==
  \A c \in Conns :
     loopOf[c] # NoLoop =>
       \/ c \in connections /\ state[c] # "kDisconnected"
       \/ c \notin connections /\ state[c] = "kDisconnected" /\ events[c] = {}
       \/ /\ c \in connections /\ state[c] = "kDisconnected"
          /\ \/ \E i \in DOMAIN pending[Base] : pending[Base][i] = Functor("remove", c)
             \/ \E i \in DOMAIN batch[Base] :
                  i >= next[Base] /\ batch[Base][i] = Functor("remove", c)

\* What the peer will have received: written, then buffered.
Stream(c) == wire[c] \o outputBuffer[c]

\* Hazard: direct writes overtake buffered bytes, or partial writes lose or
\* repeat some.  The stream consists of whole messages, and those of one
\* sender are in the order in which it sent them.
StreamIntact ==
  \A c \in Conns :
    /\ \A i, j \in DOMAIN Stream(c) :
         i < j /\ Stream(c)[i][1] = Stream(c)[j][1] =>
           \/ Stream(c)[i][2] < Stream(c)[j][2]
           \/ Stream(c)[i][2] = Stream(c)[j][2] /\ Stream(c)[i][3] < Stream(c)[j][3]
    /\ \A i \in DOMAIN Stream(c) :
         Stream(c)[i][3] < MsgLen =>
           i + 1 \in DOMAIN Stream(c)
           /\ Stream(c)[i + 1] = [Stream(c)[i] EXCEPT ![3] = @ + 1]

\* Hazard: a partial write, or a shutdown() while output waits.  Bytes that wait
\* are bytes that POLLOUT was asked for, and the write side is still open for
\* them.
PendingOutputIsWatched ==
  \A c \in Conns :
     outputBuffer[c] # <<>> =>
       /\ state[c] \in {"kConnected", "kDisconnecting"} => "write" \in events[c]
       /\ c \notin wrShut

\* Hazard: connectionDestroyed reaches the connection's loop through a queue
\* that is not signalled, after a hop through the base loop.  In the end every
\* connection whose peer went away is removed from the server and freed: from
\* then on none is left.  (A peer that is gone and a connection that is freed
\* stay so.)
ClosedConnectionsAreFreed ==
  <>[](\A c \in Conns : Eof(c) /\ loopOf[c] # NoLoop => ~Alive(c) \/ ~Running)

\* A connection that went up also goes down before it is destroyed.
UpThenDown == \A c \in Conns : registered[c] = "out" => (c \in upped <=> c \in downed)
==============================================================================
