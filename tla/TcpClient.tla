------------------------------ MODULE TcpClient ------------------------------
(***************************************************************************)
(* summer::net::TcpClient (src/net/TcpClient.{h,cc}) with its Connector,   *)
(* on one loop, used by threads that call connect() and disconnect().      *)
(*                                                                         *)
(* Of a connection the module has what the client decides about: its life, *)
(* from newConnection() to connectionDestroyed(), and shutdown(); the data *)
(* are in module TcpConnection.  A connection object is named by its       *)
(* socket.  Between two of its calls the loop may run other callbacks, and *)
(* the user may call the client there.                                     *)
(***************************************************************************)
EXTENDS Connector

CONSTANTS Callers,       \* user threads other than the loop
          RetryEnabled,  \* retry_: was enableRetry() called?
          MaxCalls       \* bound: calls of connect()

ASSUME ClientAssumption == RetryEnabled \in BOOLEAN /\ MaxCalls \in Nat

VARIABLES
  \* The loop.
  phase,          \* "poll", "events" or "functors"
  active,         \* active channels not dispatched yet
  current,        \* the channel in handleEvent(), or Nothing
  toCall,         \* callbacks of that handleEvent() still to come
  batch,          \* the local vector of doPendingFunctor(), from i on
  dying,          \* connections held only by functors already called
  \* The client.
  connect,        \* connect_
  connection,     \* connection_, or NoFd
  connState,      \* state_ of each connection; "none": there is no object
  step,           \* where newConnection() or removeConnection() is
  caller,         \* thread -> where it is in disconnect(), and its connection
  calls           \* how often connect() was called

clientVars == <<connect, connection, connState, step, caller, calls>>
dispatchVars == <<phase, active, current, toCall, batch, dying>>
vars == <<connectorVars, sock, pending, failed, dispatchVars, clientVars>>

\* "refused" is the connector's channel when poll() saw an error on it.
Kinds    == {"connector", "refused", "connection", "timer"}
Channels == Kinds \X (Fds \cup {NoFd})
Nothing  == <<"none", NoFd>>
Timer    == <<"timer", NoFd>>
Away     == [at |-> "away", fd |-> NoFd]

TypeOK ==
  /\ ConnectorTypeOK
  /\ phase \in {"poll", "events", "functors"}
  /\ active \subseteq Channels
  /\ current \in Channels \cup {Nothing}
  /\ toCall \subseteq {"error", "write", "close"}
  /\ batch \in Seq(Functors)
  /\ dying \subseteq Fds
  /\ connect \in BOOLEAN
  /\ connection \in Fds \cup {NoFd}
  /\ connState \in [Fds -> {"none", "kConnecting", "kConnected",
                            "kDisconnecting", "kDisconnected"}]
  /\ step \in {"none", "establish", "remove"}
  /\ caller \in [Callers -> [at : {"away", "lock", "set", "queue"},
                             fd : Fds \cup {NoFd}]]
  /\ calls \in 0..MaxCalls

Init ==
  /\ ConnectorInit
  /\ phase = "poll" /\ active = {} /\ current = Nothing /\ toCall = {}
  /\ batch = <<>> /\ dying = {}
  /\ connect = TRUE
  /\ connection = NoFd
  /\ connState = [f \in Fds |-> "none"]
  /\ step = "none"
  /\ caller = [c \in Callers |-> Away]
  /\ calls = 0

Running == failed = "none"

\* mutex_ is held by a thread in disconnect().
Locked == \E c \in Callers : caller[c].at \in {"set", "queue"}

\* What newConnection() and removeConnection() wait for.
MutexFree == ~Locked

------------------------------------------------------------------------------
(* The loop.                                                               *)

Ready ==
  {ch \in {"connector", "refused"} \X Fds :
     /\ watched /\ channel = ch[2]
     /\ sock[channel] # "connecting"
     /\ ch[1] = "refused" <=> sock[channel] = "broken"}
  \cup {<<"connection", f>> : f \in {g \in Fds :
           connState[g] \in {"kConnected", "kDisconnecting"}
           /\ sock[g] \in {"peerClosed", "broken"}}}

\* poll() returns; a timer may have expired as well.
Poll ==
  /\ phase = "poll"
  /\ \E due \in SUBSET {Timer} :
       /\ due # {} => timers > 0
       /\ active' = Ready \cup due
       /\ active' # {} \/ pending # <<>>
  /\ phase' = "events"
  /\ UNCHANGED <<connectorVars, sock, pending, failed, current, toCall, batch,
                 dying, clientVars>>

Between == phase = "events" /\ current = Nothing

\* handleEvent() begins; poll() decided what it will call.
Callbacks == [connection |-> {"close"}, refused |-> {"error", "write"},
              connector |-> {"write"}]

Dispatch(ch) ==
  /\ Between
  /\ ch \in active \ {Timer}
  /\ active' = active \ {ch}
  /\ current' = ch
  /\ toCall' = Callbacks[ch[1]]
  /\ UNCHANGED <<connectorVars, sock, pending, failed, phase, batch, dying,
                 clientVars>>

\* The callback r of the channel on f is called; errors come before writes.
Calling(r, f) ==
  /\ current[2] = f /\ step = "none"
  /\ r \in toCall /\ (r = "write" => "error" \notin toCall)
  /\ toCall' = toCall \ {r}
  /\ UNCHANGED <<phase, active, current, batch, dying>>

EventHandled ==
  /\ current # Nothing /\ step = "none"
  /\ toCall = {}
  /\ current' = Nothing
  /\ UNCHANGED <<connectorVars, sock, pending, failed, phase, active, toCall,
                 batch, dying, clientVars>>

\* The timer of a retry.
TimerExpires ==
  /\ Between
  /\ Timer \in active
  /\ active' = active \ {Timer}
  /\ StartInLoop(state, retryDelayMs, timers - 1)
  /\ UNCHANGED <<pending, phase, current, toCall, batch, dying, clientVars>>

SwapFunctors ==
  /\ Between /\ active = {}
  /\ phase' = "functors"
  /\ batch' = pending
  /\ pending' = <<>>
  /\ UNCHANGED <<connectorVars, sock, failed, active, current, toCall, dying,
                 clientVars>>

Runs(op, f) ==
  /\ phase = "functors"
  /\ batch # <<>> /\ Head(batch) = <<op, f>>
  /\ batch' = Tail(batch)
  /\ UNCHANGED <<pending, phase, active, current, toCall>>

RunStart ==
  /\ Runs("start", NoFd)
  /\ StartInLoop(state, retryDelayMs, timers)
  /\ UNCHANGED <<dying, clientVars>>

RunReset ==
  /\ Runs("reset", NoFd)
  /\ ResetChannel
  /\ UNCHANGED <<dying, clientVars>>

\* shutdownInLoop(), through a plain this pointer; what it does to the socket
\* is seen by the peer only.
RunShutdown(f) ==
  /\ Runs("shutdown", f)
  /\ failed' = IF connState[f] = "none" THEN "freed" ELSE failed
  /\ UNCHANGED <<connectorVars, sock, dying, clientVars>>

\* connectionDestroyed(): the functor holds the last pointer.
RunDestroyed(f) ==
  /\ Runs("destroyed", f)
  /\ dying' = dying \cup {f}
  /\ UNCHANGED <<connectorVars, sock, failed, clientVars>>

\* The functors are destroyed, with the connections they hold: ~Socket closes.
FunctorsDone ==
  /\ phase = "functors" /\ batch = <<>>
  /\ phase' = "poll"
  /\ dying' = {}
  /\ connState' = [f \in Fds |-> IF f \in dying THEN "none" ELSE connState[f]]
  /\ sock' = [f \in Fds |-> IF f \in dying THEN "closed" ELSE sock[f]]
  /\ UNCHANGED <<connectorVars, pending, failed, active, current, toCall, batch,
                 connect, connection, step, caller, calls>>

------------------------------------------------------------------------------
(* The callbacks of the two channels.                                      *)

ConnectorError(f) ==
  /\ Calling("error", f)
  /\ HandleError(f)
  /\ UNCHANGED clientVars

ConnectorWrite(f) ==
  /\ Calling("write", f)
  /\ HandleWriteRetries(f) \/ HandleWriteLate(f)
  /\ UNCHANGED clientVars

\* handleWrite() calls newConnection(), here up to connection_ = conn.
NewConnection(f) ==
  /\ Calling("write", f)
  /\ HandleWriteConnects(f)
  /\ MutexFree
  /\ connection' = f
  /\ connState' = [connState EXCEPT ![f] = "kConnecting"]
  /\ step' = "establish"
  /\ UNCHANGED <<connect, caller, calls>>

\* The rest of it, connectionEstablished(), up to the user's callback.
Establish ==
  /\ step = "establish"
  /\ connState' = [connState EXCEPT ![connection] = "kConnected"]
  /\ step' = "none"
  /\ UNCHANGED <<connectorVars, sock, pending, failed, dispatchVars, connect,
                 connection, caller, calls>>

\* handleClose() of the connection up to closeCallback_.
HandleClose(f) ==
  /\ Calling("close", f)
  /\ connState' = [connState EXCEPT ![f] = "kDisconnected"]
  /\ step' = "remove"
  /\ UNCHANGED <<connectorVars, sock, pending, failed, connect, connection,
                 caller, calls>>

\* removeConnection(): assert(connection_ == conn) and reset() under the mutex;
\* connectionDestroyed is queued; the connector may start again.
RemoveConnection ==
  /\ step = "remove"
  /\ MutexFree
  /\ connection' = NoFd
  /\ pending' = Append(pending, <<"destroyed", current[2]>>)
  /\ step' = "none"
  /\ IF connection # current[2]
       THEN failed' = "removeConnection" /\ UNCHANGED <<connectorVars, sock>>
     ELSE IF RetryEnabled /\ connect
       THEN Restart
       ELSE UNCHANGED <<connectorVars, sock, failed>>
  /\ UNCHANGED <<dispatchVars, connect, connState, caller, calls>>

------------------------------------------------------------------------------
(* The users.                                                              *)

\* What keeps the client busy: calls and timers of startInLoop() to come, an
\* attempt in progress, a connection.
Starts(queue) == {i \in DOMAIN queue : queue[i][1] = "start"}
Attempts == timers + Cardinality(Starts(pending)) + Cardinality(Starts(batch))
            + (IF state = "kConnecting" THEN 1 ELSE 0)
            + (IF connection # NoFd THEN 1 ELSE 0)

\* connect() is called once, and again after an attempt failed for good.
MayConnect == calls < MaxCalls /\ Attempts = 0 /\ state = "kDisConnected"

\* User code on the loop: before loop(), in a callback of this client or of
\* another channel, in a functor.
LoopUser ==
  \/ phase \in {"poll", "functors"}
  \/ Between
  \/ current[2] = connection /\ step = "none" /\ toCall = {}

\* connect() on the loop: runInLoop() calls startInLoop() at once.
LoopConnect ==
  /\ LoopUser /\ MayConnect
  /\ calls' = calls + 1
  /\ connect' = TRUE
  /\ StartInLoop(state, retryDelayMs, timers)
  /\ UNCHANGED <<pending, dispatchVars, connection, connState, step, caller>>

\* disconnect() on the loop: shutdownInLoop() is called at once.
LoopDisconnect ==
  /\ LoopUser
  /\ MutexFree
  /\ connect' = FALSE
  /\ connState' = [f \in Fds |-> IF f = connection /\ connState[f] = "kConnected"
                                   THEN "kDisconnecting" ELSE connState[f]]
  /\ UNCHANGED <<connectorVars, sock, pending, failed, dispatchVars, connection,
                 step, caller, calls>>

\* connect() on another thread.
Connect(c) ==
  /\ caller[c] = Away
  /\ MayConnect
  /\ calls' = calls + 1
  /\ connect' = TRUE
  /\ pending' = Append(pending, <<"start", NoFd>>)
  /\ UNCHANGED <<connectorVars, sock, failed, dispatchVars, connection,
                 connState, step, caller>>

\* disconnect() on another thread, in four steps: connect_ = false;
Disconnect(c) ==
  /\ caller[c] = Away
  /\ connect' = FALSE
  /\ caller' = [caller EXCEPT ![c].at = "lock"]
  /\ UNCHANGED <<connectorVars, sock, pending, failed, dispatchVars, connection,
                 connState, step, calls>>

\* lock mutex_, and find a connection that is kConnected, or return;
DisconnectLocks(c) ==
  /\ caller[c].at = "lock"
  /\ ~Locked
  /\ caller' = [caller EXCEPT ![c] =
                  IF connection # NoFd /\ connState[connection] = "kConnected"
                    THEN [at |-> "set", fd |-> connection] ELSE Away]
  /\ UNCHANGED <<connectorVars, sock, pending, failed, dispatchVars, connect,
                 connection, connState, step, calls>>

\* setState(kDisconnecting);
DisconnectSets(c) ==
  /\ caller[c].at = "set"
  /\ connState' = [connState EXCEPT ![caller[c].fd] = "kDisconnecting"]
  /\ caller' = [caller EXCEPT ![c].at = "queue"]
  /\ failed' = IF connState[caller[c].fd] = "none" THEN "freed" ELSE failed
  /\ UNCHANGED <<connectorVars, sock, pending, dispatchVars, connect, connection,
                 step, calls>>

\* runInLoop(shutdownInLoop), and unlock.
DisconnectQueues(c) ==
  /\ caller[c].at = "queue"
  /\ pending' = Append(pending, <<"shutdown", caller[c].fd>>)
  /\ caller' = [caller EXCEPT ![c] = Away]
  /\ UNCHANGED <<connectorVars, sock, failed, dispatchVars, connect, connection,
                 connState, step, calls>>

------------------------------------------------------------------------------

LoopStep ==
  \/ Poll
  \/ \E ch \in Channels : Dispatch(ch)
  \/ EventHandled
  \/ TimerExpires
  \/ SwapFunctors
  \/ RunStart
  \/ RunReset
  \/ FunctorsDone
  \/ Establish
  \/ RemoveConnection
  \/ \E f \in Fds : \/ RunShutdown(f)
                    \/ RunDestroyed(f)
                    \/ ConnectorError(f)
                    \/ ConnectorWrite(f)
                    \/ NewConnection(f)
                    \/ HandleClose(f)

InDisconnect(c) == DisconnectLocks(c) \/ DisconnectSets(c) \/ DisconnectQueues(c)

UserStep == \/ LoopConnect
            \/ LoopDisconnect
            \/ \E c \in Callers : Connect(c) \/ Disconnect(c) \/ InDisconnect(c)

NetworkStep == /\ \E f \in Fds : ConnectDone(f) \/ PeerEnds(f)
               /\ UNCHANGED <<connectorVars, pending, failed, dispatchVars,
                              clientVars>>

\* The end of a behaviour: the process died, or the client has nothing to do.
Finished == /\ \/ ~Running
               \/ /\ Attempts = 0 /\ calls > 0 /\ phase = "poll" /\ pending = <<>>
                  /\ \A c \in Callers : caller[c] = Away
            /\ UNCHANGED vars

Next == \/ Running /\ (LoopStep \/ UserStep \/ NetworkStep)
        \/ Finished

Spec == Init /\ [][Next]_vars

\* The loop and the threads inside disconnect() are scheduled, timers expire,
\* and the kernel answers every connect().
FairSpec ==
  /\ Spec
  /\ WF_vars(Running /\ LoopStep)
  /\ \A c \in Callers : WF_vars(Running /\ InDisconnect(c))
  /\ \A f \in Fds : WF_vars(Running /\ ConnectDone(f)
                             /\ UNCHANGED <<connectorVars, pending, failed,
                                            dispatchVars, clientVars>>)

------------------------------------------------------------------------------
(* Properties.                                                             *)

\* No assertion of Connector or TcpClient fails, and shutdownInLoop() finds
\* the connection its plain pointer names.
AssertionsHold == failed = "none"

\* Hazard: retry timers, restart() and connect() start attempts independently
\* of each other.  There is never more than one attempt or connection, and a
\* client that is to keep trying is never without.
OneAttempt ==
  /\ Attempts <= 1
  /\ RetryEnabled /\ connect /\ calls > 0 /\ ~gaveUp => Attempts = 1

\* Hazard: a socket is closed by retry(), by ~Socket or by nobody.  An open
\* one belongs to the attempt in progress or to a connection, not to both.
SocketsAreOwned ==
  \A f \in Fds :
    sock[f] # "closed" <=>
      \/ state = "kConnecting" /\ channel = f /\ connState[f] = "none"
      \/ ~(state = "kConnecting" /\ channel = f) /\ connState[f] # "none"

\* Hazard: handleError() and handleWrite() are called by the channel that they
\* are about to give up.  It exists until its handleEvent() returns.
HandledChannelExists ==
  current[1] \in {"connector", "refused"} => channel = current[2]

\* A client that is to keep trying gets, over and over, to have a connection,
\* to wait for one, or to see its retry timer expire.
NeverGivesUp ==
  (calls > 0) ~> (gaveUp \/ ~connect \/ connection # NoFd
                  \/ state = "kConnecting" \/ Timer \in active)
==============================================================================
