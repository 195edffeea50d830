------------------------------ MODULE Connector ------------------------------
(***************************************************************************)
(* summer::net::Connector (src/net/Connector.{h,cc}): it makes a           *)
(* non-blocking connect() on its loop, waits for the socket to become      *)
(* writable, hands the socket over, and tries again later when it failed.  *)
(* The module has the state and the handlers; TcpClient, the only user of  *)
(* a Connector, composes them.                                             *)
(*                                                                         *)
(* A socket is its file descriptor, which the kernel reuses once closed.   *)
(* What connect() and the network answer is chosen freely.                 *)
(***************************************************************************)
EXTENDS Naturals, Sequences, FiniteSets

CONSTANTS Fds,          \* file descriptors
          NoFd,         \* none
          kInitRetryDelayMs,
          kMaxRetryDelayMs

ASSUME NoFdAssumption == NoFd \notin Fds
ASSUME DelayAssumption == /\ kInitRetryDelayMs \in Nat /\ kMaxRetryDelayMs \in Nat
                          /\ 0 < kInitRetryDelayMs
                          /\ kInitRetryDelayMs <= kMaxRetryDelayMs

VARIABLES
  state,          \* state_
  channel,        \* the socket of channel_, or NoFd when channel_ is null
  watched,        \* channel_ is registered with the poller
  retryDelayMs,   \* retryDelayMs_
  timers,         \* armed timers that will call startInLoop()
  gaveUp,         \* history: the last connect() failed for good, without a retry
  sock,           \* fd -> what the kernel knows of the socket
  pending,        \* pendingFunctors_ of the loop
  failed          \* the assertion that ended the process, or "none"

connectorVars == <<state, channel, watched, retryDelayMs, timers, gaveUp>>

Functors == {"start", "reset"} \X {NoFd} \cup {"shutdown", "destroyed"} \X Fds

ConnectorTypeOK ==
  /\ state \in {"kDisConnected", "kConnecting", "kConnected"}
  /\ channel \in Fds \cup {NoFd}
  /\ watched \in BOOLEAN
  /\ retryDelayMs \in kInitRetryDelayMs..kMaxRetryDelayMs
  /\ timers \in Nat
  /\ gaveUp \in BOOLEAN
  /\ sock \in [Fds -> {"closed", "connecting", "established", "self",
                       "peerClosed", "broken"}]
  /\ pending \in Seq(Functors)
  /\ failed \in {"none", "startInLoop", "connecting", "handleWrite",
                 "handleError", "removeConnection", "freed"}

ConnectorInit ==
  /\ state = "kDisConnected"
  /\ channel = NoFd /\ watched = FALSE
  /\ retryDelayMs = kInitRetryDelayMs
  /\ timers = 0
  /\ gaveUp = FALSE
  /\ sock = [f \in Fds |-> "closed"]
  /\ pending = <<>>
  /\ failed = "none"

------------------------------------------------------------------------------
(* The kernel and the network.                                             *)

\* The answer to a connect() in progress; "self" is a connection to itself.
ConnectDone(f) ==
  /\ sock[f] = "connecting"
  /\ \E answer \in {"established", "self", "broken"} :
       sock' = [sock EXCEPT ![f] = answer]

\* The peer closes or resets an established connection.
PeerEnds(f) ==
  /\ sock[f] \in {"established", "peerClosed"}
  /\ \E how \in {"peerClosed", "broken"} : sock' = [sock EXCEPT ![f] = how]

------------------------------------------------------------------------------
(* Faulty forms of operators below, for the mutants of PROJECT.json.       *)

\* The delay grows without std::min().
DoubledUnbounded(d) == d * 2

\* retry() leaves the socket open; retry() arms no timer.
CloseNothing(f) == sock' = sock
NotArmed(n) == n

\* The channel is destroyed while its handler runs.
ResetAtOnce == channel' = NoFd /\ pending' = pending

\* restart() does not set state_.
StateAtRestart == state

------------------------------------------------------------------------------
(* The operations, on the loop thread.                                     *)

Close(f) == sock' = [sock EXCEPT ![f] = "closed"]

\* std::min(retryDelayMs_*2, kMaxRetryDelayMs)
Doubled(d) == IF d * 2 < kMaxRetryDelayMs THEN d * 2 ELSE kMaxRetryDelayMs

\* runAfter(retryDelayMs_, startInLoop), when n timers are armed.
Armed(n) == n + 1

\* retry() after it closed the socket, with delay d and n timers armed.
TryLater(d, n) ==
  /\ state' = "kDisConnected"
  /\ timers' = Armed(n)
  /\ retryDelayMs' = Doubled(d)

Retry(f) == Close(f) /\ TryLater(retryDelayMs, timers)

\* connecting(): connect() is done at once, or EINPROGRESS.
Connecting(d, n) ==
  /\ \E f \in Fds, answer \in {"connecting", "established"} :
       /\ sock[f] = "closed"
       /\ sock' = [sock EXCEPT ![f] = answer]
       /\ channel' = f
  /\ state' = "kConnecting"
  /\ watched' = TRUE
  /\ failed' = IF channel = NoFd THEN failed ELSE "connecting"
  /\ timers' = n /\ retryDelayMs' = d
  /\ gaveUp' = FALSE

\* retry(): the new socket is closed again.
AnotherTry(d, n) ==
  /\ TryLater(d, n)
  /\ gaveUp' = FALSE
  /\ UNCHANGED <<channel, watched, sock, failed>>

\* EACCES and the like: the new socket is closed, and that is all.
GiveUp(d, n) ==
  /\ gaveUp' = TRUE
  /\ state' = "kDisConnected" /\ timers' = n /\ retryDelayMs' = d
  /\ UNCHANGED <<channel, watched, sock, failed>>

\* startInLoop() of a connector in state s with delay d, when n timers are
\* armed: assert(state_ == kDisConnected), a new socket, connect(), and one of
\* three answers.
StartInLoop(s, d, n) ==
  IF s # "kDisConnected"
    THEN failed' = "startInLoop" /\ UNCHANGED <<connectorVars, sock>>
    ELSE Connecting(d, n) \/ AnotherTry(d, n) \/ GiveUp(d, n)

\* The second half of removeAndResetChannel(): resetChannel() is queued.
QueueReset == pending' = Append(pending, <<"reset", NoFd>>) /\ UNCHANGED channel

\* handleError(), of the connector's channel on socket f.
HandleError(f) ==
  /\ failed' = IF state = "kConnecting" THEN failed ELSE "handleError"
  /\ watched' = FALSE
  /\ QueueReset
  /\ Retry(f)
  /\ UNCHANGED gaveUp

\* handleWrite() that retries, that finds nothing to do, or that has a
\* connection (and then calls newConnectionCallback_, see TcpClient).
HandleWriteRetries(f) ==
  /\ state = "kConnecting"
  /\ sock[f] = "self"
  /\ watched' = FALSE
  /\ QueueReset
  /\ Retry(f)
  /\ UNCHANGED <<gaveUp, failed>>

HandleWriteLate(f) ==
  /\ state # "kConnecting"
  /\ failed' = IF state = "kDisConnected" THEN failed ELSE "handleWrite"
  /\ UNCHANGED <<connectorVars, sock, pending>>

HandleWriteConnects(f) ==
  /\ state = "kConnecting"
  /\ sock[f] # "self"
  /\ watched' = FALSE
  /\ QueueReset
  /\ state' = "kConnected"
  /\ UNCHANGED <<retryDelayMs, timers, gaveUp, sock, failed>>

\* resetChannel().
ResetChannel ==
  /\ channel' = NoFd
  /\ UNCHANGED <<state, watched, retryDelayMs, timers, gaveUp, sock, failed>>

\* What restart() makes of state_ before it calls startInLoop().
RestartState == "kDisConnected"

Restart == StartInLoop(RestartState, kInitRetryDelayMs, timers)
==============================================================================
