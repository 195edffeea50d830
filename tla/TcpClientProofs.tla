--------------------------- MODULE TcpClientProofs ---------------------------
(***************************************************************************)
(* Proofs about TcpClient for any sockets, threads, delays and numbers of  *)
(* calls, with and without retries.                                        *)
(***************************************************************************)
EXTENDS TcpClient, FiniteSetTheorems, FunctionTheorems, SequenceTheorems, TLAPS

------------------------------------------------------------------------------
(* The functors of the loop.                                               *)

Start        == <<"start", NoFd>>
Reset        == <<"reset", NoFd>>
Shutdown(f)  == <<"shutdown", f>>
Destroyed(f) == <<"destroyed", f>>

\* x is in q; y is behind x in q; x is still to be called.
Has(q, x)       == \E i \in DOMAIN q : q[i] = x
Follows(q, x, y) == \E i, j \in DOMAIN q : i < j /\ q[i] = x /\ q[j] = y
Queued(x)       == Has(batch, x) \/ Has(pending, x)

\* How often startInLoop() is in q.
CountStarts(q) == Cardinality(Starts(q))

------------------------------------------------------------------------------
(* The inductive invariant.                                                *)

\* A loop that is not handling events has no active channel, and only one that
\* runs functors has some left.  poll() finds one thing at a time: an answer
\* to connect(), the end of the connection, or a retry that is due.
LoopInv ==
  /\ phase # "events" => active = {} /\ current = Nothing
  /\ phase # "functors" => batch = <<>> /\ dying = {}
  /\ current = Nothing => toCall = {} /\ step = "none"
  /\ active \subseteq {Timer} \cup {"connector", "refused", "connection"} \X Fds
  /\ current \in {Nothing} \cup {"connector", "refused", "connection"} \X Fds
  /\ current # Nothing => active = {}
  /\ \A x, y \in active : x = y

\* What is active and what is being handled is still as poll() saw it.
EventInv ==
  /\ Timer \in active => timers > 0 /\ ~Queued(Reset)
  /\ \A f \in Fds :
       /\ (<<"connector", f>> \in active \/ <<"refused", f>> \in active)
            => state = "kConnecting" /\ channel = f
       /\ <<"connection", f>> \in active => connection = f
  /\ current[1] \in {"connector", "refused"} =>
       /\ channel = current[2] /\ step # "remove"
       /\ toCall \subseteq {"error", "write"}
       /\ "error" \in toCall => state = "kConnecting"
       /\ "write" \in toCall => state # "kConnected"
  /\ current[1] = "connection" =>
       /\ step # "establish" /\ toCall \subseteq {"close"}
       /\ toCall # {} \/ step = "remove" => connection = current[2]
       /\ ~Has(pending, Reset)
  /\ step # "none" => toCall = {} /\ connection \in Fds

\* An attempt has a channel, and a channel without an attempt is about to be
\* reset; while it is, the next attempt has not begun and cannot.
ChannelInv ==
  /\ watched <=> state = "kConnecting"
  /\ state = "kConnecting" => channel \in Fds /\ ~Queued(Reset)
  /\ state # "kConnecting" /\ channel # NoFd => Queued(Reset)
  /\ Queued(Reset) => timers > 0 \/ connection # NoFd
  /\ Has(pending, Reset) => phase = "events" /\ active = {}

\* Whoever will call startInLoop() finds a connector that is not connected.
StartInv == timers > 0 \/ Queued(Start) => state = "kDisConnected"

\* A connection exists while the client has it, connectionDestroyed() is queued,
\* or its functor is not gone, which come one after the other.
LifeInv ==
  \A f \in Fds :
    /\ connState[f] # "none" <=> connection = f \/ Queued(Destroyed(f)) \/ f \in dying
    /\ connection = f => ~Queued(Destroyed(f)) /\ f \notin dying
    /\ f \in dying => ~Queued(Destroyed(f))
    /\ Has(pending, Destroyed(f)) => phase = "events"
    /\ ~Follows(batch, Destroyed(f), Destroyed(f))
    /\ ~Follows(pending, Destroyed(f), Destroyed(f))
    /\ state = "kConnecting" /\ channel = f => connState[f] = "none"

\* shutdownInLoop() is called before connectionDestroyed().
ShutdownInv ==
  \A f \in Fds :
    /\ Queued(Shutdown(f)) => connState[f] # "none"
    /\ f \in dying => ~Queued(Shutdown(f))
    /\ Has(batch, Destroyed(f)) => ~Has(pending, Shutdown(f))
    /\ ~Follows(batch, Destroyed(f), Shutdown(f))
    /\ ~Follows(pending, Destroyed(f), Shutdown(f))

\* A thread that holds the mutex in disconnect() has the present connection.
CallerInv ==
  \A c \in Callers : caller[c].at \in {"set", "queue"} =>
                       connection \in Fds /\ caller[c].fd = connection

ClientInv == /\ TypeOK /\ LoopInv /\ EventInv /\ ChannelInv /\ StartInv
             /\ LifeInv /\ ShutdownInv /\ CallerInv
             /\ AssertionsHold /\ OneAttempt /\ SocketsAreOwned

------------------------------------------------------------------------------
(* Functors behind and in front of a sequence.                             *)

\* How often startInLoop() is queued is a number.
LEMMA StartsFacts ==
  ASSUME NEW q \in Seq(Functors)
  PROVE  /\ IsFiniteSet(Starts(q))
         /\ CountStarts(q) \in Nat
         /\ CountStarts(q) = 0 <=> ~Has(q, Start)
<1>1. Len(q) \in Nat /\ DOMAIN q = 1..Len(q) /\ \A i \in 1..Len(q) : q[i] \in Functors
  BY LenProperties, ElementOfSeq
<1>2. IsFiniteSet(1..Len(q))
  BY <1>1, FS_Interval
<1>3. Starts(q) \in SUBSET (1..Len(q))
  BY <1>1 DEF Starts
<1>4. IsFiniteSet(Starts(q))
  BY <1>2, <1>3, FS_Subset
<1>5. Cardinality(Starts(q)) \in Nat /\ (Cardinality(Starts(q)) = 0 <=> Starts(q) = {})
  BY <1>4, FS_CardinalityType, FS_EmptySet
<1>6. \A i \in 1..Len(q) : q[i][1] = "start" <=> q[i] = Start
  BY <1>1 DEF Functors, Start
<1>7. Starts(q) = {} <=> ~Has(q, Start)
  BY <1>1, <1>6 DEF Starts, Has
<1>8. QED
  BY <1>4, <1>5, <1>7 DEF CountStarts

\* The empty queue.
LEMMA EmptyFacts ==
  /\ <<>> \in Seq(Functors)
  /\ \A x : ~Has(<<>>, x)
  /\ \A x, y : ~Follows(<<>>, x, y)
  /\ CountStarts(<<>>) = 0
<1>1. <<>> \in Seq(Functors) /\ DOMAIN <<>> = {}
  BY EmptySeq, LenProperties
<1>2. \A x : ~Has(<<>>, x)
  BY <1>1 DEF Has
<1>3. \A x, y : ~Follows(<<>>, x, y)
  BY <1>1 DEF Follows
<1>4. QED
  BY <1>1, <1>2, <1>3, StartsFacts

\* queueInLoop() puts a functor behind the others.
LEMMA AppendFacts ==
  ASSUME NEW q \in Seq(Functors), NEW x \in Functors
  PROVE  /\ Append(q, x) \in Seq(Functors)
         /\ \A y : Has(Append(q, x), y) <=> Has(q, y) \/ y = x
         /\ \A y, z : Follows(Append(q, x), y, z) <=>
                        Follows(q, y, z) \/ (Has(q, y) /\ z = x)
         /\ CountStarts(Append(q, x)) =
              IF x[1] = "start" THEN CountStarts(q) + 1 ELSE CountStarts(q)
<1> DEFINE r == Append(q, x)
<1>1. /\ r \in Seq(Functors)
      /\ Len(r) = Len(q) + 1
      /\ \A i \in 1..Len(q) : r[i] = q[i]
      /\ r[Len(q) + 1] = x
  BY AppendProperties
<1> HIDE DEF r
<1>2. /\ Len(q) \in Nat /\ DOMAIN q = 1..Len(q)
      /\ DOMAIN r = 1..Len(q) + 1
  BY <1>1, LenProperties
<1>3. \A y : Has(r, y) <=> Has(q, y) \/ y = x
  BY <1>1, <1>2 DEF Has
<1>4. \A y, z : Follows(r, y, z) <=> Follows(q, y, z) \/ (Has(q, y) /\ z = x)
  <2> TAKE y, z
  <2>1. ASSUME Follows(r, y, z)
        PROVE  Follows(q, y, z) \/ (Has(q, y) /\ z = x)
    <3>1. PICK i, j \in 1..Len(q) + 1 : i < j /\ r[i] = y /\ r[j] = z
      BY <1>2, <2>1 DEF Follows
    <3>2. i \in 1..Len(q) /\ q[i] = y
      BY <1>1, <1>2, <3>1
    <3>3. CASE j = Len(q) + 1
      BY <1>1, <3>1, <3>3 DEF Has
    <3>4. CASE j \in 1..Len(q)
      <4>1. i \in DOMAIN q /\ j \in DOMAIN q /\ i < j /\ q[i] = y /\ q[j] = z
        BY <1>1, <3>1, <3>4
      <4>2. QED
        BY <4>1 DEF Follows
    <3>5. QED
      BY <1>2, <3>1, <3>3, <3>4
  <2>2. ASSUME Follows(q, y, z)
        PROVE  Follows(r, y, z)
    BY <1>1, <1>2, <2>2 DEF Follows
  <2>3. ASSUME Has(q, y), z = x
        PROVE  Follows(r, y, z)
    <3>1. PICK i \in 1..Len(q) : q[i] = y
      BY <1>2, <2>3 DEF Has
    <3>2. i < Len(q) + 1 /\ i \in 1..Len(q) + 1 /\ Len(q) + 1 \in 1..Len(q) + 1
      BY <1>2
    <3>3. QED
      BY <1>1, <2>3, <3>1 DEF Follows
  <2>4. QED
    BY <2>1, <2>2, <2>3
<1>5. CountStarts(r) = IF x[1] = "start" THEN CountStarts(q) + 1 ELSE CountStarts(q)
  <2>1. Len(q) + 1 \notin Starts(q) /\ IsFiniteSet(Starts(q))
    <3>1. Len(q) + 1 \notin DOMAIN q
      BY <1>2
    <3>2. QED
      BY <3>1, StartsFacts DEF Starts
  <2>2. CASE x[1] = "start"
    <3>1. Starts(r) = Starts(q) \cup {Len(q) + 1}
      BY <1>1, <1>2, <2>2 DEF Starts
    <3>2. QED
      BY <2>1, <2>2, <3>1, FS_AddElement DEF CountStarts
  <2>3. CASE x[1] # "start"
    <3>1. Starts(r) = Starts(q)
      BY <1>1, <1>2, <2>3 DEF Starts
    <3>2. QED
      BY <2>3, <3>1 DEF CountStarts
  <2>4. QED
    BY <2>2, <2>3
<1>6. QED
  BY <1>3, <1>4, <1>5 DEF r

\* Calling the first functor of a batch.
LEMMA TailFacts ==
  ASSUME NEW q \in Seq(Functors), q # <<>>
  PROVE  /\ Tail(q) \in Seq(Functors) /\ Head(q) \in Functors
         /\ \A y : Has(q, y) <=> y = Head(q) \/ Has(Tail(q), y)
         /\ \A y, z : Follows(q, y, z) <=>
                        Follows(Tail(q), y, z) \/ (y = Head(q) /\ Has(Tail(q), z))
         /\ CountStarts(q) = IF Head(q)[1] = "start" THEN CountStarts(Tail(q)) + 1
                                                     ELSE CountStarts(Tail(q))
<1> DEFINE r == Tail(q)
           x == Head(q)
<1>1. /\ r \in Seq(Functors)
      /\ Len(r) = Len(q) - 1
      /\ \A i \in 1..Len(r) : r[i] = q[i + 1]
      /\ x = q[1] /\ x \in Functors
  BY HeadTailProperties
<1> HIDE DEF r, x
<1>2. /\ Len(q) \in Nat /\ Len(q) >= 1 /\ DOMAIN q = 1..Len(q)
      /\ Len(r) \in Nat /\ DOMAIN r = 1..Len(q) - 1
  BY <1>1, LenProperties, EmptySeq
<1>3. \A i \in 1..Len(q) : i = 1 \/ (i - 1 \in 1..Len(q) - 1 /\ q[i] = r[i - 1])
  BY <1>1, <1>2
<1>4. \A i \in 1..Len(q) - 1 : i + 1 \in 1..Len(q) /\ i + 1 # 1 /\ q[i + 1] = r[i]
  BY <1>1, <1>2
<1>5. \A y : Has(q, y) <=> y = x \/ Has(r, y)
  <2> TAKE y
  <2>1. ASSUME Has(q, y) PROVE y = x \/ Has(r, y)
    <3>1. PICK i \in 1..Len(q) : q[i] = y
      BY <1>2, <2>1 DEF Has
    <3>2. QED
      BY <1>1, <1>3, <3>1 DEF Has
  <2>2. ASSUME Has(r, y) PROVE Has(q, y)
    BY <1>2, <1>4, <2>2 DEF Has
  <2>3. 1 \in 1..Len(q)
    BY <1>2
  <2>4. Has(q, x)
    BY <1>1, <1>2, <2>3 DEF Has
  <2>5. QED
    BY <2>1, <2>2, <2>4
<1>6. \A y, z : Follows(q, y, z) <=> Follows(r, y, z) \/ (y = x /\ Has(r, z))
  <2> TAKE y, z
  <2>1. ASSUME Follows(q, y, z) PROVE Follows(r, y, z) \/ (y = x /\ Has(r, z))
    <3>1. PICK i, j \in 1..Len(q) : i < j /\ q[i] = y /\ q[j] = z
      BY <1>2, <2>1 DEF Follows
    <3>2. j - 1 \in 1..Len(q) - 1 /\ r[j - 1] = z
      BY <1>2, <1>3, <3>1
    <3>3. CASE i = 1
      BY <1>1, <3>1, <3>2, <3>3 DEF Has
    <3>4. CASE i # 1
      <4>1. /\ i - 1 \in DOMAIN r /\ r[i - 1] = y /\ i - 1 < j - 1
            /\ j - 1 \in DOMAIN r /\ r[j - 1] = z
        BY <1>2, <1>3, <3>1, <3>4
      <4>2. QED
        BY <4>1 DEF Follows
    <3>5. QED
      BY <3>3, <3>4
  <2>2. ASSUME Follows(r, y, z) PROVE Follows(q, y, z)
    <3>1. PICK i, j \in 1..Len(q) - 1 : i < j /\ r[i] = y /\ r[j] = z
      BY <1>2, <2>2 DEF Follows
    <3>2. /\ i + 1 \in 1..Len(q) /\ q[i + 1] = y
          /\ j + 1 \in 1..Len(q) /\ q[j + 1] = z /\ i + 1 < j + 1
      BY <1>2, <1>4, <3>1
    <3>3. QED
      BY <1>2, <3>2 DEF Follows
  <2>3. ASSUME y = x, Has(r, z) PROVE Follows(q, y, z)
    <3>1. PICK j \in 1..Len(q) - 1 : r[j] = z
      BY <1>2, <2>3 DEF Has
    <3>2. /\ 1 \in 1..Len(q) /\ q[1] = y
          /\ j + 1 \in 1..Len(q) /\ q[j + 1] = z /\ 1 < j + 1
      BY <1>1, <2>3, <3>1
    <3>3. QED
      BY <1>2, <3>2 DEF Follows
  <2>4. QED
    BY <2>1, <2>2, <2>3
<1>7. CountStarts(q) = IF x[1] = "start" THEN CountStarts(r) + 1 ELSE CountStarts(r)
  <2> DEFINE T == Starts(q) \ {1}
             g == [i \in Starts(r) |-> i + 1]
  <2>1. IsFiniteSet(Starts(r)) /\ IsFiniteSet(Starts(q))
    BY <1>1, StartsFacts
  <2>2. \A i \in Starts(r) : i \in 1..Len(q) - 1 /\ r[i][1] = "start"
    BY <1>2 DEF Starts
  <2>3. \A j \in T : j - 1 \in Starts(r) /\ (j - 1) + 1 = j
    BY <1>2, <1>3 DEF Starts
  <2>4. \A i \in Starts(r) : i + 1 \in T
    BY <1>2, <1>4, <2>2 DEF Starts
  <2>5. g \in Bijection(Starts(r), T)
    <3>1. g \in [Starts(r) -> T]
      BY <2>4
    <3>2. \A i, j \in Starts(r) : g[i] = g[j] => i = j
      BY <1>2, <2>2
    <3>3. \A j \in T : \E i \in Starts(r) : g[i] = j
      BY <2>3
    <3> HIDE DEF T, g
    <3>4. QED
      BY <3>1, <3>2, <3>3, Fun_IsBij
  <2>6. ExistsBijection(Starts(r), T)
    BY <2>5 DEF ExistsBijection
  <2>7. Cardinality(T) = CountStarts(r)
    BY <2>1, <2>6, FS_Bijection DEF CountStarts
  <2>8. Cardinality(T) = IF 1 \in Starts(q) THEN CountStarts(q) - 1 ELSE CountStarts(q)
    BY <2>1, FS_RemoveElement DEF CountStarts
  <2>9. 1 \in Starts(q) <=> x[1] = "start"
    BY <1>1, <1>2 DEF Starts
  <2>10. CountStarts(q) \in Nat
    BY StartsFacts
  <2>11. QED
    BY <2>7, <2>8, <2>9, <2>10
<1>8. QED
  BY <1>1, <1>5, <1>6, <1>7 DEF r

------------------------------------------------------------------------------
(* The steps.                                                              *)

\* A step of the kernel or the network.
Network(f) ==
  /\ ConnectDone(f) \/ PeerEnds(f)
  /\ UNCHANGED <<connectorVars, pending, failed, dispatchVars, clientVars>>

\* A step is one of the actions.
LEMMA NextCases ==
  ASSUME [Next]_vars
  PROVE  \/ UNCHANGED vars
         \/ Poll \/ EventHandled \/ TimerExpires \/ SwapFunctors \/ RunStart
         \/ RunReset \/ FunctorsDone \/ Establish \/ RemoveConnection
         \/ LoopConnect \/ LoopDisconnect
         \/ \E ch \in Channels : Dispatch(ch)
         \/ \E f \in Fds : \/ RunShutdown(f) \/ RunDestroyed(f) \/ ConnectorError(f)
                           \/ ConnectorWrite(f) \/ NewConnection(f) \/ HandleClose(f)
                           \/ Network(f)
         \/ \E c \in Callers : \/ Connect(c) \/ Disconnect(c) \/ DisconnectLocks(c)
                               \/ DisconnectSets(c) \/ DisconnectQueues(c)
  BY DEF Next, Finished, LoopStep, UserStep, InDisconnect, NetworkStep, Network

\* The functors, and that they differ.
LEMMA FunctorsOfFds ==
  /\ Start \in Functors /\ Reset \in Functors
  /\ \A f \in Fds : Shutdown(f) \in Functors /\ Destroyed(f) \in Functors
  /\ \A f : Start # Shutdown(f) /\ Start # Destroyed(f)
  /\ \A f : Reset # Shutdown(f) /\ Reset # Destroyed(f)
  /\ Start # Reset
  /\ \A f, g : Shutdown(f) # Destroyed(g)
  /\ \A f, g : Shutdown(f) = Shutdown(g) => f = g
  /\ \A f, g : Destroyed(f) = Destroyed(g) => f = g
  BY DEF Functors, Start, Reset, Shutdown, Destroyed

\* What OneAttempt means for the parts of Attempts.
LEMMA AttemptFacts ==
  ASSUME ClientInv
  PROVE  /\ timers \in Nat
         /\ CountStarts(batch) \in Nat /\ CountStarts(pending) \in Nat
         /\ Attempts = timers + CountStarts(pending) + CountStarts(batch)
                       + (IF state = "kConnecting" THEN 1 ELSE 0)
                       + (IF connection # NoFd THEN 1 ELSE 0)
         /\ CountStarts(pending) + CountStarts(batch) > 0 <=> Queued(Start)
         /\ timers > 0 => /\ timers = 1 /\ ~Queued(Start)
                          /\ state # "kConnecting" /\ connection = NoFd
         /\ Queued(Start) => /\ timers = 0
                             /\ state # "kConnecting" /\ connection = NoFd
                             /\ CountStarts(pending) + CountStarts(batch) = 1
         /\ state = "kConnecting" => timers = 0 /\ ~Queued(Start) /\ connection = NoFd
         /\ connection # NoFd => timers = 0 /\ ~Queued(Start) /\ state # "kConnecting"
         /\ Attempts = 0 => /\ timers = 0 /\ ~Queued(Start)
                            /\ state # "kConnecting" /\ connection = NoFd
<1>1. timers \in Nat /\ batch \in Seq(Functors) /\ pending \in Seq(Functors)
  BY DEF ClientInv, TypeOK, ConnectorTypeOK
<1> DEFINE p == CountStarts(pending)
           b == CountStarts(batch)
<1>2. p \in Nat /\ b \in Nat /\ (p = 0 <=> ~Has(pending, Start)) /\ (b = 0 <=> ~Has(batch, Start))
  BY <1>1, StartsFacts
<1>3. Attempts = timers + p + b + (IF state = "kConnecting" THEN 1 ELSE 0)
                 + (IF connection # NoFd THEN 1 ELSE 0)
  BY DEF Attempts, CountStarts
<1>4. Attempts <= 1
  BY DEF ClientInv, OneAttempt
<1> HIDE DEF p, b
<1>5. p + b > 0 <=> Queued(Start)
  BY <1>2 DEF Queued
<1>6. /\ timers > 0 => /\ timers = 1 /\ p + b = 0
                          /\ state # "kConnecting" /\ connection = NoFd
      /\ p + b > 0 => /\ timers = 0 /\ p + b = 1
                      /\ state # "kConnecting" /\ connection = NoFd
      /\ state = "kConnecting" => timers = 0 /\ p + b = 0 /\ connection = NoFd
      /\ connection # NoFd => timers = 0 /\ p + b = 0 /\ state # "kConnecting"
      /\ Attempts = 0 => /\ timers = 0 /\ p + b = 0
                         /\ state # "kConnecting" /\ connection = NoFd
  BY <1>1, <1>2, <1>3, <1>4
<1>7. QED
  BY <1>1, <1>2, <1>3, <1>5, <1>6 DEF p, b

\* startInLoop() called connect(), arms a timer, or gave up.
Begins ==
  /\ failed' = failed
  /\ retryDelayMs' \in kInitRetryDelayMs..kMaxRetryDelayMs
  /\ \/ /\ state' = "kConnecting" /\ watched' = TRUE /\ timers' = 0 /\ gaveUp' = FALSE
        /\ \E f \in Fds, answer \in {"connecting", "established"} :
             sock[f] = "closed" /\ channel' = f /\ sock' = [sock EXCEPT ![f] = answer]
     \/ /\ state' = "kDisConnected" /\ timers' = 1 /\ gaveUp' = FALSE
        /\ UNCHANGED <<channel, watched, sock>>
     \/ /\ state' = "kDisConnected" /\ timers' = 0 /\ gaveUp' = TRUE
        /\ UNCHANGED <<channel, watched, sock>>

\* startInLoop() of a connector that is not connected and has no channel.
LEMMA StartBegins ==
  ASSUME NEW s, s = "kDisConnected", channel = NoFd,
         NEW d \in kInitRetryDelayMs..kMaxRetryDelayMs, StartInLoop(s, d, 0)
  PROVE  Begins
<1>1. Doubled(d) \in kInitRetryDelayMs..kMaxRetryDelayMs
  BY DelayAssumption DEF Doubled
<1>2. CASE Connecting(d, 0)
  BY <1>2 DEF Connecting, Begins
<1>3. CASE AnotherTry(d, 0)
  BY <1>1, <1>3 DEF AnotherTry, TryLater, Armed, Begins
<1>4. CASE GiveUp(d, 0)
  BY <1>4 DEF GiveUp, Begins
<1>5. QED
  BY <1>2, <1>3, <1>4 DEF StartInLoop

\* A retry timer finds a connector that can start.
LEMMA TimerBegins ==
  ASSUME ClientInv, TimerExpires
  PROVE  /\ Begins /\ channel = NoFd /\ state # "kConnecting" /\ ~Queued(Reset)
         /\ timers = 1 /\ ~Queued(Start) /\ connection = NoFd
         /\ current = Nothing /\ step = "none" /\ active' = {}
<1>1. timers > 0 /\ ~Queued(Reset) /\ current = Nothing
  BY DEF ClientInv, EventInv, TimerExpires, Between
<1>2. /\ timers = 1 /\ ~Queued(Start) /\ state # "kConnecting" /\ connection = NoFd
  BY <1>1, AttemptFacts
<1>3. state = "kDisConnected" /\ channel = NoFd
  BY <1>1 DEF ClientInv, StartInv, ChannelInv
<1>4. timers - 1 = 0
  BY <1>2
<1>5. StartInLoop(state, retryDelayMs, 0)
  BY <1>4 DEF TimerExpires
<1>6. Begins
  BY <1>3, <1>5, StartBegins DEF ClientInv, TypeOK, ConnectorTypeOK
<1>7. active' = {} /\ step = "none"
  BY <1>1 DEF ClientInv, LoopInv, TimerExpires
<1>8. QED
  BY <1>1, <1>2, <1>3, <1>6, <1>7

\* The functor of connect() finds a connector that can start.
LEMMA RunStartBegins ==
  ASSUME ClientInv, RunStart
  PROVE  /\ Begins /\ channel = NoFd /\ state # "kConnecting" /\ ~Queued(Reset)
         /\ timers = 0 /\ connection = NoFd
         /\ current = Nothing /\ step = "none" /\ active = {} /\ phase = "functors"
         /\ batch # <<>> /\ Head(batch) = Start /\ batch' = Tail(batch)
<1>1. phase = "functors" /\ batch # <<>> /\ Head(batch) = Start /\ batch' = Tail(batch)
  BY DEF RunStart, Runs, Start
<1>2. Has(batch, Start)
  BY <1>1, TailFacts DEF ClientInv, TypeOK
<1>3. Queued(Start)
  BY <1>2 DEF Queued
<1>4. timers = 0 /\ state # "kConnecting" /\ connection = NoFd
  BY <1>3, AttemptFacts
<1>5. state = "kDisConnected" /\ ~Queued(Reset) /\ channel = NoFd
  BY <1>3, <1>4 DEF ClientInv, StartInv, ChannelInv
<1>6. Begins
  BY <1>4, <1>5, StartBegins DEF RunStart, ClientInv, TypeOK, ConnectorTypeOK
<1>7. QED
  BY <1>1, <1>4, <1>5, <1>6 DEF ClientInv, LoopInv

\* connect() on the loop finds a connector that can start.
LEMMA LoopConnectBegins ==
  ASSUME ClientInv, LoopConnect
  PROVE  /\ Begins /\ channel = NoFd /\ state # "kConnecting" /\ ~Queued(Reset)
         /\ timers = 0 /\ ~Queued(Start) /\ connection = NoFd
         /\ toCall = {} /\ step = "none" /\ current[1] \notin {"connector", "refused"}
<1>1. Attempts = 0 /\ state = "kDisConnected" /\ LoopUser /\ StartInLoop(state, retryDelayMs, timers)
  BY DEF LoopConnect, MayConnect
<1>2. timers = 0 /\ ~Queued(Start) /\ connection = NoFd
  BY <1>1, AttemptFacts
<1>3. ~Queued(Reset) /\ channel = NoFd
  BY <1>1, <1>2 DEF ClientInv, ChannelInv
<1>4. Begins
  BY <1>1, <1>2, <1>3, StartBegins DEF ClientInv, TypeOK, ConnectorTypeOK
<1>5. toCall = {} /\ step = "none"
  BY <1>1 DEF LoopUser, Between, ClientInv, LoopInv
<1>6. current[1] \notin {"connector", "refused"}
  <2>1. current = Nothing \/ current[2] = NoFd
    BY <1>1, <1>2 DEF LoopUser, Between, ClientInv, LoopInv
  <2>2. QED
    BY <2>1, NoFdAssumption DEF ClientInv, LoopInv, Nothing
<1>7. QED
  BY <1>1, <1>2, <1>3, <1>4, <1>5, <1>6

\* removeConnection() is for the connection that is handled; by then the
\* connector can start.
LEMMA RestartBegins ==
  ASSUME ClientInv, RemoveConnection
  PROVE  /\ current[1] = "connection" /\ current[2] \in Fds /\ connection = current[2]
         /\ toCall = {} /\ active = {} /\ phase = "events" /\ batch = <<>>
         /\ channel = NoFd /\ state # "kConnecting" /\ ~Queued(Reset)
         /\ timers = 0 /\ ~Queued(Start)
         /\ connection' = NoFd /\ step' = "none"
         /\ pending' = Append(pending, Destroyed(current[2]))
         /\ \/ RetryEnabled /\ connect /\ Begins
            \/ ~(RetryEnabled /\ connect) /\ UNCHANGED <<connectorVars, sock, failed>>
<1>1. step = "remove" /\ step' = "none"
  BY DEF RemoveConnection
<1>2. current # Nothing
  BY <1>1 DEF ClientInv, LoopInv
<1>3. current \in {"connector", "refused", "connection"} \X Fds
  BY <1>2 DEF ClientInv, LoopInv
<1>4. current[1] = "connection" /\ current[2] \in Fds /\ connection = current[2]
      /\ toCall = {} /\ ~Has(pending, Reset)
  BY <1>1, <1>3 DEF ClientInv, EventInv
<1>5. phase = "events" /\ batch = <<>> /\ active = {}
  BY <1>2 DEF ClientInv, LoopInv
<1>6. timers = 0 /\ ~Queued(Start) /\ state # "kConnecting"
  BY <1>4, NoFdAssumption, AttemptFacts
<1>7. ~Queued(Reset)
  BY <1>4, <1>5, EmptyFacts DEF Queued
<1>8. channel = NoFd
  BY <1>6, <1>7 DEF ClientInv, ChannelInv
<1>9. ASSUME RetryEnabled, connect
      PROVE  Begins
  <2>1. StartInLoop("kDisConnected", kInitRetryDelayMs, 0)
    BY <1>4, <1>6, <1>9 DEF RemoveConnection, Restart, RestartState
  <2>2. kInitRetryDelayMs \in kInitRetryDelayMs..kMaxRetryDelayMs
    BY DelayAssumption
  <2>3. QED
    BY <1>8, <2>1, <2>2, StartBegins
<1>10. ASSUME ~(RetryEnabled /\ connect)
       PROVE  UNCHANGED <<connectorVars, sock, failed>>
  BY <1>4, <1>10 DEF RemoveConnection
<1>11. pending' = Append(pending, Destroyed(current[2])) /\ connection' = NoFd
  BY DEF RemoveConnection, Destroyed
<1>12. QED
  BY <1>1, <1>4, <1>5, <1>6, <1>7, <1>8, <1>9, <1>10, <1>11

\* startInLoop() keeps the types.
LEMMA BeginsTypes ==
  ASSUME ClientInv, Begins, pending' \in Seq(Functors)
  PROVE  ConnectorTypeOK'
<1> DEFINE answers == {"closed", "connecting", "established", "self", "peerClosed", "broken"}
<1>1. sock \in [Fds -> answers] /\ timers \in Nat /\ ConnectorTypeOK
  BY DEF ClientInv, TypeOK, ConnectorTypeOK
<1>2. sock' \in [Fds -> answers]
  BY <1>1 DEF Begins
<1>3. channel' \in Fds \cup {NoFd} /\ state' \in {"kDisConnected", "kConnecting", "kConnected"}
  BY <1>1 DEF Begins, ConnectorTypeOK
<1>4. watched \in BOOLEAN /\ gaveUp \in BOOLEAN
  BY <1>1 DEF ConnectorTypeOK
<1>5. watched' \in {watched, TRUE} /\ gaveUp' \in {TRUE, FALSE} /\ timers' \in {0, 1}
  BY Zenon DEF Begins
<1>6. watched' \in BOOLEAN /\ gaveUp' \in BOOLEAN
  BY Zenon, <1>4, <1>5
<1>7. timers' \in Nat
  BY <1>5
<1>8. failed' = failed /\ retryDelayMs' \in kInitRetryDelayMs..kMaxRetryDelayMs
  BY DEF Begins
<1>9. QED
  BY <1>1, <1>2, <1>3, <1>6, <1>7, <1>8 DEF ConnectorTypeOK

\* The types, of the loop and of the client.
LoopTypes ==
  /\ phase \in {"poll", "events", "functors"}
  /\ active \subseteq Channels
  /\ current \in Channels \cup {Nothing}
  /\ toCall \subseteq {"error", "write", "close"}
  /\ batch \in Seq(Functors)
  /\ dying \subseteq Fds

ClientTypes ==
  /\ connect \in BOOLEAN
  /\ connection \in Fds \cup {NoFd}
  /\ connState \in [Fds -> {"none", "kConnecting", "kConnected",
                            "kDisconnecting", "kDisconnected"}]
  /\ step \in {"none", "establish", "remove"}
  /\ caller \in [Callers -> [at : {"away", "lock", "set", "queue"},
                             fd : Fds \cup {NoFd}]]
  /\ calls \in 0..MaxCalls

\* The type invariant, in parts.
LEMMA TypesAre ==
  /\ ConnectorTypeOK /\ LoopTypes /\ ClientTypes <=> TypeOK
  /\ (ConnectorTypeOK /\ LoopTypes /\ ClientTypes)' <=> TypeOK'
  /\ ClientInv => ConnectorTypeOK /\ LoopTypes /\ ClientTypes
  BY DEF LoopTypes, ClientTypes, TypeOK, ClientInv

\* Which channels there are.
LEMMA LoopChannels ==
  ASSUME ClientInv
  PROVE  \A ch \in active : \/ ch = Timer
                             \/ /\ ch[1] \in {"connector", "refused", "connection"}
                                /\ ch[2] \in Fds
                                /\ ch = <<ch[1], ch[2]>>
  BY DEF ClientInv, LoopInv

\* Every step keeps the types.
LEMMA TypeStep ==
  ASSUME ClientInv, [Next]_vars
  PROVE  TypeOK'
<1>1. CASE UNCHANGED vars
  BY <1>1, TypesAre DEF ConnectorTypeOK, LoopTypes, ClientTypes, vars, connectorVars,
       clientVars, dispatchVars
<1>2. CASE Poll
  <2>1. ConnectorTypeOK'
    BY <1>2, TypesAre DEF ConnectorTypeOK, Poll, connectorVars
  <2>2. LoopTypes'
    BY <1>2, TypesAre DEF LoopTypes, Poll, Channels, Kinds, Timer, Ready
  <2>3. ClientTypes'
    BY <1>2, TypesAre DEF ClientTypes, Poll, clientVars
  <2>4. QED
    BY <2>1, <2>2, <2>3, TypesAre
<1>3. ASSUME NEW ch \in Channels, Dispatch(ch) PROVE TypeOK'
  <2>1. ConnectorTypeOK'
    BY <1>3, TypesAre DEF ConnectorTypeOK, Dispatch, connectorVars
  <2>2. LoopTypes'
    <3>1. ch \in Channels \ {Timer} /\ ch[1] \in {"connector", "refused", "connection"}
      BY <1>3, TypesAre, LoopChannels DEF Dispatch
    <3>2. Callbacks[ch[1]] \subseteq {"error", "write", "close"}
      BY <3>1 DEF Callbacks
    <3>3. QED
      BY <1>3, <3>2, TypesAre DEF LoopTypes, Dispatch
  <2>3. ClientTypes'
    BY <1>3, TypesAre DEF ClientTypes, Dispatch, clientVars
  <2>4. QED
    BY <2>1, <2>2, <2>3, TypesAre
<1>4. CASE EventHandled
  <2>1. ConnectorTypeOK'
    BY <1>4, TypesAre DEF ConnectorTypeOK, EventHandled, connectorVars
  <2>2. LoopTypes'
    BY <1>4, TypesAre DEF LoopTypes, EventHandled
  <2>3. ClientTypes'
    BY <1>4, TypesAre DEF ClientTypes, EventHandled, clientVars
  <2>4. QED
    BY <2>1, <2>2, <2>3, TypesAre
<1>5. CASE TimerExpires
  <2>1. ConnectorTypeOK'
    BY <1>5, TypesAre, TimerBegins, BeginsTypes DEF TimerExpires, ConnectorTypeOK
  <2>2. LoopTypes'
    BY <1>5, TypesAre DEF LoopTypes, TimerExpires
  <2>3. ClientTypes'
    BY <1>5, TypesAre DEF ClientTypes, TimerExpires, clientVars
  <2>4. QED
    BY <2>1, <2>2, <2>3, TypesAre
<1>6. CASE SwapFunctors
  <2>1. ConnectorTypeOK'
    BY <1>6, TypesAre DEF ConnectorTypeOK, SwapFunctors, connectorVars
  <2>2. LoopTypes'
    BY <1>6, TypesAre DEF LoopTypes, SwapFunctors, ConnectorTypeOK
  <2>3. ClientTypes'
    BY <1>6, TypesAre DEF ClientTypes, SwapFunctors, clientVars
  <2>4. QED
    BY <2>1, <2>2, <2>3, TypesAre
<1>7. CASE RunStart
  <2>1. ConnectorTypeOK'
    BY <1>7, TypesAre, RunStartBegins, BeginsTypes DEF RunStart, Runs, ConnectorTypeOK
  <2>2. LoopTypes'
    BY <1>7, TypesAre DEF LoopTypes, RunStart, Runs
  <2>3. ClientTypes'
    BY <1>7, TypesAre DEF ClientTypes, RunStart, clientVars
  <2>4. QED
    BY <2>1, <2>2, <2>3, TypesAre
<1>8. CASE RunReset
  <2>1. ConnectorTypeOK'
    BY <1>8, TypesAre DEF ConnectorTypeOK, RunReset, Runs, ResetChannel
  <2>2. LoopTypes'
    BY <1>8, TypesAre DEF LoopTypes, RunReset, Runs
  <2>3. ClientTypes'
    BY <1>8, TypesAre DEF ClientTypes, RunReset, clientVars
  <2>4. QED
    BY <2>1, <2>2, <2>3, TypesAre
<1>9. ASSUME NEW f \in Fds, RunShutdown(f) PROVE TypeOK'
  <2>1. ConnectorTypeOK'
    BY <1>9, TypesAre DEF ConnectorTypeOK, RunShutdown, Runs, connectorVars
  <2>2. LoopTypes'
    BY <1>9, TypesAre DEF LoopTypes, RunShutdown, Runs
  <2>3. ClientTypes'
    BY <1>9, TypesAre DEF ClientTypes, RunShutdown, clientVars
  <2>4. QED
    BY <2>1, <2>2, <2>3, TypesAre
<1>10. ASSUME NEW f \in Fds, RunDestroyed(f) PROVE TypeOK'
  <2>1. ConnectorTypeOK'
    BY <1>10, TypesAre DEF ConnectorTypeOK, RunDestroyed, Runs, connectorVars
  <2>2. LoopTypes'
    BY <1>10, TypesAre DEF LoopTypes, RunDestroyed, Runs
  <2>3. ClientTypes'
    BY <1>10, TypesAre DEF ClientTypes, RunDestroyed, clientVars
  <2>4. QED
    BY <2>1, <2>2, <2>3, TypesAre
<1>11. CASE FunctorsDone
  <2>1. ConnectorTypeOK'
    BY <1>11, TypesAre DEF ConnectorTypeOK, FunctorsDone, connectorVars
  <2>2. LoopTypes'
    BY <1>11, TypesAre DEF LoopTypes, FunctorsDone
  <2>3. ClientTypes'
    BY <1>11, TypesAre DEF ClientTypes, FunctorsDone
  <2>4. QED
    BY <2>1, <2>2, <2>3, TypesAre
<1>12. ASSUME NEW f \in Fds, ConnectorError(f) PROVE TypeOK'
  <2>1. ConnectorTypeOK'
    <3>1. pending' \in Seq(Functors)
      BY <1>12, TypesAre, FunctorsOfFds DEF ConnectorTypeOK, ConnectorError, HandleError,
           QueueReset, Reset
    <3>2. Doubled(retryDelayMs) \in kInitRetryDelayMs..kMaxRetryDelayMs
      BY DelayAssumption, TypesAre DEF Doubled, ConnectorTypeOK
    <3>3. /\ retryDelayMs' = Doubled(retryDelayMs) /\ timers' = timers + 1
          /\ state' = "kDisConnected" /\ watched' = FALSE /\ UNCHANGED <<channel, gaveUp>>
          /\ sock' = [sock EXCEPT ![f] = "closed"]
          /\ failed' \in {failed, "handleError"}
      BY <1>12 DEF ConnectorError, HandleError, QueueReset, Retry, Close, TryLater, Armed
    <3>4. gaveUp' \in BOOLEAN
      BY Zenon, <3>3, TypesAre DEF ConnectorTypeOK
    <3>5. sock' \in [Fds -> {"closed", "connecting", "established", "self",
                           "peerClosed", "broken"}]
      BY <3>3, TypesAre DEF ConnectorTypeOK
    <3>6. timers' \in Nat /\ channel' \in Fds \cup {NoFd}
      BY <3>3, TypesAre DEF ConnectorTypeOK
    <3>7. failed' \in {"none", "startInLoop", "connecting", "handleWrite", "handleError",
                   "removeConnection", "freed"}
      BY <3>3, TypesAre DEF ConnectorTypeOK
    <3>8. watched' \in BOOLEAN
      BY <3>3
    <3>9. QED
      BY <3>1, <3>2, <3>3, <3>4, <3>5, <3>6, <3>7 DEF ConnectorTypeOK
  <2>2. LoopTypes'
    BY <1>12, TypesAre DEF LoopTypes, ConnectorError, Calling
  <2>3. ClientTypes'
    BY <1>12, TypesAre DEF ClientTypes, ConnectorError, clientVars
  <2>4. QED
    BY <2>1, <2>2, <2>3, TypesAre
<1>13. ASSUME NEW f \in Fds, ConnectorWrite(f) PROVE TypeOK'
  <2>1. ConnectorTypeOK'
    <3>1. CASE HandleWriteLate(f)
      BY <3>1, TypesAre DEF ConnectorTypeOK, HandleWriteLate, connectorVars
    <3>2. CASE HandleWriteRetries(f)
      <4>1. pending' \in Seq(Functors)
        BY <3>2, TypesAre, FunctorsOfFds DEF ConnectorTypeOK, HandleWriteRetries, QueueReset,
             Reset
      <4>2. Doubled(retryDelayMs) \in kInitRetryDelayMs..kMaxRetryDelayMs
        BY DelayAssumption, TypesAre DEF Doubled, ConnectorTypeOK
      <4>3. /\ retryDelayMs' = Doubled(retryDelayMs) /\ timers' = timers + 1
            /\ state' = "kDisConnected" /\ watched' = FALSE
            /\ sock' = [sock EXCEPT ![f] = "closed"] /\ UNCHANGED <<channel, gaveUp, failed>>
        BY <3>2 DEF HandleWriteRetries, QueueReset, Retry, Close, TryLater, Armed
      <4>4. gaveUp' \in BOOLEAN
        BY Zenon, <4>3, TypesAre DEF ConnectorTypeOK
      <4>5. sock' \in [Fds -> {"closed", "connecting", "established", "self",
                             "peerClosed", "broken"}]
        BY <4>3, TypesAre DEF ConnectorTypeOK
      <4>6. timers' \in Nat /\ channel' \in Fds \cup {NoFd}
        BY <4>3, TypesAre DEF ConnectorTypeOK
      <4>7. failed' \in {"none", "startInLoop", "connecting", "handleWrite", "handleError",
                     "removeConnection", "freed"}
        BY <4>3, TypesAre DEF ConnectorTypeOK
      <4>8. watched' \in BOOLEAN
        BY <4>3
      <4>9. QED
        BY <4>1, <4>2, <4>3, <4>4, <4>5, <4>6, <4>7 DEF ConnectorTypeOK
    <3>3. QED
      BY <1>13, <3>1, <3>2 DEF ConnectorWrite
  <2>2. LoopTypes'
    BY <1>13, TypesAre DEF LoopTypes, ConnectorWrite, Calling
  <2>3. ClientTypes'
    BY <1>13, TypesAre DEF ClientTypes, ConnectorWrite, clientVars
  <2>4. QED
    BY <2>1, <2>2, <2>3, TypesAre
<1>14. ASSUME NEW f \in Fds, NewConnection(f) PROVE TypeOK'
  <2>1. ConnectorTypeOK'
    <3>1. pending' \in Seq(Functors)
      BY <1>14, TypesAre, FunctorsOfFds DEF ConnectorTypeOK, NewConnection,
           HandleWriteConnects, QueueReset, Reset
    <3>2. QED
      BY <1>14, <3>1, TypesAre DEF ConnectorTypeOK, NewConnection, HandleWriteConnects,
           QueueReset
  <2>2. LoopTypes'
    BY <1>14, TypesAre DEF LoopTypes, NewConnection, Calling
  <2>3. ClientTypes'
    BY <1>14, TypesAre DEF ClientTypes, NewConnection
  <2>4. QED
    BY <2>1, <2>2, <2>3, TypesAre
<1>15. CASE Establish
  <2>1. ConnectorTypeOK'
    BY <1>15, TypesAre DEF ConnectorTypeOK, Establish, connectorVars
  <2>2. LoopTypes'
    BY <1>15, TypesAre DEF LoopTypes, Establish, dispatchVars
  <2>3. ClientTypes'
    BY <1>15, TypesAre DEF ClientTypes, Establish
  <2>4. QED
    BY <2>1, <2>2, <2>3, TypesAre
<1>16. ASSUME NEW f \in Fds, HandleClose(f) PROVE TypeOK'
  <2>1. ConnectorTypeOK'
    BY <1>16, TypesAre DEF ConnectorTypeOK, HandleClose, connectorVars
  <2>2. LoopTypes'
    BY <1>16, TypesAre DEF LoopTypes, HandleClose, Calling
  <2>3. ClientTypes'
    BY <1>16, TypesAre DEF ClientTypes, HandleClose
  <2>4. QED
    BY <2>1, <2>2, <2>3, TypesAre
<1>17. CASE RemoveConnection
  <2>1. ConnectorTypeOK'
    <3>1. pending' \in Seq(Functors)
      BY <1>17, TypesAre, FunctorsOfFds, RestartBegins DEF ConnectorTypeOK
    <3>2. CASE Begins
      BY <3>1, <3>2, BeginsTypes
    <3>3. CASE UNCHANGED <<connectorVars, sock, failed>>
      BY <3>1, <3>3, TypesAre DEF ConnectorTypeOK, connectorVars
    <3>4. QED
      BY <1>17, <3>2, <3>3, RestartBegins
  <2>2. LoopTypes'
    BY <1>17, TypesAre DEF LoopTypes, RemoveConnection, dispatchVars
  <2>3. ClientTypes'
    BY <1>17, TypesAre DEF ClientTypes, RemoveConnection
  <2>4. QED
    BY <2>1, <2>2, <2>3, TypesAre
<1>18. CASE LoopConnect
  <2>1. ConnectorTypeOK'
    BY <1>18, TypesAre, LoopConnectBegins, BeginsTypes DEF LoopConnect, ConnectorTypeOK
  <2>2. LoopTypes'
    BY <1>18, TypesAre DEF LoopTypes, LoopConnect, dispatchVars
  <2>3. ClientTypes'
    BY <1>18, TypesAre, ClientAssumption DEF ClientTypes, LoopConnect, MayConnect
  <2>4. QED
    BY <2>1, <2>2, <2>3, TypesAre
<1>19. CASE LoopDisconnect
  <2>1. ConnectorTypeOK'
    BY <1>19, TypesAre DEF ConnectorTypeOK, LoopDisconnect, connectorVars
  <2>2. LoopTypes'
    BY <1>19, TypesAre DEF LoopTypes, LoopDisconnect, dispatchVars
  <2>3. ClientTypes'
    BY <1>19, TypesAre DEF ClientTypes, LoopDisconnect
  <2>4. QED
    BY <2>1, <2>2, <2>3, TypesAre
<1>20. ASSUME NEW c \in Callers, Connect(c) PROVE TypeOK'
  <2>1. ConnectorTypeOK'
    <3>1. pending' \in Seq(Functors)
      BY <1>20, TypesAre, FunctorsOfFds DEF ConnectorTypeOK, Connect, Start
    <3>2. QED
      BY <1>20, <3>1, TypesAre DEF ConnectorTypeOK, Connect, connectorVars
  <2>2. LoopTypes'
    BY <1>20, TypesAre DEF LoopTypes, Connect, dispatchVars
  <2>3. ClientTypes'
    BY <1>20, TypesAre, ClientAssumption DEF ClientTypes, Connect, MayConnect
  <2>4. QED
    BY <2>1, <2>2, <2>3, TypesAre
<1>21. ASSUME NEW c \in Callers, Disconnect(c) PROVE TypeOK'
  <2>1. ConnectorTypeOK'
    BY <1>21, TypesAre DEF ConnectorTypeOK, Disconnect, connectorVars
  <2>2. LoopTypes'
    BY <1>21, TypesAre DEF LoopTypes, Disconnect, dispatchVars
  <2>3. ClientTypes'
    BY <1>21, TypesAre DEF ClientTypes, Disconnect
  <2>4. QED
    BY <2>1, <2>2, <2>3, TypesAre
<1>22. ASSUME NEW c \in Callers, DisconnectLocks(c) PROVE TypeOK'
  <2>1. ConnectorTypeOK'
    BY <1>22, TypesAre DEF ConnectorTypeOK, DisconnectLocks, connectorVars
  <2>2. LoopTypes'
    BY <1>22, TypesAre DEF LoopTypes, DisconnectLocks, dispatchVars
  <2>3. ClientTypes'
    BY <1>22, TypesAre DEF ClientTypes, DisconnectLocks, Away
  <2>4. QED
    BY <2>1, <2>2, <2>3, TypesAre
<1>23. ASSUME NEW c \in Callers, DisconnectSets(c) PROVE TypeOK'
  <2>1. ConnectorTypeOK'
    BY <1>23, TypesAre DEF ConnectorTypeOK, DisconnectSets, connectorVars
  <2>2. LoopTypes'
    BY <1>23, TypesAre DEF LoopTypes, DisconnectSets, dispatchVars
  <2>3. ClientTypes'
    BY <1>23, TypesAre DEF ClientTypes, DisconnectSets
  <2>4. QED
    BY <2>1, <2>2, <2>3, TypesAre
<1>24. ASSUME NEW c \in Callers, DisconnectQueues(c) PROVE TypeOK'
  <2>1. ConnectorTypeOK'
    <3>1. caller[c].fd \in Fds
      BY <1>24 DEF DisconnectQueues, ClientInv, CallerInv
    <3>2. <<"shutdown", caller[c].fd>> \in Functors
      BY <3>1 DEF Functors
    <3>3. pending' \in Seq(Functors)
      BY <1>24, <3>2, TypesAre DEF ConnectorTypeOK, DisconnectQueues
    <3>4. QED
      BY <1>24, <3>3, TypesAre DEF ConnectorTypeOK, DisconnectQueues, connectorVars
  <2>2. LoopTypes'
    BY <1>24, TypesAre DEF LoopTypes, DisconnectQueues, dispatchVars
  <2>3. ClientTypes'
    BY <1>24, TypesAre DEF ClientTypes, DisconnectQueues, Away
  <2>4. QED
    BY <2>1, <2>2, <2>3, TypesAre
<1>25. ASSUME NEW f \in Fds, Network(f) PROVE TypeOK'
  <2>1. ConnectorTypeOK'
    BY <1>25, TypesAre DEF ConnectorTypeOK, Network, ConnectDone, PeerEnds, connectorVars
  <2>2. LoopTypes'
    BY <1>25, TypesAre DEF LoopTypes, Network, dispatchVars
  <2>3. ClientTypes'
    BY <1>25, TypesAre DEF ClientTypes, Network, clientVars
  <2>4. QED
    BY <2>1, <2>2, <2>3, TypesAre
<1>26. QED
  BY <1>1, <1>2, <1>3, <1>4, <1>5, <1>6, <1>7, <1>8, <1>9, <1>10, <1>11, <1>12, <1>13, <1>14,
       <1>15, <1>16, <1>17, <1>18, <1>19, <1>20, <1>21, <1>22, <1>23, <1>24, <1>25, NextCases

\* At poll() nothing is left of the last iteration.
LEMMA PollFinds ==
  ASSUME ClientInv, Poll
  PROVE  /\ batch = <<>> /\ dying = {} /\ current = Nothing
         /\ ~Queued(Reset) /\ \A f \in Fds : ~Queued(Destroyed(f))
         /\ \A f \in Fds : <<"connection", f>> \in active' => connection = f
         /\ \A f \in Fds : (<<"connector", f>> \in active' \/ <<"refused", f>> \in active')
                             => state = "kConnecting" /\ channel = f
         /\ Timer \in active' => timers > 0
         /\ \A x, y \in active' : x = y
<1>1. phase = "poll" /\ current = Nothing /\ batch = <<>> /\ dying = {}
  BY DEF Poll, ClientInv, LoopInv
<1>2. ~Queued(Reset) /\ \A f \in Fds : ~Queued(Destroyed(f))
  BY <1>1, EmptyFacts DEF Queued, ClientInv, ChannelInv, LifeInv
<1>3. PICK due \in SUBSET {Timer} : (due # {} => timers > 0) /\ active' = Ready \cup due
  BY DEF Poll
<1>4. \A f \in Fds : connState[f] \in {"kConnected", "kDisconnecting"} => connection = f
  BY <1>1, <1>2 DEF ClientInv, LifeInv
<1>5. \A f \in Fds : (<<"connector", f>> \in active' \/ <<"refused", f>> \in active')
                     => /\ state = "kConnecting" /\ channel = f
                        /\ <<"refused", f>> \in active' => sock[f] = "broken"
                        /\ <<"connector", f>> \in active' => sock[f] # "broken"
  <2> SUFFICES ASSUME NEW f \in Fds, NEW k \in {"connector", "refused"}, <<k, f>> \in active'
               PROVE  /\ watched /\ channel = f
                      /\ k = "refused" <=> sock[f] = "broken"
    BY DEF ClientInv, ChannelInv
  <2>1. <<k, f>> \notin {Timer} /\ <<k, f>> \notin {<<"connection", g>> : g \in Fds}
    BY DEF Timer
  <2>2. <<k, f>> \in Ready
    BY <1>3, <2>1
  <2>3. QED
    BY <2>1, <2>2 DEF Ready
<1>6. \A f \in Fds : <<"connection", f>> \in active' => connection = f
  <2> SUFFICES ASSUME NEW f \in Fds, <<"connection", f>> \in active'
               PROVE  connection = f
    OBVIOUS
  <2>1. <<"connection", f>> \in Ready
    BY <1>3 DEF Timer
  <2>2. PICK g \in Fds : connState[g] \in {"kConnected", "kDisconnecting"} /\ <<"connection", f>> = <<"connection", g>>
    BY <2>1 DEF Ready
  <2>3. f = g
    BY <2>2
  <2>4. QED
    BY <1>4, <2>2, <2>3
<1>7. Timer \in active' => timers > 0
  <2>1. Timer \notin Ready
    BY DEF Timer, Ready
  <2>2. QED
    BY <1>3, <2>1
<1>8. active' \subseteq {Timer} \cup {"connector", "refused", "connection"} \X Fds
  BY <1>3 DEF Ready
<1>9. ASSUME NEW x \in active', NEW y \in active'
      PROVE  x = y
  <2>1. CASE Timer \in active'
    <3>1. state # "kConnecting" /\ connection = NoFd
      BY <1>7, <2>1, AttemptFacts
    <3>2. \A k \in {"connector", "refused", "connection"}, f \in Fds : <<k, f>> \notin active'
      BY <1>5, <1>6, <3>1, NoFdAssumption
    <3>3. active' \subseteq {Timer}
      BY <1>8, <3>2
    <3>4. QED
      BY <3>3
  <2>2. CASE Timer \notin active'
    <3>1. PICK k, m \in {"connector", "refused", "connection"}, f, g \in Fds : x = <<k, f>> /\ y = <<m, g>>
      BY <1>8, <2>2
    <3>2. CASE k = "connection"
      <4>1. connection = f /\ state # "kConnecting"
        BY <1>6, <3>1, <3>2, NoFdAssumption, AttemptFacts
      <4>2. QED
        BY <1>5, <1>6, <3>1, <4>1
    <3>3. CASE k # "connection"
      <4>1. channel = f /\ state = "kConnecting" /\ connection = NoFd
        BY <1>5, <3>1, <3>3, AttemptFacts
      <4>2. m # "connection" /\ g = f
        BY <1>5, <1>6, <3>1, <4>1, NoFdAssumption
      <4>3. QED
        BY <1>5, <3>1, <3>3, <4>2
    <3>4. QED
      BY <3>2, <3>3
  <2>3. QED
    BY <2>1, <2>2
<1>10. QED
  BY <1>1, <1>2, <1>5, <1>6, <1>7, <1>9

\* The loop handles events, then functors, one thing at a time.
LEMMA LoopStepKeeps ==
  ASSUME ClientInv, [Next]_vars
  PROVE  LoopInv'
<1>1. CASE UNCHANGED vars
  BY <1>1 DEF ClientInv, LoopInv, vars, clientVars, dispatchVars
<1>2. CASE Poll
  <2>1. phase = "poll" /\ current = Nothing /\ batch = <<>> /\ dying = {} /\ toCall = {} /\ step = "none"
    BY <1>2 DEF Poll, ClientInv, LoopInv
  <2>2. /\ phase' = "events" /\ UNCHANGED <<current, batch, dying, toCall, step>>
        /\ \E due \in SUBSET {Timer} : (due # {} => timers > 0) /\ active' = Ready \cup due
    BY <1>2 DEF Poll, clientVars
  <2>3. active' \subseteq {Timer} \cup {"connector", "refused", "connection"} \X Fds
    BY <2>2 DEF Ready
  <2>4. \A x, y \in active' : x = y
    BY <1>2, PollFinds
  <2>5. QED
    BY <2>1, <2>2, <2>3, <2>4 DEF LoopInv
<1>3. ASSUME NEW ch \in Channels, Dispatch(ch) PROVE LoopInv'
  <2>1. phase = "events" /\ current = Nothing /\ toCall = {} /\ step = "none" /\ batch = <<>> /\ dying = {}
    BY <1>3 DEF Dispatch, ClientInv, LoopInv
  <2>2. ch \in {"connector", "refused", "connection"} \X Fds /\ active \ {ch} = {}
    BY <1>3 DEF Dispatch, ClientInv, LoopInv
  <2>3. /\ active' = {} /\ current' = ch /\ ch # Nothing
        /\ UNCHANGED <<phase, batch, dying, step>>
    BY <1>3, <2>2 DEF Dispatch, Nothing, clientVars
  <2>4. QED
    BY <2>1, <2>2, <2>3 DEF LoopInv
<1>4. CASE EventHandled
  BY <1>4 DEF ClientInv, LoopInv, EventHandled, clientVars
<1>5. CASE TimerExpires
  BY <1>5 DEF ClientInv, LoopInv, TimerExpires, clientVars
<1>6. CASE SwapFunctors
  BY <1>6 DEF LoopInv, ClientInv, SwapFunctors, Between, clientVars
<1>7. CASE RunStart
  BY <1>7 DEF ClientInv, LoopInv, RunStart, Runs, clientVars
<1>8. CASE RunReset
  BY <1>8 DEF ClientInv, LoopInv, RunReset, Runs, clientVars
<1>9. ASSUME NEW f \in Fds, RunShutdown(f) PROVE LoopInv'
  BY <1>9 DEF ClientInv, LoopInv, RunShutdown, Runs, clientVars
<1>10. ASSUME NEW f \in Fds, RunDestroyed(f) PROVE LoopInv'
  BY <1>10 DEF ClientInv, LoopInv, RunDestroyed, Runs, clientVars
<1>11. CASE FunctorsDone
  BY <1>11 DEF ClientInv, LoopInv, FunctorsDone
<1>12. ASSUME NEW f \in Fds, ConnectorError(f) PROVE LoopInv'
  BY <1>12 DEF ClientInv, LoopInv, ConnectorError, Calling
<1>13. ASSUME NEW f \in Fds, ConnectorWrite(f) PROVE LoopInv'
  BY <1>13 DEF ClientInv, LoopInv, ConnectorWrite, Calling
<1>14. ASSUME NEW f \in Fds, NewConnection(f) PROVE LoopInv'
  BY <1>14 DEF ClientInv, LoopInv, NewConnection, Calling
<1>15. CASE Establish
  BY <1>15 DEF ClientInv, LoopInv, Establish, dispatchVars
<1>16. ASSUME NEW f \in Fds, HandleClose(f) PROVE LoopInv'
  BY <1>16 DEF ClientInv, LoopInv, HandleClose, Calling
<1>17. CASE RemoveConnection
  BY <1>17 DEF ClientInv, LoopInv, RemoveConnection, dispatchVars
<1>18. CASE LoopConnect
  BY <1>18 DEF ClientInv, LoopInv, LoopConnect, dispatchVars
<1>19. CASE LoopDisconnect
  BY <1>19 DEF ClientInv, LoopInv, LoopDisconnect, dispatchVars
<1>20. ASSUME NEW c \in Callers, Connect(c) PROVE LoopInv'
  BY <1>20 DEF ClientInv, LoopInv, Connect, dispatchVars
<1>21. ASSUME NEW c \in Callers, Disconnect(c) PROVE LoopInv'
  BY <1>21 DEF ClientInv, LoopInv, Disconnect, dispatchVars
<1>22. ASSUME NEW c \in Callers, DisconnectLocks(c) PROVE LoopInv'
  BY <1>22 DEF ClientInv, LoopInv, DisconnectLocks, dispatchVars
<1>23. ASSUME NEW c \in Callers, DisconnectSets(c) PROVE LoopInv'
  BY <1>23 DEF ClientInv, LoopInv, DisconnectSets, dispatchVars
<1>24. ASSUME NEW c \in Callers, DisconnectQueues(c) PROVE LoopInv'
  BY <1>24 DEF ClientInv, LoopInv, DisconnectQueues, dispatchVars
<1>25. ASSUME NEW f \in Fds, Network(f) PROVE LoopInv'
  BY <1>25 DEF ClientInv, LoopInv, Network, clientVars, dispatchVars
<1>26. QED
  BY <1>1, <1>2, <1>3, <1>4, <1>5, <1>6, <1>7, <1>8, <1>9, <1>10, <1>11, <1>12, <1>13, <1>14,
       <1>15, <1>16, <1>17, <1>18, <1>19, <1>20, <1>21, <1>22, <1>23, <1>24, <1>25, NextCases

------------------------------------------------------------------------------
(* What the steps do to the functors.                                      *)

\* x is put behind the pending functors, or called as the first of the batch.
Pushes(x) ==
  /\ batch' = batch
  /\ \A y : Has(pending, y)' <=> Has(pending, y) \/ y = x
  /\ \A y : Queued(y)' <=> Queued(y) \/ y = x
  /\ \A y, z : Follows(pending, y, z)' <=> Follows(pending, y, z) \/ (Has(pending, y) /\ z = x)
  /\ CountStarts(pending)' = CountStarts(pending) + (IF x = Start THEN 1 ELSE 0)

Takes(x) ==
  /\ pending' = pending
  /\ phase = "functors" /\ active = {} /\ current = Nothing /\ step = "none"
  /\ UNCHANGED <<phase, active, current, step>>
  /\ \A y : Has(batch, y) <=> Has(batch, y)' \/ y = x
  /\ \A y : Queued(y) <=> Queued(y)' \/ y = x
  /\ \A y, z : Follows(batch, y, z) <=> Follows(batch, y, z)' \/ (y = x /\ Has(batch, z)')
  /\ CountStarts(batch)' = CountStarts(batch) - (IF x = Start THEN 1 ELSE 0)

\* The pending functors become the batch.
Swaps ==
  /\ phase = "events" /\ current = Nothing /\ active = {} /\ step = "none"
  /\ \A y : (Has(batch, y)' <=> Has(pending, y)) /\ ~Has(pending, y)' /\ ~Has(batch, y)
  /\ \A y : Queued(y)' <=> Queued(y)
  /\ \A y, z : (Follows(batch, y, z)' <=> Follows(pending, y, z)) /\ ~Follows(pending, y, z)'
  /\ CountStarts(batch)' = CountStarts(pending) /\ CountStarts(pending)' = 0
  /\ CountStarts(batch) = 0

\* queueInLoop() pushes.
LEMMA PushFacts ==
  ASSUME ClientInv, NEW x \in Functors, pending' = Append(pending, x), batch' = batch
  PROVE  Pushes(x)
<1>1. pending \in Seq(Functors)
  BY TypesAre DEF ConnectorTypeOK
<1>2. x[1] = "start" <=> x = Start
  BY DEF Functors, Start
<1>3. CountStarts(pending) \in Nat
  BY <1>1, StartsFacts
<1>4. /\ \A y : Has(pending', y) <=> Has(pending, y) \/ y = x
      /\ \A y, z : Follows(pending', y, z) <=> Follows(pending, y, z) \/ (Has(pending, y) /\ z = x)
      /\ CountStarts(pending') = CountStarts(pending) + (IF x = Start THEN 1 ELSE 0)
  BY <1>1, <1>2, <1>3, AppendFacts
<1>5. \A y : Queued(y)' <=> Queued(y) \/ y = x
  BY <1>4 DEF Queued
<1>6. /\ \A y : Has(pending, y)' <=> Has(pending', y)
      /\ \A y, z : Follows(pending, y, z)' <=> Follows(pending', y, z)
      /\ CountStarts(pending)' = CountStarts(pending')
  OBVIOUS
<1>7. QED
  BY <1>4, <1>5, <1>6 DEF Pushes

\* A functor that is called is taken.
LEMMA TakeFacts ==
  ASSUME ClientInv, NEW x \in Functors, batch # <<>>, Head(batch) = x, batch' = Tail(batch),
         phase = "functors", UNCHANGED <<pending, phase, active, current, step>>
  PROVE  Takes(x)
<1>1. batch \in Seq(Functors)
  BY TypesAre DEF LoopTypes
<1>2. x[1] = "start" <=> x = Start
  BY DEF Functors, Start
<1> DEFINE r == Tail(batch)
<1>3. /\ r \in Seq(Functors)
      /\ \A y : Has(batch, y) <=> y = x \/ Has(r, y)
      /\ \A y, z : Follows(batch, y, z) <=> Follows(r, y, z) \/ (y = x /\ Has(r, z))
      /\ CountStarts(batch) = IF x[1] = "start" THEN CountStarts(r) + 1 ELSE CountStarts(r)
  BY <1>1, TailFacts
<1> HIDE DEF r
<1>4. r = batch'
  BY DEF r
<1>5. r \in Seq(Functors) /\ CountStarts(r) \in Nat
  BY <1>3, StartsFacts
<1>6. /\ \A y : Has(batch, y) <=> Has(batch, y)' \/ y = x
      /\ \A y, z : Follows(batch, y, z) <=> Follows(batch, y, z)' \/ (y = x /\ Has(batch, z)')
      /\ CountStarts(batch) = CountStarts(batch)' + (IF x = Start THEN 1 ELSE 0)
      /\ CountStarts(batch)' \in Nat
  BY <1>3, <1>2, <1>4, <1>5
<1>7. CountStarts(batch) \in Nat /\ CountStarts(batch)' \in Nat
  BY <1>1, <1>6, StartsFacts
<1>8. CountStarts(batch)' = CountStarts(batch) - (IF x = Start THEN 1 ELSE 0)
  BY <1>6, <1>7
<1>9. \A y : Queued(y) <=> Queued(y)' \/ y = x
  BY <1>6 DEF Queued
<1>10. active = {} /\ current = Nothing /\ step = "none"
  BY DEF ClientInv, LoopInv
<1>11. QED
  BY <1>6, <1>9, <1>10 DEF Takes

\* SwapFunctors swaps.
LEMMA SwapFacts ==
  ASSUME ClientInv, SwapFunctors
  PROVE  Swaps
<1>1. phase = "events" /\ current = Nothing /\ active = {} /\ step = "none" /\ batch = <<>>
  BY DEF SwapFunctors, Between, ClientInv, LoopInv
<1>2. batch' = pending /\ pending' = <<>>
  BY DEF SwapFunctors
<1>3. \A y : (Has(batch, y)' <=> Has(pending, y)) /\ ~Has(pending, y)' /\ ~Has(batch, y)
  BY <1>1, <1>2, EmptyFacts
<1>4. \A y : Queued(y)' <=> Queued(y)
  BY <1>3 DEF Queued
<1>5. \A y, z : (Follows(batch, y, z)' <=> Follows(pending, y, z)) /\ ~Follows(pending, y, z)'
  BY <1>1, <1>2, EmptyFacts
<1>6. CountStarts(batch)' = CountStarts(pending) /\ CountStarts(pending)' = 0 /\ CountStarts(batch) = 0
  BY <1>1, <1>2, EmptyFacts
<1>7. QED
  BY <1>1, <1>3, <1>4, <1>5, <1>6 DEF Swaps

\* Which action does what to the functors.
LEMMA QueueSteps ==
  ASSUME ClientInv
  PROVE  /\ SwapFunctors => Swaps
         /\ RunStart => Takes(Start)
         /\ RunReset => Takes(Reset)
         /\ \A f \in Fds : RunShutdown(f) => Takes(Shutdown(f))
         /\ \A f \in Fds : RunDestroyed(f) => Takes(Destroyed(f))
         /\ \A f \in Fds : ConnectorError(f) => Pushes(Reset)
         /\ \A f \in Fds : HandleWriteRetries(f) /\ Calling("write", f) => Pushes(Reset)
         /\ \A f \in Fds : NewConnection(f) => Pushes(Reset)
         /\ RemoveConnection => Pushes(Destroyed(current[2]))
         /\ \A c \in Callers : Connect(c) => Pushes(Start)
         /\ \A c \in Callers : DisconnectQueues(c) => /\ caller[c].fd = connection
                                                       /\ connection \in Fds
                                                       /\ Pushes(Shutdown(connection))
<1>1. RunStart => Takes(Start)
  BY FunctorsOfFds, TakeFacts DEF RunStart, Runs, Start, clientVars
<1>2. RunReset => Takes(Reset)
  BY FunctorsOfFds, TakeFacts DEF RunReset, Runs, Reset, clientVars
<1>3. ASSUME NEW f \in Fds PROVE RunShutdown(f) => Takes(Shutdown(f))
  BY FunctorsOfFds, TakeFacts DEF RunShutdown, Runs, Shutdown, clientVars
<1>4. ASSUME NEW f \in Fds PROVE RunDestroyed(f) => Takes(Destroyed(f))
  BY FunctorsOfFds, TakeFacts DEF RunDestroyed, Runs, Destroyed, clientVars
<1>5. ASSUME NEW f \in Fds PROVE ConnectorError(f) => Pushes(Reset)
  BY FunctorsOfFds, PushFacts DEF ConnectorError, Calling, HandleError, QueueReset, Reset
<1>6. ASSUME NEW f \in Fds PROVE HandleWriteRetries(f) /\ Calling("write", f) => Pushes(Reset)
  BY FunctorsOfFds, PushFacts DEF Calling, HandleWriteRetries, QueueReset, Reset
<1>7. ASSUME NEW f \in Fds PROVE NewConnection(f) => Pushes(Reset)
  BY FunctorsOfFds, PushFacts DEF NewConnection, Calling, HandleWriteConnects, QueueReset, Reset
<1>8. RemoveConnection => Pushes(Destroyed(current[2]))
  BY FunctorsOfFds, PushFacts, RestartBegins DEF RemoveConnection, dispatchVars
<1>9. ASSUME NEW c \in Callers PROVE Connect(c) => Pushes(Start)
  BY FunctorsOfFds, PushFacts DEF Connect, dispatchVars, Start
<1>10. ASSUME NEW c \in Callers, DisconnectQueues(c)
       PROVE  caller[c].fd = connection /\ connection \in Fds /\ Pushes(Shutdown(connection))
  <2>1. caller[c].fd = connection /\ connection \in Fds
    BY <1>10 DEF DisconnectQueues, ClientInv, CallerInv
  <2>2. pending' = Append(pending, Shutdown(connection)) /\ batch' = batch
    BY <1>10, <2>1 DEF DisconnectQueues, Shutdown, dispatchVars
  <2>3. QED
    BY <2>1, <2>2, FunctorsOfFds, PushFacts
<1>11. QED
  BY <1>1, <1>2, <1>3, <1>4, <1>5, <1>6, <1>7, <1>8, <1>9, <1>10, SwapFacts

\* Nothing is active and nothing is being handled.
LEMMA QuietEvents ==
  ASSUME active' = {}, current' = Nothing, step' = "none"
  PROVE  EventInv'
  BY DEF EventInv, Nothing

\* What was found by poll() or is being handled stays true until it is done.
LEMMA EventStep ==
  ASSUME ClientInv, [Next]_vars
  PROVE  EventInv'
<1>1. CASE UNCHANGED vars
  BY <1>1 DEF ClientInv, EventInv, Queued, vars, connectorVars, clientVars, dispatchVars
<1>2. CASE Poll
  <2>1. /\ current' = Nothing /\ step' = step /\ UNCHANGED <<connectorVars, pending, batch, connection>>
        /\ current = Nothing
    BY <1>2, PollFinds DEF Poll, clientVars
  <2>2. step = "none"
    BY <2>1 DEF ClientInv, LoopInv
  <2>3. Queued(Reset)' <=> Queued(Reset)
    BY <2>1 DEF Queued
  <2>4. Nothing[1] \notin {"connector", "refused", "connection"}
    BY DEF Nothing
  <2>5. QED
    BY <1>2, <2>1, <2>2, <2>3, <2>4, PollFinds DEF EventInv, connectorVars
<1>3. ASSUME NEW ch \in Channels, Dispatch(ch) PROVE EventInv'
  <2>1. /\ active' = {} /\ current' = ch /\ toCall' = Callbacks[ch[1]]
        /\ UNCHANGED <<connectorVars, pending, connection, step>>
        /\ step = "none"
    BY <1>3 DEF Dispatch, ClientInv, LoopInv, clientVars
  <2>2. ch \in active /\ ch # Timer
    BY <1>3 DEF Dispatch
  <2>3. PICK k \in {"connector", "refused", "connection"}, f \in Fds : ch = <<k, f>>
    BY <2>2 DEF ClientInv, LoopInv
  <2>4. /\ k \in {"connector", "refused"} => state = "kConnecting" /\ channel = f
        /\ k = "connection" => connection = f /\ state # "kConnecting"
    BY <2>2, <2>3, NoFdAssumption, AttemptFacts DEF ClientInv, EventInv
  <2>5. ~Has(pending, Reset)
    BY <2>2 DEF ClientInv, ChannelInv
  <2>6. /\ k \in {"connector", "refused"} => toCall' \subseteq {"error", "write"}
        /\ k = "connection" => toCall' \subseteq {"close"}
    BY <2>1, <2>3 DEF Callbacks
  <2>7. ch[1] = k /\ ch[2] = f
    BY <2>3
  <2>8. QED
    BY <2>1, <2>4, <2>5, <2>6, <2>7 DEF EventInv, connectorVars
<1>4. CASE EventHandled
  BY <1>4 DEF ClientInv, EventInv, LoopInv, Nothing, EventHandled, clientVars
<1>5. CASE TimerExpires
  BY <1>5, AttemptFacts DEF ClientInv, EventInv, Nothing, TimerExpires, Between, clientVars
<1>6. CASE SwapFunctors
  BY <1>6 DEF ClientInv, EventInv, Nothing, SwapFunctors, Between, clientVars
<1>7. CASE RunStart
  BY <1>7, QueueSteps, QuietEvents DEF Takes
<1>8. CASE RunReset
  BY <1>8 DEF ClientInv, EventInv, LoopInv, Timer, Nothing, RunReset, Runs, ResetChannel,
       clientVars
<1>9. ASSUME NEW f \in Fds, RunShutdown(f) PROVE EventInv'
  BY <1>9 DEF ClientInv, EventInv, LoopInv, Timer, Nothing, RunShutdown, Runs, clientVars
<1>10. ASSUME NEW f \in Fds, RunDestroyed(f) PROVE EventInv'
  BY <1>10 DEF ClientInv, EventInv, LoopInv, RunDestroyed, Runs, connectorVars, clientVars
<1>11. CASE FunctorsDone
  BY <1>11 DEF ClientInv, EventInv, LoopInv, FunctorsDone, connectorVars
<1>12. ASSUME NEW f \in Fds, ConnectorError(f) PROVE EventInv'
  BY <1>12 DEF ClientInv, EventInv, LoopInv, ConnectorError, Calling, HandleError, QueueReset,
       Retry, TryLater, clientVars
<1>13. ASSUME NEW f \in Fds, ConnectorWrite(f) PROVE EventInv'
  BY <1>13 DEF ClientInv, EventInv, LoopInv, ConnectorWrite, Calling, HandleWriteRetries,
       HandleWriteLate, QueueReset, connectorVars, clientVars
<1>14. ASSUME NEW f \in Fds, NewConnection(f) PROVE EventInv'
  BY <1>14 DEF ClientInv, EventInv, LoopInv, NewConnection, Calling, HandleWriteConnects,
       QueueReset
<1>15. CASE Establish
  BY <1>15, AttemptFacts, NoFdAssumption DEF ClientInv, EventInv, Establish, connectorVars,
       dispatchVars
<1>16. ASSUME NEW f \in Fds, HandleClose(f) PROVE EventInv'
  BY <1>16 DEF ClientInv, EventInv, LoopInv, HandleClose, Calling
<1>17. CASE RemoveConnection
  <2>1. /\ current[1] = "connection" /\ toCall = {} /\ active = {} /\ step' = "none"
        /\ ~Has(pending, Reset)
    BY <1>17, RestartBegins DEF Queued
  <2>2. UNCHANGED <<active, current, toCall>>
    BY <1>17 DEF RemoveConnection, dispatchVars
  <2>3. Reset # Destroyed(current[2])
    BY FunctorsOfFds
  <2>4. ~Has(pending, Reset)'
    BY <1>17, <2>1, <2>3, QueueSteps DEF Pushes
  <2>5. QED
    BY <2>1, <2>2, <2>4 DEF EventInv
<1>18. CASE LoopConnect
  <2>1. /\ toCall = {} /\ step = "none" /\ current[1] \notin {"connector", "refused"}
        /\ timers = 0 /\ state # "kConnecting" /\ connection = NoFd /\ ~Queued(Reset)
    BY <1>18, LoopConnectBegins
  <2>2. UNCHANGED <<active, current, toCall, step, connection, pending>>
    BY <1>18 DEF LoopConnect, dispatchVars
  <2>3. ~Has(pending, Reset)'
    BY <2>1, <2>2 DEF Queued
  <2>4. ASSUME NEW x \in active PROVE FALSE
    <3>1. x # Timer
      BY <2>1, <2>4 DEF ClientInv, EventInv
    <3>2. PICK k \in {"connector", "refused", "connection"}, f \in Fds : x = <<k, f>>
      BY <2>4, <3>1 DEF ClientInv, LoopInv
    <3>3. QED
      BY <2>1, <3>2, NoFdAssumption DEF ClientInv, EventInv
  <2>5. QED
    BY <2>1, <2>2, <2>3, <2>4 DEF EventInv
<1>19. CASE LoopDisconnect
  BY <1>19 DEF ClientInv, EventInv, Queued, LoopDisconnect, connectorVars, dispatchVars
<1>20. ASSUME NEW c \in Callers, Connect(c) PROVE EventInv'
  <2>1. (Queued(Reset)' <=> Queued(Reset)) /\ (Has(pending, Reset)' <=> Has(pending, Reset))
    BY <1>20, QueueSteps, FunctorsOfFds DEF Pushes
  <2>2. UNCHANGED <<active, current, toCall, step, connection, timers, state, channel>>
    BY <1>20 DEF Connect, dispatchVars, connectorVars
  <2>3. QED
    BY <2>1, <2>2 DEF ClientInv, EventInv
<1>21. ASSUME NEW c \in Callers, Disconnect(c) PROVE EventInv'
  BY <1>21 DEF ClientInv, EventInv, Queued, Disconnect, connectorVars, dispatchVars
<1>22. ASSUME NEW c \in Callers, DisconnectLocks(c) PROVE EventInv'
  BY <1>22 DEF ClientInv, EventInv, Queued, DisconnectLocks, connectorVars, dispatchVars
<1>23. ASSUME NEW c \in Callers, DisconnectSets(c) PROVE EventInv'
  BY <1>23 DEF ClientInv, EventInv, Queued, DisconnectSets, connectorVars, dispatchVars
<1>24. ASSUME NEW c \in Callers, DisconnectQueues(c) PROVE EventInv'
  <2>1. (Queued(Reset)' <=> Queued(Reset)) /\ (Has(pending, Reset)' <=> Has(pending, Reset))
    BY <1>24, QueueSteps, FunctorsOfFds DEF Pushes
  <2>2. UNCHANGED <<active, current, toCall, step, connection, timers, state, channel>>
    BY <1>24 DEF DisconnectQueues, dispatchVars, connectorVars
  <2>3. QED
    BY <2>1, <2>2 DEF ClientInv, EventInv
<1>25. ASSUME NEW f \in Fds, Network(f) PROVE EventInv'
  BY <1>25 DEF ClientInv, EventInv, Queued, Network, connectorVars, clientVars, dispatchVars
<1>26. QED
  BY <1>1, <1>2, <1>3, <1>4, <1>5, <1>6, <1>7, <1>8, <1>9, <1>10, <1>11, <1>12, <1>13, <1>14,
       <1>15, <1>16, <1>17, <1>18, <1>19, <1>20, <1>21, <1>22, <1>23, <1>24, <1>25, NextCases

\* The functor of startInLoop() that runs was the only one.
LEMMA LastStart ==
  ASSUME ClientInv, RunStart
  PROVE  ~Queued(Start)' /\ CountStarts(batch)' = 0 /\ CountStarts(pending)' = 0
<1>1. Takes(Start)
  BY QueueSteps
<1>2. Queued(Start)
  BY <1>1 DEF Takes
<1>3. /\ CountStarts(batch) \in Nat /\ CountStarts(pending) \in Nat
      /\ CountStarts(pending) + CountStarts(batch) = 1
  BY <1>2, AttemptFacts
<1>4. batch' \in Seq(Functors) /\ pending' \in Seq(Functors) /\ pending' = pending
  BY TypesAre DEF LoopTypes, ConnectorTypeOK, RunStart, Runs
<1>5. CountStarts(batch') \in Nat /\ CountStarts(batch') = CountStarts(batch) - 1
  BY <1>1, <1>4, StartsFacts DEF Takes
<1>6. CountStarts(batch') = 0 /\ CountStarts(pending') = 0
  BY <1>3, <1>4, <1>5
<1>7. ~Has(batch', Start) /\ ~Has(pending', Start)
  BY <1>4, <1>6, StartsFacts
<1>8. QED
  BY <1>6, <1>7 DEF Queued

\* A callback is called while its channel is handled.
LEMMA CallingFacts ==
  ASSUME ClientInv, NEW r, NEW f, Calling(r, f)
  PROVE  /\ current # Nothing /\ current[2] = f /\ step = "none" /\ r \in toCall
         /\ phase = "events" /\ active = {} /\ batch = <<>> /\ dying = {}
         /\ UNCHANGED <<phase, active, current, batch, dying>> /\ toCall' = toCall \ {r}
         /\ r \in {"error", "write"} => /\ current[1] \in {"connector", "refused"}
                                         /\ channel = f
         /\ r = "error" => state = "kConnecting"
         /\ r = "write" => state # "kConnected" /\ "error" \notin toCall
         /\ r = "close" => /\ current[1] = "connection" /\ connection = f
                           /\ ~Queued(Reset)
<1>1. /\ current # Nothing /\ current[2] = f /\ step = "none" /\ r \in toCall
      /\ UNCHANGED <<phase, active, current, batch, dying>> /\ toCall' = toCall \ {r}
      /\ r = "write" => "error" \notin toCall
  BY DEF Calling, ClientInv, LoopInv
<1>2. phase = "events" /\ active = {} /\ batch = <<>> /\ dying = {}
  BY <1>1 DEF ClientInv, LoopInv
<1>3. current[1] \in {"connector", "refused", "connection"}
  BY <1>1 DEF ClientInv, LoopInv
<1>4. /\ r \in {"error", "write"} => current[1] \in {"connector", "refused"}
      /\ r = "close" => current[1] = "connection"
  BY <1>1, <1>3 DEF ClientInv, EventInv
<1>5. ~Has(batch, Reset)
  BY <1>2, EmptyFacts
<1>6. QED
  BY <1>1, <1>2, <1>3, <1>5 DEF ClientInv, EventInv, Queued

\* startInLoop() keeps ChannelInv when nothing was going on.
LEMMA BeginsChannel ==
  ASSUME Begins, channel = NoFd, ~Queued(Reset)', ~watched
  PROVE  ChannelInv'
<1>1. ~Has(pending, Reset)'
  BY DEF Queued
<1>2. CASE state' = "kConnecting"
  BY <1>1, <1>2 DEF Begins, ChannelInv
<1>3. CASE state' # "kConnecting"
  <2>1. UNCHANGED <<channel, watched>>
    BY <1>3 DEF Begins
  <2>2. QED
    BY <1>1, <1>3, <2>1 DEF ChannelInv
<1>4. QED
  BY <1>2, <1>3

\* An attempt has a channel; without one it is gone or about to be reset.
LEMMA ChannelStep ==
  ASSUME ClientInv, [Next]_vars
  PROVE  ChannelInv'
<1>1. CASE UNCHANGED vars
  BY <1>1 DEF ClientInv, ChannelInv, Queued, vars, connectorVars, clientVars, dispatchVars
<1>2. CASE Poll
  BY <1>2 DEF ClientInv, ChannelInv, Queued, Poll, connectorVars, clientVars
<1>3. ASSUME NEW ch \in Channels, Dispatch(ch) PROVE ChannelInv'
  BY <1>3 DEF ClientInv, ChannelInv, Queued, Dispatch, connectorVars, clientVars
<1>4. CASE EventHandled
  BY <1>4 DEF ClientInv, ChannelInv, Queued, EventHandled, connectorVars, clientVars
<1>5. CASE TimerExpires
  <2>1. Begins /\ channel = NoFd /\ ~Queued(Reset) /\ ~watched
    BY <1>5, TimerBegins DEF ClientInv, ChannelInv
  <2>2. ~Queued(Reset)'
    BY <1>5, <2>1 DEF TimerExpires, Queued
  <2>3. QED
    BY <2>1, <2>2, BeginsChannel
<1>6. CASE SwapFunctors
  <2>1. (Queued(Reset)' <=> Queued(Reset)) /\ ~Has(pending, Reset)'
    BY <1>6, QueueSteps DEF Swaps
  <2>2. UNCHANGED <<connectorVars, connection>>
    BY <1>6 DEF SwapFunctors, clientVars
  <2>3. QED
    BY <2>1, <2>2 DEF ClientInv, ChannelInv, connectorVars
<1>7. CASE RunStart
  <2>1. Begins /\ channel = NoFd /\ ~Queued(Reset) /\ ~watched
    BY <1>7, RunStartBegins DEF ClientInv, ChannelInv
  <2>2. ~Queued(Reset)'
    BY <1>7, <2>1, QueueSteps DEF Takes
  <2>3. QED
    BY <2>1, <2>2, BeginsChannel
<1>8. CASE RunReset
  <2>1. /\ Queued(Reset) /\ (Queued(Reset)' => Queued(Reset))
        /\ Has(pending, Reset)' <=> Has(pending, Reset)
        /\ UNCHANGED <<phase, active>>
    BY <1>8, QueueSteps DEF Takes
  <2>2. channel' = NoFd /\ UNCHANGED <<state, watched, timers, connection>>
    BY <1>8 DEF RunReset, ResetChannel, clientVars
  <2>3. QED
    BY <2>1, <2>2 DEF ClientInv, ChannelInv
<1>9. ASSUME NEW f \in Fds, RunShutdown(f) PROVE ChannelInv'
  <2>1. (Queued(Reset)' <=> Queued(Reset)) /\ (Has(pending, Reset)' <=> Has(pending, Reset))
    BY <1>9, QueueSteps, FunctorsOfFds DEF Takes
  <2>2. UNCHANGED <<connectorVars, connection, phase, active>>
    BY <1>9 DEF RunShutdown, Runs, clientVars
  <2>3. QED
    BY <2>1, <2>2 DEF ClientInv, ChannelInv, connectorVars
<1>10. ASSUME NEW f \in Fds, RunDestroyed(f) PROVE ChannelInv'
  <2>1. (Queued(Reset)' <=> Queued(Reset)) /\ (Has(pending, Reset)' <=> Has(pending, Reset))
    BY <1>10, QueueSteps, FunctorsOfFds DEF Takes
  <2>2. UNCHANGED <<connectorVars, connection, phase, active>>
    BY <1>10 DEF RunDestroyed, Runs, clientVars
  <2>3. QED
    BY <2>1, <2>2 DEF ClientInv, ChannelInv, connectorVars
<1>11. CASE FunctorsDone
  BY <1>11 DEF ClientInv, ChannelInv, Queued, FunctorsDone, connectorVars
<1>12. ASSUME NEW f \in Fds, ConnectorError(f) PROVE ChannelInv'
  <2>1. Queued(Reset)' /\ phase' = "events" /\ active' = {}
    BY <1>12, QueueSteps, CallingFacts DEF Pushes, ConnectorError
  <2>2. timers' > 0 /\ watched' = FALSE /\ state' = "kDisConnected"
    BY <1>12, AttemptFacts DEF ConnectorError, HandleError, Retry, TryLater, Armed
  <2>3. QED
    BY <2>1, <2>2 DEF ChannelInv
<1>13. ASSUME NEW f \in Fds, ConnectorWrite(f) PROVE ChannelInv'
  <2>1. CASE HandleWriteLate(f)
    <3>1. UNCHANGED <<connectorVars, connection, phase, active, batch, pending>>
      BY <1>13, <2>1 DEF ConnectorWrite, Calling, HandleWriteLate, clientVars
    <3>2. QED
      BY <3>1 DEF ClientInv, ChannelInv, connectorVars, Queued
  <2>2. CASE HandleWriteRetries(f)
    <3>1. Queued(Reset)' /\ phase' = "events" /\ active' = {}
      BY <1>13, <2>2, QueueSteps, CallingFacts DEF Pushes, ConnectorWrite
    <3>2. timers' > 0 /\ watched' = FALSE /\ state' = "kDisConnected"
      BY <2>2, AttemptFacts DEF HandleWriteRetries, Retry, TryLater, Armed
    <3>3. QED
      BY <3>1, <3>2 DEF ChannelInv
  <2>3. QED
    BY <1>13, <2>1, <2>2 DEF ConnectorWrite
<1>14. ASSUME NEW f \in Fds, NewConnection(f) PROVE ChannelInv'
  <2>1. Queued(Reset)' /\ phase' = "events" /\ active' = {}
    BY <1>14, QueueSteps, CallingFacts DEF Pushes, NewConnection
  <2>2. connection' # NoFd /\ watched' = FALSE /\ state' = "kConnected"
    BY <1>14, NoFdAssumption DEF NewConnection, HandleWriteConnects
  <2>3. QED
    BY <2>1, <2>2 DEF ChannelInv
<1>15. CASE Establish
  BY <1>15 DEF ClientInv, ChannelInv, Queued, Establish, connectorVars, dispatchVars
<1>16. ASSUME NEW f \in Fds, HandleClose(f) PROVE ChannelInv'
  BY <1>16 DEF ClientInv, ChannelInv, Queued, HandleClose, Calling, connectorVars
<1>17. CASE RemoveConnection
  <2>1. channel = NoFd /\ ~Queued(Reset) /\ ~watched /\ state # "kConnecting"
    BY <1>17, RestartBegins DEF ClientInv, ChannelInv
  <2>2. ~Queued(Reset)'
    BY <1>17, <2>1, QueueSteps, FunctorsOfFds DEF Pushes
  <2>3. CASE Begins
    BY <2>1, <2>2, <2>3, BeginsChannel
  <2>4. CASE UNCHANGED <<connectorVars, sock, failed>>
    <3>1. ~Has(pending, Reset)'
      BY <2>2 DEF Queued
    <3>2. QED
      BY <2>1, <2>2, <2>4, <3>1 DEF ChannelInv, connectorVars
  <2>5. QED
    BY <1>17, <2>3, <2>4, RestartBegins
<1>18. CASE LoopConnect
  <2>1. Begins /\ channel = NoFd /\ ~Queued(Reset) /\ ~watched
    BY <1>18, LoopConnectBegins DEF ClientInv, ChannelInv
  <2>2. ~Queued(Reset)'
    BY <1>18, <2>1 DEF LoopConnect, dispatchVars, Queued
  <2>3. QED
    BY <2>1, <2>2, BeginsChannel
<1>19. CASE LoopDisconnect
  BY <1>19 DEF ClientInv, ChannelInv, Queued, LoopDisconnect, connectorVars, dispatchVars
<1>20. ASSUME NEW c \in Callers, Connect(c) PROVE ChannelInv'
  <2>1. (Queued(Reset)' <=> Queued(Reset)) /\ (Has(pending, Reset)' <=> Has(pending, Reset))
    BY <1>20, QueueSteps, FunctorsOfFds DEF Pushes
  <2>2. UNCHANGED <<connectorVars, connection, phase, active>>
    BY <1>20 DEF Connect, dispatchVars
  <2>3. QED
    BY <2>1, <2>2 DEF ClientInv, ChannelInv, connectorVars
<1>21. ASSUME NEW c \in Callers, Disconnect(c) PROVE ChannelInv'
  BY <1>21 DEF ClientInv, ChannelInv, Queued, Disconnect, connectorVars, dispatchVars
<1>22. ASSUME NEW c \in Callers, DisconnectLocks(c) PROVE ChannelInv'
  BY <1>22 DEF ClientInv, ChannelInv, Queued, DisconnectLocks, connectorVars, dispatchVars
<1>23. ASSUME NEW c \in Callers, DisconnectSets(c) PROVE ChannelInv'
  BY <1>23 DEF ClientInv, ChannelInv, Queued, DisconnectSets, connectorVars, dispatchVars
<1>24. ASSUME NEW c \in Callers, DisconnectQueues(c) PROVE ChannelInv'
  <2>1. (Queued(Reset)' <=> Queued(Reset)) /\ (Has(pending, Reset)' <=> Has(pending, Reset))
    BY <1>24, QueueSteps, FunctorsOfFds DEF Pushes
  <2>2. UNCHANGED <<connectorVars, connection, phase, active>>
    BY <1>24 DEF DisconnectQueues, dispatchVars
  <2>3. QED
    BY <2>1, <2>2 DEF ClientInv, ChannelInv, connectorVars
<1>25. ASSUME NEW f \in Fds, Network(f) PROVE ChannelInv'
  BY <1>25 DEF ClientInv, ChannelInv, Queued, Network, connectorVars, clientVars, dispatchVars
<1>26. QED
  BY <1>1, <1>2, <1>3, <1>4, <1>5, <1>6, <1>7, <1>8, <1>9, <1>10, <1>11, <1>12, <1>13, <1>14,
       <1>15, <1>16, <1>17, <1>18, <1>19, <1>20, <1>21, <1>22, <1>23, <1>24, <1>25, NextCases

\* startInLoop() leaves a connector that is not connected, or that tries.
LEMMA BeginsStart ==
  ASSUME Begins, ~Queued(Start)'
  PROVE  StartInv'
  BY DEF Begins, StartInv

\* Whatever calls startInLoop() later finds kDisConnected.
LEMMA StartStep ==
  ASSUME ClientInv, [Next]_vars
  PROVE  StartInv'
<1>1. CASE UNCHANGED vars
  BY <1>1 DEF ClientInv, StartInv, Queued, vars, connectorVars, dispatchVars
<1>2. CASE Poll
  BY <1>2 DEF ClientInv, StartInv, Queued, Poll, connectorVars
<1>3. ASSUME NEW ch \in Channels, Dispatch(ch) PROVE StartInv'
  BY <1>3 DEF ClientInv, StartInv, Queued, Dispatch, connectorVars
<1>4. CASE EventHandled
  BY <1>4 DEF ClientInv, StartInv, Queued, EventHandled, connectorVars
<1>5. CASE TimerExpires
  <2>1. Begins
    BY <1>5, TimerBegins
  <2>2. ~Queued(Start)'
    BY <1>5, TimerBegins DEF TimerExpires, Queued
  <2>3. QED
    BY <2>1, <2>2, BeginsStart
<1>6. CASE SwapFunctors
  <2>1. Queued(Start)' => Queued(Start)
    BY <1>6, QueueSteps, FunctorsOfFds DEF Swaps
  <2>2. UNCHANGED <<timers, state>>
    BY <1>6 DEF SwapFunctors, connectorVars
  <2>3. QED
    BY <2>1, <2>2 DEF ClientInv, StartInv
<1>7. CASE RunStart
  <2>1. Begins /\ timers = 0
    BY <1>7, RunStartBegins
  <2>2. ~Queued(Start)'
    BY <1>7, LastStart
  <2>3. QED
    BY <2>1, <2>2, BeginsStart
<1>8. CASE RunReset
  <2>1. Queued(Start)' => Queued(Start)
    BY <1>8, QueueSteps, FunctorsOfFds DEF Takes
  <2>2. UNCHANGED <<timers, state>>
    BY <1>8 DEF RunReset, ResetChannel
  <2>3. QED
    BY <2>1, <2>2 DEF ClientInv, StartInv
<1>9. ASSUME NEW f \in Fds, RunShutdown(f) PROVE StartInv'
  <2>1. Queued(Start)' => Queued(Start)
    BY <1>9, QueueSteps, FunctorsOfFds DEF Takes
  <2>2. UNCHANGED <<timers, state>>
    BY <1>9 DEF RunShutdown, Runs, connectorVars
  <2>3. QED
    BY <2>1, <2>2 DEF ClientInv, StartInv
<1>10. ASSUME NEW f \in Fds, RunDestroyed(f) PROVE StartInv'
  <2>1. Queued(Start)' => Queued(Start)
    BY <1>10, QueueSteps, FunctorsOfFds DEF Takes
  <2>2. UNCHANGED <<timers, state>>
    BY <1>10 DEF RunDestroyed, Runs, connectorVars
  <2>3. QED
    BY <2>1, <2>2 DEF ClientInv, StartInv
<1>11. CASE FunctorsDone
  BY <1>11 DEF ClientInv, StartInv, Queued, FunctorsDone, connectorVars
<1>12. ASSUME NEW f \in Fds, ConnectorError(f) PROVE StartInv'
  BY <1>12 DEF StartInv, ConnectorError, HandleError, Retry, TryLater
<1>13. ASSUME NEW f \in Fds, ConnectorWrite(f) PROVE StartInv'
  BY <1>13 DEF ClientInv, StartInv, Queued, ConnectorWrite, Calling, HandleWriteRetries,
       HandleWriteLate, Retry, TryLater, connectorVars
<1>14. ASSUME NEW f \in Fds, NewConnection(f) PROVE StartInv'
  <2>1. timers = 0 /\ ~Queued(Start) /\ timers' = timers
    BY <1>14, AttemptFacts DEF NewConnection, HandleWriteConnects
  <2>2. ~Queued(Start)'
    BY <1>14, <2>1, QueueSteps, FunctorsOfFds DEF Pushes
  <2>3. QED
    BY <2>1, <2>2, AttemptFacts DEF StartInv
<1>15. CASE Establish
  BY <1>15 DEF ClientInv, StartInv, Queued, Establish, connectorVars, dispatchVars
<1>16. ASSUME NEW f \in Fds, HandleClose(f) PROVE StartInv'
  BY <1>16 DEF ClientInv, StartInv, Queued, HandleClose, Calling, connectorVars
<1>17. CASE RemoveConnection
  <2>1. timers = 0 /\ ~Queued(Start)
    BY <1>17, RestartBegins
  <2>2. ~Queued(Start)'
    BY <1>17, <2>1, QueueSteps, FunctorsOfFds DEF Pushes
  <2>3. CASE Begins
    BY <2>2, <2>3, BeginsStart
  <2>4. CASE UNCHANGED <<connectorVars, sock, failed>>
    BY <2>1, <2>2, <2>4 DEF StartInv, connectorVars
  <2>5. QED
    BY <1>17, <2>3, <2>4, RestartBegins
<1>18. CASE LoopConnect
  <2>1. Begins
    BY <1>18, LoopConnectBegins
  <2>2. ~Queued(Start)'
    BY <1>18, LoopConnectBegins DEF LoopConnect, dispatchVars, Queued
  <2>3. QED
    BY <2>1, <2>2, BeginsStart
<1>19. CASE LoopDisconnect
  BY <1>19 DEF ClientInv, StartInv, Queued, LoopDisconnect, connectorVars, dispatchVars
<1>20. ASSUME NEW c \in Callers, Connect(c) PROVE StartInv'
  <2>1. state' = "kDisConnected"
    BY <1>20 DEF Connect, MayConnect, connectorVars
  <2>2. QED
    BY <2>1 DEF StartInv
<1>21. ASSUME NEW c \in Callers, Disconnect(c) PROVE StartInv'
  BY <1>21 DEF ClientInv, StartInv, Queued, Disconnect, connectorVars, dispatchVars
<1>22. ASSUME NEW c \in Callers, DisconnectLocks(c) PROVE StartInv'
  BY <1>22 DEF ClientInv, StartInv, Queued, DisconnectLocks, connectorVars, dispatchVars
<1>23. ASSUME NEW c \in Callers, DisconnectSets(c) PROVE StartInv'
  BY <1>23 DEF ClientInv, StartInv, Queued, DisconnectSets, connectorVars, dispatchVars
<1>24. ASSUME NEW c \in Callers, DisconnectQueues(c) PROVE StartInv'
  <2>1. Queued(Start)' => Queued(Start)
    BY <1>24, QueueSteps, FunctorsOfFds DEF Pushes
  <2>2. UNCHANGED <<timers, state>>
    BY <1>24 DEF DisconnectQueues, connectorVars
  <2>3. QED
    BY <2>1, <2>2 DEF ClientInv, StartInv
<1>25. ASSUME NEW f \in Fds, Network(f) PROVE StartInv'
  BY <1>25 DEF ClientInv, StartInv, Queued, Network, connectorVars, dispatchVars
<1>26. QED
  BY <1>1, <1>2, <1>3, <1>4, <1>5, <1>6, <1>7, <1>8, <1>9, <1>10, <1>11, <1>12, <1>13, <1>14,
       <1>15, <1>16, <1>17, <1>18, <1>19, <1>20, <1>21, <1>22, <1>23, <1>24, <1>25, NextCases

\* A thread in disconnect() has the present connection, by the mutex.
LEMMA CallerStep ==
  ASSUME ClientInv, [Next]_vars
  PROVE  CallerInv'
<1>1. CASE UNCHANGED vars
  BY <1>1 DEF ClientInv, CallerInv, vars, clientVars
<1>2. CASE Poll
  BY <1>2 DEF ClientInv, CallerInv, Poll, clientVars
<1>3. ASSUME NEW ch \in Channels, Dispatch(ch) PROVE CallerInv'
  BY <1>3 DEF ClientInv, CallerInv, Dispatch, clientVars
<1>4. CASE EventHandled
  BY <1>4 DEF ClientInv, CallerInv, EventHandled, clientVars
<1>5. CASE TimerExpires
  BY <1>5 DEF ClientInv, CallerInv, TimerExpires, clientVars
<1>6. CASE SwapFunctors
  BY <1>6 DEF ClientInv, CallerInv, SwapFunctors, clientVars
<1>7. CASE RunStart
  BY <1>7 DEF ClientInv, CallerInv, RunStart, clientVars
<1>8. CASE RunReset
  BY <1>8 DEF ClientInv, CallerInv, RunReset, clientVars
<1>9. ASSUME NEW f \in Fds, RunShutdown(f) PROVE CallerInv'
  BY <1>9 DEF ClientInv, CallerInv, RunShutdown, clientVars
<1>10. ASSUME NEW f \in Fds, RunDestroyed(f) PROVE CallerInv'
  BY <1>10 DEF ClientInv, CallerInv, RunDestroyed, clientVars
<1>11. CASE FunctorsDone
  BY <1>11 DEF ClientInv, CallerInv, FunctorsDone
<1>12. ASSUME NEW f \in Fds, ConnectorError(f) PROVE CallerInv'
  BY <1>12 DEF ClientInv, CallerInv, ConnectorError, clientVars
<1>13. ASSUME NEW f \in Fds, ConnectorWrite(f) PROVE CallerInv'
  BY <1>13 DEF ClientInv, CallerInv, ConnectorWrite, clientVars
<1>14. ASSUME NEW f \in Fds, NewConnection(f) PROVE CallerInv'
  BY <1>14 DEF CallerInv, Locked, MutexFree, NewConnection
<1>15. CASE Establish
  BY <1>15 DEF ClientInv, CallerInv, Establish
<1>16. ASSUME NEW f \in Fds, HandleClose(f) PROVE CallerInv'
  BY <1>16 DEF ClientInv, CallerInv, HandleClose
<1>17. CASE RemoveConnection
  BY <1>17 DEF CallerInv, Locked, MutexFree, RemoveConnection
<1>18. CASE LoopConnect
  BY <1>18 DEF ClientInv, CallerInv, LoopConnect
<1>19. CASE LoopDisconnect
  BY <1>19 DEF ClientInv, CallerInv, LoopDisconnect
<1>20. ASSUME NEW c \in Callers, Connect(c) PROVE CallerInv'
  BY <1>20 DEF ClientInv, CallerInv, Connect
<1>21. ASSUME NEW c \in Callers, Disconnect(c) PROVE CallerInv'
  BY <1>21 DEF ClientInv, CallerInv, Disconnect
<1>22. ASSUME NEW c \in Callers, DisconnectLocks(c) PROVE CallerInv'
  BY <1>22, TypesAre DEF ClientInv, CallerInv, ClientTypes, Away, DisconnectLocks
<1>23. ASSUME NEW c \in Callers, DisconnectSets(c) PROVE CallerInv'
  BY <1>23 DEF ClientInv, CallerInv, DisconnectSets
<1>24. ASSUME NEW c \in Callers, DisconnectQueues(c) PROVE CallerInv'
  BY <1>24 DEF ClientInv, CallerInv, Away, DisconnectQueues
<1>25. ASSUME NEW f \in Fds, Network(f) PROVE CallerInv'
  BY <1>25 DEF ClientInv, CallerInv, Network, clientVars
<1>26. QED
  BY <1>1, <1>2, <1>3, <1>4, <1>5, <1>6, <1>7, <1>8, <1>9, <1>10, <1>11, <1>12, <1>13, <1>14,
       <1>15, <1>16, <1>17, <1>18, <1>19, <1>20, <1>21, <1>22, <1>23, <1>24, <1>25, NextCases

\* No step fails an assertion.
LEMMA FailStep ==
  ASSUME ClientInv, [Next]_vars
  PROVE  AssertionsHold'
<1>1. CASE UNCHANGED vars
  BY <1>1 DEF ClientInv, AssertionsHold, vars
<1>2. CASE Poll
  BY <1>2 DEF ClientInv, AssertionsHold, Poll
<1>3. ASSUME NEW ch \in Channels, Dispatch(ch) PROVE AssertionsHold'
  BY <1>3 DEF ClientInv, AssertionsHold, Dispatch
<1>4. CASE EventHandled
  BY <1>4 DEF ClientInv, AssertionsHold, EventHandled
<1>5. CASE TimerExpires
  BY <1>5, TimerBegins DEF Begins, ClientInv, AssertionsHold
<1>6. CASE SwapFunctors
  BY <1>6 DEF ClientInv, AssertionsHold, SwapFunctors
<1>7. CASE RunStart
  BY <1>7, RunStartBegins DEF Begins, ClientInv, AssertionsHold
<1>8. CASE RunReset
  BY <1>8 DEF ClientInv, AssertionsHold, RunReset, ResetChannel
<1>9. ASSUME NEW f \in Fds, RunShutdown(f) PROVE AssertionsHold'
  <2>1. Queued(Shutdown(f))
    BY <1>9, QueueSteps DEF Takes
  <2>2. connState[f] # "none"
    BY <2>1 DEF ClientInv, ShutdownInv
  <2>3. QED
    BY <1>9, <2>2 DEF RunShutdown, ClientInv, AssertionsHold
<1>10. ASSUME NEW f \in Fds, RunDestroyed(f) PROVE AssertionsHold'
  BY <1>10 DEF ClientInv, AssertionsHold, RunDestroyed
<1>11. CASE FunctorsDone
  BY <1>11 DEF ClientInv, AssertionsHold, FunctorsDone
<1>12. ASSUME NEW f \in Fds, ConnectorError(f) PROVE AssertionsHold'
  <2>1. state = "kConnecting"
    BY <1>12, CallingFacts DEF ConnectorError
  <2>2. QED
    BY <1>12, <2>1 DEF ConnectorError, HandleError, ClientInv, AssertionsHold
<1>13. ASSUME NEW f \in Fds, ConnectorWrite(f) PROVE AssertionsHold'
  <2>1. state # "kConnected"
    BY <1>13, CallingFacts DEF ConnectorWrite
  <2>2. state \in {"kDisConnected", "kConnecting", "kConnected"}
    BY TypesAre DEF ConnectorTypeOK
  <2>3. failed' = failed
    BY <1>13, <2>1, <2>2 DEF ConnectorWrite, HandleWriteRetries, HandleWriteLate
  <2>4. QED
    BY <2>3 DEF ClientInv, AssertionsHold
<1>14. ASSUME NEW f \in Fds, NewConnection(f) PROVE AssertionsHold'
  BY <1>14 DEF ClientInv, AssertionsHold, NewConnection, HandleWriteConnects
<1>15. CASE Establish
  BY <1>15 DEF ClientInv, AssertionsHold, Establish
<1>16. ASSUME NEW f \in Fds, HandleClose(f) PROVE AssertionsHold'
  BY <1>16 DEF ClientInv, AssertionsHold, HandleClose
<1>17. CASE RemoveConnection
  <2>1. failed' = failed
    BY <1>17, RestartBegins DEF Begins
  <2>2. QED
    BY <2>1 DEF ClientInv, AssertionsHold
<1>18. CASE LoopConnect
  BY <1>18, LoopConnectBegins DEF Begins, ClientInv, AssertionsHold
<1>19. CASE LoopDisconnect
  BY <1>19 DEF ClientInv, AssertionsHold, LoopDisconnect
<1>20. ASSUME NEW c \in Callers, Connect(c) PROVE AssertionsHold'
  BY <1>20 DEF ClientInv, AssertionsHold, Connect
<1>21. ASSUME NEW c \in Callers, Disconnect(c) PROVE AssertionsHold'
  BY <1>21 DEF ClientInv, AssertionsHold, Disconnect
<1>22. ASSUME NEW c \in Callers, DisconnectLocks(c) PROVE AssertionsHold'
  BY <1>22 DEF ClientInv, AssertionsHold, DisconnectLocks
<1>23. ASSUME NEW c \in Callers, DisconnectSets(c) PROVE AssertionsHold'
  <2>1. caller[c].fd = connection /\ connection \in Fds
    BY <1>23 DEF DisconnectSets, ClientInv, CallerInv
  <2>2. connState[connection] # "none"
    BY <2>1 DEF ClientInv, LifeInv
  <2>3. QED
    BY <1>23, <2>1, <2>2 DEF DisconnectSets, ClientInv, AssertionsHold
<1>24. ASSUME NEW c \in Callers, DisconnectQueues(c) PROVE AssertionsHold'
  BY <1>24 DEF ClientInv, AssertionsHold, DisconnectQueues
<1>25. ASSUME NEW f \in Fds, Network(f) PROVE AssertionsHold'
  BY <1>25 DEF ClientInv, AssertionsHold, Network
<1>26. QED
  BY <1>1, <1>2, <1>3, <1>4, <1>5, <1>6, <1>7, <1>8, <1>9, <1>10, <1>11, <1>12, <1>13, <1>14,
       <1>15, <1>16, <1>17, <1>18, <1>19, <1>20, <1>21, <1>22, <1>23, <1>24, <1>25, NextCases

\* The functors of connectionDestroyed() stay where they are.
DestroyedStay ==
  \A f \in Fds :
    /\ Queued(Destroyed(f))' <=> Queued(Destroyed(f))
    /\ Has(pending, Destroyed(f))' => Has(pending, Destroyed(f))
    /\ Follows(pending, Destroyed(f), Destroyed(f))' => Follows(pending, Destroyed(f), Destroyed(f))
    /\ Follows(batch, Destroyed(f), Destroyed(f))' => Follows(batch, Destroyed(f), Destroyed(f))

\* Nothing changes in whether a connection exists.
LEMMA LifeSame ==
  ASSUME ClientInv,
         DestroyedStay, \A f \in Fds : (connState[f])' = "none" <=> connState[f] = "none",
         UNCHANGED <<connection, dying, phase>>,
         state' = "kConnecting" => \/ UNCHANGED <<state, channel>>
                                   \/ \E f \in Fds : sock[f] = "closed" /\ channel' = f
  PROVE  LifeInv'
<1> SUFFICES ASSUME NEW f \in Fds
             PROVE  /\ connState[f]' # "none" <=> connection' = f \/ Queued(Destroyed(f))' \/ f \in dying'
                    /\ connection' = f => ~Queued(Destroyed(f))' /\ f \notin dying'
                    /\ f \in dying' => ~Queued(Destroyed(f))'
                    /\ Has(pending, Destroyed(f))' => phase' = "events"
                    /\ ~Follows(batch, Destroyed(f), Destroyed(f))'
                    /\ ~Follows(pending, Destroyed(f), Destroyed(f))'
                    /\ state' = "kConnecting" /\ channel' = f => connState[f]' = "none"
  BY DEF LifeInv
<1>1. ASSUME state' = "kConnecting", channel' = f
      PROVE  connState[f] = "none"
  BY <1>1 DEF ClientInv, LifeInv, SocketsAreOwned
<1>2. QED
  BY <1>1 DEF ClientInv, LifeInv, DestroyedStay

\* A connection passes from the client to its functor to the end of the batch.
LEMMA LifeStep ==
  ASSUME ClientInv, [Next]_vars
  PROVE  LifeInv'
<1>1. CASE UNCHANGED vars
  BY <1>1 DEF ClientInv, LifeInv, Queued, vars, connectorVars, clientVars, dispatchVars
<1>2. CASE Poll
  BY <1>2 DEF ClientInv, LifeInv, Queued, Poll, connectorVars, clientVars
<1>3. ASSUME NEW ch \in Channels, Dispatch(ch) PROVE LifeInv'
  BY <1>3 DEF ClientInv, LifeInv, Queued, Dispatch, connectorVars, clientVars
<1>4. CASE EventHandled
  BY <1>4 DEF ClientInv, LifeInv, Queued, EventHandled, connectorVars, clientVars
<1>5. CASE TimerExpires
  <2>1. state' = "kConnecting" => \E f \in Fds : sock[f] = "closed" /\ channel' = f
    BY <1>5, TimerBegins DEF Begins
  <2>2. UNCHANGED <<connState, batch, pending, connection, dying, phase>>
    BY <1>5 DEF TimerExpires, clientVars
  <2>3. QED
    BY <2>1, <2>2, LifeSame DEF Queued, DestroyedStay
<1>6. CASE SwapFunctors
  <2>1. \A f \in Fds : ~Has(pending, Destroyed(f))' /\ (Queued(Destroyed(f))' <=> Queued(Destroyed(f)))
    BY <1>6, QueueSteps DEF Swaps
  <2>2. \A f \in Fds : /\ ~Follows(pending, Destroyed(f), Destroyed(f))'
                        /\ ~Follows(batch, Destroyed(f), Destroyed(f))'
    BY <1>6, QueueSteps DEF Swaps, ClientInv, LifeInv
  <2>3. UNCHANGED <<connectorVars, connState, connection, dying>>
    BY <1>6 DEF SwapFunctors, clientVars
  <2>4. QED
    BY <2>1, <2>2, <2>3 DEF ClientInv, LifeInv, connectorVars
<1>7. CASE RunStart
  <2>1. state' = "kConnecting" => \E f \in Fds : sock[f] = "closed" /\ channel' = f
    BY <1>7, RunStartBegins DEF Begins
  <2>2. DestroyedStay
    BY <1>7, QueueSteps, FunctorsOfFds DEF Takes, DestroyedStay
  <2>3. UNCHANGED <<connState, connection, dying, phase>>
    BY <1>7 DEF RunStart, Runs, clientVars
  <2>4. QED
    BY <2>1, <2>2, <2>3, LifeSame
<1>8. CASE RunReset
  <2>1. state' = "kConnecting" => UNCHANGED <<state, channel>>
    BY <1>8, QueueSteps DEF Takes, RunReset, ResetChannel, ClientInv, ChannelInv
  <2>2. DestroyedStay
    BY <1>8, QueueSteps, FunctorsOfFds DEF Takes, DestroyedStay
  <2>3. UNCHANGED <<connState, connection, dying, phase>>
    BY <1>8 DEF RunReset, Runs, clientVars
  <2>4. QED
    BY <2>1, <2>2, <2>3, LifeSame
<1>9. ASSUME NEW f \in Fds, RunShutdown(f) PROVE LifeInv'
  <2>1. state' = "kConnecting" => UNCHANGED <<state, channel>>
    BY <1>9 DEF RunShutdown, connectorVars
  <2>2. DestroyedStay
    BY <1>9, QueueSteps, FunctorsOfFds DEF Takes, DestroyedStay
  <2>3. UNCHANGED <<connState, connection, dying, phase>>
    BY <1>9 DEF RunShutdown, Runs, clientVars
  <2>4. QED
    BY <2>1, <2>2, <2>3, LifeSame
<1>10. ASSUME NEW f \in Fds, RunDestroyed(f) PROVE LifeInv'
  <2>1. /\ Queued(Destroyed(f)) /\ Has(batch, Destroyed(f)) /\ phase = "functors" /\ phase' = phase
        /\ \A g \in Fds : Queued(Destroyed(g)) <=> Queued(Destroyed(g))' \/ g = f
        /\ \A g \in Fds : Has(pending, Destroyed(g))' <=> Has(pending, Destroyed(g))
        /\ \A g \in Fds : Follows(batch, Destroyed(g), Destroyed(g))' => Follows(batch, Destroyed(g), Destroyed(g))
        /\ \A g \in Fds : Follows(pending, Destroyed(g), Destroyed(g))' <=> Follows(pending, Destroyed(g), Destroyed(g))
        /\ Has(batch, Destroyed(f))' => Follows(batch, Destroyed(f), Destroyed(f))
    BY <1>10, QueueSteps, FunctorsOfFds DEF Takes
  <2>2. ~Has(pending, Destroyed(f))' /\ ~Has(batch, Destroyed(f))'
    BY <2>1 DEF ClientInv, LifeInv
  <2>3. ~Queued(Destroyed(f))'
    BY <2>2 DEF Queued
  <2>4. dying' = dying \cup {f} /\ UNCHANGED <<connectorVars, connState, connection>>
    BY <1>10 DEF RunDestroyed, clientVars
  <2>5. QED
    BY <2>1, <2>3, <2>4 DEF ClientInv, LifeInv, connectorVars
<1>11. CASE FunctorsDone
  BY <1>11 DEF ClientInv, LifeInv, Queued, FunctorsDone, connectorVars
<1>12. ASSUME NEW f \in Fds, ConnectorError(f) PROVE LifeInv'
  <2>1. state' = "kConnecting" => UNCHANGED <<state, channel>>
    BY <1>12 DEF ConnectorError, HandleError, Retry, TryLater
  <2>2. DestroyedStay
    BY <1>12, QueueSteps, FunctorsOfFds DEF Pushes, DestroyedStay
  <2>3. UNCHANGED <<connState, connection, dying, phase>>
    BY <1>12 DEF ConnectorError, Calling, clientVars
  <2>4. QED
    BY <2>1, <2>2, <2>3, LifeSame
<1>13. ASSUME NEW f \in Fds, ConnectorWrite(f) PROVE LifeInv'
  <2>1. CASE HandleWriteLate(f)
    <3>1. UNCHANGED <<connectorVars, connState, batch, pending, connection, dying, phase>>
      BY <1>13, <2>1 DEF ConnectorWrite, Calling, HandleWriteLate, clientVars
    <3>2. QED
      BY <3>1, LifeSame DEF connectorVars, Queued, DestroyedStay
  <2>2. CASE HandleWriteRetries(f)
    <3>1. Pushes(Reset) /\ state' = "kDisConnected"
      BY <1>13, <2>2, QueueSteps DEF ConnectorWrite, HandleWriteRetries, Retry, TryLater
    <3>2. DestroyedStay
      BY <3>1, FunctorsOfFds DEF Pushes, DestroyedStay
    <3>3. UNCHANGED <<connState, connection, dying, phase>>
      BY <1>13 DEF ConnectorWrite, Calling, clientVars
    <3>4. QED
      BY <3>1, <3>2, <3>3, LifeSame
  <2>3. QED
    BY <1>13, <2>1, <2>2 DEF ConnectorWrite
<1>14. ASSUME NEW f \in Fds, NewConnection(f) PROVE LifeInv'
  <2>1. /\ connection' = f /\ channel = f /\ state = "kConnecting" /\ state' = "kConnected"
        /\ connection = NoFd
        /\ \A g \in Fds : connState[g]' = IF g = f THEN "kConnecting" ELSE connState[g]
        /\ UNCHANGED <<dying, phase>>
    BY <1>14, CallingFacts, AttemptFacts, TypesAre DEF NewConnection, HandleWriteConnects,
         ClientTypes
  <2>2. DestroyedStay
    BY <1>14, QueueSteps, FunctorsOfFds DEF Pushes, DestroyedStay
  <2>3. connState[f] = "none"
    BY <2>1 DEF ClientInv, LifeInv
  <2>4. QED
    BY <2>1, <2>2, NoFdAssumption DEF ClientInv, LifeInv, DestroyedStay
<1>15. CASE Establish
  BY <1>15 DEF ClientInv, LifeInv, Queued, Establish, connectorVars, dispatchVars
<1>16. ASSUME NEW f \in Fds, HandleClose(f) PROVE LifeInv'
  <2>1. connState[f] # "none" /\ \A g \in Fds : connState[g]' = IF g = f THEN "kDisconnected" ELSE connState[g]
    BY <1>16, TypesAre, CallingFacts DEF HandleClose, ClientTypes, ClientInv, LifeInv
  <2>2. UNCHANGED <<connectorVars, batch, pending, connection, dying, phase>>
    BY <1>16 DEF HandleClose, Calling
  <2>3. QED
    BY <2>1, <2>2, LifeSame DEF Queued, connectorVars, DestroyedStay
<1>17. CASE RemoveConnection
  <2> DEFINE h == current[2]
  <2>1. /\ h \in Fds /\ connection = h /\ connection' = NoFd /\ phase = "events" /\ batch = <<>>
        /\ state # "kConnecting"
    BY <1>17, RestartBegins
  <2>2. UNCHANGED <<connState, dying, phase, batch>>
    BY <1>17 DEF RemoveConnection, dispatchVars
  <2>3. Pushes(Destroyed(h))
    BY <1>17, QueueSteps
  <2> HIDE DEF h
  <2>4. /\ \A g \in Fds : Queued(Destroyed(g))' <=> Queued(Destroyed(g)) \/ g = h
        /\ \A g \in Fds : Follows(pending, Destroyed(g), Destroyed(g))' =>
                             \/ Follows(pending, Destroyed(g), Destroyed(g))
                             \/ g = h /\ Has(pending, Destroyed(h))
    BY <2>3, FunctorsOfFds DEF Pushes
  <2>5. ~Queued(Destroyed(h)) /\ h \notin dying /\ connState[h] # "none"
    BY <2>1 DEF ClientInv, LifeInv
  <2>6. ~Has(pending, Destroyed(h))
    BY <2>5 DEF Queued
  <2>7. \A g \in Fds : state' = "kConnecting" /\ channel' = g => connState[g] = "none"
    <3>1. state' = "kConnecting" => \E g \in Fds : sock[g] = "closed" /\ channel' = g
      BY <1>17, RestartBegins DEF Begins, connectorVars
    <3>2. QED
      BY <2>1, <3>1 DEF ClientInv, SocketsAreOwned
  <2>8. \A g \in Fds : connection' # g
    BY <2>1, NoFdAssumption
  <2>9. QED
    BY <2>1, <2>2, <2>4, <2>6, <2>7, <2>8 DEF ClientInv, LifeInv
<1>18. CASE LoopConnect
  <2>1. state' = "kConnecting" => \E f \in Fds : sock[f] = "closed" /\ channel' = f
    BY <1>18, LoopConnectBegins DEF Begins
  <2>2. UNCHANGED <<connState, batch, pending, connection, dying, phase>>
    BY <1>18 DEF LoopConnect, dispatchVars
  <2>3. QED
    BY <2>1, <2>2, LifeSame DEF Queued, DestroyedStay
<1>19. CASE LoopDisconnect
  BY <1>19 DEF ClientInv, LifeInv, Queued, LoopDisconnect, connectorVars, dispatchVars
<1>20. ASSUME NEW c \in Callers, Connect(c) PROVE LifeInv'
  <2>1. state' = "kConnecting" => UNCHANGED <<state, channel>>
    BY <1>20 DEF Connect, connectorVars
  <2>2. DestroyedStay
    BY <1>20, QueueSteps, FunctorsOfFds DEF Pushes, DestroyedStay
  <2>3. UNCHANGED <<connState, connection, dying, phase>>
    BY <1>20 DEF Connect, dispatchVars, clientVars
  <2>4. QED
    BY <2>1, <2>2, <2>3, LifeSame
<1>21. ASSUME NEW c \in Callers, Disconnect(c) PROVE LifeInv'
  BY <1>21 DEF ClientInv, LifeInv, Queued, Disconnect, connectorVars, dispatchVars
<1>22. ASSUME NEW c \in Callers, DisconnectLocks(c) PROVE LifeInv'
  BY <1>22 DEF ClientInv, LifeInv, Queued, DisconnectLocks, connectorVars, dispatchVars
<1>23. ASSUME NEW c \in Callers, DisconnectSets(c) PROVE LifeInv'
  <2>1. caller[c].fd = connection /\ connection \in Fds
    BY <1>23 DEF DisconnectSets, ClientInv, CallerInv
  <2>2. /\ connState[connection] # "none"
        /\ \A g \in Fds : connState[g]' = IF g = connection THEN "kDisconnecting" ELSE connState[g]
    BY <1>23, <2>1, TypesAre DEF DisconnectSets, ClientTypes, ClientInv, LifeInv
  <2>3. UNCHANGED <<connectorVars, batch, pending, connection, dying, phase>>
    BY <1>23 DEF DisconnectSets, dispatchVars
  <2>4. QED
    BY <2>2, <2>3, LifeSame DEF Queued, connectorVars, DestroyedStay
<1>24. ASSUME NEW c \in Callers, DisconnectQueues(c) PROVE LifeInv'
  <2>1. state' = "kConnecting" => UNCHANGED <<state, channel>>
    BY <1>24 DEF DisconnectQueues, connectorVars
  <2>2. DestroyedStay
    BY <1>24, QueueSteps, FunctorsOfFds DEF Pushes, DestroyedStay
  <2>3. UNCHANGED <<connState, connection, dying, phase>>
    BY <1>24 DEF DisconnectQueues, dispatchVars, clientVars
  <2>4. QED
    BY <2>1, <2>2, <2>3, LifeSame
<1>25. ASSUME NEW f \in Fds, Network(f) PROVE LifeInv'
  BY <1>25 DEF ClientInv, LifeInv, Queued, Network, connectorVars, clientVars, dispatchVars
<1>26. QED
  BY <1>1, <1>2, <1>3, <1>4, <1>5, <1>6, <1>7, <1>8, <1>9, <1>10, <1>11, <1>12, <1>13, <1>14,
       <1>15, <1>16, <1>17, <1>18, <1>19, <1>20, <1>21, <1>22, <1>23, <1>24, <1>25, NextCases

\* The functors of shutdownInLoop() and connectionDestroyed() stay where they are.
ShutdownStay ==
  \A f \in Fds :
    /\ Queued(Shutdown(f))' => Queued(Shutdown(f))
    /\ Has(pending, Shutdown(f))' => Has(pending, Shutdown(f))
    /\ Has(batch, Destroyed(f))' => Has(batch, Destroyed(f))
    /\ Follows(pending, Destroyed(f), Shutdown(f))' => Follows(pending, Destroyed(f), Shutdown(f))
    /\ Follows(batch, Destroyed(f), Shutdown(f))' => Follows(batch, Destroyed(f), Shutdown(f))

\* Steps that queue no shutdownInLoop() and call no connectionDestroyed().
LEMMA ShutdownSame ==
  ASSUME ClientInv, ShutdownStay, dying' = dying,
         \A f \in Fds : connState[f] # "none" => (connState[f])' # "none"
  PROVE  ShutdownInv'
  BY DEF ClientInv, ShutdownInv, ShutdownStay

\* shutdownInLoop() never comes behind connectionDestroyed().
LEMMA ShutdownStep ==
  ASSUME ClientInv, [Next]_vars
  PROVE  ShutdownInv'
<1>1. CASE UNCHANGED vars
  BY <1>1 DEF ClientInv, ShutdownInv, Queued, vars, clientVars, dispatchVars
<1>2. CASE Poll
  BY <1>2 DEF ClientInv, ShutdownInv, Queued, Poll, clientVars
<1>3. ASSUME NEW ch \in Channels, Dispatch(ch) PROVE ShutdownInv'
  BY <1>3 DEF ClientInv, ShutdownInv, Queued, Dispatch, clientVars
<1>4. CASE EventHandled
  BY <1>4 DEF ClientInv, ShutdownInv, Queued, EventHandled, clientVars
<1>5. CASE TimerExpires
  BY <1>5 DEF ClientInv, ShutdownInv, Queued, TimerExpires, clientVars
<1>6. CASE SwapFunctors
  <2>1. \A f \in Fds :
          /\ Queued(Shutdown(f))' <=> Queued(Shutdown(f))
          /\ ~Has(pending, Shutdown(f))'
          /\ ~Follows(pending, Destroyed(f), Shutdown(f))'
    BY <1>6, QueueSteps DEF Swaps
  <2>2. \A f \in Fds : ~Follows(batch, Destroyed(f), Shutdown(f))'
    BY <1>6, QueueSteps DEF Swaps, ClientInv, ShutdownInv
  <2>3. UNCHANGED <<connState, dying>>
    BY <1>6 DEF SwapFunctors, clientVars
  <2>4. QED
    BY <2>1, <2>2, <2>3 DEF ClientInv, ShutdownInv
<1>7. CASE RunStart
  <2>1. ShutdownStay
    BY <1>7, QueueSteps DEF Takes, ShutdownStay
  <2>2. UNCHANGED <<connState, dying>>
    BY <1>7 DEF RunStart, clientVars
  <2>3. QED
    BY <2>1, <2>2, ShutdownSame
<1>8. CASE RunReset
  <2>1. ShutdownStay
    BY <1>8, QueueSteps DEF Takes, ShutdownStay
  <2>2. UNCHANGED <<connState, dying>>
    BY <1>8 DEF RunReset, clientVars
  <2>3. QED
    BY <2>1, <2>2, ShutdownSame
<1>9. ASSUME NEW f \in Fds, RunShutdown(f) PROVE ShutdownInv'
  <2>1. ShutdownStay
    BY <1>9, QueueSteps DEF Takes, ShutdownStay
  <2>2. UNCHANGED <<connState, dying>>
    BY <1>9 DEF RunShutdown, clientVars
  <2>3. QED
    BY <2>1, <2>2, ShutdownSame
<1>10. ASSUME NEW f \in Fds, RunDestroyed(f) PROVE ShutdownInv'
  <2>1. ShutdownStay
    BY <1>10, QueueSteps DEF Takes, ShutdownStay
  <2>2. /\ Has(batch, Destroyed(f))
        /\ Has(batch, Shutdown(f))' => Follows(batch, Destroyed(f), Shutdown(f))
        /\ Has(pending, Shutdown(f))' => Has(pending, Shutdown(f))
    BY <1>10, QueueSteps, FunctorsOfFds DEF Takes
  <2>3. ~Queued(Shutdown(f))'
    BY <2>2 DEF Queued, ClientInv, ShutdownInv
  <2>4. dying' = dying \cup {f} /\ connState' = connState
    BY <1>10 DEF RunDestroyed, clientVars
  <2>5. QED
    BY <2>1, <2>3, <2>4 DEF ClientInv, ShutdownInv, ShutdownStay
<1>11. CASE FunctorsDone
  BY <1>11 DEF ClientInv, ShutdownInv, Queued, FunctorsDone
<1>12. ASSUME NEW f \in Fds, ConnectorError(f) PROVE ShutdownInv'
  <2>1. ShutdownStay
    BY <1>12, QueueSteps, FunctorsOfFds DEF Pushes, ShutdownStay
  <2>2. UNCHANGED <<connState, dying>>
    BY <1>12 DEF ConnectorError, Calling, clientVars
  <2>3. QED
    BY <2>1, <2>2, ShutdownSame
<1>13. ASSUME NEW f \in Fds, ConnectorWrite(f) PROVE ShutdownInv'
  <2>1. UNCHANGED <<connState, dying>>
    BY <1>13 DEF ConnectorWrite, Calling, clientVars
  <2>2. CASE HandleWriteLate(f)
    <3>1. UNCHANGED <<batch, pending>>
      BY <1>13, <2>2 DEF ConnectorWrite, Calling, HandleWriteLate
    <3>2. QED
      BY <2>1, <3>1, ShutdownSame DEF ShutdownStay, Queued
  <2>3. CASE HandleWriteRetries(f)
    <3>1. ShutdownStay
      BY <1>13, <2>3, QueueSteps, FunctorsOfFds DEF ConnectorWrite, Pushes, ShutdownStay
    <3>2. QED
      BY <2>1, <3>1, ShutdownSame
  <2>4. QED
    BY <1>13, <2>2, <2>3 DEF ConnectorWrite
<1>14. ASSUME NEW f \in Fds, NewConnection(f) PROVE ShutdownInv'
  <2>1. ShutdownStay
    BY <1>14, QueueSteps, FunctorsOfFds DEF Pushes, ShutdownStay
  <2>2. dying' = dying /\ \A g \in Fds : connState[g]' = IF g = f THEN "kConnecting" ELSE connState[g]
    BY <1>14, TypesAre DEF NewConnection, Calling, ClientTypes
  <2>3. QED
    BY <2>1, <2>2, ShutdownSame
<1>15. CASE Establish
  BY <1>15 DEF ClientInv, ShutdownInv, Queued, Establish, dispatchVars
<1>16. ASSUME NEW f \in Fds, HandleClose(f) PROVE ShutdownInv'
  BY <1>16 DEF ClientInv, ShutdownInv, Queued, HandleClose, Calling
<1>17. CASE RemoveConnection
  <2> DEFINE h == current[2]
  <2>1. h \in Fds /\ connection = h /\ batch = <<>> /\ Pushes(Destroyed(h))
    BY <1>17, RestartBegins, QueueSteps
  <2>2. UNCHANGED <<connState, dying, batch>>
    BY <1>17 DEF RemoveConnection, dispatchVars
  <2> HIDE DEF h
  <2>3. ShutdownStay
    BY <2>1, FunctorsOfFds DEF Pushes, ShutdownStay
  <2>4. QED
    BY <2>2, <2>3, ShutdownSame
<1>18. CASE LoopConnect
  BY <1>18 DEF ClientInv, ShutdownInv, Queued, LoopConnect, dispatchVars
<1>19. CASE LoopDisconnect
  BY <1>19 DEF ClientInv, ShutdownInv, Queued, LoopDisconnect, dispatchVars
<1>20. ASSUME NEW c \in Callers, Connect(c) PROVE ShutdownInv'
  <2>1. ShutdownStay
    BY <1>20, QueueSteps, FunctorsOfFds DEF Pushes, ShutdownStay
  <2>2. UNCHANGED <<connState, dying>>
    BY <1>20 DEF Connect, dispatchVars, clientVars
  <2>3. QED
    BY <2>1, <2>2, ShutdownSame
<1>21. ASSUME NEW c \in Callers, Disconnect(c) PROVE ShutdownInv'
  BY <1>21 DEF ClientInv, ShutdownInv, Queued, Disconnect, dispatchVars
<1>22. ASSUME NEW c \in Callers, DisconnectLocks(c) PROVE ShutdownInv'
  BY <1>22 DEF ClientInv, ShutdownInv, Queued, DisconnectLocks, dispatchVars
<1>23. ASSUME NEW c \in Callers, DisconnectSets(c) PROVE ShutdownInv'
  BY <1>23 DEF ClientInv, ShutdownInv, Queued, DisconnectSets, dispatchVars
<1>24. ASSUME NEW c \in Callers, DisconnectQueues(c) PROVE ShutdownInv'
  <2>1. connection \in Fds /\ Pushes(Shutdown(connection))
    BY <1>24, QueueSteps
  <2>2. /\ batch' = batch
        /\ \A g \in Fds :
             /\ Queued(Shutdown(g))' => (Queued(Shutdown(g)) \/ g = connection)
             /\ Has(pending, Shutdown(g))' => (Has(pending, Shutdown(g)) \/ g = connection)
             /\ Follows(pending, Destroyed(g), Shutdown(g))' =>
                  \/ Follows(pending, Destroyed(g), Shutdown(g))
                  \/ (Has(pending, Destroyed(g)) /\ g = connection)
    BY <2>1, FunctorsOfFds DEF Pushes
  <2>3. ~Has(pending, Destroyed(connection)) /\ ~Has(batch, Destroyed(connection))
        /\ connection \notin dying /\ connState[connection] # "none"
    BY <2>1 DEF ClientInv, LifeInv, Queued
  <2>4. UNCHANGED <<connState, dying>>
    BY <1>24 DEF DisconnectQueues, dispatchVars
  <2>5. QED
    BY <2>2, <2>3, <2>4 DEF ClientInv, ShutdownInv
<1>25. ASSUME NEW f \in Fds, Network(f) PROVE ShutdownInv'
  BY <1>25 DEF ClientInv, ShutdownInv, Queued, Network, clientVars, dispatchVars
<1>26. QED
  BY <1>1, <1>2, <1>3, <1>4, <1>5, <1>6, <1>7, <1>8, <1>9, <1>10, <1>11, <1>12, <1>13, <1>14,
       <1>15, <1>16, <1>17, <1>18, <1>19, <1>20, <1>21, <1>22, <1>23, <1>24, <1>25, NextCases

\* Sockets and connections stay open or closed.
LEMMA SocketsSame ==
  ASSUME ClientInv, state' = state, channel' = channel,
         \A f \in Fds :
           /\ (sock[f])' = "closed" <=> sock[f] = "closed"
           /\ (connState[f])' = "none" <=> connState[f] = "none"
  PROVE  SocketsAreOwned'
  BY DEF ClientInv, SocketsAreOwned

\* startInLoop() opens a socket for the attempt, or closes it again.
LEMMA BeginsSockets ==
  ASSUME ClientInv, Begins, connState' = connState, state # "kConnecting"
  PROVE  SocketsAreOwned'
<1>1. \A f \in Fds : sock[f] # "closed" <=> connState[f] # "none"
  BY DEF ClientInv, SocketsAreOwned
<1>2. CASE state' = "kConnecting"
  <2>1. PICK f \in Fds, answer \in {"connecting", "established"} :
          sock[f] = "closed" /\ channel' = f /\ sock' = [sock EXCEPT ![f] = answer]
    BY <1>2 DEF Begins
  <2>2. \A g \in Fds : sock'[g] = IF g = f THEN answer ELSE sock[g]
    BY <2>1, TypesAre DEF ConnectorTypeOK
  <2>3. QED
    BY <1>1, <1>2, <2>1, <2>2 DEF SocketsAreOwned
<1>3. CASE state' # "kConnecting"
  <2>1. sock' = sock
    BY <1>3 DEF Begins
  <2>2. QED
    BY <1>1, <1>3, <2>1 DEF SocketsAreOwned
<1>4. QED
  BY <1>2, <1>3

\* Every step leaves each open socket with one owner.
LEMMA SocketStep ==
  ASSUME ClientInv, [Next]_vars
  PROVE  SocketsAreOwned'
<1>1. CASE UNCHANGED vars
  BY <1>1 DEF ClientInv, SocketsAreOwned, vars, connectorVars, clientVars
<1>2. CASE Poll
  BY <1>2 DEF ClientInv, SocketsAreOwned, Poll, connectorVars, clientVars
<1>3. ASSUME NEW ch \in Channels, Dispatch(ch) PROVE SocketsAreOwned'
  BY <1>3 DEF ClientInv, SocketsAreOwned, Dispatch, connectorVars, clientVars
<1>4. CASE EventHandled
  BY <1>4 DEF ClientInv, SocketsAreOwned, EventHandled, connectorVars, clientVars
<1>5. CASE TimerExpires
  <2>1. Begins /\ state # "kConnecting"
    BY <1>5, TimerBegins
  <2>2. connState' = connState
    BY <1>5 DEF TimerExpires, Between, clientVars
  <2>3. QED
    BY <2>1, <2>2, BeginsSockets
<1>6. CASE SwapFunctors
  BY <1>6 DEF ClientInv, SocketsAreOwned, SwapFunctors, connectorVars, clientVars
<1>7. CASE RunStart
  <2>1. Begins /\ state # "kConnecting"
    BY <1>7, RunStartBegins
  <2>2. connState' = connState
    BY <1>7 DEF RunStart, Runs, clientVars
  <2>3. QED
    BY <2>1, <2>2, BeginsSockets
<1>8. CASE RunReset
  <2>1. state # "kConnecting" /\ UNCHANGED <<state, sock, connState>>
    BY <1>8, QueueSteps DEF RunReset, ResetChannel, clientVars, Takes, ClientInv, ChannelInv
  <2>2. QED
    BY <2>1 DEF ClientInv, SocketsAreOwned
<1>9. ASSUME NEW f \in Fds, RunShutdown(f) PROVE SocketsAreOwned'
  BY <1>9 DEF ClientInv, SocketsAreOwned, RunShutdown, connectorVars, clientVars
<1>10. ASSUME NEW f \in Fds, RunDestroyed(f) PROVE SocketsAreOwned'
  BY <1>10 DEF ClientInv, SocketsAreOwned, RunDestroyed, connectorVars, clientVars
<1>11. CASE FunctorsDone
  <2>1. state' = state /\ channel' = channel
        /\ \A f \in Fds :
             /\ connState'[f] = IF f \in dying THEN "none" ELSE connState[f]
             /\ sock'[f] = IF f \in dying THEN "closed" ELSE sock[f]
    BY <1>11 DEF FunctorsDone, connectorVars
  <2>2. \A f \in Fds : f \in dying => ~(state = "kConnecting" /\ channel = f)
    BY DEF ClientInv, LifeInv
  <2>3. QED
    BY <2>1, <2>2 DEF ClientInv, SocketsAreOwned
<1>12. ASSUME NEW f \in Fds, ConnectorError(f) PROVE SocketsAreOwned'
  <2>1. /\ state = "kConnecting" /\ channel = f /\ state' = "kDisConnected"
        /\ connState' = connState /\ sock' = [sock EXCEPT ![f] = "closed"]
    BY <1>12, CallingFacts DEF ConnectorError, HandleError, Retry, Close, TryLater, clientVars
  <2>2. /\ connState[f] = "none"
        /\ \A g \in Fds : sock'[g] = IF g = f THEN "closed" ELSE sock[g]
    BY <2>1, TypesAre DEF ClientInv, LifeInv, ConnectorTypeOK
  <2>3. QED
    BY <2>1, <2>2 DEF ClientInv, SocketsAreOwned
<1>13. ASSUME NEW f \in Fds, ConnectorWrite(f) PROVE SocketsAreOwned'
  <2>1. CASE HandleWriteLate(f)
    <3>1. UNCHANGED <<connectorVars, sock, connState>>
      BY <1>13, <2>1 DEF ConnectorWrite, HandleWriteLate, clientVars
    <3>2. QED
      BY <3>1, SocketsSame DEF connectorVars
  <2>2. CASE HandleWriteRetries(f)
    <3>1. /\ state = "kConnecting" /\ channel = f /\ state' = "kDisConnected"
          /\ connState' = connState /\ sock' = [sock EXCEPT ![f] = "closed"]
      BY <1>13, <2>2, CallingFacts DEF ConnectorWrite, HandleWriteRetries, Retry, Close,
           TryLater, clientVars
    <3>2. /\ connState[f] = "none"
          /\ \A g \in Fds : sock'[g] = IF g = f THEN "closed" ELSE sock[g]
      BY <3>1, TypesAre DEF ClientInv, LifeInv, ConnectorTypeOK
    <3>3. QED
      BY <3>1, <3>2 DEF ClientInv, SocketsAreOwned
  <2>3. QED
    BY <1>13, <2>1, <2>2 DEF ConnectorWrite
<1>14. ASSUME NEW f \in Fds, NewConnection(f) PROVE SocketsAreOwned'
  <2>1. /\ state = "kConnecting" /\ channel = f /\ state' = "kConnected" /\ sock' = sock
        /\ connState' = [connState EXCEPT ![f] = "kConnecting"]
    BY <1>14, CallingFacts DEF NewConnection, HandleWriteConnects
  <2>2. \A g \in Fds : connState'[g] = IF g = f THEN "kConnecting" ELSE connState[g]
    BY <2>1, TypesAre DEF ClientTypes
  <2>3. connState[f] = "none"
    BY <2>1 DEF ClientInv, LifeInv
  <2>4. QED
    BY <2>1, <2>2, <2>3 DEF ClientInv, SocketsAreOwned
<1>15. CASE Establish
  <2>1. connection \in Fds /\ connState[connection] # "none"
    BY <1>15 DEF Establish, ClientInv, LifeInv, EventInv
  <2>2. \A g \in Fds : connState'[g] = IF g = connection THEN "kConnected" ELSE connState[g]
    BY <1>15, TypesAre DEF Establish, ClientTypes
  <2>3. UNCHANGED <<state, channel, sock>>
    BY <1>15 DEF Establish, connectorVars
  <2>4. QED
    BY <2>1, <2>2, <2>3, SocketsSame
<1>16. ASSUME NEW f \in Fds, HandleClose(f) PROVE SocketsAreOwned'
  <2>1. connection \in Fds /\ connState[connection] # "none"
    BY <1>16, CallingFacts DEF HandleClose, ClientInv, LifeInv
  <2>2. \A g \in Fds : connState'[g] = IF g = connection THEN "kDisconnected" ELSE connState[g]
    BY <1>16, TypesAre, CallingFacts DEF HandleClose, ClientTypes
  <2>3. UNCHANGED <<state, channel, sock>>
    BY <1>16 DEF HandleClose, connectorVars
  <2>4. QED
    BY <2>1, <2>2, <2>3, SocketsSame
<1>17. CASE RemoveConnection
  <2>1. state # "kConnecting" /\ connState' = connState
    BY <1>17, RestartBegins DEF RemoveConnection
  <2>2. CASE Begins
    BY <2>1, <2>2, BeginsSockets
  <2>3. CASE UNCHANGED <<connectorVars, sock, failed>>
    BY <2>1, <2>3, SocketsSame DEF connectorVars
  <2>4. QED
    BY <1>17, <2>2, <2>3, RestartBegins
<1>18. CASE LoopConnect
  <2>1. Begins /\ state # "kConnecting"
    BY <1>18, LoopConnectBegins
  <2>2. connState' = connState
    BY <1>18 DEF LoopConnect, clientVars
  <2>3. QED
    BY <2>1, <2>2, BeginsSockets
<1>19. CASE LoopDisconnect
  BY <1>19 DEF ClientInv, SocketsAreOwned, LoopDisconnect, connectorVars
<1>20. ASSUME NEW c \in Callers, Connect(c) PROVE SocketsAreOwned'
  BY <1>20 DEF ClientInv, SocketsAreOwned, Connect, connectorVars
<1>21. ASSUME NEW c \in Callers, Disconnect(c) PROVE SocketsAreOwned'
  BY <1>21 DEF ClientInv, SocketsAreOwned, Disconnect, connectorVars
<1>22. ASSUME NEW c \in Callers, DisconnectLocks(c) PROVE SocketsAreOwned'
  BY <1>22 DEF ClientInv, SocketsAreOwned, DisconnectLocks, connectorVars
<1>23. ASSUME NEW c \in Callers, DisconnectSets(c) PROVE SocketsAreOwned'
  <2>1. connection \in Fds /\ connState[connection] # "none"
    BY <1>23 DEF DisconnectSets, ClientInv, LifeInv, CallerInv
  <2>2. \A g \in Fds : connState'[g] = IF g = connection THEN "kDisconnecting" ELSE connState[g]
    BY <1>23, TypesAre DEF DisconnectSets, ClientTypes, ClientInv, CallerInv
  <2>3. UNCHANGED <<state, channel, sock>>
    BY <1>23 DEF DisconnectSets, connectorVars
  <2>4. QED
    BY <2>1, <2>2, <2>3, SocketsSame
<1>24. ASSUME NEW c \in Callers, DisconnectQueues(c) PROVE SocketsAreOwned'
  BY <1>24 DEF ClientInv, SocketsAreOwned, DisconnectQueues, connectorVars
<1>25. ASSUME NEW f \in Fds, Network(f) PROVE SocketsAreOwned'
  BY <1>25, TypesAre DEF ClientInv, SocketsAreOwned, ConnectorTypeOK, Network, ConnectDone,
       PeerEnds, connectorVars, clientVars
<1>26. QED
  BY <1>1, <1>2, <1>3, <1>4, <1>5, <1>6, <1>7, <1>8, <1>9, <1>10, <1>11, <1>12, <1>13, <1>14,
       <1>15, <1>16, <1>17, <1>18, <1>19, <1>20, <1>21, <1>22, <1>23, <1>24, <1>25, NextCases

\* The attempts after a step, by what they are made of.
LEMMA AttemptsAfter ==
  Attempts' = timers' + CountStarts(pending)' + CountStarts(batch)'
              + (IF state' = "kConnecting" THEN 1 ELSE 0)
              + (IF connection' # NoFd THEN 1 ELSE 0)
  BY DEF Attempts, CountStarts

\* A client that is as busy as before, and wants what it wanted before.
LEMMA AttemptsSame ==
  ASSUME ClientInv, Attempts' = Attempts, UNCHANGED <<connect, calls, gaveUp>>
  PROVE  OneAttempt'
  BY DEF ClientInv, OneAttempt

\* After startInLoop() the client has one thing to do, or gave up.
LEMMA BeginsAttempt ==
  ASSUME Begins, CountStarts(pending)' = 0, CountStarts(batch)' = 0, connection' = NoFd
  PROVE  OneAttempt'
<1>1. \/ Attempts' = 1
      \/ Attempts' = 0 /\ gaveUp' = TRUE
  BY AttemptsAfter DEF Begins
<1>2. QED
  BY <1>1 DEF OneAttempt

\* No startInLoop() is queued.
LEMMA NoStarts ==
  ASSUME ClientInv, ~Queued(Start)
  PROVE  CountStarts(pending) = 0 /\ CountStarts(batch) = 0
  BY AttemptFacts

\* Every step leaves the client with one thing to do, if it wants any.
LEMMA AttemptStep ==
  ASSUME ClientInv, [Next]_vars
  PROVE  OneAttempt'
<1>1. CASE UNCHANGED vars
  BY <1>1 DEF ClientInv, OneAttempt, Attempts, vars, connectorVars, clientVars, dispatchVars
<1>2. CASE Poll
  BY <1>2 DEF ClientInv, OneAttempt, Attempts, Poll, connectorVars, clientVars
<1>3. ASSUME NEW ch \in Channels, Dispatch(ch) PROVE OneAttempt'
  BY <1>3 DEF ClientInv, OneAttempt, Attempts, Dispatch, connectorVars, clientVars
<1>4. CASE EventHandled
  BY <1>4 DEF ClientInv, OneAttempt, Attempts, EventHandled, connectorVars, clientVars
<1>5. CASE TimerExpires
  <2>1. CountStarts(pending) = 0 /\ CountStarts(batch) = 0
    BY <1>5, TimerBegins, NoStarts
  <2>2. UNCHANGED <<pending, batch, connection>>
    BY <1>5 DEF TimerExpires, clientVars
  <2>3. QED
    BY <1>5, <2>1, <2>2, TimerBegins, BeginsAttempt
<1>6. CASE SwapFunctors
  <2>1. /\ CountStarts(pending)' = 0 /\ CountStarts(batch)' = CountStarts(pending)
        /\ CountStarts(batch) = 0
    BY <1>6, QueueSteps DEF Swaps
  <2>2. UNCHANGED <<timers, state, connection, connect, calls, gaveUp>>
    BY <1>6 DEF SwapFunctors, connectorVars, clientVars
  <2>3. QED
    BY <2>1, <2>2, AttemptFacts, AttemptsAfter, AttemptsSame
<1>7. CASE RunStart
  <2>1. connection' = NoFd
    BY <1>7, RunStartBegins DEF RunStart, clientVars
  <2>2. QED
    BY <1>7, <2>1, RunStartBegins, LastStart, BeginsAttempt
<1>8. CASE RunReset
  <2>1. /\ CountStarts(pending)' = CountStarts(pending)
        /\ CountStarts(batch)' = CountStarts(batch)
    BY <1>8, QueueSteps, FunctorsOfFds, AttemptFacts DEF Takes
  <2>2. UNCHANGED <<timers, state, connection, connect, calls, gaveUp>>
    BY <1>8 DEF RunReset, ResetChannel, clientVars
  <2>3. QED
    BY <2>1, <2>2, AttemptFacts, AttemptsAfter, AttemptsSame
<1>9. ASSUME NEW f \in Fds, RunShutdown(f) PROVE OneAttempt'
  <2>1. /\ CountStarts(pending)' = CountStarts(pending)
        /\ CountStarts(batch)' = CountStarts(batch)
    BY <1>9, QueueSteps, FunctorsOfFds, AttemptFacts DEF Takes
  <2>2. UNCHANGED <<timers, state, connection, connect, calls, gaveUp>>
    BY <1>9 DEF RunShutdown, connectorVars, clientVars
  <2>3. QED
    BY <2>1, <2>2, AttemptFacts, AttemptsAfter, AttemptsSame
<1>10. ASSUME NEW f \in Fds, RunDestroyed(f) PROVE OneAttempt'
  <2>1. /\ CountStarts(pending)' = CountStarts(pending)
        /\ CountStarts(batch)' = CountStarts(batch)
    BY <1>10, QueueSteps, FunctorsOfFds, AttemptFacts DEF Takes
  <2>2. UNCHANGED <<timers, state, connection, connect, calls, gaveUp>>
    BY <1>10 DEF RunDestroyed, connectorVars, clientVars
  <2>3. QED
    BY <2>1, <2>2, AttemptFacts, AttemptsAfter, AttemptsSame
<1>11. CASE FunctorsDone
  BY <1>11 DEF ClientInv, OneAttempt, Attempts, FunctorsDone, connectorVars
<1>12. ASSUME NEW f \in Fds, ConnectorError(f) PROVE OneAttempt'
  <2>1. /\ CountStarts(pending)' = CountStarts(pending)
        /\ CountStarts(batch)' = CountStarts(batch)
    BY <1>12, QueueSteps, FunctorsOfFds, AttemptFacts DEF Pushes
  <2>2. /\ state = "kConnecting" /\ state' = "kDisConnected" /\ timers' = timers + 1
        /\ UNCHANGED <<connection, connect, calls, gaveUp>>
    BY <1>12, CallingFacts DEF ConnectorError, HandleError, Retry, TryLater, Armed, clientVars
  <2>3. QED
    BY <2>1, <2>2, AttemptFacts, AttemptsAfter, AttemptsSame
<1>13. ASSUME NEW f \in Fds, ConnectorWrite(f) PROVE OneAttempt'
  <2>1. CASE HandleWriteLate(f)
    <3>1. UNCHANGED <<connectorVars, pending, batch, connection, connect, calls>>
      BY <1>13, <2>1 DEF ConnectorWrite, Calling, HandleWriteLate, clientVars
    <3>2. QED
      BY <3>1, AttemptsSame DEF connectorVars, Attempts
  <2>2. CASE HandleWriteRetries(f)
    <3>1. /\ CountStarts(pending)' = CountStarts(pending)
          /\ CountStarts(batch)' = CountStarts(batch)
      BY <1>13, <2>2, QueueSteps, FunctorsOfFds, AttemptFacts DEF Pushes, ConnectorWrite
    <3>2. /\ state = "kConnecting" /\ state' = "kDisConnected" /\ timers' = timers + 1
          /\ UNCHANGED <<connection, connect, calls, gaveUp>>
      BY <1>13, <2>2 DEF ConnectorWrite, HandleWriteRetries, Retry, TryLater, Armed, clientVars
    <3>3. QED
      BY <3>1, <3>2, AttemptFacts, AttemptsAfter, AttemptsSame
  <2>3. QED
    BY <1>13, <2>1, <2>2 DEF ConnectorWrite
<1>14. ASSUME NEW f \in Fds, NewConnection(f) PROVE OneAttempt'
  <2>1. /\ CountStarts(pending)' = CountStarts(pending)
        /\ CountStarts(batch)' = CountStarts(batch)
    BY <1>14, QueueSteps, FunctorsOfFds, AttemptFacts DEF Pushes
  <2>2. /\ state = "kConnecting" /\ state' = "kConnected" /\ connection' # NoFd
        /\ UNCHANGED <<timers, connect, calls, gaveUp>>
    BY <1>14, NoFdAssumption DEF NewConnection, HandleWriteConnects
  <2>3. QED
    BY <2>1, <2>2, AttemptFacts, AttemptsAfter, AttemptsSame
<1>15. CASE Establish
  BY <1>15 DEF ClientInv, OneAttempt, Attempts, Establish, connectorVars, dispatchVars
<1>16. ASSUME NEW f \in Fds, HandleClose(f) PROVE OneAttempt'
  BY <1>16 DEF ClientInv, OneAttempt, Attempts, HandleClose, Calling, connectorVars
<1>17. CASE RemoveConnection
  <2>1. CountStarts(pending) = 0 /\ CountStarts(batch) = 0
    BY <1>17, RestartBegins, NoStarts
  <2>2. /\ CountStarts(pending)' = CountStarts(pending)
        /\ CountStarts(batch)' = CountStarts(batch)
    BY <1>17, QueueSteps, FunctorsOfFds, AttemptFacts DEF Pushes
  <2>3. CASE RetryEnabled /\ connect
    BY <1>17, <2>1, <2>2, <2>3, RestartBegins, BeginsAttempt
  <2>4. CASE ~(RetryEnabled /\ connect)
    <3>1. UNCHANGED <<timers, state, connect>>
      BY <1>17, <2>4 DEF connectorVars, RemoveConnection
    <3>2. Attempts' = 0
      BY <1>17, <2>1, <2>2, <3>1, RestartBegins, AttemptsAfter
    <3>3. QED
      BY <2>4, <3>1, <3>2 DEF OneAttempt
  <2>5. QED
    BY <2>3, <2>4
<1>18. CASE LoopConnect
  <2>1. CountStarts(pending) = 0 /\ CountStarts(batch) = 0
    BY <1>18, LoopConnectBegins, NoStarts
  <2>2. UNCHANGED <<pending, batch, connection>>
    BY <1>18 DEF LoopConnect, dispatchVars
  <2>3. QED
    BY <1>18, <2>1, <2>2, LoopConnectBegins, BeginsAttempt
<1>19. CASE LoopDisconnect
  BY <1>19, AttemptFacts DEF OneAttempt, Attempts, LoopDisconnect, connectorVars, dispatchVars
<1>20. ASSUME NEW c \in Callers, Connect(c) PROVE OneAttempt'
  <2>1. Pushes(Start) /\ Attempts = 0 /\ UNCHANGED <<timers, state, connection>>
    BY <1>20, QueueSteps DEF Connect, MayConnect, connectorVars
  <2>2. /\ CountStarts(pending)' = CountStarts(pending) + 1
        /\ CountStarts(batch)' = CountStarts(batch)
        /\ CountStarts(pending) = 0 /\ CountStarts(batch) = 0
    BY <2>1, AttemptFacts, NoStarts DEF Pushes
  <2>3. Attempts' = 1
    BY <2>1, <2>2, AttemptFacts, AttemptsAfter
  <2>4. QED
    BY <2>3 DEF OneAttempt
<1>21. ASSUME NEW c \in Callers, Disconnect(c) PROVE OneAttempt'
  BY <1>21, AttemptFacts DEF OneAttempt, Attempts, Disconnect, connectorVars, dispatchVars
<1>22. ASSUME NEW c \in Callers, DisconnectLocks(c) PROVE OneAttempt'
  BY <1>22 DEF ClientInv, OneAttempt, Attempts, DisconnectLocks, connectorVars, dispatchVars
<1>23. ASSUME NEW c \in Callers, DisconnectSets(c) PROVE OneAttempt'
  BY <1>23 DEF ClientInv, OneAttempt, Attempts, DisconnectSets, connectorVars, dispatchVars
<1>24. ASSUME NEW c \in Callers, DisconnectQueues(c) PROVE OneAttempt'
  <2>1. /\ CountStarts(pending)' = CountStarts(pending)
        /\ CountStarts(batch)' = CountStarts(batch)
    BY <1>24, QueueSteps, FunctorsOfFds, AttemptFacts DEF Pushes
  <2>2. UNCHANGED <<timers, state, connection, connect, calls, gaveUp>>
    BY <1>24 DEF DisconnectQueues, connectorVars
  <2>3. QED
    BY <2>1, <2>2, AttemptFacts, AttemptsAfter, AttemptsSame
<1>25. ASSUME NEW f \in Fds, Network(f) PROVE OneAttempt'
  BY <1>25 DEF ClientInv, OneAttempt, Attempts, Network, connectorVars, clientVars, dispatchVars
<1>26. QED
  BY <1>1, <1>2, <1>3, <1>4, <1>5, <1>6, <1>7, <1>8, <1>9, <1>10, <1>11, <1>12, <1>13, <1>14,
       <1>15, <1>16, <1>17, <1>18, <1>19, <1>20, <1>21, <1>22, <1>23, <1>24, <1>25, NextCases

------------------------------------------------------------------------------
(* The invariant, and the theorems.                                        *)

\* At the start nothing is queued, open or being handled.
LEMMA InitInv == Init => ClientInv
<1> SUFFICES ASSUME Init PROVE ClientInv
  OBVIOUS
<1>1. batch = <<>> /\ pending = <<>>
  BY DEF Init, ConnectorInit
<1>2. /\ <<>> \in Seq(Functors)
      /\ \A x : ~Has(batch, x) /\ ~Has(pending, x) /\ ~Queued(x)
      /\ \A x, y : ~Follows(batch, x, y) /\ ~Follows(pending, x, y)
      /\ CountStarts(batch) = 0 /\ CountStarts(pending) = 0
  BY <1>1, EmptyFacts DEF Queued
<1>3. ConnectorTypeOK
  <2>1. pending \in Seq(Functors) /\ batch \in Seq(Functors)
    BY <1>1, <1>2
  <2>2. retryDelayMs \in kInitRetryDelayMs..kMaxRetryDelayMs
    BY DelayAssumption DEF Init, ConnectorInit
  <2>3. QED
    BY <2>1, <2>2 DEF Init, ConnectorInit, ConnectorTypeOK
<1>4. TypeOK
  BY <1>3, ClientAssumption DEF Init, TypeOK, Away
<1>5. LoopInv /\ EventInv
  BY DEF Init, LoopInv, EventInv, Nothing
<1>6. ChannelInv /\ StartInv
  BY <1>2 DEF Init, ConnectorInit, ChannelInv, StartInv
<1>7. LifeInv
  BY <1>2, NoFdAssumption DEF Init, LifeInv
<1>8. ShutdownInv /\ CallerInv
  BY <1>2 DEF Init, ShutdownInv, CallerInv, Away
<1>9. AssertionsHold /\ SocketsAreOwned
  BY DEF Init, ConnectorInit, AssertionsHold, SocketsAreOwned
<1>10. Attempts = 0
  BY <1>2 DEF Init, ConnectorInit, Attempts, CountStarts
<1>11. OneAttempt
  BY <1>10 DEF Init, OneAttempt
<1>12. QED
  BY <1>4, <1>5, <1>6, <1>7, <1>8, <1>9, <1>11 DEF ClientInv

\* Every step of the loop, of a thread or of the network keeps the invariant.
LEMMA StepInv == ClientInv /\ [Next]_vars => ClientInv'
  BY TypeStep, LoopStepKeeps, EventStep, ChannelStep, StartStep, CallerStep,
     FailStep, LifeStep, ShutdownStep, SocketStep, AttemptStep DEF ClientInv

\* The invariant holds in every behaviour.
LEMMA ClientIsRight == Spec => []ClientInv
  BY InitInv, StepInv, PTL DEF Spec

\* The variables of the client and its connector have their types.
THEOREM TypeCorrect == Spec => []TypeOK
<1>1. ClientInv => TypeOK
  BY DEF ClientInv
<1>2. QED
  BY <1>1, ClientIsRight, PTL

\* The assertions in startInLoop(), connecting(), handleWrite(), handleError()
\* and removeConnection() hold, and no functor or thread uses a connection that
\* is freed.
THEOREM NoAssertionFails == Spec => []AssertionsHold
<1>1. ClientInv => AssertionsHold
  BY DEF ClientInv
<1>2. QED
  BY <1>1, ClientIsRight, PTL

\* A timer, a queued startInLoop(), an attempt in progress and a connection
\* exclude each other; a client that is to keep trying has one of them.
THEOREM AttemptsAreOne == Spec => []OneAttempt
<1>1. ClientInv => OneAttempt
  BY DEF ClientInv
<1>2. QED
  BY <1>1, ClientIsRight, PTL

\* Sockets are neither leaked by retry() nor closed under their owner.
THEOREM SocketsHaveAnOwner == Spec => []SocketsAreOwned
<1>1. ClientInv => SocketsAreOwned
  BY DEF ClientInv
<1>2. QED
  BY <1>1, ClientIsRight, PTL

\* resetChannel(), which runs as a functor, never meets the handleEvent() of the
\* channel it destroys.
THEOREM ChannelOutlivesItsHandler == Spec => []HandledChannelExists
<1>1. ClientInv => HandledChannelExists
  BY DEF ClientInv, EventInv, HandledChannelExists
<1>2. QED
  BY <1>1, ClientIsRight, PTL
==============================================================================
