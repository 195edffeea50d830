-------------------------- MODULE TimerQueueProofs --------------------------
(***************************************************************************)
(* Proofs about TimerQueue for any addresses, delays, intervals and bounds:*)
(* each timer has one owner, none runs too early, after its cancellation   *)
(* or once too often, a stale TimerId cancels nobody, and the timerfd      *)
(* covers the first timer.                                                 *)
(***************************************************************************)
EXTENDS TimerQueue, FiniteSetTheorems, SequenceTheorems,
        WellFoundedInduction, TLAPS

\* Where a timer can be: in the queue, in the vector of handleRead(), or in a
\* functor of addTimer() that has not run.
InQueue(a) == \E e \in timers : e[2] = a
InBatch(a) == \E e \in expired : e[2] = a
Adds(i)    == i \in DOMAIN pending /\ pending[i].op = "add"

\* The sequence numbers of the timers handed out are below the counter, and a
\* TimerId is named by its number alone.
IdsInv ==
  /\ IsFiniteSet(ids)
  /\ \A id \in ids : id[2] <= numCreated
  /\ \A id, jd \in ids : id[2] = jd[2] => id = jd
  /\ \A a \in Addrs : Live(a) => Active(a) \in ids

\* The queued calls are about TimerIds handed out; a timer to be added has no
\* other owner than its functor.
PendingInv ==
  /\ \A i \in DOMAIN pending : <<pending[i].addr, pending[i].seq>> \in ids
  /\ \A i \in DOMAIN pending : Adds(i) =>
       /\ heap[pending[i].addr].seq = pending[i].seq
       /\ Live(pending[i].addr)
       /\ ~InQueue(pending[i].addr) /\ ~InBatch(pending[i].addr)
  /\ \A i, j \in DOMAIN pending :
       Adds(i) /\ Adds(j) /\ pending[i].addr = pending[j].addr => i = j

\* handleRead() handles what is due.
BatchInv ==
  /\ ~doing => expired = {} /\ running = NoAddr
  /\ handled <= now
  /\ \A e \in expired : e[1] <= handled

\* What the histories say of the timers that exist.
HistInv ==
  /\ \A s \in fired \cup cancelled : s <= numCreated
  /\ \A a \in Addrs : Live(a) => heap[a].seq \notin cancelled
  /\ \A a \in Addrs : Live(a) /\ heap[a].interval = 0 /\ heap[a].seq \in fired =>
       \E e \in expired \ toRun : e[2] = a

Inv == /\ TypeOK
       /\ IdsInv
       /\ ListsAgree /\ ExpiredTimersAreOwned
       /\ PendingInv /\ BatchInv /\ HistInv

------------------------------------------------------------------------------
(* Facts about the operators.                                              *)

\* A set of numbers has a least one.
LEMMA LeastNat ==
  ASSUME NEW S, S \subseteq Nat, S # {}
  PROVE  \E m \in S : \A n \in S : m <= n
<1>1. PICK m \in S : \A n \in S : <<n, m>> \notin OpToRel(<, Nat)
  BY NatLessThanWellFounded, WFMin, Zenon
<1>2. ASSUME NEW n \in S
      PROVE  m <= n
  <2>1. n < m => <<n, m>> \in OpToRel(<, Nat)
    BY DEF OpToRel
  <2>2. ~(n < m)
    BY <1>1, <2>1, Zenon
  <2>3. QED
    BY <2>2
<1>3. QED
  BY <1>2

\* timers_.begin()->first is the least expiration in the set.
LEMMA FirstIsLeast ==
  ASSUME NEW S, S \subseteq Nat \X Addrs, S # {}
  PROVE  /\ First(S) \in Nat
         /\ \E e \in S : e[1] = First(S)
         /\ \A e \in S : First(S) <= e[1]
<1>1. PICK m \in {e[1] : e \in S} : \A n \in {e[1] : e \in S} : m <= n
  <2>1. {e[1] : e \in S} \subseteq Nat /\ {e[1] : e \in S} # {}
    OBVIOUS
  <2>2. QED
    BY <2>1, LeastNat
<1>2. PICK e \in S : \A d \in S : e[1] <= d[1]
  <2>1. PICK e \in S : m = e[1]
    BY <1>1
  <2>2. QED
    BY <1>1, <2>1
<1> DEFINE c == CHOOSE d \in S : \A g \in S : d[1] <= g[1]
<1>3. c \in S /\ \A g \in S : c[1] <= g[1]
  BY <1>2
<1>4. First(S) = c[1]
  BY DEF First
<1>5. QED
  BY <1>3, <1>4

\* What the objects of the heap are.
LEMMA Objects ==
  ASSUME TypeOK, NEW a \in Addrs
  PROVE  /\ Live(a) => heap[a] \in TimerObjects
         /\ ~Live(a) => heap[a] = Freed
         /\ heap[a].seq \in Nat /\ heap[a].expiration \in Nat /\ heap[a].interval \in Nat
         /\ Live(a) => heap[a].seq \in Seqs
<1>1. heap[a] \in TimerObjects \cup {Freed}
  BY DEF TypeOK
<1>2. CASE heap[a] = Freed
  BY <1>2 DEF Live, Freed
<1>3. CASE heap[a] # Freed
  <2>1. heap[a] \in TimerObjects
    BY <1>1, <1>3
  <2>2. heap[a].seq \in Seqs /\ heap[a].expiration \in Nat /\ heap[a].interval \in Intervals
    BY <2>1 DEF TimerObjects
  <2>3. heap[a].seq \in Nat /\ heap[a].interval \in Nat
    <3>1. Seqs \subseteq Nat
      BY BoundsAssumption DEF Seqs
    <3>2. Intervals \subseteq Nat
      BY DelaysAssumption
    <3>3. QED
      BY <2>2, <3>1, <3>2
  <2>4. QED
    BY <1>3, <2>1, <2>2, <2>3 DEF Live
<1>4. QED
  BY <1>2, <1>3

\* What the queued calls are.
LEMMA CallFacts ==
  ASSUME TypeOK
  PROVE  /\ Len(pending) \in Nat /\ DOMAIN pending = 1..Len(pending)
         /\ \A j \in DOMAIN pending : /\ pending[j].op \in {"add", "cancel"}
                                      /\ pending[j].addr \in Addrs /\ pending[j].seq \in Seqs
<1> DEFINE Calling == [op : {"add", "cancel"}, addr : Addrs, seq : Seqs]
<1>1. pending \in Seq(Calling)
  BY DEF TypeOK
<1>2. Len(pending) \in Nat /\ DOMAIN pending = 1..Len(pending)
  BY <1>1, LenProperties
<1>3. \A j \in DOMAIN pending : pending[j] \in Calling
  BY <1>1, <1>2, ElementOfSeq
<1>4. QED
  BY <1>2, <1>3

\* The counter of timers is a number.
LEMMA CounterIsNat == IdsInv => numCreated \in Nat
BY FS_CardinalityType DEF IdsInv, numCreated

------------------------------------------------------------------------------
(* The steps that neither make nor delete timers.                          *)

LEMMA TickStep == Inv /\ Tick => Inv'
<1> SUFFICES ASSUME Inv, Tick
             PROVE  Inv'
  OBVIOUS
<1> USE DEF Inv, Tick, queueVars, runVars, histVars
<1>1. TypeOK'
  <2>1. now' \in 1..MaxTime /\ timerfd' \in Nat
    BY BoundsAssumption DEF TypeOK
  <2>2. readable' \in BOOLEAN
    BY DEF TypeOK
  <2>3. QED
    BY <2>1, <2>2 DEF TypeOK
<1>2. IdsInv' /\ ListsAgree' /\ ExpiredTimersAreOwned' /\ PendingInv' /\ HistInv'
  BY DEF IdsInv, ListsAgree, ExpiredTimersAreOwned, PendingInv, HistInv, Live, Active,
         numCreated, InQueue, InBatch, Adds
<1>3. BatchInv'
  BY BoundsAssumption DEF BatchInv, TypeOK
<1>4. QED
  BY <1>1, <1>2, <1>3

LEMMA PollStep == Inv /\ Poll => Inv'
BY DEF Inv, Poll, queueVars, runVars, histVars, fdVars, TypeOK, IdsInv, ListsAgree,
       ExpiredTimersAreOwned, PendingInv, HistInv, BatchInv, Live, Active, numCreated,
       InQueue, InBatch, Adds

LEMMA RunReturnStep == Inv /\ RunReturn => Inv'
BY DEF Inv, RunReturn, queueVars, runVars, histVars, fdVars, TypeOK, IdsInv, ListsAgree,
       ExpiredTimersAreOwned, PendingInv, HistInv, BatchInv, Live, Active, numCreated,
       InQueue, InBatch, Adds

LEMMA CancelStep ==
  ASSUME NEW id \in ids, Inv, Cancel(id)
  PROVE  Inv'
<1> USE DEF Inv, Cancel, Queue, queueVars, runVars, histVars, fdVars
<1> DEFINE f == [op |-> "cancel", addr |-> id[1], seq |-> id[2]]
<1>1. /\ id[1] \in Addrs /\ id[2] \in Seqs /\ <<id[1], id[2]>> = id
      /\ pending' = Append(pending, f)
      /\ pending \in Seq([op : {"add", "cancel"}, addr : Addrs, seq : Seqs])
  BY DEF TypeOK
<1>2. /\ DOMAIN pending' = 1..(Len(pending) + 1) /\ DOMAIN pending = 1..Len(pending)
      /\ pending'[Len(pending) + 1] = f
      /\ \A i \in DOMAIN pending : pending'[i] = pending[i]
  BY <1>1
<1>3. TypeOK'
  BY <1>1 DEF TypeOK
<1>4. IdsInv' /\ ListsAgree' /\ ExpiredTimersAreOwned' /\ HistInv' /\ BatchInv'
  BY DEF IdsInv, ListsAgree, ExpiredTimersAreOwned, HistInv, BatchInv, Live, Active,
         numCreated
<1>5. \A i \in DOMAIN pending' : Adds(i)' => Adds(i) /\ i \in DOMAIN pending
  BY <1>2 DEF Adds
<1>6. PendingInv'
  BY <1>1, <1>2, <1>5 DEF PendingInv, InQueue, InBatch, Live
<1>7. QED
  BY <1>3, <1>4, <1>6

LEMMA RunTimerStep ==
  ASSUME NEW e \in toRun, Inv, RunTimer(e)
  PROVE  Inv'
<1> USE DEF Inv, RunTimer, queueVars, fdVars
<1> DEFINE a == e[2]
<1>1. a \in Addrs /\ e \in expired /\ Live(a) /\ heap[a].expiration = e[1]
  BY DEF TypeOK, ExpiredTimersAreOwned
<1>2. heap[a].seq \in Seqs /\ Active(a) \in ids
  BY <1>1, Objects DEF IdsInv
<1>3. TypeOK'
  BY <1>1, <1>2 DEF TypeOK
<1>4. IdsInv' /\ ListsAgree' /\ ExpiredTimersAreOwned' /\ PendingInv' /\ BatchInv'
  BY DEF IdsInv, ListsAgree, ExpiredTimersAreOwned, PendingInv, BatchInv, Live, Active,
         numCreated, InQueue, InBatch, Adds
<1>5. \A s \in (fired \cup cancelled)' : s <= numCreated'
  BY <1>2 DEF HistInv, IdsInv, Active, numCreated
<1>6. ASSUME NEW b \in Addrs, Live(b), heap[b].interval = 0, heap[b].seq \in fired'
      PROVE  \E d \in (expired \ toRun)' : d[2] = b
  <2>1. CASE heap[b].seq = heap[a].seq
    <3>1. Active(b) \in ids /\ Active(b) = Active(a)
      BY <2>1, <1>1, <1>2, <1>6 DEF IdsInv, Active
    <3>2. b = a
      BY <3>1 DEF Active
    <3>3. QED
      BY <3>2, <1>1
  <2>2. CASE heap[b].seq # heap[a].seq
    BY <2>2, <1>6 DEF HistInv
  <2>3. QED
    BY <2>1, <2>2
<1>7. HistInv'
  BY <1>5, <1>6 DEF HistInv, Live
<1>8. QED
  BY <1>3, <1>4, <1>7

------------------------------------------------------------------------------
(* New timers.                                                             *)

\* A new timer has a number and an address that nobody uses.
LEMMA NewTimerFacts ==
  ASSUME NEW a \in Addrs, NEW when \in Nat, NEW i \in Intervals, Inv,
         NewTimer(a, when, i), numCreated + 1 <= MaxSeq
  PROVE  /\ numCreated + 1 \in Seqs /\ numCreated' = numCreated + 1
         /\ heap' \in [Addrs -> TimerObjects \cup {Freed}]
         /\ heap'[a] = [seq |-> numCreated + 1, expiration |-> when, interval |-> i]
         /\ \A b \in Addrs \ {a} : heap'[b] = heap[b]
         /\ ~InQueue(a) /\ ~InBatch(a)
         /\ \A j \in DOMAIN pending : Adds(j) => pending[j].addr # a
         /\ <<a, numCreated + 1>> \in ids' /\ ids \subseteq ids'
         /\ ids' \subseteq Addrs \X Seqs
<1> DEFINE s == numCreated + 1
<1>1. numCreated \in Nat
  BY CounterIsNat DEF Inv
<1>2. s \in Seqs
  BY <1>1, BoundsAssumption DEF Seqs
<1>3. <<a, s>> \notin ids
  BY <1>1 DEF Inv, IdsInv
<1>4. numCreated' = s
  <2>1. Cardinality(ids \cup {<<a, s>>}) = Cardinality(ids) + 1
    BY <1>3, FS_AddElement DEF Inv, IdsInv
  <2>2. ids' = ids \cup {<<a, s>>}
    BY DEF NewTimer
  <2>3. QED
    BY <2>1, <2>2 DEF numCreated
<1>5. [seq |-> s, expiration |-> when, interval |-> i] \in TimerObjects
  BY <1>2 DEF TimerObjects
<1>6. heap \in [Addrs -> TimerObjects \cup {Freed}]
  BY DEF Inv, TypeOK
<1>7. /\ heap' \in [Addrs -> TimerObjects \cup {Freed}]
      /\ heap'[a] = [seq |-> s, expiration |-> when, interval |-> i]
      /\ \A b \in Addrs \ {a} : heap'[b] = heap[b]
  BY <1>5, <1>6 DEF NewTimer
<1>8. ~InQueue(a) /\ ~InBatch(a) /\ \A j \in DOMAIN pending : Adds(j) => pending[j].addr # a
  BY DEF Inv, NewTimer, ListsAgree, ExpiredTimersAreOwned, PendingInv, InQueue, InBatch
<1>9. <<a, s>> \in ids' /\ ids \subseteq ids' /\ ids' \subseteq Addrs \X Seqs
  BY <1>2 DEF NewTimer, Inv, TypeOK
<1>10. QED
  BY <1>2, <1>4, <1>7, <1>8, <1>9

\* IdsInv and HistInv are kept; what the other sets hold is left alone.
LEMMA NewTimerKeeps ==
  ASSUME NEW a \in Addrs, NEW when \in Nat, NEW i \in Intervals, Inv,
         NewTimer(a, when, i), numCreated + 1 <= MaxSeq,
         UNCHANGED <<expired, toRun, histVars>>
  PROVE  IdsInv' /\ HistInv' /\ \A b \in Addrs : Live(b) => Live(b)' /\ b # a
<1> DEFINE s == numCreated + 1
<1>1. numCreated \in Nat
  BY CounterIsNat DEF Inv
<1>2. /\ numCreated' = s /\ s \in Seqs
      /\ heap'[a].seq = s
      /\ \A b \in Addrs \ {a} : heap'[b] = heap[b]
      /\ <<a, s>> \in ids'
  <2>1. /\ s \in Seqs /\ numCreated' = s
        /\ heap'[a] = [seq |-> s, expiration |-> when, interval |-> i]
        /\ \A b \in Addrs \ {a} : heap'[b] = heap[b]
        /\ <<a, s>> \in ids'
    BY NewTimerFacts
  <2>2. QED
    BY <2>1
<1>3. ids' = ids \cup {<<a, s>>} /\ ~Live(a)
  BY DEF NewTimer
<1>4. IsFiniteSet(ids')
  BY <1>3, FS_AddElement DEF Inv, IdsInv
<1>5. IdsInv'
  <2>1. \A id \in ids' : id[2] <= numCreated'
    BY <1>1, <1>2, <1>3 DEF Inv, IdsInv, TypeOK, Seqs
  <2>2. \A id, jd \in ids' : id[2] = jd[2] => id = jd
    <3>1. \A id \in ids : id[2] # s
      BY <1>1 DEF Inv, IdsInv
    <3>2. QED
      BY <1>3, <3>1 DEF Inv, IdsInv
  <2>3. \A b \in Addrs : Live(b)' => Active(b)' \in ids'
    BY <1>2, <1>3 DEF Inv, IdsInv, Live, Active
  <2>4. QED
    BY <1>4, <2>1, <2>2, <2>3 DEF IdsInv
<1>6. HistInv'
  <2>1. s \notin fired \cup cancelled
    BY <1>1 DEF Inv, HistInv
  <2>2. \A t \in (fired \cup cancelled)' : t <= numCreated'
    BY <1>1, <1>2, BoundsAssumption DEF Inv, HistInv, histVars, TypeOK, Seqs
  <2>3. \A b \in Addrs : Live(b)' => heap'[b].seq \notin cancelled'
    BY <1>2, <2>1 DEF Inv, HistInv, histVars, Live
  <2>4. \A b \in Addrs : Live(b)' /\ heap'[b].interval = 0 /\ heap'[b].seq \in fired' =>
          \E e \in (expired \ toRun)' : e[2] = b
    BY <1>2, <2>1 DEF Inv, HistInv, histVars, Live
  <2>5. QED
    BY <2>2, <2>3, <2>4 DEF HistInv
<1>7. \A b \in Addrs : Live(b) => Live(b)' /\ b # a
  BY <1>2, <1>3 DEF Live
<1>8. QED
  BY <1>5, <1>6, <1>7

LEMMA AddTimerStep ==
  ASSUME NEW a \in Addrs, NEW d \in Delays, NEW i \in Intervals, Inv, AddTimer(a, d, i)
  PROVE  Inv'
<1> DEFINE s == numCreated + 1
           f == [op |-> "add", addr |-> a, seq |-> s]
<1>1. numCreated \in Nat /\ numCreated < MaxSeq /\ s <= MaxSeq /\ now + d \in Nat
  BY CounterIsNat, BoundsAssumption, DelaysAssumption DEF Inv, AddTimer, NewTimer, TypeOK
<1>2. NewTimer(a, now + d, i) /\ UNCHANGED <<expired, toRun, histVars>>
  BY DEF AddTimer, runVars
<1>3. IdsInv' /\ HistInv' /\ \A b \in Addrs : Live(b) => Live(b)' /\ b # a
  BY <1>1, <1>2, NewTimerKeeps
<1>4. /\ s \in Seqs /\ numCreated' = s
      /\ heap' \in [Addrs -> TimerObjects \cup {Freed}]
      /\ heap'[a] = [seq |-> s, expiration |-> now + d, interval |-> i]
      /\ \A b \in Addrs \ {a} : heap'[b] = heap[b]
      /\ ~InQueue(a) /\ ~InBatch(a)
      /\ \A j \in DOMAIN pending : Adds(j) => pending[j].addr # a
      /\ <<a, s>> \in ids' /\ ids \subseteq ids' /\ ids' \subseteq Addrs \X Seqs
  BY <1>1, <1>2, NewTimerFacts
<1>5. /\ pending' = Append(pending, f)
      /\ pending \in Seq([op : {"add", "cancel"}, addr : Addrs, seq : Seqs])
      /\ f \in [op : {"add", "cancel"}, addr : Addrs, seq : Seqs]
  BY <1>4 DEF AddTimer, Queue, Inv, TypeOK
<1>6. /\ DOMAIN pending' = 1..(Len(pending) + 1) /\ DOMAIN pending = 1..Len(pending)
      /\ pending'[Len(pending) + 1] = f
      /\ \A j \in DOMAIN pending : pending'[j] = pending[j]
      /\ Len(pending) \in Nat
      /\ pending' \in Seq([op : {"add", "cancel"}, addr : Addrs, seq : Seqs])
      /\ \A j \in DOMAIN pending : pending[j].addr \in Addrs
  <2>1. Len(pending) \in Nat /\ DOMAIN pending = 1..Len(pending)
        /\ \A j \in DOMAIN pending : pending[j].addr \in Addrs
    BY CallFacts DEF Inv
  <2>2. pending' \in Seq([op : {"add", "cancel"}, addr : Addrs, seq : Seqs])
    BY <1>5
  <2>3. /\ DOMAIN pending' = 1..(Len(pending) + 1)
        /\ pending'[Len(pending) + 1] = f
        /\ \A j \in DOMAIN pending : pending'[j] = pending[j]
    BY <1>5, AppendProperties
  <2>4. QED
    BY <2>1, <2>2, <2>3
<1>7. TypeOK'
  BY <1>4, <1>6 DEF Inv, TypeOK, AddTimer, queueVars, fdVars, runVars, histVars
<1>8. ListsAgree' /\ ExpiredTimersAreOwned'
  <2>1. /\ timers \subseteq Nat \X Addrs /\ expired \subseteq Nat \X Addrs
        /\ \A e \in timers \cup expired : e[2] \in Addrs /\ e[2] # a
    BY <1>4 DEF Inv, TypeOK, InQueue, InBatch
  <2>2. UNCHANGED <<timers, activeTimers, expired>>
    BY DEF AddTimer, queueVars, runVars
  <2>3. \A e \in timers \cup expired : heap'[e[2]] = heap[e[2]]
    BY <1>4, <2>1
  <2>4. QED
    BY <2>2, <2>3 DEF Inv, ListsAgree, ExpiredTimersAreOwned, Active, Live
<1>9. PendingInv'
  <2>1. \A j \in DOMAIN pending' : <<pending'[j].addr, pending'[j].seq>> \in ids'
    <3>1. \A j \in DOMAIN pending : <<pending'[j].addr, pending'[j].seq>> \in ids'
      <4>1. \A j \in DOMAIN pending : <<pending[j].addr, pending[j].seq>> \in ids'
        BY <1>4 DEF Inv, PendingInv
      <4>2. QED
        BY <1>6, <4>1
    <3>2. pending'[Len(pending) + 1] = f
      BY <1>6
    <3>3. <<f.addr, f.seq>> \in ids'
      BY <1>4
    <3>4. \A j \in DOMAIN pending' : j \in DOMAIN pending \/ j = Len(pending) + 1
      BY <1>6
    <3>5. QED
      BY <3>1, <3>2, <3>3, <3>4
  <2>2. \A j \in DOMAIN pending' : Adds(j)' =>
          (j \in DOMAIN pending /\ Adds(j) /\ pending'[j] = pending[j])
          \/ (j = Len(pending) + 1 /\ pending'[j] = f)
    BY <1>6 DEF Adds
  <2>3. \A j \in DOMAIN pending' : Adds(j)' =>
          /\ heap'[pending'[j].addr].seq = pending'[j].seq
          /\ Live(pending[j].addr)'
          /\ ~InQueue(pending[j].addr)' /\ ~InBatch(pending[j].addr)'
    <3>1. UNCHANGED <<timers, expired>>
      BY DEF AddTimer, queueVars, runVars
    <3>2. Live(a)'
      BY <1>1, <1>4 DEF Live, Freed
    <3>3. ASSUME NEW j \in DOMAIN pending, Adds(j), pending'[j] = pending[j]
          PROVE  /\ heap'[pending'[j].addr].seq = pending'[j].seq
                 /\ Live(pending[j].addr)'
                 /\ ~InQueue(pending[j].addr)' /\ ~InBatch(pending[j].addr)'
      <4>1. pending[j].addr \in Addrs \ {a}
        BY <1>4, <1>6, <3>3
      <4>2. /\ heap'[pending[j].addr] = heap[pending[j].addr]
            /\ heap[pending[j].addr].seq = pending[j].seq
            /\ Live(pending[j].addr)
            /\ ~InQueue(pending[j].addr) /\ ~InBatch(pending[j].addr)
        BY <1>4, <3>3, <4>1 DEF Inv, PendingInv
      <4>3. QED
        BY <3>1, <3>3, <4>2 DEF Live, InQueue, InBatch
    <3>4. ASSUME NEW j \in DOMAIN pending', pending'[j] = f
          PROVE  /\ heap'[pending'[j].addr].seq = pending'[j].seq
                 /\ Live(pending[j].addr)'
                 /\ ~InQueue(pending[j].addr)' /\ ~InBatch(pending[j].addr)'
      BY <1>4, <3>1, <3>2, <3>4 DEF Live, InQueue, InBatch
    <3>5. QED
      BY <2>2, <3>3, <3>4
  <2>4. \A j, k \in DOMAIN pending' :
          Adds(j)' /\ Adds(k)' /\ pending'[j].addr = pending'[k].addr => j = k
    BY <1>4, <1>6, <2>2 DEF Inv, PendingInv
  <2>5. QED
    BY <2>1, <2>3, <2>4 DEF PendingInv
<1>10. BatchInv'
  BY DEF Inv, BatchInv, AddTimer, runVars
<1>11. QED
  BY <1>3, <1>7, <1>8, <1>9, <1>10 DEF Inv

\* addTimerInLoop() changes the queue and the timerfd.
LEMMA AddTypes ==
  ASSUME Inv, NEW a \in Addrs, NEW when \in Nat, NEW seq \in Seqs,
         AddTimerInLoop(a, when, seq)
  PROVE  /\ timers' = timers \cup {<<when, a>>}
         /\ activeTimers' = activeTimers \cup {<<a, seq>>}
         /\ timers' \subseteq Nat \X Addrs /\ activeTimers' \subseteq Addrs \X Seqs
         /\ timerfd' \in Nat /\ readable' \in BOOLEAN /\ missed' \in BOOLEAN
         /\ UNCHANGED <<cancelTimers, runVars, crashed, histVars>>
<1>1. timerfd' \in Nat
  BY DEF Inv, TypeOK, AddTimerInLoop, ResetTimerfd, fdVars
<1>2. readable' \in BOOLEAN /\ missed' \in BOOLEAN
  <2>1. CASE EarliestChanged(when)
    <3>1. ResetTimerfd(when)
      BY <2>1 DEF AddTimerInLoop
    <3>2. missed' = (when <= now) /\ readable' = (readable /\ when < now)
      BY <3>1, Zenon DEF ResetTimerfd
    <3>3. (when <= now) \in BOOLEAN /\ (readable /\ when < now) \in BOOLEAN
      OBVIOUS
    <3>4. QED
      BY <3>2, <3>3, Zenon
  <2>2. CASE ~EarliestChanged(when)
    BY <2>2 DEF Inv, TypeOK, AddTimerInLoop, fdVars
  <2>3. QED
    BY <2>1, <2>2
<1>3. QED
  BY <1>1, <1>2 DEF Inv, TypeOK, AddTimerInLoop

LEMMA LoopAddTimerStep ==
  ASSUME NEW a \in Addrs, NEW d \in Delays, NEW i \in Intervals, Inv, LoopAddTimer(a, d, i)
  PROVE  Inv'
<1> DEFINE s == numCreated + 1
<1>1. numCreated \in Nat /\ numCreated < MaxSeq /\ s <= MaxSeq /\ now + d \in Nat
  BY CounterIsNat, BoundsAssumption, DelaysAssumption DEF Inv, LoopAddTimer, NewTimer, TypeOK
<1>2. NewTimer(a, now + d, i) /\ AddTimerInLoop(a, now + d, s)
      /\ UNCHANGED <<now, active, pending>>
  BY DEF LoopAddTimer
<1>3. /\ s \in Seqs
      /\ heap' \in [Addrs -> TimerObjects \cup {Freed}]
      /\ heap'[a] = [seq |-> s, expiration |-> now + d, interval |-> i]
      /\ \A b \in Addrs \ {a} : heap'[b] = heap[b]
      /\ ~InQueue(a) /\ ~InBatch(a)
      /\ \A j \in DOMAIN pending : Adds(j) => pending[j].addr # a
      /\ ids \subseteq ids' /\ ids' \subseteq Addrs \X Seqs
  BY <1>1, <1>2, NewTimerFacts
<1>4. /\ timers' = timers \cup {<<now + d, a>>}
      /\ activeTimers' = activeTimers \cup {<<a, s>>}
      /\ timers' \subseteq Nat \X Addrs /\ activeTimers' \subseteq Addrs \X Seqs
      /\ timerfd' \in Nat /\ readable' \in BOOLEAN /\ missed' \in BOOLEAN
      /\ UNCHANGED <<cancelTimers, runVars, crashed, histVars>>
  BY <1>1, <1>2, <1>3, AddTypes
<1>5. UNCHANGED <<expired, toRun, histVars>>
  BY <1>4 DEF runVars
<1>6. IdsInv' /\ HistInv' /\ \A b \in Addrs : Live(b) => Live(b)' /\ b # a
  BY <1>1, <1>2, <1>5, NewTimerKeeps
<1>7. TypeOK'
  BY <1>2, <1>3, <1>4 DEF Inv, TypeOK, runVars, histVars
<1>8. ListsAgree' /\ ExpiredTimersAreOwned'
  <2>1. /\ timers \subseteq Nat \X Addrs /\ expired \subseteq Nat \X Addrs
        /\ \A e \in timers \cup expired : e[2] \in Addrs /\ e[2] # a
    BY <1>3 DEF Inv, TypeOK, InQueue, InBatch
  <2>2. \A e \in timers \cup expired : heap'[e[2]] = heap[e[2]]
    BY <1>3, <2>1
  <2>3. Live(a)'
    BY <1>1, <1>3 DEF Live, Freed
  <2>4. Active(a)' = <<a, s>>
    BY <1>3 DEF Active
  <2>5. ListsAgree'
    <3>1. activeTimers' = {Active(e[2])' : e \in timers'}
      <4>1. \A e \in timers : Active(e[2])' = Active(e[2])
        BY <2>2 DEF Active
      <4>2. activeTimers = {Active(e[2]) : e \in timers}
        BY DEF Inv, ListsAgree
      <4>3. \A e \in timers' : Active(e[2])' \in activeTimers'
        BY <1>4, <2>4, <4>1, <4>2
      <4>4. ASSUME NEW x \in activeTimers'
            PROVE  \E e \in timers' : x = Active(e[2])'
        <5>1. CASE x = <<a, s>>
          <6>1. <<now + d, a>> \in timers' /\ <<now + d, a>>[2] = a
            BY <1>4
          <6>2. x = Active(<<now + d, a>>[2])'
            BY <2>4, <5>1, <6>1
          <6>3. QED
            BY <6>1, <6>2
        <5>2. CASE x \in activeTimers
          BY <1>4, <4>1, <4>2, <5>2
        <5>3. QED
          BY <1>4, <5>1, <5>2
      <4>5. QED
        BY <4>3, <4>4
    <3>2. \A e \in timers' : Live(e[2])' /\ heap'[e[2]].expiration = e[1]
      BY <1>3, <1>4, <2>2, <2>3 DEF Inv, ListsAgree, Live
    <3>3. QED
      BY <3>1, <3>2 DEF ListsAgree
  <2>6. ExpiredTimersAreOwned'
    BY <1>3, <1>4, <1>5, <2>1, <2>2 DEF Inv, ExpiredTimersAreOwned, Live
  <2>7. QED
    BY <2>5, <2>6
<1>9. PendingInv'
  <2>1. \A j \in DOMAIN pending : Adds(j) =>
          /\ pending[j].addr \in Addrs \ {a}
          /\ heap'[pending[j].addr] = heap[pending[j].addr]
    BY <1>3, CallFacts DEF Inv
  <2>2. \A b \in Addrs \ {a} : (~InQueue(b) => ~InQueue(b)') /\ (~InBatch(b) => ~InBatch(b)')
    BY <1>4, <1>5 DEF InQueue, InBatch
  <2>3. pending' = pending /\ ids \subseteq ids'
    BY <1>2, <1>3
  <2>4. \A j \in DOMAIN pending : Adds(j) =>
          /\ heap'[pending[j].addr].seq = pending[j].seq
          /\ Live(pending[j].addr)'
          /\ ~InQueue(pending[j].addr)' /\ ~InBatch(pending[j].addr)'
    BY <2>1, <2>2, <2>3 DEF Inv, PendingInv, Live
  <2>5. QED
    BY <2>3, <2>4 DEF Inv, PendingInv, Adds
<1>10. BatchInv'
  BY <1>2, <1>4 DEF Inv, BatchInv, runVars
<1>11. QED
  BY <1>6, <1>7, <1>8, <1>9, <1>10 DEF Inv

------------------------------------------------------------------------------
(* Cancellation.                                                           *)

\* What cancelInLoop() finds is a timer of the queue, and its only entry.
LEMMA FoundFacts ==
  ASSUME Inv, NEW a \in Addrs, NEW seq \in Seqs, Found(a, seq)
  PROVE  /\ Live(a) /\ heap[a].seq = seq /\ <<a, seq>> \in ids
         /\ <<heap[a].expiration, a>> \in timers
         /\ \A e \in timers : e[2] = a => e = <<heap[a].expiration, a>>
         /\ ~InBatch(a)
         /\ \A j \in DOMAIN pending : Adds(j) => pending[j].addr # a
         /\ \A b \in Addrs \ {a} : Live(b) => heap[b].seq # seq
<1>1. PICK e \in timers : Active(e[2]) = <<a, seq>>
  BY DEF Inv, ListsAgree, Found
<1>2. e[2] = a /\ heap[a].seq = seq /\ Live(a) /\ heap[a].expiration = e[1]
  BY <1>1 DEF Active, Inv, ListsAgree
<1>3. \A d \in timers : d[2] = a => d = <<heap[a].expiration, a>>
  BY DEF Inv, ListsAgree, TypeOK
<1>4. <<heap[a].expiration, a>> \in timers
  BY <1>2, <1>3
<1>5. <<a, seq>> \in ids
  BY <1>2 DEF Inv, IdsInv, Active
<1>6. ~InBatch(a)
  BY <1>2 DEF Inv, ExpiredTimersAreOwned, InBatch
<1>7. \A j \in DOMAIN pending : Adds(j) => pending[j].addr # a
  BY <1>2 DEF Inv, PendingInv, InQueue
<1>8. ASSUME NEW b \in Addrs \ {a}, Live(b), heap[b].seq = seq
      PROVE  FALSE
  <2>1. Active(b) \in ids
    BY <1>8 DEF Inv, IdsInv
  <2>2. <<b, seq>> \in ids
    BY <1>8, <2>1 DEF Active
  <2>3. <<b, seq>> = <<a, seq>>
    BY <1>5, <2>2 DEF Inv, IdsInv
  <2>4. QED
    BY <2>3
<1>9. QED
  BY <1>2, <1>3, <1>4, <1>5, <1>6, <1>7, <1>8

\* cancelInLoop() keeps everything but what is said of pending; the timers still
\* to be added are left alone.
LEMMA CancelKeeps ==
  ASSUME Inv, NEW a \in Addrs, NEW seq \in Seqs, <<a, seq>> \in ids, CancelInLoop(a, seq),
         UNCHANGED <<now, ids, fdVars, active, runVars>>,
         pending' \in Seq([op : {"add", "cancel"}, addr : Addrs, seq : Seqs])
  PROVE  /\ TypeOK' /\ IdsInv' /\ ListsAgree' /\ ExpiredTimersAreOwned'
         /\ BatchInv' /\ HistInv'
         /\ timers' \subseteq timers /\ expired' = expired
         /\ \A j \in DOMAIN pending : Adds(j) => heap'[pending[j].addr] = heap[pending[j].addr]
<1> USE DEF runVars, fdVars
<1>1. CASE Found(a, seq)
  <2>1. /\ timers' = timers \ {<<heap[a].expiration, a>>}
        /\ activeTimers' = activeTimers \ {<<a, seq>>}
        /\ heap' = [heap EXCEPT ![a] = Freed]
        /\ cancelled' = cancelled \cup {heap[a].seq}
        /\ UNCHANGED <<cancelTimers, crashed, fired>>
    BY <1>1 DEF CancelInLoop
  <2>2. /\ Live(a) /\ heap[a].seq = seq
        /\ <<heap[a].expiration, a>> \in timers
        /\ \A e \in timers : e[2] = a => e = <<heap[a].expiration, a>>
        /\ ~InBatch(a)
        /\ \A j \in DOMAIN pending : Adds(j) => pending[j].addr # a
        /\ \A b \in Addrs \ {a} : Live(b) => heap[b].seq # seq
    BY <1>1, FoundFacts
  <2>3. /\ heap' \in [Addrs -> TimerObjects \cup {Freed}]
        /\ heap'[a] = Freed
        /\ \A b \in Addrs \ {a} : heap'[b] = heap[b]
    BY <2>1 DEF Inv, TypeOK
  <2>4. ~Live(a)' /\ \A b \in Addrs \ {a} : Live(b)' = Live(b) /\ Active(b)' = Active(b)
    BY <2>3 DEF Live, Active
  <2>5. \A e \in timers' \cup expired : e[2] \in Addrs \ {a}
    BY <2>1, <2>2 DEF Inv, TypeOK, InBatch
  <2>6. TypeOK'
    BY <2>1, <2>2, <2>3 DEF Inv, TypeOK
  <2>7. IdsInv'
    BY <2>4 DEF Inv, IdsInv, numCreated
  <2>8. ListsAgree'
    <3>1. \A e \in timers' : Active(e[2])' = Active(e[2]) /\ Active(e[2]) # <<a, seq>>
      BY <2>4, <2>5 DEF Active
    <3>2. activeTimers = {Active(e[2]) : e \in timers}
      BY DEF Inv, ListsAgree
    <3>3. Active(<<heap[a].expiration, a>>[2]) = <<a, seq>>
      BY <2>2 DEF Active
    <3>4. \A e \in timers' : Active(e[2])' \in activeTimers'
      BY <2>1, <3>1, <3>2
    <3>5. ASSUME NEW x \in activeTimers'
          PROVE  \E e \in timers' : x = Active(e[2])'
      <4>1. PICK e \in timers : x = Active(e[2])
        BY <2>1, <3>2
      <4>2. e # <<heap[a].expiration, a>>
        BY <2>1, <3>3, <4>1
      <4>3. QED
        BY <2>1, <3>1, <4>1, <4>2
    <3>6. activeTimers' = {Active(e[2])' : e \in timers'}
      BY <3>4, <3>5
    <3>7. \A e \in timers' : Live(e[2])' /\ heap'[e[2]].expiration = e[1]
      BY <2>1, <2>3, <2>4, <2>5 DEF Inv, ListsAgree
    <3>8. QED
      BY <3>6, <3>7 DEF ListsAgree
  <2>9. ExpiredTimersAreOwned'
    BY <2>1, <2>3, <2>4, <2>5 DEF Inv, ExpiredTimersAreOwned
  <2>10. BatchInv'
    BY DEF Inv, BatchInv
  <2>11. HistInv'
    <3>1. \A s \in (fired \cup cancelled)' : s <= numCreated'
      BY <1>1, <2>1, <2>2, FoundFacts DEF Inv, HistInv, IdsInv, numCreated
    <3>2. \A b \in Addrs : Live(b)' => heap'[b].seq \notin cancelled'
      BY <2>1, <2>2, <2>3, <2>4 DEF Inv, HistInv
    <3>3. \A b \in Addrs : Live(b)' /\ heap'[b].interval = 0 /\ heap'[b].seq \in fired' =>
            \E e \in (expired \ toRun)' : e[2] = b
      BY <2>1, <2>3, <2>4 DEF Inv, HistInv
    <3>4. QED
      BY <3>1, <3>2, <3>3 DEF HistInv
  <2>12. \A j \in DOMAIN pending : Adds(j) => heap'[pending[j].addr] = heap[pending[j].addr]
    BY <2>2, <2>3, CallFacts DEF Inv
  <2>13. QED
    BY <2>1, <2>6, <2>7, <2>8, <2>9, <2>10, <2>11, <2>12
<1>2. CASE ~Found(a, seq)
  <2>1. /\ UNCHANGED <<heap, timers, activeTimers, histVars>>
        /\ crashed' \in BOOLEAN
        /\ cancelTimers' \subseteq (Addrs \cup {NoAddr}) \X Nat
    <3>1. \/ crashed' = TRUE /\ UNCHANGED <<heap, queueVars, histVars>>
          \/ /\ cancelTimers' = IF doing THEN cancelTimers \cup {EndValue} ELSE cancelTimers
             /\ UNCHANGED <<heap, timers, activeTimers, crashed, histVars>>
      BY <1>2 DEF CancelInLoop
    <3>2. UNCHANGED <<heap, timers, activeTimers, histVars>>
      BY <3>1 DEF queueVars
    <3>3. crashed' \in BOOLEAN
      BY <3>1 DEF Inv, TypeOK
    <3>4. cancelTimers \subseteq (Addrs \cup {NoAddr}) \X Nat
      BY DEF Inv, TypeOK
    <3>5. EndValue \in (Addrs \cup {NoAddr}) \X Nat
      BY DEF EndValue
    <3>6. cancelTimers' \subseteq (Addrs \cup {NoAddr}) \X Nat
      BY <3>1, <3>4, <3>5 DEF queueVars
    <3>7. QED
      BY <3>2, <3>3, <3>6
  <2>2. TypeOK'
    BY <2>1 DEF Inv, TypeOK, histVars
  <2>3. IdsInv' /\ ListsAgree' /\ ExpiredTimersAreOwned' /\ BatchInv' /\ HistInv'
    BY <2>1 DEF Inv, IdsInv, ListsAgree, ExpiredTimersAreOwned, BatchInv, HistInv, Live,
                Active, numCreated, histVars
  <2>4. QED
    BY <2>1, <2>2, <2>3
<1>3. QED
  BY <1>1, <1>2

LEMMA LoopCancelStep ==
  ASSUME NEW id \in ids, Inv, LoopCancel(id)
  PROVE  Inv'
<1>1. id[1] \in Addrs /\ id[2] \in Seqs /\ <<id[1], id[2]>> = id
  BY DEF Inv, TypeOK
<1>2. /\ CancelInLoop(id[1], id[2])
      /\ UNCHANGED <<now, ids, fdVars, active, runVars>> /\ pending' = pending
  BY DEF LoopCancel
<1>3. pending' \in Seq([op : {"add", "cancel"}, addr : Addrs, seq : Seqs])
  BY <1>2 DEF Inv, TypeOK
<1>4. /\ TypeOK' /\ IdsInv' /\ ListsAgree' /\ ExpiredTimersAreOwned'
      /\ BatchInv' /\ HistInv'
      /\ timers' \subseteq timers /\ expired' = expired
      /\ \A j \in DOMAIN pending : Adds(j) => heap'[pending[j].addr] = heap[pending[j].addr]
  BY <1>1, <1>2, <1>3, CancelKeeps
<1>5. PendingInv'
  BY <1>2, <1>4 DEF Inv, PendingInv, Adds, Live, InQueue, InBatch
<1>6. QED
  BY <1>4, <1>5 DEF Inv

------------------------------------------------------------------------------
(* handleRead().                                                           *)

LEMMA HandleReadStep ==
  ASSUME Inv, HandleRead
  PROVE  Inv'
<1> DEFINE due == {e \in timers : Expired(e)}
<1>1. /\ expired' = due /\ toRun' = due
      /\ timers' = timers \ due
      /\ activeTimers' = activeTimers \ {Active(e[2]) : e \in due}
      /\ cancelTimers' = {} /\ doing' = TRUE /\ active' = FALSE /\ readable' = FALSE
      /\ handled' = now
      /\ ~doing
      /\ UNCHANGED <<now, heap, ids, timerfd, missed, running, pending, crashed, histVars>>
  BY DEF HandleRead
<1>2. expired = {} /\ due \subseteq timers
  BY <1>1 DEF Inv, BatchInv
<1>3. TypeOK'
  <2>1. handled' \in 0..MaxTime /\ running' \in Addrs \cup {NoAddr}
    BY <1>1, BoundsAssumption DEF Inv, TypeOK
  <2>2. /\ timers' \subseteq Nat \X Addrs /\ activeTimers' \subseteq Addrs \X Seqs
        /\ cancelTimers' \subseteq (Addrs \cup {NoAddr}) \X Nat
        /\ expired' \subseteq Nat \X Addrs /\ toRun' \subseteq expired'
    BY <1>1, <1>2 DEF Inv, TypeOK
  <2>3. doing' \in BOOLEAN /\ active' \in BOOLEAN /\ readable' \in BOOLEAN
    BY <1>1
  <2>4. QED
    BY <1>1, <2>1, <2>2, <2>3 DEF Inv, TypeOK, histVars
<1>4. IdsInv'
  BY <1>1 DEF Inv, IdsInv, Live, Active, numCreated
<1>5. \A e \in timers : Live(e[2]) /\ heap[e[2]].expiration = e[1]
  BY DEF Inv, ListsAgree
<1>6. \A d, e \in timers : d[2] = e[2] => d = e
  BY <1>5 DEF Inv, TypeOK
<1>7. \A b : Active(b)' = Active(b) /\ Live(b)' = Live(b)
  BY <1>1 DEF Active, Live
<1>8. ListsAgree'
  <2>1. activeTimers = {Active(e[2]) : e \in timers}
    BY DEF Inv, ListsAgree
  <2>2. \A d, e \in timers : Active(d[2]) = Active(e[2]) => d = e
    BY <1>6 DEF Active
  <2>3. activeTimers' = {Active(e[2]) : e \in timers'}
    BY <1>1, <1>2, <2>1, <2>2
  <2>4. QED
    BY <1>1, <1>5, <1>7, <2>3 DEF ListsAgree
<1>9. ExpiredTimersAreOwned'
  BY <1>1, <1>2, <1>5, <1>6, <1>7 DEF ExpiredTimersAreOwned
<1>10. PendingInv'
  BY <1>1, <1>2 DEF Inv, PendingInv, Adds, InQueue, InBatch, Live
<1>11. BatchInv'
  BY <1>1, BoundsAssumption DEF BatchInv, Expired, Inv, TypeOK
<1>12. HistInv'
  BY <1>1, <1>2, <1>7 DEF Inv, HistInv, histVars, numCreated
<1>13. QED
  BY <1>3, <1>4, <1>8, <1>9, <1>10, <1>11, <1>12 DEF Inv

\* Arming the timerfd leaves it well-typed.
LEMMA ResetTypes ==
  ASSUME TypeOK, NEW when \in Nat, ResetTimerfd(when)
  PROVE  timerfd' \in Nat /\ readable' \in BOOLEAN /\ missed' \in BOOLEAN
<1>1. timerfd' \in Nat
  BY DEF TypeOK, ResetTimerfd
<1>2. missed' = (when <= now) /\ readable' = (readable /\ when < now)
  BY Zenon DEF ResetTimerfd
<1>3. (when <= now) \in BOOLEAN /\ (readable /\ when < now) \in BOOLEAN
  OBVIOUS
<1>4. readable' \in BOOLEAN /\ missed' \in BOOLEAN
  BY <1>2, <1>3, Zenon
<1>5. QED
  BY <1>1, <1>4

LEMMA ResetStep ==
  ASSUME Inv, Reset
  PROVE  Inv'
<1> DEFINE batch == {e[2] : e \in expired}
           again == batch \cap {a \in Addrs : Repeats(a)}
           next(a) == handled + heap[a].interval
<1>1. /\ doing /\ toRun = {} /\ running = NoAddr
      /\ heap' = [a \in Addrs |->
                    IF a \in again THEN [heap[a] EXCEPT !.expiration = next(a)]
                    ELSE IF a \in batch \ again THEN Freed ELSE heap[a]]
      /\ timers' = timers \cup {<<next(a), a>> : a \in again}
      /\ activeTimers' = activeTimers \cup {Active(a) : a \in again}
      /\ IF timers' # {} THEN ResetTimerfd(First(timers')) ELSE UNCHANGED fdVars
      /\ doing' = FALSE /\ expired' = {}
      /\ UNCHANGED <<now, ids, cancelTimers, active, handled, toRun, running,
                     pending, crashed, histVars>>
  BY DEF Reset
<1>2. /\ \A e \in expired : Live(e[2]) /\ e[2] \in Addrs /\ e[2] \in batch
      /\ \A a \in batch : InBatch(a) /\ Live(a) /\ a \in Addrs
      /\ \A a \in Addrs : InBatch(a) => a \in batch
      /\ \A e \in timers : e[2] \in Addrs \ batch
  BY DEF Inv, TypeOK, ExpiredTimersAreOwned, InBatch
<1>3. \A a \in again : heap[a] \in TimerObjects /\ next(a) \in Nat /\ heap[a].interval > 0
  BY <1>2, Objects, BoundsAssumption, SMTT(40) DEF Inv, TypeOK, Repeats
<1>4. ASSUME NEW a \in again
      PROVE  /\ heap'[a] \in TimerObjects
             /\ heap'[a].seq = heap[a].seq /\ heap'[a].interval = heap[a].interval
             /\ heap'[a].expiration = next(a)
  BY <1>1, <1>2, <1>3 DEF TimerObjects
<1>5. /\ \A a \in batch \ again : heap'[a] = Freed
      /\ \A a \in Addrs \ batch : heap'[a] = heap[a]
  BY <1>1, <1>2
<1>6. /\ \A a \in again : Live(a)' /\ Active(a)' = Active(a)
      /\ \A a \in batch \ again : ~Live(a)'
      /\ \A a \in Addrs \ batch : Live(a)' = Live(a) /\ Active(a)' = Active(a)
  BY <1>4, <1>5, BoundsAssumption DEF Live, Active, TimerObjects, Freed, Seqs
<1>7. again \subseteq batch /\ batch \subseteq Addrs
  BY <1>2
<1>8. timers' \subseteq Nat \X Addrs
  BY <1>1, <1>3, <1>7 DEF Inv, TypeOK
<1>9. activeTimers' \subseteq Addrs \X Seqs
  BY <1>1, <1>3, <1>7 DEF Inv, TypeOK, Active, TimerObjects
<1>10. TypeOK'
  <2>1. heap' \in [Addrs -> TimerObjects \cup {Freed}]
    <3>1. \A a \in Addrs : heap'[a] \in TimerObjects \cup {Freed}
      BY <1>4, <1>5 DEF Inv, TypeOK
    <3>2. DOMAIN heap' = Addrs /\ heap' = [a \in Addrs |-> heap'[a]]
      BY <1>1
    <3>3. QED
      BY <3>1, <3>2
  <2>2. timerfd' \in Nat /\ readable' \in BOOLEAN /\ missed' \in BOOLEAN
    <3>1. CASE timers' # {}
      BY <1>1, <1>8, <3>1, FirstIsLeast, ResetTypes DEF Inv
    <3>2. CASE timers' = {}
      BY <1>1, <3>2 DEF Inv, TypeOK, fdVars
    <3>3. QED
      BY <3>1, <3>2
  <2>3. QED
    BY <1>1, <1>8, <1>9, <2>1, <2>2 DEF Inv, TypeOK, histVars
<1>11. IdsInv'
  <2>1. \A b \in Addrs : Live(b)' => Live(b) /\ Active(b)' = Active(b)
    BY <1>2, <1>6, <1>7
  <2>2. ids' = ids
    BY <1>1
  <2>3. QED
    BY <2>1, <2>2 DEF Inv, IdsInv, numCreated
<1>12. ListsAgree'
  <2>1. activeTimers = {Active(e[2]) : e \in timers}
    BY DEF Inv, ListsAgree
  <2>2. \A e \in timers' : Active(e[2])' \in activeTimers'
    BY <1>1, <1>2, <1>6, <2>1
  <2>3. ASSUME NEW x \in activeTimers'
        PROVE  \E e \in timers' : x = Active(e[2])'
    <3>1. CASE x \in activeTimers
      BY <1>1, <1>2, <1>6, <2>1, <3>1
    <3>2. CASE x \notin activeTimers
      <4>1. PICK a \in again : x = Active(a)
        BY <1>1, <3>2
      <4>2. <<next(a), a>> \in timers' /\ <<next(a), a>>[2] = a
        BY <1>1
      <4>3. x = Active(<<next(a), a>>[2])'
        BY <1>6, <4>1, <4>2
      <4>4. QED
        BY <4>2, <4>3
    <3>3. QED
      BY <3>1, <3>2
  <2>4. activeTimers' = {Active(e[2])' : e \in timers'}
    BY <2>2, <2>3
  <2>5. ASSUME NEW e \in timers'
        PROVE  Live(e[2])' /\ heap'[e[2]].expiration = e[1]
    <3>1. CASE e \in timers
      BY <1>2, <1>5, <1>6, <3>1 DEF Inv, ListsAgree
    <3>2. CASE e \notin timers
      BY <1>1, <1>4, <1>6, <3>2
    <3>3. QED
      BY <3>1, <3>2
  <2>6. QED
    BY <2>4, <2>5 DEF ListsAgree
<1>13. ExpiredTimersAreOwned'
  BY <1>1 DEF ExpiredTimersAreOwned
<1>14. PendingInv'
  <2>1. \A j \in DOMAIN pending : Adds(j) =>
          pending[j].addr \in Addrs \ batch /\ ~InQueue(pending[j].addr)
    BY <1>2, CallFacts DEF Inv, PendingInv
  <2>2. \A b \in Addrs \ batch : (~InQueue(b) => ~InQueue(b)') /\ ~InBatch(b)'
    BY <1>1, <1>7 DEF InQueue, InBatch
  <2>3. \A j \in DOMAIN pending : Adds(j) =>
          /\ heap'[pending[j].addr].seq = pending[j].seq
          /\ Live(pending[j].addr)'
          /\ ~InQueue(pending[j].addr)' /\ ~InBatch(pending[j].addr)'
    BY <1>1, <1>5, <1>6, <2>1, <2>2 DEF Inv, PendingInv
  <2>4. QED
    BY <1>1, <2>3 DEF Inv, PendingInv, Adds
<1>15. BatchInv'
  BY <1>1 DEF Inv, BatchInv
<1>16. HistInv'
  <2>1. \A s \in (fired \cup cancelled)' : s <= numCreated'
    BY <1>1 DEF Inv, HistInv, histVars, numCreated
  <2>2. \A b \in Addrs : Live(b)' => Live(b) /\ (b \in again \/ b \in Addrs \ batch)
                                  /\ heap'[b].seq = heap[b].seq
                                  /\ heap'[b].interval = heap[b].interval
    BY <1>2, <1>4, <1>5, <1>6, <1>7
  <2>3. \A b \in Addrs : Live(b)' => heap'[b].seq \notin cancelled'
    BY <1>1, <2>2 DEF Inv, HistInv, histVars
  <2>4. ASSUME NEW b \in Addrs, Live(b)', heap'[b].interval = 0, heap'[b].seq \in fired'
        PROVE  FALSE
    <3>1. \E e \in expired \ toRun : e[2] = b
      BY <1>1, <2>2, <2>4 DEF Inv, HistInv, histVars
    <3>2. b \in again
      BY <1>2, <2>2, <2>4, <3>1
    <3>3. QED
      BY <1>3, <2>2, <2>4, <3>2
  <2>5. QED
    BY <2>1, <2>3, <2>4 DEF HistInv
<1>17. QED
  BY <1>10, <1>11, <1>12, <1>13, <1>14, <1>15, <1>16 DEF Inv

------------------------------------------------------------------------------
(* The functors of other threads.                                          *)

\* The queue of functors behind its head.
LEMMA TailFacts ==
  ASSUME TypeOK, pending # <<>>
  PROVE  /\ Tail(pending) \in Seq([op : {"add", "cancel"}, addr : Addrs, seq : Seqs])
         /\ \A j \in DOMAIN Tail(pending) :
              j \in Nat \ {0} /\ j + 1 \in DOMAIN pending /\ Tail(pending)[j] = pending[j + 1]
         /\ 1 \in DOMAIN pending /\ Head(pending) = pending[1]
<1> DEFINE Calling == [op : {"add", "cancel"}, addr : Addrs, seq : Seqs]
<1>1. pending \in Seq(Calling)
  BY DEF TypeOK
<1>2. /\ Tail(pending) \in Seq(Calling) /\ Len(Tail(pending)) = Len(pending) - 1
      /\ \A j \in 1..Len(Tail(pending)) : Tail(pending)[j] = pending[j + 1]
      /\ Len(pending) \in Nat \ {0} /\ DOMAIN pending = 1..Len(pending)
      /\ DOMAIN Tail(pending) = 1..Len(Tail(pending)) /\ Head(pending) = pending[1]
  BY <1>1, HeadTailProperties, LenProperties, EmptySeq
<1>3. QED
  BY <1>2

\* The rest of the queue is as it should be if the timers still to be added
\* there were left alone.
LEMMA TailKeeps ==
  ASSUME Inv, pending # <<>>, pending' = Tail(pending), ids \subseteq ids',
         \A j \in DOMAIN pending : Adds(j) /\ j # 1 =>
            /\ heap'[pending[j].addr] = heap[pending[j].addr]
            /\ \A e \in timers' \ timers : e[2] # pending[j].addr,
         expired' = expired
  PROVE  PendingInv'
<1>1. \A j \in DOMAIN pending' :
        j \in Nat \ {0} /\ j + 1 \in DOMAIN pending /\ j + 1 # 1 /\ pending'[j] = pending[j + 1]
  BY TailFacts DEF Inv
<1>2. \A j \in DOMAIN pending' : Adds(j)' => Adds(j + 1)
  BY <1>1 DEF Adds
<1>3. \A j \in DOMAIN pending' : <<pending'[j].addr, pending'[j].seq>> \in ids'
  BY <1>1 DEF Inv, PendingInv
<1>4. ASSUME NEW j \in DOMAIN pending', Adds(j)'
      PROVE  /\ heap'[pending'[j].addr].seq = pending'[j].seq
             /\ Live(pending[j].addr)'
             /\ ~InQueue(pending[j].addr)' /\ ~InBatch(pending[j].addr)'
  <2>1. /\ j + 1 \in DOMAIN pending /\ Adds(j + 1) /\ j + 1 # 1
        /\ pending'[j] = pending[j + 1]
    BY <1>1, <1>2, <1>4
  <2>2. /\ heap'[pending[j + 1].addr] = heap[pending[j + 1].addr]
        /\ \A e \in timers' \ timers : e[2] # pending[j + 1].addr
    BY <2>1
  <2>3. /\ heap[pending[j + 1].addr].seq = pending[j + 1].seq
        /\ Live(pending[j + 1].addr)
        /\ ~InQueue(pending[j + 1].addr) /\ ~InBatch(pending[j + 1].addr)
    BY <2>1 DEF Inv, PendingInv
  <2>4. QED
    BY <2>1, <2>2, <2>3 DEF Live, InQueue, InBatch
<1>5. \A j, k \in DOMAIN pending' :
        Adds(j)' /\ Adds(k)' /\ pending'[j].addr = pending'[k].addr => j = k
  <2>1. \A j, k \in DOMAIN pending' :
          Adds(j)' /\ Adds(k)' /\ pending'[j].addr = pending'[k].addr => j + 1 = k + 1
    BY <1>1, <1>2 DEF Inv, PendingInv
  <2>2. QED
    BY <1>1, <2>1
<1>6. QED
  BY <1>3, <1>4, <1>5 DEF PendingInv

LEMMA RunFunctorStep ==
  ASSUME Inv, RunFunctor
  PROVE  Inv'
<1> DEFINE f == pending[1]
<1>1. /\ pending # <<>> /\ pending' = Tail(pending) /\ ~doing
      /\ UNCHANGED <<now, ids, active>>
  BY DEF RunFunctor
<1>2. 1 \in DOMAIN pending /\ Head(pending) = f
      /\ pending' \in Seq([op : {"add", "cancel"}, addr : Addrs, seq : Seqs])
  BY <1>1, TailFacts DEF Inv
<1>3. f.op \in {"add", "cancel"} /\ f.addr \in Addrs /\ f.seq \in Seqs
      /\ <<f.addr, f.seq>> \in ids
  BY <1>2, CallFacts DEF Inv, PendingInv
<1>4. CASE f.op = "add"
  <2> DEFINE a == f.addr
             s == f.seq
             when == heap[a].expiration
  <2>1. AddTimerInLoop(a, when, s) /\ heap' = heap
    BY <1>2, <1>4 DEF RunFunctor
  <2>2. Adds(1) /\ heap[a].seq = s /\ Live(a) /\ ~InQueue(a) /\ ~InBatch(a)
    BY <1>2, <1>4 DEF Inv, PendingInv, Adds
  <2>3. when \in Nat
    BY <1>3, Objects DEF Inv
  <2>4. /\ timers' = timers \cup {<<when, a>>}
        /\ activeTimers' = activeTimers \cup {<<a, s>>}
        /\ timers' \subseteq Nat \X Addrs /\ activeTimers' \subseteq Addrs \X Seqs
        /\ timerfd' \in Nat /\ readable' \in BOOLEAN /\ missed' \in BOOLEAN
        /\ UNCHANGED <<cancelTimers, runVars, crashed, histVars>>
    BY <1>3, <2>1, <2>3, AddTypes
  <2>5. TypeOK'
    BY <1>1, <1>2, <2>1, <2>4 DEF Inv, TypeOK, runVars, histVars
  <2>6. \A b : Live(b)' = Live(b) /\ Active(b)' = Active(b)
    BY <2>1 DEF Live, Active
  <2>7. IdsInv' /\ BatchInv' /\ HistInv'
    BY <1>1, <2>1, <2>4, <2>6 DEF Inv, IdsInv, BatchInv, HistInv, numCreated, runVars, histVars
  <2>8. ListsAgree'
    <3>1. Active(a) = <<a, s>> /\ <<when, a>>[2] = a
      BY <2>2 DEF Active
    <3>2. activeTimers' = {Active(e[2]) : e \in timers'}
      BY <2>4, <3>1 DEF Inv, ListsAgree
    <3>3. \A e \in timers' : Live(e[2]) /\ heap[e[2]].expiration = e[1]
      BY <2>2, <2>4 DEF Inv, ListsAgree
    <3>4. QED
      BY <2>1, <2>6, <3>2, <3>3 DEF ListsAgree
  <2>9. ExpiredTimersAreOwned'
    BY <2>1, <2>2, <2>4, <2>6 DEF Inv, ExpiredTimersAreOwned, runVars, InBatch
  <2>10. PendingInv'
    <3>1. \A j \in DOMAIN pending : Adds(j) /\ j # 1 => pending[j].addr # a
      BY <1>2, <2>2 DEF Inv, PendingInv
    <3>2. \A e \in timers' \ timers : e[2] = a
      BY <2>4
    <3>3. expired' = expired /\ ids \subseteq ids'
      BY <1>1, <2>4 DEF runVars
    <3>4. \A j \in DOMAIN pending : Adds(j) /\ j # 1 =>
            /\ heap'[pending[j].addr] = heap[pending[j].addr]
            /\ \A e \in timers' \ timers : e[2] # pending[j].addr
      BY <2>1, <3>1, <3>2
    <3>5. QED
      BY <1>1, <3>3, <3>4, TailKeeps
  <2>11. QED
    BY <2>5, <2>7, <2>8, <2>9, <2>10 DEF Inv
<1>5. CASE f.op = "cancel"
  <2>1. CancelInLoop(f.addr, f.seq) /\ UNCHANGED <<fdVars, runVars>>
    BY <1>2, <1>5 DEF RunFunctor
  <2>2. /\ TypeOK' /\ IdsInv' /\ ListsAgree' /\ ExpiredTimersAreOwned'
        /\ BatchInv' /\ HistInv'
        /\ timers' \subseteq timers /\ expired' = expired
        /\ \A j \in DOMAIN pending : Adds(j) => heap'[pending[j].addr] = heap[pending[j].addr]
    BY <1>1, <1>2, <1>3, <2>1, CancelKeeps
  <2>3. PendingInv'
    BY <1>1, <2>2, TailKeeps
  <2>4. QED
    BY <2>2, <2>3 DEF Inv
<1>6. QED
  BY <1>3, <1>4, <1>5

------------------------------------------------------------------------------

\* The invariant.
LEMMA Invariance == Spec => []Inv
<1>1. Init => Inv
  <2> SUFFICES ASSUME Init
               PROVE  Inv
    OBVIOUS
  <2>1. TypeOK
    <3>1. now \in 1..MaxTime /\ handled \in 0..MaxTime
      BY BoundsAssumption DEF Init
    <3>2. heap \in [Addrs -> TimerObjects \cup {Freed}]
      BY DEF Init
    <3>3. pending \in Seq([op : {"add", "cancel"}, addr : Addrs, seq : Seqs])
      BY DEF Init
    <3>4. QED
      BY <3>1, <3>2, <3>3 DEF Init, TypeOK
  <2>2. IdsInv
    BY FS_EmptySet DEF Init, IdsInv, Live
  <2>3. ListsAgree /\ ExpiredTimersAreOwned /\ PendingInv /\ HistInv /\ BatchInv
    BY DEF Init, ListsAgree, ExpiredTimersAreOwned, PendingInv, HistInv, BatchInv, Live, Adds
  <2>4. QED
    BY <2>1, <2>2, <2>3 DEF Inv
<1>2. Inv /\ [Next]_vars => Inv'
  <2> SUFFICES ASSUME Inv, [Next]_vars
               PROVE  Inv'
    OBVIOUS
  <2>1. CASE Tick
    BY <2>1, TickStep
  <2>2. CASE LoopStep
    BY <2>2, PollStep, HandleReadStep, RunTimerStep, RunReturnStep, ResetStep, RunFunctorStep
       DEF LoopStep
  <2>3. CASE Calls
    BY <2>3, LoopAddTimerStep, AddTimerStep, LoopCancelStep, CancelStep DEF Calls
  <2>4. CASE UNCHANGED vars
    BY <2>4 DEF vars, queueVars, fdVars, runVars, histVars, Inv, TypeOK, IdsInv, ListsAgree,
                ExpiredTimersAreOwned, PendingInv, BatchInv, HistInv, Live, Active, numCreated,
                InQueue, InBatch, Adds
  <2>5. QED
    BY <2>1, <2>2, <2>3, <2>4 DEF Next
<1>3. QED
  BY <1>1, <1>2, PTL DEF Spec

\* The types of the variables.
THEOREM TypeCorrect == Spec => []TypeOK
<1>1. Inv => TypeOK
  BY DEF Inv
<1>2. QED
  BY <1>1, Invariance, PTL

\* Hazard: callbacks cancel and add timers while handleRead() walks its vector,
\* and addresses are used again.  The assertions on timers_ and activeTimers_
\* hold, and no timer is in the queue and in the vector at once.
THEOREM TimersHaveOneOwner == Spec => []TimersAreOwned
<1>1. Inv => TimersAreOwned
  BY DEF Inv, TimersAreOwned
<1>2. QED
  BY <1>1, Invariance, PTL

\* Nothing but RunTimer starts a timer.
LEMMA OnlyRunTimerStarts ==
  ASSUME Inv, [Next]_vars, NEW a \in Addrs, Starts(a)
  PROVE  \E e \in toRun : RunTimer(e) /\ e[2] = a
<1>1. running' # running /\ running' # NoAddr
  BY NoAddrAssumption DEF Starts
<1>2. CASE Tick
  BY <1>1, <1>2 DEF Tick, runVars
<1>3. CASE LoopStep
  <2>1. ~Poll /\ ~HandleRead /\ ~RunReturn /\ ~Reset
    BY <1>1 DEF Poll, HandleRead, RunReturn, Reset, runVars
  <2>2. ~RunFunctor
    BY <1>1 DEF RunFunctor, AddTimerInLoop, runVars
  <2>3. QED
    BY <1>3, <2>1, <2>2 DEF LoopStep, RunTimer, Starts
<1>4. CASE Calls
  BY <1>1, <1>4 DEF Calls, LoopAddTimer, AddTimer, LoopCancel, Cancel, AddTimerInLoop, runVars
<1>5. CASE UNCHANGED vars
  BY <1>1, <1>5 DEF vars, runVars
<1>6. QED
  BY <1>2, <1>3, <1>4, <1>5 DEF Next

\* The step of RunsAsAsked.
StartsAsAsked ==
  \A a \in Addrs : Starts(a) =>
    /\ heap[a].expiration <= now
    /\ heap[a].seq \notin cancelled
    /\ heap[a].interval = 0 => heap[a].seq \notin fired

\* Hazard: an expiration on the boundary, a timer cancelled or handled before.
\* No timer runs too early, after its cancellation, or once too often.
THEOREM TimersRunAsAsked == Spec => RunsAsAsked
<1>1. ASSUME Inv, [Next]_vars, NEW a \in Addrs, Starts(a)
      PROVE  /\ heap[a].expiration <= now
             /\ heap[a].seq \notin cancelled
             /\ heap[a].interval = 0 => heap[a].seq \notin fired
  <2>1. PICK e \in toRun : RunTimer(e) /\ e[2] = a
    BY <1>1, OnlyRunTimerStarts
  <2>2. /\ e \in expired /\ expired \subseteq Nat \X Addrs
        /\ now \in Nat /\ handled \in Nat
    BY <1>1, BoundsAssumption DEF Inv, TypeOK
  <2>3. /\ Live(a) /\ heap[a].expiration = e[1]
        /\ \A d \in expired : d[2] = a => d[1] = e[1]
    BY <1>1, <2>1, <2>2 DEF Inv, ExpiredTimersAreOwned
  <2>4. heap[a].expiration <= now
    BY <1>1, <2>2, <2>3 DEF Inv, BatchInv
  <2>5. heap[a].seq \notin cancelled
    BY <1>1, <2>3 DEF Inv, HistInv
  <2>6. \A d \in expired : d[2] = a => d = e
    BY <2>1, <2>2, <2>3
  <2>7. heap[a].interval = 0 => heap[a].seq \notin fired
    BY <1>1, <2>3, <2>6 DEF Inv, HistInv
  <2>8. QED
    BY <2>4, <2>5, <2>7
<1>2. Inv /\ [Next]_vars => StartsAsAsked \/ UNCHANGED vars
  BY <1>1 DEF StartsAsAsked
<1>3. QED
  BY <1>2, Invariance, PTL DEF Spec, RunsAsAsked, StartsAsAsked

\* The step of StaleIdHitsNobody.
CancelsOnlyTheNamed ==
  \A s \in cancelled' \ cancelled :
    \E id \in ids : id[2] = s /\ id \in activeTimers /\ id \notin activeTimers'
                    /\ activeTimers' = activeTimers \ {id}

\* Hazard: a TimerId outlives its timer and the address is used again.  What a
\* step cancels is the timer of one TimerId, which leaves the queue alone.
THEOREM StaleIdsAreHarmless == Spec => StaleIdHitsNobody
<1>1. ASSUME Inv, NEW a \in Addrs, NEW seq \in Seqs, CancelInLoop(a, seq),
             NEW s \in cancelled' \ cancelled
      PROVE  \E id \in ids : id[2] = s /\ id \in activeTimers /\ id \notin activeTimers'
                             /\ activeTimers' = activeTimers \ {id}
  <2>1. Found(a, seq)
    BY <1>1 DEF CancelInLoop, histVars
  <2>2. heap[a].seq = seq /\ <<a, seq>> \in ids
    BY <1>1, <2>1, FoundFacts
  <2>3. /\ activeTimers' = activeTimers \ {<<a, seq>>}
        /\ cancelled' = cancelled \cup {heap[a].seq}
        /\ <<a, seq>> \in activeTimers
    BY <1>1, <2>1 DEF CancelInLoop, Found
  <2>4. <<a, seq>>[2] = s
    BY <1>1, <2>2, <2>3
  <2>5. QED
    BY <2>2, <2>3, <2>4
<1>2. ASSUME Inv, [Next]_vars, cancelled' # cancelled
      PROVE  \E a \in Addrs, seq \in Seqs : CancelInLoop(a, seq)
  <2>1. CASE Tick
    BY <1>2, <2>1 DEF Tick, histVars
  <2>2. CASE LoopStep
    <3>1. ~Poll /\ ~HandleRead /\ ~RunReturn /\ ~Reset /\ \A e \in toRun : ~RunTimer(e)
      BY <1>2 DEF Poll, HandleRead, RunReturn, Reset, RunTimer, histVars
    <3>2. RunFunctor
      BY <2>2, <3>1 DEF LoopStep
    <3>3. /\ pending # <<>>
          /\ \/ AddTimerInLoop(Head(pending).addr, heap[Head(pending).addr].expiration,
                               Head(pending).seq)
             \/ CancelInLoop(Head(pending).addr, Head(pending).seq)
      BY <3>2 DEF RunFunctor
    <3>4. CancelInLoop(Head(pending).addr, Head(pending).seq)
      BY <1>2, <3>3 DEF AddTimerInLoop, histVars
    <3>5. Head(pending).addr \in Addrs /\ Head(pending).seq \in Seqs
      BY <1>2, <3>3, TailFacts, CallFacts DEF Inv
    <3>6. QED
      BY <3>4, <3>5
  <2>3. CASE Calls
    <3>1. PICK id \in ids : LoopCancel(id)
      BY <1>2, <2>3 DEF Calls, LoopAddTimer, AddTimer, Cancel, AddTimerInLoop, histVars
    <3>2. id[1] \in Addrs /\ id[2] \in Seqs
      BY <1>2 DEF Inv, TypeOK
    <3>3. QED
      <4>1. CancelInLoop(id[1], id[2])
        BY <3>1 DEF LoopCancel
      <4>2. QED
        BY <3>2, <4>1
  <2>4. CASE UNCHANGED vars
    BY <1>2, <2>4 DEF vars, histVars
  <2>5. QED
    BY <1>2, <2>1, <2>2, <2>3, <2>4 DEF Next
<1>3. ASSUME Inv, [Next]_vars, NEW s \in cancelled' \ cancelled
      PROVE  \E id \in ids : id[2] = s /\ id \in activeTimers /\ id \notin activeTimers'
                             /\ activeTimers' = activeTimers \ {id}
  BY <1>1, <1>2, <1>3
<1>4. Inv /\ [Next]_vars => CancelsOnlyTheNamed \/ UNCHANGED vars
  BY <1>3 DEF CancelsOnlyTheNamed
<1>5. QED
  BY <1>4, Invariance, PTL DEF Spec, StaleIdHitsNobody, CancelsOnlyTheNamed

------------------------------------------------------------------------------
(* The timerfd.                                                            *)

\* The first of fewer timers is not earlier.
LEMMA FirstOfFewer ==
  ASSUME NEW S, NEW T, T \subseteq Nat \X Addrs, S \subseteq T, S # {}
  PROVE  First(T) <= First(S)
<1>1. PICK e \in S : e[1] = First(S)
  BY FirstIsLeast
<1>2. First(T) <= e[1]
  BY <1>1, FirstIsLeast
<1>3. QED
  BY <1>1, <1>2

\* Arming it for the first timer covers that timer.
LEMMA ArmedCovers ==
  ASSUME now \in Nat, timers' \subseteq Nat \X Addrs, timers' # {},
         ResetTimerfd(First(timers'))
  PROVE  TimerfdCoversFirst'
<1>1. First(timers') \in Nat
  BY FirstIsLeast
<1>2. ~missed' => First(timers') > now
  <2>1. missed' = (First(timers') <= now)
    BY Zenon DEF ResetTimerfd
  <2>2. ~missed' => ~(First(timers') <= now)
    BY <2>1, Zenon
  <2>3. QED
    BY <1>1, <2>2
<1>3. First(timers') > now => timerfd' = First(timers')
  BY DEF ResetTimerfd
<1>4. QED
  BY <1>1, <1>2, <1>3 DEF TimerfdCoversFirst

\* Adding a timer keeps the first covered, whether it becomes the first or not.
LEMMA AddCovers ==
  ASSUME Inv, TimerfdCoversFirst, ~doing \/ doing', NEW a \in Addrs, NEW when \in Nat,
         NEW seq \in Seqs, AddTimerInLoop(a, when, seq), active' = active
  PROVE  TimerfdCoversFirst'
<1>1. /\ timers' = timers \cup {<<when, a>>} /\ timers' \subseteq Nat \X Addrs
      /\ timers \subseteq Nat \X Addrs /\ now \in Nat /\ timerfd \in Nat
  BY AddTypes, BoundsAssumption DEF Inv, TypeOK
<1>2. timers' # {} /\ <<when, a>> \in timers' /\ <<when, a>>[1] = when
  BY <1>1
<1>3. /\ First(timers') \in Nat /\ First(timers') <= when
      /\ \E e \in timers' : e[1] = First(timers')
      /\ \A e \in timers' : First(timers') <= e[1]
  BY <1>1, <1>2, FirstIsLeast
<1>4. CASE timers = {}
  <2>1. First(timers') = when
    BY <1>1, <1>2, <1>3, <1>4
  <2>2. ResetTimerfd(when)
    BY <1>4 DEF AddTimerInLoop, EarliestChanged
  <2>3. QED
    BY <1>1, <1>2, <2>1, <2>2, ArmedCovers
<1>5. CASE timers # {}
  <2>1. /\ First(timers) \in Nat
        /\ \E e \in timers : e[1] = First(timers)
        /\ \A e \in timers : First(timers) <= e[1]
    BY <1>1, <1>5, FirstIsLeast
  <2>2. CASE when < First(timers)
    <3>1. First(timers') = when
      BY <1>1, <1>2, <1>3, <2>1, <2>2
    <3>2. ResetTimerfd(when)
      BY <2>2 DEF AddTimerInLoop, EarliestChanged
    <3>3. QED
      BY <1>1, <1>2, <3>1, <3>2, ArmedCovers
  <2>3. CASE ~(when < First(timers))
    <3>1. First(timers') = First(timers)
      BY <1>1, <1>2, <1>3, <2>1, <2>3
    <3>2. UNCHANGED fdVars
      BY <1>5, <2>3 DEF AddTimerInLoop, EarliestChanged
    <3>3. QED
      BY <1>5, <3>1, <3>2 DEF TimerfdCoversFirst, fdVars
  <2>4. QED
    BY <2>2, <2>3
<1>6. QED
  BY <1>4, <1>5

\* Cancelling one does, too.
LEMMA CancelCovers ==
  ASSUME Inv, TimerfdCoversFirst, NEW a \in Addrs, NEW seq \in Seqs, CancelInLoop(a, seq),
         UNCHANGED <<fdVars, active, runVars>>
  PROVE  TimerfdCoversFirst'
<1>1. timers' \subseteq timers /\ timers \subseteq Nat \X Addrs /\ timerfd \in Nat
  BY DEF CancelInLoop, queueVars, Inv, TypeOK
<1>2. UNCHANGED <<timerfd, readable, missed, active, doing>>
  BY DEF fdVars, runVars
<1>3. CASE timers' = {}
  BY <1>3 DEF TimerfdCoversFirst
<1>4. CASE timers' # {}
  <2>1. First(timers) <= First(timers') /\ timers # {}
    BY <1>1, <1>4, FirstOfFewer
  <2>2. First(timers) \in Nat /\ First(timers') \in Nat
    BY <1>1, <1>4, <2>1, FirstIsLeast
  <2>3. QED
    BY <1>1, <1>2, <2>1, <2>2 DEF TimerfdCoversFirst
<1>5. QED
  BY <1>3, <1>4

\* Hazard: the timerfd is armed only when the first timer changes, and left
\* alone by cancelInLoop().  It covers the first timer all the same.
THEOREM FirstIsCovered == Spec => []TimerfdCoversFirst
<1>1. Init => TimerfdCoversFirst
  BY DEF Init, TimerfdCoversFirst
<1>2. Inv /\ Inv' /\ TimerfdCoversFirst /\ [Next]_vars => TimerfdCoversFirst'
  <2> SUFFICES ASSUME Inv, Inv', TimerfdCoversFirst, [Next]_vars
               PROVE  TimerfdCoversFirst'
    OBVIOUS
  <2>1. CASE Tick
    BY <2>1 DEF Tick, TimerfdCoversFirst, queueVars, runVars
  <2>2. CASE Poll \/ HandleRead \/ RunReturn \/ (\E e \in toRun : RunTimer(e))
    BY <2>2 DEF Poll, HandleRead, RunReturn, RunTimer, TimerfdCoversFirst, fdVars, runVars,
                queueVars
  <2>3. CASE Reset
    <3>1. now \in Nat /\ timers' \subseteq Nat \X Addrs
      BY BoundsAssumption DEF Inv, TypeOK
    <3>2. CASE timers' = {}
      BY <3>2 DEF TimerfdCoversFirst
    <3>3. CASE timers' # {}
      <4>1. ResetTimerfd(First(timers'))
        BY <2>3, <3>3 DEF Reset
      <4>2. QED
        BY <3>1, <3>3, <4>1, ArmedCovers
    <3>4. QED
      BY <3>2, <3>3
  <2>4. CASE RunFunctor
    <3>1. /\ pending # <<>> /\ ~doing /\ active' = active
          /\ Head(pending).addr \in Addrs /\ Head(pending).seq \in Seqs
      BY <2>4, TailFacts, CallFacts DEF RunFunctor, Inv
    <3>2. heap[Head(pending).addr].expiration \in Nat
      BY <3>1, Objects DEF Inv
    <3>3. \/ AddTimerInLoop(Head(pending).addr, heap[Head(pending).addr].expiration,
                            Head(pending).seq)
          \/ /\ CancelInLoop(Head(pending).addr, Head(pending).seq)
             /\ UNCHANGED <<fdVars, runVars>>
      BY <2>4 DEF RunFunctor
    <3>4. QED
      BY <3>1, <3>2, <3>3, AddCovers, CancelCovers
  <2>5. CASE Calls
    <3>1. ASSUME NEW a \in Addrs, NEW d \in Delays, NEW i \in Intervals, LoopAddTimer(a, d, i)
          PROVE  TimerfdCoversFirst'
      <4>1. NewTimer(a, now + d, i) /\ AddTimerInLoop(a, now + d, numCreated + 1)
            /\ UNCHANGED <<active, runVars>>
        BY <3>1 DEF LoopAddTimer, AddTimerInLoop
      <4>2. numCreated \in Nat /\ numCreated + 1 <= MaxSeq /\ now + d \in Nat
        BY <4>1, CounterIsNat, BoundsAssumption, DelaysAssumption DEF Inv, NewTimer, TypeOK
      <4>3. numCreated + 1 \in Seqs
        BY <4>2 DEF Seqs
      <4>4. ~doing \/ doing'
        BY <4>1 DEF runVars
      <4>5. QED
        BY <4>1, <4>2, <4>3, <4>4, AddCovers
    <3>2. ASSUME NEW a \in Addrs, NEW d \in Delays, NEW i \in Intervals, AddTimer(a, d, i)
          PROVE  TimerfdCoversFirst'
      BY <3>2 DEF AddTimer, TimerfdCoversFirst, queueVars, fdVars, runVars
    <3>3. ASSUME NEW id \in ids, LoopCancel(id)
          PROVE  TimerfdCoversFirst'
      BY <3>3, CancelCovers DEF LoopCancel, Inv, TypeOK
    <3>4. ASSUME NEW id \in ids, Cancel(id)
          PROVE  TimerfdCoversFirst'
      BY <3>4 DEF Cancel, TimerfdCoversFirst, queueVars, fdVars, runVars
    <3>5. QED
      BY <2>5, <3>1, <3>2, <3>3, <3>4 DEF Calls
  <2>6. CASE UNCHANGED vars
    BY <2>6 DEF vars, queueVars, fdVars, runVars, TimerfdCoversFirst
  <2>7. QED
    BY <2>1, <2>2, <2>3, <2>4, <2>5, <2>6 DEF Next, LoopStep
<1>3. QED
  BY <1>1, <1>2, Invariance, PTL DEF Spec
==============================================================================
