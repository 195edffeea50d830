--------------------------- MODULE TcpServerProofs ---------------------------
(***************************************************************************)
(* Proofs about TcpServer and its connections for any loops, connections,  *)
(* senders, pool and messages:                                             *)
(*   - types, the owners of registered channels and the streams of bytes,  *)
(*     in every instance;                                                  *)
(*   - the map and the output buffers, when no thread but the loops calls  *)
(*     send() and shutdown();                                              *)
(*   - that no assertion fails, when moreover a hang-up cannot close a     *)
(*     connection a second time.                                           *)
(* The functors that a loop has still to call are seen as one sequence,    *)
(* Todo; each step takes its head or puts a functor behind it (Evolve),    *)
(* and the invariants speak of functors that are awaited, and of two in    *)
(* their order.                                                            *)
(***************************************************************************)
EXTENDS TcpServer, SequenceTheorems, TLAPS

------------------------------------------------------------------------------
(* The queues of a loop.                                                   *)

\* The functors of a loop that have not been called yet, in order.
Todo(l) == SubSeq(batch[l], next[l], Len(batch[l])) \o pending[l]

\* The sequence t is s, or s without its first element, with the element of G
\* behind if there is one.
Extends(s, t, G) ==
  /\ Len(t) \in Nat
  /\ \A i \in 1..Len(s) : i \in 1..Len(t) /\ t[i] = s[i]
  /\ \A i \in 1..Len(t) :
       \/ i \in 1..Len(s) /\ t[i] = s[i]
       \/ i = Len(s) + 1 /\ i = Len(t) /\ t[i] \in G
  /\ \A f \in G : Len(t) \in 1..Len(t) /\ t[Len(t)] = f

Shifts(s, t, G) ==
  /\ Len(s) >= 1
  /\ Len(t) \in Nat
  /\ \A i \in 1..Len(s) : i > 1 => i - 1 \in 1..Len(t) /\ t[i - 1] = s[i]
  /\ \A i \in 1..Len(t) :
       \/ i + 1 \in 1..Len(s) /\ t[i] = s[i + 1]
       \/ i = Len(s) /\ i = Len(t) /\ t[i] \in G
  /\ \A f \in G : Len(t) \in 1..Len(t) /\ t[Len(t)] = f

\* In a step, the loops of T take their first functor, and the pairs of F say
\* which functor is added to which loop.
Evolve(T, F) ==
  \A l \in Loops : LET G == {f \in Functors : <<l, f>> \in F}
                  IN  IF l \in T THEN Shifts(Todo(l), Todo(l)', G)
                                 ELSE Extends(Todo(l), Todo(l)', G)

\* Where each loop is in its batch.
BatchInv ==
  \A l \in Loops : /\ phase[l] # "functors" => batch[l] = <<>> /\ next[l] = 1
                   /\ next[l] \in 1..Len(batch[l]) + 1

\* The elements of a batch from next on, with what is pending behind.
LEMMA RestFacts ==
  ASSUME NEW S, NEW b \in Seq(S), NEW n \in 1..Len(b) + 1, NEW p \in Seq(S)
  PROVE  /\ SubSeq(b, n, Len(b)) \o p \in Seq(S)
         /\ Len(SubSeq(b, n, Len(b)) \o p) = Len(b) - n + 1 + Len(p)
         /\ \A i \in 1..Len(SubSeq(b, n, Len(b)) \o p) :
              (SubSeq(b, n, Len(b)) \o p)[i] = IF i <= Len(b) - n + 1 THEN b[n + i - 1]
                                                ELSE p[i - (Len(b) - n + 1)]
<1> DEFINE r == SubSeq(b, n, Len(b))
<1>1. Len(b) \in Nat /\ n \in Int
  BY LenProperties
<1>2. \A i \in n..Len(b) : b[i] \in S
  BY <1>1, ElementOfSeq
<1>3. /\ r \in Seq(S)
      /\ Len(r) = Len(b) - n + 1
      /\ \A i \in 1..Len(b) - n + 1 : r[i] = b[n + i - 1]
  <2>1. /\ r \in Seq(S)
        /\ Len(r) = IF n <= Len(b) THEN Len(b) - n + 1 ELSE 0
        /\ \A i \in 1..Len(b) - n + 1 : r[i] = b[n + i - 1]
    BY <1>1, <1>2, SubSeqProperties
  <2>2. QED
    BY <1>1, <2>1
<1> HIDE DEF r
<1>4. /\ r \o p \in Seq(S)
      /\ Len(r \o p) = Len(r) + Len(p)
      /\ \A i \in 1..Len(r) + Len(p) :
           (r \o p)[i] = IF i <= Len(r) THEN r[i] ELSE p[i - Len(r)]
  BY <1>3, ConcatProperties
<1>5. Len(p) \in Nat
  BY LenProperties
<1>6. QED
  BY <1>1, <1>3, <1>4, <1>5 DEF r

\* Todo is a sequence of functors.
LEMMA TodoFacts ==
  ASSUME TypeOK, BatchInv, NEW l \in Loops
  PROVE  /\ batch[l] \in Seq(Functors) /\ pending[l] \in Seq(Functors)
         /\ next[l] \in 1..Len(batch[l]) + 1
         /\ Todo(l) \in Seq(Functors)
         /\ Len(Todo(l)) \in Nat /\ DOMAIN Todo(l) = 1..Len(Todo(l))
         /\ \A i \in 1..Len(Todo(l)) : Todo(l)[i] \in Functors
<1>1. batch[l] \in Seq(Functors) /\ pending[l] \in Seq(Functors) /\ next[l] \in 1..Len(batch[l]) + 1
  BY DEF TypeOK, TcpTypeOK, BatchInv
<1>2. Todo(l) \in Seq(Functors)
  BY <1>1, RestFacts DEF Todo
<1>3. QED
  BY <1>1, <1>2, LenProperties, ElementOfSeq

\* Todo, element by element.
LEMMA TodoElements ==
  ASSUME TypeOK, BatchInv, NEW l \in Loops
  PROVE  /\ Len(batch[l]) \in Nat /\ Len(pending[l]) \in Nat
         /\ Len(Todo(l)) = Len(batch[l]) - next[l] + 1 + Len(pending[l])
         /\ \A i \in 1..Len(Todo(l)) :
              Todo(l)[i] = IF i <= Len(batch[l]) - next[l] + 1 THEN batch[l][next[l] + i - 1]
                           ELSE pending[l][i - (Len(batch[l]) - next[l] + 1)]
<1> DEFINE b == batch[l]
           n == next[l]
           p == pending[l]
           t == Todo(l)
<1>1. b \in Seq(Functors) /\ p \in Seq(Functors) /\ n \in 1..Len(b) + 1
      /\ t = SubSeq(b, n, Len(b)) \o p
  BY TodoFacts DEF Todo
<1> HIDE DEF b, n, p, t
<1>2. /\ Len(b) \in Nat /\ Len(p) \in Nat
      /\ Len(t) = Len(b) - n + 1 + Len(p)
      /\ \A i \in 1..Len(t) : t[i] = IF i <= Len(b) - n + 1 THEN b[n + i - 1]
                                     ELSE p[i - (Len(b) - n + 1)]
  BY <1>1, RestFacts, LenProperties
<1>3. QED
  BY <1>2 DEF b, n, p, t

\* queueInLoop() puts one functor behind the others.
LEMMA AppendExtends ==
  ASSUME NEW S, NEW p \in Seq(S), NEW q \in Seq(S), NEW G,
         \/ q = p /\ G = {}
         \/ \E f \in S : q = Append(p, f) /\ G = {f}
  PROVE  Extends(p, q, G)
<1>1. Len(p) \in Nat /\ Len(q) \in Nat
  BY LenProperties
<1>2. CASE q = p /\ G = {}
  BY <1>1, <1>2 DEF Extends
<1>3. ASSUME NEW f \in S, q = Append(p, f), G = {f}
      PROVE  Extends(p, q, G)
  <2>1. /\ Len(q) = Len(p) + 1
        /\ \A i \in 1..Len(p) : q[i] = p[i]
        /\ q[Len(p) + 1] = f
    BY <1>3, AppendProperties
  <2>2. QED
    BY <1>1, <1>3, <2>1 DEF Extends
<1>4. QED
  BY <1>2, <1>3

\* What is put behind pending is put behind Todo.
LEMMA RestExtends ==
  ASSUME NEW S, NEW b \in Seq(S), NEW n \in 1..Len(b) + 1, NEW p \in Seq(S),
         NEW q \in Seq(S), NEW G, Extends(p, q, G)
  PROVE  Extends(SubSeq(b, n, Len(b)) \o p, SubSeq(b, n, Len(b)) \o q, G)
<1> DEFINE s == SubSeq(b, n, Len(b)) \o p
           t == SubSeq(b, n, Len(b)) \o q
           k == Len(b) - n + 1
<1>1. Len(b) \in Nat /\ Len(p) \in Nat /\ Len(q) \in Nat
  BY LenProperties
<1>2. /\ Len(s) = k + Len(p)
      /\ \A i \in 1..Len(s) : s[i] = IF i <= k THEN b[n + i - 1] ELSE p[i - k]
  BY RestFacts
<1>3. /\ Len(t) = k + Len(q)
      /\ \A i \in 1..Len(t) : t[i] = IF i <= k THEN b[n + i - 1] ELSE q[i - k]
  BY RestFacts
<1>4. k \in Nat /\ n \in Nat
  BY <1>1
<1> HIDE DEF s, t, k
<1>5. Len(t) \in Nat
  BY <1>1, <1>3, <1>4
<1>6. ASSUME NEW i \in 1..Len(s)
      PROVE  i \in 1..Len(t) /\ t[i] = s[i]
  <2>0. \A j \in 1..Len(p) : j \in 1..Len(q) /\ q[j] = p[j]
    BY DEF Extends
  <2>1. CASE i <= k
    BY <1>1, <1>2, <1>3, <1>4, <2>1
  <2>2. CASE i > k
    <3> DEFINE j == i - k
    <3>1. j \in 1..Len(p) /\ s[i] = p[j]
      BY <1>1, <1>2, <1>4, <2>2
    <3> HIDE DEF j
    <3>2. j \in 1..Len(q) /\ q[j] = p[j]
      BY <2>0, <3>1
    <3>3. i \in 1..Len(t)
      BY <1>1, <1>2, <1>3, <1>4, <3>2, <2>2 DEF j
    <3>4. t[i] = q[j]
      BY <1>3, <1>4, <2>2, <3>3 DEF j
    <3>5. QED
      BY <3>1, <3>2, <3>3, <3>4
  <2>3. QED
    BY <1>4, <2>1, <2>2
<1>7. ASSUME NEW i \in 1..Len(t)
      PROVE  \/ i \in 1..Len(s) /\ t[i] = s[i]
             \/ i = Len(s) + 1 /\ i = Len(t) /\ t[i] \in G
  <2>0. \A j \in 1..Len(q) : \/ j \in 1..Len(p) /\ q[j] = p[j]
                             \/ j = Len(p) + 1 /\ j = Len(q) /\ q[j] \in G
    BY Zenon DEF Extends
  <2>1. CASE i <= k
    BY <1>1, <1>2, <1>3, <1>4, <2>1
  <2>2. CASE i > k
    <3> DEFINE j == i - k
    <3>1. j \in 1..Len(q) /\ t[i] = q[j]
      BY <1>1, <1>3, <1>4, <2>2
    <3> HIDE DEF j
    <3>2. \/ j \in 1..Len(p) /\ q[j] = p[j]
          \/ j = Len(p) + 1 /\ j = Len(q) /\ q[j] \in G
      BY <2>0, <3>1
    <3>3. CASE j \in 1..Len(p) /\ q[j] = p[j]
      <4>1. i \in 1..Len(s)
        BY <1>1, <1>2, <1>3, <1>4, <3>3, <2>2 DEF j
      <4>2. s[i] = p[j]
        BY <1>2, <1>4, <2>2, <4>1 DEF j
      <4>3. QED
        BY <3>1, <3>3, <4>1, <4>2
    <3>4. CASE j = Len(p) + 1 /\ j = Len(q) /\ q[j] \in G
      <4>1. i = Len(s) + 1 /\ i = Len(t)
        BY <1>1, <1>2, <1>3, <1>4, <3>4, <2>2 DEF j
      <4>2. QED
        BY <3>1, <3>4, <4>1
    <3>5. QED
      BY <3>2, <3>3, <3>4
  <2>3. QED
    BY <1>4, <2>1, <2>2
<1>8. \A f \in G : Len(t) \in 1..Len(t) /\ t[Len(t)] = f
  <2>1. Len(t) - k = Len(q)
    BY <1>1, <1>3, <1>4
  <2>2. ASSUME NEW f \in G
        PROVE  Len(t) \in 1..Len(t) /\ t[Len(t)] = f
    <3>1. Len(q) \in 1..Len(q) /\ q[Len(q)] = f
      BY <2>2 DEF Extends
    <3>2. Len(t) \in 1..Len(t) /\ ~(Len(t) <= k)
      BY <1>1, <1>3, <1>4, <2>1, <3>1
    <3>3. t[Len(t)] = q[Len(t) - k]
      BY <1>3, <1>4, <3>2
    <3>4. QED
      BY <2>1, <3>1, <3>2, <3>3
  <2>3. QED
    BY <2>2
<1>9. QED
  BY <1>5, <1>6, <1>7, <1>8 DEF Extends, s, t

\* Calling the functor at next takes the first element of Todo.
LEMMA RestShifts ==
  ASSUME NEW S, NEW b \in Seq(S), NEW n \in 1..Len(b), NEW p \in Seq(S),
         NEW q \in Seq(S), NEW G, Extends(p, q, G)
  PROVE  /\ Shifts(SubSeq(b, n, Len(b)) \o p, SubSeq(b, n + 1, Len(b)) \o q, G)
         /\ (SubSeq(b, n, Len(b)) \o p)[1] = b[n]
<1> DEFINE s == SubSeq(b, n, Len(b)) \o p
           u == SubSeq(b, n + 1, Len(b)) \o p
           t == SubSeq(b, n + 1, Len(b)) \o q
           k == Len(b) - n + 1
           m == n + 1
<1>1. Len(b) \in Nat /\ Len(p) \in Nat /\ Len(q) \in Nat
  BY LenProperties
<1>2. n \in 1..Len(b) + 1 /\ m \in 1..Len(b) + 1
  BY <1>1
<1>3. /\ Len(s) = k + Len(p)
      /\ \A i \in 1..Len(s) : s[i] = IF i <= k THEN b[n + i - 1] ELSE p[i - k]
  BY <1>2, RestFacts
<1> HIDE DEF m
<1>4. Extends(SubSeq(b, m, Len(b)) \o p, SubSeq(b, m, Len(b)) \o q, G)
  BY <1>2, RestExtends
<1>5. /\ Len(SubSeq(b, m, Len(b)) \o p) = Len(b) - m + 1 + Len(p)
      /\ \A i \in 1..Len(SubSeq(b, m, Len(b)) \o p) :
            (SubSeq(b, m, Len(b)) \o p)[i] = IF i <= Len(b) - m + 1 THEN b[m + i - 1] ELSE p[i - (Len(b) - m + 1)]
  BY <1>2, RestFacts
<1>6. /\ Len(u) = k - 1 + Len(p)
      /\ \A i \in 1..Len(u) : u[i] = IF i <= k - 1 THEN b[n + i] ELSE p[i - (k - 1)]
  <2>1. Len(b) - m + 1 = k - 1
    BY <1>1 DEF m
  <2>2. u = SubSeq(b, m, Len(b)) \o p
    BY DEF m
  <2>3. Len(u) = k - 1 + Len(p)
    BY <1>5, <2>1, <2>2
  <2>4. ASSUME NEW i \in 1..Len(u)
        PROVE  u[i] = IF i <= k - 1 THEN b[n + i] ELSE p[i - (k - 1)]
    <3>1. u[i] = IF i <= Len(b) - m + 1 THEN b[m + i - 1] ELSE p[i - (Len(b) - m + 1)]
      BY <1>5, <2>2
    <3>2. m + i - 1 = n + i
      BY <1>1 DEF m
    <3>3. QED
      BY <2>1, <3>1, <3>2
  <2>5. QED
    BY <2>3, <2>4
<1> USE DEF m
<1>7. Extends(u, t, G)
  BY <1>4
<1>8. k \in Nat /\ k >= 1 /\ n \in Nat
  BY <1>1
<1>9. s[1] = b[n]
  BY <1>1, <1>3, <1>8
<1> HIDE DEF s, t, u, k, m
<1>10. Len(s) \in Nat /\ Len(s) >= 1 /\ Len(u) = Len(s) - 1
  BY <1>1, <1>3, <1>6, <1>8
<1>11. ASSUME NEW i \in 1..Len(u)
       PROVE  i + 1 \in 1..Len(s) /\ u[i] = s[i + 1]
  <2> DEFINE j == i + 1
  <2>1. j \in 1..Len(s)
    BY <1>10
  <2> HIDE DEF j
  <2>2. s[j] = IF j <= k THEN b[n + j - 1] ELSE p[j - k]
    BY <1>3, <2>1
  <2>3. QED
    BY <1>6, <1>8, <1>10, <2>1, <2>2 DEF j
<1>12. QED
  <2>1. Len(t) \in Nat
    BY <1>7 DEF Extends
  <2>2. ASSUME NEW i \in 1..Len(s), i > 1
        PROVE  i - 1 \in 1..Len(t) /\ t[i - 1] = s[i]
    <3>1. i - 1 \in 1..Len(u) /\ (i - 1) + 1 = i
      BY <1>10, <2>2
    <3>2. u[i - 1] = s[i]
      BY <1>11, <3>1
    <3>3. QED
      BY <1>7, <3>1, <3>2 DEF Extends
  <2>3. ASSUME NEW i \in 1..Len(t)
        PROVE  \/ i + 1 \in 1..Len(s) /\ t[i] = s[i + 1]
               \/ i = Len(s) /\ i = Len(t) /\ t[i] \in G
    BY <1>7, <1>10, <1>11 DEF Extends
  <2>4. \A f \in G : Len(t) \in 1..Len(t) /\ t[Len(t)] = f
    BY <1>7 DEF Extends
  <2>5. QED
    BY <1>9, <1>10, <2>1, <2>2, <2>3, <2>4 DEF Shifts, s, t

\* What a step adds to the pending functors of the loops.
Added(F, l) == {f \in Functors : <<l, f>> \in F}

Grows(F) ==
  \A l \in Loops :
    \/ pending'[l] = pending[l] /\ Added(F, l) = {}
    \/ \E f \in Functors : pending'[l] = Append(pending[l], f) /\ Added(F, l) = {f}

\* A step that queues nothing.
LEMMA NothingAdded == UNCHANGED pending => Grows({})
BY DEF Grows, Added

\* A step that queues one functor.
LEMMA OneAdded ==
  ASSUME TypeOK, NEW k, NEW f \in Functors, Queue(k, f)
  PROVE  Grows({<<k, f>>})
<1>1. /\ k \in Loops => pending'[k] = Append(pending[k], f)
      /\ \A l \in Loops \ {k} : pending'[l] = pending[l]
  BY DEF Queue, TypeOK, TcpTypeOK
<1>2. Added({<<k, f>>}, k) = {f}
  BY DEF Added
<1>3. \A l \in Loops \ {k} : Added({<<k, f>>}, l) = {}
  BY DEF Added
<1>4. QED
  BY <1>1, <1>2, <1>3 DEF Grows

\* Grows, for one queue.
LEMMA PendingExtends ==
  ASSUME TypeOK, TypeOK', NEW F, Grows(F), NEW l \in Loops
  PROVE  Extends(pending[l], pending'[l], Added(F, l))
<1>1. pending[l] \in Seq(Functors) /\ pending'[l] \in Seq(Functors)
  BY DEF TypeOK, TcpTypeOK
<1>2. \/ pending'[l] = pending[l] /\ Added(F, l) = {}
      \/ \E f \in Functors : pending'[l] = Append(pending[l], f) /\ Added(F, l) = {f}
  BY DEF Grows
<1>3. QED
  BY <1>1, <1>2, AppendExtends, Zenon

\* queueInLoop(), seen on Todo.
LEMMA EvolveQueued ==
  ASSUME TypeOK, BatchInv, TypeOK', UNCHANGED <<batch, next>>, NEW F, Grows(F)
  PROVE  Evolve({}, F)
<1> SUFFICES ASSUME NEW l \in Loops
             PROVE  Extends(Todo(l), Todo(l)', Added(F, l))
  BY DEF Evolve, Added
<1> DEFINE b == batch[l]
           n == next[l]
           p == pending[l]
           q == pending'[l]
           G == Added(F, l)
<1>1. b \in Seq(Functors) /\ p \in Seq(Functors) /\ q \in Seq(Functors) /\ n \in 1..Len(b) + 1
  BY TodoFacts DEF TypeOK, TcpTypeOK
<1>2. Extends(p, q, G)
  BY PendingExtends
<1>3. Todo(l) = SubSeq(b, n, Len(b)) \o p /\ Todo(l)' = SubSeq(b, n, Len(b)) \o q
  BY DEF Todo
<1> HIDE DEF b, n, p, q, G
<1>4. Extends(SubSeq(b, n, Len(b)) \o p, SubSeq(b, n, Len(b)) \o q, G)
  BY <1>1, <1>2, RestExtends
<1>5. QED
  BY <1>3, <1>4 DEF G

\* A functor called by doPendingFunctor(), seen on Todo.
LEMMA EvolveRuns ==
  ASSUME TypeOK, BatchInv, TypeOK', UNCHANGED batch, NEW F, Grows(F),
         NEW k \in Loops, NEW op, NEW c, Runs(k, op, c)
  PROVE  /\ Evolve({k}, F)
         /\ Todo(k)[1].op = op /\ Todo(k)[1].conn = c
         /\ Todo(k)[1] = batch[k][next[k]]
         /\ next'[k] \in 1..Len(batch'[k]) + 1
<1>1. /\ next[k] \in 1..Len(batch[k]) /\ next'[k] = next[k] + 1
      /\ batch[k][next[k]].op = op /\ batch[k][next[k]].conn = c
      /\ \A l \in Loops \ {k} : next'[l] = next[l]
  <2>1. DOMAIN batch[k] = 1..Len(batch[k])
    BY TodoFacts, LenProperties
  <2>2. QED
    BY ZenonT(60), <2>1 DEF Runs, TypeOK, TcpTypeOK
<1>2. ASSUME NEW l \in Loops \ {k}
      PROVE  Extends(Todo(l), Todo(l)', Added(F, l))
  <2> DEFINE b == batch[l]
             n == next[l]
             p == pending[l]
             q == pending'[l]
             G == Added(F, l)
  <2>1. b \in Seq(Functors) /\ p \in Seq(Functors) /\ q \in Seq(Functors) /\ n \in 1..Len(b) + 1
    BY TodoFacts DEF TypeOK, TcpTypeOK
  <2>2. Extends(p, q, G)
    BY PendingExtends
  <2>3. Todo(l) = SubSeq(b, n, Len(b)) \o p /\ Todo(l)' = SubSeq(b, n, Len(b)) \o q
    BY <1>1 DEF Todo
  <2> HIDE DEF b, n, p, q, G
  <2>4. Extends(SubSeq(b, n, Len(b)) \o p, SubSeq(b, n, Len(b)) \o q, G)
    BY <2>1, <2>2, RestExtends
  <2>5. QED
    BY <2>3, <2>4 DEF G
<1>3. /\ Shifts(Todo(k), Todo(k)', Added(F, k))
      /\ Todo(k)[1] = batch[k][next[k]]
  <2> DEFINE b == batch[k]
             n == next[k]
             p == pending[k]
             q == pending'[k]
             G == Added(F, k)
  <2>1. b \in Seq(Functors) /\ p \in Seq(Functors) /\ q \in Seq(Functors) /\ n \in 1..Len(b)
    BY <1>1, TodoFacts DEF TypeOK, TcpTypeOK
  <2>2. Extends(p, q, G)
    BY PendingExtends
  <2>3. Todo(k) = SubSeq(b, n, Len(b)) \o p /\ Todo(k)' = SubSeq(b, n + 1, Len(b)) \o q
    BY <1>1 DEF Todo
  <2> HIDE DEF b, n, p, q, G
  <2>4. /\ Shifts(SubSeq(b, n, Len(b)) \o p, SubSeq(b, n + 1, Len(b)) \o q, G)
        /\ (SubSeq(b, n, Len(b)) \o p)[1] = b[n]
    BY <2>1, <2>2, RestShifts
  <2>5. QED
    BY <2>3, <2>4 DEF G, b, n
<1>4. Evolve({k}, F)
  BY <1>2, <1>3 DEF Evolve, Added
<1>5. next'[k] \in 1..Len(batch'[k]) + 1
  BY <1>1, TodoFacts, LenProperties
<1>6. QED
  BY <1>1, <1>3, <1>4, <1>5

\* Todo may be stored in another way.
LEMMA EvolveSame ==
  ASSUME TypeOK, BatchInv, \A l \in Loops : Todo(l)' = Todo(l)
  PROVE  Evolve({}, {})
<1> SUFFICES ASSUME NEW l \in Loops
             PROVE  Extends(Todo(l), Todo(l)', {})
  BY DEF Evolve
<1> QED
  BY TodoFacts DEF Extends

\* The swap in doPendingFunctor() moves functors and changes no order.
LEMMA EvolveSwap ==
  ASSUME TypeOK, BatchInv, NEW k \in Loops, SwapFunctors(k)
  PROVE  Evolve({}, {})
<1> SUFFICES ASSUME NEW l \in Loops
             PROVE  Todo(l)' = Todo(l)
  BY EvolveSame
<1>1. CASE l # k
  BY <1>1 DEF SwapFunctors, Todo, TypeOK, TcpTypeOK
<1>2. CASE l = k
  <2> DEFINE p == pending[k]
  <2>1. p \in Seq(Functors)
    BY TodoFacts
  <2>2. batch[k] = <<>> /\ next[k] = 1
    BY DEF SwapFunctors, Between, BatchInv
  <2>3. batch'[k] = p /\ next'[k] = 1 /\ pending'[k] = <<>>
    BY <2>2 DEF SwapFunctors, TypeOK, TcpTypeOK
  <2>4. Todo(k) = SubSeq(<<>>, 1, Len(<<>>)) \o p /\ Todo(k)' = SubSeq(p, 1, Len(p)) \o <<>>
    BY <2>2, <2>3 DEF Todo
  <2> HIDE DEF p
  <2>5. SubSeq(<<>>, 1, Len(<<>>)) = <<>> /\ SubSeq(p, 1, Len(p)) = p
    BY <2>1, SubSeqFull
  <2>6. <<>> \o p = p /\ p \o <<>> = p
    BY <2>1, ConcatEmptySeq
  <2>7. QED
    BY <1>2, <2>4, <2>5, <2>6
<1>3. QED
  BY <1>1, <1>2

\* The batch is dropped when all of it was called.
LEMMA EvolveDone ==
  ASSUME TypeOK, BatchInv, NEW k \in Loops, FunctorsDone(k)
  PROVE  Evolve({}, {})
<1> SUFFICES ASSUME NEW l \in Loops
             PROVE  Todo(l)' = Todo(l)
  BY EvolveSame
<1>1. CASE l # k
  BY <1>1 DEF FunctorsDone, Todo, TypeOK, TcpTypeOK
<1>2. CASE l = k
  <2> DEFINE b == batch[k]
             n == next[k]
  <2>1. b \in Seq(Functors) /\ n = Len(b) + 1 /\ Len(b) \in Nat
    BY TodoFacts, LenProperties DEF FunctorsDone
  <2>2. batch'[k] = <<>> /\ next'[k] = 1 /\ pending'[k] = pending[k]
    BY DEF FunctorsDone, TypeOK, TcpTypeOK
  <2>3. Todo(k) = SubSeq(b, n, Len(b)) \o pending[k] /\ Todo(k)' = SubSeq(<<>>, 1, Len(<<>>)) \o pending[k]
    BY <2>2 DEF Todo
  <2> HIDE DEF b, n
  <2>4. SubSeq(b, n, Len(b)) = <<>> /\ SubSeq(<<>>, 1, Len(<<>>)) = <<>>
    BY <2>1, SubSeqEmpty
  <2>5. QED
    BY <1>2, <2>3, <2>4
<1>3. QED
  BY <1>1, <1>2

\* The functor f waits on loop l; the functor f waits before g.
Awaits(l, f) == \E i \in 1..Len(Todo(l)) : Todo(l)[i] = f
Before(l, f, g) ==
  \E i, j \in 1..Len(Todo(l)) : i < j /\ Todo(l)[i] = f /\ Todo(l)[j] = g

\* A functor that waits after a step waited before it, or is added.
LEMMA AwaitsFrom ==
  ASSUME TypeOK, BatchInv, NEW T, NEW F, Evolve(T, F), NEW l \in Loops, NEW f \in Functors, Awaits(l, f)'
  PROVE  Awaits(l, f) \/ <<l, f>> \in F
<1> DEFINE s == Todo(l)
           t == Todo(l)'
<1>1. IF l \in T THEN Shifts(s, t, Added(F, l)) ELSE Extends(s, t, Added(F, l))
  BY DEF Evolve, Added
<1>2. PICK i \in 1..Len(t) : t[i] = f
  BY DEF Awaits
<1>3. Len(s) \in Nat
  BY TodoFacts
<1> HIDE DEF s, t
<1>4. (\E j \in 1..Len(s) : s[j] = f) \/ f \in Added(F, l)
  BY <1>1, <1>2, <1>3 DEF Extends, Shifts
<1>5. QED
  BY <1>4 DEF s, Awaits, Added

\* A functor that waits before a step waits after it, unless it is the one
\* the step takes.
LEMMA AwaitsKept ==
  ASSUME TypeOK, BatchInv, NEW T, NEW F, Evolve(T, F), NEW l \in Loops, NEW f \in Functors, Awaits(l, f)
  PROVE  Awaits(l, f)' \/ (l \in T /\ f = Todo(l)[1])
<1> DEFINE s == Todo(l)
           t == Todo(l)'
<1>1. IF l \in T THEN Shifts(s, t, Added(F, l)) ELSE Extends(s, t, Added(F, l))
  BY DEF Evolve, Added
<1>2. PICK i \in 1..Len(s) : s[i] = f
  BY DEF Awaits
<1>3. Len(s) \in Nat
  BY TodoFacts
<1> HIDE DEF s, t
<1>4. CASE l \notin T
  <2>1. i \in 1..Len(t) /\ t[i] = f
    BY <1>1, <1>2, <1>4 DEF Extends
  <2>2. QED
    BY <2>1 DEF t, Awaits
<1>5. CASE l \in T /\ i > 1
  <2>1. i - 1 \in 1..Len(t) /\ t[i - 1] = f
    BY <1>1, <1>2, <1>5 DEF Shifts
  <2>2. QED
    BY <2>1 DEF t, Awaits
<1>6. CASE l \in T /\ ~(i > 1)
  <2>1. i = 1
    BY <1>3, <1>6
  <2>2. QED
    BY <1>2, <1>6, <2>1 DEF s
<1>7. QED
  BY <1>4, <1>5, <1>6

\* A functor that is added waits.
LEMMA AwaitsNew ==
  ASSUME NEW T, NEW F, Evolve(T, F), NEW l \in Loops, NEW f \in Functors, <<l, f>> \in F
  PROVE  Awaits(l, f)'
<1> DEFINE s == Todo(l)
           t == Todo(l)'
<1>1. IF l \in T THEN Shifts(s, t, Added(F, l)) ELSE Extends(s, t, Added(F, l))
  BY DEF Evolve, Added
<1> HIDE DEF s, t
<1>2. f \in Added(F, l)
  BY DEF Added
<1>3. Len(t) \in 1..Len(t) /\ t[Len(t)] = f
  BY <1>1, <1>2 DEF Extends, Shifts
<1>4. QED
  BY <1>3 DEF t, Awaits

\* The order of two functors that wait after a step is old, or the second is
\* added.
LEMMA BeforeFrom ==
  ASSUME TypeOK, BatchInv, NEW T, NEW F, Evolve(T, F), NEW l \in Loops,
         NEW f \in Functors, NEW g \in Functors, Before(l, f, g)'
  PROVE  Before(l, f, g) \/ (Awaits(l, f) /\ <<l, g>> \in F)
<1> DEFINE s == Todo(l)
           t == Todo(l)'
<1>1. IF l \in T THEN Shifts(s, t, Added(F, l)) ELSE Extends(s, t, Added(F, l))
  BY DEF Evolve, Added
<1>2. PICK i, j \in 1..Len(t) : i < j /\ t[i] = f /\ t[j] = g
  BY DEF Before
<1>3. Len(s) \in Nat /\ Len(t) \in Nat
  <2>1. Len(s) \in Nat
    BY TodoFacts
  <2>2. Len(t) \in Nat
    BY <1>1 DEF Extends, Shifts
  <2>3. QED
    BY <2>1, <2>2
<1> HIDE DEF s, t
<1>4. CASE l \in T
  <2>1. i + 1 \in 1..Len(s) /\ s[i + 1] = f
    BY <1>1, <1>2, <1>3, <1>4 DEF Shifts
  <2>2. CASE j + 1 \in 1..Len(s) /\ s[j + 1] = g
    <3>1. i + 1 < j + 1
      BY <1>2
    <3>2. QED
      BY <2>1, <2>2, <3>1 DEF s, Before
  <2>3. CASE g \in Added(F, l)
    BY <2>1, <2>3 DEF s, Awaits, Added
  <2>4. QED
    BY <1>1, <1>2, <1>4, <2>2, <2>3 DEF Shifts
<1>5. CASE l \notin T
  <2>1. i \in 1..Len(s) /\ s[i] = f
    BY <1>1, <1>2, <1>3, <1>5 DEF Extends
  <2>2. CASE j \in 1..Len(s) /\ s[j] = g
    BY <1>2, <2>1, <2>2 DEF s, Before
  <2>3. CASE g \in Added(F, l)
    BY <2>1, <2>3 DEF s, Awaits, Added
  <2>4. QED
    BY <1>1, <1>2, <1>5, <2>2, <2>3 DEF Extends
<1>6. QED
  BY <1>4, <1>5

\* The functor that a step takes was before every one that stays.
LEMMA HeadBefore ==
  ASSUME TypeOK, BatchInv, NEW T, NEW F, Evolve(T, F), NEW l \in Loops, l \in T,
         NEW g \in Functors, Awaits(l, g)'
  PROVE  Before(l, Todo(l)[1], g) \/ <<l, g>> \in F
<1> DEFINE s == Todo(l)
           t == Todo(l)'
<1>1. Shifts(s, t, Added(F, l))
  BY DEF Evolve, Added
<1>2. PICK i \in 1..Len(t) : t[i] = g
  BY DEF Awaits
<1>3. Len(s) \in Nat
  BY TodoFacts
<1> HIDE DEF s, t
<1>4. CASE i + 1 \in 1..Len(s) /\ t[i] = s[i + 1]
  <2>1. 1 < i + 1 /\ 1 \in 1..Len(s)
    BY <1>1, <1>3 DEF Shifts
  <2>2. QED
    BY <1>2, <1>4, <2>1 DEF s, Before
<1>5. CASE g \in Added(F, l)
  BY <1>5 DEF Added
<1>6. QED
  BY <1>1, <1>2, <1>4, <1>5 DEF Shifts

\* The functor that a step takes waited.
LEMMA HeadAwaits ==
  ASSUME TypeOK, BatchInv, NEW T, NEW F, Evolve(T, F), NEW l \in Loops, l \in T
  PROVE  Todo(l)[1] \in Functors /\ Awaits(l, Todo(l)[1])
<1>1. Len(Todo(l)) >= 1
  BY DEF Evolve, Shifts
<1>2. 1 \in 1..Len(Todo(l))
  BY <1>1, TodoFacts
<1>3. QED
  BY <1>2, TodoFacts DEF Awaits

\* Functors wait among the pending ones or in the rest of the batch.
LEMMA AwaitsWhere ==
  ASSUME TypeOK, BatchInv, NEW l \in Loops, NEW f
  PROVE  Awaits(l, f) <=> \/ \E i \in DOMAIN pending[l] : pending[l][i] = f
                          \/ \E i \in DOMAIN batch[l] : i >= next[l] /\ batch[l][i] = f
<1> DEFINE b == batch[l]
           n == next[l]
           p == pending[l]
           t == Todo(l)
           k == Len(b) - n + 1
<1>1. /\ Len(b) \in Nat /\ Len(p) \in Nat /\ n \in 1..Len(b) + 1
      /\ DOMAIN b = 1..Len(b) /\ DOMAIN p = 1..Len(p)
      /\ Len(t) = k + Len(p)
      /\ \A i \in 1..Len(t) : t[i] = IF i <= k THEN b[n + i - 1] ELSE p[i - k]
  BY TodoFacts, TodoElements, LenProperties
<1>2. k \in Nat
  BY <1>1
<1>3. Awaits(l, f) <=> \E i \in 1..Len(t) : t[i] = f
  BY DEF Awaits
<1> HIDE DEF t
<1>4. ASSUME NEW i \in 1..Len(t), t[i] = f
      PROVE  \/ \E j \in DOMAIN p : p[j] = f
             \/ \E j \in DOMAIN b : j >= n /\ b[j] = f
  <2>1. CASE i <= k
    <3>1. n + i - 1 \in DOMAIN b /\ n + i - 1 >= n /\ b[n + i - 1] = f
      BY SMTT(60), <1>1, <1>4, <2>1
    <3>2. QED
      BY <3>1
  <2>2. CASE i > k
    <3>1. t[i] = p[i - k]
      BY <1>1, <1>2, <2>2
    <3>2. i - k \in 1..Len(p)
      <4> HIDE DEF p, b
      <4>1. i - k >= 1 /\ i - k <= Len(p) /\ i - k \in Int
        BY SMTT(60), <1>1, <1>2, <2>2
      <4>2. QED
        BY <4>1
    <3>3. QED
      BY <1>1, <1>4, <3>1, <3>2
  <2>3. QED
    BY <1>2, <2>1, <2>2
<1>5. ASSUME NEW j \in DOMAIN p, p[j] = f
      PROVE  \E i \in 1..Len(t) : t[i] = f
  <2> DEFINE i == j + k
  <2>0. j \in 1..Len(p)
    BY <1>1
  <2> HIDE DEF b, p, k
  <2>1. i \in 1..Len(t) /\ i > k /\ i - k = j
    BY <1>1, <1>2, <2>0
  <2> HIDE DEF i
  <2>2. t[i] = p[i - k]
    BY <1>1, <1>2, <2>1
  <2>3. QED
    BY <1>5, <2>1, <2>2
<1>6. ASSUME NEW j \in DOMAIN b, j >= n, b[j] = f
      PROVE  \E i \in 1..Len(t) : t[i] = f
  <2> DEFINE i == j - n + 1
  <2>0. j \in 1..Len(b)
    BY <1>1
  <2> HIDE DEF b, p, n
  <2>1. i \in 1..Len(t) /\ i <= k /\ n + i - 1 = j
    BY <1>1, <1>2, <1>6, <2>0
  <2> HIDE DEF i, k
  <2>2. t[i] = b[n + i - 1]
    BY <1>1, <1>2, <2>1
  <2>3. QED
    BY <1>6, <2>1, <2>2
<1>7. QED
  BY <1>3, <1>4, <1>5, <1>6

------------------------------------------------------------------------------
(* Types.                                                                  *)

\* The parts of TypeOK.
LoopTypes ==
  /\ phase \in [Loops -> {"poll", "events", "functors"}]
  /\ active \in [Loops -> SUBSET (Conns \cup {Listener})]
  /\ current \in [Loops -> Conns \cup {NoConn}]
  /\ user \in [Loops -> Conns \cup {NoConn}]
  /\ next \in [Loops -> Nat]

QueueTypes == batch \in [Loops -> Seq(Functors)] /\ pending \in [Loops -> Seq(Functors)]

ConnTypes ==
  /\ loopOf \in [Conns -> Loops \cup {NoLoop}]
  /\ state \in [Conns -> States]
  /\ events \in [Conns -> SUBSET {"read", "write"}]
  /\ registered \in [Conns -> {"new", "in", "out"}]
  /\ revents \in [Conns -> SUBSET {"close", "error", "read", "write"}]

DataTypes == outputBuffer \in [Conns -> Seq(Bytes)] /\ wire \in [Conns -> Seq(Bytes)]

OtherTypes ==
  /\ upped \subseteq Conns /\ downed \subseteq Conns
  /\ peer \in [Conns -> {"absent", "open", "closed", "reset"}]
  /\ inbox \subseteq Conns /\ soError \subseteq Conns /\ wrShut \subseteq Conns
  /\ held \subseteq Conns
  /\ failed \in {"none", "established", "erase", "updateChannel",
                 "removeChannel", "use after free"}
  /\ connections \subseteq Conns
  /\ nextLoop \in DOMAIN IoLoops \cup {1}

CallTypes ==
  /\ call \in [Senders -> [op : {"idle", "send", "shutdown", "shutdownSet"},
                           conn : Conns \cup {NoConn}]]
  /\ sends \in [Loops \cup Senders -> 0..MaxSends]

\* The type invariant, in parts.
LEMMA TypeParts ==
  /\ TypeOK <=> LoopTypes /\ QueueTypes /\ ConnTypes /\ DataTypes /\ OtherTypes /\ CallTypes
  /\ TypeOK' <=> LoopTypes' /\ QueueTypes' /\ ConnTypes' /\ DataTypes' /\ OtherTypes' /\ CallTypes'
BY DEF TypeOK, TcpTypeOK, LoopTypes, QueueTypes, ConnTypes, DataTypes, OtherTypes, CallTypes

\* A functor without data has the type of functors.
LEMMA FunctorType ==
  ASSUME NEW op \in Ops, NEW c \in Conns
  PROVE  Functor(op, c) \in Functors
<1>1. <<>> \in Seq(Bytes)
  BY EmptySeq
<1>2. QED
  BY <1>1 DEF Functor, Functors

\* queueInLoop() keeps the type of the queues.
LEMMA QueueType ==
  ASSUME QueueTypes, NEW k, NEW f \in Functors, Queue(k, f)
  PROVE  pending' \in [Loops -> Seq(Functors)]
<1>1. pending \in [Loops -> Seq(Functors)] /\ pending' = [pending EXCEPT ![k] = Append(@, f)]
  BY DEF QueueTypes, Queue
<1>2. ASSUME NEW l \in Loops
      PROVE  pending'[l] \in Seq(Functors)
  <2>1. pending[l] \in Seq(Functors)
    BY <1>1
  <2>2. Append(pending[l], f) \in Seq(Functors)
    BY <2>1, AppendProperties
  <2>3. QED
    BY <1>1, <2>1, <2>2
<1>3. QED
  BY <1>1, <1>2

\* The parts of a buffer that a partial write leaves are buffers.
LEMMA CutTypes ==
  ASSUME NEW w \in Seq(Bytes), NEW o \in Seq(Bytes), NEW n \in 0..Len(o)
  PROVE  /\ SubSeq(o, 1, n) \in Seq(Bytes) /\ SubSeq(o, n + 1, Len(o)) \in Seq(Bytes)
         /\ w \o SubSeq(o, 1, n) \in Seq(Bytes)
         /\ w \o SubSeq(o, n + 1, Len(o)) \in Seq(Bytes)
<1>1. Len(o) \in Nat /\ \A i \in 1..Len(o) : o[i] \in Bytes
  BY LenProperties, ElementOfSeq
<1>2. SubSeq(o, 1, n) \in Seq(Bytes)
  BY <1>1, SubSeqProperties
<1> DEFINE m == n + 1
<1>3. m \in Int /\ \A i \in m..Len(o) : o[i] \in Bytes
  BY <1>1
<1> HIDE DEF m
<1>4. SubSeq(o, m, Len(o)) \in Seq(Bytes)
  BY <1>1, <1>3, SubSeqProperties
<1>5. QED
  BY <1>2, <1>4, ConcatProperties DEF m

\* Queueing writeCompleteCallback_ keeps the type of the queues.
LEMMA WriteCompleteType ==
  ASSUME QueueTypes, NEW c \in Conns, NEW done, QueueWriteComplete(c, done)
  PROVE  pending' \in [Loops -> Seq(Functors)]
<1>1. CASE done /\ WriteComplete
  BY <1>1, FunctorType, QueueType DEF QueueWriteComplete, Ops
<1>2. CASE ~(done /\ WriteComplete)
  BY <1>2 DEF QueueWriteComplete, QueueTypes
<1>3. QED
  BY <1>1, <1>2

\* Channel::update() keeps the types of what it changes.
LEMMA UpdateTypes ==
  ASSUME ConnTypes, OtherTypes, NEW c \in Conns, NEW ev \in SUBSET {"read", "write"},
         Update(c, ev)
  PROVE  /\ events' \in [Conns -> SUBSET {"read", "write"}]
         /\ registered' \in [Conns -> {"new", "in", "out"}]
         /\ failed' \in {failed, "updateChannel"}
BY DEF Update, ConnTypes, OtherTypes

\* sendInLoop() keeps the types of what it changes.
LEMMA SendTypes ==
  ASSUME TypeOK, NEW c \in Conns, NEW data \in Seq(Bytes), SendInLoop(c, data)
  PROVE  /\ pending' \in [Loops -> Seq(Functors)]
         /\ DataTypes'
         /\ events' \in [Conns -> SUBSET {"read", "write"}]
         /\ registered' \in [Conns -> {"new", "in", "out"}]
         /\ failed' \in {failed, "updateChannel"}
         /\ soError' \subseteq Conns
<1> USE TypeParts
<1>1. PICK n \in 0..Len(data) :
        /\ QueueWriteComplete(c, n = Len(data))
        /\ wire' = [wire EXCEPT ![c] = @ \o SubSeq(data, 1, n)]
        /\ outputBuffer' = [outputBuffer EXCEPT ![c] = @ \o SubSeq(data, n + 1, Len(data))]
        /\ IF n < Len(data) /\ "write" \notin events[c]
             THEN Update(c, events[c] \cup {"write"})
             ELSE UNCHANGED <<events, registered, failed>>
  BY DEF SendInLoop
<1>2. soError' \subseteq Conns
  BY DEF SendInLoop, OtherTypes
<1>3. pending' \in [Loops -> Seq(Functors)]
  BY <1>1, WriteCompleteType
<1>4. DataTypes'
  <2>1. wire[c] \in Seq(Bytes) /\ outputBuffer[c] \in Seq(Bytes)
    BY DEF DataTypes
  <2>2. /\ wire[c] \o SubSeq(data, 1, n) \in Seq(Bytes)
        /\ outputBuffer[c] \o SubSeq(data, n + 1, Len(data)) \in Seq(Bytes)
    BY <2>1, CutTypes
  <2>3. QED
    BY <1>1, <2>2 DEF DataTypes
<1>5. CASE n < Len(data) /\ "write" \notin events[c]
  <2>1. events[c] \cup {"write"} \in SUBSET {"read", "write"}
    BY DEF ConnTypes
  <2>2. QED
    BY <1>1, <1>2, <1>3, <1>4, <1>5, <2>1, UpdateTypes
<1>6. CASE ~(n < Len(data) /\ "write" \notin events[c])
  BY <1>1, <1>2, <1>3, <1>4, <1>6 DEF ConnTypes
<1>7. QED
  BY <1>5, <1>6

\* What send() is given is a sequence of bytes.
LEMMA MessageType ==
  ASSUME NEW s \in Loops \cup Senders, sends \in [Loops \cup Senders -> 0..MaxSends],
         sends[s] < MaxSends
  PROVE  Message(s) \in Seq(Bytes)
<1>1. sends[s] + 1 \in 1..MaxSends /\ MsgLen \in Nat
  BY SendAssumption
<1>2. \A i \in 1..MsgLen : <<s, sends[s] + 1, i>> \in Bytes
  BY <1>1 DEF Bytes
<1>3. Message(s) \in [1..MsgLen -> Bytes]
  BY <1>2 DEF Message
<1>4. QED
  BY <1>1, <1>3

\* A thread inside a call is in it with a connection.
CallInv ==
  \A s \in Senders :
    /\ call[s].op # "idle" => call[s].conn \in Conns /\ registered[call[s].conn] # "new"
    /\ call[s].op = "send" => sends[s] < MaxSends

\* What handleEvent() will call.
LEMMA CallbackTypes ==
  ASSUME NEW c, NEW w
  PROVE  Callbacks(c, w) \in SUBSET {"close", "error", "read", "write"}
BY Zenon DEF Callbacks

\* The functor that is called, and the index of the next one.
LEMMA RunTypes ==
  ASSUME LoopTypes, QueueTypes, BatchInv, NEW l \in Loops, NEW op, NEW c, Runs(l, op, c)
  PROVE  /\ next' \in [Loops -> Nat]
         /\ batch[l][next[l]] \in Functors
<1>1. next' = [next EXCEPT ![l] = @ + 1] /\ next[l] \in DOMAIN batch[l]
  BY DEF Runs
<1>2. batch[l] \in Seq(Functors)
  BY DEF QueueTypes
<1>3. QED
  BY <1>1, <1>2, LenProperties, ElementOfSeq DEF LoopTypes

\* Every step keeps the types; a queued send() relies on the bound that
\* was read when the call began.
LEMMA TypeStep ==
  ASSUME TypeOK, CallInv, BatchInv, [Next]_vars
  PROVE  TypeOK'
<1> USE SentinelAssumption, TypeParts
<1>1. ASSUME NEW l \in Loops, PollLoop(l)
      PROVE  TypeOK'
  <2>1. LoopTypes'
    BY <1>1 DEF PollLoop, Poll, Reported, LoopTypes
  <2>2. QueueTypes'
    BY <1>1 DEF PollLoop, Poll, tcpVars, QueueTypes
  <2>3. ConnTypes'
    <3>1. PICK writable \in SUBSET {c \in Conns : loopOf[c] = l /\ "write" \in events[c]} :
             revents' = [c \in Conns |-> IF c \in Reported(l, writable)
                                           THEN Callbacks(c, c \in writable) ELSE revents[c]]
      BY <1>1, Zenon DEF PollLoop, Poll
    <3>2. revents' \in [Conns -> SUBSET {"close", "error", "read", "write"}]
      BY <3>1, CallbackTypes DEF ConnTypes
    <3>3. QED
      BY <1>1, <3>2 DEF PollLoop, Poll, ConnTypes
  <2>4. DataTypes'
    BY <1>1 DEF PollLoop, Poll, tcpVars, sockVars, DataTypes
  <2>5. OtherTypes'
    BY <1>1 DEF PollLoop, Poll, tcpVars, cbVars, sockVars, userVars, serverVars, OtherTypes
  <2>6. CallTypes'
    BY <1>1 DEF PollLoop, Poll, tcpVars, userVars, CallTypes
  <2>7. QED
    BY <2>1, <2>2, <2>3, <2>4, <2>5, <2>6
<1>2. ASSUME NEW c \in Conns, Accept(c)
      PROVE  TypeOK'
  <2>1. LoopTypes'
    BY <1>2 DEF Accept, ConnectionEstablished, Queue, sockVars, LoopTypes
  <2>2. QueueTypes'
    <3>1. CASE NextLoop = Base
      BY <1>2, <3>1 DEF Accept, QueueTypes
    <3>2. CASE NextLoop # Base
      <4>1. Queue(NextLoop, Functor("established", c)) /\ batch' = batch
        BY <1>2, <3>2 DEF Accept
      <4>2. QED
        BY <4>1, FunctorType, QueueType DEF QueueTypes, Ops
    <3>3. QED
      BY <3>1, <3>2
  <2>3. ConnTypes'
    <3>1. NextLoop \in Loops
      <4>1. IoLoops \in Seq(Loops) /\ Base \in Loops /\ nextLoop \in DOMAIN IoLoops \cup {1}
        BY PoolAssumption DEF OtherTypes
      <4>2. IoLoops # <<>> => nextLoop \in 1..Len(IoLoops)
        BY <4>1, EmptySeq, LenProperties
      <4>3. QED
        BY <4>1, <4>2, ElementOfSeq DEF NextLoop
    <3>2. loopOf' \in [Conns -> Loops \cup {NoLoop}] /\ revents' = revents
      BY <1>2, <3>1 DEF Accept, ConnTypes
    <3>3. CASE NextLoop = Base
      BY <1>2, <3>2, <3>3 DEF Accept, ConnectionEstablished, ConnTypes, States
    <3>4. CASE NextLoop # Base
      BY <1>2, <3>2, <3>4 DEF Accept, ConnTypes, States
    <3>5. QED
      BY <3>3, <3>4
  <2>4. DataTypes'
    BY <1>2 DEF Accept, ConnectionEstablished, Queue, sockVars, DataTypes
  <2>5. OtherTypes'
    <3>1. nextLoop' \in DOMAIN IoLoops \cup {1}
      <4>1. Len(IoLoops) \in Nat /\ DOMAIN IoLoops = 1..Len(IoLoops)
        BY PoolAssumption, LenProperties
      <4>2. nextLoop \in DOMAIN IoLoops \cup {1}
        BY DEF OtherTypes
      <4>3. nextLoop \in Int /\ nextLoop >= 1
        BY <4>1, <4>2
      <4>4. nextLoop' = IF nextLoop >= Len(IoLoops) THEN 1 ELSE nextLoop + 1
        BY <1>2 DEF Accept, NextIndex
      <4>5. QED
        BY <4>1, <4>3, <4>4
    <3>2. QED
      BY <1>2, <3>1 DEF Accept, ConnectionEstablished, sockVars, OtherTypes
  <2>6. CallTypes'
    BY <1>2 DEF Accept, ConnectionEstablished, Queue, sockVars, CallTypes
  <2>7. QED
    BY <2>1, <2>2, <2>3, <2>4, <2>5, <2>6
<1>3. ASSUME NEW l \in Loops, NEW c \in Conns, Dispatch(l, c), UNCHANGED serverVars
      PROVE  TypeOK'
  <2>1. LoopTypes'
    BY <1>3 DEF Dispatch, connVars, cbVars, sockVars, userVars, serverVars, LoopTypes
  <2>2. QueueTypes'
    BY <1>3 DEF Dispatch, connVars, cbVars, sockVars, userVars, serverVars, QueueTypes
  <2>3. ConnTypes'
    BY <1>3 DEF Dispatch, connVars, cbVars, sockVars, userVars, serverVars, ConnTypes
  <2>4. DataTypes'
    BY <1>3 DEF Dispatch, connVars, cbVars, sockVars, userVars, serverVars, DataTypes
  <2>5. OtherTypes'
    BY <1>3 DEF Dispatch, connVars, cbVars, sockVars, userVars, serverVars, OtherTypes
  <2>6. CallTypes'
    BY <1>3 DEF Dispatch, connVars, cbVars, sockVars, userVars, serverVars, CallTypes
  <2>7. QED
    BY <2>1, <2>2, <2>3, <2>4, <2>5, <2>6
<1>4. ASSUME NEW l \in Loops, NEW c \in Conns, HandleMessage(l, c), UNCHANGED serverVars
      PROVE  TypeOK'
  <2>1. LoopTypes'
    BY <1>4 DEF HandleMessage, Calling, cbVars, userVars, serverVars, LoopTypes
  <2>2. QueueTypes'
    BY <1>4 DEF HandleMessage, Calling, cbVars, userVars, serverVars, QueueTypes
  <2>3. ConnTypes'
    BY <1>4 DEF HandleMessage, Calling, cbVars, userVars, serverVars, ConnTypes
  <2>4. DataTypes'
    BY <1>4 DEF HandleMessage, Calling, cbVars, userVars, serverVars, DataTypes
  <2>5. OtherTypes'
    BY <1>4 DEF HandleMessage, Calling, cbVars, userVars, serverVars, OtherTypes
  <2>6. CallTypes'
    BY <1>4 DEF HandleMessage, Calling, cbVars, userVars, serverVars, CallTypes
  <2>7. QED
    BY <2>1, <2>2, <2>3, <2>4, <2>5, <2>6
<1>5. ASSUME NEW l \in Loops, NEW c \in Conns, HandleReadError(l, c), UNCHANGED serverVars
      PROVE  TypeOK'
  <2>1. LoopTypes'
    BY <1>5 DEF HandleReadError, Calling, loopVars, cbVars, userVars, serverVars, LoopTypes
  <2>2. QueueTypes'
    BY <1>5 DEF HandleReadError, Calling, loopVars, cbVars, userVars, serverVars, QueueTypes
  <2>3. ConnTypes'
    BY <1>5 DEF HandleReadError, Calling, loopVars, cbVars, userVars, serverVars, ConnTypes
  <2>4. DataTypes'
    BY <1>5 DEF HandleReadError, Calling, loopVars, cbVars, userVars, serverVars, DataTypes
  <2>5. OtherTypes'
    BY <1>5 DEF HandleReadError, Calling, loopVars, cbVars, userVars, serverVars, OtherTypes
  <2>6. CallTypes'
    BY <1>5 DEF HandleReadError, Calling, loopVars, cbVars, userVars, serverVars, CallTypes
  <2>7. QED
    BY <2>1, <2>2, <2>3, <2>4, <2>5, <2>6
<1>6. ASSUME NEW l \in Loops, NEW c \in Conns, HandleError(l, c), UNCHANGED serverVars
      PROVE  TypeOK'
  <2>1. LoopTypes'
    BY <1>6 DEF HandleError, Calling, loopVars, cbVars, userVars, serverVars, LoopTypes
  <2>2. QueueTypes'
    BY <1>6 DEF HandleError, Calling, loopVars, cbVars, userVars, serverVars, QueueTypes
  <2>3. ConnTypes'
    BY <1>6 DEF HandleError, Calling, loopVars, cbVars, userVars, serverVars, ConnTypes
  <2>4. DataTypes'
    BY <1>6 DEF HandleError, Calling, loopVars, cbVars, userVars, serverVars, DataTypes
  <2>5. OtherTypes'
    BY <1>6 DEF HandleError, Calling, loopVars, cbVars, userVars, serverVars, OtherTypes
  <2>6. CallTypes'
    BY <1>6 DEF HandleError, Calling, loopVars, cbVars, userVars, serverVars, CallTypes
  <2>7. QED
    BY <2>1, <2>2, <2>3, <2>4, <2>5, <2>6
<1>7. ASSUME NEW l \in Loops, NEW c \in Conns, HandleWrite(l, c), UNCHANGED serverVars
      PROVE  TypeOK'
  <2>1. LoopTypes'
    BY <1>7 DEF HandleWrite, Calling, Update, QueueWriteComplete, Queue, cbVars, userVars,
         serverVars, LoopTypes
  <2>2. QueueTypes'
    <3>1. batch' = batch /\ (pending' = pending \/ \E done : QueueWriteComplete(c, done))
      BY <1>7 DEF HandleWrite
    <3>2. QED
      BY <3>1, WriteCompleteType DEF QueueTypes
  <2>3. ConnTypes'
    BY <1>7 DEF HandleWrite, Calling, Update, QueueWriteComplete, Queue, cbVars, userVars,
         serverVars, ConnTypes
  <2>4. DataTypes'
    <3>1. CASE wire' = wire /\ outputBuffer' = outputBuffer
      BY <3>1 DEF DataTypes
    <3>2. ASSUME NEW n \in 1..Len(outputBuffer[c]),
                 wire' = [wire EXCEPT ![c] = @ \o SubSeq(outputBuffer[c], 1, n)],
                 outputBuffer' = [outputBuffer EXCEPT ![c] = SubSeq(@, n + 1, Len(@))]
          PROVE  DataTypes'
      <4>1. wire[c] \in Seq(Bytes) /\ outputBuffer[c] \in Seq(Bytes)
        BY DEF DataTypes
      <4>2. n \in 0..Len(outputBuffer[c])
        BY <4>1, LenProperties
      <4>3. /\ wire[c] \o SubSeq(outputBuffer[c], 1, n) \in Seq(Bytes)
            /\ SubSeq(outputBuffer[c], n + 1, Len(outputBuffer[c])) \in Seq(Bytes)
        BY <4>1, <4>2, CutTypes
      <4>4. QED
        BY <3>2, <4>3 DEF DataTypes
    <3>3. QED
      BY <1>7, <3>1, <3>2, Zenon DEF HandleWrite
  <2>5. OtherTypes'
    BY <1>7 DEF HandleWrite, Calling, Update, QueueWriteComplete, Queue, cbVars, userVars,
         serverVars, OtherTypes
  <2>6. CallTypes'
    BY <1>7 DEF HandleWrite, Calling, Update, QueueWriteComplete, Queue, cbVars, userVars,
         serverVars, CallTypes
  <2>7. QED
    BY <2>1, <2>2, <2>3, <2>4, <2>5, <2>6
<1>8. ASSUME NEW l \in Loops, EventHandled(l), UNCHANGED serverVars
      PROVE  TypeOK'
  <2>1. LoopTypes'
    BY <1>8 DEF EventHandled, connVars, cbVars, sockVars, userVars, serverVars, LoopTypes
  <2>2. QueueTypes'
    BY <1>8 DEF EventHandled, connVars, cbVars, sockVars, userVars, serverVars, QueueTypes
  <2>3. ConnTypes'
    BY <1>8 DEF EventHandled, connVars, cbVars, sockVars, userVars, serverVars, ConnTypes
  <2>4. DataTypes'
    BY <1>8 DEF EventHandled, connVars, cbVars, sockVars, userVars, serverVars, DataTypes
  <2>5. OtherTypes'
    BY <1>8 DEF EventHandled, connVars, cbVars, sockVars, userVars, serverVars, OtherTypes
  <2>6. CallTypes'
    BY <1>8 DEF EventHandled, connVars, cbVars, sockVars, userVars, serverVars, CallTypes
  <2>7. QED
    BY <2>1, <2>2, <2>3, <2>4, <2>5, <2>6
<1>9. ASSUME NEW l \in Loops, NEW c \in Conns, HandleClose(l, c)
      PROVE  TypeOK'
  <2>1. LoopTypes'
    BY <1>9 DEF HandleClose, ClosesNow, Calling, CloseConnection, RemoveConnection,
         RemoveConnectionInLoop, Queue, cbVars, sockVars, userVars, LoopTypes
  <2>2. QueueTypes'
    <3>1. /\ batch' = batch
          /\ \/ Queue(loopOf[c], Functor("destroyed", c))
             \/ Queue(Base, Functor("remove", c))
      BY <1>9 DEF HandleClose, RemoveConnection, RemoveConnectionInLoop, Queue
    <3>2. QED
      BY <3>1, FunctorType, QueueType DEF QueueTypes, Ops
  <2>3. ConnTypes'
    <3>1. revents' \in [Conns -> SUBSET {"close", "error", "read", "write"}]
      BY <1>9 DEF HandleClose, ClosesNow, Calling, ConnTypes
    <3>2. QED
      BY <1>9, <3>1 DEF HandleClose, CloseConnection, ConnTypes, States
  <2>4. DataTypes'
    BY <1>9 DEF HandleClose, ClosesNow, Calling, CloseConnection, RemoveConnection,
         RemoveConnectionInLoop, Queue, cbVars, sockVars, userVars, DataTypes
  <2>5. OtherTypes'
    BY <1>9 DEF HandleClose, ClosesNow, Calling, CloseConnection, RemoveConnection,
         RemoveConnectionInLoop, Queue, cbVars, sockVars, userVars, OtherTypes
  <2>6. CallTypes'
    BY <1>9 DEF HandleClose, ClosesNow, Calling, CloseConnection, RemoveConnection,
         RemoveConnectionInLoop, Queue, cbVars, sockVars, userVars, CallTypes
  <2>7. QED
    BY <2>1, <2>2, <2>3, <2>4, <2>5, <2>6
<1>10. ASSUME NEW l \in Loops, SwapFunctors(l)
      PROVE  TypeOK'
  <2>1. LoopTypes'
    BY <1>10 DEF SwapFunctors, connVars, cbVars, sockVars, userVars, serverVars, LoopTypes
  <2>2. QueueTypes'
    BY <1>10 DEF SwapFunctors, connVars, cbVars, sockVars, userVars, serverVars, QueueTypes
  <2>3. ConnTypes'
    BY <1>10 DEF SwapFunctors, connVars, cbVars, sockVars, userVars, serverVars, ConnTypes
  <2>4. DataTypes'
    BY <1>10 DEF SwapFunctors, connVars, cbVars, sockVars, userVars, serverVars, DataTypes
  <2>5. OtherTypes'
    BY <1>10 DEF SwapFunctors, connVars, cbVars, sockVars, userVars, serverVars, OtherTypes
  <2>6. CallTypes'
    BY <1>10 DEF SwapFunctors, connVars, cbVars, sockVars, userVars, serverVars, CallTypes
  <2>7. QED
    BY <2>1, <2>2, <2>3, <2>4, <2>5, <2>6
<1>11. ASSUME NEW l \in Loops, NEW c \in Conns, RunEstablished(l, c)
      PROVE  TypeOK'
  <2>1. LoopTypes'
    BY <1>11, RunTypes DEF RunEstablished, LoopTypes, ConnectionEstablished
  <2>2. QueueTypes'
    BY <1>11 DEF RunEstablished, Runs, ConnectionEstablished, sockVars, serverVars, QueueTypes
  <2>3. ConnTypes'
    BY <1>11 DEF RunEstablished, ConnectionEstablished, ConnTypes, States
  <2>4. DataTypes'
    BY <1>11 DEF RunEstablished, Runs, ConnectionEstablished, sockVars, serverVars, DataTypes
  <2>5. OtherTypes'
    BY <1>11 DEF RunEstablished, Runs, ConnectionEstablished, sockVars, serverVars, OtherTypes
  <2>6. CallTypes'
    BY <1>11 DEF RunEstablished, Runs, ConnectionEstablished, sockVars, serverVars, CallTypes
  <2>7. QED
    BY <2>1, <2>2, <2>3, <2>4, <2>5, <2>6
<1>12. ASSUME NEW l \in Loops, NEW c \in Conns, RunDestroyed(l, c)
      PROVE  TypeOK'
  <2>1. LoopTypes'
    BY <1>12, RunTypes DEF RunDestroyed, LoopTypes
  <2>2. QueueTypes'
    BY <1>12 DEF RunDestroyed, Runs, ConnectionDestroyed, sockVars, userVars, serverVars,
         QueueTypes
  <2>3. ConnTypes'
    <3>1. state' \in [Conns -> States] /\ events' \in [Conns -> SUBSET {"read", "write"}]
      BY <1>12 DEF RunDestroyed, ConnectionDestroyed, ConnTypes, States
    <3>2. registered' \in [Conns -> {"new", "in", "out"}] /\ loopOf' = loopOf /\ revents' = revents
      BY <1>12 DEF RunDestroyed, ConnectionDestroyed, ConnTypes
    <3>3. QED
      BY <3>1, <3>2 DEF ConnTypes
  <2>4. DataTypes'
    BY <1>12 DEF RunDestroyed, Runs, ConnectionDestroyed, sockVars, userVars, serverVars,
         DataTypes
  <2>5. OtherTypes'
    BY <1>12 DEF RunDestroyed, Runs, ConnectionDestroyed, sockVars, userVars, serverVars,
         OtherTypes
  <2>6. CallTypes'
    BY <1>12 DEF RunDestroyed, Runs, ConnectionDestroyed, sockVars, userVars, serverVars,
         CallTypes
  <2>7. QED
    BY <2>1, <2>2, <2>3, <2>4, <2>5, <2>6
<1>13. ASSUME NEW l \in Loops, NEW c \in Conns, RunRemove(l, c)
      PROVE  TypeOK'
  <2>1. LoopTypes'
    BY <1>13, RunTypes DEF RunRemove, LoopTypes
  <2>2. QueueTypes'
    <3>1. batch' = batch /\ Queue(loopOf[c], Functor("destroyed", c))
      BY <1>13 DEF RunRemove, RemoveConnectionInLoop, Queue
    <3>2. QED
      BY <3>1, FunctorType, QueueType DEF QueueTypes, Ops
  <2>3. ConnTypes'
    BY <1>13 DEF RunRemove, Runs, RemoveConnectionInLoop, connVars, cbVars, sockVars,
         userVars, ConnTypes
  <2>4. DataTypes'
    BY <1>13 DEF RunRemove, Runs, RemoveConnectionInLoop, connVars, cbVars, sockVars,
         userVars, DataTypes
  <2>5. OtherTypes'
    BY <1>13 DEF RunRemove, Runs, RemoveConnectionInLoop, connVars, cbVars, sockVars,
         userVars, OtherTypes
  <2>6. CallTypes'
    BY <1>13 DEF RunRemove, Runs, RemoveConnectionInLoop, connVars, cbVars, sockVars,
         userVars, CallTypes
  <2>7. QED
    BY <2>1, <2>2, <2>3, <2>4, <2>5, <2>6
<1>14. ASSUME NEW l \in Loops, NEW c \in Conns, RunWriteComplete(l, c)
      PROVE  TypeOK'
  <2>1. LoopTypes'
    BY <1>14, RunTypes DEF RunWriteComplete, LoopTypes
  <2>2. QueueTypes'
    BY <1>14 DEF RunWriteComplete, Runs, connVars, cbVars, sockVars, userVars, serverVars,
         QueueTypes
  <2>3. ConnTypes'
    BY <1>14 DEF RunWriteComplete, Runs, connVars, cbVars, sockVars, userVars, serverVars,
         ConnTypes
  <2>4. DataTypes'
    BY <1>14 DEF RunWriteComplete, Runs, connVars, cbVars, sockVars, userVars, serverVars,
         DataTypes
  <2>5. OtherTypes'
    BY <1>14 DEF RunWriteComplete, Runs, connVars, cbVars, sockVars, userVars, serverVars,
         OtherTypes
  <2>6. CallTypes'
    BY <1>14 DEF RunWriteComplete, Runs, connVars, cbVars, sockVars, userVars, serverVars,
         CallTypes
  <2>7. QED
    BY <2>1, <2>2, <2>3, <2>4, <2>5, <2>6
<1>15. ASSUME NEW l \in Loops, NEW c \in Conns, RunSend(l, c)
      PROVE  TypeOK'
  <2>0. /\ pending' \in [Loops -> Seq(Functors)]
        /\ DataTypes'
        /\ events' \in [Conns -> SUBSET {"read", "write"}]
        /\ registered' \in [Conns -> {"new", "in", "out"}]
        /\ failed' \in {failed, "updateChannel", "use after free"}
        /\ soError' \subseteq Conns
    <3>1. batch[l][next[l]].data \in Seq(Bytes)
      BY <1>15, RunTypes DEF RunSend, Functors
    <3>2. CASE Alive(c)
      BY <1>15, <3>1, <3>2, SendTypes DEF RunSend
    <3>3. CASE ~Alive(c)
      BY <1>15, <3>3 DEF RunSend, QueueTypes, ConnTypes, DataTypes, OtherTypes
    <3>4. QED
      BY <3>2, <3>3
  <2>1. LoopTypes'
    BY <1>15, RunTypes DEF RunSend, LoopTypes
  <2>2. QueueTypes'
    BY <1>15, <2>0 DEF RunSend, Runs, cbVars, userVars, serverVars, QueueTypes
  <2>3. ConnTypes'
    BY <1>15, <2>0 DEF RunSend, Runs, cbVars, userVars, serverVars, ConnTypes
  <2>4. DataTypes'
    BY <1>15, <2>0 DEF RunSend, Runs, cbVars, userVars, serverVars, DataTypes
  <2>5. OtherTypes'
    BY <1>15, <2>0 DEF RunSend, Runs, cbVars, userVars, serverVars, OtherTypes
  <2>6. CallTypes'
    BY <1>15 DEF RunSend, userVars, CallTypes
  <2>7. QED
    BY <2>1, <2>2, <2>3, <2>4, <2>5, <2>6
<1>16. ASSUME NEW l \in Loops, NEW c \in Conns, RunShutdown(l, c)
      PROVE  TypeOK'
  <2>1. LoopTypes'
    BY <1>16, RunTypes DEF RunShutdown, LoopTypes
  <2>2. QueueTypes'
    BY <1>16 DEF RunShutdown, Runs, ShutdownInLoop, connVars, cbVars, userVars, serverVars,
         QueueTypes
  <2>3. ConnTypes'
    BY <1>16 DEF RunShutdown, Runs, ShutdownInLoop, connVars, cbVars, userVars, serverVars,
         ConnTypes
  <2>4. DataTypes'
    BY <1>16 DEF RunShutdown, Runs, ShutdownInLoop, connVars, cbVars, userVars, serverVars,
         DataTypes
  <2>5. OtherTypes'
    BY <1>16 DEF RunShutdown, Runs, ShutdownInLoop, connVars, cbVars, userVars, serverVars,
         OtherTypes
  <2>6. CallTypes'
    BY <1>16 DEF RunShutdown, Runs, ShutdownInLoop, connVars, cbVars, userVars, serverVars,
         CallTypes
  <2>7. QED
    BY <2>1, <2>2, <2>3, <2>4, <2>5, <2>6
<1>17. ASSUME NEW l \in Loops, FunctorsDone(l)
      PROVE  TypeOK'
  <2>1. LoopTypes'
    BY <1>17 DEF FunctorsDone, connVars, cbVars, sockVars, userVars, serverVars, LoopTypes
  <2>2. QueueTypes'
    BY <1>17 DEF FunctorsDone, connVars, cbVars, sockVars, userVars, serverVars, QueueTypes
  <2>3. ConnTypes'
    BY <1>17 DEF FunctorsDone, connVars, cbVars, sockVars, userVars, serverVars, ConnTypes
  <2>4. DataTypes'
    BY <1>17 DEF FunctorsDone, connVars, cbVars, sockVars, userVars, serverVars, DataTypes
  <2>5. OtherTypes'
    BY <1>17 DEF FunctorsDone, connVars, cbVars, sockVars, userVars, serverVars, OtherTypes
  <2>6. CallTypes'
    BY <1>17 DEF FunctorsDone, connVars, cbVars, sockVars, userVars, serverVars, CallTypes
  <2>7. QED
    BY <2>1, <2>2, <2>3, <2>4, <2>5, <2>6
<1>18. ASSUME NEW l \in Loops, LoopSend(l)
      PROVE  TypeOK'
  <2> DEFINE c == user[l]
  <2>0. /\ pending' \in [Loops -> Seq(Functors)]
        /\ DataTypes'
        /\ events' \in [Conns -> SUBSET {"read", "write"}]
        /\ registered' \in [Conns -> {"new", "in", "out"}]
        /\ failed' \in {failed, "updateChannel"}
        /\ soError' \subseteq Conns
    <3>1. c \in Conns /\ Message(l) \in Seq(Bytes) /\ SendInLoop(c, Message(l))
      BY <1>18, MessageType DEF LoopSend, LoopTypes, CallTypes
    <3> HIDE DEF c
    <3>2. QED
      BY <3>1, SendTypes
  <2>1. LoopTypes'
    BY <1>18 DEF LoopSend, LoopTypes
  <2>2. QueueTypes'
    BY <1>18, <2>0 DEF LoopSend, Runs, cbVars, userVars, serverVars, QueueTypes
  <2>3. ConnTypes'
    BY <1>18, <2>0 DEF LoopSend, Runs, cbVars, userVars, serverVars, ConnTypes
  <2>4. DataTypes'
    BY <1>18, <2>0 DEF LoopSend, Runs, cbVars, userVars, serverVars, DataTypes
  <2>5. OtherTypes'
    BY <1>18, <2>0 DEF LoopSend, Runs, cbVars, userVars, serverVars, OtherTypes
  <2>6. CallTypes'
    BY <1>18, SendAssumption DEF LoopSend, CallTypes
  <2>7. QED
    BY <2>1, <2>2, <2>3, <2>4, <2>5, <2>6
<1>19. ASSUME NEW l \in Loops, LoopShutdown(l)
      PROVE  TypeOK'
  <2>0. user[l] \in Conns
    BY <1>19 DEF LoopShutdown, LoopTypes
  <2>1. LoopTypes'
    BY <1>19 DEF LoopShutdown, ShutdownInLoop, MayShutdown, loopVars, cbVars, userVars,
         serverVars, LoopTypes
  <2>2. QueueTypes'
    BY <1>19 DEF LoopShutdown, ShutdownInLoop, MayShutdown, loopVars, cbVars, userVars,
         serverVars, QueueTypes
  <2>3. ConnTypes'
    BY <1>19, <2>0 DEF LoopShutdown, ConnTypes, States
  <2>4. DataTypes'
    BY <1>19 DEF LoopShutdown, ShutdownInLoop, MayShutdown, loopVars, cbVars, userVars,
         serverVars, DataTypes
  <2>5. OtherTypes'
    BY <1>19, <2>0 DEF LoopShutdown, ShutdownInLoop, cbVars, userVars, serverVars, OtherTypes
  <2>6. CallTypes'
    BY <1>19 DEF LoopShutdown, ShutdownInLoop, MayShutdown, loopVars, cbVars, userVars,
         serverVars, CallTypes
  <2>7. QED
    BY <2>1, <2>2, <2>3, <2>4, <2>5, <2>6
<1>20. ASSUME NEW l \in Loops, CallbackReturn(l)
      PROVE  TypeOK'
  <2>1. LoopTypes'
    BY <1>20 DEF CallbackReturn, connVars, cbVars, sockVars, userVars, serverVars, LoopTypes
  <2>2. QueueTypes'
    BY <1>20 DEF CallbackReturn, connVars, cbVars, sockVars, userVars, serverVars, QueueTypes
  <2>3. ConnTypes'
    BY <1>20 DEF CallbackReturn, connVars, cbVars, sockVars, userVars, serverVars, ConnTypes
  <2>4. DataTypes'
    BY <1>20 DEF CallbackReturn, connVars, cbVars, sockVars, userVars, serverVars, DataTypes
  <2>5. OtherTypes'
    BY <1>20 DEF CallbackReturn, connVars, cbVars, sockVars, userVars, serverVars, OtherTypes
  <2>6. CallTypes'
    BY <1>20 DEF CallbackReturn, connVars, cbVars, sockVars, userVars, serverVars, CallTypes
  <2>7. QED
    BY <2>1, <2>2, <2>3, <2>4, <2>5, <2>6
<1>21. ASSUME NEW s \in Senders, NEW op \in {"send", "shutdown"}, NEW c \in Conns, CallBegins(s, op, c)
      PROVE  TypeOK'
  <2>1. LoopTypes'
    BY <1>21 DEF CallBegins, loopVars, connVars, cbVars, sockVars, serverVars, LoopTypes
  <2>2. QueueTypes'
    BY <1>21 DEF CallBegins, loopVars, connVars, cbVars, sockVars, serverVars, QueueTypes
  <2>3. ConnTypes'
    BY <1>21 DEF CallBegins, loopVars, connVars, cbVars, sockVars, serverVars, ConnTypes
  <2>4. DataTypes'
    BY <1>21 DEF CallBegins, loopVars, connVars, cbVars, sockVars, serverVars, DataTypes
  <2>5. OtherTypes'
    BY <1>21 DEF CallBegins, loopVars, connVars, cbVars, sockVars, serverVars, OtherTypes
  <2>6. CallTypes'
    BY <1>21 DEF CallBegins, loopVars, connVars, cbVars, sockVars, serverVars, CallTypes
  <2>7. QED
    BY <2>1, <2>2, <2>3, <2>4, <2>5, <2>6
<1>22. ASSUME NEW s \in Senders, SendQueues(s)
      PROVE  TypeOK'
  <2>0. call[s].conn \in Conns /\ Message(s) \in Seq(Bytes)
    BY <1>22, MessageType DEF SendQueues, CallTypes, CallInv
  <2>1. LoopTypes'
    BY <1>22 DEF SendQueues, Queue, connVars, cbVars, sockVars, serverVars, LoopTypes
  <2>2. QueueTypes'
    <3>1. [op |-> "send", conn |-> call[s].conn, data |-> Message(s)] \in Functors
      BY <2>0 DEF Functors, Ops
    <3>2. batch' = batch /\ Queue(loopOf[call[s].conn], [op |-> "send", conn |-> call[s].conn, data |-> Message(s)])
      BY <1>22 DEF SendQueues
    <3>3. QED
      BY <3>1, <3>2, QueueType DEF QueueTypes
  <2>3. ConnTypes'
    BY <1>22 DEF SendQueues, Queue, connVars, cbVars, sockVars, serverVars, ConnTypes
  <2>4. DataTypes'
    BY <1>22 DEF SendQueues, Queue, connVars, cbVars, sockVars, serverVars, DataTypes
  <2>5. OtherTypes'
    BY <1>22 DEF SendQueues, Queue, connVars, cbVars, sockVars, serverVars, OtherTypes
  <2>6. CallTypes'
    BY <1>22, SendAssumption DEF SendQueues, CallTypes, CallInv, Idle
  <2>7. QED
    BY <2>1, <2>2, <2>3, <2>4, <2>5, <2>6
<1>23. ASSUME NEW s \in Senders, ShutdownSets(s)
      PROVE  TypeOK'
  <2>0. call[s].conn \in Conns
    BY <1>23 DEF ShutdownSets, CallInv
  <2>1. LoopTypes'
    BY <1>23 DEF ShutdownSets, loopVars, cbVars, sockVars, serverVars, LoopTypes
  <2>2. QueueTypes'
    BY <1>23 DEF ShutdownSets, loopVars, cbVars, sockVars, serverVars, QueueTypes
  <2>3. ConnTypes'
    BY <1>23, <2>0 DEF ShutdownSets, ConnTypes, States
  <2>4. DataTypes'
    BY <1>23 DEF ShutdownSets, loopVars, cbVars, sockVars, serverVars, DataTypes
  <2>5. OtherTypes'
    BY <1>23 DEF ShutdownSets, loopVars, cbVars, sockVars, serverVars, OtherTypes
  <2>6. CallTypes'
    BY <1>23 DEF ShutdownSets, loopVars, cbVars, sockVars, serverVars, CallTypes
  <2>7. QED
    BY <2>1, <2>2, <2>3, <2>4, <2>5, <2>6
<1>24. ASSUME NEW s \in Senders, ShutdownQueues(s)
      PROVE  TypeOK'
  <2>0. call[s].conn \in Conns
    BY <1>24 DEF ShutdownQueues, CallInv
  <2>1. LoopTypes'
    BY <1>24 DEF ShutdownQueues, Queue, connVars, cbVars, sockVars, serverVars, LoopTypes
  <2>2. QueueTypes'
    <3>1. batch' = batch /\ Queue(loopOf[call[s].conn], Functor("shutdown", call[s].conn))
      BY <1>24 DEF ShutdownQueues
    <3>2. QED
      BY <2>0, <3>1, FunctorType, QueueType DEF QueueTypes, Ops
  <2>3. ConnTypes'
    BY <1>24 DEF ShutdownQueues, Queue, connVars, cbVars, sockVars, serverVars, ConnTypes
  <2>4. DataTypes'
    BY <1>24 DEF ShutdownQueues, Queue, connVars, cbVars, sockVars, serverVars, DataTypes
  <2>5. OtherTypes'
    BY <1>24 DEF ShutdownQueues, Queue, connVars, cbVars, sockVars, serverVars, OtherTypes
  <2>6. CallTypes'
    BY <1>24 DEF ShutdownQueues, CallTypes, Idle
  <2>7. QED
    BY <2>1, <2>2, <2>3, <2>4, <2>5, <2>6
<1>25. ASSUME NEW c \in Conns, Release(c)
      PROVE  TypeOK'
  <2>1. LoopTypes'
    BY <1>25 DEF Release, loopVars, connVars, cbVars, sockVars, serverVars, LoopTypes
  <2>2. QueueTypes'
    BY <1>25 DEF Release, loopVars, connVars, cbVars, sockVars, serverVars, QueueTypes
  <2>3. ConnTypes'
    BY <1>25 DEF Release, loopVars, connVars, cbVars, sockVars, serverVars, ConnTypes
  <2>4. DataTypes'
    BY <1>25 DEF Release, loopVars, connVars, cbVars, sockVars, serverVars, DataTypes
  <2>5. OtherTypes'
    BY <1>25 DEF Release, loopVars, connVars, cbVars, sockVars, serverVars, OtherTypes
  <2>6. CallTypes'
    BY <1>25 DEF Release, loopVars, connVars, cbVars, sockVars, serverVars, CallTypes
  <2>7. QED
    BY <2>1, <2>2, <2>3, <2>4, <2>5, <2>6
<1>26. ASSUME NEW c \in Conns, PeerConnect(c), UNCHANGED serverVars
      PROVE  TypeOK'
  <2>1. LoopTypes'
    BY <1>26 DEF PeerConnect, loopVars, connVars, cbVars, userVars, serverVars, LoopTypes
  <2>2. QueueTypes'
    BY <1>26 DEF PeerConnect, loopVars, connVars, cbVars, userVars, serverVars, QueueTypes
  <2>3. ConnTypes'
    BY <1>26 DEF PeerConnect, loopVars, connVars, cbVars, userVars, serverVars, ConnTypes
  <2>4. DataTypes'
    BY <1>26 DEF PeerConnect, loopVars, connVars, cbVars, userVars, serverVars, DataTypes
  <2>5. OtherTypes'
    BY <1>26 DEF PeerConnect, loopVars, connVars, cbVars, userVars, serverVars, OtherTypes
  <2>6. CallTypes'
    BY <1>26 DEF PeerConnect, loopVars, connVars, cbVars, userVars, serverVars, CallTypes
  <2>7. QED
    BY <2>1, <2>2, <2>3, <2>4, <2>5, <2>6
<1>27. ASSUME NEW c \in Conns, PeerSend(c), UNCHANGED serverVars
      PROVE  TypeOK'
  <2>1. LoopTypes'
    BY <1>27 DEF PeerSend, loopVars, connVars, cbVars, userVars, serverVars, LoopTypes
  <2>2. QueueTypes'
    BY <1>27 DEF PeerSend, loopVars, connVars, cbVars, userVars, serverVars, QueueTypes
  <2>3. ConnTypes'
    BY <1>27 DEF PeerSend, loopVars, connVars, cbVars, userVars, serverVars, ConnTypes
  <2>4. DataTypes'
    BY <1>27 DEF PeerSend, loopVars, connVars, cbVars, userVars, serverVars, DataTypes
  <2>5. OtherTypes'
    BY <1>27 DEF PeerSend, loopVars, connVars, cbVars, userVars, serverVars, OtherTypes
  <2>6. CallTypes'
    BY <1>27 DEF PeerSend, loopVars, connVars, cbVars, userVars, serverVars, CallTypes
  <2>7. QED
    BY <2>1, <2>2, <2>3, <2>4, <2>5, <2>6
<1>28. ASSUME NEW c \in Conns, PeerClose(c), UNCHANGED serverVars
      PROVE  TypeOK'
  <2>1. LoopTypes'
    BY <1>28 DEF PeerClose, loopVars, connVars, cbVars, userVars, serverVars, LoopTypes
  <2>2. QueueTypes'
    BY <1>28 DEF PeerClose, loopVars, connVars, cbVars, userVars, serverVars, QueueTypes
  <2>3. ConnTypes'
    BY <1>28 DEF PeerClose, loopVars, connVars, cbVars, userVars, serverVars, ConnTypes
  <2>4. DataTypes'
    BY <1>28 DEF PeerClose, loopVars, connVars, cbVars, userVars, serverVars, DataTypes
  <2>5. OtherTypes'
    BY <1>28 DEF PeerClose, loopVars, connVars, cbVars, userVars, serverVars, OtherTypes
  <2>6. CallTypes'
    BY <1>28 DEF PeerClose, loopVars, connVars, cbVars, userVars, serverVars, CallTypes
  <2>7. QED
    BY <2>1, <2>2, <2>3, <2>4, <2>5, <2>6
<1>29. ASSUME NEW c \in Conns, PeerReset(c), UNCHANGED serverVars
      PROVE  TypeOK'
  <2>1. LoopTypes'
    BY <1>29 DEF PeerReset, loopVars, connVars, cbVars, userVars, serverVars, LoopTypes
  <2>2. QueueTypes'
    BY <1>29 DEF PeerReset, loopVars, connVars, cbVars, userVars, serverVars, QueueTypes
  <2>3. ConnTypes'
    BY <1>29 DEF PeerReset, loopVars, connVars, cbVars, userVars, serverVars, ConnTypes
  <2>4. DataTypes'
    BY <1>29 DEF PeerReset, loopVars, connVars, cbVars, userVars, serverVars, DataTypes
  <2>5. OtherTypes'
    BY <1>29 DEF PeerReset, loopVars, connVars, cbVars, userVars, serverVars, OtherTypes
  <2>6. CallTypes'
    BY <1>29 DEF PeerReset, loopVars, connVars, cbVars, userVars, serverVars, CallTypes
  <2>7. QED
    BY <2>1, <2>2, <2>3, <2>4, <2>5, <2>6
<1>30. CASE UNCHANGED vars
  BY <1>30 DEF vars, tcpVars, loopVars, connVars, cbVars, sockVars, userVars, serverVars,
               LoopTypes, QueueTypes, ConnTypes, DataTypes, OtherTypes, CallTypes
<1>31. QED
  BY <1>1, <1>2, <1>3, <1>4, <1>5, <1>6, <1>7, <1>8, <1>9, <1>10, <1>11, <1>12, <1>13, <1>14,
       <1>15, <1>16, <1>17, <1>18, <1>19, <1>20, <1>21, <1>22, <1>23, <1>24, <1>25, <1>26,
       <1>27, <1>28, <1>29, <1>30
  DEF Next, LoopStep, EventStep, FunctorStep, UserStep, PeerStep, Finished

------------------------------------------------------------------------------
(* The steps.                                                              *)

\* Loop l is at work for connection c, or about to be.
Handles(l, c) == c \in active[l] \/ c = current[l] \/ c = user[l]

\* A poll() reported the channel of c.
Polled(c) ==
  /\ loopOf[c] \in Loops /\ phase[loopOf[c]] = "poll"
  /\ registered[c] = "in"
  /\ events[c] # {} \/ HupUnasked
  /\ \E w : revents'[c] = Callbacks(c, w)

\* A step that leaves the connections and the queues as they are.
Bystander ==
  /\ UNCHANGED <<batch, next, pending, loopOf, state, events, registered,
                 outputBuffer, wire, wrShut, connections, sends, failed>>
  /\ held' \subseteq held
  /\ \A c \in Conns : revents'[c] \subseteq revents[c] \/ Polled(c)
  /\ \A l \in Loops :
       /\ phase'[l] = phase[l] \/ (phase[l] = "poll" /\ phase'[l] = "events")
       /\ phase[l] # "events" /\ phase'[l] = phase[l] =>
            active'[l] = active[l] /\ current'[l] \in {current[l], NoConn}
       /\ \A c \in Conns :
            Handles(l, c)' => Handles(l, c) \/ (registered[c] = "in" /\ loopOf[c] = l)
  /\ \A s \in Senders :
       \/ call'[s] = call[s]
       \/ call'[s].conn \in held /\ (call'[s].op = "send" => sends[s] < MaxSends)

\* The other steps.
Busy ==
  \/ \E c \in Conns : Accept(c)
  \/ \E l \in Loops, c \in Conns :
       \/ HandleWrite(l, c) /\ UNCHANGED serverVars
       \/ HandleClose(l, c)
       \/ RunEstablished(l, c)
       \/ RunDestroyed(l, c)
       \/ RunRemove(l, c)
       \/ RunWriteComplete(l, c)
       \/ RunSend(l, c)
       \/ RunShutdown(l, c)
  \/ \E l \in Loops : SwapFunctors(l) \/ FunctorsDone(l) \/ LoopSend(l) \/ LoopShutdown(l)
  \/ \E s \in Senders : SendQueues(s) \/ ShutdownSets(s) \/ ShutdownQueues(s)

\* A step is a bystander, or one of the steps of a running server that touch
\* connections, queues or the map.
LEMMA StepCases ==
  ASSUME TypeOK, [Next]_vars
  PROVE  Bystander \/ (Running /\ Busy)
<1> USE SentinelAssumption, TypeParts
<1>1. ASSUME NEW l \in Loops, PollLoop(l)
      PROVE  Bystander
  <2>1. PICK writable \in SUBSET {c \in Conns : loopOf[c] = l /\ "write" \in events[c]} :
           /\ active' = [active EXCEPT ![l] = Reported(l, writable)
                                      \cup IF l = Base /\ Backlog # {} THEN {Listener} ELSE {}]
           /\ revents' = [c \in Conns |-> IF c \in Reported(l, writable)
                                          THEN Callbacks(c, c \in writable) ELSE revents[c]]
    BY <1>1, Zenon DEF PollLoop, Poll
  <2>2. \A c \in Conns : c \in Reported(l, writable) =>
            loopOf[c] = l /\ registered[c] = "in" /\ (events[c] # {} \/ HupUnasked)
    BY Zenon DEF Reported
  <2>3. phase[l] = "poll" /\ phase' = [phase EXCEPT ![l] = "events"]
    BY <1>1 DEF PollLoop, Poll
  <2>4. ASSUME NEW c \in Conns
        PROVE  revents'[c] \subseteq revents[c] \/ Polled(c)
    <3>1. CASE c \in Reported(l, writable)
      <4>1. revents'[c] = Callbacks(c, c \in writable)
        BY <2>1, <3>1, Zenon
      <4>2. loopOf[c] = l /\ registered[c] = "in" /\ (events[c] # {} \/ HupUnasked)
        BY <2>2, <3>1
      <4>3. QED
        BY <2>3, <4>1, <4>2, Zenon DEF Polled
    <3>2. CASE c \notin Reported(l, writable)
      BY <2>1, <3>2, Zenon
    <3>3. QED
      BY <3>1, <3>2
  <2>5. /\ UNCHANGED <<current, user, call, held>>
        /\ UNCHANGED <<batch, next, pending, loopOf, state, events, registered,
                       outputBuffer, wire, wrShut, connections, sends, failed>>
    BY <1>1 DEF PollLoop, Poll, tcpVars, cbVars, sockVars, userVars, serverVars
  <2>6. ASSUME NEW k \in Loops
        PROVE  /\ phase'[k] = phase[k] \/ (phase[k] = "poll" /\ phase'[k] = "events")
               /\ phase[k] # "events" /\ phase'[k] = phase[k] =>
                    active'[k] = active[k] /\ current'[k] \in {current[k], NoConn}
               /\ \A c \in Conns :
                    Handles(k, c)' => Handles(k, c) \/ (registered[c] = "in" /\ loopOf[c] = k)
    <3>1. CASE k # l
      BY <2>1, <2>3, <2>5, <3>1 DEF Handles, LoopTypes
    <3>2. CASE k = l
      <4>1. phase'[k] = "events" /\ phase[k] = "poll"
        BY <2>3, <3>2 DEF LoopTypes
      <4>2. \A c \in Conns : c \in active'[k] => c \in Reported(l, writable)
        BY <2>1, <3>2 DEF LoopTypes
      <4>3. QED
        BY <2>2, <2>5, <3>2, <4>1, <4>2 DEF Handles
    <3>3. QED
      BY <3>1, <3>2
  <2>7. QED
    BY <2>4, <2>5, <2>6 DEF Bystander
<1>2. ASSUME NEW l \in Loops, NEW c \in Conns, Dispatch(l, c), UNCHANGED serverVars
      PROVE  Bystander
  BY <1>2 DEF Dispatch, Between, connVars, cbVars, sockVars, userVars, serverVars, Bystander,
       Handles, LoopTypes, ConnTypes, CallTypes
<1>3. ASSUME NEW l \in Loops, NEW c \in Conns, HandleMessage(l, c), UNCHANGED serverVars
      PROVE  Bystander
  BY <1>3 DEF HandleMessage, Calling, cbVars, userVars, serverVars, Bystander, Handles,
       LoopTypes, ConnTypes, CallTypes
<1>4. ASSUME NEW l \in Loops, NEW c \in Conns, HandleReadError(l, c), UNCHANGED serverVars
      PROVE  Bystander
  BY <1>4 DEF HandleReadError, Calling, loopVars, cbVars, userVars, serverVars, Bystander,
       Handles, LoopTypes, ConnTypes, CallTypes
<1>5. ASSUME NEW l \in Loops, NEW c \in Conns, HandleError(l, c), UNCHANGED serverVars
      PROVE  Bystander
  BY <1>5 DEF HandleError, Calling, loopVars, cbVars, userVars, serverVars, Bystander,
       Handles, LoopTypes, ConnTypes, CallTypes
<1>6. ASSUME NEW l \in Loops, EventHandled(l), UNCHANGED serverVars
      PROVE  Bystander
  BY <1>6 DEF EventHandled, connVars, cbVars, sockVars, userVars, serverVars, Bystander,
       Handles, LoopTypes, ConnTypes, CallTypes
<1>7. ASSUME NEW l \in Loops, CallbackReturn(l)
      PROVE  Bystander
  BY <1>7 DEF CallbackReturn, connVars, cbVars, sockVars, userVars, serverVars, Bystander,
       Handles, LoopTypes, ConnTypes, CallTypes
<1>8. ASSUME NEW s \in Senders, NEW op \in {"send", "shutdown"}, NEW c \in Conns, CallBegins(s, op, c)
      PROVE  Bystander
  BY <1>8 DEF CallBegins, loopVars, connVars, cbVars, sockVars, serverVars, Bystander,
       Handles, LoopTypes, ConnTypes, CallTypes
<1>9. ASSUME NEW c \in Conns, Release(c)
      PROVE  Bystander
  BY <1>9 DEF Release, loopVars, connVars, cbVars, sockVars, serverVars, Bystander, Handles,
       LoopTypes, ConnTypes, CallTypes
<1>10. ASSUME NEW c \in Conns, PeerConnect(c), UNCHANGED serverVars
      PROVE  Bystander
  BY <1>10 DEF PeerConnect, loopVars, connVars, cbVars, userVars, serverVars, Bystander,
       Handles, LoopTypes, ConnTypes, CallTypes
<1>11. ASSUME NEW c \in Conns, PeerSend(c), UNCHANGED serverVars
      PROVE  Bystander
  BY <1>11 DEF PeerSend, loopVars, connVars, cbVars, userVars, serverVars, Bystander, Handles,
       LoopTypes, ConnTypes, CallTypes
<1>12. ASSUME NEW c \in Conns, PeerClose(c), UNCHANGED serverVars
      PROVE  Bystander
  BY <1>12 DEF PeerClose, loopVars, connVars, cbVars, userVars, serverVars, Bystander,
       Handles, LoopTypes, ConnTypes, CallTypes
<1>13. ASSUME NEW c \in Conns, PeerReset(c), UNCHANGED serverVars
      PROVE  Bystander
  BY <1>13 DEF PeerReset, loopVars, connVars, cbVars, userVars, serverVars, Bystander,
       Handles, LoopTypes, ConnTypes, CallTypes
<1>14. CASE UNCHANGED vars
  BY <1>14 DEF vars, tcpVars, loopVars, connVars, cbVars, sockVars, userVars, serverVars,
               Bystander, Handles
<1>15. QED
  BY <1>1, <1>2, <1>3, <1>4, <1>5, <1>6, <1>7, <1>8, <1>9, <1>10, <1>11, <1>12, <1>13, <1>14
  DEF Next, LoopStep, EventStep, FunctorStep, UserStep, PeerStep, Finished, Busy

------------------------------------------------------------------------------
(* What the steps do to the queues.                                        *)

\* The writeComplete functor that sending or writing on c may queue.
WriteCompletes(c) == {{}, {<<loopOf[c], Functor("writeComplete", c)>>}}

\* A write queues at most writeCompleteCallback_.
LEMMA WriteCompleteQueued ==
  ASSUME TypeOK, NEW c \in Conns, NEW done, QueueWriteComplete(c, done)
  PROVE  \E F \in WriteCompletes(c) : Grows(F)
<1>1. CASE done /\ WriteComplete
  <2>1. Queue(loopOf[c], Functor("writeComplete", c))
    BY <1>1 DEF QueueWriteComplete
  <2>2. QED
    BY <2>1, OneAdded, FunctorType DEF Ops, WriteCompletes
<1>2. CASE ~(done /\ WriteComplete)
  BY <1>2, NothingAdded DEF QueueWriteComplete, WriteCompletes
<1>3. QED
  BY <1>1, <1>2

\* sendInLoop() queues at most writeCompleteCallback_.
LEMMA SendQueued ==
  ASSUME TypeOK, NEW c \in Conns, NEW data, SendInLoop(c, data)
  PROVE  \E F \in WriteCompletes(c) : Grows(F)
<1>1. \E n \in 0..Len(data) : QueueWriteComplete(c, n = Len(data))
  BY DEF SendInLoop
<1>2. QED
  BY <1>1, WriteCompleteQueued

\* Queues that nobody touches.
LEMMA EvolveBystander ==
  ASSUME TypeOK, TypeOK', BatchInv, UNCHANGED <<batch, next, pending>>
  PROVE  Evolve({}, {})
BY EvolveQueued, NothingAdded

\* newConnection() queues connectionEstablished to an io loop.
LEMMA EvolveAccept ==
  ASSUME TypeOK, TypeOK', BatchInv, NEW c \in Conns, Accept(c)
  PROVE  Evolve({}, IF NextLoop = Base THEN {} ELSE {<<NextLoop, Functor("established", c)>>})
<1>1. UNCHANGED <<batch, next>>
  BY DEF Accept
<1>2. CASE NextLoop = Base
  BY <1>1, <1>2, EvolveQueued, NothingAdded DEF Accept
<1>3. CASE NextLoop # Base
  <2>1. Queue(NextLoop, Functor("established", c))
    BY <1>3 DEF Accept
  <2>2. Grows({<<NextLoop, Functor("established", c)>>})
    BY <2>1, OneAdded, FunctorType DEF Ops
  <2>3. QED
    BY <1>1, <1>3, <2>2, EvolveQueued
<1>4. QED
  BY <1>2, <1>3

\* handleWrite() queues at most writeCompleteCallback_.
LEMMA EvolveWrite ==
  ASSUME TypeOK, TypeOK', BatchInv, NEW l \in Loops, NEW c \in Conns, HandleWrite(l, c)
  PROVE  \E F \in WriteCompletes(c) : Evolve({}, F)
<1>1. UNCHANGED <<batch, next>>
  BY DEF HandleWrite
<1>2. UNCHANGED pending \/ \E n : QueueWriteComplete(c, Empties(c, n))
  BY Zenon DEF HandleWrite
<1>3. \E F \in WriteCompletes(c) : Grows(F)
  BY <1>2, NothingAdded, WriteCompleteQueued DEF WriteCompletes
<1>4. QED
  BY <1>1, <1>3, EvolveQueued

\* What handleClose() queues.
Closing(l, c) == IF l = Base THEN {<<loopOf[c], Functor("destroyed", c)>>}
                             ELSE {<<Base, Functor("remove", c)>>}

\* removeConnectionInLoop() queues connectionDestroyed.
LEMMA RemovalQueued ==
  ASSUME TypeOK, NEW c \in Conns, RemoveConnectionInLoop(c, pending)
  PROVE  Grows({<<loopOf[c], Functor("destroyed", c)>>})
<1>1. Queue(loopOf[c], Functor("destroyed", c))
  BY DEF RemoveConnectionInLoop, Queue
<1>2. QED
  BY <1>1, OneAdded, FunctorType DEF Ops

\* handleClose() queues one of the two functors on the way out.
LEMMA EvolveClose ==
  ASSUME TypeOK, TypeOK', BatchInv, NEW l \in Loops, NEW c \in Conns, HandleClose(l, c)
  PROVE  Evolve({}, Closing(l, c))
<1>1. UNCHANGED <<batch, next>>
  BY DEF HandleClose
<1>2. CASE l = Base
  <2>1. RemoveConnectionInLoop(c, pending)
    BY <1>2 DEF HandleClose, RemoveConnection
  <2>2. QED
    BY <1>1, <1>2, <2>1, RemovalQueued, EvolveQueued DEF Closing
<1>3. CASE l # Base
  <2>1. Queue(Base, Functor("remove", c))
    BY <1>3 DEF HandleClose, RemoveConnection
  <2>2. Grows({<<Base, Functor("remove", c)>>})
    BY <2>1, OneAdded, FunctorType DEF Ops
  <2>3. QED
    BY <1>1, <1>3, <2>2, EvolveQueued DEF Closing
<1>4. QED
  BY <1>2, <1>3

\* The functors that only take their place in the queue.
LEMMA EvolveQuietRun ==
  ASSUME TypeOK, TypeOK', BatchInv, NEW l \in Loops, NEW c \in Conns,
         NEW op, Runs(l, op, c), UNCHANGED <<batch, pending>>
  PROVE  Evolve({l}, {}) /\ Todo(l)[1].op = op /\ Todo(l)[1].conn = c
BY SMTT(60), EvolveRuns, NothingAdded

\* removeConnectionInLoop, run as a functor.
LEMMA EvolveRemove ==
  ASSUME TypeOK, TypeOK', BatchInv, NEW l \in Loops, NEW c \in Conns, RunRemove(l, c)
  PROVE  /\ Evolve({l}, {<<loopOf[c], Functor("destroyed", c)>>})
         /\ Todo(l)[1].op = "remove" /\ Todo(l)[1].conn = c
<1>1. UNCHANGED batch /\ Runs(l, "remove", c) /\ RemoveConnectionInLoop(c, pending)
  BY DEF RunRemove
<1>2. Grows({<<loopOf[c], Functor("destroyed", c)>>})
  BY <1>1, RemovalQueued
<1>3. QED
  BY ZenonT(60), <1>1, <1>2, EvolveRuns

\* sendInLoop, run as a functor.
LEMMA EvolveRunSend ==
  ASSUME TypeOK, TypeOK', BatchInv, NEW l \in Loops, NEW c \in Conns, RunSend(l, c)
  PROVE  /\ \E F \in WriteCompletes(c) : Evolve({l}, F)
         /\ Todo(l)[1].op = "send" /\ Todo(l)[1].conn = c
         /\ Todo(l)[1] = batch[l][next[l]]
<1>1. UNCHANGED batch /\ Runs(l, "send", c)
  BY DEF RunSend
<1>2. \E F \in WriteCompletes(c) : Grows(F)
  BY SendQueued, NothingAdded DEF RunSend, WriteCompletes
<1>3. QED
  BY ZenonT(60), <1>1, <1>2, EvolveRuns

\* send() in a callback.
LEMMA EvolveLoopSend ==
  ASSUME TypeOK, TypeOK', BatchInv, NEW l \in Loops, LoopSend(l)
  PROVE  \E F \in WriteCompletes(user[l]) : Evolve({}, F)
<1>1. UNCHANGED <<batch, next>> /\ user[l] # NoConn
  BY DEF LoopSend
<1>0. user[l] \in Conns
  BY <1>1, TypeParts DEF LoopTypes
<1>2. SendInLoop(user[l], Message(l))
  BY DEF LoopSend
<1>3. QED
  BY <1>0, <1>1, <1>2, SendQueued, EvolveQueued

\* What send() of another thread queues.
Sending(s) == [op |-> "send", conn |-> call[s].conn, data |-> Message(s)]

\* send() on another thread queues sendInLoop.
LEMMA EvolveSendQueues ==
  ASSUME TypeOK, TypeOK', BatchInv, CallInv, NEW s \in Senders, SendQueues(s)
  PROVE  Sending(s) \in Functors /\ Evolve({}, {<<loopOf[call[s].conn], Sending(s)>>})
<1>1. UNCHANGED <<batch, next>> /\ Queue(loopOf[call[s].conn], Sending(s))
  BY DEF SendQueues, Sending
<1>2. call[s].conn \in Conns /\ Message(s) \in Seq(Bytes)
  BY MessageType DEF SendQueues, CallInv, TypeOK, TcpTypeOK
<1>3. Sending(s) \in Functors
  BY <1>2 DEF Sending, Functors, Ops
<1>4. QED
  BY <1>1, <1>3, OneAdded, EvolveQueued

\* shutdown() on another thread queues shutdownInLoop.
LEMMA EvolveShutdownQueues ==
  ASSUME TypeOK, TypeOK', BatchInv, CallInv, NEW s \in Senders, ShutdownQueues(s)
  PROVE  Evolve({}, {<<loopOf[call[s].conn], Functor("shutdown", call[s].conn)>>})
<1>1. UNCHANGED <<batch, next>> /\ Queue(loopOf[call[s].conn], Functor("shutdown", call[s].conn))
  BY DEF ShutdownQueues
<1>2. call[s].conn \in Conns
  BY DEF ShutdownQueues, CallInv
<1>3. Functor("shutdown", call[s].conn) \in Functors
  BY <1>2, FunctorType DEF Ops
<1>4. QED
  BY <1>1, <1>3, OneAdded, EvolveQueued

------------------------------------------------------------------------------
(* The invariant that holds in every instance.                             *)

\* A connection that is made, but not established on its loop.
Early == {"none", "kConnecting"}

ConnInv ==
  \A c \in Conns :
    /\ loopOf[c] = NoLoop <=> state[c] = "none"
    /\ state[c] \in Early <=> registered[c] = "new"
    /\ state[c] \in Early => events[c] = {} /\ revents[c] = {} /\ outputBuffer[c] = <<>>
    /\ c \in connections => loopOf[c] # NoLoop
    /\ c \in held => registered[c] # "new"

\* What a loop handles was established on it, in the phase of the events.
HandledInv ==
  \A l \in Loops :
    /\ \A c \in Conns : Handles(l, c) => registered[c] # "new" /\ loopOf[c] = l
    /\ phase[l] # "events" => current[l] = NoConn /\ active[l] = {}

\* What a functor that waits on loop l is about.
FunctorOK(l, f) ==
  /\ f.op = "established" => state[f.conn] = "kConnecting" /\ f.conn \in connections
  /\ f.op # "established" => registered[f.conn] # "new"
  /\ f.op # "remove" => loopOf[f.conn] = l
  /\ f.op = "remove" => l = Base

FunctorInv == \A l \in Loops, f \in Functors : Awaits(l, f) => FunctorOK(l, f)

\* A connection is established once.
OneEstablish ==
  \A l \in Loops, f, g \in Functors :
    Before(l, f, g) /\ f.op = "established" /\ g.op = "established" => f.conn # g.conn

CoreInv == TypeOK /\ BatchInv /\ ConnInv /\ HandledInv /\ CallInv /\ FunctorInv /\ OneEstablish

\* A server that was just made.
LEMMA CoreInit == Init => CoreInv
<1> SUFFICES ASSUME Init PROVE CoreInv
  OBVIOUS
<1>1. TypeOK
  <2>1. <<>> \in Seq(Functors) /\ <<>> \in Seq(Bytes)
    BY EmptySeq
  <2>2. 0 \in 0..MaxSends
    BY SendAssumption
  <2>3. QED
    BY <2>1, <2>2 DEF Init, TcpInit, TypeOK, TcpTypeOK, States, Idle
<1>2. Len(<<>>) = 0
  BY EmptySeq
<1>3. BatchInv
  BY <1>2 DEF Init, TcpInit, BatchInv
<1>4. \A l \in Loops : Len(Todo(l)) = 0
  BY <1>1, <1>2, <1>3, TodoElements DEF Init, TcpInit
<1>5. FunctorInv /\ OneEstablish
  BY <1>4 DEF FunctorInv, OneEstablish, Awaits, Before
<1>6. ConnInv
  BY DEF Init, TcpInit, ConnInv, Early
<1>7. HandledInv
  BY SentinelAssumption DEF Init, TcpInit, HandledInv, Handles
<1>8. CallInv
  BY DEF Init, TcpInit, CallInv, Idle
<1>9. QED
  BY <1>1, <1>3, <1>5, <1>6, <1>7, <1>8 DEF CoreInv

\* What a loop has at hand.
LEMMA AtHand ==
  ASSUME CoreInv, NEW l \in Loops
  PROVE  /\ \A c \in Conns : current[l] = c \/ user[l] = c =>
              registered[c] # "new" /\ loopOf[c] = l /\ state[c] \notin Early
         /\ \A op : \A c \in Conns : Runs(l, op, c) =>
              \E f \in Functors :
                /\ f = Todo(l)[1] /\ f = batch[l][next[l]] /\ f.op = op /\ f.conn = c
                /\ Awaits(l, f) /\ FunctorOK(l, f)
<1>1. ASSUME NEW c \in Conns, current[l] = c \/ user[l] = c
      PROVE  registered[c] # "new" /\ loopOf[c] = l /\ state[c] \notin Early
  BY <1>1 DEF CoreInv, HandledInv, Handles, ConnInv
<1>2. ASSUME NEW c \in Conns, NEW op, Runs(l, op, c)
      PROVE  \E f \in Functors :
                /\ f = Todo(l)[1] /\ f = batch[l][next[l]] /\ f.op = op /\ f.conn = c
                /\ Awaits(l, f) /\ FunctorOK(l, f)
  <2> DEFINE f == batch[l][next[l]]
             b == batch[l]
             n == next[l]
  <2>1. f \in Functors
    BY <1>2, RunTypes, TypeParts DEF CoreInv
  <2>2. f.op = op /\ f.conn = c
    BY <1>2 DEF Runs
  <2>3. n \in DOMAIN b /\ b[n] = f /\ n >= next[l]
    <3>1. next[l] \in Nat
      BY TypeParts DEF CoreInv, LoopTypes
    <3>2. QED
      BY <1>2, <3>1 DEF Runs
  <2>4. Awaits(l, f)
    <3> HIDE DEF f
    <3>1. \E i \in DOMAIN batch[l] : i >= next[l] /\ batch[l][i] = f
      BY <2>3
    <3>2. QED
      BY <3>1, AwaitsWhere DEF CoreInv
  <2>5. f = Todo(l)[1]
    <3>1. /\ Len(batch[l]) \in Nat /\ Len(pending[l]) \in Nat /\ DOMAIN batch[l] = 1..Len(batch[l])
          /\ n \in 1..Len(batch[l])
      BY <2>3, TodoFacts, TodoElements, LenProperties DEF CoreInv
    <3>2. 1 \in 1..Len(Todo(l)) /\ 1 <= Len(batch[l]) - next[l] + 1 /\ next[l] + 1 - 1 = n
      BY <3>1, TodoElements DEF CoreInv
    <3>3. Todo(l)[1] = batch[l][next[l] + 1 - 1]
      BY <3>2, TodoElements DEF CoreInv
    <3>4. QED
      BY <3>2, <3>3
  <2> HIDE DEF f
  <2>6. FunctorOK(l, f)
    BY <2>1, <2>4 DEF CoreInv, FunctorInv
  <2>7. QED
    BY <2>1, <2>2, <2>4, <2>5, <2>6 DEF f
<1>3. QED
  BY <1>1, <1>2

\* A step that writes on the connection c leaves the others alone.
Writes(c) ==
  /\ \A d \in Conns \ {c} :
       /\ events'[d] = events[d] /\ registered'[d] = registered[d]
       /\ outputBuffer'[d] = outputBuffer[d] /\ wire'[d] = wire[d]
  /\ \/ events'[c] = events[c] /\ registered'[c] = registered[c] /\ failed' = failed
     \/ registered[c] = "out" /\ registered'[c] = "out" /\ failed' = "updateChannel"
     \/ registered[c] # "out" /\ registered'[c] = "in" /\ failed' = failed

\* sendInLoop() touches its connection only, and may fail the assertion of
\* updateChannel() on a channel that was removed.
LEMMA SendWrites ==
  ASSUME TypeOK, NEW c \in Conns, NEW data, SendInLoop(c, data)
  PROVE  Writes(c)
<1>1. PICK n \in 0..Len(data) :
        /\ wire' = [wire EXCEPT ![c] = @ \o SubSeq(data, 1, n)]
        /\ outputBuffer' = [outputBuffer EXCEPT ![c] = @ \o SubSeq(data, n + 1, Len(data))]
        /\ \/ \E ev : Update(c, ev)
           \/ UNCHANGED <<events, registered, failed>>
  BY Zenon DEF SendInLoop
<1>2. \A d \in Conns \ {c} : outputBuffer'[d] = outputBuffer[d] /\ wire'[d] = wire[d]
  BY <1>1, TypeParts DEF DataTypes
<1>3. QED
  BY <1>1, <1>2, TypeParts DEF Update, Writes, ConnTypes

\* handleWrite() touches its connection only.
LEMMA WriteWrites ==
  ASSUME TypeOK, NEW l \in Loops, NEW c \in Conns, HandleWrite(l, c)
  PROVE  Writes(c)
<1>1. CASE UNCHANGED <<events, registered, failed, outputBuffer, wire>>
  BY <1>1 DEF Writes
<1>2. CASE \E n :
        /\ wire' = [wire EXCEPT ![c] = @ \o SubSeq(outputBuffer[c], 1, n)]
        /\ outputBuffer' = [outputBuffer EXCEPT ![c] = SubSeq(@, n + 1, Len(@))]
        /\ \/ \E ev : Update(c, ev)
           \/ UNCHANGED <<events, registered, failed>>
  <2>1. PICK n :
        /\ wire' = [wire EXCEPT ![c] = @ \o SubSeq(outputBuffer[c], 1, n)]
        /\ outputBuffer' = [outputBuffer EXCEPT ![c] = SubSeq(@, n + 1, Len(@))]
        /\ \/ \E ev : Update(c, ev)
           \/ UNCHANGED <<events, registered, failed>>
    BY <1>2, Zenon
  <2>2. \A d \in Conns \ {c} : outputBuffer'[d] = outputBuffer[d] /\ wire'[d] = wire[d]
    BY <2>1, TypeParts DEF DataTypes
  <2>3. QED
    BY <2>1, <2>2, TypeParts DEF Update, Writes, ConnTypes
<1>3. QED
  BY <1>1, <1>2, Zenon DEF HandleWrite

\* What no step undoes.
Lasting ==
  \A c \in Conns :
    /\ registered[c] # "new" => registered'[c] # "new"
    /\ loopOf[c] # NoLoop => loopOf'[c] = loopOf[c]

\* A channel that was registered is never new again, and a connection stays
\* on its loop.
LEMMA LastingStep ==
  ASSUME CoreInv, [Next]_vars
  PROVE  Lasting
<1> USE TypeParts DEF CoreInv
<1>1. CASE Bystander
  BY <1>1 DEF Bystander, Lasting
<1>2. ASSUME NEW c \in Conns, Accept(c)
      PROVE  Lasting
  <2>1. \A d \in Conns : loopOf[d] # NoLoop => loopOf'[d] = loopOf[d]
    BY <1>2 DEF Accept, Backlog, ConnTypes
  <2>2. \A d \in Conns : registered[d] # "new" => registered'[d] # "new"
    BY <1>2 DEF Accept, ConnectionEstablished, ConnTypes
  <2>3. QED
    BY <2>1, <2>2 DEF Lasting
<1>3. ASSUME NEW l \in Loops, NEW c \in Conns, HandleWrite(l, c), UNCHANGED serverVars
      PROVE  Lasting
  <2>1. Writes(c) /\ loopOf' = loopOf
    BY <1>3, WriteWrites DEF HandleWrite
  <2>2. QED
    BY <2>1 DEF Writes, Lasting, ConnTypes
<1>4. ASSUME NEW l \in Loops, NEW c \in Conns, HandleClose(l, c)
      PROVE  Lasting
  BY <1>4 DEF HandleClose, ClosesNow, Calling, CloseConnection, RemoveConnection,
       RemoveConnectionInLoop, Queue, cbVars, sockVars, userVars, Lasting, ConnTypes
<1>5. ASSUME NEW l \in Loops, SwapFunctors(l)
      PROVE  Lasting
  BY <1>5 DEF SwapFunctors, connVars, cbVars, sockVars, userVars, serverVars, Lasting, ConnTypes
<1>6. ASSUME NEW l \in Loops, NEW c \in Conns, RunEstablished(l, c)
      PROVE  Lasting
  BY <1>6 DEF RunEstablished, Runs, ConnectionEstablished, sockVars, serverVars, Lasting,
       ConnTypes
<1>7. ASSUME NEW l \in Loops, NEW c \in Conns, RunDestroyed(l, c)
      PROVE  Lasting
  BY <1>7 DEF RunDestroyed, Runs, ConnectionDestroyed, sockVars, userVars, serverVars,
       Lasting, ConnTypes
<1>8. ASSUME NEW l \in Loops, NEW c \in Conns, RunRemove(l, c)
      PROVE  Lasting
  BY <1>8 DEF RunRemove, Runs, RemoveConnectionInLoop, connVars, cbVars, sockVars, userVars,
       Lasting, ConnTypes
<1>9. ASSUME NEW l \in Loops, NEW c \in Conns, RunWriteComplete(l, c)
      PROVE  Lasting
  BY <1>9 DEF RunWriteComplete, Runs, connVars, cbVars, sockVars, userVars, serverVars,
       Lasting, ConnTypes
<1>10. ASSUME NEW l \in Loops, NEW c \in Conns, RunSend(l, c)
      PROVE  Lasting
  <2>1. loopOf' = loopOf /\ (Writes(c) \/ registered' = registered)
    BY <1>10, SendWrites DEF RunSend
  <2>2. QED
    BY <2>1 DEF Writes, Lasting, ConnTypes
<1>11. ASSUME NEW l \in Loops, NEW c \in Conns, RunShutdown(l, c)
      PROVE  Lasting
  BY <1>11 DEF RunShutdown, Runs, ShutdownInLoop, connVars, cbVars, userVars, serverVars,
       Lasting, ConnTypes
<1>12. ASSUME NEW l \in Loops, FunctorsDone(l)
      PROVE  Lasting
  BY <1>12 DEF FunctorsDone, connVars, cbVars, sockVars, userVars, serverVars, Lasting,
       ConnTypes
<1>13. ASSUME NEW l \in Loops, LoopSend(l)
      PROVE  Lasting
  <2>1. loopOf' = loopOf /\ user[l] \in Conns
    BY <1>13 DEF LoopSend, LoopTypes
  <2>2. Writes(user[l])
    BY <1>13, <2>1, SendWrites DEF LoopSend
  <2>3. QED
    BY <2>1, <2>2 DEF Writes, Lasting, ConnTypes
<1>14. ASSUME NEW l \in Loops, LoopShutdown(l)
      PROVE  Lasting
  BY <1>14 DEF LoopShutdown, ShutdownInLoop, MayShutdown, loopVars, cbVars, userVars,
       serverVars, Lasting, ConnTypes
<1>15. ASSUME NEW s \in Senders, SendQueues(s)
      PROVE  Lasting
  BY <1>15 DEF SendQueues, Queue, connVars, cbVars, sockVars, serverVars, Lasting, ConnTypes
<1>16. ASSUME NEW s \in Senders, ShutdownSets(s)
      PROVE  Lasting
  BY <1>16 DEF ShutdownSets, loopVars, cbVars, sockVars, serverVars, Lasting, ConnTypes
<1>17. ASSUME NEW s \in Senders, ShutdownQueues(s)
      PROVE  Lasting
  BY <1>17 DEF ShutdownQueues, Queue, connVars, cbVars, sockVars, serverVars, Lasting, ConnTypes
<1>18. QED
  BY <1>1, <1>2, <1>3, <1>4, <1>5, <1>6, <1>7, <1>8, <1>9, <1>10, <1>11, <1>12, <1>13, <1>14,
       <1>15, <1>16, <1>17, StepCases DEF Busy, CoreInv

\* getNextLoop() returns a loop.
LEMMA NextLoopType == ASSUME TypeOK PROVE NextLoop \in Loops
<1>1. IoLoops \in Seq(Loops) /\ Base \in Loops /\ nextLoop \in DOMAIN IoLoops \cup {1}
  BY PoolAssumption, TypeParts DEF OtherTypes
<1>2. IoLoops # <<>> => nextLoop \in 1..Len(IoLoops)
  BY <1>1, EmptySeq, LenProperties
<1>3. QED
  BY <1>1, <1>2, ElementOfSeq DEF NextLoop

\* Calling a functor keeps next within the batch.
LEMMA RunBatch ==
  ASSUME TypeOK, BatchInv, NEW l \in Loops, NEW c, NEW op, Runs(l, op, c), UNCHANGED <<batch, phase>>
  PROVE  BatchInv'
<1>1. phase[l] = "functors" /\ next[l] \in DOMAIN batch[l] /\ next' = [next EXCEPT ![l] = @ + 1]
  BY DEF Runs
<1>2. /\ next'[l] = next[l] + 1
      /\ \A k \in Loops \ {l} : next'[k] = next[k]
  BY <1>1, TypeParts DEF LoopTypes
<1>3. Len(batch[l]) \in Nat /\ next[l] \in 1..Len(batch[l])
  BY <1>1, TodoFacts, TodoElements, LenProperties
<1>4. QED
  BY <1>1, <1>2, <1>3 DEF BatchInv

\* The batch is there in the functors phase only, and next is within it.
LEMMA BatchStep ==
  ASSUME CoreInv, TypeOK', [Next]_vars
  PROVE  BatchInv'
<1> USE TypeParts DEF CoreInv
<1>1. CASE Bystander
  BY <1>1 DEF Bystander, BatchInv
<1>2. ASSUME NEW c \in Conns, Accept(c)
      PROVE  BatchInv'
  BY <1>2 DEF Accept, ConnectionEstablished, Queue, sockVars, BatchInv
<1>3. ASSUME NEW l \in Loops, NEW c \in Conns, HandleWrite(l, c), UNCHANGED serverVars
      PROVE  BatchInv'
  BY <1>3 DEF HandleWrite, Calling, Update, QueueWriteComplete, Queue, cbVars, userVars,
       serverVars, BatchInv
<1>4. ASSUME NEW l \in Loops, NEW c \in Conns, HandleClose(l, c)
      PROVE  BatchInv'
  BY <1>4 DEF HandleClose, ClosesNow, Calling, CloseConnection, RemoveConnection,
       RemoveConnectionInLoop, Queue, cbVars, sockVars, userVars, BatchInv
<1>5. ASSUME NEW l \in Loops, SwapFunctors(l)
      PROVE  BatchInv'
  <2>1. batch[l] = <<>> /\ next[l] = 1
    BY <1>5 DEF SwapFunctors, Between, BatchInv
  <2>2. Len(batch'[l]) \in Nat
    BY TypeParts, LenProperties DEF QueueTypes
  <2>3. /\ phase'[l] = "functors" /\ next' = next
        /\ \A k \in Loops \ {l} : phase'[k] = phase[k] /\ batch'[k] = batch[k]
    BY <1>5 DEF SwapFunctors, LoopTypes, QueueTypes
  <2>4. QED
    BY <2>1, <2>2, <2>3 DEF BatchInv
<1>6. ASSUME NEW l \in Loops, NEW c \in Conns, RunEstablished(l, c)
      PROVE  BatchInv'
  <2>1. Runs(l, "established", c) /\ batch' = batch /\ phase' = phase
    BY <1>6 DEF RunEstablished
  <2>2. QED
    BY <2>1, RunBatch
<1>7. ASSUME NEW l \in Loops, NEW c \in Conns, RunDestroyed(l, c)
      PROVE  BatchInv'
  <2>1. Runs(l, "destroyed", c) /\ batch' = batch /\ phase' = phase
    BY <1>7 DEF RunDestroyed
  <2>2. QED
    BY <2>1, RunBatch
<1>8. ASSUME NEW l \in Loops, NEW c \in Conns, RunRemove(l, c)
      PROVE  BatchInv'
  <2>1. Runs(l, "remove", c) /\ batch' = batch /\ phase' = phase
    BY <1>8 DEF RunRemove
  <2>2. QED
    BY <2>1, RunBatch
<1>9. ASSUME NEW l \in Loops, NEW c \in Conns, RunWriteComplete(l, c)
      PROVE  BatchInv'
  <2>1. Runs(l, "writeComplete", c) /\ batch' = batch /\ phase' = phase
    BY <1>9 DEF RunWriteComplete
  <2>2. QED
    BY <2>1, RunBatch
<1>10. ASSUME NEW l \in Loops, NEW c \in Conns, RunSend(l, c)
      PROVE  BatchInv'
  <2>1. Runs(l, "send", c) /\ batch' = batch /\ phase' = phase
    BY <1>10 DEF RunSend
  <2>2. QED
    BY <2>1, RunBatch
<1>11. ASSUME NEW l \in Loops, NEW c \in Conns, RunShutdown(l, c)
      PROVE  BatchInv'
  <2>1. Runs(l, "shutdown", c) /\ batch' = batch /\ phase' = phase
    BY <1>11 DEF RunShutdown
  <2>2. QED
    BY <2>1, RunBatch
<1>12. ASSUME NEW l \in Loops, FunctorsDone(l)
      PROVE  BatchInv'
  <2>1. /\ batch'[l] = <<>> /\ next'[l] = 1
        /\ \A k \in Loops \ {l} : phase'[k] = phase[k] /\ batch'[k] = batch[k] /\ next'[k] = next[k]
    BY <1>12 DEF FunctorsDone, LoopTypes, QueueTypes
  <2>2. Len(<<>>) = 0
    BY EmptySeq
  <2>3. QED
    BY <2>1, <2>2 DEF BatchInv
<1>13. ASSUME NEW l \in Loops, LoopSend(l)
      PROVE  BatchInv'
  BY <1>13 DEF LoopSend, cbVars, serverVars, BatchInv
<1>14. ASSUME NEW l \in Loops, LoopShutdown(l)
      PROVE  BatchInv'
  BY <1>14 DEF LoopShutdown, ShutdownInLoop, MayShutdown, loopVars, cbVars, userVars,
       serverVars, BatchInv
<1>15. ASSUME NEW s \in Senders, SendQueues(s)
      PROVE  BatchInv'
  BY <1>15 DEF SendQueues, Queue, connVars, cbVars, sockVars, serverVars, BatchInv
<1>16. ASSUME NEW s \in Senders, ShutdownSets(s)
      PROVE  BatchInv'
  BY <1>16 DEF ShutdownSets, loopVars, cbVars, sockVars, serverVars, BatchInv
<1>17. ASSUME NEW s \in Senders, ShutdownQueues(s)
      PROVE  BatchInv'
  BY <1>17 DEF ShutdownQueues, Queue, connVars, cbVars, sockVars, serverVars, BatchInv
<1>18. QED
  BY <1>1, <1>2, <1>3, <1>4, <1>5, <1>6, <1>7, <1>8, <1>9, <1>10, <1>11, <1>12, <1>13, <1>14,
       <1>15, <1>16, <1>17, StepCases DEF Busy, CoreInv

\* Until connectionEstablished a connection is new to the poller and idle.
LEMMA ConnStep ==
  ASSUME CoreInv, TypeOK', [Next]_vars
  PROVE  ConnInv'
<1> USE TypeParts DEF CoreInv
<1>1. CASE Bystander
  <2>1. \A c \in Conns : registered[c] = "new" => revents'[c] \subseteq revents[c]
    BY <1>1 DEF Bystander, Polled
  <2>2. QED
    BY <1>1, <2>1 DEF Bystander, ConnInv
<1>2. ASSUME NEW c \in Conns, Accept(c)
      PROVE  ConnInv'
  <2>1. loopOf[c] = NoLoop /\ NextLoop # NoLoop
    <3>1. loopOf'[c] \in Loops \cup {NoLoop} /\ loopOf'[c] = NextLoop /\ loopOf[c] = NoLoop
      BY <1>2 DEF Accept, Backlog, ConnTypes
    <3>2. NextLoop = Base \/ Queue(NextLoop, Functor("established", c))
      BY <1>2 DEF Accept
    <3>3. NextLoop \in Loops
      BY <1>2, NextLoopType
    <3>4. QED
      BY <3>1, <3>3, SentinelAssumption
  <2>2. state[c] = "none" /\ registered[c] = "new" /\ c \notin held /\ c \notin connections /\ revents[c] = {}
    /\ outputBuffer[c] = <<>> /\ events[c] = {}
    BY <2>1 DEF ConnInv, Early
  <2>3. /\ loopOf' = [loopOf EXCEPT ![c] = NextLoop]
        /\ connections' = connections \cup {c}
        /\ UNCHANGED <<revents, outputBuffer>>
    BY <1>2 DEF Accept
  <2>4. CASE NextLoop = Base
    BY <1>2, <2>1, <2>2, <2>3, <2>4 DEF Accept, ConnectionEstablished, ConnInv, Early, ConnTypes
  <2>5. CASE NextLoop # Base
    BY <1>2, <2>1, <2>2, <2>3, <2>5 DEF Accept, ConnInv, Early, ConnTypes
  <2>6. QED
    BY <2>4, <2>5
<1>3. ASSUME NEW l \in Loops, NEW c \in Conns, HandleWrite(l, c), UNCHANGED serverVars
      PROVE  ConnInv'
  <2>1. Writes(c) /\ registered[c] # "new"
    BY <1>3, AtHand, WriteWrites DEF HandleWrite, Calling
  <2>2. UNCHANGED <<loopOf, state, connections, held>>
    BY <1>3 DEF HandleWrite, userVars, serverVars
  <2>3. \A d \in Conns : revents'[d] \subseteq revents[d]
    BY <1>3 DEF HandleWrite, Calling, ConnTypes
  <2>4. QED
    BY <2>1, <2>2, <2>3 DEF Writes, ConnInv
<1>4. ASSUME NEW l \in Loops, NEW c \in Conns, HandleClose(l, c)
      PROVE  ConnInv'
  <2>1. registered[c] # "new" /\ state[c] \notin Early
    BY <1>4, AtHand DEF HandleClose, ClosesNow, Calling
  <2>2. /\ UNCHANGED <<loopOf, registered, outputBuffer, held>>
        /\ state' = [state EXCEPT ![c] = "kDisconnected"]
        /\ events' = [events EXCEPT ![c] = {}]
        /\ connections' \subseteq connections
    BY <1>4 DEF HandleClose, CloseConnection, RemoveConnection, RemoveConnectionInLoop, userVars
  <2>3. \A d \in Conns : revents'[d] \subseteq revents[d]
    BY <1>4 DEF HandleClose, ClosesNow, Calling, ConnTypes
  <2>4. QED
    BY <2>1, <2>2, <2>3 DEF ConnInv, Early, ConnTypes
<1>5. ASSUME NEW l \in Loops, SwapFunctors(l)
      PROVE  ConnInv'
  BY <1>5 DEF SwapFunctors, connVars, cbVars, sockVars, userVars, serverVars, ConnInv, Early,
       ConnTypes, DataTypes
<1>6. ASSUME NEW l \in Loops, NEW c \in Conns, RunEstablished(l, c)
      PROVE  ConnInv'
  <2>1. state[c] = "kConnecting"
    BY <1>6, AtHand DEF RunEstablished, FunctorOK
  <2>2. QED
    BY <1>6, <2>1 DEF RunEstablished, ConnectionEstablished, sockVars, serverVars, ConnInv,
         Early, ConnTypes
<1>7. ASSUME NEW l \in Loops, NEW c \in Conns, RunDestroyed(l, c)
      PROVE  ConnInv'
  <2>1. registered[c] # "new" /\ state[c] \notin Early
    BY <1>7, AtHand DEF RunDestroyed, FunctorOK, ConnInv
  <2>2. /\ state' \in {state, [state EXCEPT ![c] = "kDisconnected"]}
        /\ events' \in {events, [events EXCEPT ![c] = {}]}
        /\ registered' \in {registered, [registered EXCEPT ![c] = "out"]}
        /\ UNCHANGED <<loopOf, revents, outputBuffer, connections, held>>
    BY <1>7 DEF RunDestroyed, ConnectionDestroyed, sockVars, userVars, serverVars
  <2>3. QED
    BY <2>1, <2>2 DEF ConnInv, Early, ConnTypes
<1>8. ASSUME NEW l \in Loops, NEW c \in Conns, RunRemove(l, c)
      PROVE  ConnInv'
  BY <1>8 DEF RunRemove, Runs, RemoveConnectionInLoop, connVars, cbVars, sockVars, userVars,
       ConnInv
<1>9. ASSUME NEW l \in Loops, NEW c \in Conns, RunWriteComplete(l, c)
      PROVE  ConnInv'
  BY <1>9 DEF RunWriteComplete, Runs, connVars, cbVars, sockVars, userVars, serverVars,
       ConnInv, Early, ConnTypes, DataTypes
<1>10. ASSUME NEW l \in Loops, NEW c \in Conns, RunSend(l, c)
      PROVE  ConnInv'
  <2>0. Runs(l, "send", c)
    BY <1>10 DEF RunSend
  <2>1. registered[c] # "new" /\ state[c] \notin Early
    BY <2>0, AtHand DEF FunctorOK, ConnInv
  <2>2. UNCHANGED <<loopOf, state, revents, connections, held>>
    BY <1>10 DEF RunSend, userVars, serverVars
  <2>3. Writes(c) \/ UNCHANGED <<events, registered, outputBuffer>>
    BY <1>10, SendWrites DEF RunSend
  <2>4. QED
    BY <2>1, <2>2, <2>3 DEF Writes, ConnInv
<1>11. ASSUME NEW l \in Loops, NEW c \in Conns, RunShutdown(l, c)
      PROVE  ConnInv'
  BY <1>11 DEF RunShutdown, Runs, ShutdownInLoop, connVars, cbVars, userVars, serverVars,
       ConnInv, Early, ConnTypes, DataTypes
<1>12. ASSUME NEW l \in Loops, FunctorsDone(l)
      PROVE  ConnInv'
  BY <1>12 DEF FunctorsDone, connVars, cbVars, sockVars, userVars, serverVars, ConnInv, Early,
       ConnTypes, DataTypes
<1>13. ASSUME NEW l \in Loops, LoopSend(l)
      PROVE  ConnInv'
  <2> DEFINE c == user[l]
  <2>1. c \in Conns
    BY <1>13 DEF LoopSend, LoopTypes
  <2>2. registered[c] # "new" /\ state[c] \notin Early
    BY <2>1, AtHand
  <2>3. Writes(c) /\ UNCHANGED <<loopOf, state, revents, connections, held>>
    BY <1>13, <2>1, SendWrites DEF LoopSend, serverVars
  <2> HIDE DEF c
  <2>4. QED
    BY <2>1, <2>2, <2>3 DEF Writes, ConnInv
<1>14. ASSUME NEW l \in Loops, LoopShutdown(l)
      PROVE  ConnInv'
  <2> DEFINE c == user[l]
  <2>1. c \in Conns
    BY <1>14 DEF LoopShutdown, LoopTypes
  <2>2. registered[c] # "new" /\ state[c] \notin Early
    BY <2>1, AtHand
  <2>3. state' = [state EXCEPT ![c] = "kDisconnecting"]
    BY <1>14 DEF LoopShutdown
  <2> HIDE DEF c
  <2>4. QED
    BY <1>14, <2>1, <2>2, <2>3 DEF LoopShutdown, userVars, serverVars, ConnInv, Early, ConnTypes
<1>15. ASSUME NEW s \in Senders, SendQueues(s)
      PROVE  ConnInv'
  BY <1>15 DEF SendQueues, Queue, connVars, cbVars, sockVars, serverVars, ConnInv, Early,
       ConnTypes, DataTypes
<1>16. ASSUME NEW s \in Senders, ShutdownSets(s)
      PROVE  ConnInv'
  <2>1. call[s].conn \in Conns /\ registered[call[s].conn] # "new"
    BY <1>16 DEF ShutdownSets, CallInv
  <2>2. state[call[s].conn] \notin Early
    BY <2>1 DEF ConnInv
  <2>3. QED
    BY <1>16, <2>1, <2>2 DEF ShutdownSets, sockVars, serverVars, ConnInv, Early, ConnTypes
<1>17. ASSUME NEW s \in Senders, ShutdownQueues(s)
      PROVE  ConnInv'
  BY <1>17 DEF ShutdownQueues, Queue, connVars, cbVars, sockVars, serverVars, ConnInv, Early,
       ConnTypes, DataTypes
<1>18. QED
  BY <1>1, <1>2, <1>3, <1>4, <1>5, <1>6, <1>7, <1>8, <1>9, <1>10, <1>11, <1>12, <1>13, <1>14,
       <1>15, <1>16, <1>17, StepCases DEF Busy, CoreInv

\* A step in which no loop takes up another connection.
LEMMA HandledSame ==
  ASSUME CoreInv, Lasting,
         \A l \in Loops : /\ \A c \in Conns : Handles(l, c)' => Handles(l, c)
                          /\ phase'[l] # "events" => current'[l] = NoConn /\ active'[l] = {}
  PROVE  HandledInv'
BY SentinelAssumption DEF CoreInv, HandledInv, Lasting

\* Active channels, handled channels and callbacks are those of connections
\* of the loop that were established.
LEMMA HandledStep ==
  ASSUME CoreInv, TypeOK', [Next]_vars
  PROVE  HandledInv'
<1> USE TypeParts, SentinelAssumption DEF CoreInv
<1>0. Lasting
  BY LastingStep
<1>1. CASE Bystander
  <2>1. \A l \in Loops, c \in Conns :
           Handles(l, c)' => Handles(l, c) \/ (registered[c] = "in" /\ loopOf[c] = l)
    BY <1>1 DEF Bystander
  <2>2. \A l \in Loops : phase'[l] # "events" => current'[l] = NoConn /\ active'[l] = {}
    BY <1>1 DEF Bystander, HandledInv
  <2>3. UNCHANGED <<registered, loopOf>>
    BY <1>1 DEF Bystander
  <2>4. QED
    BY <2>1, <2>2, <2>3 DEF HandledInv
<1>2. ASSUME NEW c \in Conns, Accept(c)
      PROVE  HandledInv'
  <2>1. \A k \in Loops, d \in Conns :
           Handles(k, d)' => Handles(k, d) \/ (k = Base /\ d = c /\ NextLoop = Base)
    BY <1>2 DEF Accept, ConnectionEstablished, Handles, LoopTypes
  <2>2. \A k \in Loops : phase'[k] # "events" => current'[k] = NoConn /\ active'[k] = {}
    BY <1>2 DEF Accept, HandledInv, LoopTypes
  <2>3. NextLoop = Base => registered'[c] # "new" /\ loopOf'[c] = Base
    BY <1>2 DEF Accept, ConnectionEstablished, ConnTypes
  <2>4. QED
    BY <1>0, <2>1, <2>2, <2>3 DEF HandledInv, Lasting
<1>3. ASSUME NEW l \in Loops, NEW c \in Conns, HandleWrite(l, c), UNCHANGED serverVars
      PROVE  HandledInv'
  <2>1. UNCHANGED <<active, current, user, phase>>
    BY <1>3 DEF HandleWrite, Calling, Update, QueueWriteComplete, Queue, cbVars, userVars,
         serverVars
  <2>2. QED
    BY <1>0, <2>1, HandledSame DEF Handles, HandledInv
<1>4. ASSUME NEW l \in Loops, NEW c \in Conns, HandleClose(l, c)
      PROVE  HandledInv'
  <2>1. UNCHANGED <<active, current, user, phase>>
    BY <1>4 DEF HandleClose, ClosesNow, Calling, CloseConnection, RemoveConnection,
         RemoveConnectionInLoop, Queue, cbVars, sockVars, userVars
  <2>2. QED
    BY <1>0, <2>1, HandledSame DEF Handles, HandledInv
<1>5. ASSUME NEW l \in Loops, SwapFunctors(l)
      PROVE  HandledInv'
  <2>1. UNCHANGED <<active, current, user>>
    BY <1>5 DEF SwapFunctors
  <2>2. \A k \in Loops : phase'[k] # "events" => current'[k] = NoConn /\ active'[k] = {}
    BY <1>5, <2>1 DEF SwapFunctors, Between, HandledInv, LoopTypes
  <2>3. QED
    BY <1>0, <2>1, <2>2, HandledSame DEF Handles
<1>6. ASSUME NEW l \in Loops, NEW c \in Conns, RunEstablished(l, c)
      PROVE  HandledInv'
  <2>1. \A k \in Loops, d \in Conns : Handles(k, d)' => Handles(k, d) \/ (k = l /\ d = c)
    BY <1>6 DEF RunEstablished, ConnectionEstablished, Handles, LoopTypes
  <2>2. \A k \in Loops : phase'[k] # "events" => current'[k] = NoConn /\ active'[k] = {}
    BY <1>6 DEF RunEstablished, ConnectionEstablished, HandledInv, LoopTypes
  <2>3. registered'[c] # "new" /\ loopOf'[c] = l
    <3>1. loopOf[c] = l
      BY <1>6, AtHand DEF RunEstablished, FunctorOK
    <3>2. QED
      BY <1>6, <3>1 DEF RunEstablished, ConnectionEstablished, ConnTypes
  <2>4. QED
    BY <1>0, <2>1, <2>2, <2>3 DEF HandledInv, Lasting
<1>7. ASSUME NEW l \in Loops, NEW c \in Conns, RunDestroyed(l, c)
      PROVE  HandledInv'
  <2>1. UNCHANGED <<active, current, user, phase>>
    BY <1>7 DEF RunDestroyed, Runs, ConnectionDestroyed, sockVars, userVars, serverVars
  <2>2. QED
    BY <1>0, <2>1, HandledSame DEF Handles, HandledInv
<1>8. ASSUME NEW l \in Loops, NEW c \in Conns, RunRemove(l, c)
      PROVE  HandledInv'
  <2>1. UNCHANGED <<active, current, user, phase>>
    BY <1>8 DEF RunRemove, Runs, RemoveConnectionInLoop, connVars, cbVars, sockVars, userVars
  <2>2. QED
    BY <1>0, <2>1, HandledSame DEF Handles, HandledInv
<1>9. ASSUME NEW l \in Loops, NEW c \in Conns, RunWriteComplete(l, c)
      PROVE  HandledInv'
  <2>1. \A k \in Loops, d \in Conns : Handles(k, d)' => Handles(k, d) \/ (k = l /\ d = c)
    BY <1>9 DEF RunWriteComplete, connVars, Handles, LoopTypes
  <2>2. \A k \in Loops : phase'[k] # "events" => current'[k] = NoConn /\ active'[k] = {}
    BY <1>9 DEF RunWriteComplete, connVars, HandledInv, LoopTypes
  <2>3. registered'[c] # "new" /\ loopOf'[c] = l
    <3>1. loopOf[c] = l /\ registered[c] # "new"
      BY <1>9, AtHand DEF RunWriteComplete, FunctorOK
    <3>2. QED
      BY <1>9, <3>1 DEF RunWriteComplete, connVars
  <2>4. QED
    BY <1>0, <2>1, <2>2, <2>3 DEF HandledInv, Lasting
<1>10. ASSUME NEW l \in Loops, NEW c \in Conns, RunSend(l, c)
      PROVE  HandledInv'
  <2>1. UNCHANGED <<active, current, user, phase>>
    BY <1>10 DEF RunSend, Runs, cbVars, userVars, serverVars
  <2>2. QED
    BY <1>0, <2>1, HandledSame DEF Handles, HandledInv
<1>11. ASSUME NEW l \in Loops, NEW c \in Conns, RunShutdown(l, c)
      PROVE  HandledInv'
  <2>1. UNCHANGED <<active, current, user, phase>>
    BY <1>11 DEF RunShutdown, Runs, ShutdownInLoop, connVars, cbVars, userVars, serverVars
  <2>2. QED
    BY <1>0, <2>1, HandledSame DEF Handles, HandledInv
<1>12. ASSUME NEW l \in Loops, FunctorsDone(l)
      PROVE  HandledInv'
  <2>1. UNCHANGED <<active, current, user>>
    BY <1>12 DEF FunctorsDone
  <2>2. \A k \in Loops : phase'[k] # "events" => current'[k] = NoConn /\ active'[k] = {}
    BY <1>12, <2>1 DEF FunctorsDone, HandledInv, LoopTypes
  <2>3. QED
    BY <1>0, <2>1, <2>2, HandledSame DEF Handles
<1>13. ASSUME NEW l \in Loops, LoopSend(l)
      PROVE  HandledInv'
  <2>1. UNCHANGED <<active, current, user, phase>>
    BY <1>13 DEF LoopSend, cbVars, serverVars
  <2>2. QED
    BY <1>0, <2>1, HandledSame DEF Handles, HandledInv
<1>14. ASSUME NEW l \in Loops, LoopShutdown(l)
      PROVE  HandledInv'
  <2>1. UNCHANGED <<active, current, user, phase>>
    BY <1>14 DEF LoopShutdown, ShutdownInLoop, MayShutdown, loopVars, cbVars, userVars,
         serverVars
  <2>2. QED
    BY <1>0, <2>1, HandledSame DEF Handles, HandledInv
<1>15. ASSUME NEW s \in Senders, SendQueues(s)
      PROVE  HandledInv'
  <2>1. UNCHANGED <<active, current, user, phase>>
    BY <1>15 DEF SendQueues, Queue, connVars, cbVars, sockVars, serverVars
  <2>2. QED
    BY <1>0, <2>1, HandledSame DEF Handles, HandledInv
<1>16. ASSUME NEW s \in Senders, ShutdownSets(s)
      PROVE  HandledInv'
  <2>1. UNCHANGED <<active, current, user, phase>>
    BY <1>16 DEF ShutdownSets, loopVars, cbVars, sockVars, serverVars
  <2>2. QED
    BY <1>0, <2>1, HandledSame DEF Handles, HandledInv
<1>17. ASSUME NEW s \in Senders, ShutdownQueues(s)
      PROVE  HandledInv'
  <2>1. UNCHANGED <<active, current, user, phase>>
    BY <1>17 DEF ShutdownQueues, Queue, connVars, cbVars, sockVars, serverVars
  <2>2. QED
    BY <1>0, <2>1, HandledSame DEF Handles, HandledInv
<1>18. QED
  BY <1>1, <1>2, <1>3, <1>4, <1>5, <1>6, <1>7, <1>8, <1>9, <1>10, <1>11, <1>12, <1>13, <1>14,
       <1>15, <1>16, <1>17, StepCases DEF Busy, CoreInv

\* A thread in send() or shutdown() is at an established connection.
LEMMA CallStep ==
  ASSUME CoreInv, TypeOK', [Next]_vars
  PROVE  CallInv'
<1>0. Lasting
  BY LastingStep
<1>01. CallInv /\ CallTypes
  BY TypeParts DEF CoreInv
<1>1. CASE Bystander
  <2>1. UNCHANGED <<registered, sends>>
    BY <1>1 DEF Bystander
  <2>2. ASSUME NEW s \in Senders
        PROVE  \/ call'[s] = call[s]
               \/ /\ call'[s].conn \in held
                  /\ call'[s].op = "send" => sends[s] < MaxSends
    BY <1>1 DEF Bystander
  <2>3. \A c \in held : c \in Conns /\ registered[c] # "new"
    BY TypeParts DEF CoreInv, ConnInv, OtherTypes
  <2>4. QED
    BY <1>01, <2>1, <2>2, <2>3 DEF CallInv
<1>2. ASSUME NEW c \in Conns, Accept(c)
      PROVE  CallInv'
  <2>1. UNCHANGED <<call, sends>>
    BY <1>2 DEF Accept, ConnectionEstablished, Queue, sockVars
  <2>2. QED
    BY <1>0, <1>01, <2>1 DEF CallInv, Lasting
<1>3. ASSUME NEW l \in Loops, NEW c \in Conns, HandleWrite(l, c), UNCHANGED serverVars
      PROVE  CallInv'
  <2>1. UNCHANGED <<call, sends>>
    BY <1>3 DEF HandleWrite, Calling, Update, QueueWriteComplete, Queue, cbVars, userVars,
         serverVars
  <2>2. QED
    BY <1>0, <1>01, <2>1 DEF CallInv, Lasting
<1>4. ASSUME NEW l \in Loops, NEW c \in Conns, HandleClose(l, c)
      PROVE  CallInv'
  <2>1. UNCHANGED <<call, sends>>
    BY <1>4 DEF HandleClose, ClosesNow, Calling, CloseConnection, RemoveConnection,
         RemoveConnectionInLoop, Queue, cbVars, sockVars, userVars
  <2>2. QED
    BY <1>0, <1>01, <2>1 DEF CallInv, Lasting
<1>5. ASSUME NEW l \in Loops, SwapFunctors(l)
      PROVE  CallInv'
  <2>1. UNCHANGED <<call, sends>>
    BY <1>5 DEF SwapFunctors, connVars, cbVars, sockVars, userVars, serverVars
  <2>2. QED
    BY <1>0, <1>01, <2>1 DEF CallInv, Lasting
<1>6. ASSUME NEW l \in Loops, NEW c \in Conns, RunEstablished(l, c)
      PROVE  CallInv'
  <2>1. UNCHANGED <<call, sends>>
    BY <1>6 DEF RunEstablished, Runs, ConnectionEstablished, sockVars, serverVars
  <2>2. QED
    BY <1>0, <1>01, <2>1 DEF CallInv, Lasting
<1>7. ASSUME NEW l \in Loops, NEW c \in Conns, RunDestroyed(l, c)
      PROVE  CallInv'
  <2>1. UNCHANGED <<call, sends>>
    BY <1>7 DEF RunDestroyed, Runs, ConnectionDestroyed, sockVars, userVars, serverVars
  <2>2. QED
    BY <1>0, <1>01, <2>1 DEF CallInv, Lasting
<1>8. ASSUME NEW l \in Loops, NEW c \in Conns, RunRemove(l, c)
      PROVE  CallInv'
  <2>1. UNCHANGED <<call, sends>>
    BY <1>8 DEF RunRemove, Runs, RemoveConnectionInLoop, connVars, cbVars, sockVars, userVars
  <2>2. QED
    BY <1>0, <1>01, <2>1 DEF CallInv, Lasting
<1>9. ASSUME NEW l \in Loops, NEW c \in Conns, RunWriteComplete(l, c)
      PROVE  CallInv'
  <2>1. UNCHANGED <<call, sends>>
    BY <1>9 DEF RunWriteComplete, Runs, connVars, cbVars, sockVars, userVars, serverVars
  <2>2. QED
    BY <1>0, <1>01, <2>1 DEF CallInv, Lasting
<1>10. ASSUME NEW l \in Loops, NEW c \in Conns, RunSend(l, c)
      PROVE  CallInv'
  <2>1. UNCHANGED <<call, sends>>
    BY <1>10 DEF RunSend, Runs, cbVars, userVars, serverVars
  <2>2. QED
    BY <1>0, <1>01, <2>1 DEF CallInv, Lasting
<1>11. ASSUME NEW l \in Loops, NEW c \in Conns, RunShutdown(l, c)
      PROVE  CallInv'
  <2>1. UNCHANGED <<call, sends>>
    BY <1>11 DEF RunShutdown, Runs, ShutdownInLoop, connVars, cbVars, userVars, serverVars
  <2>2. QED
    BY <1>0, <1>01, <2>1 DEF CallInv, Lasting
<1>12. ASSUME NEW l \in Loops, FunctorsDone(l)
      PROVE  CallInv'
  <2>1. UNCHANGED <<call, sends>>
    BY <1>12 DEF FunctorsDone, connVars, cbVars, sockVars, userVars, serverVars
  <2>2. QED
    BY <1>0, <1>01, <2>1 DEF CallInv, Lasting
<1>13. ASSUME NEW l \in Loops, LoopSend(l)
      PROVE  CallInv'
  <2>1. call' = call /\ sends' = [sends EXCEPT ![l] = @ + 1]
    BY <1>13 DEF LoopSend
  <2>2. \A s \in Senders : sends'[s] = sends[s]
    BY <1>01, <2>1, SendersAssumption DEF CallTypes
  <2>3. QED
    BY <1>0, <1>01, <2>1, <2>2 DEF CallInv, Lasting
<1>14. ASSUME NEW l \in Loops, LoopShutdown(l)
      PROVE  CallInv'
  <2>1. UNCHANGED <<call, sends>>
    BY <1>14 DEF LoopShutdown, ShutdownInLoop, MayShutdown, loopVars, cbVars, userVars,
         serverVars
  <2>2. QED
    BY <1>0, <1>01, <2>1 DEF CallInv, Lasting
<1>15. ASSUME NEW s \in Senders, SendQueues(s)
      PROVE  CallInv'
  <2>1. sends' = [sends EXCEPT ![s] = @ + 1] /\ call' = [call EXCEPT ![s] = Idle]
    BY <1>15 DEF SendQueues
  <2>2. QED
    BY <1>0, <1>01, <2>1 DEF CallInv, Lasting, CallTypes, Idle
<1>16. ASSUME NEW s \in Senders, ShutdownSets(s)
      PROVE  CallInv'
  <2>1. sends' = sends /\ call' = [call EXCEPT ![s].op = "shutdownSet"] /\ call[s].op = "shutdown"
    BY <1>16 DEF ShutdownSets
  <2>2. QED
    BY <1>0, <1>01, <2>1 DEF CallInv, Lasting, CallTypes, Idle
<1>17. ASSUME NEW s \in Senders, ShutdownQueues(s)
      PROVE  CallInv'
  <2>1. sends' = sends /\ call' = [call EXCEPT ![s] = Idle]
    BY <1>17 DEF ShutdownQueues
  <2>2. QED
    BY <1>0, <1>01, <2>1 DEF CallInv, Lasting, CallTypes, Idle
<1>18. QED
  BY <1>1, <1>2, <1>3, <1>4, <1>5, <1>6, <1>7, <1>8, <1>9, <1>10, <1>11, <1>12, <1>13, <1>14,
       <1>15, <1>16, <1>17, StepCases DEF Busy, CoreInv

\* A step that leaves the connections that wait for connectionEstablished alone.
StillConnecting(l, f) ==
  /\ state'[f.conn] = "kConnecting"
  /\ f.conn \in connections'

\* Functors stay right as long as each one still fits its connection.
LEMMA FunctorsStep ==
  ASSUME TypeOK, BatchInv, FunctorInv, Lasting, NEW T, NEW F, Evolve(T, F),
         \A l \in Loops, f \in Functors : <<l, f>> \in F => FunctorOK(l, f)',
         \A l \in Loops, f \in Functors :
            Awaits(l, f) /\ Awaits(l, f)' /\ f.op = "established" /\ FunctorOK(l, f)
            => StillConnecting(l, f)
  PROVE  FunctorInv'
<1> SUFFICES ASSUME NEW l \in Loops, NEW f \in Functors, Awaits(l, f)'
             PROVE  FunctorOK(l, f)'
  BY DEF FunctorInv
<1>1. CASE <<l, f>> \in F
  BY <1>1
<1>2. CASE Awaits(l, f)
  <2>1. FunctorOK(l, f) /\ f.conn \in Conns
    BY <1>2 DEF FunctorInv, Functors
  <2>2. f.op = "established" => StillConnecting(l, f)
    BY <1>2, <2>1
  <2>3. f.op # "established" => registered'[f.conn] # "new"
    BY <2>1 DEF FunctorOK, Lasting
  <2>4. f.op # "remove" => loopOf'[f.conn] = l
    BY <2>1, SentinelAssumption DEF FunctorOK, Lasting
  <2>5. QED
    BY <2>1, <2>2, <2>3, <2>4 DEF FunctorOK, StillConnecting
<1>3. QED
  BY <1>1, <1>2, AwaitsFrom

\* A functor finds its connection in the state it was queued for, on its loop.
LEMMA FunctorInvStep ==
  ASSUME CoreInv, TypeOK', [Next]_vars
  PROVE  FunctorInv'
<1>0. Lasting /\ TypeOK /\ BatchInv /\ FunctorInv
  BY LastingStep DEF CoreInv
<1>01. ConnTypes /\ ConnTypes' /\ OtherTypes
  BY <1>0, TypeParts
<1>1. CASE Bystander
  <2>1. Evolve({}, {}) /\ UNCHANGED <<state, connections>>
    BY <1>1, <1>0, EvolveBystander DEF Bystander
  <2>4. \A k \in Loops, f \in Functors :
           Awaits(k, f) /\ Awaits(k, f)' /\ f.op = "established" /\ FunctorOK(k, f)
           => StillConnecting(k, f)
    BY <2>1 DEF FunctorOK, StillConnecting
  <2>5. QED
    BY <1>0, <2>1, <2>4, FunctorsStep
<1>2. ASSUME NEW c \in Conns, Accept(c)
      PROVE  FunctorInv'
  <2> DEFINE F == IF NextLoop = Base THEN {} ELSE {<<NextLoop, Functor("established", c)>>}
  <2>1. Evolve({}, F)
    BY <1>2, <1>0, EvolveAccept
  <2>2. /\ state' = [state EXCEPT ![c] = IF NextLoop = Base THEN "kConnected" ELSE "kConnecting"]
        /\ connections' = connections \cup {c}
        /\ loopOf' = [loopOf EXCEPT ![c] = NextLoop]
        /\ state[c] = "none"
    BY <1>2 DEF Accept, ConnectionEstablished, Backlog, CoreInv, ConnInv
  <2>3. \A k \in Loops, f \in Functors : <<k, f>> \in F => FunctorOK(k, f)'
    <3> SUFFICES ASSUME NEW k \in Loops, NEW f \in Functors, <<k, f>> \in F
                 PROVE  FunctorOK(k, f)'
      OBVIOUS
    <3>1. NextLoop # Base /\ k = NextLoop /\ f = Functor("established", c)
      OBVIOUS
    <3>2. state'[c] = "kConnecting" /\ c \in connections' /\ loopOf'[c] = k
      BY <2>2, <3>1, <1>01 DEF ConnTypes
    <3>3. QED
      BY <3>1, <3>2 DEF FunctorOK, Functor
  <2>4. \A k \in Loops, f \in Functors :
           Awaits(k, f) /\ Awaits(k, f)' /\ f.op = "established" /\ FunctorOK(k, f)
           => StillConnecting(k, f)
    BY <2>2, <1>01 DEF FunctorOK, StillConnecting, ConnTypes, Functors
  <2> HIDE DEF F
  <2>5. QED
    BY <1>0, <2>1, <2>3, <2>4, FunctorsStep
<1>3. ASSUME NEW l \in Loops, NEW c \in Conns, HandleWrite(l, c), UNCHANGED serverVars
      PROVE  FunctorInv'
  <2>1. PICK F \in WriteCompletes(c) : Evolve({}, F)
    BY <1>3, <1>0, EvolveWrite
  <2>2. UNCHANGED <<state, connections>> /\ registered[c] # "new" /\ loopOf[c] # NoLoop /\ c \in Conns
    BY <1>3, AtHand, SentinelAssumption DEF HandleWrite, Calling, serverVars
  <2>3. \A k \in Loops, f \in Functors : <<k, f>> \in F => FunctorOK(k, f)'
    BY <1>0, <2>1, <2>2 DEF WriteCompletes, Functor, FunctorOK, Lasting
  <2>4. \A k \in Loops, f \in Functors :
           Awaits(k, f) /\ Awaits(k, f)' /\ f.op = "established" /\ FunctorOK(k, f)
           => StillConnecting(k, f)
    BY <2>2 DEF FunctorOK, StillConnecting
  <2>5. QED
    BY <1>0, <2>1, <2>3, <2>4, FunctorsStep
<1>4. ASSUME NEW l \in Loops, NEW c \in Conns, HandleClose(l, c)
      PROVE  FunctorInv'
  <2>1. Evolve({}, Closing(l, c))
    BY <1>4, <1>0, EvolveClose
  <2>2. /\ registered[c] # "new" /\ loopOf[c] = l /\ state[c] \notin Early
        /\ state' = [state EXCEPT ![c] = "kDisconnected"]
        /\ \A d \in Conns \ {c} : d \in connections => d \in connections'
    <3>1. registered[c] # "new" /\ loopOf[c] = l /\ state[c] \notin Early
      BY <1>4, AtHand DEF HandleClose, ClosesNow, Calling
    <3>2. QED
      BY <1>4, <3>1 DEF HandleClose, CloseConnection, RemoveConnection, RemoveConnectionInLoop
  <2>3. \A k \in Loops, f \in Functors : <<k, f>> \in Closing(l, c) => FunctorOK(k, f)'
    BY <1>0, <2>2, SentinelAssumption DEF Closing, Functor, FunctorOK, Lasting
  <2>4. \A k \in Loops, f \in Functors :
           Awaits(k, f) /\ Awaits(k, f)' /\ f.op = "established" /\ FunctorOK(k, f)
           => StillConnecting(k, f)
    BY <2>2, <1>01 DEF Early, ConnTypes, Functors, FunctorOK, StillConnecting
  <2>5. QED
    BY <1>0, <2>1, <2>3, <2>4, FunctorsStep
<1>5. ASSUME NEW l \in Loops, SwapFunctors(l)
      PROVE  FunctorInv'
  <2>1. Evolve({}, {})
    BY <1>5, <1>0, EvolveSwap
  <2>2. UNCHANGED <<state, connections>>
    BY <1>5 DEF SwapFunctors, connVars, serverVars
  <2>4. \A k \in Loops, f \in Functors :
           Awaits(k, f) /\ Awaits(k, f)' /\ f.op = "established" /\ FunctorOK(k, f)
           => StillConnecting(k, f)
    BY <2>2 DEF FunctorOK, StillConnecting
  <2>5. QED
    BY <1>0, <2>1, <2>4, FunctorsStep
<1>6. ASSUME NEW l \in Loops, NEW c \in Conns, RunEstablished(l, c)
      PROVE  FunctorInv'
  <2>1. Evolve({l}, {}) /\ Todo(l)[1].op = "established" /\ Todo(l)[1].conn = c
    BY <1>6, <1>0, EvolveQuietRun DEF RunEstablished
  <2>2. /\ connections' = connections /\ loopOf[c] = l
        /\ \A d \in Conns \ {c} : state'[d] = state[d]
    BY <1>6, <1>01, AtHand DEF RunEstablished, ConnectionEstablished, serverVars, FunctorOK,
         ConnTypes
  <2>4. ASSUME NEW k \in Loops, NEW f \in Functors,
               Awaits(k, f), Awaits(k, f)', f.op = "established", FunctorOK(k, f)
        PROVE  StillConnecting(k, f)
    <3>1. f.conn # c
      <4> SUFFICES ASSUME f.conn = c
                   PROVE  FALSE
        OBVIOUS
      <4>1. k = l
        BY <2>2, <2>4 DEF FunctorOK
      <4>2. Before(l, Todo(l)[1], f) /\ Todo(l)[1] \in Functors
        <5> DEFINE T == {l}
                   F == {}
        <5>1. l \in T /\ Evolve(T, F) /\ Awaits(l, f)'
          BY <2>1, <2>4, <4>1
        <5>2. <<l, f>> \notin F
          OBVIOUS
        <5> HIDE DEF T, F
        <5>3. Before(l, Todo(l)[1], f) \/ <<l, f>> \in F
          BY <1>0, <5>1, HeadBefore
        <5>4. Todo(l)[1] \in Functors
          BY <1>0, <5>1, HeadAwaits
        <5>5. QED
          BY <5>2, <5>3, <5>4
      <4>3. QED
        BY <2>1, <2>4, <4>2 DEF CoreInv, OneEstablish
    <3>2. QED
      BY <2>2, <2>4, <3>1 DEF FunctorOK, StillConnecting, Functors
  <2>5. QED
    BY <1>0, <2>1, <2>4, FunctorsStep
<1>7. ASSUME NEW l \in Loops, NEW c \in Conns, RunDestroyed(l, c)
      PROVE  FunctorInv'
  <2>1. Evolve({l}, {})
    BY <1>7, <1>0, EvolveQuietRun DEF RunDestroyed
  <2>2. /\ connections' = connections
        /\ \A d \in Conns : state[d] = "kConnecting" => state'[d] = "kConnecting"
    <3>1. state[c] # "kConnecting"
      BY <1>7, AtHand DEF RunDestroyed, FunctorOK, CoreInv, ConnInv, Early
    <3>2. QED
      BY <1>7, <3>1 DEF RunDestroyed, ConnectionDestroyed, serverVars
  <2>4. \A k \in Loops, f \in Functors :
           Awaits(k, f) /\ Awaits(k, f)' /\ f.op = "established" /\ FunctorOK(k, f)
           => StillConnecting(k, f)
    BY <2>2 DEF Functors, FunctorOK, StillConnecting
  <2>5. QED
    BY <1>0, <2>1, <2>4, FunctorsStep
<1>8. ASSUME NEW l \in Loops, NEW c \in Conns, RunRemove(l, c)
      PROVE  FunctorInv'
  <2> DEFINE F == {<<loopOf[c], Functor("destroyed", c)>>}
  <2>1. Evolve({l}, F)
    BY <1>8, <1>0, EvolveRemove
  <2>2. /\ registered[c] # "new" /\ state[c] \notin Early
        /\ state' = state /\ connections' = connections \ {c}
    <3>1. registered[c] # "new"
      BY <1>8, AtHand DEF RunRemove, FunctorOK
    <3>2. QED
      BY <1>8, <3>1 DEF RunRemove, RemoveConnectionInLoop, connVars, CoreInv, ConnInv
  <2>3. \A k \in Loops, f \in Functors : <<k, f>> \in F => FunctorOK(k, f)'
    BY <1>0, <2>2, SentinelAssumption DEF Functor, FunctorOK, Lasting
  <2> HIDE DEF F
  <2>4. \A k \in Loops, f \in Functors :
           Awaits(k, f) /\ Awaits(k, f)' /\ f.op = "established" /\ FunctorOK(k, f)
           => StillConnecting(k, f)
    BY <2>2 DEF Early, FunctorOK, StillConnecting
  <2>5. QED
    BY <1>0, <2>1, <2>3, <2>4, FunctorsStep
<1>9. ASSUME NEW l \in Loops, NEW c \in Conns, RunWriteComplete(l, c)
      PROVE  FunctorInv'
  <2>1. Evolve({l}, {})
    BY <1>9, <1>0, EvolveQuietRun DEF RunWriteComplete
  <2>2. UNCHANGED <<state, connections>>
    BY <1>9 DEF RunWriteComplete, connVars, serverVars
  <2>4. \A k \in Loops, f \in Functors :
           Awaits(k, f) /\ Awaits(k, f)' /\ f.op = "established" /\ FunctorOK(k, f)
           => StillConnecting(k, f)
    BY <2>2 DEF FunctorOK, StillConnecting
  <2>5. QED
    BY <1>0, <2>1, <2>4, FunctorsStep
<1>10. ASSUME NEW l \in Loops, NEW c \in Conns, RunSend(l, c)
      PROVE  FunctorInv'
  <2>1. PICK F \in WriteCompletes(c) : Evolve({l}, F)
    BY <1>10, <1>0, EvolveRunSend
  <2>2. UNCHANGED <<state, connections>> /\ registered[c] # "new" /\ loopOf[c] # NoLoop /\ c \in Conns
    <3>1. Runs(l, "send", c) /\ UNCHANGED <<state, connections>>
      BY <1>10 DEF RunSend, serverVars
    <3>2. QED
      BY <3>1, AtHand, SentinelAssumption DEF FunctorOK
  <2>3. \A k \in Loops, f \in Functors : <<k, f>> \in F => FunctorOK(k, f)'
    BY <1>0, <2>1, <2>2 DEF WriteCompletes, Functor, FunctorOK, Lasting
  <2>4. \A k \in Loops, f \in Functors :
           Awaits(k, f) /\ Awaits(k, f)' /\ f.op = "established" /\ FunctorOK(k, f)
           => StillConnecting(k, f)
    BY <2>2 DEF FunctorOK, StillConnecting
  <2>5. QED
    BY <1>0, <2>1, <2>3, <2>4, FunctorsStep
<1>11. ASSUME NEW l \in Loops, NEW c \in Conns, RunShutdown(l, c)
      PROVE  FunctorInv'
  <2>1. Evolve({l}, {})
    BY <1>11, <1>0, EvolveQuietRun DEF RunShutdown, connVars
  <2>2. UNCHANGED <<state, connections>>
    BY <1>11 DEF RunShutdown, connVars, serverVars
  <2>4. \A k \in Loops, f \in Functors :
           Awaits(k, f) /\ Awaits(k, f)' /\ f.op = "established" /\ FunctorOK(k, f)
           => StillConnecting(k, f)
    BY <2>2 DEF FunctorOK, StillConnecting
  <2>5. QED
    BY <1>0, <2>1, <2>4, FunctorsStep
<1>12. ASSUME NEW l \in Loops, FunctorsDone(l)
      PROVE  FunctorInv'
  <2>1. Evolve({}, {})
    BY <1>12, <1>0, EvolveDone
  <2>2. UNCHANGED <<state, connections>>
    BY <1>12 DEF FunctorsDone, connVars, serverVars
  <2>4. \A k \in Loops, f \in Functors :
           Awaits(k, f) /\ Awaits(k, f)' /\ f.op = "established" /\ FunctorOK(k, f)
           => StillConnecting(k, f)
    BY <2>2 DEF FunctorOK, StillConnecting
  <2>5. QED
    BY <1>0, <2>1, <2>4, FunctorsStep
<1>13. ASSUME NEW l \in Loops, LoopSend(l)
      PROVE  FunctorInv'
  <2>1. PICK F \in WriteCompletes(user[l]) : Evolve({}, F)
    BY <1>13, <1>0, EvolveLoopSend
  <2>2. UNCHANGED <<state, connections>> /\ registered[user[l]] # "new" /\ loopOf[user[l]] # NoLoop /\ user[l] \in Conns
    <3>1. user[l] \in Conns
      BY <1>13, TypeParts, <1>0 DEF LoopSend, LoopTypes
    <3>2. QED
      BY <1>13, <3>1, AtHand, SentinelAssumption DEF LoopSend, serverVars
  <2>3. \A k \in Loops, f \in Functors : <<k, f>> \in F => FunctorOK(k, f)'
    BY <1>0, <2>1, <2>2 DEF WriteCompletes, Functor, FunctorOK, Lasting
  <2>4. \A k \in Loops, f \in Functors :
           Awaits(k, f) /\ Awaits(k, f)' /\ f.op = "established" /\ FunctorOK(k, f)
           => StillConnecting(k, f)
    BY <2>2 DEF FunctorOK, StillConnecting
  <2>5. QED
    BY <1>0, <2>1, <2>3, <2>4, FunctorsStep
<1>14. ASSUME NEW l \in Loops, LoopShutdown(l)
      PROVE  FunctorInv'
  <2>1. Evolve({}, {})
    BY <1>14, <1>0, EvolveBystander DEF LoopShutdown, loopVars
  <2>2. /\ connections' = connections
        /\ \A d \in Conns : state[d] = "kConnecting" => state'[d] = "kConnecting"
    BY <1>14, <1>01 DEF LoopShutdown, MayShutdown, serverVars, ConnTypes
  <2>4. \A k \in Loops, f \in Functors :
           Awaits(k, f) /\ Awaits(k, f)' /\ f.op = "established" /\ FunctorOK(k, f)
           => StillConnecting(k, f)
    BY <2>2 DEF Functors, FunctorOK, StillConnecting
  <2>5. QED
    BY <1>0, <2>1, <2>4, FunctorsStep
<1>15. ASSUME NEW s \in Senders, SendQueues(s)
      PROVE  FunctorInv'
  <2> DEFINE F == {<<loopOf[call[s].conn], Sending(s)>>}
  <2>1. Evolve({}, F)
    BY <1>15, <1>0, EvolveSendQueues DEF CoreInv
  <2>2. UNCHANGED <<state, connections>>
    BY <1>15 DEF SendQueues, connVars, serverVars
  <2>3. \A k \in Loops, f \in Functors : <<k, f>> \in F => FunctorOK(k, f)'
    <3>1. registered[call[s].conn] # "new" /\ call[s].conn \in Conns
      BY <1>15 DEF SendQueues, CoreInv, CallInv
    <3>2. QED
      BY <1>0, <3>1, SentinelAssumption DEF Functor, Sending, FunctorOK, Lasting
  <2> HIDE DEF F
  <2>4. \A k \in Loops, f \in Functors :
           Awaits(k, f) /\ Awaits(k, f)' /\ f.op = "established" /\ FunctorOK(k, f)
           => StillConnecting(k, f)
    BY <2>2 DEF FunctorOK, StillConnecting
  <2>5. QED
    BY <1>0, <2>1, <2>3, <2>4, FunctorsStep
<1>16. ASSUME NEW s \in Senders, ShutdownSets(s)
      PROVE  FunctorInv'
  <2>1. Evolve({}, {})
    BY <1>16, <1>0, EvolveBystander DEF ShutdownSets, loopVars
  <2>2. /\ connections' = connections
        /\ \A d \in Conns : state[d] = "kConnecting" => state'[d] = "kConnecting"
    <3>1. state[call[s].conn] \notin Early
      BY <1>16 DEF ShutdownSets, CoreInv, CallInv, ConnInv
    <3>2. QED
      BY <1>16, <3>1, <1>01 DEF ShutdownSets, serverVars, ConnTypes, Early
  <2>4. \A k \in Loops, f \in Functors :
           Awaits(k, f) /\ Awaits(k, f)' /\ f.op = "established" /\ FunctorOK(k, f)
           => StillConnecting(k, f)
    BY <2>2 DEF Functors, FunctorOK, StillConnecting
  <2>5. QED
    BY <1>0, <2>1, <2>4, FunctorsStep
<1>17. ASSUME NEW s \in Senders, ShutdownQueues(s)
      PROVE  FunctorInv'
  <2> DEFINE F == {<<loopOf[call[s].conn], Functor("shutdown", call[s].conn)>>}
  <2>1. Evolve({}, F)
    BY <1>17, <1>0, EvolveShutdownQueues DEF CoreInv
  <2>2. UNCHANGED <<state, connections>>
    BY <1>17 DEF ShutdownQueues, connVars, serverVars
  <2>3. \A k \in Loops, f \in Functors : <<k, f>> \in F => FunctorOK(k, f)'
    <3>1. registered[call[s].conn] # "new" /\ call[s].conn \in Conns
      BY <1>17 DEF ShutdownQueues, CoreInv, CallInv
    <3>2. QED
      BY <1>0, <3>1, SentinelAssumption DEF Functor, Sending, FunctorOK, Lasting
  <2> HIDE DEF F
  <2>4. \A k \in Loops, f \in Functors :
           Awaits(k, f) /\ Awaits(k, f)' /\ f.op = "established" /\ FunctorOK(k, f)
           => StillConnecting(k, f)
    BY <2>2 DEF FunctorOK, StillConnecting
  <2>5. QED
    BY <1>0, <2>1, <2>3, <2>4, FunctorsStep
<1>18. QED
  BY <1>1, <1>2, <1>3, <1>4, <1>5, <1>6, <1>7, <1>8, <1>9, <1>10, <1>11, <1>12, <1>13, <1>14,
       <1>15, <1>16, <1>17, StepCases DEF Busy, CoreInv

\* connectionEstablished is queued once for a connection.
LEMMA EstablishStep ==
  ASSUME CoreInv, TypeOK', [Next]_vars
  PROVE  OneEstablish'
<1>0. TypeOK /\ BatchInv /\ FunctorInv /\ OneEstablish
  BY DEF CoreInv
<1>01. ConnTypes /\ ConnTypes'
  BY <1>0, TypeParts
\* A step that queues no connectionEstablished.
<1>02. ASSUME NEW T, NEW F, Evolve(T, F),
              \A k \in Loops, f \in Functors : <<k, f>> \in F => f.op # "established"
       PROVE  OneEstablish'
  <2> SUFFICES ASSUME NEW l \in Loops, NEW f \in Functors, NEW g \in Functors, Before(l, f, g)',
                      f.op = "established", g.op = "established"
               PROVE  f.conn # g.conn
    BY DEF OneEstablish
  <2>1. Before(l, f, g)
    BY <1>0, <1>02, BeforeFrom
  <2>2. QED
    BY <1>0, <2>1 DEF OneEstablish
<1>1. CASE Bystander
  <2>1. Evolve({}, {})
    BY <1>1, <1>0, EvolveBystander DEF Bystander
  <2>2. QED
    BY <1>02, <2>1
<1>2. ASSUME NEW c \in Conns, Accept(c)
      PROVE  OneEstablish'
  <2> DEFINE F == IF NextLoop = Base THEN {} ELSE {<<NextLoop, Functor("established", c)>>}
  <2>1. Evolve({}, F)
    BY <1>2, <1>0, EvolveAccept
  <2>2. state[c] = "none"
    BY <1>2 DEF Accept, Backlog, CoreInv, ConnInv
  <2>3. \A k \in Loops, f \in Functors : <<k, f>> \in F => f.conn = c
    BY DEF Functor
  <2> HIDE DEF F
  <2>4. SUFFICES ASSUME NEW l \in Loops, NEW f \in Functors, NEW g \in Functors, Before(l, f, g)',
                        f.op = "established", g.op = "established"
                 PROVE  f.conn # g.conn
    BY DEF OneEstablish
  <2>5. CASE Before(l, f, g)
    BY <1>0, <2>4, <2>5 DEF OneEstablish
  <2>6. CASE Awaits(l, f) /\ <<l, g>> \in F
    BY <1>0, <2>2, <2>3, <2>4, <2>6 DEF FunctorInv, FunctorOK
  <2>7. QED
    BY <1>0, <2>1, <2>4, <2>5, <2>6, BeforeFrom
<1>3. ASSUME NEW l \in Loops, NEW c \in Conns, HandleWrite(l, c), UNCHANGED serverVars
      PROVE  OneEstablish'
  <2>1. PICK F \in WriteCompletes(c) : Evolve({}, F)
    BY <1>3, <1>0, EvolveWrite
  <2>2. \A k \in Loops, f \in Functors : <<k, f>> \in F => f.op # "established"
    BY <2>1 DEF WriteCompletes, Functor
  <2>3. QED
    BY <1>02, <2>1, <2>2
<1>4. ASSUME NEW l \in Loops, NEW c \in Conns, HandleClose(l, c)
      PROVE  OneEstablish'
  <2>1. Evolve({}, Closing(l, c))
    BY <1>4, <1>0, EvolveClose
  <2>2. \A k \in Loops, f \in Functors : <<k, f>> \in Closing(l, c) => f.op # "established"
    BY DEF Closing, Functor, Sending
  <2>3. QED
    BY <1>02, <2>1, <2>2
<1>5. ASSUME NEW l \in Loops, SwapFunctors(l)
      PROVE  OneEstablish'
  <2>1. Evolve({}, {})
    BY <1>5, <1>0, EvolveSwap
  <2>2. \A k \in Loops, f \in Functors : <<k, f>> \in {} => f.op # "established"
    BY DEF Closing, Functor, Sending
  <2>3. QED
    BY <1>02, <2>1, <2>2
<1>6. ASSUME NEW l \in Loops, NEW c \in Conns, RunEstablished(l, c)
      PROVE  OneEstablish'
  <2>1. Evolve({l}, {})
    BY <1>6, <1>0, EvolveQuietRun DEF RunEstablished, connVars
  <2>2. \A k \in Loops, f \in Functors : <<k, f>> \in {} => f.op # "established"
    BY DEF Closing, Functor, Sending
  <2>3. QED
    BY <1>02, <2>1, <2>2
<1>7. ASSUME NEW l \in Loops, NEW c \in Conns, RunDestroyed(l, c)
      PROVE  OneEstablish'
  <2>1. Evolve({l}, {})
    BY <1>7, <1>0, EvolveQuietRun DEF RunDestroyed, connVars
  <2>2. \A k \in Loops, f \in Functors : <<k, f>> \in {} => f.op # "established"
    BY DEF Closing, Functor, Sending
  <2>3. QED
    BY <1>02, <2>1, <2>2
<1>8. ASSUME NEW l \in Loops, NEW c \in Conns, RunRemove(l, c)
      PROVE  OneEstablish'
  <2>1. Evolve({l}, {<<loopOf[c], Functor("destroyed", c)>>})
    BY <1>8, <1>0, EvolveRemove
  <2>2. \A k \in Loops, f \in Functors : <<k, f>> \in {<<loopOf[c], Functor("destroyed", c)>>} => f.op # "established"
    BY DEF Closing, Functor, Sending
  <2>3. QED
    BY <1>02, <2>1, <2>2
<1>9. ASSUME NEW l \in Loops, NEW c \in Conns, RunWriteComplete(l, c)
      PROVE  OneEstablish'
  <2>1. Evolve({l}, {})
    BY <1>9, <1>0, EvolveQuietRun DEF RunWriteComplete, connVars
  <2>2. \A k \in Loops, f \in Functors : <<k, f>> \in {} => f.op # "established"
    BY DEF Closing, Functor, Sending
  <2>3. QED
    BY <1>02, <2>1, <2>2
<1>10. ASSUME NEW l \in Loops, NEW c \in Conns, RunSend(l, c)
      PROVE  OneEstablish'
  <2>1. PICK F \in WriteCompletes(c) : Evolve({l}, F)
    BY <1>10, <1>0, EvolveRunSend
  <2>2. \A k \in Loops, f \in Functors : <<k, f>> \in F => f.op # "established"
    BY <2>1 DEF WriteCompletes, Functor
  <2>3. QED
    BY <1>02, <2>1, <2>2
<1>11. ASSUME NEW l \in Loops, NEW c \in Conns, RunShutdown(l, c)
      PROVE  OneEstablish'
  <2>1. Evolve({l}, {})
    BY <1>11, <1>0, EvolveQuietRun DEF RunShutdown, connVars
  <2>2. \A k \in Loops, f \in Functors : <<k, f>> \in {} => f.op # "established"
    BY DEF Closing, Functor, Sending
  <2>3. QED
    BY <1>02, <2>1, <2>2
<1>12. ASSUME NEW l \in Loops, FunctorsDone(l)
      PROVE  OneEstablish'
  <2>1. Evolve({}, {})
    BY <1>12, <1>0, EvolveDone
  <2>2. \A k \in Loops, f \in Functors : <<k, f>> \in {} => f.op # "established"
    BY DEF Closing, Functor, Sending
  <2>3. QED
    BY <1>02, <2>1, <2>2
<1>13. ASSUME NEW l \in Loops, LoopSend(l)
      PROVE  OneEstablish'
  <2>1. PICK F \in WriteCompletes(user[l]) : Evolve({}, F)
    BY <1>13, <1>0, EvolveLoopSend
  <2>2. \A k \in Loops, f \in Functors : <<k, f>> \in F => f.op # "established"
    BY <2>1 DEF WriteCompletes, Functor
  <2>3. QED
    BY <1>02, <2>1, <2>2
<1>14. ASSUME NEW l \in Loops, LoopShutdown(l)
      PROVE  OneEstablish'
  <2>1. Evolve({}, {})
    BY <1>14, <1>0, EvolveBystander DEF LoopShutdown, loopVars
  <2>2. \A k \in Loops, f \in Functors : <<k, f>> \in {} => f.op # "established"
    BY DEF Closing, Functor, Sending
  <2>3. QED
    BY <1>02, <2>1, <2>2
<1>15. ASSUME NEW s \in Senders, SendQueues(s)
      PROVE  OneEstablish'
  <2>1. Evolve({}, {<<loopOf[call[s].conn], Sending(s)>>})
    BY <1>15, <1>0, EvolveSendQueues DEF CoreInv
  <2>2. \A k \in Loops, f \in Functors : <<k, f>> \in {<<loopOf[call[s].conn], Sending(s)>>} => f.op # "established"
    BY DEF Closing, Functor, Sending
  <2>3. QED
    BY <1>02, <2>1, <2>2
<1>16. ASSUME NEW s \in Senders, ShutdownSets(s)
      PROVE  OneEstablish'
  <2>1. Evolve({}, {})
    BY <1>16, <1>0, EvolveBystander DEF ShutdownSets, loopVars
  <2>2. \A k \in Loops, f \in Functors : <<k, f>> \in {} => f.op # "established"
    BY DEF Closing, Functor, Sending
  <2>3. QED
    BY <1>02, <2>1, <2>2
<1>17. ASSUME NEW s \in Senders, ShutdownQueues(s)
      PROVE  OneEstablish'
  <2>1. Evolve({}, {<<loopOf[call[s].conn], Functor("shutdown", call[s].conn)>>})
    BY <1>17, <1>0, EvolveShutdownQueues DEF CoreInv
  <2>2. \A k \in Loops, f \in Functors : <<k, f>> \in {<<loopOf[call[s].conn], Functor("shutdown", call[s].conn)>>} => f.op # "established"
    BY DEF Closing, Functor, Sending
  <2>3. QED
    BY <1>02, <2>1, <2>2
<1>18. QED
  BY <1>1, <1>2, <1>3, <1>4, <1>5, <1>6, <1>7, <1>8, <1>9, <1>10, <1>11, <1>12, <1>13, <1>14,
       <1>15, <1>16, <1>17, StepCases DEF Busy, CoreInv

\* The core invariant is inductive.
LEMMA CoreStep ==
  ASSUME CoreInv, [Next]_vars
  PROVE  CoreInv'
<1>1. TypeOK'
  BY TypeStep DEF CoreInv
<1>2. QED
  BY <1>1, BatchStep, ConnStep, HandledStep, CallStep, FunctorInvStep, EstablishStep DEF CoreInv

\* The core invariant holds in every instance.
LEMMA CoreHolds == Spec => []CoreInv
BY CoreInit, CoreStep, PTL DEF Spec

\* Every variable keeps its type, in every instance.
THEOREM TypeCorrect == Spec => []TypeOK
<1>1. CoreInv => TypeOK
  BY DEF CoreInv
<1>2. QED
  BY <1>1, CoreHolds, PTL

------------------------------------------------------------------------------
(* A registered channel has a connection that is alive.                    *)

\* A registered channel is in the map, or connectionDestroyed waits on its
\* loop; or connectionDestroyed has just failed an assertion.
DestroyInv ==
  \A c \in Conns :
    registered[c] = "in" => \/ c \in connections
                            \/ Awaits(loopOf[c], Functor("destroyed", c))
                            \/ ~Running /\ Alive(c)

\* At first no channel is registered.
LEMMA DestroyInit == Init => DestroyInv
BY DEF Init, TcpInit, DestroyInv

\* When the process has died, nothing happens.
LEMMA Stopped == ASSUME [Next]_vars, ~Running PROVE UNCHANGED vars
BY DEF Next, Finished

\* Steps that call no connectionDestroyed, and queue it for what leaves the map.
LEMMA DestroyKept ==
  ASSUME CoreInv, DestroyInv, Running, Lasting, NEW T, NEW F, Evolve(T, F),
         \A c \in Conns : registered'[c] = "in" => registered[c] = "in" \/ c \in connections',
         \A c \in connections : c \in connections' \/ <<loopOf[c], Functor("destroyed", c)>> \in F,
         \A l \in T : Todo(l)[1].op # "destroyed"
  PROVE  DestroyInv'
<1> SUFFICES ASSUME NEW c \in Conns, registered'[c] = "in", c \notin connections'
             PROVE  Awaits(loopOf[c], Functor("destroyed", c))' 
  BY DEF DestroyInv
<1> DEFINE f == Functor("destroyed", c)
<1>0. TypeOK /\ BatchInv /\ ConnInv /\ ConnTypes
  BY TypeParts DEF CoreInv
<1>1. registered[c] = "in" /\ loopOf[c] \in Loops /\ loopOf'[c] = loopOf[c]
  BY <1>0, SentinelAssumption DEF ConnInv, ConnTypes, Early, Lasting
<1>2. PICK l \in Loops : loopOf[c] = l /\ loopOf'[c] = l
  BY <1>1
<1>3. f \in Functors /\ f.op = "destroyed"
  BY FunctorType DEF Ops, Functor
<1>4. c \in connections \/ Awaits(l, f)
  BY <1>1, <1>2 DEF DestroyInv
<1>5. c \in connections => <<l, f>> \in F
  BY <1>2
<1>6. l \in T => f # Todo(l)[1]
  BY <1>3
<1> HIDE DEF f
<1>7. Awaits(l, f)'
  BY <1>0, <1>3, <1>4, <1>5, <1>6, AwaitsNew, AwaitsKept
<1>8. QED
  BY <1>2, <1>7 DEF f

\* A registered channel has its connection in the map, or its
\* connectionDestroyed is still to run.
LEMMA DestroyStep ==
  ASSUME CoreInv, CoreInv', DestroyInv, [Next]_vars
  PROVE  DestroyInv'
<1>0. TypeOK /\ TypeOK' /\ BatchInv /\ ConnTypes /\ ConnTypes' /\ Lasting
  BY TypeParts, LastingStep DEF CoreInv
<1>01. CASE ~Running
  <2>1. UNCHANGED vars
    BY <1>01, Stopped
  <2>2. QED
    BY <2>1 DEF vars, tcpVars, loopVars, connVars, userVars, serverVars, DestroyInv, Running,
                Alive, Awaits, Todo
<1>02. ASSUME Running, NEW T, NEW F, Evolve(T, F), UNCHANGED <<registered, connections>>,
              \A l \in T : Todo(l)[1].op # "destroyed"
       PROVE  DestroyInv'
  BY <1>0, <1>02, DestroyKept
<1> SUFFICES ASSUME Running
             PROVE  DestroyInv'
  BY <1>01
<1>1. CASE Bystander
  <2>1. Evolve({}, {}) /\ UNCHANGED <<registered, connections>>
    BY <1>1, <1>0, EvolveBystander DEF Bystander
  <2>2. QED
    BY <1>02, <2>1
<1>2. ASSUME NEW c \in Conns, Accept(c)
      PROVE  DestroyInv'
  <2> DEFINE F == IF NextLoop = Base THEN {} ELSE {<<NextLoop, Functor("established", c)>>}
  <2>1. Evolve({}, F)
    BY <1>2, <1>0, EvolveAccept
  <2>2. \A d \in Conns : registered'[d] = "in" => registered[d] = "in" \/ d \in connections'
    BY <1>2, <1>0 DEF Accept, ConnectionEstablished, ConnTypes
  <2>3. \A d \in connections : d \in connections'
    BY <1>2 DEF Accept
  <2> HIDE DEF F
  <2>4. QED
    BY <1>0, <2>1, <2>2, <2>3, DestroyKept
<1>3. ASSUME NEW l \in Loops, NEW c \in Conns, HandleWrite(l, c), UNCHANGED serverVars
      PROVE  DestroyInv'
  <2>1. PICK F \in WriteCompletes(c) : Evolve({}, F)
    BY <1>3, <1>0, EvolveWrite
  <2>2. registered[c] # "new" /\ connections' = connections
    BY <1>3, AtHand DEF HandleWrite, Calling, serverVars
  <2>3. Writes(c)
    BY <1>3, <1>0, WriteWrites
  <2>4. \A d \in Conns : registered'[d] = "in" => registered[d] = "in" \/ d \in connections'
    BY <1>0, <2>2, <2>3 DEF Writes, ConnTypes
  <2>5. QED
    BY <1>0, <2>1, <2>2, <2>4, DestroyKept
<1>4. ASSUME NEW l \in Loops, NEW c \in Conns, HandleClose(l, c)
      PROVE  DestroyInv'
  <2>1. Evolve({}, Closing(l, c))
    BY <1>4, <1>0, EvolveClose
  <2>2. registered' = registered
    BY <1>4 DEF HandleClose, CloseConnection
  <2>3. \A d \in connections : d \in connections' \/ <<loopOf[d], Functor("destroyed", d)>> \in Closing(l, c)
    BY <1>4 DEF HandleClose, RemoveConnection, RemoveConnectionInLoop, Closing
  <2>4. QED
    BY <1>0, <2>1, <2>2, <2>3, DestroyKept
<1>5. ASSUME NEW l \in Loops, SwapFunctors(l)
      PROVE  DestroyInv'
  <2>1. Evolve({}, {})
    BY <1>5, <1>0, EvolveSwap
  <2>2. UNCHANGED <<registered, connections>>
    BY <1>5 DEF SwapFunctors, connVars, serverVars
  <2>3. QED
    BY <1>02, <2>1, <2>2
<1>6. ASSUME NEW l \in Loops, NEW c \in Conns, RunEstablished(l, c)
      PROVE  DestroyInv'
  <2>1. Evolve({l}, {}) /\ Todo(l)[1].op = "established"
    BY <1>6, <1>0, EvolveQuietRun DEF RunEstablished
  <2>2. c \in connections /\ connections' = connections
    BY <1>6, AtHand DEF RunEstablished, FunctorOK, serverVars
  <2>3. \A d \in Conns : registered'[d] = "in" => registered[d] = "in" \/ d \in connections'
    BY <1>6, <1>0, <2>2 DEF RunEstablished, ConnectionEstablished, ConnTypes
  <2>4. QED
    BY <1>0, <2>1, <2>2, <2>3, DestroyKept
<1>7. ASSUME NEW l \in Loops, NEW c \in Conns, RunDestroyed(l, c)
      PROVE  DestroyInv'
  <2>1. Evolve({l}, {}) /\ Todo(l)[1].op = "destroyed" /\ Todo(l)[1].conn = c
    BY <1>7, <1>0, EvolveQuietRun DEF RunDestroyed
  <2>2. /\ connections' = connections /\ batch' = batch /\ next[l] \in DOMAIN batch[l]
        /\ batch[l][next[l]].op = "destroyed" /\ batch[l][next[l]].conn = c
    BY <1>7 DEF RunDestroyed, Runs, serverVars
  <2>3. \/ registered'[c] = "out"
        \/ registered' = registered /\ failed' = "removeChannel"
    BY <1>7, <1>0 DEF RunDestroyed, ConnectionDestroyed, ConnTypes
  <2>4. \A d \in Conns \ {c} : registered'[d] = registered[d]
    BY <1>7, <1>0 DEF RunDestroyed, ConnectionDestroyed, ConnTypes
  <2>5. Alive(c)'
    BY <2>2 DEF Alive, Owning
  <2>6. ASSUME NEW d \in Conns \ {c}, registered'[d] = "in", d \notin connections'
        PROVE  Awaits(loopOf[d], Functor("destroyed", d))'
    <3> DEFINE f == Functor("destroyed", d)
               T == {l}
               F == {}
    <3>1. registered[d] = "in" /\ loopOf[d] \in Loops /\ loopOf'[d] = loopOf[d]
      BY <1>0, <2>4, <2>6, SentinelAssumption DEF CoreInv, ConnInv, ConnTypes, Early, Lasting
    <3>2. PICK k \in Loops : loopOf[d] = k /\ loopOf'[d] = k
      BY <3>1
    <3>3. f \in Functors /\ f.conn = d
      BY FunctorType DEF Ops, Functor
    <3>4. Awaits(k, f)
      BY <2>2, <2>6, <3>1, <3>2 DEF DestroyInv
    <3>5. k \in T => f # Todo(k)[1]
      BY <2>1, <3>3
    <3>6. Evolve(T, F)
      BY <2>1
    <3> HIDE DEF f, T, F
    <3>7. Awaits(k, f)'
      BY <1>0, <3>3, <3>4, <3>5, <3>6, AwaitsKept
    <3>8. QED
      BY <3>2, <3>7 DEF f
  <2>7. QED
    BY <2>3, <2>5, <2>6 DEF DestroyInv, Running
<1>8. ASSUME NEW l \in Loops, NEW c \in Conns, RunRemove(l, c)
      PROVE  DestroyInv'
  <2> DEFINE F == {<<loopOf[c], Functor("destroyed", c)>>}
  <2>1. Evolve({l}, F) /\ Todo(l)[1].op = "remove"
    BY <1>8, <1>0, EvolveRemove
  <2>2. registered' = registered
    BY <1>8 DEF RunRemove, connVars
  <2>3. \A d \in connections : d \in connections' \/ <<loopOf[d], Functor("destroyed", d)>> \in F
    BY <1>8 DEF RunRemove, RemoveConnectionInLoop
  <2> HIDE DEF F
  <2>4. QED
    BY <1>0, <2>1, <2>2, <2>3, DestroyKept
<1>9. ASSUME NEW l \in Loops, NEW c \in Conns, RunWriteComplete(l, c)
      PROVE  DestroyInv'
  <2>1. Evolve({l}, {}) /\ Todo(l)[1].op = "writeComplete"
    BY <1>9, <1>0, EvolveQuietRun DEF RunWriteComplete, connVars
  <2>2. UNCHANGED <<registered, connections>>
    BY <1>9 DEF RunWriteComplete, connVars, serverVars
  <2>3. QED
    BY <1>02, <2>1, <2>2
<1>10. ASSUME NEW l \in Loops, NEW c \in Conns, RunSend(l, c)
      PROVE  DestroyInv'
  <2>1. PICK F \in WriteCompletes(c) : Evolve({l}, F) /\ Todo(l)[1].op = "send"
    BY <1>10, <1>0, EvolveRunSend
  <2>2. Runs(l, "send", c) /\ connections' = connections
    BY <1>10 DEF RunSend, serverVars
  <2>3. registered[c] # "new"
    BY <2>2, AtHand DEF FunctorOK
  <2>4. Writes(c) \/ registered' = registered
    BY <1>10, <1>0, SendWrites DEF RunSend
  <2>5. \A d \in Conns : registered'[d] = "in" => registered[d] = "in" \/ d \in connections'
    BY <1>0, <2>3, <2>4 DEF Writes, ConnTypes
  <2>6. QED
    BY <1>0, <2>1, <2>2, <2>5, DestroyKept
<1>11. ASSUME NEW l \in Loops, NEW c \in Conns, RunShutdown(l, c)
      PROVE  DestroyInv'
  <2>1. Evolve({l}, {}) /\ Todo(l)[1].op = "shutdown"
    BY <1>11, <1>0, EvolveQuietRun DEF RunShutdown, connVars
  <2>2. UNCHANGED <<registered, connections>>
    BY <1>11 DEF RunShutdown, connVars, serverVars
  <2>3. QED
    BY <1>02, <2>1, <2>2
<1>12. ASSUME NEW l \in Loops, FunctorsDone(l)
      PROVE  DestroyInv'
  <2>1. Evolve({}, {})
    BY <1>12, <1>0, EvolveDone
  <2>2. UNCHANGED <<registered, connections>>
    BY <1>12 DEF FunctorsDone, connVars, serverVars
  <2>3. QED
    BY <1>02, <2>1, <2>2
<1>13. ASSUME NEW l \in Loops, LoopSend(l)
      PROVE  DestroyInv'
  <2>1. PICK F \in WriteCompletes(user[l]) : Evolve({}, F)
    BY <1>13, <1>0, EvolveLoopSend
  <2>2. user[l] \in Conns /\ connections' = connections
    BY <1>13, <1>0, TypeParts DEF LoopSend, LoopTypes, serverVars
  <2>3. Writes(user[l]) /\ registered[user[l]] # "new"
    BY <1>13, <1>0, <2>2, SendWrites, AtHand DEF LoopSend
  <2>4. \A d \in Conns : registered'[d] = "in" => registered[d] = "in" \/ d \in connections'
    BY <1>0, <2>2, <2>3 DEF Writes, ConnTypes
  <2>5. QED
    BY <1>0, <2>1, <2>2, <2>4, DestroyKept
<1>14. ASSUME NEW l \in Loops, LoopShutdown(l)
      PROVE  DestroyInv'
  <2>1. Evolve({}, {})
    BY <1>14, <1>0, EvolveBystander DEF LoopShutdown, loopVars
  <2>2. UNCHANGED <<registered, connections>>
    BY <1>14 DEF LoopShutdown, serverVars
  <2>3. QED
    BY <1>02, <2>1, <2>2
<1>15. ASSUME NEW s \in Senders, SendQueues(s)
      PROVE  DestroyInv'
  <2>1. Evolve({}, {<<loopOf[call[s].conn], Sending(s)>>})
    BY <1>15, <1>0, EvolveSendQueues DEF CoreInv
  <2>2. UNCHANGED <<registered, connections>>
    BY <1>15 DEF SendQueues, connVars, serverVars
  <2>3. QED
    BY <1>02, <2>1, <2>2
<1>16. ASSUME NEW s \in Senders, ShutdownSets(s)
      PROVE  DestroyInv'
  <2>1. Evolve({}, {})
    BY <1>16, <1>0, EvolveBystander DEF ShutdownSets, loopVars
  <2>2. UNCHANGED <<registered, connections>>
    BY <1>16 DEF ShutdownSets, serverVars
  <2>3. QED
    BY <1>02, <2>1, <2>2
<1>17. ASSUME NEW s \in Senders, ShutdownQueues(s)
      PROVE  DestroyInv'
  <2>1. Evolve({}, {<<loopOf[call[s].conn], Functor("shutdown", call[s].conn)>>})
    BY <1>17, <1>0, EvolveShutdownQueues DEF CoreInv
  <2>2. UNCHANGED <<registered, connections>>
    BY <1>17 DEF ShutdownQueues, connVars, serverVars
  <2>3. QED
    BY <1>02, <2>1, <2>2
<1>18. QED
  BY <1>1, <1>2, <1>3, <1>4, <1>5, <1>6, <1>7, <1>8, <1>9, <1>10, <1>11, <1>12, <1>13, <1>14,
       <1>15, <1>16, <1>17, StepCases DEF Busy, CoreInv

\* The map and the functor are owners of the connection.
LEMMA DestroyInvImplies ==
  ASSUME CoreInv, DestroyInv
  PROVE  NoDanglingChannel
<1> SUFFICES ASSUME NEW c \in Conns, registered[c] = "in"
             PROVE  Alive(c)
  BY DEF NoDanglingChannel
<1>1. CASE c \in connections
  BY <1>1 DEF Alive
<1>2. CASE Awaits(loopOf[c], Functor("destroyed", c))
  <2> DEFINE f == Functor("destroyed", c)
             l == loopOf[c]
  <2>1. l \in Loops
    BY TypeParts DEF CoreInv, ConnInv, ConnTypes, Early
  <2>2. f.conn = c /\ f.op \in Owning
    BY DEF Functor, Owning
  <2> HIDE DEF f, l
  <2>3. \/ \E i \in DOMAIN pending[l] : pending[l][i] = f
        \/ \E i \in DOMAIN batch[l] : i >= next[l] /\ batch[l][i] = f
    BY <1>2, <2>1, AwaitsWhere DEF CoreInv, f, l
  <2>4. QED
    BY <2>1, <2>2, <2>3 DEF Alive
<1>3. QED
  BY <1>1, <1>2 DEF DestroyInv

\* The poller never keeps the channel of a connection that was freed: neither
\* the way of a connection out of the server over two loops, nor a failing
\* assertion on it, leaves a channel registered that no shared_ptr protects.
THEOREM ChannelsAreOwned == Spec => []NoDanglingChannel
<1>1. Spec => []DestroyInv
  <2>1. CoreInv /\ CoreInv' /\ DestroyInv /\ [Next]_vars => DestroyInv'
    BY DestroyStep
  <2>2. QED
    BY <2>1, CoreHolds, DestroyInit, PTL DEF Spec
<1>2. CoreInv /\ DestroyInv => NoDanglingChannel
  BY DestroyInvImplies
<1>3. QED
  BY <1>1, <1>2, CoreHolds, PTL

Msg(s, k) == [i \in 1..MsgLen |-> <<s, k, i>>]

Ordered(t) ==
  \A i, j \in 1..Len(t) :
    i < j /\ t[i][1] = t[j][1] => \/ t[i][2] < t[j][2]
                                  \/ t[i][2] = t[j][2] /\ t[i][3] < t[j][3]

Whole(t) ==
  \A i \in 1..Len(t) :
    t[i][3] < MsgLen => i + 1 \in 1..Len(t) /\ t[i + 1] = [t[i] EXCEPT ![3] = @ + 1]

\* The byte behind another of its message.
LEMMA NextByte ==
  ASSUME NEW s, NEW k, NEW i \in Nat
  PROVE  /\ [<<s, k, i>> EXCEPT ![3] = @ + 1] = <<s, k, i + 1>>
         /\ <<s, k, i>>[1] = s /\ <<s, k, i>>[2] = k /\ <<s, k, i>>[3] = i
OBVIOUS

\* A partial write cuts a buffer in two.
LEMMA CutInTwo ==
  ASSUME NEW S, NEW o \in Seq(S), NEW n \in 0..Len(o)
  PROVE  /\ SubSeq(o, 1, n) \in Seq(S) /\ SubSeq(o, n + 1, Len(o)) \in Seq(S)
         /\ SubSeq(o, 1, n) \o SubSeq(o, n + 1, Len(o)) = o
         /\ n = 0 => SubSeq(o, 1, n) = <<>> /\ SubSeq(o, n + 1, Len(o)) = o
<1>1. Len(o) \in Nat /\ \A i \in 1..Len(o) : o[i] \in S
  BY LenProperties, ElementOfSeq
<1>2. SubSeq(o, 1, n) \in Seq(S)
  BY <1>1, SubSeqProperties
<1> DEFINE m == n + 1
<1>3. m \in Int /\ \A i \in m..Len(o) : o[i] \in S
  BY <1>1
<1>4. SubSeq(o, m, Len(o)) \in Seq(S)
  <2> HIDE DEF m
  <2>1. QED
    BY <1>1, <1>3, SubSeqProperties
<1>5. SubSeq(o, 1, n) \o SubSeq(o, n + 1, Len(o)) = o
  <2> DEFINE a == 1
             z == Len(o)
  <2>1. a \in 1..Len(o) + 1 /\ n \in a - 1..Len(o) /\ z \in n..Len(o)
    BY <1>1
  <2> HIDE DEF a, z
  <2>2. SubSeq(o, a, n) \o SubSeq(o, n + 1, z) = SubSeq(o, a, z)
    BY <2>1, ConcatAdjacentSubSeq
  <2>3. QED
    BY <2>2, SubSeqFull DEF a, z
<1>6. n = 0 => SubSeq(o, 1, n) = <<>>
  BY SubSeqEmpty
<1>7. n = 0 => SubSeq(o, n + 1, Len(o)) = o
  BY SubSeqFull
<1>8. QED
  BY <1>2, <1>4, <1>5, <1>6, <1>7

\* handleWrite() moves bytes from the buffer to the wire, in order.
LEMMA WrittenThrough ==
  ASSUME NEW S, NEW w \in Seq(S), NEW o \in Seq(S), NEW n \in 0..Len(o)
  PROVE  (w \o SubSeq(o, 1, n)) \o SubSeq(o, n + 1, Len(o)) = w \o o
<1> DEFINE a == SubSeq(o, 1, n)
           b == SubSeq(o, n + 1, Len(o))
<1>1. a \in Seq(S) /\ b \in Seq(S) /\ a \o b = o
  BY CutInTwo
<1> HIDE DEF a, b
<1>2. (w \o a) \o b = w \o (a \o b)
  <2>1. a \in Seq(S) /\ b \in Seq(S)
    BY <1>1
  <2>2. QED
    BY SMTT(60), <2>1, ConcatAssociative
<1>3. QED
  BY <1>1, <1>2 DEF a, b

\* sendInLoop() writes directly only when nothing waits, so that its data
\* come behind all that was sent before.
LEMMA SentThrough ==
  ASSUME NEW w \in Seq(Bytes), NEW o \in Seq(Bytes), NEW d \in Seq(Bytes), NEW n \in 0..Len(d),
         n = 0 \/ o = <<>>
  PROVE  (w \o SubSeq(d, 1, n)) \o (o \o SubSeq(d, n + 1, Len(d))) = (w \o o) \o d
<1> DEFINE a == SubSeq(d, 1, n)
           b == SubSeq(d, n + 1, Len(d))
<1>1. a \in Seq(Bytes) /\ b \in Seq(Bytes) /\ a \o b = d /\ (n = 0 => a = <<>> /\ b = d)
  BY CutInTwo
<1> HIDE DEF a, b
<1>3. CASE o = <<>>
  <2>1. o \o b = b /\ w \o o = w
    BY <1>1, <1>3, ConcatEmptySeq
  <2>2. (w \o a) \o b = w \o (a \o b)
    <3>1. a \in Seq(Bytes) /\ b \in Seq(Bytes)
      BY <1>1
    <3>2. QED
      BY SMTT(60), <3>1, ConcatAssociative
  <2>3. QED
    BY <1>1, <2>1, <2>2 DEF a, b
<1>4. CASE n = 0
  <2>1. w \o a = w /\ o \o b = o \o d
    BY <1>1, <1>4, ConcatEmptySeq
  <2>2. w \o (o \o d) = (w \o o) \o d
    BY SMTT(60), ConcatAssociative
  <2>3. QED
    BY <2>1, <2>2 DEF a, b
<1>5. QED
  BY <1>3, <1>4

\* The bytes of a message.
LEMMA MessageBytes ==
  ASSUME NEW s \in Loops \cup Senders, NEW k \in 1..MaxSends
  PROVE  /\ Msg(s, k) \in Seq(Bytes) /\ Len(Msg(s, k)) = MsgLen
         /\ \A i \in 1..MsgLen : Msg(s, k)[i] = <<s, k, i>>
<1>1. MsgLen \in Nat /\ MsgLen >= 1
  BY SendAssumption
<1>2. Msg(s, k) \in [1..MsgLen -> Bytes]
  BY DEF Msg, Bytes
<1>3. QED
  BY <1>1, <1>2 DEF Msg

\* A message behind the stream: whole, and after those of the same sender.
LEMMA AppendMessage ==
  ASSUME NEW t \in Seq(Bytes), Ordered(t), Whole(t),
         NEW s \in Loops \cup Senders, NEW k \in 1..MaxSends,
         \A i \in 1..Len(t) : t[i][1] = s => t[i][2] < k
  PROVE  /\ Ordered(t \o Msg(s, k)) /\ Whole(t \o Msg(s, k))
         /\ \A i \in 1..Len(t \o Msg(s, k)) :
              \/ i \in 1..Len(t) /\ (t \o Msg(s, k))[i] = t[i]
              \/ (t \o Msg(s, k))[i][1] = s /\ (t \o Msg(s, k))[i][2] = k
<1> DEFINE m == Msg(s, k)
           u == t \o m
<1>1. m \in Seq(Bytes) /\ Len(m) = MsgLen /\ \A i \in 1..MsgLen : m[i] = <<s, k, i>>
  BY MessageBytes
<1>2. Len(t) \in Nat /\ MsgLen \in Nat /\ k \in Int
  BY SendAssumption
<1>3. Len(u) = Len(t) + MsgLen /\ \A i \in 1..Len(t) + Len(m) : u[i] = IF i <= Len(t) THEN t[i] ELSE m[i - Len(t)]
  <2> HIDE DEF m
  <2>1. QED
    BY <1>1, ConcatProperties
<1> HIDE DEF m, u
<1>4. /\ \A i \in 1..Len(t) : i \in 1..Len(u) /\ u[i] = t[i]
      /\ \A i \in 1..MsgLen : Len(t) + i \in 1..Len(u) /\ u[Len(t) + i] = <<s, k, i>>
      /\ \A i \in 1..Len(u) : \/ i \in 1..Len(t) /\ u[i] = t[i]
                              \/ \E j \in 1..MsgLen : i = Len(t) + j /\ u[i] = <<s, k, j>>
  <2>1. \A i \in 1..Len(t) : i \in 1..Len(u) /\ u[i] = t[i]
    BY <1>1, <1>2, <1>3
  <2>2. \A i \in 1..MsgLen : Len(t) + i \in 1..Len(u) /\ u[Len(t) + i] = <<s, k, i>>
    <3> SUFFICES ASSUME NEW i \in 1..MsgLen
                 PROVE  Len(t) + i \in 1..Len(u) /\ u[Len(t) + i] = <<s, k, i>>
      OBVIOUS
    <3> DEFINE j == Len(t) + i
    <3>1. j \in 1..Len(t) + Len(m) /\ j \in 1..Len(u) /\ ~(j <= Len(t)) /\ j - Len(t) = i
      BY <1>1, <1>2, <1>3
    <3> HIDE DEF j
    <3>2. u[j] = m[i]
      BY <1>3, <3>1
    <3>3. QED
      BY <1>1, <3>1, <3>2 DEF j
  <2>3. ASSUME NEW i \in 1..Len(u), i \notin 1..Len(t)
        PROVE  \E j \in 1..MsgLen : i = Len(t) + j /\ u[i] = <<s, k, j>>
    <3>1. i - Len(t) \in 1..MsgLen /\ i = Len(t) + (i - Len(t))
      BY <1>2, <1>3, <2>3
    <3>2. QED
      BY <2>2, <3>1
  <2>4. QED
    BY <2>1, <2>2, <2>3
<1>5. Ordered(u)
  <2> SUFFICES ASSUME NEW i \in 1..Len(u), NEW j \in 1..Len(u), i < j, u[i][1] = u[j][1]
               PROVE  u[i][2] < u[j][2] \/ (u[i][2] = u[j][2] /\ u[i][3] < u[j][3])
    BY DEF Ordered
  <2>1. CASE i \in 1..Len(t) /\ j \in 1..Len(t)
    BY <1>4, <2>1 DEF Ordered
  <2>2. CASE i \in 1..Len(t) /\ j \notin 1..Len(t)
    <3>1. PICK b \in 1..MsgLen : u[j] = <<s, k, b>>
      BY <1>4, <2>2
    <3>2. u[j][1] = s /\ u[j][2] = k
      BY <3>1
    <3>3. u[i] = t[i] /\ t[i][1] = s
      BY <1>4, <2>2, <3>2
    <3>4. QED
      BY <2>2, <3>2, <3>3
  <2>3. ASSUME i \notin 1..Len(t)
        PROVE  u[i][2] = u[j][2] /\ u[i][3] < u[j][3]
    <3>1. j \notin 1..Len(t)
      BY <1>2, <1>3, <2>3
    <3>2. PICK a \in 1..MsgLen : i = Len(t) + a /\ u[i] = <<s, k, a>>
      BY <1>4, <2>3
    <3>3. PICK b \in 1..MsgLen : j = Len(t) + b /\ u[j] = <<s, k, b>>
      BY <1>4, <3>1
    <3>4. a < b
      BY <1>2, <3>2, <3>3
    <3>5. QED
      BY <3>2, <3>3, <3>4
  <2>4. QED
    BY <2>1, <2>2, <2>3
<1>6. Whole(u)
  <2> SUFFICES ASSUME NEW i \in 1..Len(u), u[i][3] < MsgLen
               PROVE  i + 1 \in 1..Len(u) /\ u[i + 1] = [u[i] EXCEPT ![3] = @ + 1]
    BY DEF Whole
  <2>1. CASE i \in 1..Len(t)
    <3>1. i + 1 \in 1..Len(t) /\ t[i + 1] = [t[i] EXCEPT ![3] = @ + 1]
      BY <1>4, <2>1 DEF Whole
    <3>2. QED
      BY <1>4, <2>1, <3>1
  <2>2. CASE i \notin 1..Len(t)
    <3>1. PICK a \in 1..MsgLen : i = Len(t) + a /\ u[i] = <<s, k, a>>
      BY <1>4, <2>2
    <3>0. a < MsgLen
      BY <3>1
    <3>2. a + 1 \in 1..MsgLen /\ i + 1 = Len(t) + (a + 1)
      BY <1>2, <3>0, <3>1
    <3>3. i + 1 \in 1..Len(u) /\ u[i + 1] = <<s, k, a + 1>>
      BY <1>4, <3>2
    <3>4. QED
      BY <3>1, <3>3, NextByte
  <2>3. QED
    BY <2>1, <2>2
<1>7. \A i \in 1..Len(u) : \/ i \in 1..Len(t) /\ u[i] = t[i]
                           \/ u[i][1] = s /\ u[i][2] = k
  <2> SUFFICES ASSUME NEW i \in 1..Len(u), ~(i \in 1..Len(t) /\ u[i] = t[i])
               PROVE  u[i][1] = s /\ u[i][2] = k
    OBVIOUS
  <2>1. PICK j \in 1..MsgLen : u[i] = <<s, k, j>>
    BY <1>4
  <2>2. QED
    BY <2>1
<1>8. QED
  BY <1>5, <1>6, <1>7 DEF u, m

\* sendInLoop() appends its data to the stream of its connection.
LEMMA SendStreams ==
  ASSUME TypeOK, NEW c \in Conns, NEW data \in Seq(Bytes), SendInLoop(c, data)
  PROVE  \A d \in Conns : Stream(d)' = IF d = c THEN Stream(d) \o data ELSE Stream(d)
<1>1. DataTypes /\ Len(data) \in Nat
  BY TypeParts, LenProperties
<1>2. PICK n \in 0..Len(data) :
        /\ n > 0 => outputBuffer[c] = <<>>
        /\ wire' = [wire EXCEPT ![c] = @ \o SubSeq(data, 1, n)]
        /\ outputBuffer' = [outputBuffer EXCEPT ![c] = @ \o SubSeq(data, n + 1, Len(data))]
  BY Zenon DEF SendInLoop, WritesDirectly
<1>3. /\ wire'[c] = wire[c] \o SubSeq(data, 1, n)
      /\ outputBuffer'[c] = outputBuffer[c] \o SubSeq(data, n + 1, Len(data))
      /\ \A d \in Conns \ {c} : wire'[d] = wire[d] /\ outputBuffer'[d] = outputBuffer[d]
      /\ wire[c] \in Seq(Bytes) /\ outputBuffer[c] \in Seq(Bytes)
  BY <1>1, <1>2 DEF DataTypes
<1>4. wire'[c] \o outputBuffer'[c] = Stream(c) \o data
  <2> DEFINE w == wire[c]
             o == outputBuffer[c]
  <2>1. w \in Seq(Bytes) /\ o \in Seq(Bytes) /\ n \in 0..Len(data) /\ (n = 0 \/ o = <<>>)
    BY <1>2, <1>3
  <2> HIDE DEF w, o
  <2>2. (w \o SubSeq(data, 1, n)) \o (o \o SubSeq(data, n + 1, Len(data))) = (w \o o) \o data
    BY ZenonT(60), <2>1, SentThrough
  <2>3. QED
    BY <1>3, <2>2 DEF w, o, Stream
<1>5. QED
  BY <1>3, <1>4 DEF Stream

\* handleWrite() changes no stream.
LEMMA WriteStreams ==
  ASSUME TypeOK, NEW l \in Loops, NEW c \in Conns, HandleWrite(l, c)
  PROVE  \A d \in Conns : Stream(d)' = Stream(d)
<1>1. DataTypes /\ outputBuffer[c] \in Seq(Bytes) /\ wire[c] \in Seq(Bytes)
  BY TypeParts DEF DataTypes
<1>2. CASE UNCHANGED <<wire, outputBuffer>>
  BY <1>2 DEF Stream
<1>3. ASSUME NEW n \in 1..Len(outputBuffer[c]),
             wire' = [wire EXCEPT ![c] = @ \o SubSeq(outputBuffer[c], 1, n)],
             outputBuffer' = [outputBuffer EXCEPT ![c] = SubSeq(@, n + 1, Len(@))]
      PROVE  \A d \in Conns : Stream(d)' = Stream(d)
  <2>1. /\ wire'[c] = wire[c] \o SubSeq(outputBuffer[c], 1, n)
        /\ outputBuffer'[c] = SubSeq(outputBuffer[c], n + 1, Len(outputBuffer[c]))
        /\ \A d \in Conns \ {c} : wire'[d] = wire[d] /\ outputBuffer'[d] = outputBuffer[d]
    BY <1>1, <1>3 DEF DataTypes
  <2>2. n \in 0..Len(outputBuffer[c])
    BY <1>1, LenProperties
  <2>3. wire'[c] \o outputBuffer'[c] = Stream(c)
    <3> DEFINE w == wire[c]
               o == outputBuffer[c]
    <3>1. w \in Seq(Bytes) /\ o \in Seq(Bytes) /\ n \in 0..Len(o)
      BY <1>1, <2>2
    <3> HIDE DEF w, o
    <3>2. (w \o SubSeq(o, 1, n)) \o SubSeq(o, n + 1, Len(o)) = w \o o
      BY <3>1, WrittenThrough
    <3>3. QED
      BY <2>1, <3>2 DEF w, o, Stream
  <2>4. QED
    BY <2>1, <2>3 DEF Stream
<1>4. QED
  BY <1>2, <1>3, Zenon DEF HandleWrite

------------------------------------------------------------------------------
(* The messages on their way to the stream.                                *)

\* The sender of the message that a functor sendInLoop carries, and its number.
From(f)   == f.data[1][1]
Number(f) == f.data[1][2]

\* All of the stream t that comes from s is older than its message k.
Behind(t, s, k) == \A i \in 1..Len(t) : t[i][1] = s => t[i][2] < k

StreamInv ==
  \A c \in Conns :
    /\ Ordered(Stream(c)) /\ Whole(Stream(c))
    /\ \A i \in 1..Len(Stream(c)) : Stream(c)[i][2] <= sends[Stream(c)[i][1]]

\* A message that waits is one that was sent, and newer than what its
\* connection has of the sender ...
Sendable(f) ==
  /\ From(f) \in Senders /\ Number(f) \in 1..sends[From(f)]
  /\ f.data = Msg(From(f), Number(f))
  /\ Behind(Stream(f.conn), From(f), Number(f))

SendableInv == \A l \in Loops, f \in Functors : Awaits(l, f) /\ f.op = "send" => Sendable(f)

\* ... and older than those of its sender behind it.
SendOrder ==
  \A l \in Loops, f, g \in Functors :
    Before(l, f, g) /\ f.op = "send" /\ g.op = "send" /\ From(f) = From(g) => Number(f) < Number(g)

SentInv == StreamInv /\ SendableInv /\ SendOrder

\* The bytes of a stream have senders and numbers.
LEMMA StreamType ==
  ASSUME TypeOK, NEW c \in Conns
  PROVE  /\ Stream(c) \in Seq(Bytes) /\ Len(Stream(c)) \in Nat
         /\ \A i \in 1..Len(Stream(c)) :
              /\ Stream(c)[i][1] \in Loops \cup Senders
              /\ Stream(c)[i][2] \in 1..MaxSends
<1>1. wire[c] \in Seq(Bytes) /\ outputBuffer[c] \in Seq(Bytes)
  BY TypeParts DEF DataTypes
<1>2. Stream(c) \in Seq(Bytes)
  BY <1>1, ConcatProperties DEF Stream
<1>3. Len(Stream(c)) \in Nat /\ \A i \in 1..Len(Stream(c)) : Stream(c)[i] \in Bytes
  BY <1>2, LenProperties, ElementOfSeq
<1>4. QED
  BY <1>2, <1>3 DEF Bytes

\* At first nothing was sent.
LEMMA SentInit == ASSUME Init, CoreInv PROVE SentInv
<1>1. \A c \in Conns : Len(Stream(c)) = 0
  BY DEF Init, TcpInit, Stream
<1>2. StreamInv
  BY <1>1 DEF StreamInv, Ordered, Whole
<1>3. \A l \in Loops, f \in Functors : ~Awaits(l, f)
  BY AwaitsWhere DEF CoreInv, Init, TcpInit
<1>4. \A l \in Loops : Len(Todo(l)) = 0
  BY TodoElements DEF CoreInv, Init, TcpInit
<1>5. QED
  BY <1>2, <1>3, <1>4 DEF SentInv, SendableInv, SendOrder, Before

\* What a message behind the stream of c does to the streams.
LEMMA StreamGrows ==
  ASSUME TypeOK, StreamInv, NEW c \in Conns, NEW s \in Loops \cup Senders, NEW k \in 1..MaxSends,
         \A d \in Conns : Stream(d)' = IF d = c THEN Stream(d) \o Msg(s, k) ELSE Stream(d),
         Behind(Stream(c), s, k), k <= sends'[s],
         \A r \in Loops \cup Senders : sends[r] \in Nat /\ sends'[r] \in Nat /\ sends[r] <= sends'[r]
  PROVE  /\ StreamInv'
         /\ \A r, n : \A d \in Conns : Behind(Stream(d), r, n) /\ (d = c /\ r = s => k < n)
                                     => Behind(Stream(d)', r, n)
<1> DEFINE t == Stream(c)
           u == t \o Msg(s, k)
<1>1. t \in Seq(Bytes) /\ Ordered(t) /\ Whole(t) /\ \A i \in 1..Len(t) : t[i][1] = s => t[i][2] < k
  BY StreamType DEF StreamInv, Behind
<1>2. /\ Ordered(u) /\ Whole(u)
      /\ \A i \in 1..Len(u) : \/ i \in 1..Len(t) /\ u[i] = t[i]
                              \/ u[i][1] = s /\ u[i][2] = k
  <2> HIDE DEF t
  <2>1. QED
    BY <1>1, AppendMessage
<1>3. Stream(c)' = u /\ \A d \in Conns \ {c} : Stream(d)' = Stream(d)
  OBVIOUS
<1>4. /\ \A i \in 1..Len(t) : /\ t[i][1] \in Loops \cup Senders /\ t[i][2] \in Nat
                              /\ t[i][2] <= sends[t[i][1]]
      /\ k \in Nat
  BY StreamType, SendAssumption DEF StreamInv
<1>5. ASSUME NEW d \in Conns
      PROVE  /\ Ordered(Stream(d)') /\ Whole(Stream(d)')
             /\ \A i \in 1..Len(Stream(d)') : Stream(d)'[i][2] <= sends'[Stream(d)'[i][1]]
  <2>1. CASE d = c
    <3>1. \A i \in 1..Len(u) : u[i][2] <= sends'[u[i][1]]
      <4> HIDE DEF t, u
      <4> TAKE i \in 1..Len(u)
      <4>1. CASE i \in 1..Len(t) /\ u[i] = t[i]
        <5>1. PICK r \in Loops \cup Senders, n \in Nat : r = t[i][1] /\ n = t[i][2] /\ n <= sends[r]
          BY <1>4, <4>1
        <5>2. PICK a \in Nat, b \in Nat : a = sends[r] /\ b = sends'[r] /\ a <= b
          BY <5>1
        <5>3. u[i][1] = r /\ u[i][2] = t[i][2]
          BY <4>1, <5>1
        <5>4. n <= b
          <6>1. n <= a
            BY <5>1, <5>2
          <6>2. a <= b
            BY <5>2
          <6>3. QED
            BY <6>1, <6>2
        <5>5. QED
          BY <5>1, <5>2, <5>3, <5>4
      <4>2. CASE u[i][1] = s /\ u[i][2] = k
        BY <4>2
      <4>3. QED
        BY <1>2, <4>1, <4>2
    <3>2. Stream(d)' = u
      BY <1>3, <2>1
    <3> HIDE DEF u
    <3>3. QED
      BY <1>2, <3>1, <3>2
  <2>2. CASE d # c
    <3> DEFINE v == Stream(d)
    <3>1. Stream(d)' = v
      BY <1>3, <2>2
    <3>2. /\ Ordered(v) /\ Whole(v)
          /\ \A i \in 1..Len(v) : v[i][1] \in Loops \cup Senders /\ v[i][2] \in Nat
                                  /\ v[i][2] <= sends[v[i][1]]
      BY StreamType, SendAssumption DEF StreamInv
    <3> HIDE DEF v
    <3>3. \A i \in 1..Len(v) : v[i][2] <= sends'[v[i][1]]
      <4> TAKE i \in 1..Len(v)
      <4>1. PICK r \in Loops \cup Senders, n \in Nat : r = v[i][1] /\ n = v[i][2] /\ n <= sends[r]
        BY <3>2
      <4>2. PICK a \in Nat, b \in Nat : a = sends[r] /\ b = sends'[r] /\ a <= b
        BY <4>1
      <4>3. n <= b
        <5>1. n <= a
          BY <4>1, <4>2
        <5>2. a <= b
          BY <4>2
        <5>3. QED
          BY <5>1, <5>2
      <4>4. QED
        BY <4>1, <4>2, <4>3
    <3>4. QED
      BY <3>1, <3>2, <3>3
  <2>3. QED
    BY <2>1, <2>2
<1>6. ASSUME NEW d \in Conns, NEW r, NEW n, Behind(Stream(d), r, n), d = c /\ r = s => k < n
      PROVE  Behind(Stream(d)', r, n)
  <2>1. CASE d = c
    <3>1. Behind(u, r, n)
      <4> HIDE DEF u
      <4>1. QED
        BY <1>2, <1>6, <2>1 DEF Behind
    <3>2. QED
      BY <1>3, <2>1, <3>1
  <2>2. CASE d # c
    BY <1>3, <1>6, <2>2
  <2>3. QED
    BY <2>1, <2>2
<1>7. StreamInv'
  BY <1>5 DEF StreamInv
<1>8. QED
  BY <1>6, <1>7

\* Steps that neither write nor queue a message.
LEMMA SentKept ==
  ASSUME TypeOK, BatchInv, SentInv, NEW T, NEW F, Evolve(T, F), UNCHANGED sends,
         \A d \in Conns : Stream(d)' = Stream(d),
         \A l \in Loops, f \in Functors : <<l, f>> \in F => f.op # "send"
  PROVE  SentInv'
<1>1. StreamInv'
  BY DEF SentInv, StreamInv
<1>2. ASSUME NEW l \in Loops, NEW f \in Functors, Awaits(l, f)', f.op = "send"
      PROVE  Sendable(f)'
  <2>1. Awaits(l, f)
    BY <1>2, AwaitsFrom
  <2>2. Sendable(f) /\ f.conn \in Conns
    BY <1>2, <2>1 DEF SentInv, SendableInv, Functors
  <2>3. QED
    BY <2>2 DEF Sendable
<1>3. ASSUME NEW l \in Loops, NEW f \in Functors, NEW g \in Functors, Before(l, f, g)',
             f.op = "send", g.op = "send", From(f) = From(g)
      PROVE  Number(f) < Number(g)
  <2>1. Before(l, f, g)
    BY <1>3, BeforeFrom
  <2>2. QED
    BY <1>3, <2>1 DEF SentInv, SendOrder
<1>4. QED
  BY <1>1, <1>2, <1>3 DEF SentInv, SendableInv, SendOrder

\* A queued message comes behind the older ones of its sender.
LEMMA RunSendSent ==
  ASSUME CoreInv, SentInv, TypeOK', NEW l \in Loops, NEW c \in Conns, RunSend(l, c)
  PROVE  SentInv'
<1>1. PICK F \in WriteCompletes(c) : Evolve({l}, F) /\ Todo(l)[1].op = "send" /\ Todo(l)[1].conn = c
                                     /\ Todo(l)[1] = batch[l][next[l]]
  BY EvolveRunSend DEF CoreInv
<1>2. TypeOK /\ BatchInv /\ UNCHANGED sends
  <2>1. UNCHANGED sends
    BY Zenon DEF RunSend, userVars
  <2>2. QED
    BY <2>1 DEF CoreInv
<1>3. \A k \in Loops, f \in Functors : <<k, f>> \in F => f.op # "send"
  BY <1>1 DEF WriteCompletes, Functor
<1>4. CASE ~Alive(c)
  <2>1. \A d \in Conns : Stream(d)' = Stream(d)
    <3>1. UNCHANGED <<wire, outputBuffer>>
      BY <1>4, Zenon DEF RunSend
    <3>2. QED
      BY <3>1 DEF Stream
  <2>2. QED
    BY <1>1, <1>2, <1>3, <2>1, SentKept
<1>5. CASE Alive(c)
  <2> DEFINE h == Todo(l)[1]
             T == {l}
  <2>1. h \in Functors /\ Awaits(l, h) /\ h.op = "send" /\ h.conn = c
    <3>1. Evolve(T, F) /\ l \in T
      BY <1>1
    <3> HIDE DEF T
    <3>2. QED
      BY <1>1, <1>2, <3>1, HeadAwaits
  <2>2. Sendable(h) /\ FunctorOK(l, h)
    BY <2>1 DEF SentInv, SendableInv, CoreInv, FunctorInv
  <2>3. PICK s \in Senders, k \in Nat :
          k \in 1..sends[s] /\ s = From(h) /\ k = Number(h) /\ h.data = Msg(s, k) /\ Behind(Stream(c), s, k)
    BY <2>1, <2>2 DEF Sendable
  <2>4. \A r \in Loops \cup Senders : sends[r] \in 0..MaxSends
    BY <1>2, TypeParts DEF CallTypes
  <2>5. k \in 1..MaxSends /\ k \in Nat /\ k <= sends'[s]
    BY <1>2, <2>3, <2>4, SendAssumption
  <2>6. SendInLoop(c, Msg(s, k))
    BY <1>1, <1>5, <2>3 DEF RunSend
  <2>7. \A d \in Conns : Stream(d)' = IF d = c THEN Stream(d) \o Msg(s, k) ELSE Stream(d)
    BY <1>2, <2>5, <2>6, SendStreams, MessageBytes
  <2>8. \A r \in Loops \cup Senders : sends[r] \in Nat /\ sends'[r] \in Nat /\ sends[r] <= sends'[r]
    BY <1>2, <2>4, SendAssumption
  <2>9. /\ StreamInv'
        /\ \A r, n : \A d \in Conns : Behind(Stream(d), r, n) /\ (d = c /\ r = s => k < n)
                                    => Behind(Stream(d)', r, n)
    BY SMTT(60), <1>2, <2>3, <2>5, <2>7, <2>8, StreamGrows DEF SentInv
  <2>10. ASSUME NEW m \in Loops, NEW g \in Functors, Awaits(m, g)', g.op = "send"
         PROVE  Sendable(g)'
    <3>1. Awaits(m, g)
      BY <1>1, <1>2, <1>3, <2>10, AwaitsFrom
    <3>2. Sendable(g) /\ FunctorOK(m, g) /\ g.conn \in Conns
      BY <2>10, <3>1 DEF SentInv, SendableInv, CoreInv, FunctorInv, Functors
    <3>3. ASSUME g.conn = c, From(g) = s
          PROVE  k < Number(g)
      <4>1. m = l
        BY <2>1, <2>2, <2>10, <3>2, <3>3 DEF FunctorOK
      <4>2. Before(l, h, g)
        <5>1. Evolve(T, F) /\ l \in T /\ Awaits(l, g)' /\ <<l, g>> \notin F
          BY <1>1, <1>3, <2>10, <4>1
        <5> HIDE DEF T
        <5>2. QED
          BY <1>2, <5>1, HeadBefore
      <4>3. QED
        BY <2>1, <2>3, <2>10, <3>3, <4>2 DEF SentInv, SendOrder
    <3>4. Behind(Stream(g.conn)', From(g), Number(g))
      BY <2>9, <3>2, <3>3 DEF Sendable
    <3>5. QED
      BY <1>2, <3>2, <3>4 DEF Sendable
  <2>11. ASSUME NEW m \in Loops, NEW f \in Functors, NEW g \in Functors, Before(m, f, g)',
                f.op = "send", g.op = "send", From(f) = From(g)
         PROVE  Number(f) < Number(g)
    <3>1. Before(m, f, g)
      BY <1>1, <1>2, <1>3, <2>11, BeforeFrom
    <3>2. QED
      BY <2>11, <3>1 DEF SentInv, SendOrder
  <2>12. QED
    BY <2>9, <2>10, <2>11 DEF SentInv, SendableInv, SendOrder
<1>6. QED
  BY <1>4, <1>5

\* A message sent in a callback is newer than what the stream has of its loop.
LEMMA LoopSendSent ==
  ASSUME CoreInv, SentInv, TypeOK', NEW l \in Loops, LoopSend(l)
  PROVE  SentInv'
<1>1. TypeOK /\ BatchInv
  BY DEF CoreInv
<1>2. PICK c \in Conns : c = user[l]
  BY <1>1, TypeParts DEF LoopSend, LoopTypes
<1>3. PICK F \in WriteCompletes(c) : Evolve({}, F)
  BY <1>1, <1>2, EvolveLoopSend
<1>4. \A m \in Loops, f \in Functors : <<m, f>> \in F => f.op # "send"
  BY <1>3 DEF WriteCompletes, Functor
<1>5. /\ \A r \in Loops \cup Senders : sends[r] \in 0..MaxSends
      /\ sends' = [sends EXCEPT ![l] = @ + 1] /\ sends[l] < MaxSends
      /\ sends \in [Loops \cup Senders -> 0..MaxSends]
  BY <1>1, TypeParts DEF CallTypes, LoopSend
<1>6. PICK k \in 1..MaxSends : k = sends[l] + 1
  BY <1>5, SendAssumption
<1>7. /\ sends'[l] = k /\ \A r \in Senders : sends'[r] = sends[r]
      /\ \A r \in Loops \cup Senders : sends[r] \in Nat /\ sends'[r] \in Nat /\ sends[r] <= sends'[r]
  <2>1. sends'[l] = k
    BY <1>5, <1>6
  <2>2. \A r \in Loops \cup Senders : r # l => sends'[r] = sends[r]
    BY <1>5
  <2>3. \A r \in Senders : sends'[r] = sends[r]
    BY <2>2, SendersAssumption
  <2>4. \A r \in Loops \cup Senders : sends[r] \in Nat
    BY <1>5, SendAssumption
  <2>5. ASSUME NEW r \in Loops \cup Senders
        PROVE  sends'[r] \in Nat /\ sends[r] <= sends'[r]
    <3>1. CASE r = l
      BY <1>6, <2>1, <2>4, <3>1
    <3>2. CASE r # l
      BY <2>2, <2>4, <3>2
    <3>3. QED
      BY <3>1, <3>2
  <2>6. QED
    BY <2>1, <2>3, <2>4, <2>5
<1>8. Message(l) = Msg(l, k)
  BY <1>6 DEF Message, Msg
<1>9. \A d \in Conns : Stream(d)' = IF d = c THEN Stream(d) \o Msg(l, k) ELSE Stream(d)
  <2>1. SendInLoop(c, Msg(l, k))
    BY <1>2, <1>8 DEF LoopSend
  <2>2. Msg(l, k) \in Seq(Bytes)
    BY MessageBytes
  <2>3. QED
    BY <1>1, <2>1, <2>2, SendStreams
<1>10. Behind(Stream(c), l, k)
  <2> SUFFICES ASSUME NEW i \in 1..Len(Stream(c)), Stream(c)[i][1] = l
               PROVE  Stream(c)[i][2] < k
    BY DEF Behind
  <2>1. PICK n \in Nat : n = Stream(c)[i][2]
    BY <1>1, StreamType, SendAssumption
  <2>2. n <= sends[l]
    BY <2>1 DEF SentInv, StreamInv
  <2>3. PICK a \in Nat : a = sends[l]
    BY <1>7
  <2>4. n <= a /\ k = a + 1
    BY <1>6, <2>2, <2>3
  <2>5. n < k
    BY <2>4
  <2>6. QED
    BY <2>1, <2>5
<1>11. /\ StreamInv'
       /\ \A r, n : \A d \in Conns : Behind(Stream(d), r, n) /\ (d = c /\ r = l => k < n)
                                   => Behind(Stream(d)', r, n)
  <2>1. k <= sends'[l]
    BY <1>7
  <2>2. QED
    BY <1>1, <1>7, <1>9, <1>10, <2>1, StreamGrows DEF SentInv
<1>12. ASSUME NEW m \in Loops, NEW g \in Functors, Awaits(m, g)', g.op = "send"
       PROVE  Sendable(g)'
  <2>1. Awaits(m, g)
    BY <1>1, <1>3, <1>4, <1>12, AwaitsFrom
  <2>2. Sendable(g) /\ g.conn \in Conns
    BY <1>12, <2>1 DEF SentInv, SendableInv, Functors
  <2>3. From(g) # l /\ sends'[From(g)] = sends[From(g)]
    BY <1>7, <2>2, SendersAssumption DEF Sendable
  <2>4. Behind(Stream(g.conn)', From(g), Number(g))
    BY <1>11, <2>2, <2>3 DEF Sendable
  <2>5. QED
    BY <2>2, <2>3, <2>4 DEF Sendable
<1>13. ASSUME NEW m \in Loops, NEW f \in Functors, NEW g \in Functors, Before(m, f, g)',
              f.op = "send", g.op = "send", From(f) = From(g)
       PROVE  Number(f) < Number(g)
  <2>1. Before(m, f, g)
    BY <1>1, <1>3, <1>4, <1>13, BeforeFrom
  <2>2. QED
    BY <1>13, <2>1 DEF SentInv, SendOrder
<1>14. QED
  BY <1>11, <1>12, <1>13 DEF SentInv, SendableInv, SendOrder

\* A message is queued behind the older ones of its thread.
LEMMA SendQueuesSent ==
  ASSUME CoreInv, SentInv, TypeOK', NEW s \in Senders, SendQueues(s)
  PROVE  SentInv'
<1>1. TypeOK /\ BatchInv /\ CallInv
  BY DEF CoreInv
<1>2. PICK l, n : n \in Functors /\ l = loopOf[call[s].conn] /\ n = Sending(s) /\ Evolve({}, {<<l, n>>})
  <2>1. Sending(s) \in Functors /\ Evolve({}, {<<loopOf[call[s].conn], Sending(s)>>})
    BY <1>1, EvolveSendQueues
  <2>2. QED
    BY <2>1, Zenon
<1>3. /\ \A r \in Loops \cup Senders : sends[r] \in 0..MaxSends
      /\ sends' = [sends EXCEPT ![s] = @ + 1] /\ sends[s] < MaxSends
      /\ sends \in [Loops \cup Senders -> 0..MaxSends]
  BY <1>1, TypeParts DEF CallTypes, SendQueues, CallInv
<1>4. PICK k \in 1..MaxSends : k = sends[s] + 1
  BY <1>3, SendAssumption
<1>5. /\ sends'[s] = k /\ k \in Nat /\ k >= 1
      /\ \A r \in Loops \cup Senders : r # s => sends'[r] = sends[r]
      /\ \A r \in Loops \cup Senders : sends[r] \in Nat /\ sends'[r] \in Nat /\ sends[r] <= sends'[r]
  <2>1. sends'[s] = k /\ k \in Nat /\ k >= 1
    BY <1>3, <1>4
  <2>2. \A r \in Loops \cup Senders : r # s => sends'[r] = sends[r]
    BY <1>3
  <2>3. \A r \in Loops \cup Senders : sends[r] \in Nat
    BY <1>3, SendAssumption
  <2>4. ASSUME NEW r \in Loops \cup Senders
        PROVE  sends'[r] \in Nat /\ sends[r] <= sends'[r]
    <3>1. CASE r = s
      BY <1>4, <2>1, <2>3, <3>1
    <3>2. CASE r # s
      BY <2>2, <2>3, <3>2
    <3>3. QED
      BY <3>1, <3>2
  <2>5. QED
    BY <2>1, <2>2, <2>3, <2>4
<1>6. n.data = Msg(s, k) /\ From(n) = s /\ Number(n) = k /\ n.op = "send" /\ n.conn \in Conns
  <2>1. n.data = Msg(s, k) /\ n.op = "send"
    BY <1>2, <1>4 DEF Sending, Message, Msg
  <2>2. 1 \in 1..MsgLen /\ Msg(s, k)[1] = <<s, k, 1>>
    BY MessageBytes, SendAssumption
  <2>3. QED
    BY <1>2, <2>1, <2>2 DEF From, Number, Functors
<1>7. \A d \in Conns : Stream(d)' = Stream(d)
  BY DEF SendQueues, Stream, connVars, sockVars
<1>8. ASSUME NEW d \in Conns, NEW i \in 1..Len(Stream(d))
      PROVE  /\ Stream(d)[i][2] <= sends'[Stream(d)[i][1]]
             /\ Stream(d)[i][1] = s => Stream(d)[i][2] < k
  <2>1. PICK r \in Loops \cup Senders, m \in Nat : r = Stream(d)[i][1] /\ m = Stream(d)[i][2]
    BY <1>1, StreamType, SendAssumption
  <2>2. m <= sends[r]
    BY <2>1 DEF SentInv, StreamInv
  <2>3. PICK a \in Nat, b \in Nat : a = sends[r] /\ b = sends'[r] /\ a <= b
    BY <1>5
  <2>4. m <= a
    BY <2>2, <2>3
  <2>5. m <= b /\ (k = a + 1 => m < k)
    <3>1. a <= b
      BY <2>3
    <3>2. QED
      BY <2>4, <3>1
  <2>6. r = s => k = a + 1
    BY <1>4, <2>3
  <2>7. QED
    BY <2>1, <2>3, <2>5, <2>6
<1>9. StreamInv'
  BY <1>7, <1>8 DEF SentInv, StreamInv
<1>10. ASSUME NEW m \in Loops, NEW f \in Functors, Awaits(m, f), f.op = "send"
       PROVE  Sendable(f)' /\ (From(f) = s => Number(f) < k)
  <2>1. Sendable(f) /\ f.conn \in Conns
    BY <1>10 DEF SentInv, SendableInv, Functors
  <2>2. PICK r \in Senders, j \in Nat : j \in 1..sends[r] /\ r = From(f) /\ j = Number(f)
    BY <2>1 DEF Sendable
  <2>3. PICK a \in Nat, b \in Nat : a = sends[r] /\ b = sends'[r] /\ a <= b
    BY <1>5
  <2>4. j \in 1..a
    BY <2>2, <2>3
  <2>5. j \in 1..b /\ (k = a + 1 => j < k)
    <3>1. a <= b
      BY <2>3
    <3>2. QED
      BY <2>4, <3>1
  <2>6. r = s => k = a + 1
    BY <1>4, <2>3
  <2>7. j \in 1..sends'[r]
    BY <2>3, <2>5
  <2>8. QED
    BY <1>7, <2>1, <2>2, <2>5, <2>6, <2>7 DEF Sendable
<1>11. Sendable(n)'
  <2>1. Behind(Stream(n.conn), s, k)
    BY <1>6, <1>8 DEF Behind
  <2>2. k \in 1..sends'[s]
    BY <1>5
  <2>3. QED
    BY <1>6, <1>7, <2>1, <2>2 DEF Sendable
<1>12. ASSUME NEW m \in Loops, NEW f \in Functors, Awaits(m, f)', f.op = "send"
       PROVE  Sendable(f)'
  <2>1. Awaits(m, f) \/ f = n
    <3> DEFINE F == {<<l, n>>}
    <3>1. Evolve({}, F) /\ (<<m, f>> \in F => f = n)
      BY <1>2
    <3> HIDE DEF F
    <3>2. QED
      BY <1>1, <1>12, <3>1, AwaitsFrom
  <2>2. QED
    BY <1>10, <1>11, <1>12, <2>1
<1>13. ASSUME NEW m \in Loops, NEW f \in Functors, NEW g \in Functors, Before(m, f, g)',
              f.op = "send", g.op = "send", From(f) = From(g)
       PROVE  Number(f) < Number(g)
  <2>1. Before(m, f, g) \/ (Awaits(m, f) /\ g = n)
    <3> DEFINE F == {<<l, n>>}
    <3>1. Evolve({}, F) /\ (<<m, g>> \in F => g = n)
      BY <1>2
    <3> HIDE DEF F
    <3>2. QED
      BY <1>1, <1>13, <3>1, BeforeFrom
  <2>2. CASE Before(m, f, g)
    BY <1>13, <2>2 DEF SentInv, SendOrder
  <2>3. CASE Awaits(m, f) /\ g = n
    BY <1>6, <1>10, <1>13, <2>3
  <2>4. QED
    BY <2>1, <2>2, <2>3
<1>14. QED
  BY <1>9, <1>12, <1>13 DEF SentInv, SendableInv, SendOrder

\* The invariant of the messages is inductive.
LEMMA SentStep ==
  ASSUME CoreInv, TypeOK', SentInv, [Next]_vars
  PROVE  SentInv'
<1>0. TypeOK /\ BatchInv
  BY DEF CoreInv
<1>01. ASSUME NEW T, NEW F, Evolve(T, F), UNCHANGED <<sends, wire, outputBuffer>>,
              \A l \in Loops, f \in Functors : <<l, f>> \in F => f.op # "send"
       PROVE  SentInv'
  <2>1. \A d \in Conns : Stream(d)' = Stream(d)
    BY <1>01 DEF Stream
  <2>2. QED
    BY <1>0, <1>01, <2>1, SentKept
<1>1. CASE Bystander
  <2>1. Evolve({}, {}) /\ UNCHANGED <<sends, wire, outputBuffer>>
    BY <1>1, <1>0, EvolveBystander DEF Bystander
  <2>2. QED
    BY <1>01, <2>1
<1>2. ASSUME NEW c \in Conns, Accept(c)
      PROVE  SentInv'
  <2>1. Evolve({}, IF NextLoop = Base THEN {} ELSE {<<NextLoop, Functor("established", c)>>})
    BY <1>2, <1>0, EvolveAccept
  <2>2. UNCHANGED <<sends, wire, outputBuffer>>
    BY <1>2 DEF Accept, sockVars
  <2>3. QED
    BY <1>01, <2>1, <2>2 DEF Functor
<1>3. ASSUME NEW l \in Loops, NEW c \in Conns, HandleWrite(l, c), UNCHANGED serverVars
      PROVE  SentInv'
  <2>1. PICK F \in WriteCompletes(c) : Evolve({}, F)
    BY <1>3, <1>0, EvolveWrite
  <2>2. UNCHANGED sends
    BY <1>3 DEF HandleWrite, userVars
  <2>3. \A d \in Conns : Stream(d)' = Stream(d)
    BY <1>3, <1>0, WriteStreams
  <2>4. \A k \in Loops, f \in Functors : <<k, f>> \in F => f.op # "send"
    BY <2>1 DEF WriteCompletes, Functor
  <2>5. QED
    BY <1>0, <2>1, <2>2, <2>3, <2>4, SentKept
<1>4. ASSUME NEW l \in Loops, NEW c \in Conns, HandleClose(l, c)
      PROVE  SentInv'
  <2>1. Evolve({}, Closing(l, c))
    BY <1>4, <1>0, EvolveClose
  <2>2. UNCHANGED <<sends, wire, outputBuffer>>
    BY <1>4 DEF HandleClose, CloseConnection, sockVars, userVars
  <2>3. QED
    BY <1>01, <2>1, <2>2 DEF Functor, Closing
<1>5. ASSUME NEW l \in Loops, SwapFunctors(l)
      PROVE  SentInv'
  <2>1. Evolve({}, {})
    BY <1>5, <1>0, EvolveSwap
  <2>2. UNCHANGED <<sends, wire, outputBuffer>>
    BY <1>5 DEF SwapFunctors, connVars, sockVars, userVars
  <2>3. QED
    BY <1>01, <2>1, <2>2
<1>6. ASSUME NEW l \in Loops, NEW c \in Conns, RunEstablished(l, c)
      PROVE  SentInv'
  <2>1. Evolve({l}, {})
    BY <1>6, <1>0, EvolveQuietRun DEF RunEstablished
  <2>2. UNCHANGED <<sends, wire, outputBuffer>>
    BY <1>6 DEF RunEstablished, connVars, sockVars, userVars
  <2>3. QED
    BY <1>01, <2>1, <2>2
<1>7. ASSUME NEW l \in Loops, NEW c \in Conns, RunDestroyed(l, c)
      PROVE  SentInv'
  <2>1. Evolve({l}, {})
    BY <1>7, <1>0, EvolveQuietRun DEF RunDestroyed
  <2>2. UNCHANGED <<sends, wire, outputBuffer>>
    BY <1>7 DEF RunDestroyed, connVars, sockVars, userVars
  <2>3. QED
    BY <1>01, <2>1, <2>2
<1>8. ASSUME NEW l \in Loops, NEW c \in Conns, RunRemove(l, c)
      PROVE  SentInv'
  <2>1. Evolve({l}, {<<loopOf[c], Functor("destroyed", c)>>})
    BY <1>8, <1>0, EvolveRemove
  <2>2. UNCHANGED <<sends, wire, outputBuffer>>
    BY <1>8 DEF RunRemove, connVars, sockVars, userVars
  <2>3. QED
    BY <1>01, <2>1, <2>2 DEF Functor
<1>9. ASSUME NEW l \in Loops, NEW c \in Conns, RunWriteComplete(l, c)
      PROVE  SentInv'
  <2>1. Evolve({l}, {})
    BY <1>9, <1>0, EvolveQuietRun DEF RunWriteComplete, connVars
  <2>2. UNCHANGED <<sends, wire, outputBuffer>>
    BY <1>9 DEF RunWriteComplete, connVars, sockVars, userVars
  <2>3. QED
    BY <1>01, <2>1, <2>2
<1>10. ASSUME NEW l \in Loops, NEW c \in Conns, RunSend(l, c)
      PROVE  SentInv'
  BY <1>10, RunSendSent
<1>11. ASSUME NEW l \in Loops, NEW c \in Conns, RunShutdown(l, c)
      PROVE  SentInv'
  <2>1. Runs(l, "shutdown", c) /\ UNCHANGED <<batch, pending, sends, wire, outputBuffer>>
    BY <1>11, Zenon DEF RunShutdown, connVars, userVars
  <2>2. Evolve({l}, {})
    BY <1>0, <2>1, EvolveQuietRun
  <2>3. QED
    BY <1>01, <2>1, <2>2
<1>12. ASSUME NEW l \in Loops, FunctorsDone(l)
      PROVE  SentInv'
  <2>1. Evolve({}, {})
    BY <1>12, <1>0, EvolveDone
  <2>2. UNCHANGED <<sends, wire, outputBuffer>>
    BY <1>12 DEF FunctorsDone, connVars, sockVars, userVars
  <2>3. QED
    BY <1>01, <2>1, <2>2
<1>13. ASSUME NEW l \in Loops, LoopSend(l)
      PROVE  SentInv'
  BY <1>13, LoopSendSent
<1>14. ASSUME NEW l \in Loops, LoopShutdown(l)
      PROVE  SentInv'
  <2>1. Evolve({}, {})
    BY <1>14, <1>0, EvolveBystander DEF LoopShutdown, loopVars
  <2>2. UNCHANGED <<sends, wire, outputBuffer>>
    BY <1>14 DEF LoopShutdown, userVars
  <2>3. QED
    BY <1>01, <2>1, <2>2
<1>15. ASSUME NEW s \in Senders, SendQueues(s)
      PROVE  SentInv'
  BY <1>15, SendQueuesSent
<1>16. ASSUME NEW s \in Senders, ShutdownSets(s)
      PROVE  SentInv'
  <2>1. Evolve({}, {})
    BY <1>16, <1>0, EvolveBystander DEF ShutdownSets, loopVars
  <2>2. UNCHANGED <<sends, wire, outputBuffer>>
    BY <1>16 DEF ShutdownSets, sockVars
  <2>3. QED
    BY <1>01, <2>1, <2>2
<1>17. ASSUME NEW s \in Senders, ShutdownQueues(s)
      PROVE  SentInv'
  <2>1. Evolve({}, {<<loopOf[call[s].conn], Functor("shutdown", call[s].conn)>>})
    BY <1>17, <1>0, EvolveShutdownQueues DEF CoreInv
  <2>2. UNCHANGED <<sends, wire, outputBuffer>>
    BY <1>17 DEF ShutdownQueues, connVars, sockVars
  <2>3. QED
    BY <1>01, <2>1, <2>2 DEF Functor
<1>18. QED
  BY <1>1, <1>2, <1>3, <1>4, <1>5, <1>6, <1>7, <1>8, <1>9, <1>10, <1>11, <1>12, <1>13, <1>14,
       <1>15, <1>16, <1>17, StepCases DEF Busy, CoreInv

\* What the peer receives are the messages sent, each whole and those of a
\* sender in its order: direct writes never overtake buffered bytes, partial
\* writes neither lose nor repeat any, whatever threads send and whenever
\* POLLOUT comes.
THEOREM StreamsAreIntact == Spec => []StreamIntact
<1>1. Spec => []SentInv
  <2>1. Init => SentInv
    BY CoreInit, SentInit
  <2>2. CoreInv /\ CoreInv' /\ SentInv /\ [Next]_vars => SentInv'
    BY SentStep DEF CoreInv
  <2>3. QED
    BY <2>1, <2>2, CoreHolds, PTL DEF Spec
<1>2. CoreInv /\ SentInv => StreamIntact
  <2> SUFFICES ASSUME CoreInv, SentInv, NEW c \in Conns
               PROVE  /\ \A i, j \in DOMAIN Stream(c) :
                           i < j /\ Stream(c)[i][1] = Stream(c)[j][1] =>
                             \/ Stream(c)[i][2] < Stream(c)[j][2]
                             \/ Stream(c)[i][2] = Stream(c)[j][2] /\ Stream(c)[i][3] < Stream(c)[j][3]
                      /\ \A i \in DOMAIN Stream(c) :
                           Stream(c)[i][3] < MsgLen =>
                             i + 1 \in DOMAIN Stream(c)
                             /\ Stream(c)[i + 1] = [Stream(c)[i] EXCEPT ![3] = @ + 1]
    BY DEF StreamIntact
  <2> DEFINE t == Stream(c)
  <2>1. DOMAIN t = 1..Len(t) /\ Ordered(t) /\ Whole(t)
    <3>1. t \in Seq(Bytes) /\ Ordered(t) /\ Whole(t)
      BY StreamType DEF CoreInv, SentInv, StreamInv
    <3>2. QED
      BY <3>1, LenProperties
  <2> HIDE DEF t
  <2>2. QED
    BY <2>1 DEF t, Ordered, Whole
<1>3. QED
  BY <1>1, <1>2, CoreHolds, PTL

------------------------------------------------------------------------------
(* Servers whose users call from callbacks only.                           *)

QuietFunctor(f) ==
  /\ f.op \notin {"send", "shutdown"}
  /\ f.op \in {"remove", "destroyed"} => state[f.conn] = "kDisconnected"

QuietFunctors == \A l \in Loops, f \in Functors : Awaits(l, f) => QuietFunctor(f)

\* Closed connections ask for no events, connections out of the map are closed.
ClosedInv ==
  \A c \in Conns :
    /\ state[c] = "kDisconnected" => events[c] = {}
    /\ loopOf[c] # NoLoop /\ c \notin connections => state[c] = "kDisconnected"

\* A closed connection still in the map is on its way to the base loop.
RemovalInv ==
  \A c \in Conns :
    c \in connections /\ state[c] = "kDisconnected" => Awaits(Base, Functor("remove", c))

\* Bytes wait for POLLOUT, and none wait when the write side is shut down.
OutputInv ==
  \A c \in Conns :
    /\ c \in wrShut => state[c] \in {"kDisconnecting", "kDisconnected"} /\ outputBuffer[c] = <<>>
    /\ outputBuffer[c] # <<>> /\ state[c] # "kDisconnected" => "write" \in events[c]

QuietInv == QuietFunctors /\ ClosedInv /\ RemovalInv /\ OutputInv

StaysClosed == \A c \in Conns : state[c] = "kDisconnected" => state'[c] = "kDisconnected"

\* At first no connection is closed.
LEMMA QuietInit == ASSUME Init, CoreInv PROVE QuietInv
<1>1. \A l \in Loops, f \in Functors : ~Awaits(l, f)
  BY AwaitsWhere DEF CoreInv, Init, TcpInit
<1>2. QED
  BY <1>1, SentinelAssumption
     DEF QuietInv, QuietFunctors, ClosedInv, RemovalInv, OutputInv, Init, TcpInit

\* The functors on the way out are for closed connections, which stay closed.
LEMMA QuietFunctorsKept ==
  ASSUME TypeOK, BatchInv, QuietFunctors, StaysClosed, NEW T, NEW F, Evolve(T, F),
         \A l \in Loops, f \in Functors : <<l, f>> \in F => QuietFunctor(f)'
  PROVE  QuietFunctors'
<1> SUFFICES ASSUME NEW l \in Loops, NEW f \in Functors, Awaits(l, f)'
             PROVE  QuietFunctor(f)'
  BY DEF QuietFunctors
<1>1. Awaits(l, f) \/ <<l, f>> \in F
  BY AwaitsFrom
<1>2. f.conn \in Conns
  BY DEF Functors
<1>3. QED
  BY <1>1, <1>2 DEF QuietFunctors, QuietFunctor, StaysClosed

\* A closed connection in the map keeps its functor to the base loop.
LEMMA RemovalKept ==
  ASSUME TypeOK, BatchInv, RemovalInv, NEW T, NEW F, Evolve(T, F),
         \A c \in Conns : c \in connections' /\ state'[c] = "kDisconnected" =>
           \/ <<Base, Functor("remove", c)>> \in F
           \/ /\ c \in connections /\ state[c] = "kDisconnected"
              /\ \A l \in T : Todo(l)[1] # Functor("remove", c)
  PROVE  RemovalInv'
<1> SUFFICES ASSUME NEW c \in Conns, c \in connections', state'[c] = "kDisconnected"
             PROVE  Awaits(Base, Functor("remove", c))'
  BY DEF RemovalInv
<1> DEFINE f == Functor("remove", c)
<1>1. f \in Functors /\ Base \in Loops
  BY FunctorType, PoolAssumption DEF Ops
<1>2. CASE <<Base, f>> \in F
  <2> HIDE DEF f
  <2>1. Awaits(Base, f)'
    BY <1>1, <1>2, AwaitsNew
  <2>2. QED
    BY <2>1 DEF f
<1>3. CASE c \in connections /\ state[c] = "kDisconnected" /\ \A l \in T : Todo(l)[1] # f
  <2>1. Awaits(Base, f)
    BY <1>3 DEF RemovalInv
  <2>2. \A l \in T : Todo(l)[1] # f
    BY <1>3
  <2> HIDE DEF f
  <2>3. Awaits(Base, f)'
    BY <1>1, <2>1, <2>2, AwaitsKept
  <2>4. QED
    BY <2>3 DEF f
<1>4. QED
  BY <1>2, <1>3

\* Steps that change neither the connections nor the map.
LEMMA QuietKept ==
  ASSUME TypeOK, BatchInv, QuietInv, NEW T, NEW F, Evolve(T, F),
         UNCHANGED <<loopOf, state, events, outputBuffer, wrShut, connections>>,
         \A l \in Loops, f \in Functors : <<l, f>> \in F => f.op \in {"writeComplete"},
         \A l \in T : Todo(l)[1].op # "remove"
  PROVE  QuietInv'
<1>1. StaysClosed
  BY DEF StaysClosed
<1>2. \A l \in Loops, f \in Functors : <<l, f>> \in F => QuietFunctor(f)'
  BY DEF QuietFunctor
<1>3. QuietFunctors'
  BY <1>1, <1>2, QuietFunctorsKept DEF QuietInv
<1>4. \A c \in Conns, l \in T : Todo(l)[1] # Functor("remove", c)
  BY DEF Functor
<1>5. RemovalInv'
  BY <1>4, RemovalKept DEF QuietInv
<1>6. ClosedInv' /\ OutputInv'
  BY DEF QuietInv, ClosedInv, OutputInv
<1>7. QED
  BY <1>3, <1>5, <1>6 DEF QuietInv

\* What sendInLoop() leaves behind.
LEMMA SendOutput ==
  ASSUME TypeOK, NEW c \in Conns, NEW data \in Seq(Bytes), SendInLoop(c, data)
  PROVE  outputBuffer'[c] # <<>> =>
           (outputBuffer[c] # <<>> /\ events'[c] = events[c]) \/ "write" \in events'[c]
<1>1. DataTypes /\ ConnTypes /\ Len(data) \in Nat
  BY TypeParts, LenProperties
<1>2. PICK n \in 0..Len(data) :
        /\ outputBuffer' = [outputBuffer EXCEPT ![c] = @ \o SubSeq(data, n + 1, Len(data))]
        /\ IF n < Len(data) /\ "write" \notin events[c]
             THEN Update(c, events[c] \cup {"write"})
             ELSE UNCHANGED <<events, registered, failed>>
  BY Zenon DEF SendInLoop
<1>3. CASE n < Len(data)
  <2>1. CASE "write" \in events[c]
    BY <1>2, <2>1
  <2>2. CASE "write" \notin events[c]
    <3>1. events' = [events EXCEPT ![c] = events[c] \cup {"write"}]
      BY <1>2, <1>3, <2>2 DEF Update
    <3>2. QED
      BY <1>1, <3>1 DEF ConnTypes
  <2>3. QED
    BY <2>1, <2>2
<1>4. CASE n = Len(data)
  <2>1. outputBuffer[c] \in Seq(Bytes) /\ outputBuffer'[c] = outputBuffer[c] \o SubSeq(data, n + 1, Len(data))
    BY <1>1, <1>2 DEF DataTypes
  <2>2. SubSeq(data, n + 1, Len(data)) = <<>>
    BY <1>1, <1>4, SubSeqEmpty
  <2>3. outputBuffer'[c] = outputBuffer[c]
    BY <2>1, <2>2, ConcatEmptySeq
  <2>4. events' = events
    BY <1>1, <1>2, <1>4
  <2>5. QED
    BY <2>3, <2>4
<1>5. QED
  BY <1>1, <1>2, <1>3, <1>4

\* What handleWrite() leaves behind.
LEMMA WriteOutput ==
  ASSUME TypeOK, NEW l \in Loops, NEW c \in Conns, HandleWrite(l, c)
  PROVE  \/ UNCHANGED <<events, registered, failed, outputBuffer>>
         \/ /\ "write" \in events[c] /\ outputBuffer[c] # <<>>
            /\ outputBuffer'[c] # <<>> => events' = events
            /\ \A d \in Conns \ {c} : outputBuffer'[d] = outputBuffer[d]
<1>1. DataTypes /\ outputBuffer[c] \in Seq(Bytes) /\ Len(outputBuffer[c]) \in Nat
  BY TypeParts, LenProperties DEF DataTypes
<1>2. CASE UNCHANGED <<events, registered, failed, outputBuffer>>
  BY <1>2
<1>3. ASSUME "write" \in events[c], NEW n \in 1..Len(outputBuffer[c]),
             outputBuffer' = [outputBuffer EXCEPT ![c] = SubSeq(@, n + 1, Len(@))],
             IF Empties(c, n) THEN Update(c, events[c] \ {"write"})
                              ELSE UNCHANGED <<events, registered, failed>>
      PROVE  /\ "write" \in events[c] /\ outputBuffer[c] # <<>>
             /\ outputBuffer'[c] # <<>> => events' = events
             /\ \A d \in Conns \ {c} : outputBuffer'[d] = outputBuffer[d]
  <2>1. outputBuffer[c] # <<>>
    BY <1>1, <1>3
  <2>2. /\ outputBuffer'[c] = SubSeq(outputBuffer[c], n + 1, Len(outputBuffer[c]))
        /\ \A d \in Conns \ {c} : outputBuffer'[d] = outputBuffer[d]
    BY <1>1, <1>3 DEF DataTypes
  <2>3. CASE Empties(c, n)
    <3>1. n = Len(outputBuffer[c])
      BY <2>3 DEF Empties
    <3>2. outputBuffer'[c] = <<>>
      BY <1>1, <2>2, <3>1, SubSeqEmpty
    <3>3. QED
      BY <1>3, <2>1, <2>2, <3>2
  <2>4. CASE ~Empties(c, n)
    BY <1>3, <2>1, <2>2, <2>4
  <2>5. QED
    BY <2>3, <2>4
<1>4. QED
  BY <1>2, <1>3, Zenon DEF HandleWrite

\* The invariant is inductive when no other thread calls send() or
\* shutdown(): no functor of theirs finds a connection that was closed.
LEMMA QuietStep ==
  ASSUME Senders = {}, CoreInv, CoreInv', QuietInv, [Next]_vars
  PROVE  QuietInv'
<1>0. TypeOK /\ TypeOK' /\ BatchInv /\ ConnTypes /\ DataTypes /\ Lasting
  BY TypeParts, LastingStep DEF CoreInv
<1>01. ASSUME NEW l \in Loops, NEW c \in Conns, NEW op, Runs(l, op, c)
       PROVE  /\ FunctorOK(l, Todo(l)[1]) /\ QuietFunctor(Todo(l)[1])
              /\ Todo(l)[1].op = op /\ Todo(l)[1].conn = c
  BY <1>01, AtHand DEF QuietInv, QuietFunctors
<1>02. ASSUME NEW T, NEW F, Evolve(T, F), StaysClosed, ClosedInv', OutputInv',
              \A l \in Loops, f \in Functors : <<l, f>> \in F => QuietFunctor(f)',
              \A c \in Conns : c \in connections' /\ state'[c] = "kDisconnected" =>
                \/ <<Base, Functor("remove", c)>> \in F
                \/ /\ c \in connections /\ state[c] = "kDisconnected"
                   /\ \A l \in T : Todo(l)[1] # Functor("remove", c)
       PROVE  QuietInv'
  BY <1>0, <1>02, QuietFunctorsKept, RemovalKept DEF QuietInv
<1>1. CASE Bystander
  <2>1. Evolve({}, {}) /\ UNCHANGED <<loopOf, state, events, outputBuffer, wrShut, connections>>
    BY <1>1, <1>0, EvolveBystander DEF Bystander
  <2>2. QED
    BY <1>0, <2>1, QuietKept
<1>2. ASSUME NEW c \in Conns, Accept(c)
      PROVE  QuietInv'
  <2> DEFINE F == IF NextLoop = Base THEN {} ELSE {<<NextLoop, Functor("established", c)>>}
  <2>1. Evolve({}, F)
    BY <1>2, <1>0, EvolveAccept
  <2>2. /\ loopOf[c] = NoLoop /\ state[c] = "none" /\ outputBuffer[c] = <<>>
        /\ state'[c] \in {"kConnecting", "kConnected"} /\ c \in connections'
        /\ UNCHANGED <<outputBuffer, wrShut>>
        /\ \A d \in Conns \ {c} : /\ state'[d] = state[d] /\ events'[d] = events[d]
                                  /\ loopOf'[d] = loopOf[d]
                                  /\ d \in connections' <=> d \in connections
    <3>1. loopOf[c] = NoLoop /\ state[c] = "none" /\ outputBuffer[c] = <<>>
      BY <1>2 DEF Accept, Backlog, CoreInv, ConnInv, Early
    <3>2. QED
      BY <1>2, <1>0, <3>1 DEF Accept, ConnectionEstablished, ConnTypes, sockVars
  <2>3. StaysClosed
    BY <2>2 DEF StaysClosed
  <2>4. ClosedInv' /\ OutputInv'
    BY <2>2 DEF QuietInv, ClosedInv, OutputInv
  <2>5. \A k \in Loops, f \in Functors : <<k, f>> \in F => QuietFunctor(f)'
    BY DEF Functor, QuietFunctor
  <2>6. \A d \in Conns : d \in connections' /\ state'[d] = "kDisconnected" =>
          d \in connections /\ state[d] = "kDisconnected"
    BY <2>2
  <2> HIDE DEF F
  <2>7. QED
    BY <1>02, <2>1, <2>3, <2>4, <2>5, <2>6
<1>3. ASSUME NEW l \in Loops, NEW c \in Conns, HandleWrite(l, c), UNCHANGED serverVars
      PROVE  QuietInv'
  <2>1. PICK F \in WriteCompletes(c) : Evolve({}, F)
    BY <1>3, <1>0, EvolveWrite
  <2>2. UNCHANGED <<loopOf, state, wrShut, connections>>
    BY <1>3 DEF HandleWrite, serverVars
  <2>3. Writes(c)
    BY <1>3, <1>0, WriteWrites
  <2>4. \/ UNCHANGED <<events, registered, failed, outputBuffer>>
        \/ /\ "write" \in events[c] /\ outputBuffer[c] # <<>>
           /\ outputBuffer'[c] # <<>> => events' = events
           /\ \A d \in Conns \ {c} : outputBuffer'[d] = outputBuffer[d]
    BY <1>3, <1>0, WriteOutput
  <2>5. StaysClosed /\ ClosedInv' /\ OutputInv'
    BY <2>2, <2>3, <2>4 DEF StaysClosed, Writes, QuietInv, ClosedInv, OutputInv
  <2>6. \A k \in Loops, f \in Functors : <<k, f>> \in F => QuietFunctor(f)'
    BY <2>1 DEF WriteCompletes, Functor, QuietFunctor
  <2>7. QED
    BY <1>02, <2>1, <2>2, <2>5, <2>6
<1>4. ASSUME NEW l \in Loops, NEW c \in Conns, HandleClose(l, c)
      PROVE  QuietInv'
  <2>1. Evolve({}, Closing(l, c))
    BY <1>4, <1>0, EvolveClose
  <2>2. /\ state'[c] = "kDisconnected" /\ events'[c] = {}
        /\ UNCHANGED <<loopOf, outputBuffer, wrShut>>
        /\ \A d \in Conns \ {c} : state'[d] = state[d] /\ events'[d] = events[d]
    BY <1>4, <1>0 DEF HandleClose, CloseConnection, sockVars, ConnTypes
  <2>3. \/ l = Base /\ connections' = connections \ {c}
        \/ l # Base /\ connections' = connections
    BY <1>4 DEF HandleClose, RemoveConnection, RemoveConnectionInLoop
  <2>4. StaysClosed /\ ClosedInv' /\ OutputInv'
    BY <2>2, <2>3 DEF StaysClosed, QuietInv, ClosedInv, OutputInv
  <2>5. \A k \in Loops, f \in Functors : <<k, f>> \in Closing(l, c) => QuietFunctor(f)'
    BY <2>2 DEF Closing, Functor, QuietFunctor
  <2>6. \A d \in Conns : d \in connections' /\ state'[d] = "kDisconnected" =>
          \/ <<Base, Functor("remove", d)>> \in Closing(l, c)
          \/ d \in connections /\ state[d] = "kDisconnected"
    BY <2>2, <2>3 DEF Closing
  <2>7. QED
    BY <1>02, <2>1, <2>4, <2>5, <2>6
<1>5. ASSUME NEW l \in Loops, SwapFunctors(l)
      PROVE  QuietInv'
  <2>1. Evolve({}, {})
    BY <1>5, <1>0, EvolveSwap
  <2>2. UNCHANGED <<loopOf, state, events, outputBuffer, wrShut, connections>>
    BY <1>5 DEF SwapFunctors, connVars, sockVars, serverVars
  <2>3. QED
    BY <1>0, <2>1, <2>2, QuietKept
<1>6. ASSUME NEW l \in Loops, NEW c \in Conns, RunEstablished(l, c)
      PROVE  QuietInv'
  <2>1. Runs(l, "established", c) /\ Evolve({l}, {})
    BY <1>6, <1>0, EvolveQuietRun DEF RunEstablished
  <2>2. Todo(l)[1].op = "established" /\ c \in connections /\ state[c] = "kConnecting"
    BY <1>01, <2>1 DEF FunctorOK
  <2>3. /\ state'[c] = "kConnected" /\ outputBuffer[c] = <<>>
        /\ UNCHANGED <<loopOf, outputBuffer, wrShut, connections>>
        /\ \A d \in Conns \ {c} : state'[d] = state[d] /\ events'[d] = events[d]
    BY <1>6, <1>0, <2>2 DEF RunEstablished, ConnectionEstablished, sockVars, serverVars,
         ConnTypes,
                           CoreInv, ConnInv, Early
  <2>4. StaysClosed /\ ClosedInv' /\ OutputInv'
    BY <2>2, <2>3 DEF StaysClosed, QuietInv, ClosedInv, OutputInv
  <2>5. \A d \in Conns : d \in connections' /\ state'[d] = "kDisconnected" =>
          d \in connections /\ state[d] = "kDisconnected"
    BY <2>2, <2>3
  <2>6. \A d \in Conns, k \in {l} : Todo(k)[1] # Functor("remove", d)
    BY <2>2 DEF Functor
  <2>7. QED
    BY <1>02, <2>1, <2>4, <2>5, <2>6
<1>7. ASSUME NEW l \in Loops, NEW c \in Conns, RunDestroyed(l, c)
      PROVE  QuietInv'
  <2>1. Runs(l, "destroyed", c) /\ Evolve({l}, {})
    BY <1>7, <1>0, EvolveQuietRun DEF RunDestroyed
  <2>2. Todo(l)[1].op = "destroyed" /\ state[c] = "kDisconnected"
    BY <1>01, <2>1 DEF QuietFunctor
  <2>3. UNCHANGED <<loopOf, state, events, outputBuffer, wrShut, connections>>
    BY <1>7, <2>2 DEF RunDestroyed, ConnectionDestroyed, sockVars, serverVars
  <2> DEFINE T == {l}
  <2>4. Evolve(T, {}) /\ \A k \in T : Todo(k)[1].op # "remove"
    BY <2>1, <2>2
  <2> HIDE DEF T
  <2>5. QED
    BY <1>0, <2>3, <2>4, QuietKept
<1>8. ASSUME NEW l \in Loops, NEW c \in Conns, RunRemove(l, c)
      PROVE  QuietInv'
  <2> DEFINE F == {<<loopOf[c], Functor("destroyed", c)>>}
  <2>1. Evolve({l}, F) /\ Runs(l, "remove", c)
    BY <1>8, <1>0, EvolveRemove DEF RunRemove
  <2>2. Todo(l)[1].conn = c /\ state[c] = "kDisconnected"
    BY <1>01, <2>1 DEF QuietFunctor
  <2>3. /\ UNCHANGED <<loopOf, state, events, outputBuffer, wrShut>>
        /\ connections' = connections \ {c}
    BY <1>8 DEF RunRemove, RemoveConnectionInLoop, connVars, sockVars
  <2>4. StaysClosed /\ ClosedInv' /\ OutputInv'
    BY <2>2, <2>3 DEF StaysClosed, QuietInv, ClosedInv, OutputInv
  <2>5. \A k \in Loops, f \in Functors : <<k, f>> \in F => QuietFunctor(f)'
    BY <2>2, <2>3 DEF Functor, QuietFunctor
  <2>6. \A d \in Conns : d \in connections' /\ state'[d] = "kDisconnected" =>
          /\ d \in connections /\ state[d] = "kDisconnected"
          /\ \A k \in {l} : Todo(k)[1] # Functor("remove", d)
    BY <2>2, <2>3 DEF Functor
  <2> HIDE DEF F
  <2>7. QED
    BY <1>02, <2>1, <2>4, <2>5, <2>6
<1>9. ASSUME NEW l \in Loops, NEW c \in Conns, RunWriteComplete(l, c)
      PROVE  QuietInv'
  <2>1. Evolve({l}, {})
    BY <1>9, <1>0, EvolveQuietRun DEF RunWriteComplete
  <2>2. UNCHANGED <<loopOf, state, events, outputBuffer, wrShut, connections>>
    BY <1>9 DEF RunWriteComplete, connVars, sockVars, serverVars
  <2>3. Todo(l)[1].op = "writeComplete"
    BY <1>9, <1>01 DEF RunWriteComplete
  <2> DEFINE T == {l}
  <2>4. Evolve(T, {}) /\ \A k \in T : Todo(k)[1].op # "remove"
    BY <2>1, <2>3
  <2> HIDE DEF T
  <2>5. QED
    BY <1>0, <2>2, <2>4, QuietKept
<1>10. ASSUME NEW l \in Loops, NEW c \in Conns, RunSend(l, c)
      PROVE  QuietInv'
  <2>1. Runs(l, "send", c)
    BY <1>10, Zenon DEF RunSend
  <2>2. QED
    BY <1>01, <2>1 DEF QuietFunctor
<1>11. ASSUME NEW l \in Loops, NEW c \in Conns, RunShutdown(l, c)
      PROVE  QuietInv'
  <2>1. Runs(l, "shutdown", c)
    BY <1>11, Zenon DEF RunShutdown
  <2>2. QED
    BY <1>01, <2>1 DEF QuietFunctor
<1>12. ASSUME NEW l \in Loops, FunctorsDone(l)
      PROVE  QuietInv'
  <2>1. Evolve({}, {})
    BY <1>12, <1>0, EvolveDone
  <2>2. UNCHANGED <<loopOf, state, events, outputBuffer, wrShut, connections>>
    BY <1>12 DEF FunctorsDone, connVars, sockVars, serverVars
  <2>3. QED
    BY <1>0, <2>1, <2>2, QuietKept
<1>13. ASSUME NEW l \in Loops, LoopSend(l)
      PROVE  QuietInv'
  <2>1. PICK c \in Conns : c = user[l]
    BY <1>13, <1>0, TypeParts DEF LoopSend, LoopTypes
  <2>2. PICK F \in WriteCompletes(c) : Evolve({}, F)
    BY <1>13, <1>0, <2>1, EvolveLoopSend
  <2>3. /\ UNCHANGED <<loopOf, state, wrShut, connections>>
        /\ state[c] = "kConnected" /\ SendInLoop(c, Message(l)) /\ sends[l] < MaxSends
    BY <1>13, <2>1 DEF LoopSend, serverVars
  <2>4. Message(l) \in Seq(Bytes)
    BY <1>0, <2>3, MessageType, TypeParts DEF CallTypes
  <2>5. Writes(c)
    BY <1>0, <2>3, SendWrites
  <2>6. outputBuffer'[c] # <<>> =>
          (outputBuffer[c] # <<>> /\ events'[c] = events[c]) \/ "write" \in events'[c]
    BY <1>0, <2>3, <2>4, SendOutput
  <2>7. StaysClosed /\ ClosedInv' /\ OutputInv'
    BY <2>3, <2>5, <2>6 DEF StaysClosed, Writes, QuietInv, ClosedInv, OutputInv
  <2>8. \A k \in Loops, f \in Functors : <<k, f>> \in F => QuietFunctor(f)'
    BY <2>2 DEF WriteCompletes, Functor, QuietFunctor
  <2>9. QED
    BY <1>02, <2>2, <2>3, <2>7, <2>8
<1>14. ASSUME NEW l \in Loops, LoopShutdown(l)
      PROVE  QuietInv'
  <2>1. PICK c \in Conns : c = user[l]
    BY <1>14, <1>0, TypeParts DEF LoopShutdown, LoopTypes
  <2>2. Evolve({}, {})
    BY <1>14, <1>0, EvolveBystander DEF LoopShutdown, loopVars
  <2>3. /\ state[c] = "kConnected" /\ state'[c] = "kDisconnecting"
        /\ UNCHANGED <<loopOf, events, outputBuffer, connections>>
        /\ \A d \in Conns \ {c} : state'[d] = state[d]
        /\ wrShut' = IF "write" \in events[c] THEN wrShut ELSE wrShut \cup {c}
    BY <1>14, <1>0, <2>1 DEF LoopShutdown, MayShutdown, ShutdownInLoop, serverVars, ConnTypes
  <2>4. StaysClosed /\ ClosedInv' /\ OutputInv'
    BY <2>3 DEF StaysClosed, QuietInv, ClosedInv, OutputInv
  <2>5. \A d \in Conns : d \in connections' /\ state'[d] = "kDisconnected" =>
          d \in connections /\ state[d] = "kDisconnected"
    BY <2>3
  <2>6. QED
    BY <1>02, <2>2, <2>4, <2>5
<1>15. ASSUME NEW s \in Senders, SendQueues(s)
      PROVE  QuietInv'
  BY <1>15
<1>16. ASSUME NEW s \in Senders, ShutdownSets(s)
      PROVE  QuietInv'
  BY <1>16
<1>17. ASSUME NEW s \in Senders, ShutdownQueues(s)
      PROVE  QuietInv'
  BY <1>17
<1>18. QED
  BY <1>1, <1>2, <1>3, <1>4, <1>5, <1>6, <1>7, <1>8, <1>9, <1>10, <1>11, <1>12, <1>13, <1>14,
       <1>15, <1>16, <1>17, StepCases DEF Busy, CoreInv

\* The invariant holds when no other thread calls.
LEMMA QuietHolds == Senders = {} => (Spec => []QuietInv)
<1> SUFFICES ASSUME Senders = {}
             PROVE  Spec => []QuietInv
  OBVIOUS
<1>1. Init => QuietInv
  BY CoreInit, QuietInit
<1>2. CoreInv /\ CoreInv' /\ QuietInv /\ [Next]_vars => QuietInv'
  BY QuietStep
<1>3. QED
  BY <1>1, <1>2, CoreHolds, PTL DEF Spec

\* The map of the server has the open connections: the hop of a closed one over
\* the base loop is the only time the two differ.
THEOREM MapIsRight == Senders = {} => (Spec => []MapHoldsTheOpen)
<1>1. CoreInv /\ QuietInv => MapHoldsTheOpen
  <2> SUFFICES ASSUME CoreInv, QuietInv, NEW c \in Conns, loopOf[c] # NoLoop
               PROVE  \/ c \in connections /\ state[c] # "kDisconnected"
                      \/ c \notin connections /\ state[c] = "kDisconnected" /\ events[c] = {}
                      \/ /\ c \in connections /\ state[c] = "kDisconnected"
                         /\ \/ \E i \in DOMAIN pending[Base] : pending[Base][i] = Functor("remove", c)
                            \/ \E i \in DOMAIN batch[Base] :
                                 i >= next[Base] /\ batch[Base][i] = Functor("remove", c)
    BY DEF MapHoldsTheOpen
  <2>1. CASE c \notin connections
    BY <2>1 DEF QuietInv, ClosedInv
  <2>2. CASE c \in connections /\ state[c] = "kDisconnected"
    <3> DEFINE f == Functor("remove", c)
    <3>1. Awaits(Base, f)
      BY <2>2 DEF QuietInv, RemovalInv
    <3> HIDE DEF f
    <3>2. \/ \E i \in DOMAIN pending[Base] : pending[Base][i] = f
          \/ \E i \in DOMAIN batch[Base] : i >= next[Base] /\ batch[Base][i] = f
      BY <3>1, AwaitsWhere, PoolAssumption DEF CoreInv
    <3>3. QED
      BY <2>2, <3>2 DEF f
  <2>3. QED
    BY <2>1, <2>2
<1>2. QED
  BY <1>1, CoreHolds, QuietHolds, PTL

\* Output that waits is output that POLLOUT was asked for, and shutdown() never
\* closes the write side before it.
THEOREM OutputIsWatched == Senders = {} => (Spec => []PendingOutputIsWatched)
<1>1. QuietInv => PendingOutputIsWatched
  BY DEF QuietInv, OutputInv, PendingOutputIsWatched
<1>2. QED
  BY <1>1, QuietHolds, PTL

------------------------------------------------------------------------------
(* Servers in which a connection is closed once.                           *)

\* handleEvent() closes a connection once, and never a closed one.
ReventsInv ==
  \A c \in Conns :
    /\ ~({"close", "read"} \subseteq revents[c])
    /\ state[c] = "kDisconnected" => revents[c] \cap {"close", "read"} = {}

ChannelInv ==
  \A c \in Conns :
    /\ events[c] # {} => registered[c] = "in"
    /\ registered[c] = "out" => state[c] = "kDisconnected" /\ c \notin connections

\* The two functors on the way of a closed connection out of the server.
EndOK(f) ==
  /\ f.op = "remove" => f.conn \in connections
  /\ f.op = "destroyed" => f.conn \notin connections /\ registered[f.conn] = "in"

EndInv == \A l \in Loops, f \in Functors : Awaits(l, f) => EndOK(f)

\* Each comes once.
OneEnd ==
  \A l \in Loops, f, g \in Functors :
    Before(l, f, g) /\ f.op = g.op /\ f.op \in {"remove", "destroyed"} => f.conn # g.conn

Queued(f) == \E i \in 1..Len(pending[Base]) : pending[Base][i] = f

\* A server without a pool destroys a connection in the iteration that closed it.
AloneInv ==
  /\ \A c \in Conns : loopOf[c] \in {NoLoop, Base}
  /\ \A l \in Loops, f \in Functors : f.op = "remove" => ~Awaits(l, f)
  /\ \A f \in Functors : f.op = "destroyed" /\ Queued(f) => phase[Base] = "events"

CloseInv ==
  /\ failed = "none"
  /\ ReventsInv /\ ChannelInv /\ EndInv /\ OneEnd
  /\ IoLoops = <<>> => AloneInv

AllInv == CoreInv /\ DestroyInv /\ QuietInv /\ CloseInv

\* At first nothing is closed.
LEMMA CloseInit == ASSUME Init, CoreInv PROVE CloseInv
<1>1. \A l \in Loops, f \in Functors : ~Awaits(l, f)
  BY AwaitsWhere DEF CoreInv, Init, TcpInit
<1>2. \A l \in Loops, f, g \in Functors : ~Before(l, f, g)
  BY <1>1 DEF Before, Awaits
<1>3. \A f \in Functors : ~Queued(f)
  <2>1. Len(pending[Base]) = 0
    BY PoolAssumption DEF Init, TcpInit
  <2>2. QED
    BY <2>1 DEF Queued
<1>4. failed = "none" /\ ReventsInv /\ ChannelInv /\ \A c \in Conns : loopOf[c] = NoLoop
  BY DEF Init, TcpInit, ReventsInv, ChannelInv
<1>5. QED
  BY <1>1, <1>2, <1>3, <1>4 DEF CloseInv, EndInv, OneEnd, AloneInv

\* The functor that runs.
LEMMA RunFacts ==
  ASSUME AllInv, NEW l \in Loops, NEW op, NEW c \in Conns, Runs(l, op, c)
  PROVE  \E f \in Functors :
           /\ f = Todo(l)[1] /\ f.op = op /\ f.conn = c /\ Awaits(l, f)
           /\ FunctorOK(l, f) /\ QuietFunctor(f) /\ EndOK(f)
<1>1. CoreInv /\ QuietFunctors /\ EndInv
  BY DEF AllInv, QuietInv, CloseInv
<1>2. PICK f \in Functors :
        /\ f = Todo(l)[1] /\ f = batch[l][next[l]] /\ f.op = op /\ f.conn = c
        /\ Awaits(l, f) /\ FunctorOK(l, f)
  BY <1>1, AtHand
<1>3. QED
  BY <1>1, <1>2 DEF QuietFunctors, EndInv

\* The connection that handleClose() closes.
LEMMA CloseFacts ==
  ASSUME AllInv, NEW l \in Loops, NEW c \in Conns, HandleClose(l, c)
  PROVE  /\ state[c] \notin Early \cup {"kDisconnected"} /\ c \in connections
         /\ registered[c] = "in" /\ loopOf[c] = l /\ phase[l] = "events"
         /\ \E r \in {"close", "read"} : r \in revents[c] /\ revents'[c] = revents[c] \ {r}
         /\ \A d \in Conns \ {c} : revents'[d] = revents[d]
         /\ failed' = failed
<1>1. CoreInv /\ ReventsInv /\ ChannelInv /\ ClosedInv /\ ConnTypes
  BY TypeParts DEF AllInv, QuietInv, CloseInv, CoreInv
<1>2. PICK r \in {"close", "read"} : Calling(l, c, r)
  BY DEF HandleClose, ClosesNow
<1>3. /\ current[l] = c /\ r \in revents[c] /\ revents'[c] = revents[c] \ {r}
      /\ \A d \in Conns \ {c} : revents'[d] = revents[d]
  BY <1>1, <1>2 DEF Calling, ConnTypes
<1>4. registered[c] # "new" /\ loopOf[c] = l /\ state[c] \notin Early
  BY <1>1, <1>3, AtHand
<1>5. state[c] # "kDisconnected"
  BY <1>1, <1>3 DEF ReventsInv
<1>6. c \in connections
  BY <1>1, <1>4, <1>5, SentinelAssumption DEF ClosedInv
<1>7. registered[c] = "in"
  BY <1>1, <1>4, <1>5 DEF ChannelInv, ConnTypes
<1>8. phase[l] = "events"
  BY <1>1, <1>3, SentinelAssumption DEF CoreInv, HandledInv
<1>9. failed' = failed
  BY <1>6 DEF HandleClose, RemoveConnection, RemoveConnectionInLoop
<1>10. QED
  BY <1>3, <1>4, <1>5, <1>6, <1>7, <1>8, <1>9

\* The connection that send() in a callback writes to: open and registered.
LEMMA SendFacts ==
  ASSUME AllInv, NEW l \in Loops, LoopSend(l)
  PROVE  \E c \in Conns : /\ c = user[l] /\ state[c] = "kConnected" /\ registered[c] = "in"
                          /\ SendInLoop(c, Message(l)) /\ Writes(c)
<1>1. CoreInv /\ ChannelInv /\ TypeOK /\ ConnTypes
  BY TypeParts DEF AllInv, CloseInv, CoreInv
<1>2. PICK c \in Conns : c = user[l]
  BY <1>1, TypeParts DEF LoopSend, LoopTypes
<1>3. state[c] = "kConnected" /\ SendInLoop(c, Message(l))
  BY <1>2 DEF LoopSend
<1>4. Writes(c)
  BY <1>1, <1>3, SendWrites
<1>5. registered[c] = "in"
  BY <1>1, <1>2, <1>3, AtHand DEF ChannelInv, ConnTypes
<1>6. QED
  BY <1>2, <1>3, <1>4, <1>5

\* handleWrite() updates registered channels only.
LEMMA WriteFacts ==
  ASSUME AllInv, NEW l \in Loops, NEW c \in Conns, HandleWrite(l, c)
  PROVE  /\ Writes(c)
         /\ UNCHANGED <<events, registered, failed>> \/ registered[c] = "in"
<1>1. CoreInv /\ ChannelInv /\ TypeOK /\ ConnTypes
  BY TypeParts DEF AllInv, CloseInv, CoreInv
<1>2. Writes(c)
  BY <1>1, WriteWrites
<1>3. UNCHANGED <<events, registered, failed>> \/ "write" \in events[c]
  BY <1>1, WriteOutput
<1>4. QED
  BY <1>1, <1>2, <1>3 DEF ChannelInv

\* No assertion fails in a step.
LEMMA FailedStep ==
  ASSUME Senders = {}, AllInv, [Next]_vars
  PROVE  failed' = "none"
<1>0. TypeOK /\ CoreInv /\ failed = "none" /\ ChannelInv /\ ClosedInv /\ ConnTypes
  BY TypeParts DEF AllInv, QuietInv, CloseInv, CoreInv
<1>1. CASE Bystander
  BY <1>1, <1>0 DEF Bystander
<1>2. ASSUME NEW c \in Conns, Accept(c)
      PROVE  failed' = "none"
  BY <1>2, <1>0 DEF Accept
<1>3. ASSUME NEW l \in Loops, NEW c \in Conns, HandleWrite(l, c), UNCHANGED serverVars
      PROVE  failed' = "none"
  <2>1. Writes(c) /\ (UNCHANGED <<events, registered, failed>> \/ registered[c] = "in")
    BY <1>3, WriteFacts
  <2>2. QED
    BY <1>0, <2>1 DEF Writes
<1>4. ASSUME NEW l \in Loops, NEW c \in Conns, HandleClose(l, c)
      PROVE  failed' = "none"
  BY <1>4, <1>0, CloseFacts
<1>5. ASSUME NEW l \in Loops, SwapFunctors(l)
      PROVE  failed' = "none"
  BY <1>5, <1>0 DEF SwapFunctors
<1>6. ASSUME NEW l \in Loops, NEW c \in Conns, RunEstablished(l, c)
      PROVE  failed' = "none"
  <2>1. Runs(l, "established", c)
    BY <1>6 DEF RunEstablished
  <2>2. state[c] = "kConnecting"
    BY <2>1, RunFacts DEF FunctorOK
  <2>3. QED
    BY <1>6, <1>0, <2>2 DEF RunEstablished
<1>7. ASSUME NEW l \in Loops, NEW c \in Conns, RunDestroyed(l, c)
      PROVE  failed' = "none"
  <2>1. Runs(l, "destroyed", c)
    BY <1>7 DEF RunDestroyed
  <2>2. state[c] = "kDisconnected" /\ registered[c] = "in"
    BY <2>1, RunFacts DEF QuietFunctor, EndOK
  <2>3. events' = events /\ events[c] = {}
    BY <1>7, <1>0, <2>2 DEF RunDestroyed, ConnectionDestroyed, ClosedInv
  <2>4. QED
    BY <1>7, <1>0, <2>2, <2>3 DEF RunDestroyed, ConnectionDestroyed
<1>8. ASSUME NEW l \in Loops, NEW c \in Conns, RunRemove(l, c)
      PROVE  failed' = "none"
  <2>1. Runs(l, "remove", c)
    BY <1>8 DEF RunRemove
  <2>2. c \in connections
    BY <2>1, RunFacts DEF EndOK
  <2>3. QED
    BY <1>8, <1>0, <2>2 DEF RunRemove, RemoveConnectionInLoop
<1>9. ASSUME NEW l \in Loops, NEW c \in Conns, RunWriteComplete(l, c)
      PROVE  failed' = "none"
  BY <1>9, <1>0 DEF RunWriteComplete
<1>10. ASSUME NEW l \in Loops, NEW c \in Conns, RunSend(l, c)
      PROVE  failed' = "none"
  <2>1. Runs(l, "send", c)
    BY <1>10, Zenon DEF RunSend
  <2>2. QED
    BY <2>1, RunFacts DEF QuietFunctor
<1>11. ASSUME NEW l \in Loops, NEW c \in Conns, RunShutdown(l, c)
      PROVE  failed' = "none"
  <2>1. Runs(l, "shutdown", c)
    BY <1>11, Zenon DEF RunShutdown
  <2>2. QED
    BY <2>1, RunFacts DEF QuietFunctor
<1>12. ASSUME NEW l \in Loops, FunctorsDone(l)
      PROVE  failed' = "none"
  BY <1>12, <1>0 DEF FunctorsDone
<1>13. ASSUME NEW l \in Loops, LoopSend(l)
      PROVE  failed' = "none"
  <2>1. PICK c \in Conns : registered[c] = "in" /\ Writes(c)
    BY <1>13, SendFacts
  <2>2. QED
    BY <1>0, <2>1 DEF Writes
<1>14. ASSUME NEW l \in Loops, LoopShutdown(l)
      PROVE  failed' = "none"
  BY <1>14, <1>0 DEF LoopShutdown
<1>15. ASSUME NEW s \in Senders, SendQueues(s)
      PROVE  failed' = "none"
  BY <1>15
<1>16. ASSUME NEW s \in Senders, ShutdownSets(s)
      PROVE  failed' = "none"
  BY <1>16
<1>17. ASSUME NEW s \in Senders, ShutdownQueues(s)
      PROVE  failed' = "none"
  BY <1>17
<1>18. QED
  BY <1>1, <1>2, <1>3, <1>4, <1>5, <1>6, <1>7, <1>8, <1>9, <1>10, <1>11, <1>12, <1>13, <1>14,
       <1>15, <1>16, <1>17, <1>0, StepCases DEF Busy

\* The poller reports "close" or "read", and neither for a closed connection.
LEMMA PolledFacts ==
  ASSUME HupUnasked => IoLoops = <<>>, AllInv, Running, NEW c \in Conns, Polled(c)
  PROVE  /\ ~({"close", "read"} \subseteq revents'[c])
         /\ state[c] # "kDisconnected"
<1>1. CoreInv /\ DestroyInv /\ ClosedInv /\ RemovalInv /\ TypeOK /\ BatchInv
  BY DEF AllInv, QuietInv, CoreInv
<1>2. ~({"close", "read"} \subseteq revents'[c])
  <2>1. PICK w : revents'[c] = Callbacks(c, w)
    BY DEF Polled
  <2>2. "close" \in Callbacks(c, w) => ~ReadReady(c)
    BY DEF Callbacks
  <2>3. "read" \in Callbacks(c, w) => ReadReady(c)
    BY DEF Callbacks
  <2>4. QED
    BY <2>1, <2>2, <2>3
<1>3. ASSUME state[c] = "kDisconnected"
      PROVE  FALSE
  <2>1. events[c] = {} /\ registered[c] = "in" /\ loopOf[c] \in Loops /\ phase[loopOf[c]] = "poll"
        /\ IoLoops = <<>>
    BY <1>1, <1>3 DEF Polled, ClosedInv
  <2>2. AloneInv
    BY <2>1 DEF AllInv, CloseInv
  <2>3. loopOf[c] = Base /\ phase[Base] = "poll" /\ Base \in Loops
    BY <2>1, <2>2, SentinelAssumption, PoolAssumption DEF AloneInv
  <2>4. c \notin connections
    <3> DEFINE f == Functor("remove", c)
    <3>1. f \in Functors /\ f.op = "remove"
      BY FunctorType DEF Ops, Functor
    <3>2. c \in connections => Awaits(Base, f)
      BY <1>1, <1>3 DEF RemovalInv
    <3> HIDE DEF f
    <3>3. QED
      BY <2>2, <2>3, <3>1, <3>2 DEF AloneInv
  <2> DEFINE f == Functor("destroyed", c)
  <2>5. f \in Functors /\ f.op = "destroyed"
    BY FunctorType DEF Ops, Functor
  <2>6. Awaits(Base, f)
    BY <1>1, <2>1, <2>3, <2>4 DEF DestroyInv
  <2> HIDE DEF f
  <2>7. batch[Base] = <<>>
    BY <1>1, <2>3 DEF BatchInv
  <2>8. PICK i \in DOMAIN pending[Base] : pending[Base][i] = f
    BY <1>1, <2>3, <2>6, <2>7, AwaitsWhere
  <2>9. Queued(f)
    BY <1>1, <2>3, <2>8, TodoFacts, LenProperties DEF Queued
  <2>10. QED
    BY <2>2, <2>3, <2>5, <2>9 DEF AloneInv
<1>4. QED
  BY <1>2, <1>3

\* handleEvent() never has two closes to call, and none for a closed
\* connection.
LEMMA ReventsStep ==
  ASSUME Senders = {}, HupUnasked => IoLoops = <<>>, AllInv, [Next]_vars
  PROVE  ReventsInv'
<1>0. TypeOK /\ ReventsInv /\ ConnTypes /\ Running
  BY TypeParts DEF AllInv, CloseInv, CoreInv, Running
<1>01. ASSUME \A c \in Conns : /\ revents'[c] \subseteq revents[c]
                               /\ state'[c] = "kDisconnected" => state[c] = "kDisconnected"
       PROVE  ReventsInv'
  BY <1>0, <1>01 DEF ReventsInv
<1>1. CASE Bystander
  <2> SUFFICES ASSUME NEW c \in Conns
               PROVE  /\ ~({"close", "read"} \subseteq revents'[c])
                      /\ state'[c] = "kDisconnected" => revents'[c] \cap {"close", "read"} = {}
    BY DEF ReventsInv
  <2>1. state' = state
    BY <1>1 DEF Bystander
  <2>2. CASE revents'[c] \subseteq revents[c]
    BY <1>0, <2>1, <2>2 DEF ReventsInv
  <2>3. CASE Polled(c)
    BY <1>0, <2>1, <2>3, PolledFacts
  <2>4. QED
    BY <1>1, <2>2, <2>3 DEF Bystander
<1>2. ASSUME NEW c \in Conns, Accept(c)
      PROVE  ReventsInv'
  BY <1>2, <1>0, <1>01 DEF Accept, ConnectionEstablished, ConnTypes
<1>3. ASSUME NEW l \in Loops, NEW c \in Conns, HandleWrite(l, c), UNCHANGED serverVars
      PROVE  ReventsInv'
  BY <1>3, <1>0, <1>01 DEF HandleWrite, Calling, ConnTypes
<1>4. ASSUME NEW l \in Loops, NEW c \in Conns, HandleClose(l, c)
      PROVE  ReventsInv'
  <2>1. PICK r \in {"close", "read"} : r \in revents[c] /\ revents'[c] = revents[c] \ {r}
    BY <1>4, CloseFacts
  <2>2. \A d \in Conns \ {c} : revents'[d] = revents[d]
    BY <1>4, CloseFacts
  <2>3. \A d \in Conns \ {c} : state'[d] = state[d]
    BY <1>4, <1>0 DEF HandleClose, CloseConnection, ConnTypes
  <2>4. QED
    BY <1>0, <2>1, <2>2, <2>3 DEF ReventsInv
<1>5. ASSUME NEW l \in Loops, SwapFunctors(l)
      PROVE  ReventsInv'
  BY <1>5, <1>0, <1>01 DEF SwapFunctors, connVars
<1>6. ASSUME NEW l \in Loops, NEW c \in Conns, RunEstablished(l, c)
      PROVE  ReventsInv'
  BY <1>6, <1>0, <1>01 DEF RunEstablished, ConnectionEstablished, ConnTypes
<1>7. ASSUME NEW l \in Loops, NEW c \in Conns, RunDestroyed(l, c)
      PROVE  ReventsInv'
  <2>1. Runs(l, "destroyed", c)
    BY <1>7 DEF RunDestroyed
  <2>2. state[c] = "kDisconnected"
    BY <2>1, RunFacts DEF QuietFunctor
  <2>3. UNCHANGED <<state, revents>>
    BY <1>7, <2>2 DEF RunDestroyed, ConnectionDestroyed
  <2>4. QED
    BY <1>01, <2>3
<1>8. ASSUME NEW l \in Loops, NEW c \in Conns, RunRemove(l, c)
      PROVE  ReventsInv'
  BY <1>8, <1>0, <1>01 DEF RunRemove, connVars
<1>9. ASSUME NEW l \in Loops, NEW c \in Conns, RunWriteComplete(l, c)
      PROVE  ReventsInv'
  BY <1>9, <1>0, <1>01 DEF RunWriteComplete, connVars
<1>10. ASSUME NEW l \in Loops, NEW c \in Conns, RunSend(l, c)
      PROVE  ReventsInv'
  <2>1. Runs(l, "send", c)
    BY <1>10, Zenon DEF RunSend
  <2>2. QED
    BY <2>1, RunFacts DEF QuietFunctor
<1>11. ASSUME NEW l \in Loops, NEW c \in Conns, RunShutdown(l, c)
      PROVE  ReventsInv'
  <2>1. Runs(l, "shutdown", c)
    BY <1>11, Zenon DEF RunShutdown
  <2>2. QED
    BY <2>1, RunFacts DEF QuietFunctor
<1>12. ASSUME NEW l \in Loops, FunctorsDone(l)
      PROVE  ReventsInv'
  BY <1>12, <1>0, <1>01 DEF FunctorsDone, connVars
<1>13. ASSUME NEW l \in Loops, LoopSend(l)
      PROVE  ReventsInv'
  BY <1>13, <1>0, <1>01 DEF LoopSend
<1>14. ASSUME NEW l \in Loops, LoopShutdown(l)
      PROVE  ReventsInv'
  BY <1>14, <1>0, <1>01 DEF LoopShutdown, ConnTypes
<1>15. ASSUME NEW s \in Senders, SendQueues(s)
      PROVE  ReventsInv'
  BY <1>15
<1>16. ASSUME NEW s \in Senders, ShutdownSets(s)
      PROVE  ReventsInv'
  BY <1>16
<1>17. ASSUME NEW s \in Senders, ShutdownQueues(s)
      PROVE  ReventsInv'
  BY <1>17
<1>18. QED
  BY <1>1, <1>2, <1>3, <1>4, <1>5, <1>6, <1>7, <1>8, <1>9, <1>10, <1>11, <1>12, <1>13, <1>14,
       <1>15, <1>16, <1>17, <1>0, StepCases DEF Busy

\* Only registered channels ask for events; removed ones belong to closed
\* connections out of the map.
LEMMA ChannelStep ==
  ASSUME Senders = {}, AllInv, [Next]_vars
  PROVE  ChannelInv'
<1>0. TypeOK /\ CoreInv /\ ChannelInv /\ ClosedInv /\ ConnTypes
  BY TypeParts DEF AllInv, QuietInv, CloseInv, CoreInv
<1>01. ASSUME UNCHANGED <<events, registered, state>>, connections' \subseteq connections
       PROVE  ChannelInv'
  BY <1>0, <1>01 DEF ChannelInv
<1>1. CASE Bystander
  BY <1>1, <1>01 DEF Bystander
<1>2. ASSUME NEW c \in Conns, Accept(c)
      PROVE  ChannelInv'
  <2>1. state[c] = "none" /\ registered[c] = "new" /\ events[c] = {}
    BY <1>2, <1>0 DEF Accept, Backlog, CoreInv, ConnInv, Early
  <2>2. /\ registered'[c] # "out" /\ (events'[c] # {} => registered'[c] = "in")
        /\ connections' = connections \cup {c}
        /\ \A d \in Conns \ {c} : /\ state'[d] = state[d] /\ events'[d] = events[d]
                                  /\ registered'[d] = registered[d]
    BY <1>2, <1>0, <2>1 DEF Accept, ConnectionEstablished, ConnTypes
  <2>3. QED
    BY <1>0, <2>2 DEF ChannelInv
<1>3. ASSUME NEW l \in Loops, NEW c \in Conns, HandleWrite(l, c), UNCHANGED serverVars
      PROVE  ChannelInv'
  <2>1. Writes(c) /\ (UNCHANGED <<events, registered, failed>> \/ registered[c] = "in")
    BY <1>3, WriteFacts
  <2>2. UNCHANGED <<state, connections>>
    BY <1>3 DEF HandleWrite, serverVars
  <2>3. QED
    BY <1>0, <2>1, <2>2 DEF ChannelInv, Writes
<1>4. ASSUME NEW l \in Loops, NEW c \in Conns, HandleClose(l, c)
      PROVE  ChannelInv'
  <2>1. registered[c] = "in"
    BY <1>4, CloseFacts
  <2>2. /\ events'[c] = {} /\ registered' = registered /\ connections' \subseteq connections
        /\ \A d \in Conns \ {c} : state'[d] = state[d] /\ events'[d] = events[d]
    BY <1>4, <1>0 DEF HandleClose, CloseConnection, RemoveConnection, RemoveConnectionInLoop,
         ConnTypes
  <2>3. QED
    BY <1>0, <2>1, <2>2 DEF ChannelInv
<1>5. ASSUME NEW l \in Loops, SwapFunctors(l)
      PROVE  ChannelInv'
  BY <1>5, <1>0, <1>01 DEF SwapFunctors, connVars, serverVars
<1>6. ASSUME NEW l \in Loops, NEW c \in Conns, RunEstablished(l, c)
      PROVE  ChannelInv'
  <2>1. /\ registered'[c] = "in" /\ connections' = connections
        /\ \A d \in Conns \ {c} : /\ state'[d] = state[d] /\ events'[d] = events[d]
                                  /\ registered'[d] = registered[d]
    BY <1>6, <1>0 DEF RunEstablished, ConnectionEstablished, ConnTypes, serverVars
  <2>2. QED
    BY <1>0, <2>1 DEF ChannelInv
<1>7. ASSUME NEW l \in Loops, NEW c \in Conns, RunDestroyed(l, c)
      PROVE  ChannelInv'
  <2>1. Runs(l, "destroyed", c)
    BY <1>7 DEF RunDestroyed
  <2>2. state[c] = "kDisconnected" /\ c \notin connections /\ events[c] = {}
    BY <1>0, <2>1, RunFacts DEF QuietFunctor, EndOK, ClosedInv
  <2>3. UNCHANGED <<state, events, connections>>
    BY <1>7, <2>2 DEF RunDestroyed, ConnectionDestroyed, serverVars
  <2>4. \A d \in Conns \ {c} : registered'[d] = registered[d]
    BY <1>7, <1>0 DEF RunDestroyed, ConnectionDestroyed, ConnTypes
  <2>5. QED
    BY <1>0, <2>2, <2>3, <2>4 DEF ChannelInv
<1>8. ASSUME NEW l \in Loops, NEW c \in Conns, RunRemove(l, c)
      PROVE  ChannelInv'
  BY <1>8, <1>0, <1>01 DEF RunRemove, RemoveConnectionInLoop, connVars
<1>9. ASSUME NEW l \in Loops, NEW c \in Conns, RunWriteComplete(l, c)
      PROVE  ChannelInv'
  BY <1>9, <1>0, <1>01 DEF RunWriteComplete, connVars, serverVars
<1>10. ASSUME NEW l \in Loops, NEW c \in Conns, RunSend(l, c)
      PROVE  ChannelInv'
  <2>1. Runs(l, "send", c)
    BY <1>10, Zenon DEF RunSend
  <2>2. QED
    BY <2>1, RunFacts DEF QuietFunctor
<1>11. ASSUME NEW l \in Loops, NEW c \in Conns, RunShutdown(l, c)
      PROVE  ChannelInv'
  <2>1. Runs(l, "shutdown", c)
    BY <1>11, Zenon DEF RunShutdown
  <2>2. QED
    BY <2>1, RunFacts DEF QuietFunctor
<1>12. ASSUME NEW l \in Loops, FunctorsDone(l)
      PROVE  ChannelInv'
  BY <1>12, <1>0, <1>01 DEF FunctorsDone, connVars, serverVars
<1>13. ASSUME NEW l \in Loops, LoopSend(l)
      PROVE  ChannelInv'
  <2>1. PICK c \in Conns : registered[c] = "in" /\ Writes(c)
    BY <1>13, SendFacts
  <2>2. UNCHANGED <<state, connections>>
    BY <1>13 DEF LoopSend, serverVars
  <2>3. QED
    BY <1>0, <2>1, <2>2 DEF ChannelInv, Writes
<1>14. ASSUME NEW l \in Loops, LoopShutdown(l)
      PROVE  ChannelInv'
  <2>1. PICK c \in Conns : c = user[l]
    BY <1>14, <1>0, TypeParts DEF LoopShutdown, LoopTypes
  <2>2. /\ state[c] = "kConnected" /\ UNCHANGED <<events, registered, connections>>
        /\ \A d \in Conns \ {c} : state'[d] = state[d]
    BY <1>14, <1>0, <2>1 DEF LoopShutdown, MayShutdown, serverVars, ConnTypes
  <2>3. QED
    BY <1>0, <2>2 DEF ChannelInv
<1>15. ASSUME NEW s \in Senders, SendQueues(s)
      PROVE  ChannelInv'
  BY <1>15
<1>16. ASSUME NEW s \in Senders, ShutdownSets(s)
      PROVE  ChannelInv'
  BY <1>16
<1>17. ASSUME NEW s \in Senders, ShutdownQueues(s)
      PROVE  ChannelInv'
  BY <1>17
<1>18. QED
  BY <1>1, <1>2, <1>3, <1>4, <1>5, <1>6, <1>7, <1>8, <1>9, <1>10, <1>11, <1>12, <1>13, <1>14,
       <1>15, <1>16, <1>17, <1>0, StepCases DEF Busy

\* The functors on the way out stay right and single.
LEMMA EndKept ==
  ASSUME TypeOK, BatchInv, EndInv, OneEnd, NEW T, NEW F, Evolve(T, F),
         \A l \in Loops, f \in Functors :
           <<l, f>> \in F /\ f.op \in {"remove", "destroyed"} =>
             /\ EndOK(f)'
             /\ \A g \in Functors : Awaits(l, g) /\ g.op = f.op => g.conn # f.conn,
         \A l \in Loops, f \in Functors : Awaits(l, f) /\ Awaits(l, f)' => EndOK(f)'
  PROVE  EndInv' /\ OneEnd'
<1>1. ASSUME NEW l \in Loops, NEW f \in Functors, Awaits(l, f)'
      PROVE  EndOK(f)'
  <2>1. Awaits(l, f) \/ <<l, f>> \in F
    BY <1>1, AwaitsFrom
  <2>2. CASE f.op \notin {"remove", "destroyed"}
    BY <2>2 DEF EndOK
  <2>3. QED
    BY <1>1, <2>1, <2>2
<1>2. ASSUME NEW l \in Loops, NEW f \in Functors, NEW g \in Functors, Before(l, f, g)',
             f.op = g.op, f.op \in {"remove", "destroyed"}
      PROVE  f.conn # g.conn
  <2>1. Before(l, f, g) \/ (Awaits(l, f) /\ <<l, g>> \in F)
    BY <1>2, BeforeFrom
  <2>2. QED
    BY <1>2, <2>1 DEF OneEnd
<1>3. QED
  BY <1>1, <1>2 DEF EndInv, OneEnd

\* Steps that leave the map and the poller alone.
LEMMA EndSame ==
  ASSUME AllInv, NEW T, NEW F, Evolve(T, F), connections' = connections,
         \A c \in Conns : registered[c] = "in" => registered'[c] = "in",
         \A l \in Loops, f \in Functors : <<l, f>> \in F => f.op \notin {"remove", "destroyed"}
  PROVE  EndInv' /\ OneEnd'
<1>1. TypeOK /\ BatchInv /\ EndInv /\ OneEnd
  BY DEF AllInv, CoreInv, CloseInv
<1>2. \A l \in Loops, f \in Functors : Awaits(l, f) /\ Awaits(l, f)' => EndOK(f)'
  BY <1>1 DEF EndInv, EndOK, Functors
<1>3. QED
  BY <1>1, <1>2, EndKept

\* remove is called for a connection in the map, destroyed for one out of
\* it that the poller still has; each once.
LEMMA EndStep ==
  ASSUME Senders = {}, AllInv, TypeOK', [Next]_vars
  PROVE  EndInv' /\ OneEnd'
<1>0. /\ TypeOK /\ TypeOK' /\ BatchInv /\ CoreInv /\ FunctorInv /\ ConnTypes /\ Lasting
      /\ QuietFunctors /\ ChannelInv /\ EndInv /\ OneEnd
  BY TypeParts, LastingStep DEF AllInv, QuietInv, CloseInv, CoreInv
<1>1. CASE Bystander
  <2>1. Evolve({}, {}) /\ UNCHANGED <<connections, registered>>
    BY <1>1, <1>0, EvolveBystander DEF Bystander
  <2>2. QED
    BY <2>1, EndSame
<1>2. ASSUME NEW c \in Conns, Accept(c)
      PROVE  EndInv' /\ OneEnd'
  <2> DEFINE F == IF NextLoop = Base THEN {} ELSE {<<NextLoop, Functor("established", c)>>}
  <2>1. Evolve({}, F)
    BY <1>2, <1>0, EvolveAccept
  <2>2. /\ registered[c] = "new" /\ connections' = connections \cup {c}
        /\ \A d \in Conns \ {c} : registered'[d] = registered[d]
    BY <1>2, <1>0 DEF Accept, Backlog, ConnectionEstablished, ConnTypes, CoreInv, ConnInv, Early
  <2>3. \A k \in Loops, f \in Functors : <<k, f>> \in F => f.op \notin {"remove", "destroyed"}
    BY DEF Functor
  <2>4. \A k \in Loops, f \in Functors : Awaits(k, f) /\ Awaits(k, f)' => EndOK(f)'
    BY <1>0, <2>2 DEF EndInv, EndOK, Functors
  <2> HIDE DEF F
  <2>5. QED
    BY <1>0, <2>1, <2>3, <2>4, EndKept
<1>3. ASSUME NEW l \in Loops, NEW c \in Conns, HandleWrite(l, c), UNCHANGED serverVars
      PROVE  EndInv' /\ OneEnd'
  <2>1. PICK F \in WriteCompletes(c) : Evolve({}, F)
    BY <1>3, <1>0, EvolveWrite
  <2>2. Writes(c) /\ connections' = connections
    BY <1>3, WriteFacts DEF HandleWrite, serverVars
  <2>3. \A d \in Conns : registered[d] = "in" => registered'[d] = "in"
    BY <2>2 DEF Writes
  <2>4. \A k \in Loops, f \in Functors : <<k, f>> \in F => f.op \notin {"remove", "destroyed"}
    BY <2>1 DEF WriteCompletes, Functor
  <2>5. QED
    BY <2>1, <2>2, <2>3, <2>4, EndSame
<1>4. ASSUME NEW l \in Loops, NEW c \in Conns, HandleClose(l, c)
      PROVE  EndInv' /\ OneEnd'
  <2>1. Evolve({}, Closing(l, c))
    BY <1>4, <1>0, EvolveClose
  <2>2. state[c] # "kDisconnected" /\ c \in connections /\ registered[c] = "in" /\ loopOf[c] = l
    BY <1>4, CloseFacts
  <2>3. /\ registered' = registered
        /\ \/ l = Base /\ connections' = connections \ {c}
           \/ l # Base /\ connections' = connections
    BY <1>4 DEF HandleClose, CloseConnection, RemoveConnection, RemoveConnectionInLoop
  <2>4. \A k \in Loops, g \in Functors : Awaits(k, g) /\ g.op \in {"remove", "destroyed"} => g.conn # c
    BY <1>0, <2>2 DEF QuietFunctors, QuietFunctor
  <2>5. ASSUME NEW k \in Loops, NEW f \in Functors, <<k, f>> \in Closing(l, c)
        PROVE  EndOK(f)' /\ f.op \in {"remove", "destroyed"} /\ f.conn = c
    BY <2>2, <2>3, <2>5 DEF Closing, Functor, EndOK
  <2>6. \A k \in Loops, f \in Functors : Awaits(k, f) /\ Awaits(k, f)' => EndOK(f)'
    BY <1>0, <2>3, <2>4 DEF EndInv, EndOK, Functors
  <2>7. QED
    BY <1>0, <2>1, <2>4, <2>5, <2>6, EndKept
<1>5. ASSUME NEW l \in Loops, SwapFunctors(l)
      PROVE  EndInv' /\ OneEnd'
  <2>1. Evolve({}, {})
    BY <1>5, <1>0, EvolveSwap
  <2>2. UNCHANGED <<connections, registered>>
    BY <1>5 DEF SwapFunctors, connVars, serverVars
  <2>3. QED
    BY <2>1, <2>2, EndSame
<1>6. ASSUME NEW l \in Loops, NEW c \in Conns, RunEstablished(l, c)
      PROVE  EndInv' /\ OneEnd'
  <2>1. Evolve({l}, {}) /\ connections' = connections
    BY <1>6, <1>0, EvolveQuietRun DEF RunEstablished, serverVars
  <2>2. \A d \in Conns : registered[d] = "in" => registered'[d] = "in"
    BY <1>6, <1>0 DEF RunEstablished, ConnectionEstablished, ConnTypes
  <2>3. QED
    BY <2>1, <2>2, EndSame
<1>7. ASSUME NEW l \in Loops, NEW c \in Conns, RunDestroyed(l, c)
      PROVE  EndInv' /\ OneEnd'
  <2>1. Evolve({l}, {}) /\ Runs(l, "destroyed", c) /\ connections' = connections
    BY <1>7, <1>0, EvolveQuietRun DEF RunDestroyed, serverVars
  <2>2. PICK h \in Functors : h = Todo(l)[1] /\ h.op = "destroyed" /\ h.conn = c /\ FunctorOK(l, h)
    BY <2>1, RunFacts
  <2>3. \A d \in Conns \ {c} : registered'[d] = registered[d]
    BY <1>7, <1>0 DEF RunDestroyed, ConnectionDestroyed, ConnTypes
  <2>4. ASSUME NEW k \in Loops, NEW f \in Functors, Awaits(k, f), Awaits(k, f)'
        PROVE  EndOK(f)'
    <3>1. EndOK(f) /\ f.conn \in Conns /\ FunctorOK(k, f)
      BY <1>0, <2>4 DEF EndInv, Functors, FunctorInv
    <3>2. ASSUME f.op = "destroyed"
          PROVE  f.conn # c
      <4>1. SUFFICES ASSUME f.conn = c
                     PROVE  FALSE
        OBVIOUS
      <4>2. k = l
        BY <2>2, <3>1, <3>2, <4>1 DEF FunctorOK
      <4> DEFINE T == {l}
                 E == {}
      <4>3. Evolve(T, E) /\ l \in T /\ <<l, f>> \notin E
        BY <2>1
      <4> HIDE DEF T, E
      <4>4. Before(l, h, f)
        BY <1>0, <2>2, <2>4, <4>2, <4>3, HeadBefore
      <4>5. QED
        BY <1>0, <2>2, <3>2, <4>1, <4>4 DEF OneEnd
    <3>3. QED
      BY <2>1, <2>3, <3>1, <3>2 DEF EndOK
  <2>5. QED
    BY <1>0, <2>1, <2>4, EndKept
<1>8. ASSUME NEW l \in Loops, NEW c \in Conns, RunRemove(l, c)
      PROVE  EndInv' /\ OneEnd'
  <2> DEFINE F == {<<loopOf[c], Functor("destroyed", c)>>}
  <2>1. Evolve({l}, F) /\ Runs(l, "remove", c) /\ connections' = connections \ {c} /\ registered' = registered
    BY <1>8, <1>0, EvolveRemove DEF RunRemove, RemoveConnectionInLoop, connVars
  <2>2. PICK h \in Functors : h = Todo(l)[1] /\ h.op = "remove" /\ h.conn = c /\ FunctorOK(l, h) /\ EndOK(h)
    BY <2>1, RunFacts
  <2>3. registered[c] = "in" /\ c \in connections
    BY <1>0, <2>2 DEF FunctorOK, EndOK, ChannelInv, ConnTypes
  <2>4. ASSUME NEW k \in Loops, NEW f \in Functors, Awaits(k, f), Awaits(k, f)'
        PROVE  EndOK(f)'
    <3>1. EndOK(f) /\ f.conn \in Conns /\ FunctorOK(k, f)
      BY <1>0, <2>4 DEF EndInv, Functors, FunctorInv
    <3>2. ASSUME f.op = "remove"
          PROVE  f.conn # c
      <4>1. SUFFICES ASSUME f.conn = c
                     PROVE  FALSE
        OBVIOUS
      <4>2. k = l /\ <<l, f>> \notin F
        BY <2>2, <3>1, <3>2 DEF FunctorOK, Functor
      <4> DEFINE T == {l}
      <4>3. Evolve(T, F) /\ l \in T
        BY <2>1
      <4> HIDE DEF T, F
      <4>4. Before(l, h, f)
        BY <1>0, <2>2, <2>4, <4>2, <4>3, HeadBefore
      <4>5. QED
        BY <1>0, <2>2, <3>2, <4>1, <4>4 DEF OneEnd
    <3>3. QED
      BY <2>1, <3>1, <3>2 DEF EndOK
  <2>5. ASSUME NEW k \in Loops, NEW f \in Functors, <<k, f>> \in F
        PROVE  /\ EndOK(f)' /\ f.op = "destroyed"
               /\ \A g \in Functors : Awaits(k, g) /\ g.op = f.op => g.conn # f.conn
    <3>1. f.op = "destroyed" /\ f.conn = c
      BY <2>5 DEF Functor
    <3>2. \A g \in Functors : Awaits(k, g) /\ g.op = "destroyed" => g.conn # c
      BY <1>0, <2>3 DEF EndInv, EndOK
    <3>3. QED
      BY <2>1, <2>3, <3>1, <3>2 DEF EndOK
  <2> HIDE DEF F
  <2>6. QED
    BY <1>0, <2>1, <2>4, <2>5, EndKept
<1>9. ASSUME NEW l \in Loops, NEW c \in Conns, RunWriteComplete(l, c)
      PROVE  EndInv' /\ OneEnd'
  <2>1. Evolve({l}, {})
    BY <1>9, <1>0, EvolveQuietRun DEF RunWriteComplete
  <2>2. UNCHANGED <<connections, registered>>
    BY <1>9 DEF RunWriteComplete, connVars, serverVars
  <2>3. QED
    BY <2>1, <2>2, EndSame
<1>10. ASSUME NEW l \in Loops, NEW c \in Conns, RunSend(l, c)
      PROVE  EndInv' /\ OneEnd'
  <2>1. Runs(l, "send", c)
    BY <1>10, Zenon DEF RunSend
  <2>2. QED
    BY <2>1, RunFacts DEF QuietFunctor
<1>11. ASSUME NEW l \in Loops, NEW c \in Conns, RunShutdown(l, c)
      PROVE  EndInv' /\ OneEnd'
  <2>1. Runs(l, "shutdown", c)
    BY <1>11, Zenon DEF RunShutdown
  <2>2. QED
    BY <2>1, RunFacts DEF QuietFunctor
<1>12. ASSUME NEW l \in Loops, FunctorsDone(l)
      PROVE  EndInv' /\ OneEnd'
  <2>1. Evolve({}, {})
    BY <1>12, <1>0, EvolveDone
  <2>2. UNCHANGED <<connections, registered>>
    BY <1>12 DEF FunctorsDone, connVars, serverVars
  <2>3. QED
    BY <2>1, <2>2, EndSame
<1>13. ASSUME NEW l \in Loops, LoopSend(l)
      PROVE  EndInv' /\ OneEnd'
  <2>1. PICK c \in Conns : c = user[l] /\ Writes(c)
    BY <1>13, SendFacts
  <2>2. PICK F \in WriteCompletes(c) : Evolve({}, F)
    BY <1>13, <1>0, <2>1, EvolveLoopSend
  <2>3. connections' = connections
    BY <1>13 DEF LoopSend, serverVars
  <2>4. \A d \in Conns : registered[d] = "in" => registered'[d] = "in"
    BY <2>1 DEF Writes
  <2>5. \A k \in Loops, f \in Functors : <<k, f>> \in F => f.op \notin {"remove", "destroyed"}
    BY <2>2 DEF WriteCompletes, Functor
  <2>6. QED
    BY <2>2, <2>3, <2>4, <2>5, EndSame
<1>14. ASSUME NEW l \in Loops, LoopShutdown(l)
      PROVE  EndInv' /\ OneEnd'
  <2>1. Evolve({}, {})
    BY <1>14, <1>0, EvolveBystander DEF LoopShutdown, loopVars
  <2>2. UNCHANGED <<connections, registered>>
    BY <1>14 DEF LoopShutdown, serverVars
  <2>3. QED
    BY <2>1, <2>2, EndSame
<1>15. ASSUME NEW s \in Senders, SendQueues(s)
      PROVE  EndInv' /\ OneEnd'
  BY <1>15
<1>16. ASSUME NEW s \in Senders, ShutdownSets(s)
      PROVE  EndInv' /\ OneEnd'
  BY <1>16
<1>17. ASSUME NEW s \in Senders, ShutdownQueues(s)
      PROVE  EndInv' /\ OneEnd'
  BY <1>17
<1>18. QED
  BY <1>1, <1>2, <1>3, <1>4, <1>5, <1>6, <1>7, <1>8, <1>9, <1>10, <1>11, <1>12, <1>13, <1>14,
       <1>15, <1>16, <1>17, <1>0, StepCases DEF Busy

\* What is pending was pending or was queued.
LEMMA QueuedFrom ==
  ASSUME TypeOK, TypeOK', NEW F, Grows(F), NEW f \in Functors, Queued(f)'
  PROVE  Queued(f) \/ <<Base, f>> \in F
<1> DEFINE p == pending[Base]
           q == pending'[Base]
           G == Added(F, Base)
<1>1. Base \in Loops
  BY PoolAssumption
<1>2. Extends(p, q, G)
  BY <1>1, PendingExtends
<1>3. f \in G => <<Base, f>> \in F
  BY DEF Added
<1> HIDE DEF p, q, G
<1>4. (\E i \in 1..Len(q) : q[i] = f) => (\E i \in 1..Len(p) : p[i] = f) \/ f \in G
  BY <1>2 DEF Extends
<1>5. QED
  BY <1>3, <1>4 DEF Queued, p, q

\* A step that queues no removal, in an iteration that goes on.
LEMMA AloneKept ==
  ASSUME TypeOK, TypeOK', BatchInv, AloneInv, NEW T, NEW F, Evolve(T, F), Grows(F),
         \A l \in Loops, f \in Functors : <<l, f>> \in F => f.op # "remove",
         \A f \in Functors : <<Base, f>> \in F /\ f.op = "destroyed" => phase'[Base] = "events",
         phase[Base] = "events" => phase'[Base] = "events",
         \A c \in Conns : loopOf'[c] \in {loopOf[c], Base}
  PROVE  AloneInv'
<1>1. \A c \in Conns : loopOf'[c] \in {NoLoop, Base}
  BY DEF AloneInv
<1>2. ASSUME NEW l \in Loops, NEW f \in Functors, f.op = "remove", Awaits(l, f)'
      PROVE  FALSE
  <2>1. Awaits(l, f) \/ <<l, f>> \in F
    BY <1>2, AwaitsFrom
  <2>2. QED
    BY <1>2, <2>1 DEF AloneInv
<1>3. ASSUME NEW f \in Functors, f.op = "destroyed", Queued(f)'
      PROVE  phase'[Base] = "events"
  <2>1. Queued(f) \/ <<Base, f>> \in F
    BY <1>3, QueuedFrom
  <2>2. QED
    BY <1>3, <2>1 DEF AloneInv
<1>4. QED
  BY <1>1, <1>2, <1>3 DEF AloneInv

\* Without a pool connectionDestroyed never waits for a second poll().
LEMMA AloneStep ==
  ASSUME Senders = {}, IoLoops = <<>>, AllInv, TypeOK', [Next]_vars
  PROVE  AloneInv'
<1>0. /\ TypeOK /\ TypeOK' /\ BatchInv /\ BatchInv' /\ LoopTypes /\ LoopTypes' /\ ConnTypes
      /\ AloneInv /\ NextLoop = Base /\ Base \in Loops /\ CoreInv
  BY TypeParts, BatchStep, PoolAssumption DEF AllInv, CloseInv, CoreInv, NextLoop
<1>01. ASSUME NEW T, NEW F, Evolve(T, F), Grows(F), UNCHANGED <<phase, loopOf>>,
              \A l \in Loops, f \in Functors : <<l, f>> \in F => f.op \notin {"remove", "destroyed"}
       PROVE  AloneInv'
  BY <1>0, <1>01, AloneKept
<1>1. CASE Bystander
  <2>1. Evolve({}, {}) /\ UNCHANGED <<pending, loopOf>>
    BY <1>1, <1>0, EvolveBystander DEF Bystander
  <2>2. Grows({})
    BY <2>1, NothingAdded
  <2>3. phase[Base] = "events" => phase'[Base] = "events"
    BY <1>1, <1>0 DEF Bystander
  <2>4. QED
    BY <1>0, <2>1, <2>2, <2>3, AloneKept
<1>2. ASSUME NEW c \in Conns, Accept(c)
      PROVE  AloneInv'
  <2>1. Evolve({}, {})
    BY <1>2, <1>0, EvolveAccept
  <2>2. /\ UNCHANGED <<phase, pending>> /\ \A d \in Conns : loopOf'[d] \in {loopOf[d], Base}
    BY <1>2, <1>0 DEF Accept, ConnTypes
  <2>3. Grows({})
    BY <2>2, NothingAdded
  <2>4. QED
    BY <1>0, <2>1, <2>2, <2>3, AloneKept
<1>3. ASSUME NEW l \in Loops, NEW c \in Conns, HandleWrite(l, c), UNCHANGED serverVars
      PROVE  AloneInv'
  <2>1. UNCHANGED <<batch, next, phase, loopOf>>
    BY <1>3 DEF HandleWrite
  <2>2. PICK F \in WriteCompletes(c) : Grows(F)
    <3>1. UNCHANGED pending \/ \E done : QueueWriteComplete(c, done)
      BY <1>3, Zenon DEF HandleWrite
    <3>2. CASE UNCHANGED pending
      BY <3>2, NothingAdded DEF WriteCompletes
    <3>3. QED
      BY <1>0, <3>1, <3>2, WriteCompleteQueued
  <2>3. Evolve({}, F)
    BY <1>0, <2>1, <2>2, EvolveQueued
  <2>4. \A k \in Loops, f \in Functors : <<k, f>> \in F => f.op \notin {"remove", "destroyed"}
    BY <2>2 DEF WriteCompletes, Functor
  <2>5. QED
    BY <1>01, <2>1, <2>2, <2>3, <2>4
<1>4. ASSUME NEW l \in Loops, NEW c \in Conns, HandleClose(l, c)
      PROVE  AloneInv'
  <2>1. loopOf[c] = l /\ phase[l] = "events"
    BY <1>4, CloseFacts
  <2>2. l = Base /\ phase[Base] = "events"
    BY <1>0, <2>1, SentinelAssumption DEF AloneInv
  <2>3. UNCHANGED <<batch, next, phase, loopOf>> /\ RemoveConnectionInLoop(c, pending)
    BY <1>4, <2>2 DEF HandleClose, CloseConnection, RemoveConnection
  <2> DEFINE F == {<<loopOf[c], Functor("destroyed", c)>>}
  <2>4. Grows(F)
    BY <1>0, <2>3, RemovalQueued
  <2>5. \A k \in Loops, f \in Functors : <<k, f>> \in F => f.op # "remove"
    BY DEF Functor
  <2> HIDE DEF F
  <2>6. Evolve({}, F)
    BY <1>0, <2>3, <2>4, EvolveQueued
  <2>7. QED
    BY <1>0, <2>2, <2>3, <2>4, <2>5, <2>6, AloneKept
<1>5. ASSUME NEW l \in Loops, SwapFunctors(l)
      PROVE  AloneInv'
  <2>1. Evolve({}, {}) /\ loopOf' = loopOf
    BY <1>5, <1>0, EvolveSwap DEF SwapFunctors, connVars
  <2>2. /\ l = Base => pending'[Base] = <<>>
        /\ l # Base => pending'[Base] = pending[Base] /\ phase'[Base] = phase[Base]
    BY <1>5, <1>0, TypeParts DEF SwapFunctors, QueueTypes, LoopTypes
  <2>3. ASSUME NEW f \in Functors, f.op = "destroyed", Queued(f)'
        PROVE  phase'[Base] = "events"
    <3>1. l # Base
      <4>1. l = Base => Len(pending'[Base]) = 0
        BY <2>2
      <4>2. QED
        BY <2>3, <4>1 DEF Queued
    <3>2. Queued(f)
      BY <2>2, <2>3, <3>1 DEF Queued
    <3>3. QED
      BY <1>0, <2>2, <2>3, <3>1, <3>2 DEF AloneInv
  <2>4. ASSUME NEW k \in Loops, NEW f \in Functors, f.op = "remove", Awaits(k, f)'
        PROVE  FALSE
    <3> DEFINE T == {}
               F == {}
    <3>1. Evolve(T, F) /\ <<k, f>> \notin F
      BY <2>1
    <3> HIDE DEF T, F
    <3>2. Awaits(k, f)
      BY <1>0, <2>4, <3>1, AwaitsFrom
    <3>3. QED
      BY <1>0, <2>4, <3>2 DEF AloneInv
  <2>5. QED
    BY <1>0, <2>1, <2>3, <2>4 DEF AloneInv
<1>6. ASSUME NEW l \in Loops, NEW c \in Conns, RunEstablished(l, c)
      PROVE  AloneInv'
  <2>1. Evolve({l}, {})
    BY <1>6, <1>0, EvolveQuietRun DEF RunEstablished
  <2>2. UNCHANGED <<phase, loopOf, pending>>
    BY <1>6 DEF RunEstablished, connVars
  <2>3. Grows({})
    BY <2>2, NothingAdded
  <2>4. QED
    BY <1>01, <2>1, <2>2, <2>3
<1>7. ASSUME NEW l \in Loops, NEW c \in Conns, RunDestroyed(l, c)
      PROVE  AloneInv'
  <2>1. Evolve({l}, {})
    BY <1>7, <1>0, EvolveQuietRun DEF RunDestroyed
  <2>2. UNCHANGED <<phase, loopOf, pending>>
    BY <1>7 DEF RunDestroyed, connVars
  <2>3. Grows({})
    BY <2>2, NothingAdded
  <2>4. QED
    BY <1>01, <2>1, <2>2, <2>3
<1>8. ASSUME NEW l \in Loops, NEW c \in Conns, RunRemove(l, c)
      PROVE  AloneInv'
  <2>1. Runs(l, "remove", c)
    BY <1>8 DEF RunRemove
  <2>2. QED
    BY <1>0, <2>1, RunFacts DEF AloneInv
<1>9. ASSUME NEW l \in Loops, NEW c \in Conns, RunWriteComplete(l, c)
      PROVE  AloneInv'
  <2>1. Evolve({l}, {})
    BY <1>9, <1>0, EvolveQuietRun DEF RunWriteComplete
  <2>2. UNCHANGED <<phase, loopOf, pending>>
    BY <1>9 DEF RunWriteComplete, connVars
  <2>3. Grows({})
    BY <2>2, NothingAdded
  <2>4. QED
    BY <1>01, <2>1, <2>2, <2>3
<1>10. ASSUME NEW l \in Loops, NEW c \in Conns, RunSend(l, c)
      PROVE  AloneInv'
  <2>1. Runs(l, "send", c)
    BY <1>10, Zenon DEF RunSend
  <2>2. QED
    BY <2>1, RunFacts DEF QuietFunctor
<1>11. ASSUME NEW l \in Loops, NEW c \in Conns, RunShutdown(l, c)
      PROVE  AloneInv'
  <2>1. Runs(l, "shutdown", c)
    BY <1>11, Zenon DEF RunShutdown
  <2>2. QED
    BY <2>1, RunFacts DEF QuietFunctor
<1>12. ASSUME NEW l \in Loops, FunctorsDone(l)
      PROVE  AloneInv'
  <2>1. Evolve({}, {}) /\ UNCHANGED <<loopOf, pending>>
    BY <1>12, <1>0, EvolveDone DEF FunctorsDone, connVars
  <2>2. Grows({})
    BY <2>1, NothingAdded
  <2>3. phase[Base] = "events" => phase'[Base] = "events"
    BY <1>12, <1>0 DEF FunctorsDone, LoopTypes
  <2>4. QED
    BY <1>0, <2>1, <2>2, <2>3, AloneKept
<1>13. ASSUME NEW l \in Loops, LoopSend(l)
      PROVE  AloneInv'
  <2>1. UNCHANGED <<batch, next, phase, loopOf>>
    BY <1>13 DEF LoopSend
  <2>2. PICK c \in Conns : SendInLoop(c, Message(l))
    BY <1>13, SendFacts
  <2>3. PICK F \in WriteCompletes(c) : Grows(F)
    BY <1>0, <2>2, SendQueued
  <2>4. Evolve({}, F)
    BY <1>0, <2>1, <2>3, EvolveQueued
  <2>5. \A k \in Loops, f \in Functors : <<k, f>> \in F => f.op \notin {"remove", "destroyed"}
    BY <2>3 DEF WriteCompletes, Functor
  <2>6. QED
    BY <1>01, <2>1, <2>3, <2>4, <2>5
<1>14. ASSUME NEW l \in Loops, LoopShutdown(l)
      PROVE  AloneInv'
  <2>1. Evolve({}, {})
    BY <1>14, <1>0, EvolveBystander DEF LoopShutdown, loopVars
  <2>2. UNCHANGED <<phase, loopOf, pending>>
    BY <1>14 DEF LoopShutdown, loopVars
  <2>3. Grows({})
    BY <2>2, NothingAdded
  <2>4. QED
    BY <1>01, <2>1, <2>2, <2>3
<1>15. ASSUME NEW s \in Senders, SendQueues(s)
      PROVE  AloneInv'
  BY <1>15
<1>16. ASSUME NEW s \in Senders, ShutdownSets(s)
      PROVE  AloneInv'
  BY <1>16
<1>17. ASSUME NEW s \in Senders, ShutdownQueues(s)
      PROVE  AloneInv'
  BY <1>17
<1>18. QED
  BY <1>1, <1>2, <1>3, <1>4, <1>5, <1>6, <1>7, <1>8, <1>9, <1>10, <1>11, <1>12, <1>13, <1>14,
       <1>15, <1>16, <1>17, <1>0, StepCases DEF Busy

\* The invariant is inductive when connections are closed once.
LEMMA CloseStep ==
  ASSUME Senders = {}, HupUnasked => IoLoops = <<>>, AllInv, CoreInv', [Next]_vars
  PROVE  CloseInv'
<1>1. TypeOK'
  BY DEF CoreInv
<1>2. failed' = "none" /\ ChannelInv'
  BY FailedStep, ChannelStep
<1>3. ReventsInv'
  BY ReventsStep
<1>4. EndInv' /\ OneEnd'
  BY <1>1, EndStep
<1>5. IoLoops = <<>> => AloneInv'
  BY <1>1, AloneStep
<1>6. QED
  BY <1>2, <1>3, <1>4, <1>5 DEF CloseInv

\* The invariant of destruction holds in every instance.
LEMMA DestroyHolds == Spec => []DestroyInv
<1>1. CoreInv /\ CoreInv' /\ DestroyInv /\ [Next]_vars => DestroyInv'
  BY DestroyStep
<1>2. QED
  BY <1>1, CoreHolds, DestroyInit, PTL DEF Spec

\* No assertion of TcpServer, TcpConnection and the poller fails when users call
\* from callbacks, with poll(2) or without a pool.  (With epoll a connection of
\* a pool may be closed a second time by a hang-up, before connectionDestroyed
\* has reached its loop.)
THEOREM NoAssertionFails ==
  Senders = {} /\ (HupUnasked => IoLoops = <<>>) => (Spec => []AssertionsHold)
<1> SUFFICES ASSUME Senders = {}, HupUnasked => IoLoops = <<>>
             PROVE  Spec => []AssertionsHold
  OBVIOUS
<1>1. Init => CloseInv
  BY CoreInit, CloseInit
<1>2. CoreInv /\ CoreInv' /\ DestroyInv /\ QuietInv /\ CloseInv /\ [Next]_vars => CloseInv'
  BY CloseStep DEF AllInv
<1>3. CloseInv => AssertionsHold
  BY DEF CloseInv, AssertionsHold
<1>4. QED
  BY <1>1, <1>2, <1>3, CoreHolds, DestroyHolds, QuietHolds, PTL DEF Spec
==============================================================================
