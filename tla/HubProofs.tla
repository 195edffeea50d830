------------------------------ MODULE HubProofs ------------------------------
(***************************************************************************)
(* Proofs about Hub for any clients, topics and numbers of requests: the   *)
(* audiences are as the clients wish, and subscribers miss nothing, hear   *)
(* publications in order, and hear the last one last.                      *)
(* The lines between a client and the hub are seen as one sequence,        *)
(* ToCome, wherever they are, and the publications between the hub and a   *)
(* client as another, Delivered; a step adds to the end of them, or uses   *)
(* up the head.                                                            *)
(***************************************************************************)
EXTENDS Hub, SequenceTheorems, TLAPS

------------------------------------------------------------------------------
(* The inductive invariant.                                                *)

\* The lines of a client that the hub has not used: those it has read, then
\* those in the socket.
ToCome(c) == hubBuffer[c] \o toHub[c]

\* A request that changes whether its client is in the audience of t; whether
\* there is none among lines, and which is the last.
About(line, t) == line.cmd \in {"sub", "unsub"} /\ line.topic = t
NoneAbout(q, t) == \A i \in DOMAIN q : ~About(q[i], t)
LastAbout(q, i, t) == About(q[i], t) /\ \A j \in DOMAIN q : i < j => ~About(q[j], t)

\* A publication is a "pub" with its text behind it, and no text is elsewhere.
Formed(q) ==
  \A i \in DOMAIN q :
    /\ q[i].cmd = "pub" => i + 1 \in DOMAIN q /\ q[i + 1].cmd = "text"
    /\ q[i].cmd = "text" => i # 1 /\ q[i - 1].cmd = "pub"

\* The lines of n publications; of any number of them.
Pairs(q, n) ==
  /\ Len(q) = 2 * n
  /\ \A i \in 1..n : q[2 * i - 1].cmd = "pub" /\ q[2 * i].cmd = "text"
Whole(q) == \E n \in Nat : Pairs(q, n)

\* Who never connected has left no trace.
NewInv ==
  \A c \in Clients :
    conn[c] = "new" => /\ c \notin accepted /\ wants[c] = {} /\ ToCome(c) = <<>>
                       /\ \A t \in Topics : c \notin audiences[t]

\* Lines arrive as they were sent; a client that lives is given whole
\* publications.
FormInv ==
  \A c \in Clients : /\ Formed(ToCome(c))
                     /\ c \notin crashed => Whole(toClient[c])

\* The last request of a client about a topic is its wish; when there is none on
\* its way, the audience is as it wishes.
WantInv ==
  \A c \in accepted, t \in Topics :
    /\ NoneAbout(ToCome(c), t) => (c \in audiences[t] <=> t \in wants[c])
    /\ \A i \in DOMAIN ToCome(c) :
         LastAbout(ToCome(c), i, t) => (ToCome(c)[i].cmd = "sub" <=> t \in wants[c])

\* The publications of a client are numbered as it made them.
TextInv ==
  \A c \in Clients :
    /\ \A i \in DOMAIN ToCome(c) : ToCome(c)[i].cmd = "text" =>
         /\ ToCome(c)[i].text[1] = c /\ ToCome(c)[i].text[2] <= calls[c]
         /\ \A j \in DOMAIN ToCome(c) : i < j /\ ToCome(c)[j].cmd = "text" =>
              ToCome(c)[i].text[2] < ToCome(c)[j].text[2]
         /\ \A t \in Topics, k \in Nat : k \in DOMAIN published[t] /\ published[t][k][1] = c =>
              published[t][k][2] < ToCome(c)[i].text[2]
    /\ \A t \in Topics : \A k \in DOMAIN published[t] :
         published[t][k][1] = c => published[t][k][2] <= calls[c]

\* Every topic has its publications once, and the last one as its content.
TopicInv ==
  \A t \in Topics :
    /\ \A i, j \in DOMAIN published[t] : published[t][i] = published[t][j] => i = j
    /\ content[t] = IF published[t] = <<>> THEN None ELSE published[t][Len(published[t])]

\* What is delivered was published.
HeardInv ==
  \A c \in Clients : \A i \in DOMAIN Delivered(c) :
    \E k \in DOMAIN published[Delivered(c)[i][1]] :
      Delivered(c)[i][2] = published[Delivered(c)[i][1]][k]

\* Nothing published since a client subscribed escapes it.
MissInv ==
  \A c \in Clients, t \in Topics : Listens(c, t) =>
    \A k \in joined[<<c, t>>] + 1 .. Len(published[t]) :
      \E i \in DOMAIN Delivered(c) : Delivered(c)[i] = <<t, published[t][k]>>

\* The publications of a topic are delivered in their order.
OrderInv ==
  \A c \in Clients, t \in Topics : \A i, j \in DOMAIN Delivered(c) :
    i < j /\ Delivered(c)[i][1] = t /\ Delivered(c)[j][1] = t =>
      \A a, b \in DOMAIN published[t] :
        Delivered(c)[i][2] = published[t][a] /\ Delivered(c)[j][2] = published[t][b] => a <= b

HubInv == /\ TypeOK /\ NewInv /\ FormInv /\ WantInv /\ TextInv /\ TopicInv /\ HeardInv
          /\ SubscribersAreUpToDate /\ MissInv /\ OrderInv


------------------------------------------------------------------------------
(* Lines and publications as sequences.                                    *)

\* A line is a request or a text.
LEMMA LineFacts ==
  ASSUME NEW x \in Lines
  PROVE  /\ x.cmd \in {"sub", "unsub", "pub", "text"}
         /\ x.cmd = "text" => x.text \in Contents
         /\ x.cmd # "text" => x.topic \in Topics /\ x = Request(x.cmd, x.topic)
<1>1. CASE x \in Requests
  BY <1>1 DEF Requests, Request
<1>2. CASE x \in [cmd : {"text"}, text : Contents]
  BY <1>2
<1>3. QED
  BY <1>1 DEF Lines

\* The lines of a publication.
LEMMA PublicationFacts ==
  ASSUME NEW t \in Topics, NEW m \in Contents
  PROVE  /\ Publication(t, m) \in Seq(Lines) /\ Len(Publication(t, m)) = 2
         /\ Publication(t, m)[1] = Request("pub", t) /\ Publication(t, m)[2] = Text(m)
         /\ Request("pub", t).cmd = "pub" /\ Request("pub", t).topic = t
         /\ Text(m).cmd = "text" /\ Text(m).text = m
<1>1. Request("pub", t) \in Lines /\ Text(m) \in Lines
  BY DEF Request, Text, Lines, Requests
<1>2. QED
  BY <1>1 DEF Publication, Request, Text

\* One sequence behind another.
LEMMA ConcatFacts ==
  ASSUME NEW S, NEW q \in Seq(S), NEW r \in Seq(S)
  PROVE  /\ q \o r \in Seq(S) /\ Len(q) \in Nat /\ Len(r) \in Nat
         /\ Len(q \o r) = Len(q) + Len(r)
         /\ DOMAIN (q \o r) = 1..(Len(q) + Len(r))
         /\ \A i \in 1..(Len(q) + Len(r)) :
              /\ (q \o r)[i] = IF i <= Len(q) THEN q[i] ELSE r[i - Len(q)]
              /\ (q \o r)[i] \in S
<1>1. Len(q) \in Nat /\ Len(r) \in Nat
  BY LenProperties
<1> DEFINE x == q \o r
<1>2. /\ x \in Seq(S) /\ Len(x) = Len(q) + Len(r)
      /\ \A i \in 1..(Len(q) + Len(r)) : x[i] = IF i <= Len(q) THEN q[i] ELSE r[i - Len(q)]
  BY ConcatProperties
<1> HIDE DEF x
<1>3. DOMAIN x = 1..Len(x) /\ \A i \in 1..Len(x) : x[i] \in S
  BY <1>2
<1>4. QED
  OBVIOUS

\* The first n elements, and those behind them.
LEMMA PartFacts ==
  ASSUME NEW S, NEW q \in Seq(S), NEW n \in 0..Len(q)
  PROVE  /\ SubSeq(q, 1, n) \in Seq(S) /\ SubSeq(q, n + 1, Len(q)) \in Seq(S)
         /\ Len(SubSeq(q, 1, n)) = n /\ Len(SubSeq(q, n + 1, Len(q))) = Len(q) - n
         /\ \A i \in 1..n : SubSeq(q, 1, n)[i] = q[i]
         /\ \A i \in 1..(Len(q) - n) : SubSeq(q, n + 1, Len(q))[i] = q[n + i]
<1>1. Len(q) \in Nat /\ n \in Nat /\ \A i \in 1..Len(q) : q[i] \in S
  BY LenProperties, ElementOfSeq
<1>2. \A i \in 1..n : q[i] \in S
  BY <1>1
<1>3. /\ SubSeq(q, 1, n) \in Seq(S)
      /\ Len(SubSeq(q, 1, n)) = IF 1 <= n THEN n - 1 + 1 ELSE 0
      /\ \A i \in 1..(n - 1 + 1) : SubSeq(q, 1, n)[i] = q[1 + i - 1]
  OBVIOUS
<1>4. \A i \in (n + 1)..Len(q) : q[i] \in S
  BY <1>1
<1>5. /\ SubSeq(q, n + 1, Len(q)) \in Seq(S)
      /\ Len(SubSeq(q, n + 1, Len(q))) = IF n + 1 <= Len(q) THEN Len(q) - (n + 1) + 1 ELSE 0
      /\ \A i \in 1..(Len(q) - (n + 1) + 1) : SubSeq(q, n + 1, Len(q))[i] = q[n + 1 + i - 1]
  <2>1. n + 1 \in Int /\ Len(q) \in Int
    BY <1>1
  <2>2. QED
    OBVIOUS
<1> DEFINE u == SubSeq(q, 1, n)
           v == SubSeq(q, n + 1, Len(q))
<1>6. /\ u \in Seq(S) /\ Len(u) = (IF 1 <= n THEN n - 1 + 1 ELSE 0)
      /\ \A i \in 1..(n - 1 + 1) : u[i] = q[1 + i - 1]
  BY <1>3
<1>7. /\ v \in Seq(S) /\ Len(v) = (IF n + 1 <= Len(q) THEN Len(q) - (n + 1) + 1 ELSE 0)
      /\ \A i \in 1..(Len(q) - (n + 1) + 1) : v[i] = q[n + 1 + i - 1]
  BY <1>5
<1> HIDE DEF u, v
<1>8. /\ Len(u) = n /\ Len(v) = Len(q) - n
      /\ n - 1 + 1 = n /\ Len(q) - (n + 1) + 1 = Len(q) - n
  BY <1>6, <1>7
<1>9. \A i \in 1..n : u[i] = q[i]
  BY <1>6
<1>10. \A i \in 1..(Len(q) - n) : v[i] = q[n + i]
  <2>1. \A i \in 1..(Len(q) - n) : n + 1 + i - 1 = n + i
    BY <1>1
  <2>2. QED
    BY <1>7
<1>11. QED
  OBVIOUS

\* Reading lines moves them from the socket to the end of the buffer.
LEMMA ReadKeeps ==
  ASSUME NEW S, NEW a \in Seq(S), NEW b \in Seq(S), NEW n \in 1..Len(b)
  PROVE  (a \o SubSeq(b, 1, n)) \o SubSeq(b, n + 1, Len(b)) = a \o b
<1> DEFINE u == SubSeq(b, 1, n)
           v == SubSeq(b, n + 1, Len(b))
           w == a \o u
           x == w \o v
           y == a \o b
<1>0. Len(a) \in Nat /\ Len(b) \in Nat /\ n \in 0..Len(b)
  BY LenProperties
<1>1. /\ u \in Seq(S) /\ v \in Seq(S) /\ Len(u) = n /\ Len(v) = Len(b) - n
      /\ \A i \in 1..n : u[i] = b[i]
      /\ \A i \in 1..(Len(b) - n) : v[i] = b[n + i]
  BY <1>0, PartFacts
<1> HIDE DEF u, v
<1>2. /\ w \in Seq(S) /\ Len(w) = Len(a) + Len(u)
      /\ \A i \in 1..(Len(a) + Len(u)) : w[i] = IF i <= Len(a) THEN a[i] ELSE u[i - Len(a)]
  <2>1. u \in Seq(S)
    BY <1>1
  <2>2. QED
    BY <2>1, ConcatFacts
<1> HIDE DEF w
<1>3. /\ x \in Seq(S) /\ Len(x) = Len(w) + Len(v)
      /\ \A i \in 1..(Len(w) + Len(v)) : x[i] = IF i <= Len(w) THEN w[i] ELSE v[i - Len(w)]
  <2>1. w \in Seq(S) /\ v \in Seq(S)
    BY <1>1, <1>2
  <2>2. QED
    BY <2>1, ConcatFacts
<1>4. /\ y \in Seq(S) /\ Len(y) = Len(a) + Len(b)
      /\ \A i \in 1..(Len(a) + Len(b)) : y[i] = IF i <= Len(a) THEN a[i] ELSE b[i - Len(a)]
  BY ConcatFacts
<1> HIDE DEF x, y
<1>5. Len(w) = Len(a) + n /\ Len(x) = Len(a) + Len(b) /\ Len(x) = Len(y)
  BY <1>1, <1>2, <1>3, <1>4
<1>6. ASSUME NEW i \in 1..Len(x) PROVE x[i] = y[i]
  <2>1. CASE i <= Len(a)
    <3>1. /\ i \in 1..(Len(w) + Len(v)) /\ i \in 1..(Len(a) + Len(u)) /\ i <= Len(w)
          /\ i \in 1..(Len(a) + Len(b))
      BY <1>5, <2>1
    <3>2. x[i] = w[i] /\ w[i] = a[i] /\ y[i] = a[i]
      BY <1>2, <1>3, <1>4, <2>1
    <3>3. QED
      BY <3>2
  <2>2. CASE Len(a) < i /\ i <= Len(a) + n
    <3>1. /\ i - Len(a) \in 1..n /\ i \in 1..(Len(w) + Len(v)) /\ i \in 1..(Len(a) + Len(u))
          /\ i <= Len(w) /\ ~(i <= Len(a))
      BY <1>1, <1>5, <2>2
    <3>2. x[i] = w[i] /\ w[i] = u[i - Len(a)] /\ u[i - Len(a)] = b[i - Len(a)]
      BY <1>1, <1>2, <1>3, <3>1
    <3>3. y[i] = b[i - Len(a)]
      BY <1>4, <2>2
    <3>4. QED
      BY <3>2, <3>3
  <2>3. CASE Len(a) + n < i
    <3>1. /\ i - Len(w) \in 1..(Len(b) - n) /\ n + (i - Len(w)) = i - Len(a)
          /\ i \in 1..(Len(w) + Len(v)) /\ ~(i <= Len(w)) /\ ~(i <= Len(a))
          /\ i \in 1..(Len(a) + Len(b))
      BY <1>1, <1>5, <2>3
    <3>2. x[i] = v[i - Len(w)] /\ v[i - Len(w)] = b[n + (i - Len(w))] /\ y[i] = b[i - Len(a)]
      BY <1>1, <1>3, <1>4, <3>1
    <3>3. QED
      BY <3>1, <3>2
  <2>4. QED
    BY <2>1, <2>2, <2>3
<1>7. x = y
  BY <1>3, <1>4, <1>5, <1>6
<1>8. QED
  BY <1>7 DEF x, y, w, u, v

\* Using up the first k lines of the buffer.
LEMMA UseFacts ==
  ASSUME NEW S, NEW a \in Seq(S), NEW b \in Seq(S), NEW k \in 0..Len(a)
  PROVE  /\ SubSeq(a, k + 1, Len(a)) \in Seq(S)
         /\ SubSeq(a, k + 1, Len(a)) \o b \in Seq(S)
         /\ Len(SubSeq(a, k + 1, Len(a)) \o b) = Len(a \o b) - k
         /\ \A i \in 1..(Len(a \o b) - k) : (SubSeq(a, k + 1, Len(a)) \o b)[i] = (a \o b)[k + i]
<1> DEFINE u == SubSeq(a, k + 1, Len(a))
           x == u \o b
           y == a \o b
<1>0. Len(a) \in Nat /\ Len(b) \in Nat /\ k \in Nat
  BY LenProperties
<1>1. /\ u \in Seq(S) /\ Len(u) = Len(a) - k
      /\ \A i \in 1..(Len(a) - k) : u[i] = a[k + i]
  BY PartFacts
<1> HIDE DEF u
<1>2. /\ x \in Seq(S) /\ Len(x) = Len(u) + Len(b)
      /\ \A i \in 1..(Len(u) + Len(b)) : x[i] = IF i <= Len(u) THEN u[i] ELSE b[i - Len(u)]
  BY <1>1, ConcatFacts
<1>3. /\ Len(y) = Len(a) + Len(b)
      /\ \A i \in 1..(Len(a) + Len(b)) : y[i] = IF i <= Len(a) THEN a[i] ELSE b[i - Len(a)]
  BY ConcatFacts
<1> HIDE DEF x, y
<1>4. Len(x) = Len(y) - k
  BY <1>1, <1>2, <1>3
<1>5. ASSUME NEW i \in 1..(Len(y) - k) PROVE x[i] = y[k + i]
  <2>1. CASE i <= Len(u)
    <3>1. /\ i \in 1..(Len(u) + Len(b)) /\ k + i \in 1..(Len(a) + Len(b)) /\ k + i <= Len(a)
          /\ i \in 1..(Len(a) - k)
      BY <1>1, <2>1
    <3>2. x[i] = u[i] /\ u[i] = a[k + i] /\ y[k + i] = a[k + i]
      BY <1>1, <1>2, <1>3, <3>1
    <3>3. QED
      BY <3>2
  <2>2. CASE ~(i <= Len(u))
    <3>1. /\ i \in 1..(Len(u) + Len(b)) /\ k + i \in 1..(Len(a) + Len(b)) /\ ~(k + i <= Len(a))
          /\ i - Len(u) = k + i - Len(a)
      BY <1>1, <1>3, <2>2
    <3>2. x[i] = b[i - Len(u)] /\ y[k + i] = b[k + i - Len(a)]
      BY <1>2, <1>3, <2>2, <3>1
    <3>3. QED
      BY <3>1, <3>2
  <2>3. QED
    BY <2>1, <2>2
<1>6. QED
  BY <1>2 DEF x, y, u

------------------------------------------------------------------------------
(* Publications among lines.                                               *)

\* p is the beginning of q.
Begins(p, q) == \A i \in DOMAIN p : i \in DOMAIN q /\ p[i] = q[i]

\* Half of an even and of an odd number.
LEMMA Halves ==
  \A n \in Nat : (2 * n) \div 2 = n /\ (2 * n + 1) \div 2 = n
  OBVIOUS

\* The publications in the first n pairs of lines.
LEMMA PublicationsFacts ==
  ASSUME NEW q \in Seq(Lines), NEW n \in Nat, Len(q) \div 2 = n,
         \A i \in 1..n : q[2 * i - 1].cmd = "pub" /\ q[2 * i].cmd = "text",
         2 * n <= Len(q)
  PROVE  /\ Publications(q) \in Seq(Topics \X Contents)
         /\ Len(Publications(q)) = n
         /\ \A i \in 1..n : Publications(q)[i] = <<q[2 * i - 1].topic, q[2 * i].text>>
<1>1. Publications(q) = [i \in 1..n |-> <<q[2 * i - 1].topic, q[2 * i].text>>]
  BY DEF Publications
<1>2. ASSUME NEW i \in 1..n
      PROVE  <<q[2 * i - 1].topic, q[2 * i].text>> \in Topics \X Contents
  <2>1. 2 * i - 1 \in 1..Len(q) /\ 2 * i \in 1..Len(q)
    BY LenProperties
  <2>2. q[2 * i - 1] \in Lines /\ q[2 * i] \in Lines
    BY <2>1, ElementOfSeq
  <2>3. q[2 * i - 1].topic \in Topics /\ q[2 * i].text \in Contents
    BY <2>2, LineFacts
  <2>4. QED
    BY <2>3
<1> DEFINE p == Publications(q)
<1>3. p \in [1..n -> Topics \X Contents]
  BY <1>1, <1>2
<1> HIDE DEF p
<1>4. p \in Seq(Topics \X Contents) /\ Len(p) = n
  BY <1>3
<1>5. QED
  BY <1>1, <1>4 DEF p

\* Whole publications.
LEMMA WholeFacts ==
  ASSUME NEW q \in Seq(Lines), NEW n \in Nat, Pairs(q, n)
  PROVE  /\ Publications(q) \in Seq(Topics \X Contents)
         /\ Len(Publications(q)) = n
         /\ \A i \in 1..n : Publications(q)[i] = <<q[2 * i - 1].topic, q[2 * i].text>>
<1>1. Len(q) \div 2 = n /\ 2 * n <= Len(q)
  BY Halves DEF Pairs
<1>2. QED
  BY <1>1, PublicationsFacts DEF Pairs

\* A publication behind others.
LEMMA OneMore ==
  ASSUME NEW q \in Seq(Lines), NEW n \in Nat, Pairs(q, n), NEW t \in Topics, NEW m \in Contents
  PROVE  /\ q \o Publication(t, m) \in Seq(Lines)
         /\ Pairs(q \o Publication(t, m), n + 1)
         /\ Publications(q \o Publication(t, m)) = Append(Publications(q), <<t, m>>)
<1> DEFINE u == Publication(t, m)
           x == q \o u
           p == Publications(q)
<1>1. /\ u \in Seq(Lines) /\ Len(u) = 2 /\ u[1].cmd = "pub" /\ u[1].topic = t
      /\ u[2].cmd = "text" /\ u[2].text = m
  BY PublicationFacts
<1> HIDE DEF u
<1>2. /\ x \in Seq(Lines) /\ Len(x) = Len(q) + Len(u)
      /\ \A i \in 1..(Len(q) + Len(u)) : x[i] = IF i <= Len(q) THEN q[i] ELSE u[i - Len(q)]
  <2>1. u \in Seq(Lines)
    BY <1>1
  <2>2. QED
    BY <2>1, ConcatFacts
<1> HIDE DEF x
<1>3. Len(q) = 2 * n /\ Len(x) = 2 * (n + 1)
  BY <1>1, <1>2 DEF Pairs
<1>4. /\ \A i \in 1..n : x[2 * i - 1] = q[2 * i - 1] /\ x[2 * i] = q[2 * i]
      /\ x[2 * (n + 1) - 1] = u[1] /\ x[2 * (n + 1)] = u[2]
  <2>1. ASSUME NEW i \in 1..n PROVE x[2 * i - 1] = q[2 * i - 1] /\ x[2 * i] = q[2 * i]
    <3>1. /\ 2 * i - 1 \in 1..(Len(q) + Len(u)) /\ 2 * i \in 1..(Len(q) + Len(u))
          /\ 2 * i - 1 <= Len(q) /\ 2 * i <= Len(q)
      BY <1>1, <1>3
    <3>2. QED
      BY <1>2, <3>1
  <2>2. /\ 2 * (n + 1) - 1 \in 1..(Len(q) + Len(u)) /\ 2 * (n + 1) \in 1..(Len(q) + Len(u))
        /\ ~(2 * (n + 1) - 1 <= Len(q)) /\ ~(2 * (n + 1) <= Len(q))
        /\ 2 * (n + 1) - 1 - Len(q) = 1 /\ 2 * (n + 1) - Len(q) = 2
    BY <1>1, <1>3
  <2>3. x[2 * (n + 1) - 1] = u[1] /\ x[2 * (n + 1)] = u[2]
    BY <1>2, <2>2
  <2>4. QED
    BY <2>1, <2>3
<1>5. Pairs(x, n + 1)
  <2>1. ASSUME NEW i \in 1..(n + 1) PROVE x[2 * i - 1].cmd = "pub" /\ x[2 * i].cmd = "text"
    <3>1. CASE i \in 1..n
      BY <1>4, <3>1 DEF Pairs
    <3>2. CASE i = n + 1
      BY <1>1, <1>4, <3>2
    <3>3. QED
      BY <3>1, <3>2
  <2>2. QED
    BY <1>3, <2>1 DEF Pairs
<1>6. /\ p \in Seq(Topics \X Contents) /\ Len(p) = n
      /\ \A i \in 1..n : p[i] = <<q[2 * i - 1].topic, q[2 * i].text>>
  BY WholeFacts
<1> DEFINE y == Publications(x)
<1>7. /\ y \in Seq(Topics \X Contents) /\ Len(y) = n + 1
      /\ \A i \in 1..(n + 1) : y[i] = <<x[2 * i - 1].topic, x[2 * i].text>>
  <2>1. n + 1 \in Nat
    OBVIOUS
  <2>2. QED
    BY <1>2, <1>5, <2>1, WholeFacts
<1> HIDE DEF y, p
<1> DEFINE z == Append(p, <<t, m>>)
<1>8. /\ z \in Seq(Topics \X Contents) /\ Len(z) = n + 1
      /\ \A i \in 1..n : z[i] = p[i]
      /\ z[n + 1] = <<t, m>>
  <2>1. <<t, m>> \in Topics \X Contents
    OBVIOUS
  <2>2. QED
    BY <1>6
<1> HIDE DEF z
<1>9. ASSUME NEW i \in 1..Len(y) PROVE y[i] = z[i]
  <2>1. CASE i \in 1..n
    <3>1. y[i] = <<x[2 * i - 1].topic, x[2 * i].text>>
      <4>1. i \in 1..(n + 1)
        BY <2>1
      <4>2. QED
        BY <1>7, <4>1
    <3>2. z[i] = <<q[2 * i - 1].topic, q[2 * i].text>>
      BY <1>6, <1>8, <2>1
    <3>3. QED
      BY <1>4, <2>1, <3>1, <3>2
  <2>2. CASE i = n + 1
    BY <1>1, <1>4, <1>7, <1>8, <2>2
  <2>3. QED
    BY <1>7, <2>1, <2>2
<1>10. y = z
  BY <1>7, <1>8, <1>9
<1>11. QED
  BY <1>2, <1>5, <1>10 DEF x, y, z, p, u

\* A line alone: the parser waits for the text of a publication.
LEMMA LoneLine ==
  ASSUME NEW x
  PROVE  ParseResult(<<x>>) = "undefined" <=> x.cmd = "pub"
<1>1. <<x>> # <<>> /\ Head(<<x>>) = x
  OBVIOUS
<1>2. QED
  BY <1>1 DEF ParseResult

\* A number is even or odd.
LEMMA Parity ==
  \A n \in Nat : \E k \in Nat : n = 2 * k \/ n = 2 * k + 1
<1>1. ASSUME NEW n \in Nat PROVE \E k \in Nat : n = 2 * k \/ n = 2 * k + 1
  <2>1. n \div 2 \in Nat /\ (n = 2 * (n \div 2) \/ n = 2 * (n \div 2) + 1)
    OBVIOUS
  <2>2. QED
    BY <2>1
<1>2. QED
  BY <1>1

\* A client that reads whole publications hears what it was to hear.
LEMMA ReadWhole ==
  ASSUME NEW q \in Seq(Lines), NEW n \in Nat, Pairs(q, n), NEW k \in 1..n
  PROVE  /\ SubSeq(q, 1, 2 * k) \in Seq(Lines)
         /\ SubSeq(q, 2 * k + 1, Len(q)) \in Seq(Lines)
         /\ Pairs(SubSeq(q, 1, 2 * k), k)
         /\ Pairs(SubSeq(q, 2 * k + 1, Len(q)), n - k)
         /\ Publications(SubSeq(q, 1, 2 * k)) \o Publications(SubSeq(q, 2 * k + 1, Len(q)))
              = Publications(q)
         /\ ParseResult(<<SubSeq(q, 1, 2 * k)[2 * k]>>) # "undefined"
<1> DEFINE u == SubSeq(q, 1, 2 * k)
           v == SubSeq(q, 2 * k + 1, Len(q))
<1>1. /\ u \in Seq(Lines) /\ v \in Seq(Lines)
      /\ Len(u) = 2 * k /\ Len(v) = Len(q) - 2 * k /\ Len(q) = 2 * n
      /\ \A i \in 1..(2 * k) : u[i] = q[i]
      /\ \A i \in 1..(Len(q) - 2 * k) : v[i] = q[2 * k + i]
  <2> DEFINE j == 2 * k
  <2>1. Len(q) = 2 * n
    BY DEF Pairs
  <2>2. j \in 0..Len(q)
    BY <2>1
  <2> HIDE DEF j
  <2>3. QED
    BY <2>1 DEF j
<1> HIDE DEF u, v
<1>2. ASSUME NEW i \in 1..k PROVE u[2 * i - 1] = q[2 * i - 1] /\ u[2 * i] = q[2 * i]
  <2>1. 2 * i - 1 \in 1..(2 * k) /\ 2 * i \in 1..(2 * k)
    OBVIOUS
  <2>2. QED
    BY <1>1, <2>1
<1>3. ASSUME NEW i \in 1..(n - k)
      PROVE  v[2 * i - 1] = q[2 * (k + i) - 1] /\ v[2 * i] = q[2 * (k + i)] /\ k + i \in 1..n
  <2>1. /\ 2 * i - 1 \in 1..(Len(q) - 2 * k) /\ 2 * i \in 1..(Len(q) - 2 * k)
        /\ 2 * k + (2 * i - 1) = 2 * (k + i) - 1 /\ 2 * k + 2 * i = 2 * (k + i)
        /\ k + i \in 1..n
    BY <1>1
  <2>2. QED
    BY <1>1, <2>1
<1>4. Pairs(u, k)
  <2>1. \A i \in 1..k : i \in 1..n
    OBVIOUS
  <2>2. QED
    BY <1>1, <1>2 DEF Pairs
<1>5. Pairs(v, n - k)
  <2>1. Len(v) = 2 * (n - k)
    BY <1>1
  <2>2. QED
    BY <1>3, <2>1 DEF Pairs
<1> DEFINE p == Publications(u)
           r == Publications(v)
           y == Publications(q)
           x == p \o r
<1>6. /\ p \in Seq(Topics \X Contents) /\ Len(p) = k
      /\ \A i \in 1..k : p[i] = <<u[2 * i - 1].topic, u[2 * i].text>>
  <2>1. k \in Nat
    OBVIOUS
  <2>2. QED
    BY <1>1, <1>4, <2>1, WholeFacts
<1>7. /\ r \in Seq(Topics \X Contents) /\ Len(r) = n - k
      /\ \A i \in 1..(n - k) : r[i] = <<v[2 * i - 1].topic, v[2 * i].text>>
  <2>1. n - k \in Nat
    OBVIOUS
  <2>2. QED
    BY <1>1, <1>5, <2>1, WholeFacts
<1>8. /\ y \in Seq(Topics \X Contents) /\ Len(y) = n
      /\ \A i \in 1..n : y[i] = <<q[2 * i - 1].topic, q[2 * i].text>>
  BY WholeFacts
<1> HIDE DEF p, r, y
<1>9. /\ x \in Seq(Topics \X Contents) /\ Len(x) = Len(p) + Len(r)
      /\ \A i \in 1..(Len(p) + Len(r)) : x[i] = IF i <= Len(p) THEN p[i] ELSE r[i - Len(p)]
  <2>1. p \in Seq(Topics \X Contents) /\ r \in Seq(Topics \X Contents)
    BY <1>6, <1>7
  <2>2. QED
    BY <2>1, ConcatFacts
<1> HIDE DEF x
<1>10. Len(x) = n
  BY <1>6, <1>7, <1>9
<1>11. ASSUME NEW i \in 1..n PROVE x[i] = y[i]
  <2>1. CASE i <= k
    <3>1. i \in 1..k /\ i \in 1..(Len(p) + Len(r)) /\ i <= Len(p)
      BY <1>6, <2>1
    <3>2. x[i] = p[i] /\ p[i] = <<u[2 * i - 1].topic, u[2 * i].text>>
      BY <1>6, <1>9, <3>1
    <3>3. QED
      BY <1>2, <1>8, <3>1, <3>2
  <2>2. CASE ~(i <= k)
    <3>1. /\ i - k \in 1..(n - k) /\ k + (i - k) = i
          /\ i \in 1..(Len(p) + Len(r)) /\ ~(i <= Len(p)) /\ i - Len(p) = i - k
      BY <1>6, <1>7, <2>2
    <3>2. x[i] = r[i - k] /\ r[i - k] = <<v[2 * (i - k) - 1].topic, v[2 * (i - k)].text>>
      BY <1>7, <1>9, <3>1
    <3>3. v[2 * (i - k) - 1] = q[2 * (k + (i - k)) - 1] /\ v[2 * (i - k)] = q[2 * (k + (i - k))]
      BY <1>3, <3>1
    <3>4. QED
      BY <1>8, <3>2, <3>3
  <2>3. QED
    BY <2>1, <2>2
<1>12. x = y
  BY <1>8, <1>9, <1>10, <1>11
<1>13. u[2 * k].cmd = "text"
  BY <1>4 DEF Pairs
<1>14. ParseResult(<<u[2 * k]>>) # "undefined"
  BY <1>13, LoneLine
<1>15. QED
  BY <1>1, <1>4, <1>5, <1>12, <1>14 DEF x, y, p, r, u, v

\* A client that reads a part of a publication has heard what is before it, and
\* dies.
LEMMA ReadPart ==
  ASSUME NEW q \in Seq(Lines), NEW n \in Nat, Pairs(q, n), NEW k \in 0..(n - 1)
  PROVE  /\ Publications(SubSeq(q, 1, 2 * k + 1)) \in Seq(Topics \X Contents)
         /\ Begins(Publications(SubSeq(q, 1, 2 * k + 1)), Publications(q))
         /\ ParseResult(<<SubSeq(q, 1, 2 * k + 1)[2 * k + 1]>>) = "undefined"
<1> DEFINE u == SubSeq(q, 1, 2 * k + 1)
<1>1. /\ u \in Seq(Lines) /\ Len(u) = 2 * k + 1 /\ Len(q) = 2 * n
      /\ \A i \in 1..(2 * k + 1) : u[i] = q[i]
  <2>1. 2 * k + 1 \in 0..Len(q)
    BY DEF Pairs
  <2>2. QED
    BY DEF Pairs
<1> HIDE DEF u
<1>2. ASSUME NEW i \in 1..k
      PROVE  u[2 * i - 1] = q[2 * i - 1] /\ u[2 * i] = q[2 * i] /\ i \in 1..n
  <2>1. 2 * i - 1 \in 1..(2 * k + 1) /\ 2 * i \in 1..(2 * k + 1) /\ i \in 1..n
    OBVIOUS
  <2>2. QED
    BY <1>1, <2>1
<1>3. Len(u) \div 2 = k /\ 2 * k <= Len(u) /\ k \in Nat
  BY <1>1, Halves
<1>4. \A i \in 1..k : u[2 * i - 1].cmd = "pub" /\ u[2 * i].cmd = "text"
  BY <1>2 DEF Pairs
<1> DEFINE p == Publications(u)
           y == Publications(q)
<1>5. /\ p \in Seq(Topics \X Contents) /\ Len(p) = k
      /\ \A i \in 1..k : p[i] = <<u[2 * i - 1].topic, u[2 * i].text>>
  BY <1>1, <1>3, <1>4, PublicationsFacts
<1>6. /\ y \in Seq(Topics \X Contents) /\ Len(y) = n
      /\ \A i \in 1..n : y[i] = <<q[2 * i - 1].topic, q[2 * i].text>>
  BY WholeFacts
<1> HIDE DEF p, y
<1>7. \A i \in 1..k : p[i] = y[i]
  BY <1>2, <1>5, <1>6
<1>8. Begins(p, y)
  <2>1. DOMAIN p = 1..k /\ DOMAIN y = 1..n
    BY <1>5, <1>6
  <2>2. QED
    BY <1>7, <2>1 DEF Begins
<1>9. u[2 * k + 1].cmd = "pub"
  <2>1. k + 1 \in 1..n /\ 2 * (k + 1) - 1 = 2 * k + 1
    OBVIOUS
  <2>2. q[2 * (k + 1) - 1].cmd = "pub"
    BY <2>1 DEF Pairs
  <2>3. q[2 * k + 1].cmd = "pub"
    BY <2>1, <2>2
  <2>4. QED
    BY <1>1, <2>3
<1>10. ParseResult(<<u[2 * k + 1]>>) = "undefined"
  BY <1>9, LoneLine
<1>11. QED
  BY <1>5, <1>8, <1>10 DEF p, y, u

------------------------------------------------------------------------------
(* The steps, by what they do to the lines that are to come and to what is  *)
(* delivered.                                                              *)

Connects(c)   == c \notin crashed /\ Connect(c) /\ crashed' = crashed
Disconnects(c) == Disconnect(c) /\ crashed' = crashed
Subscribes(c, t) ==
  c \notin crashed /\ Call(c, <<Request("sub", t)>>, wants[c] \cup {t}) /\ crashed' = crashed
Unsubscribes(c, t) ==
  c \notin crashed /\ Call(c, <<Request("unsub", t)>>, wants[c] \ {t}) /\ crashed' = crashed
Publishes(c, t) ==
  c \notin crashed /\ Call(c, Publication(t, <<c, calls[c] + 1>>), wants[c]) /\ crashed' = crashed
Reads(c)      == \E n \in 1..Len(toHub[c]) : HubRead(c, n) /\ crashed' = crashed
Subscribed(c, t)   == DoSubscribe(c, t) /\ crashed' = crashed
Unsubscribed(c, t) == DoUnSubscribe(c, t) /\ crashed' = crashed
Published(c, t)    == DoPublish(c, t) /\ crashed' = crashed
Closes(c)     == HubClose(c) /\ crashed' = crashed

\* A step is one of the actions.
LEMMA NextCases ==
  ASSUME [Next]_vars
  PROVE  \/ UNCHANGED vars
         \/ \E c \in Clients :
              \/ Connects(c) \/ Disconnects(c) \/ ClientLoop(c)
              \/ Reads(c) \/ Closes(c) \/ HubDies(c)
              \/ \E t \in Topics : \/ Subscribes(c, t) \/ Unsubscribes(c, t) \/ Publishes(c, t)
                                   \/ Subscribed(c, t) \/ Unsubscribed(c, t) \/ Published(c, t)
  BY ZenonT(60)
     DEF Next, ClientUser, ClientCall, HubStep, Connects, Disconnects, Subscribes, Unsubscribes,
         Publishes, Reads, Subscribed, Unsubscribed, Published, Closes

\* The lines of a client are sequences of lines.
LEMMA LinesAre ==
  ASSUME TypeOK, NEW c \in Clients
  PROVE  /\ toHub[c] \in Seq(Lines) /\ hubBuffer[c] \in Seq(Lines) /\ toClient[c] \in Seq(Lines)
         /\ heard[c] \in Seq(Topics \X Contents)
         /\ ToCome(c) \in Seq(Lines) /\ Len(ToCome(c)) \in Nat
         /\ DOMAIN ToCome(c) = 1..Len(ToCome(c))
         /\ \A i \in DOMAIN ToCome(c) : ToCome(c)[i] \in Lines
<1>1. /\ toHub[c] \in Seq(Lines) /\ hubBuffer[c] \in Seq(Lines) /\ toClient[c] \in Seq(Lines)
      /\ heard[c] \in Seq(Topics \X Contents)
  BY DEF TypeOK
<1>2. ToCome(c) \in Seq(Lines)
  BY <1>1 DEF ToCome
<1>3. QED
  BY <1>1, <1>2

\* A request of a client comes behind its others.
Adds(c, lines) ==
  /\ Len(ToCome(c))' = Len(ToCome(c)) + Len(lines)
  /\ \A i \in 1..(Len(ToCome(c)) + Len(lines)) :
       ToCome(c)'[i] = IF i <= Len(ToCome(c)) THEN ToCome(c)[i] ELSE lines[i - Len(ToCome(c))]
  /\ \A d \in Clients \ {c} : ToCome(d)' = ToCome(d)

\* The first k lines of a client are used.
Uses(c, k) ==
  /\ k <= Len(ToCome(c))
  /\ Len(ToCome(c))' = Len(ToCome(c)) - k
  /\ \A i \in 1..(Len(ToCome(c)) - k) : ToCome(c)'[i] = ToCome(c)[k + i]
  /\ \A d \in Clients \ {c} : ToCome(d)' = ToCome(d)

\* A call puts its lines behind those that are to come.
LEMMA CallAdds ==
  ASSUME TypeOK, NEW c \in Clients, NEW lines \in Seq(Lines), NEW want, Call(c, lines, want)
  PROVE  /\ Adds(c, lines)
         /\ toHub' = [toHub EXCEPT ![c] = toHub[c] \o lines] /\ toHub[c] \o lines \in Seq(Lines)
<1>1. /\ toHub[c] \in Seq(Lines) /\ hubBuffer[c] \in Seq(Lines) /\ ToCome(c) \in Seq(Lines)
  BY LinesAre
<1>2. toHub' = [toHub EXCEPT ![c] = toHub[c] \o lines] /\ hubBuffer' = hubBuffer
  BY DEF Call
<1>3. toHub[c] \o lines \in Seq(Lines)
  BY <1>1, ConcatProperties
<1>4. ToCome(c)' = hubBuffer[c] \o (toHub[c] \o lines)
  BY <1>2 DEF ToCome, TypeOK
<1>5. (hubBuffer[c] \o toHub[c]) \o lines = hubBuffer[c] \o (toHub[c] \o lines)
  <2>1. \A p, q, r \in Seq(Lines) : (p \o q) \o r = p \o (q \o r)
    BY ConcatAssociative
  <2>2. QED
    BY <1>1, <2>1
<1>6. ToCome(c)' = ToCome(c) \o lines
  BY <1>4, <1>5 DEF ToCome
<1>7. \A d \in Clients \ {c} : ToCome(d)' = ToCome(d)
  BY <1>2 DEF ToCome, TypeOK
<1> DEFINE q == ToCome(c)
<1>8. /\ Len(q \o lines) = Len(q) + Len(lines)
      /\ \A i \in 1..(Len(q) + Len(lines)) :
           (q \o lines)[i] = IF i <= Len(q) THEN q[i] ELSE lines[i - Len(q)]
  BY <1>1, ConcatProperties
<1>9. Len(ToCome(c))' = Len(ToCome(c)')
  OBVIOUS
<1>10. QED
  BY <1>2, <1>3, <1>6, <1>7 DEF Adds

\* A read of the hub changes nothing in what is to come.
LEMMA ReadSame ==
  ASSUME TypeOK, NEW c \in Clients, Reads(c)
  PROVE  /\ \A d \in Clients : ToCome(d)' = ToCome(d)
         /\ {toHub', hubBuffer'} \subseteq [Clients -> Seq(Lines)]
<1>1. PICK n \in 1..Len(toHub[c]) : HubRead(c, n)
  BY DEF Reads
<1> DEFINE u == SubSeq(toHub[c], 1, n)
           v == SubSeq(toHub[c], n + 1, Len(toHub[c]))
<1>2. /\ hubBuffer' = [hubBuffer EXCEPT ![c] = hubBuffer[c] \o u]
      /\ toHub' = [toHub EXCEPT ![c] = v]
  BY <1>1 DEF HubRead
<1>3. toHub[c] \in Seq(Lines) /\ hubBuffer[c] \in Seq(Lines)
  BY LinesAre
<1>4. u \in Seq(Lines) /\ v \in Seq(Lines)
  <2>1. n \in 0..Len(toHub[c])
    BY <1>3, LenProperties
  <2>2. QED
    BY <1>3
<1>5. (hubBuffer[c] \o u) \o v = hubBuffer[c] \o toHub[c]
  BY <1>3, ReadKeeps
<1> HIDE DEF u, v
<1>6. hubBuffer[c] \o u \in Seq(Lines)
  BY <1>3, <1>4
<1>7. ToCome(c)' = ToCome(c)
  BY <1>2, <1>5 DEF ToCome, TypeOK
<1>8. \A d \in Clients \ {c} : ToCome(d)' = ToCome(d)
  BY <1>2 DEF ToCome, TypeOK
<1>9. {toHub', hubBuffer'} \subseteq [Clients -> Seq(Lines)]
  BY <1>2, <1>4 DEF TypeOK
<1>10. QED
  BY <1>7, <1>8, <1>9

\* The hub uses the lines of the request at the head.
LEMMA MessageUses ==
  ASSUME TypeOK, NEW c \in Clients, NEW cmd \in {"sub", "unsub", "pub"}, NEW t \in Topics,
         HubMessage(c, cmd, t)
  PROVE  /\ Uses(c, IF cmd = "pub" THEN 2 ELSE 1)
         /\ ToCome(c)[1] = Request(cmd, t)
         /\ cmd = "pub" => ToCome(c)[2] = hubBuffer[c][2]
         /\ hubBuffer' \in [Clients -> Seq(Lines)]
<1> DEFINE k == IF cmd = "pub" THEN 2 ELSE 1
           a == hubBuffer[c]
           b == toHub[c]
<1>1. /\ a \in Seq(Lines) /\ b \in Seq(Lines) /\ Len(a) \in Nat
      /\ ToCome(c) = a \o b /\ Len(ToCome(c)) \in Nat
  BY LinesAre, LenProperties DEF ToCome
<1>2. /\ a # <<>> /\ a[1] = Request(cmd, t) /\ ParseResult(a) = "kSuccess"
      /\ hubBuffer' = [hubBuffer EXCEPT ![c] = Behind(a)] /\ toHub' = toHub
  BY DEF HubMessage, ParseResult
<1>3. Head(a) = a[1] /\ Len(a) >= 1
  BY <1>1, <1>2
<1>4. a[1].cmd = cmd
  BY <1>2 DEF Request
<1>5. cmd = "pub" => Len(a) >= 2
  <2>1. ASSUME cmd = "pub" PROVE a # <<Head(a)>>
    BY <1>2, <1>4, <2>1 DEF ParseResult
  <2>2. ASSUME Len(a) = 1 PROVE a = <<Head(a)>>
    BY <1>1, <2>2
  <2>3. QED
    BY <1>1, <1>3, <2>1
<1>6. k \in 0..Len(a) /\ Behind(a) = SubSeq(a, k + 1, Len(a))
  <2>1. Consumed(a) = k
    BY <1>4 DEF Consumed
  <2>2. k \in 0..Len(a)
    BY <1>3, <1>5
  <2>3. QED
    BY <2>1, <2>2 DEF Behind
<1> DEFINE u == SubSeq(a, k + 1, Len(a))
           x == u \o b
           y == a \o b
<1>7. /\ u \in Seq(Lines)
      /\ Len(x) = Len(y) - k /\ \A i \in 1..(Len(y) - k) : x[i] = y[k + i]
  <2>1. k \in 0..Len(a)
    BY <1>6
  <2> HIDE DEF k, a, b
  <2>2. a \in Seq(Lines) /\ b \in Seq(Lines)
    BY <1>1
  <2>3. QED
    BY <2>1, <2>2
<1>8. ToCome(c)' = x
  BY <1>2, <1>6 DEF ToCome, TypeOK
<1>9. \A d \in Clients \ {c} : ToCome(d)' = ToCome(d)
  BY <1>2 DEF ToCome, TypeOK
<1>10. /\ Len(y) = Len(a) + Len(b) /\ Len(b) \in Nat
       /\ \A i \in 1..(Len(a) + Len(b)) : y[i] = IF i <= Len(a) THEN a[i] ELSE b[i - Len(a)]
  BY <1>1, ConcatProperties, LenProperties
<1>11. hubBuffer' \in [Clients -> Seq(Lines)]
  BY <1>2, <1>6 DEF TypeOK
<1> HIDE DEF k, a, b, u, x, y
<1>12. y = ToCome(c)
  BY <1>1 DEF y
<1>13. y[1] = a[1] /\ (Len(a) >= 2 => y[2] = a[2])
  BY <1>3, <1>10
<1>14. k <= Len(y)
  BY <1>6, <1>10
<1>15. Uses(c, k)
  BY <1>7, <1>8, <1>9, <1>12, <1>14 DEF Uses
<1>16. QED
  BY <1>2, <1>5, <1>11, <1>12, <1>13, <1>15 DEF k, a

\* The clients of S that are alive and connected are to hear m about t.
Tells(S, t, m) ==
  \A d \in Clients :
    Delivered(d)' = IF d \in (S \cap accepted) \ crashed THEN Append(Delivered(d), <<t, m>>)
                                                         ELSE Delivered(d)

\* What was to be heard is a sequence of publications.
LEMMA DeliveredFacts ==
  ASSUME TypeOK, FormInv, NEW c \in Clients
  PROVE  /\ Delivered(c) \in Seq(Topics \X Contents) /\ Len(Delivered(c)) \in Nat
         /\ DOMAIN Delivered(c) = 1..Len(Delivered(c))
         /\ \A i \in DOMAIN Delivered(c) :
              /\ Delivered(c)[i] = <<Delivered(c)[i][1], Delivered(c)[i][2]>>
              /\ Delivered(c)[i][1] \in Topics /\ Delivered(c)[i][2] \in Contents
<1>1. heard[c] \in Seq(Topics \X Contents) /\ toClient[c] \in Seq(Lines)
  BY LinesAre
<1>2. Delivered(c) \in Seq(Topics \X Contents)
  <2>1. CASE c \in crashed
    BY <1>1, <2>1 DEF Delivered
  <2>2. CASE c \notin crashed
    <3>1. PICK n \in Nat : Pairs(toClient[c], n)
      BY <2>2 DEF FormInv, Whole
    <3>2. Publications(toClient[c]) \in Seq(Topics \X Contents)
      BY <1>1, <3>1, WholeFacts
    <3>3. QED
      BY <1>1, <3>2 DEF Delivered
  <2>3. QED
    BY <2>1, <2>2
<1> DEFINE q == Delivered(c)
<1>3. q \in Seq(Topics \X Contents)
  BY <1>2
<1> HIDE DEF q
<1>4. /\ Len(q) \in Nat /\ DOMAIN q = 1..Len(q)
      /\ \A i \in 1..Len(q) : q[i] \in Topics \X Contents
  BY <1>3
<1>5. \A i \in 1..Len(q) : /\ q[i] = <<q[i][1], q[i][2]>>
                           /\ q[i][1] \in Topics /\ q[i][2] \in Contents
  BY <1>4
<1>6. QED
  BY <1>3 DEF q

\* send() of the hub to the clients of S.
LEMMA SendTells ==
  ASSUME TypeOK, FormInv, NEW S, NEW t \in Topics, NEW m \in Contents,
         toClient' = SentTo(S, Publication(t, m)), UNCHANGED <<heard, crashed>>
  PROVE  /\ Tells(S, t, m)
         /\ toClient' \in [Clients -> Seq(Lines)]
         /\ \A d \in Clients : d \notin crashed => Whole(toClient[d])'
<1> DEFINE u == Publication(t, m)
<1>1. u \in Seq(Lines)
  BY PublicationFacts
<1>2. \A d \in Clients : toClient'[d] = IF d \in S \cap accepted THEN toClient[d] \o u
                                                                 ELSE toClient[d]
  BY DEF SentTo
<1>3. \A d \in Clients : /\ toClient[d] \in Seq(Lines) /\ toClient[d] \o u \in Seq(Lines)
                         /\ heard[d] \in Seq(Topics \X Contents)
  BY <1>1, LinesAre
<1>4. toClient' \in [Clients -> Seq(Lines)]
  BY <1>3 DEF SentTo
<1>5. ASSUME NEW d \in Clients, d \in S \cap accepted, d \notin crashed
      PROVE  /\ Whole(toClient'[d])
             /\ Delivered(d)' = Append(Delivered(d), <<t, m>>)
  <2>1. PICK n \in Nat : Pairs(toClient[d], n)
    BY <1>5 DEF FormInv, Whole
  <2>2. /\ Pairs(toClient'[d], n + 1)
        /\ Publications(toClient'[d]) = Append(Publications(toClient[d]), <<t, m>>)
    BY <1>2, <1>3, <1>5, <2>1, OneMore
  <2>3. Whole(toClient'[d])
    BY <2>2 DEF Whole
  <2> DEFINE h == heard[d]
             p == Publications(toClient[d])
             x == <<t, m>>
  <2>4. h \in Seq(Topics \X Contents) /\ p \in Seq(Topics \X Contents) /\ x \in Topics \X Contents
    BY <1>3, <2>1, WholeFacts
  <2>5. Delivered(d)' = h \o Append(p, x) /\ Delivered(d) = h \o p
    BY <1>5, <2>2 DEF Delivered
  <2> HIDE DEF h, p, x
  <2>6. h \o Append(p, x) = Append(h \o p, x)
    <3>1. Append(p, x) = p \o <<x>> /\ h \o p \in Seq(Topics \X Contents) /\ <<x>> \in Seq(Topics \X Contents)
      BY <2>4
    <3>2. Append(h \o p, x) = (h \o p) \o <<x>>
      OBVIOUS
    <3>3. (h \o p) \o <<x>> = h \o (p \o <<x>>)
      OBVIOUS
    <3>4. QED
      OBVIOUS
  <2>7. QED
    BY <2>3, <2>5 DEF x
<1>6. ASSUME NEW d \in Clients, ~(d \in S \cap accepted) \/ d \in crashed
      PROVE  /\ Delivered(d)' = Delivered(d)
             /\ d \notin crashed => toClient'[d] = toClient[d]
  BY <1>2, <1>6 DEF Delivered
<1>7. Tells(S, t, m)
  BY <1>5, <1>6 DEF Tells
<1>8. \A d \in Clients : d \notin crashed => Whole(toClient'[d])
  BY <1>5, <1>6 DEF FormInv
<1>9. QED
  BY <1>4, <1>7, <1>8

\* A client reads, and dies if it reads a part of a publication.
LEMMA ClientReads ==
  ASSUME TypeOK, FormInv, NEW c \in Clients, ClientLoop(c)
  PROVE  /\ toClient' \in [Clients -> Seq(Lines)] /\ heard' \in [Clients -> Seq(Topics \X Contents)]
         /\ \A d \in Clients \ {c} : toClient'[d] = toClient[d] /\ Delivered(d)' = Delivered(d)
         /\ UNCHANGED <<clientVars, hubVars, toHub, hubBuffer>>
         /\ c \notin crashed
         /\ \/ crashed' = crashed /\ Delivered(c)' = Delivered(c) /\ Whole(toClient'[c])
            \/ crashed' = crashed \cup {c} /\ Begins(Delivered(c)', Delivered(c))
<1>1. PICK n \in 1..Len(toClient[c]) : ClientMessage(c, n)
  BY DEF ClientLoop
<1> DEFINE q == toClient[c]
           u == SubSeq(q, 1, n)
           v == SubSeq(q, n + 1, Len(q))
           h == heard[c]
<1>2. c \notin crashed /\ q \in Seq(Lines) /\ h \in Seq(Topics \X Contents)
  BY LinesAre DEF ClientLoop
<1>3. PICK k \in Nat : Pairs(q, k)
  BY <1>2 DEF FormInv, Whole
<1>4. /\ heard' = [heard EXCEPT ![c] = h \o Publications(u)]
      /\ toClient' = [toClient EXCEPT ![c] = v]
      /\ crashed' = IF ParseResult(<<u[n]>>) = "undefined" THEN crashed \cup {c} ELSE crashed
      /\ UNCHANGED <<clientVars, hubVars, toHub, hubBuffer>>
  BY <1>1 DEF ClientMessage
<1>5. Delivered(c) = h \o Publications(q) /\ Publications(q) \in Seq(Topics \X Contents)
  BY <1>2, <1>3, WholeFacts DEF Delivered
<1>6. n \in Nat /\ n \in 0..Len(q) /\ n <= 2 * k /\ n > 0 /\ Len(q) = 2 * k
  <2>1. Len(q) = 2 * k /\ n \in 1..Len(q)
    BY <1>3 DEF Pairs
  <2> HIDE DEF q
  <2>2. QED
    BY <2>1
<1>7. v \in Seq(Lines) /\ u \in Seq(Lines)
  BY <1>2
<1> HIDE DEF q, u, v, h
<1>8. toClient' \in [Clients -> Seq(Lines)]
  BY <1>4, <1>7 DEF TypeOK
<1>9. /\ heard'[c] = h \o Publications(u) /\ toClient'[c] = v
      /\ \A d \in Clients \ {c} : heard'[d] = heard[d] /\ toClient'[d] = toClient[d]
      /\ \A d \in Clients \ {c} : d \in crashed' <=> d \in crashed
  BY <1>4 DEF TypeOK
<1>10. \A d \in Clients \ {c} : Delivered(d)' = Delivered(d)
  BY <1>9 DEF Delivered
<1>11. CASE \E i \in Nat : n = 2 * i
  <2>1. PICK i \in Nat : n = 2 * i
    BY <1>11
  <2>2. i \in 1..k
    BY <1>6, <2>1
  <2>3. /\ Pairs(u, i) /\ Pairs(v, k - i) /\ k - i \in Nat
        /\ Publications(u) \o Publications(v) = Publications(q)
        /\ ParseResult(<<u[n]>>) # "undefined"
    <3>1. /\ u = SubSeq(q, 1, 2 * i) /\ v = SubSeq(q, 2 * i + 1, Len(q))
          /\ u[n] = u[2 * i]
      BY <2>1 DEF u, v
    <3>2. k - i \in Nat
      BY <2>2
    <3>3. QED
      BY <1>2, <1>3, <2>2, <3>1, <3>2, ReadWhole
  <2>4. crashed' = crashed /\ Whole(v)
    BY <1>4, <2>3 DEF Whole
  <2>5. Publications(u) \in Seq(Topics \X Contents) /\ Publications(v) \in Seq(Topics \X Contents)
    BY <1>7, <2>3, WholeFacts
  <2>6. Delivered(c)' = (h \o Publications(u)) \o Publications(v)
    BY <1>2, <1>9, <2>4 DEF Delivered
  <2>7. Delivered(c)' = Delivered(c)
    <3> DEFINE p == Publications(u)
               r == Publications(v)
    <3>1. /\ h \in Seq(Topics \X Contents) /\ p \in Seq(Topics \X Contents)
          /\ r \in Seq(Topics \X Contents)
      BY <1>2, <2>5
    <3> HIDE DEF p, r
    <3>2. (h \o p) \o r = h \o (p \o r)
      BY <3>1, ConcatAssociative
    <3>3. QED
      BY <1>5, <2>3, <2>6, <3>2 DEF p, r
  <2>8. h \o Publications(u) \in Seq(Topics \X Contents)
    BY <1>2, <2>5
  <2>9. heard' \in [Clients -> Seq(Topics \X Contents)]
    BY <1>4, <2>8 DEF TypeOK
  <2>10. QED
    BY <1>2, <1>4, <1>8, <1>10, <2>4, <2>7, <2>9
<1>12. CASE \E i \in Nat : n = 2 * i + 1
  <2>1. PICK i \in Nat : n = 2 * i + 1
    BY <1>12
  <2>2. i \in 0..(k - 1)
    BY <1>6, <2>1
  <2>3. /\ Publications(u) \in Seq(Topics \X Contents)
        /\ Begins(Publications(u), Publications(q))
        /\ ParseResult(<<u[n]>>) = "undefined"
    BY <1>2, <1>3, <2>1, <2>2, ReadPart DEF u
  <2>4. crashed' = crashed \cup {c} /\ Delivered(c)' = h \o Publications(u)
    BY <1>4, <1>9, <2>3 DEF Delivered
  <2>5. Begins(h \o Publications(u), h \o Publications(q))
    <3> DEFINE p == Publications(u)
               r == Publications(q)
               x == h \o p
               y == h \o r
    <3>1. p \in Seq(Topics \X Contents) /\ r \in Seq(Topics \X Contents) /\ Begins(p, r)
      BY <1>5, <2>3
    <3> HIDE DEF p, r
    <3>2. /\ Len(h) \in Nat /\ Len(p) \in Nat /\ Len(x) = Len(h) + Len(p)
          /\ \A j \in 1..(Len(h) + Len(p)) : x[j] = IF j <= Len(h) THEN h[j] ELSE p[j - Len(h)]
      OBVIOUS
    <3>3. /\ Len(r) \in Nat /\ Len(y) = Len(h) + Len(r)
          /\ \A j \in 1..(Len(h) + Len(r)) : y[j] = IF j <= Len(h) THEN h[j] ELSE r[j - Len(h)]
      OBVIOUS
    <3> HIDE DEF x, y
    <3>4. Len(p) <= Len(r) /\ \A j \in 1..Len(p) : p[j] = r[j]
      <4>1. DOMAIN p = 1..Len(p) /\ DOMAIN r = 1..Len(r)
        BY <3>1, LenProperties
      <4>2. \A j \in 1..Len(p) : j \in 1..Len(r) /\ p[j] = r[j]
        BY <3>1 DEF Begins
      <4>3. QED
        BY <4>2
    <3>5. ASSUME NEW j \in 1..Len(x) PROVE x[j] = y[j]
      <4>1. j \in 1..(Len(h) + Len(p)) /\ j \in 1..(Len(h) + Len(r))
        BY <3>2, <3>4
      <4>2. CASE j <= Len(h)
        BY <3>2, <3>3, <4>2
      <4>3. CASE ~(j <= Len(h))
        <5>1. j - Len(h) \in 1..Len(p)
          BY <3>2, <4>3
        <5>2. QED
          BY <3>2, <3>3, <3>4, <5>1
      <4>4. QED
        BY <4>2, <4>3
    <3>6. Len(x) <= Len(y)
      BY <3>2, <3>3, <3>4
    <3>7. Begins(x, y)
      <4>1. DOMAIN x = 1..Len(x) /\ DOMAIN y = 1..Len(y) /\ Len(x) \in Nat /\ Len(y) \in Nat
        <5>1. h \o p \in Seq(Topics \X Contents) /\ h \o r \in Seq(Topics \X Contents)
          BY <1>2, <3>1
        <5>2. QED
          OBVIOUS
      <4>2. \A j \in 1..Len(x) : j \in 1..Len(y)
        BY <3>6, <4>1
      <4>3. QED
        BY <3>5, <4>2 DEF Begins
    <3>8. QED
      BY <3>7 DEF x, y, p, r
  <2>6. Begins(Delivered(c)', Delivered(c))
    BY <1>5, <2>4, <2>5
  <2>7. h \o Publications(u) \in Seq(Topics \X Contents)
    BY <1>2, <2>3
  <2>8. heard' \in [Clients -> Seq(Topics \X Contents)]
    BY <1>4, <2>7 DEF TypeOK
  <2>9. QED
    BY <1>2, <1>4, <1>8, <1>10, <2>4, <2>6, <2>8
<1>13. QED
  BY <1>6, <1>11, <1>12, Parity

\* Lines that nobody touches.
LEMMA LinesStay ==
  ASSUME UNCHANGED <<toHub, hubBuffer>>
  PROVE  \A d \in Clients : ToCome(d)' = ToCome(d)
  BY DEF ToCome

\* Publications that nobody sends or reads.
LEMMA DeliveredStays ==
  ASSUME ClientAssumption, UNCHANGED <<toClient, heard>>,
         crashed' = crashed \/ crashed' = crashed \cup {"hub"}
  PROVE  \A d \in Clients : Delivered(d)' = Delivered(d)
<1>1. \A d \in Clients : d \in crashed' <=> d \in crashed
  BY DEF ClientAssumption
<1>2. QED
  BY <1>1 DEF Delivered

\* What the steps of the hub do.
LEMMA SubscribedDoes ==
  ASSUME ClientAssumption, TypeOK, FormInv, NEW c \in Clients, NEW t \in Topics, Subscribed(c, t)
  PROVE  /\ Uses(c, 1) /\ ToCome(c)[1] = Request("sub", t)
         /\ hubBuffer' \in [Clients -> Seq(Lines)] /\ toClient' \in [Clients -> Seq(Lines)]
         /\ handling' \in Clients \cup {NoClient}
         /\ audiences' = [audiences EXCEPT ![t] = @ \cup {c}]
         /\ joined' = IF c \in audiences[t] THEN joined
                      ELSE [joined EXCEPT ![<<c, t>>] = Len(published[t])]
         /\ UNCHANGED <<clientVars, accepted, content, published, toHub, heard, crashed>>
         /\ IF content[t] = None THEN \A d \in Clients : Delivered(d)' = Delivered(d)
                                 ELSE Tells({c}, t, content[t])
         /\ \A d \in Clients : d \notin crashed => Whole(toClient[d])'
<1>1. /\ HubMessage(c, "sub", t) /\ crashed' = crashed
      /\ audiences' = [audiences EXCEPT ![t] = @ \cup {c}]
      /\ joined' = IF c \in audiences[t] THEN joined
                   ELSE [joined EXCEPT ![<<c, t>>] = Len(published[t])]
      /\ toClient' = AddSends(t, c)
      /\ UNCHANGED <<content, published>>
  BY DEF Subscribed, DoSubscribe
<1>2. /\ handling' \in Clients \cup {NoClient}
      /\ UNCHANGED <<clientVars, accepted, toHub, heard>>
  BY <1>1 DEF HubMessage
<1>3. /\ Uses(c, 1) /\ ToCome(c)[1] = Request("sub", t)
      /\ hubBuffer' \in [Clients -> Seq(Lines)]
  BY <1>1, MessageUses
<1>4. CASE content[t] = None
  <2>1. toClient' = toClient
    BY <1>1, <1>4 DEF AddSends
  <2>2. /\ \A d \in Clients : Delivered(d)' = Delivered(d)
        /\ \A d \in Clients : d \notin crashed => Whole(toClient[d])'
        /\ toClient' \in [Clients -> Seq(Lines)]
    BY <1>1, <1>2, <2>1, DeliveredStays DEF FormInv, TypeOK
  <2>3. QED
    BY <1>1, <1>2, <1>3, <1>4, <2>2
<1>5. CASE content[t] # None
  <2>1. toClient' = SentTo({c}, Publication(t, content[t])) /\ content[t] \in Contents
    BY <1>1, <1>5 DEF AddSends, TypeOK
  <2>2. /\ Tells({c}, t, content[t])
        /\ \A d \in Clients : d \notin crashed => Whole(toClient[d])'
        /\ toClient' \in [Clients -> Seq(Lines)]
    BY <1>1, <1>2, <2>1, SendTells
  <2>3. QED
    BY <1>1, <1>2, <1>3, <1>5, <2>2
<1>6. QED
  BY <1>4, <1>5

\* doUnSubscribe(): a line is used, and one client less is in the audience.
LEMMA UnsubscribedDoes ==
  ASSUME ClientAssumption, TypeOK, NEW c \in Clients, NEW t \in Topics, Unsubscribed(c, t)
  PROVE  /\ Uses(c, 1) /\ ToCome(c)[1] = Request("unsub", t)
         /\ hubBuffer' \in [Clients -> Seq(Lines)]
         /\ handling' \in Clients \cup {NoClient}
         /\ audiences' = [audiences EXCEPT ![t] = @ \ {c}]
         /\ UNCHANGED <<clientVars, accepted, content, published, joined, toHub, toClient,
                        heard, crashed>>
         /\ \A d \in Clients : Delivered(d)' = Delivered(d)
<1>1. /\ HubMessage(c, "unsub", t) /\ crashed' = crashed
      /\ audiences' = [audiences EXCEPT ![t] = @ \ {c}]
      /\ UNCHANGED <<content, published, joined, toClient>>
  BY DEF Unsubscribed, DoUnSubscribe, Removed
<1>2. /\ handling' \in Clients \cup {NoClient}
      /\ UNCHANGED <<clientVars, accepted, toHub, heard>>
  BY <1>1 DEF HubMessage
<1>3. /\ Uses(c, 1) /\ ToCome(c)[1] = Request("unsub", t)
      /\ hubBuffer' \in [Clients -> Seq(Lines)]
  BY <1>1, MessageUses
<1>4. \A d \in Clients : Delivered(d)' = Delivered(d)
  BY <1>1, <1>2, DeliveredStays
<1>5. QED
  BY <1>1, <1>2, <1>3, <1>4

\* doPublish(): two lines are used, and the audience is to hear the text.
LEMMA PublishedDoes ==
  ASSUME TypeOK, FormInv, NEW c \in Clients, NEW t \in Topics, Published(c, t)
  PROVE  /\ Uses(c, 2) /\ 2 <= Len(ToCome(c))
         /\ ToCome(c)[1] = Request("pub", t) /\ ToCome(c)[2].cmd = "text"
         /\ ToCome(c)[2].text \in Contents
         /\ hubBuffer' \in [Clients -> Seq(Lines)] /\ toClient' \in [Clients -> Seq(Lines)]
         /\ handling' \in Clients \cup {NoClient}
         /\ content' = [content EXCEPT ![t] = ToCome(c)[2].text]
         /\ published' = [published EXCEPT ![t] = Append(@, ToCome(c)[2].text)]
         /\ UNCHANGED <<clientVars, accepted, audiences, joined, toHub, heard, crashed>>
         /\ Tells(audiences[t], t, ToCome(c)[2].text)
         /\ \A d \in Clients : d \notin crashed => Whole(toClient[d])'
<1> DEFINE m == hubBuffer[c][2].text
<1>1. /\ HubMessage(c, "pub", t) /\ crashed' = crashed
      /\ content' = [content EXCEPT ![t] = m]
      /\ published' = [published EXCEPT ![t] = Append(@, m)]
      /\ toClient' = SentTo(audiences[t], Publication(t, m))
      /\ UNCHANGED <<audiences, joined>>
  BY DEF Published, DoPublish, NewContent
<1>2. /\ handling' \in Clients \cup {NoClient}
      /\ UNCHANGED <<clientVars, accepted, toHub, heard>>
  BY <1>1 DEF HubMessage
<1>3. /\ Uses(c, 2) /\ ToCome(c)[1] = Request("pub", t) /\ ToCome(c)[2] = hubBuffer[c][2]
      /\ hubBuffer' \in [Clients -> Seq(Lines)]
  BY <1>1, MessageUses
<1>4. 2 <= Len(ToCome(c))
  BY <1>3 DEF Uses
<1>5. 1 \in DOMAIN ToCome(c) /\ 2 \in DOMAIN ToCome(c) /\ ToCome(c)[2] \in Lines
  <2>1. /\ Len(ToCome(c)) \in Nat /\ DOMAIN ToCome(c) = 1..Len(ToCome(c))
        /\ \A i \in DOMAIN ToCome(c) : ToCome(c)[i] \in Lines
    BY LinesAre
  <2>2. 1 \in DOMAIN ToCome(c) /\ 2 \in DOMAIN ToCome(c)
    BY <1>4, <2>1
  <2>3. QED
    BY <2>1, <2>2
<1>6. ToCome(c)[2].cmd = "text"
  <2>1. ToCome(c)[1].cmd = "pub" /\ 1 + 1 = 2
    BY <1>3 DEF Request
  <2>2. QED
    BY <1>5, <2>1 DEF FormInv, Formed
<1>7. m = ToCome(c)[2].text /\ m \in Contents
  BY <1>3, <1>5, <1>6, LineFacts
<1> HIDE DEF m
<1>8. /\ Tells(audiences[t], t, m)
      /\ \A d \in Clients : d \notin crashed => Whole(toClient[d])'
      /\ toClient' \in [Clients -> Seq(Lines)]
  BY <1>1, <1>2, <1>7, SendTells
<1>9. QED
  BY <1>1, <1>2, <1>3, <1>4, <1>6, <1>7, <1>8

\* What a client sends.
LEMMA RequestsAre ==
  ASSUME ClientAssumption, TypeOK, NEW c \in Clients, NEW t \in Topics
  PROVE  /\ <<Request("sub", t)>> \in Seq(Lines) /\ <<Request("unsub", t)>> \in Seq(Lines)
         /\ Publishes(c, t) => /\ <<c, calls[c] + 1>> \in Contents
                               /\ Publication(t, <<c, calls[c] + 1>>) \in Seq(Lines)
<1>1. <<Request("sub", t)>> \in Seq(Lines) /\ <<Request("unsub", t)>> \in Seq(Lines)
  BY DEF Request, Lines, Requests
<1>2. ASSUME Publishes(c, t)
      PROVE  /\ <<c, calls[c] + 1>> \in Contents
             /\ Publication(t, <<c, calls[c] + 1>>) \in Seq(Lines)
  <2>1. calls[c] < MaxCalls[c]
    BY <1>2 DEF Publishes, Call
  <2>2. calls[c] + 1 \in 1..MaxCalls[c]
    <3>1. MaxCalls[c] \in Nat
      BY DEF ClientAssumption
    <3>2. calls[c] \in Nat
      BY DEF TypeOK
    <3>3. QED
      BY <2>1, <3>2
  <2>3. <<c, calls[c] + 1>> \in Contents
    BY <2>2 DEF Contents
  <2>4. QED
    BY <2>3, PublicationFacts
<1>3. QED
  BY <1>1, <1>2

------------------------------------------------------------------------------
(* Every step keeps the invariant.                                         *)

\* The numbers of calls and the publications stay in their types.
LEMMA TypeStep ==
  ASSUME ClientAssumption, HubInv, [Next]_vars
  PROVE  TypeOK'
<1>0. TypeOK /\ FormInv
  BY DEF HubInv
<1>1. CASE UNCHANGED vars
  BY <1>0, <1>1 DEF TypeOK, vars, clientVars, hubVars, wires
<1>2. ASSUME NEW c \in Clients, NEW lines \in Seq(Lines), NEW want \in SUBSET Topics,
             Call(c, lines, want), crashed' = crashed
      PROVE  TypeOK'
  <2>1. toHub' = [toHub EXCEPT ![c] = toHub[c] \o lines] /\ toHub[c] \o lines \in Seq(Lines)
    BY <1>0, <1>2, CallAdds
  <2>2. toHub' \in [Clients -> Seq(Lines)]
    BY <1>0, <2>1 DEF TypeOK
  <2>3. calls' \in [Clients -> Nat] /\ \A d \in Clients : calls'[d] <= MaxCalls[d]
    BY <1>0, <1>2 DEF Call, TypeOK
  <2>4. wants' \in [Clients -> SUBSET Topics]
    BY <1>0, <1>2 DEF Call, TypeOK
  <2>5. UNCHANGED <<conn, hubVars, toClient, hubBuffer, heard>>
    BY <1>2 DEF Call
  <2>6. QED
    BY <1>0, <1>2, <2>2, <2>3, <2>4, <2>5 DEF TypeOK, hubVars
<1>3. ASSUME NEW c \in Clients, NEW t \in Topics,
             Subscribes(c, t) \/ Unsubscribes(c, t) \/ Publishes(c, t)
      PROVE  TypeOK'
  <2>1. wants[c] \cup {t} \in SUBSET Topics /\ wants[c] \ {t} \in SUBSET Topics /\ wants[c] \in SUBSET Topics
    BY <1>0 DEF TypeOK
  <2>2. QED
    BY <1>0, <1>2, <1>3, <2>1, RequestsAre DEF Subscribes, Unsubscribes, Publishes
<1>4. ASSUME NEW c \in Clients, Connects(c) PROVE TypeOK'
  BY <1>0, <1>4 DEF Connects, Connect, TypeOK, wires
<1>5. ASSUME NEW c \in Clients, Disconnects(c) PROVE TypeOK'
  BY <1>0, <1>5 DEF Disconnects, Disconnect, TypeOK, wires, hubVars
<1>6. ASSUME NEW c \in Clients, ClientLoop(c) PROVE TypeOK'
  <2>1. /\ toClient' \in [Clients -> Seq(Lines)] /\ heard' \in [Clients -> Seq(Topics \X Contents)]
        /\ UNCHANGED <<clientVars, hubVars, toHub, hubBuffer>>
        /\ crashed' \in {crashed, crashed \cup {c}}
    BY <1>0, <1>6, ClientReads
  <2>2. QED
    BY <1>0, <2>1 DEF TypeOK, clientVars, hubVars
<1>7. ASSUME NEW c \in Clients, Reads(c) PROVE TypeOK'
  <2>1. {toHub', hubBuffer'} \subseteq [Clients -> Seq(Lines)]
    BY <1>0, <1>7, ReadSame
  <2>2. /\ handling' = c /\ crashed' = crashed
        /\ UNCHANGED <<clientVars, accepted, audiences, content, published, joined, toClient, heard>>
    BY <1>7 DEF Reads, HubRead
  <2>3. QED
    BY <1>0, <2>1, <2>2 DEF TypeOK, clientVars
<1>8. ASSUME NEW c \in Clients, Closes(c) PROVE TypeOK'
  BY <1>0, <1>8 DEF Closes, HubClose, TypeOK, clientVars, wires
<1>9. ASSUME NEW c \in Clients, HubDies(c) PROVE TypeOK'
  BY <1>0, <1>9 DEF HubDies, TypeOK, clientVars, hubVars, wires
<1>10. ASSUME NEW c \in Clients, NEW t \in Topics, Subscribed(c, t) PROVE TypeOK'
  <2>1. /\ hubBuffer' \in [Clients -> Seq(Lines)] /\ toClient' \in [Clients -> Seq(Lines)]
        /\ handling' \in Clients \cup {NoClient}
        /\ audiences' = [audiences EXCEPT ![t] = @ \cup {c}]
        /\ joined' = IF c \in audiences[t] THEN joined
                     ELSE [joined EXCEPT ![<<c, t>>] = Len(published[t])]
        /\ UNCHANGED <<clientVars, accepted, content, published, toHub, heard, crashed>>
    BY <1>0, <1>10, SubscribedDoes
  <2>2. Len(published[t]) \in Nat
    OBVIOUS
  <2>3. joined' \in [Clients \X Topics -> Nat] /\ audiences' \in [Topics -> SUBSET Clients]
    BY <1>0, <2>1, <2>2 DEF TypeOK
  <2>4. QED
    BY <1>0, <2>1, <2>3 DEF TypeOK, clientVars
<1>11. ASSUME NEW c \in Clients, NEW t \in Topics, Unsubscribed(c, t) PROVE TypeOK'
  <2>1. /\ hubBuffer' \in [Clients -> Seq(Lines)] /\ handling' \in Clients \cup {NoClient}
        /\ audiences' = [audiences EXCEPT ![t] = @ \ {c}]
        /\ UNCHANGED <<clientVars, accepted, content, published, joined, toHub, toClient,
                       heard, crashed>>
    BY <1>0, <1>11, UnsubscribedDoes
  <2>2. QED
    BY <1>0, <2>1 DEF TypeOK, clientVars
<1>12. ASSUME NEW c \in Clients, NEW t \in Topics, Published(c, t) PROVE TypeOK'
  <2> DEFINE m == ToCome(c)[2].text
  <2>1. /\ m \in Contents
        /\ hubBuffer' \in [Clients -> Seq(Lines)] /\ toClient' \in [Clients -> Seq(Lines)]
        /\ handling' \in Clients \cup {NoClient}
        /\ content' = [content EXCEPT ![t] = m]
        /\ published' = [published EXCEPT ![t] = Append(@, m)]
        /\ UNCHANGED <<clientVars, accepted, audiences, joined, toHub, heard, crashed>>
    BY <1>0, <1>12, PublishedDoes
  <2> HIDE DEF m
  <2>2. published' \in [Topics -> Seq(Contents)]
    <3>1. Append(published[t], m) \in Seq(Contents)
      BY <1>0, <2>1 DEF TypeOK
    <3>2. QED
      BY <1>0, <2>1 DEF TypeOK
  <2>3. content' \in [Topics -> Contents \cup {None}]
    BY <1>0, <2>1 DEF TypeOK
  <2>4. QED
    BY <1>0, <2>1, <2>2 DEF TypeOK, clientVars
<1>13. QED
  BY <1>1, <1>3, <1>4, <1>5, <1>6, <1>7, <1>8, <1>9, <1>10, <1>11, <1>12, NextCases

\* The lines of a client after a step.
LEMMA LinesAreNext ==
  ASSUME TypeOK', NEW c \in Clients
  PROVE  /\ ToCome(c)' \in Seq(Lines) /\ Len(ToCome(c)') \in Nat
         /\ DOMAIN ToCome(c)' = 1..Len(ToCome(c)')
<1>1. ToCome(c)' \in Seq(Lines)
  <2>1. toHub'[c] \in Seq(Lines) /\ hubBuffer'[c] \in Seq(Lines)
    BY DEF TypeOK
  <2>2. QED
    BY <2>1 DEF ToCome
<1>2. QED
  BY <1>1, LenProperties

\* Who is new, or was, has sent nothing.
LEMMA NewStep ==
  ASSUME ClientAssumption, HubInv, [Next]_vars
  PROVE  NewInv'
<1>0. TypeOK /\ FormInv /\ NewInv
  BY DEF HubInv
<1>1. CASE UNCHANGED vars
  BY <1>0, <1>1 DEF NewInv, ToCome, vars, clientVars, hubVars, wires
<1>2. ASSUME NEW c \in Clients, NEW lines \in Seq(Lines), NEW want,
             Call(c, lines, want)
      PROVE  NewInv'
  <2>1. \A d \in Clients \ {c} : ToCome(d)' = ToCome(d)
    BY <1>0, <1>2, CallAdds DEF Adds
  <2>2. /\ conn[c] = "up" /\ UNCHANGED <<conn, accepted, audiences>>
        /\ \A d \in Clients \ {c} : wants'[d] = wants[d]
    BY <1>2 DEF Call, hubVars
  <2>3. QED
    BY <1>0, <2>1, <2>2 DEF NewInv
<1>3. ASSUME NEW c \in Clients, NEW t \in Topics,
             Subscribes(c, t) \/ Unsubscribes(c, t) \/ Publishes(c, t)
      PROVE  NewInv'
  BY <1>0, <1>2, <1>3, RequestsAre DEF Subscribes, Unsubscribes, Publishes
<1>4. ASSUME NEW c \in Clients, Connects(c) PROVE NewInv'
  <2>1. /\ conn' = [conn EXCEPT ![c] = "up"] /\ accepted' = accepted \cup {c}
        /\ UNCHANGED <<wants, audiences, toHub, hubBuffer>>
    BY <1>4 DEF Connects, Connect, wires
  <2>2. \A d \in Clients : ToCome(d)' = ToCome(d)
    BY <2>1, LinesStay
  <2>3. \A d \in Clients : conn'[d] = "new" => d # c /\ conn[d] = "new"
    BY <1>0, <2>1 DEF TypeOK
  <2>4. QED
    BY <1>0, <2>1, <2>2, <2>3 DEF NewInv
<1>5. ASSUME NEW c \in Clients, Disconnects(c) PROVE NewInv'
  <2>1. /\ conn' = [conn EXCEPT ![c] = "closed"]
        /\ UNCHANGED <<accepted, wants, audiences, toHub, hubBuffer>>
    BY <1>5 DEF Disconnects, Disconnect, wires, hubVars
  <2>2. \A d \in Clients : ToCome(d)' = ToCome(d)
    BY <2>1, LinesStay
  <2>3. \A d \in Clients : conn'[d] = "new" => conn[d] = "new"
    BY <2>1
  <2>4. QED
    BY <1>0, <2>1, <2>2 DEF NewInv
<1>6. ASSUME NEW c \in Clients, ClientLoop(c) PROVE NewInv'
  <2>1. UNCHANGED <<conn, accepted, wants, audiences, toHub, hubBuffer>>
    BY <1>0, <1>6, ClientReads DEF clientVars, hubVars
  <2>2. \A d \in Clients : ToCome(d)' = ToCome(d)
    BY <2>1, LinesStay
  <2>3. QED
    BY <1>0, <2>1, <2>2 DEF NewInv
<1>7. ASSUME NEW c \in Clients, Reads(c) PROVE NewInv'
  <2>1. UNCHANGED <<conn, accepted, wants, audiences>>
    BY <1>7 DEF Reads, HubRead, clientVars
  <2>2. \A d \in Clients : ToCome(d)' = ToCome(d)
    BY <1>0, <1>7, ReadSame
  <2>3. QED
    BY <1>0, <2>1, <2>2 DEF NewInv
<1>8. ASSUME NEW c \in Clients, Closes(c) \/ HubDies(c) PROVE NewInv'
  <2>1. accepted' \subseteq accepted /\ UNCHANGED <<conn, wants, audiences, toHub, hubBuffer>>
    BY <1>8 DEF Closes, HubClose, HubDies, clientVars, hubVars, wires
  <2>2. \A d \in Clients : ToCome(d)' = ToCome(d)
    BY <2>1, LinesStay
  <2>3. QED
    BY <1>0, <2>1, <2>2 DEF NewInv
<1>9. ASSUME NEW c \in Clients, NEW t \in Topics,
             Subscribed(c, t) \/ Unsubscribed(c, t) \/ Published(c, t)
      PROVE  NewInv'
  <2>1. /\ Uses(c, 1) \/ Uses(c, 2)
        /\ UNCHANGED <<conn, wants, accepted>>
        /\ \A d \in Clients \ {c}, s \in Topics : d \in audiences'[s] <=> d \in audiences[s]
    <3>1. CASE Subscribed(c, t)
      <4>1. /\ Uses(c, 1) /\ UNCHANGED <<conn, wants, accepted>>
            /\ audiences' = [audiences EXCEPT ![t] = @ \cup {c}]
        BY <1>0, <3>1, SubscribedDoes DEF clientVars
      <4>2. QED
        BY <4>1
    <3>2. CASE Unsubscribed(c, t)
      <4>1. /\ Uses(c, 1) /\ UNCHANGED <<conn, wants, accepted>>
            /\ audiences' = [audiences EXCEPT ![t] = @ \ {c}]
        BY <1>0, <3>2, UnsubscribedDoes DEF clientVars
      <4>2. QED
        BY <4>1
    <3>3. CASE Published(c, t)
      BY <1>0, <3>3, PublishedDoes DEF clientVars
    <3>4. QED
      BY <1>9, <3>1, <3>2, <3>3
  <2>2. \A d \in Clients \ {c} : ToCome(d)' = ToCome(d)
    BY <2>1 DEF Uses
  <2>3. ToCome(c) # <<>>
    <3>1. Len(ToCome(c)) >= 1
      BY <2>1 DEF Uses
    <3>2. QED
      BY <3>1
  <2>4. conn'[c] # "new"
    BY <1>0, <2>1, <2>3 DEF NewInv
  <2>5. QED
    BY <1>0, <2>1, <2>2, <2>4 DEF NewInv
<1>10. QED
  BY <1>1, <1>3, <1>4, <1>5, <1>6, <1>7, <1>8, <1>9, NextCases

\* Lines that are in form stay so with others behind them, ...
LEMMA FormedMore ==
  ASSUME NEW q \in Seq(Lines), NEW l \in Seq(Lines), NEW r \in Seq(Lines), Formed(q), Formed(l),
         Len(r) = Len(q) + Len(l),
         \A i \in 1..(Len(q) + Len(l)) : r[i] = IF i <= Len(q) THEN q[i] ELSE l[i - Len(q)]
  PROVE  Formed(r)
<1>1. /\ Len(q) \in Nat /\ DOMAIN q = 1..Len(q) /\ Len(l) \in Nat /\ DOMAIN l = 1..Len(l)
      /\ DOMAIN r = 1..(Len(q) + Len(l))
  BY LenProperties
<1>2. ASSUME NEW i \in DOMAIN r
      PROVE  /\ r[i].cmd = "pub" => i + 1 \in DOMAIN r /\ r[i + 1].cmd = "text"
             /\ r[i].cmd = "text" => i # 1 /\ r[i - 1].cmd = "pub"
  <2>1. CASE i <= Len(q)
    <3>1. i \in DOMAIN q /\ r[i] = q[i]
      BY <1>1, <2>1
    <3>2. q[i].cmd = "pub" => i + 1 \in DOMAIN q /\ q[i + 1].cmd = "text"
      BY <3>1 DEF Formed
    <3>3. i + 1 \in DOMAIN q => i + 1 \in DOMAIN r /\ r[i + 1] = q[i + 1]
      BY <1>1
    <3>4. q[i].cmd = "text" => i # 1 /\ q[i - 1].cmd = "pub"
      BY <3>1 DEF Formed
    <3>5. i # 1 => r[i - 1] = q[i - 1]
      BY <1>1, <3>1
    <3>6. QED
      BY <3>1, <3>2, <3>4
  <2>2. CASE ~(i <= Len(q))
    <3> DEFINE j == i - Len(q)
    <3>1. j \in DOMAIN l /\ r[i] = l[j]
      BY <1>1, <2>2
    <3>2. l[j].cmd = "pub" => j + 1 \in DOMAIN l /\ l[j + 1].cmd = "text"
      BY <3>1 DEF Formed
    <3>3. j + 1 \in DOMAIN l => i + 1 \in DOMAIN r /\ r[i + 1] = l[j + 1]
      <4>1. ASSUME j + 1 \in DOMAIN l
            PROVE  /\ i + 1 \in 1..(Len(q) + Len(l)) /\ ~(i + 1 <= Len(q))
                   /\ (i + 1) - Len(q) = j + 1
        BY <4>1
      <4>2. QED
        BY <1>1, <4>1
    <3>4. l[j].cmd = "text" => j # 1 /\ l[j - 1].cmd = "pub"
      BY <3>1 DEF Formed
    <3>5. j # 1 => r[i - 1] = l[j - 1]
      <4>1. ASSUME j # 1
            PROVE  /\ i - 1 \in 1..(Len(q) + Len(l)) /\ ~(i - 1 <= Len(q))
                   /\ (i - 1) - Len(q) = j - 1
        BY <2>2, <4>1
      <4>2. QED
        BY <4>1
    <3>6. j # 1 => i # 1
      BY <1>1, <2>2
    <3> HIDE DEF j
    <3>7. QED
      BY <3>1, <3>2, <3>3, <3>4, <3>5, <3>6
  <2>3. QED
    BY <2>1, <2>2
<1>3. QED
  BY <1>2 DEF Formed

\* ... and without their first k, when the last of these is not a "pub".
LEMMA FormedLess ==
  ASSUME NEW q \in Seq(Lines), NEW r \in Seq(Lines), NEW k \in Nat, Formed(q),
         k <= Len(q), Len(r) = Len(q) - k, k > 0, q[k].cmd # "pub",
         \A i \in 1..(Len(q) - k) : r[i] = q[k + i]
  PROVE  Formed(r)
<1>1. /\ Len(q) \in Nat /\ DOMAIN q = 1..Len(q) /\ DOMAIN r = 1..(Len(q) - k)
  BY LenProperties
<1>2. ASSUME NEW i \in DOMAIN r
      PROVE  /\ r[i].cmd = "pub" => i + 1 \in DOMAIN r /\ r[i + 1].cmd = "text"
             /\ r[i].cmd = "text" => i # 1 /\ r[i - 1].cmd = "pub"
  <2>1. k + i \in DOMAIN q /\ r[i] = q[k + i]
    BY <1>1
  <2>2. q[k + i].cmd = "pub" => k + i + 1 \in DOMAIN q /\ q[k + i + 1].cmd = "text"
    BY <2>1 DEF Formed
  <2>3. q[k + i].cmd = "text" => q[k + i - 1].cmd = "pub"
    <3> DEFINE j == k + i
    <3>1. j \in DOMAIN q
      BY <2>1
    <3> HIDE DEF j
    <3>2. q[j].cmd = "text" => q[j - 1].cmd = "pub"
      BY <3>1 DEF Formed
    <3>3. QED
      BY <3>2 DEF j
  <2>4. k + i + 1 \in DOMAIN q => i + 1 \in DOMAIN r /\ r[i + 1] = q[k + i + 1]
    <3>1. ASSUME k + i + 1 \in DOMAIN q
          PROVE  i + 1 \in 1..(Len(q) - k) /\ k + (i + 1) = k + i + 1
      BY <1>1, <3>1
    <3>2. QED
      BY <1>1, <3>1
  <2>5. i # 1 => r[i - 1] = q[k + i - 1]
    <3>1. ASSUME i # 1 PROVE i - 1 \in 1..(Len(q) - k) /\ k + (i - 1) = k + i - 1
      BY <1>1, <3>1
    <3>2. QED
      BY <3>1
  <2>6. i = 1 => k + i - 1 = k
    OBVIOUS
  <2>7. QED
    BY <2>1, <2>2, <2>3, <2>4, <2>5, <2>6
<1>3. QED
  BY <1>2 DEF Formed

\* What is to come stays in form.
LEMMA FormStep ==
  ASSUME ClientAssumption, HubInv, [Next]_vars, TypeOK'
  PROVE  FormInv'
<1>0. TypeOK /\ FormInv /\ \A c \in Clients : Formed(ToCome(c))
  BY DEF HubInv, FormInv
<1>1. CASE UNCHANGED vars
  BY <1>0, <1>1 DEF FormInv, ToCome, vars, wires
<1>2. ASSUME NEW c \in Clients, NEW lines \in Seq(Lines), NEW want,
             Call(c, lines, want), crashed' = crashed, Formed(lines)
      PROVE  FormInv'
  <2>1. Adds(c, lines) /\ UNCHANGED <<toClient, crashed>>
    BY <1>0, <1>2, CallAdds DEF Call
  <2>2. Formed(ToCome(c)')
    <3> DEFINE q == ToCome(c)
               r == ToCome(c)'
    <3>1. q \in Seq(Lines) /\ r \in Seq(Lines) /\ Formed(q)
      BY <1>0, LinesAre, LinesAreNext
    <3>2. /\ Len(r) = Len(q) + Len(lines)
          /\ \A i \in 1..(Len(q) + Len(lines)) :
               r[i] = IF i <= Len(q) THEN q[i] ELSE lines[i - Len(q)]
      BY <2>1 DEF Adds
    <3> HIDE DEF q, r
    <3>3. Formed(r)
      BY <1>2, <3>1, <3>2, FormedMore
    <3>4. QED
      BY <3>3 DEF r
  <2>3. \A d \in Clients : Formed(ToCome(d)')
    BY <1>0, <2>1, <2>2 DEF Adds
  <2>4. QED
    BY <1>0, <2>1, <2>3 DEF FormInv
<1>3. ASSUME NEW c \in Clients, NEW t \in Topics,
             Subscribes(c, t) \/ Unsubscribes(c, t) \/ Publishes(c, t)
      PROVE  FormInv'
  <2>1. Formed(<<Request("sub", t)>>) /\ Formed(<<Request("unsub", t)>>)
    BY DEF Formed, Request
  <2>2. ASSUME Publishes(c, t) PROVE Formed(Publication(t, <<c, calls[c] + 1>>))
    <3> DEFINE l == Publication(t, <<c, calls[c] + 1>>)
    <3>1. l \in Seq(Lines) /\ Len(l) = 2 /\ l[1].cmd = "pub" /\ l[2].cmd = "text"
      BY <1>0, <2>2, RequestsAre, PublicationFacts
    <3> HIDE DEF l
    <3>2. DOMAIN l = {1, 2}
      BY <3>1
    <3>3. Formed(l)
      BY <3>1 DEF Formed
    <3>4. QED
      BY <3>3 DEF l
  <2>3. QED
    BY <1>0, <1>2, <1>3, <2>1, <2>2, RequestsAre DEF Subscribes, Unsubscribes, Publishes
<1>4. ASSUME NEW c \in Clients, Connects(c) \/ Disconnects(c) \/ Closes(c) \/ HubDies(c)
      PROVE  FormInv'
  <2>1. /\ UNCHANGED <<toHub, hubBuffer, toClient>>
        /\ crashed' = crashed \/ crashed' = crashed \cup {"hub"}
    BY <1>4 DEF Connects, Connect, Disconnects, Disconnect, Closes, HubClose, HubDies, wires
  <2>2. \A d \in Clients : ToCome(d)' = ToCome(d)
    BY <2>1, LinesStay
  <2>3. QED
    BY <1>0, <2>1, <2>2 DEF FormInv
<1>5. ASSUME NEW c \in Clients, ClientLoop(c) PROVE FormInv'
  <2>1. /\ \A d \in Clients \ {c} : toClient'[d] = toClient[d]
        /\ UNCHANGED <<toHub, hubBuffer>>
        /\ \/ crashed' = crashed /\ Whole(toClient'[c])
           \/ crashed' = crashed \cup {c}
    BY <1>0, <1>5, ClientReads
  <2>2. \A d \in Clients : ToCome(d)' = ToCome(d)
    BY <2>1, LinesStay
  <2>3. ASSUME NEW d \in Clients, d \notin crashed' PROVE Whole(toClient'[d])
    <3>1. CASE d = c
      BY <2>1, <2>3, <3>1
    <3>2. CASE d # c
      BY <1>0, <2>1, <2>3 DEF FormInv
    <3>3. QED
      BY <3>1, <3>2
  <2>4. QED
    BY <1>0, <2>2, <2>3 DEF FormInv
<1>6. ASSUME NEW c \in Clients, Reads(c) PROVE FormInv'
  <2>1. UNCHANGED <<toClient, crashed>>
    BY <1>6 DEF Reads, HubRead
  <2>2. \A d \in Clients : ToCome(d)' = ToCome(d)
    BY <1>0, <1>6, ReadSame
  <2>3. QED
    BY <1>0, <2>1, <2>2 DEF FormInv
<1>7. ASSUME NEW c \in Clients, NEW k \in 1..2, Uses(c, k), ToCome(c)[k].cmd # "pub",
             \A d \in Clients : d \notin crashed' => Whole(toClient[d])'
      PROVE  FormInv'
  <2>1. Formed(ToCome(c)')
    <3> DEFINE q == ToCome(c)
               r == ToCome(c)'
    <3>1. q \in Seq(Lines) /\ r \in Seq(Lines) /\ Formed(q) /\ q[k].cmd # "pub"
      BY <1>0, <1>7, LinesAre, LinesAreNext
    <3>2. /\ k <= Len(q) /\ Len(r) = Len(q) - k
          /\ \A i \in 1..(Len(q) - k) : r[i] = q[k + i]
      BY <1>7 DEF Uses
    <3> HIDE DEF q, r
    <3>3. Formed(r)
      <4>1. k \in Nat /\ k > 0
        OBVIOUS
      <4>2. QED
        BY <3>1, <3>2, <4>1, FormedLess
    <3>4. QED
      BY <3>3 DEF r
  <2>2. \A d \in Clients : Formed(ToCome(d)')
    BY <1>0, <1>7, <2>1 DEF Uses
  <2>3. QED
    BY <1>7, <2>2 DEF FormInv
<1>8. ASSUME NEW c \in Clients, NEW t \in Topics, Subscribed(c, t) PROVE FormInv'
  <2>1. /\ Uses(c, 1) /\ ToCome(c)[1] = Request("sub", t)
        /\ \A d \in Clients : d \notin crashed' => Whole(toClient[d])'
    BY <1>0, <1>8, SubscribedDoes
  <2>2. QED
    BY <1>7, <2>1 DEF Request
<1>9. ASSUME NEW c \in Clients, NEW t \in Topics, Unsubscribed(c, t) PROVE FormInv'
  <2>1. /\ Uses(c, 1) /\ ToCome(c)[1] = Request("unsub", t) /\ UNCHANGED <<toClient, crashed>>
    BY <1>0, <1>9, UnsubscribedDoes
  <2>2. \A d \in Clients : d \notin crashed' => Whole(toClient[d])'
    BY <1>0, <2>1 DEF FormInv
  <2>3. QED
    BY <1>7, <2>1, <2>2 DEF Request
<1>10. ASSUME NEW c \in Clients, NEW t \in Topics, Published(c, t) PROVE FormInv'
  <2>1. /\ Uses(c, 2) /\ ToCome(c)[2].cmd = "text"
        /\ \A d \in Clients : d \notin crashed' => Whole(toClient[d])'
    BY <1>0, <1>10, PublishedDoes
  <2>2. QED
    BY <1>7, <2>1
<1>11. QED
  BY <1>1, <1>3, <1>4, <1>5, <1>6, <1>8, <1>9, <1>10, NextCases

\* What a client wished last, when lines come behind its others that are not
\* about t, ...
LEMMA AboutMore ==
  ASSUME NEW q \in Seq(Lines), NEW l \in Seq(Lines), NEW r \in Seq(Lines), NEW t,
         Len(r) = Len(q) + Len(l),
         \A i \in 1..(Len(q) + Len(l)) : r[i] = IF i <= Len(q) THEN q[i] ELSE l[i - Len(q)],
         NoneAbout(l, t)
  PROVE  /\ NoneAbout(r, t) => NoneAbout(q, t)
         /\ \A i \in DOMAIN r : LastAbout(r, i, t) =>
              i \in DOMAIN q /\ r[i] = q[i] /\ LastAbout(q, i, t)
<1>1. /\ Len(q) \in Nat /\ DOMAIN q = 1..Len(q) /\ Len(l) \in Nat /\ DOMAIN l = 1..Len(l)
      /\ DOMAIN r = 1..(Len(q) + Len(l))
  BY LenProperties
<1>2. \A i \in DOMAIN q : i \in DOMAIN r /\ r[i] = q[i]
  BY <1>1
<1>3. ASSUME NEW i \in DOMAIN r, About(r[i], t)
      PROVE  i \in DOMAIN q
  <2>1. ASSUME ~(i <= Len(q)) PROVE FALSE
    <3>1. i - Len(q) \in DOMAIN l /\ r[i] = l[i - Len(q)]
      BY <1>1, <2>1
    <3>2. QED
      BY <1>3, <3>1 DEF NoneAbout
  <2>2. QED
    BY <1>1, <2>1
<1>4. NoneAbout(r, t) => NoneAbout(q, t)
  BY <1>2 DEF NoneAbout
<1>5. ASSUME NEW i \in DOMAIN r, LastAbout(r, i, t)
      PROVE  i \in DOMAIN q /\ r[i] = q[i] /\ LastAbout(q, i, t)
  BY <1>2, <1>3, <1>5 DEF LastAbout
<1>6. QED
  BY <1>4, <1>5

\* ... and when the first k lines are used.
LEMMA AboutLess ==
  ASSUME NEW q \in Seq(Lines), NEW r \in Seq(Lines), NEW k \in Nat, NEW t,
         k <= Len(q), Len(r) = Len(q) - k, \A i \in 1..(Len(q) - k) : r[i] = q[k + i]
  PROVE  /\ NoneAbout(r, t) /\ (\A i \in 1..k : ~About(q[i], t)) => NoneAbout(q, t)
         /\ \A i \in DOMAIN r : LastAbout(r, i, t) =>
              k + i \in DOMAIN q /\ r[i] = q[k + i] /\ LastAbout(q, k + i, t)
<1>1. /\ Len(q) \in Nat /\ DOMAIN q = 1..Len(q) /\ DOMAIN r = 1..(Len(q) - k)
  BY LenProperties
<1>2. \A i \in DOMAIN q : ~(i <= k) => i - k \in DOMAIN r /\ r[i - k] = q[i]
  <2>1. ASSUME NEW i \in DOMAIN q, ~(i <= k)
        PROVE  i - k \in DOMAIN r /\ r[i - k] = q[i]
    <3>1. i - k \in 1..(Len(q) - k) /\ k + (i - k) = i
      BY <1>1, <2>1
    <3>2. QED
      BY <1>1, <3>1
  <2>2. QED
    BY <2>1
<1>3. ASSUME NoneAbout(r, t), \A i \in 1..k : ~About(q[i], t), NEW i \in DOMAIN q
      PROVE  ~About(q[i], t)
  <2>1. CASE i <= k
    BY <1>3, <2>1
  <2>2. CASE ~(i <= k)
    BY <1>2, <1>3 DEF NoneAbout
  <2>3. QED
    BY <2>1, <2>2
<1>4. ASSUME NEW i \in DOMAIN r, LastAbout(r, i, t)
      PROVE  k + i \in DOMAIN q /\ r[i] = q[k + i] /\ LastAbout(q, k + i, t)
  <2>1. k + i \in DOMAIN q /\ r[i] = q[k + i] /\ i \in 1..(Len(q) - k)
    BY <1>1
  <2>2. ASSUME NEW j \in DOMAIN q, k + i < j PROVE ~About(q[j], t)
    <3>1. ~(j <= k) /\ i < j - k
      BY <2>2
    <3>2. j - k \in DOMAIN r /\ r[j - k] = q[j]
      BY <1>2, <3>1
    <3>3. QED
      BY <1>4, <3>1, <3>2 DEF LastAbout
  <2>3. About(q[k + i], t)
    BY <1>4 DEF LastAbout
  <2>4. QED
    BY <2>2, <2>3 DEF LastAbout
<1>5. QED
  BY <1>3, <1>4 DEF NoneAbout

\* The audiences follow the wishes.
LEMMA WantStep ==
  ASSUME ClientAssumption, HubInv, [Next]_vars, TypeOK'
  PROVE  WantInv'
<1>0. TypeOK /\ FormInv /\ NewInv /\ WantInv
  BY DEF HubInv
<1> DEFINE Wish(q, d, s, A, W) ==
             /\ NoneAbout(q, s) => (d \in A[s] <=> s \in W[d])
             /\ \A i \in DOMAIN q : LastAbout(q, i, s) => (q[i].cmd = "sub" <=> s \in W[d])
<1>a. \A d \in accepted, s \in Topics : Wish(ToCome(d), d, s, audiences, wants)
  BY <1>0 DEF WantInv
<1>b. ASSUME \A d \in accepted', s \in Topics : Wish(ToCome(d)', d, s, audiences', wants')
      PROVE  WantInv'
  BY <1>b DEF WantInv
<1>c. \A c \in Clients : ToCome(c) \in Seq(Lines) /\ ToCome(c)' \in Seq(Lines)
  BY <1>0, LinesAre, LinesAreNext
<1>d. accepted \subseteq Clients
  BY <1>0 DEF TypeOK
<1>1. CASE UNCHANGED vars
  <2>1. UNCHANGED <<accepted, wants, audiences, toHub, hubBuffer>>
    BY <1>1 DEF vars, clientVars, hubVars, wires
  <2>2. \A d \in Clients : ToCome(d)' = ToCome(d)
    BY <2>1, LinesStay
  <2>3. QED
    BY <1>a, <1>b, <1>d, <2>1, <2>2
<1>2. ASSUME NEW c \in Clients, NEW lines \in Seq(Lines), NEW t \in Topics, NEW want,
             Call(c, lines, want), \A s \in Topics \ {t} : NoneAbout(lines, s),
             \A s \in Topics \ {t} : s \in want <=> s \in wants[c],
             \/ lines = <<Request("sub", t)>> /\ t \in want
             \/ lines = <<Request("unsub", t)>> /\ t \notin want
             \/ NoneAbout(lines, t) /\ want = wants[c]
      PROVE  WantInv'
  <2>1. /\ Adds(c, lines) /\ UNCHANGED <<accepted, audiences>> /\ wants'[c] = want
        /\ \A d \in Clients \ {c} : wants'[d] = wants[d]
    BY <1>0, <1>2, CallAdds DEF Call, hubVars, TypeOK
  <2> DEFINE q == ToCome(c)
             r == ToCome(c)'
  <2>2. q \in Seq(Lines) /\ r \in Seq(Lines)
    BY <1>c
  <2>3. /\ Len(r) = Len(q) + Len(lines)
        /\ \A i \in 1..(Len(q) + Len(lines)) :
             r[i] = IF i <= Len(q) THEN q[i] ELSE lines[i - Len(q)]
    BY <2>1 DEF Adds
  <2>4. ASSUME NEW s \in Topics, c \in accepted, NoneAbout(lines, s),
               s \in want <=> s \in wants[c]
        PROVE  Wish(r, c, s, audiences', wants')
    <3>1. Wish(q, c, s, audiences, wants)
      BY <1>a, <2>4
    <3> HIDE DEF q, r
    <3>2. /\ NoneAbout(r, s) => NoneAbout(q, s)
          /\ \A i \in DOMAIN r : LastAbout(r, i, s) =>
               i \in DOMAIN q /\ r[i] = q[i] /\ LastAbout(q, i, s)
      BY <2>2, <2>3, <2>4, AboutMore
    <3>3. QED
      BY <2>1, <2>4, <3>1, <3>2
  <2>5. ASSUME NEW cmd \in {"sub", "unsub"}, lines = <<Request(cmd, t)>>,
               cmd = "sub" <=> t \in want
        PROVE  Wish(r, c, t, audiences', wants')
    <3> HIDE DEF q, r
    <3>1. /\ Len(q) \in Nat /\ Len(lines) = 1 /\ DOMAIN r = 1..(Len(q) + 1)
          /\ r[Len(q) + 1] = Request(cmd, t)
      <4>1. Len(q) \in Nat /\ Len(lines) = 1 /\ lines[1] = Request(cmd, t) /\ DOMAIN r = 1..Len(r)
        BY <2>5
      <4>2. /\ Len(q) + 1 \in 1..(Len(q) + Len(lines)) /\ ~(Len(q) + 1 <= Len(q))
            /\ (Len(q) + 1) - Len(q) = 1
        BY <4>1
      <4>3. r[Len(q) + 1] = lines[1]
        BY <2>3, <4>2
      <4>4. QED
        BY <2>3, <4>1, <4>3
    <3>2. Len(q) + 1 \in DOMAIN r /\ About(r[Len(q) + 1], t) /\ r[Len(q) + 1].cmd = cmd
      BY <3>1 DEF About, Request
    <3>3. ~NoneAbout(r, t)
      BY <3>2 DEF NoneAbout
    <3>4. ASSUME NEW i \in DOMAIN r, LastAbout(r, i, t) PROVE r[i].cmd = "sub" <=> t \in wants'[c]
      <4>1. ~(i < Len(q) + 1)
        BY <3>2, <3>4 DEF LastAbout
      <4>2. i = Len(q) + 1
        BY <3>1, <4>1
      <4>3. QED
        BY <2>1, <2>5, <3>2, <4>2
    <3>5. QED
      BY <3>3, <3>4
  <2>6. ASSUME NEW s \in Topics, c \in accepted PROVE Wish(r, c, s, audiences', wants')
    <3>1. CASE s # t
      BY <1>2, <2>4, <2>6, <3>1
    <3>2. CASE s = t
      <4>1. CASE lines = <<Request("sub", t)>> /\ t \in want
        BY <2>5, <3>2, <4>1
      <4>2. CASE lines = <<Request("unsub", t)>> /\ t \notin want
        BY <2>5, <3>2, <4>2
      <4>3. CASE NoneAbout(lines, t) /\ want = wants[c]
        BY <2>4, <2>6, <3>2, <4>3
      <4>4. QED
        BY <1>2, <4>1, <4>2, <4>3
    <3>3. QED
      BY <3>1, <3>2
  <2>7. ASSUME NEW d \in accepted, d # c, NEW s \in Topics
        PROVE  Wish(ToCome(d)', d, s, audiences', wants')
    <3>1. d \in Clients /\ ToCome(d)' = ToCome(d) /\ wants'[d] = wants[d] /\ audiences' = audiences
      BY <1>d, <2>1, <2>7 DEF Adds
    <3>2. Wish(ToCome(d), d, s, audiences, wants)
      BY <1>a
    <3>3. QED
      BY <3>1, <3>2
  <2>8. QED
    BY <1>b, <2>1, <2>6, <2>7
<1>3. ASSUME NEW c \in Clients, NEW t \in Topics,
             Subscribes(c, t) \/ Unsubscribes(c, t) \/ Publishes(c, t)
      PROVE  WantInv'
  <2>1. CASE Subscribes(c, t)
    <3>1. \A s \in Topics \ {t} : NoneAbout(<<Request("sub", t)>>, s)
      BY DEF NoneAbout, About, Request
    <3> DEFINE want == wants[c] \cup {t}
    <3>2. Call(c, <<Request("sub", t)>>, want) /\ <<Request("sub", t)>> \in Seq(Lines)
      BY <1>0, <2>1, RequestsAre DEF Subscribes
    <3>3. (\A s \in Topics \ {t} : s \in want <=> s \in wants[c]) /\ t \in want
      OBVIOUS
    <3> HIDE DEF want
    <3>4. QED
      BY <1>2, <3>1, <3>2, <3>3
  <2>2. CASE Unsubscribes(c, t)
    <3>1. \A s \in Topics \ {t} : NoneAbout(<<Request("unsub", t)>>, s)
      BY DEF NoneAbout, About, Request
    <3> DEFINE want == wants[c] \ {t}
    <3>2. Call(c, <<Request("unsub", t)>>, want) /\ <<Request("unsub", t)>> \in Seq(Lines)
      BY <1>0, <2>2, RequestsAre DEF Unsubscribes
    <3>3. (\A s \in Topics \ {t} : s \in want <=> s \in wants[c]) /\ t \notin want
      OBVIOUS
    <3> HIDE DEF want
    <3>4. QED
      BY <1>2, <3>1, <3>2, <3>3
  <2>3. CASE Publishes(c, t)
    <3> DEFINE l == Publication(t, <<c, calls[c] + 1>>)
    <3>1. l \in Seq(Lines) /\ Len(l) = 2 /\ l[1].cmd = "pub" /\ l[2].cmd = "text"
      BY <1>0, <2>3, RequestsAre, PublicationFacts
    <3>2. Call(c, l, wants[c])
      BY <2>3 DEF Publishes
    <3> HIDE DEF l
    <3>3. DOMAIN l = {1, 2}
      BY <3>1
    <3>4. \A s \in Topics : NoneAbout(l, s)
      BY <3>1 DEF NoneAbout, About
    <3>5. QED
      BY <1>2, <3>1, <3>2, <3>4
  <2>4. QED
    BY <1>3, <2>1, <2>2, <2>3
<1>4. ASSUME NEW c \in Clients, Connects(c) PROVE WantInv'
  <2>1. /\ conn[c] = "new" /\ accepted' = accepted \cup {c}
        /\ UNCHANGED <<wants, audiences, toHub, hubBuffer>>
    BY <1>4 DEF Connects, Connect, wires
  <2>2. \A d \in Clients : ToCome(d)' = ToCome(d)
    BY <2>1, LinesStay
  <2>3. ToCome(c) = <<>> /\ wants[c] = {} /\ \A s \in Topics : c \notin audiences[s]
    BY <1>0, <2>1 DEF NewInv
  <2>4. \A s \in Topics : Wish(ToCome(c), c, s, audiences, wants)
    BY <2>3
  <2>5. QED
    BY <1>a, <1>b, <1>d, <2>1, <2>2, <2>4
<1>5. ASSUME NEW c \in Clients, Disconnects(c) \/ ClientLoop(c) \/ Closes(c) \/ HubDies(c)
      PROVE  WantInv'
  <2>1. accepted' \subseteq accepted /\ UNCHANGED <<wants, audiences, toHub, hubBuffer>>
    <3>1. CASE Disconnects(c) \/ Closes(c) \/ HubDies(c)
      BY <3>1 DEF Disconnects, Disconnect, Closes, HubClose, HubDies, clientVars, hubVars, wires
    <3>2. CASE ClientLoop(c)
      BY <1>0, <3>2, ClientReads DEF clientVars, hubVars
    <3>3. QED
      BY <1>5, <3>1, <3>2
  <2>2. \A d \in Clients : ToCome(d)' = ToCome(d)
    BY <2>1, LinesStay
  <2>3. QED
    BY <1>a, <1>b, <1>d, <2>1, <2>2
<1>6. ASSUME NEW c \in Clients, Reads(c) PROVE WantInv'
  <2>1. UNCHANGED <<accepted, wants, audiences>>
    BY <1>6 DEF Reads, HubRead, clientVars
  <2>2. \A d \in Clients : ToCome(d)' = ToCome(d)
    BY <1>0, <1>6, ReadSame
  <2>3. QED
    BY <1>a, <1>b, <1>d, <2>1, <2>2
<1>7. ASSUME NEW c \in Clients, NEW t \in Topics, NEW k \in 1..2, Uses(c, k),
             UNCHANGED <<wants, accepted>>,
             \A i \in 1..k : \A s \in Topics \ {t} : ~About(ToCome(c)[i], s),
             \A d \in Clients, s \in Topics : d # c \/ s # t =>
               (d \in audiences'[s] <=> d \in audiences[s]),
             \/ /\ \A i \in 1..k : ~About(ToCome(c)[i], t)
                /\ c \in audiences'[t] <=> c \in audiences[t]
             \/ /\ k = 1 /\ About(ToCome(c)[1], t)
                /\ c \in audiences'[t] <=> ToCome(c)[1].cmd = "sub"
      PROVE  WantInv'
  <2> DEFINE q == ToCome(c)
             r == ToCome(c)'
  <2>1. q \in Seq(Lines) /\ r \in Seq(Lines) /\ k \in Nat
    BY <1>c
  <2>2. /\ k <= Len(q) /\ Len(r) = Len(q) - k
        /\ \A i \in 1..(Len(q) - k) : r[i] = q[k + i]
    BY <1>7 DEF Uses
  <2>3. ASSUME NEW s \in Topics, c \in accepted PROVE Wish(r, c, s, audiences', wants')
    <3>1. Wish(q, c, s, audiences, wants)
      BY <1>a, <2>3
    <3>2. \/ /\ \A i \in 1..k : ~About(q[i], s)
             /\ c \in audiences'[s] <=> c \in audiences[s]
          \/ /\ s = t /\ k = 1 /\ About(q[1], s)
             /\ c \in audiences'[s] <=> q[1].cmd = "sub"
      BY <1>7
    <3> HIDE DEF q, r
    <3>3. /\ NoneAbout(r, s) /\ (\A i \in 1..k : ~About(q[i], s)) => NoneAbout(q, s)
          /\ \A i \in DOMAIN r : LastAbout(r, i, s) =>
               k + i \in DOMAIN q /\ r[i] = q[k + i] /\ LastAbout(q, k + i, s)
      BY <2>1, <2>2, AboutLess
    <3>4. \A i \in DOMAIN r : LastAbout(r, i, s) => (r[i].cmd = "sub" <=> s \in wants'[c])
      BY <1>7, <3>1, <3>3
    <3>5. ASSUME NoneAbout(r, s) PROVE c \in audiences'[s] <=> s \in wants'[c]
      <4>1. CASE /\ \A i \in 1..k : ~About(q[i], s)
                 /\ c \in audiences'[s] <=> c \in audiences[s]
        BY <1>7, <3>1, <3>3, <3>5, <4>1
      <4>2. CASE /\ s = t /\ k = 1 /\ About(q[1], s)
                 /\ c \in audiences'[s] <=> q[1].cmd = "sub"
        <5>1. DOMAIN q = 1..Len(q) /\ Len(q) \in Nat /\ DOMAIN r = 1..(Len(q) - 1)
          BY <2>2, <4>2
        <5>2. ASSUME NEW j \in DOMAIN q, 1 < j PROVE ~About(q[j], s)
          <6>1. j - 1 \in 1..(Len(q) - 1) /\ 1 + (j - 1) = j
            BY <5>1, <5>2
          <6>2. r[j - 1] = q[j] /\ j - 1 \in DOMAIN r
            BY <2>2, <4>2, <6>1
          <6>3. QED
            BY <3>5, <6>2 DEF NoneAbout
        <5>3. 1 \in DOMAIN q
          BY <2>2
        <5>4. LastAbout(q, 1, s)
          BY <4>2, <5>2 DEF LastAbout
        <5>5. q[1].cmd = "sub" <=> s \in wants[c]
          BY <3>1, <5>3, <5>4
        <5>6. QED
          BY <1>7, <4>2, <5>5
      <4>3. QED
        BY <3>2, <4>1, <4>2
    <3>6. QED
      BY <3>4, <3>5
  <2>4. ASSUME NEW d \in accepted, d # c, NEW s \in Topics
        PROVE  Wish(ToCome(d)', d, s, audiences', wants')
    <3>1. /\ d \in Clients /\ ToCome(d)' = ToCome(d) /\ wants' = wants
          /\ d \in audiences'[s] <=> d \in audiences[s]
      BY <1>7, <1>d, <2>4 DEF Uses
    <3>2. Wish(ToCome(d), d, s, audiences, wants)
      BY <1>a
    <3>3. QED
      BY <3>1, <3>2
  <2>5. QED
    BY <1>7, <1>b, <2>3, <2>4
<1>8. ASSUME NEW c \in Clients, NEW t \in Topics, Subscribed(c, t) PROVE WantInv'
  <2>1. /\ Uses(c, 1) /\ ToCome(c)[1] = Request("sub", t) /\ UNCHANGED <<wants, accepted>>
        /\ audiences' = [audiences EXCEPT ![t] = @ \cup {c}]
    BY <1>0, <1>8, SubscribedDoes DEF clientVars
  <2>2. /\ \A i \in 1..1 : \A s \in Topics \ {t} : ~About(ToCome(c)[i], s)
        /\ About(ToCome(c)[1], t) /\ ToCome(c)[1].cmd = "sub"
    BY <2>1 DEF About, Request
  <2>3. /\ \A d \in Clients, s \in Topics : d # c \/ s # t =>
             (d \in audiences'[s] <=> d \in audiences[s])
        /\ c \in audiences'[t]
    BY <2>1 DEF TypeOK
  <2>4. QED
    BY <1>7, <2>1, <2>2, <2>3
<1>9. ASSUME NEW c \in Clients, NEW t \in Topics, Unsubscribed(c, t) PROVE WantInv'
  <2>1. /\ Uses(c, 1) /\ ToCome(c)[1] = Request("unsub", t) /\ UNCHANGED <<wants, accepted>>
        /\ audiences' = [audiences EXCEPT ![t] = @ \ {c}]
    BY <1>0, <1>9, UnsubscribedDoes DEF clientVars
  <2>2. /\ \A i \in 1..1 : \A s \in Topics \ {t} : ~About(ToCome(c)[i], s)
        /\ About(ToCome(c)[1], t) /\ ToCome(c)[1].cmd # "sub"
    BY <2>1 DEF About, Request
  <2>3. /\ \A d \in Clients, s \in Topics : d # c \/ s # t =>
             (d \in audiences'[s] <=> d \in audiences[s])
        /\ c \notin audiences'[t]
    BY <2>1 DEF TypeOK
  <2>4. QED
    BY <1>7, <2>1, <2>2, <2>3
<1>10. ASSUME NEW c \in Clients, NEW t \in Topics, Published(c, t) PROVE WantInv'
  <2>1. /\ Uses(c, 2) /\ ToCome(c)[1] = Request("pub", t) /\ ToCome(c)[2].cmd = "text"
        /\ UNCHANGED <<wants, accepted, audiences>>
    BY <1>0, <1>10, PublishedDoes DEF clientVars
  <2>2. \A i \in 1..2 : \A s \in Topics : ~About(ToCome(c)[i], s)
    BY <2>1 DEF About, Request
  <2>3. QED
    BY <1>7, <2>1, <2>2
<1>11. QED
  BY <1>1, <1>3, <1>4, <1>5, <1>6, <1>8, <1>9, <1>10, NextCases

\* The content of a publication names its client and a call.
LEMMA ContentFacts ==
  ASSUME ClientAssumption, NEW m \in Contents
  PROVE  m = <<m[1], m[2]>> /\ m[1] \in Clients /\ m[2] \in Nat /\ m # None
<1>1. PICK c \in Clients : m \in {c} \X (1..MaxCalls[c])
  BY DEF Contents
<1>2. MaxCalls[c] \in Nat
  BY DEF ClientAssumption
<1>3. m = <<m[1], m[2]>> /\ m[1] = c /\ m[2] \in 1..MaxCalls[c]
  BY <1>1
<1>4. m # None
  <2>1. <<m[1], m[2]>> # <<>>
    OBVIOUS
  <2>2. QED
    BY <1>3, <2>1 DEF None
<1>5. QED
  BY <1>3, <1>4

\* A publication behind the others of its topic.
LEMMA PublishedGrows ==
  ASSUME TypeOK, NEW t \in Topics, NEW m \in Contents,
         published' = [published EXCEPT ![t] = Append(@, m)]
  PROVE  /\ \A s \in Topics \ {t} : published'[s] = published[s]
         /\ published'[t] = Append(published[t], m) /\ published'[t] \in Seq(Contents)
         /\ Len(published[t]) \in Nat /\ Len(published'[t]) = Len(published[t]) + 1
         /\ DOMAIN published[t] = 1..Len(published[t])
         /\ DOMAIN published'[t] = 1..(Len(published[t]) + 1)
         /\ \A k \in 1..Len(published[t]) : published'[t][k] = published[t][k]
         /\ published'[t][Len(published[t]) + 1] = m
<1> DEFINE p == published[t]
<1>1. p \in Seq(Contents) /\ Len(p) \in Nat /\ DOMAIN p = 1..Len(p)
  BY LenProperties DEF TypeOK
<1>2. published'[t] = Append(p, m) /\ \A s \in Topics \ {t} : published'[s] = published[s]
  BY DEF TypeOK
<1> HIDE DEF p
<1>3. /\ Append(p, m) \in Seq(Contents) /\ Len(Append(p, m)) = Len(p) + 1
      /\ \A i \in 1..Len(p) : Append(p, m)[i] = p[i]
      /\ Append(p, m)[Len(p) + 1] = m
  BY <1>1, AppendProperties
<1>4. DOMAIN Append(p, m) = 1..(Len(p) + 1)
  BY <1>3, LenProperties
<1>5. QED
  BY <1>1, <1>2 DEF p

\* What was published is known by its topic and its place.
LEMMA PublishedAre ==
  ASSUME ClientAssumption, TypeOK, NEW t \in Topics
  PROVE  /\ Len(published[t]) \in Nat /\ DOMAIN published[t] = 1..Len(published[t])
         /\ \A k \in DOMAIN published[t] : /\ published[t][k] \in Contents
                                           /\ published[t][k][2] \in Nat
<1>1. published[t] \in Seq(Contents)
  BY DEF TypeOK
<1>2. /\ Len(published[t]) \in Nat /\ DOMAIN published[t] = 1..Len(published[t])
      /\ \A k \in DOMAIN published[t] : published[t][k] \in Contents
  BY <1>1
<1>3. QED
  BY <1>2, ContentFacts

\* Nothing is published but by Published.
LEMMA TopicsChange ==
  ASSUME ClientAssumption, HubInv, [Next]_vars
  PROVE  \/ UNCHANGED <<content, published>>
         \/ \E c \in Clients, t \in Topics : Published(c, t)
<1>0. TypeOK /\ FormInv
  BY DEF HubInv
<1>1. CASE UNCHANGED vars
  BY <1>1 DEF vars, hubVars
<1>2. ASSUME NEW c \in Clients, NEW t \in Topics,
             Subscribes(c, t) \/ Unsubscribes(c, t) \/ Publishes(c, t)
      PROVE  UNCHANGED <<content, published>>
  BY <1>2 DEF Subscribes, Unsubscribes, Publishes, Call, hubVars
<1>3. ASSUME NEW c \in Clients, Connects(c) \/ Disconnects(c) \/ Reads(c) \/ Closes(c) \/ HubDies(c)
      PROVE  UNCHANGED <<content, published>>
  BY <1>3 DEF Connects, Connect, Disconnects, Disconnect, Reads, HubRead, Closes, HubClose,
              HubDies, hubVars
<1>4. ASSUME NEW c \in Clients, ClientLoop(c) PROVE UNCHANGED <<content, published>>
  BY <1>0, <1>4, ClientReads DEF hubVars
<1>5. ASSUME NEW c \in Clients, NEW t \in Topics, Subscribed(c, t) \/ Unsubscribed(c, t)
      PROVE  UNCHANGED <<content, published>>
  BY <1>0, <1>5, SubscribedDoes, UnsubscribedDoes
<1>6. QED
  BY <1>1, <1>2, <1>3, <1>4, <1>5, NextCases

\* Publications are numbered as they were made.
LEMMA TextStep ==
  ASSUME ClientAssumption, HubInv, [Next]_vars, TypeOK'
  PROVE  TextInv'
<1>0. TypeOK /\ FormInv /\ TextInv
  BY DEF HubInv
<1> DEFINE Texts(q, d, n, P) ==
             /\ \A i \in DOMAIN q : q[i].cmd = "text" =>
                  /\ q[i].text[1] = d /\ q[i].text[2] <= n
                  /\ \A j \in DOMAIN q : i < j /\ q[j].cmd = "text" => q[i].text[2] < q[j].text[2]
                  /\ \A t \in Topics, k \in Nat : k \in DOMAIN P[t] /\ P[t][k][1] = d =>
                       P[t][k][2] < q[i].text[2]
             /\ \A t \in Topics : \A k \in DOMAIN P[t] : P[t][k][1] = d => P[t][k][2] <= n
<1>a. \A d \in Clients : Texts(ToCome(d), d, calls[d], published)
  BY <1>0 DEF TextInv
<1>b. ASSUME \A d \in Clients : Texts(ToCome(d)', d, calls'[d], published')
      PROVE  TextInv'
  BY <1>b DEF TextInv
<1>c. \A d \in Clients : /\ ToCome(d) \in Seq(Lines) /\ ToCome(d)' \in Seq(Lines)
                         /\ calls[d] \in Nat
                         /\ Len(ToCome(d)) \in Nat /\ DOMAIN ToCome(d) = 1..Len(ToCome(d))
                         /\ DOMAIN ToCome(d)' = 1..Len(ToCome(d)')
  BY <1>0, LinesAre, LinesAreNext DEF TypeOK
<1>d. \A d \in Clients : \A i \in DOMAIN ToCome(d) : ToCome(d)[i].cmd = "text" =>
        ToCome(d)[i].text \in Contents /\ ToCome(d)[i].text[2] \in Nat
  BY <1>0, LinesAre, LineFacts, ContentFacts
<1>e. \A t \in Topics : \A k \in DOMAIN published[t] : published[t][k][2] \in Nat
  BY <1>0, PublishedAre
<1>1. CASE UNCHANGED vars
  <2>1. UNCHANGED <<calls, published, toHub, hubBuffer>>
    BY <1>1 DEF vars, clientVars, hubVars, wires
  <2>2. \A d \in Clients : ToCome(d)' = ToCome(d)
    BY <2>1, LinesStay
  <2>3. QED
    BY <1>a, <1>b, <2>1, <2>2
<1>2. ASSUME NEW c \in Clients, NEW lines \in Seq(Lines), NEW want,
             Call(c, lines, want),
             \A i \in DOMAIN lines : lines[i].cmd = "text" =>
               i = Len(lines) /\ lines[i].text = <<c, calls[c] + 1>>
      PROVE  TextInv'
  <2>1. /\ Adds(c, lines) /\ published' = published /\ calls'[c] = calls[c] + 1
        /\ \A d \in Clients \ {c} : calls'[d] = calls[d]
    BY <1>0, <1>2, CallAdds DEF Call, hubVars, TypeOK
  <2>2. Texts(ToCome(c)', c, calls'[c], published')
    <3> DEFINE q == ToCome(c)
               r == ToCome(c)'
               n == Len(q)
               l == Len(lines)
    <3>1. Texts(q, c, calls[c], published)
      BY <1>a
    <3>2. /\ DOMAIN q = 1..n /\ DOMAIN r = 1..(n + l) /\ n \in Nat /\ l \in Nat /\ DOMAIN lines = 1..l
          /\ \A i \in 1..(n + l) : r[i] = IF i <= n THEN q[i] ELSE lines[i - n]
      BY <2>1 DEF Adds
    <3>3. /\ calls[c] \in Nat
          /\ \A i \in DOMAIN q : q[i].cmd = "text" => q[i].text[2] \in Nat
      BY <1>c, <1>d
    <3> HIDE DEF q, r, n, l
    <3>4. ASSUME NEW i \in DOMAIN r, r[i].cmd = "text"
          PROVE  \/ i \in DOMAIN q /\ r[i] = q[i]
                 \/ i = n + l /\ ~(i <= n) /\ r[i].text = <<c, calls[c] + 1>>
      <4>1. CASE i <= n
        BY <3>2, <4>1
      <4>2. CASE ~(i <= n)
        <5>1. i - n \in 1..l /\ r[i] = lines[i - n]
          BY <3>2, <4>2
        <5>2. i - n = l /\ r[i].text = <<c, calls[c] + 1>>
          BY <1>2, <3>2, <3>4, <5>1
        <5>3. QED
          BY <3>2, <5>2
      <4>3. QED
        BY <4>1, <4>2
    <3>5. ASSUME NEW i \in DOMAIN r, r[i].cmd = "text"
          PROVE  /\ r[i].text[1] = c /\ r[i].text[2] <= calls[c] + 1
                 /\ \A j \in DOMAIN r : i < j /\ r[j].cmd = "text" => r[i].text[2] < r[j].text[2]
                 /\ \A t \in Topics, k \in Nat : k \in DOMAIN published[t] /\ published[t][k][1] = c =>
                      published[t][k][2] < r[i].text[2]
      <4>1. CASE i \in DOMAIN q /\ r[i] = q[i]
        <5>1. r[i].text[1] = c /\ r[i].text[2] <= calls[c] /\ r[i].text[2] \in Nat
          BY <3>1, <3>3, <3>5, <4>1
        <5>2. ASSUME NEW j \in DOMAIN r, i < j, r[j].cmd = "text" PROVE r[i].text[2] < r[j].text[2]
          <6>1. CASE j \in DOMAIN q /\ r[j] = q[j]
            BY <3>1, <3>5, <4>1, <5>2, <6>1
          <6>2. CASE r[j].text = <<c, calls[c] + 1>>
            BY <3>3, <5>1, <6>2
          <6>3. QED
            BY <3>4, <5>2, <6>1, <6>2
        <5>3. \A t \in Topics, k \in Nat : k \in DOMAIN published[t] /\ published[t][k][1] = c =>
                published[t][k][2] < r[i].text[2]
          BY <3>1, <3>5, <4>1
        <5>4. QED
          BY <3>3, <5>1, <5>2, <5>3
      <4>2. CASE i = n + l /\ ~(i <= n) /\ r[i].text = <<c, calls[c] + 1>>
        <5>1. \A j \in DOMAIN r : ~(i < j)
          BY <3>2, <4>2
        <5>2. \A t \in Topics, k \in Nat : k \in DOMAIN published[t] /\ published[t][k][1] = c =>
                published[t][k][2] < calls[c] + 1
          BY <1>e, <3>1, <3>3
        <5>3. QED
          BY <3>3, <4>2, <5>1, <5>2
      <4>3. QED
        BY <3>4, <3>5, <4>1, <4>2
    <3>6. \A t \in Topics : \A k \in DOMAIN published[t] :
            published[t][k][1] = c => published[t][k][2] <= calls[c] + 1
      BY <1>e, <3>1, <3>3
    <3>7. Texts(r, c, calls[c] + 1, published)
      BY <3>5, <3>6
    <3>8. QED
      BY <2>1, <3>7 DEF r
  <2>3. ASSUME NEW d \in Clients, d # c PROVE Texts(ToCome(d)', d, calls'[d], published')
    <3>1. ToCome(d)' = ToCome(d) /\ calls'[d] = calls[d]
      BY <2>1, <2>3 DEF Adds
    <3>2. Texts(ToCome(d), d, calls[d], published)
      BY <1>a
    <3>3. QED
      BY <2>1, <3>1, <3>2
  <2>4. QED
    BY <1>b, <2>2, <2>3
<1>3. ASSUME NEW c \in Clients, NEW t \in Topics,
             Subscribes(c, t) \/ Unsubscribes(c, t) \/ Publishes(c, t)
      PROVE  TextInv'
  <2>1. ASSUME NEW cmd \in {"sub", "unsub"}, NEW want, Call(c, <<Request(cmd, t)>>, want)
        PROVE  TextInv'
    <3> DEFINE l == <<Request(cmd, t)>>
    <3>1. l \in Seq(Lines) /\ DOMAIN l = {1} /\ l[1].cmd # "text"
      BY DEF Request, Lines, Requests
    <3> HIDE DEF l
    <3>2. QED
      BY <1>2, <2>1, <3>1 DEF l
  <2>2. ASSUME Publishes(c, t) PROVE TextInv'
    <3> DEFINE l == Publication(t, <<c, calls[c] + 1>>)
    <3>1. /\ l \in Seq(Lines) /\ Len(l) = 2 /\ l[1].cmd = "pub"
          /\ l[2].cmd = "text" /\ l[2].text = <<c, calls[c] + 1>>
      BY <1>0, <2>2, RequestsAre, PublicationFacts
    <3>2. Call(c, l, wants[c])
      BY <2>2 DEF Publishes
    <3> HIDE DEF l
    <3>3. DOMAIN l = {1, 2}
      BY <3>1
    <3>4. QED
      BY <1>2, <3>1, <3>2, <3>3
  <2>3. QED
    BY <1>3, <2>1, <2>2 DEF Subscribes, Unsubscribes
<1>4. ASSUME NEW c \in Clients,
             Connects(c) \/ Disconnects(c) \/ ClientLoop(c) \/ Closes(c) \/ HubDies(c)
      PROVE  TextInv'
  <2>1. UNCHANGED <<calls, published, toHub, hubBuffer>>
    <3>1. CASE Connects(c) \/ Disconnects(c) \/ Closes(c) \/ HubDies(c)
      BY <3>1 DEF Connects, Connect, Disconnects, Disconnect, Closes, HubClose, HubDies,
                  clientVars, hubVars, wires
    <3>2. CASE ClientLoop(c)
      BY <1>0, <3>2, ClientReads DEF clientVars, hubVars
    <3>3. QED
      BY <1>4, <3>1, <3>2
  <2>2. \A d \in Clients : ToCome(d)' = ToCome(d)
    BY <2>1, LinesStay
  <2>3. QED
    BY <1>a, <1>b, <2>1, <2>2
<1>5. ASSUME NEW c \in Clients, Reads(c) PROVE TextInv'
  <2>1. UNCHANGED <<calls, published>>
    BY <1>5 DEF Reads, HubRead, clientVars
  <2>2. \A d \in Clients : ToCome(d)' = ToCome(d)
    BY <1>0, <1>5, ReadSame
  <2>3. QED
    BY <1>a, <1>b, <2>1, <2>2
<1>6. ASSUME NEW c \in Clients, NEW k \in 1..2, Uses(c, k)
      PROVE  \A i \in DOMAIN ToCome(c)' :
               k + i \in DOMAIN ToCome(c) /\ ToCome(c)'[i] = ToCome(c)[k + i]
  <2>1. /\ DOMAIN ToCome(c)' = 1..(Len(ToCome(c)) - k) /\ Len(ToCome(c)) \in Nat
        /\ DOMAIN ToCome(c) = 1..Len(ToCome(c))
        /\ \A i \in 1..(Len(ToCome(c)) - k) : ToCome(c)'[i] = ToCome(c)[k + i]
    BY <1>6 DEF Uses
  <2> DEFINE n == Len(ToCome(c))
  <2>2. n \in Nat
    BY <2>1
  <2> HIDE DEF n
  <2>3. \A i \in 1..(n - k) : k + i \in 1..n
    BY <2>2
  <2>4. QED
    BY <2>1
<1>7. ASSUME NEW c \in Clients, NEW t \in Topics, Subscribed(c, t) \/ Unsubscribed(c, t)
      PROVE  TextInv'
  <2>1. Uses(c, 1) /\ UNCHANGED <<calls, published>>
    BY <1>0, <1>7, SubscribedDoes, UnsubscribedDoes DEF clientVars
  <2>2. Texts(ToCome(c)', c, calls[c], published)
    <3> DEFINE q == ToCome(c)
               r == ToCome(c)'
    <3>1. Texts(q, c, calls[c], published)
      BY <1>a
    <3>2. \A i \in DOMAIN r : 1 + i \in DOMAIN q /\ r[i] = q[1 + i]
      BY <1>6, <2>1
    <3>3. \A i, j \in DOMAIN r : i < j => 1 + i < 1 + j
      BY <1>c
    <3> HIDE DEF q, r
    <3>4. Texts(r, c, calls[c], published)
      BY <3>1, <3>2, <3>3
    <3>5. QED
      BY <3>4 DEF r
  <2>3. QED
    BY <1>a, <1>b, <2>1, <2>2 DEF Uses
<1>8. ASSUME NEW c \in Clients, NEW t \in Topics, Published(c, t) PROVE TextInv'
  <2> DEFINE q == ToCome(c)
             r == ToCome(c)'
             m == q[2].text
  <2>1. /\ Uses(c, 2) /\ q[2].cmd = "text" /\ m \in Contents /\ 2 <= Len(q)
        /\ published' = [published EXCEPT ![t] = Append(@, m)]
        /\ UNCHANGED calls
    BY <1>0, <1>8, PublishedDoes DEF clientVars
  <2>2. 2 \in DOMAIN q
    BY <1>c, <2>1
  <2>3. Texts(q, c, calls[c], published)
    BY <1>a
  <2>4. m[1] = c /\ m[2] <= calls[c]
    BY <2>1, <2>3
  <2>5. \A i \in DOMAIN r : 2 + i \in DOMAIN q /\ r[i] = q[2 + i]
    BY <1>6, <2>1
  <2>6. \A i, j \in DOMAIN r : 2 < 2 + i /\ (i < j => 2 + i < 2 + j)
    BY <1>c
  <2>7. \A s \in Topics : \A k \in DOMAIN published'[s] :
          \/ k \in DOMAIN published[s] /\ published'[s][k] = published[s][k]
          \/ s = t /\ published'[s][k] = m
    <3>1. /\ \A s \in Topics \ {t} : published'[s] = published[s]
          /\ Len(published[t]) \in Nat
          /\ DOMAIN published[t] = 1..Len(published[t])
          /\ DOMAIN published'[t] = 1..(Len(published[t]) + 1)
          /\ \A k \in 1..Len(published[t]) : published'[t][k] = published[t][k]
          /\ published'[t][Len(published[t]) + 1] = m
      BY <1>0, <2>1, PublishedGrows
    <3>2. ASSUME NEW k \in DOMAIN published'[t]
          PROVE  k \in DOMAIN published[t] \/ k = Len(published[t]) + 1
      BY <3>1
    <3>3. QED
      BY <3>1, <3>2
  <2>8. Texts(r, c, calls[c], published')
    <3> HIDE DEF q, r, m
    <3>1. ASSUME NEW i \in DOMAIN r, r[i].cmd = "text"
          PROVE  /\ r[i].text[1] = c /\ r[i].text[2] <= calls[c]
                 /\ \A j \in DOMAIN r : i < j /\ r[j].cmd = "text" => r[i].text[2] < r[j].text[2]
      BY <2>3, <2>5, <2>6, <3>1
    <3>2. ASSUME NEW i \in DOMAIN r, r[i].cmd = "text", NEW s \in Topics, NEW k \in Nat,
                 k \in DOMAIN published'[s], published'[s][k][1] = c
          PROVE  published'[s][k][2] < r[i].text[2]
      <4>1. 2 + i \in DOMAIN q /\ r[i] = q[2 + i] /\ 2 < 2 + i
        BY <2>5, <2>6
      <4>2. CASE k \in DOMAIN published[s] /\ published'[s][k] = published[s][k]
        BY <2>3, <3>2, <4>1, <4>2
      <4>3. CASE published'[s][k] = m
        <5>1. q[2].text[2] < q[2 + i].text[2]
          BY <2>1, <2>3, <3>2, <4>1
        <5>2. QED
          BY <4>1, <4>3, <5>1 DEF m
      <4>4. QED
        BY <2>7, <3>2, <4>2, <4>3
    <3>3. ASSUME NEW s \in Topics, NEW k \in DOMAIN published'[s], published'[s][k][1] = c
          PROVE  published'[s][k][2] <= calls[c]
      BY <2>3, <2>4, <2>7, <3>3
    <3>4. QED
      BY <3>1, <3>2, <3>3
  <2>9. ASSUME NEW d \in Clients, d # c PROVE Texts(ToCome(d)', d, calls[d], published')
    <3>1. ToCome(d)' = ToCome(d)
      BY <2>1, <2>9 DEF Uses
    <3>2. Texts(ToCome(d), d, calls[d], published)
      BY <1>a
    <3>3. \A s \in Topics : \A k \in DOMAIN published'[s] : published'[s][k][1] = d =>
            k \in DOMAIN published[s] /\ published'[s][k] = published[s][k]
      BY <2>4, <2>7, <2>9
    <3>4. Texts(ToCome(d), d, calls[d], published')
      BY <3>2, <3>3
    <3>5. QED
      BY <3>1, <3>4
  <2>10. QED
    BY <1>b, <2>1, <2>8, <2>9
<1>9. QED
  BY <1>1, <1>3, <1>4, <1>5, <1>7, <1>8, NextCases

\* The topics have their publications once, in order.
LEMMA TopicStep ==
  ASSUME ClientAssumption, HubInv, [Next]_vars
  PROVE  TopicInv'
<1>0. TypeOK /\ FormInv /\ TextInv /\ TopicInv
  BY DEF HubInv
<1>1. CASE UNCHANGED <<content, published>>
  BY <1>0, <1>1 DEF TopicInv
<1>2. ASSUME NEW c \in Clients, NEW t \in Topics, Published(c, t) PROVE TopicInv'
  <2> DEFINE m == ToCome(c)[2].text
             n == Len(published[t])
  <2>1. /\ ToCome(c)[2].cmd = "text" /\ m \in Contents /\ 2 <= Len(ToCome(c))
        /\ published' = [published EXCEPT ![t] = Append(@, m)]
        /\ content' = [content EXCEPT ![t] = m]
    BY <1>0, <1>2, PublishedDoes
  <2>2. /\ \A s \in Topics \ {t} : published'[s] = published[s]
        /\ published'[t] \in Seq(Contents)
        /\ n \in Nat /\ Len(published'[t]) = n + 1
        /\ DOMAIN published[t] = 1..n
        /\ DOMAIN published'[t] = 1..(n + 1)
        /\ \A k \in 1..n : published'[t][k] = published[t][k]
        /\ published'[t][n + 1] = m
    BY <1>0, <2>1, PublishedGrows
  <2>3. \A k \in 1..n : published[t][k] # m
    <3>1. 2 \in DOMAIN ToCome(c)
      BY <2>1
    <3>2. m[1] = c /\ \A k \in Nat : k \in DOMAIN published[t] /\ published[t][k][1] = c =>
                        published[t][k][2] < m[2]
      BY <1>0, <2>1 DEF TextInv
    <3>3. m[2] \in Nat
      BY <2>1, ContentFacts
    <3> HIDE DEF m, n
    <3>4. ASSUME NEW k \in 1..n, published[t][k] = m PROVE FALSE
      <4>1. k \in Nat /\ k \in DOMAIN published[t]
        BY <2>2
      <4>2. m[2] < m[2]
        BY <3>2, <3>4, <4>1
      <4>3. QED
        BY <3>3, <4>2
    <3>5. QED
      BY <3>4
  <2> HIDE DEF m, n
  <2>4. \A i, j \in DOMAIN published'[t] : published'[t][i] = published'[t][j] => i = j
    <3>1. ASSUME NEW i \in DOMAIN published'[t], NEW j \in DOMAIN published'[t],
                 published'[t][i] = published'[t][j]
          PROVE  i = j
      <4>1. i \in 1..n \/ i = n + 1
        BY <2>2
      <4>2. j \in 1..n \/ j = n + 1
        BY <2>2
      <4>3. CASE i \in 1..n /\ j \in 1..n
        BY <1>0, <2>2, <3>1, <4>3 DEF TopicInv
      <4>4. CASE i = n + 1 /\ j \in 1..n
        BY <2>2, <2>3, <3>1, <4>4
      <4>5. CASE i \in 1..n /\ j = n + 1
        BY <2>2, <2>3, <3>1, <4>5
      <4>6. CASE i = n + 1 /\ j = n + 1
        BY <4>6
      <4>7. QED
        BY <4>1, <4>2, <4>3, <4>4, <4>5
    <3>2. QED
      BY <3>1
  <2>5. content'[t] = m /\ published'[t] # <<>> /\ published'[t][Len(published'[t])] = m
    <3>1. content'[t] = m
      BY <1>0, <2>1 DEF TypeOK
    <3>2. 1 \in DOMAIN published'[t]
      BY <2>2
    <3>3. published'[t] # <<>>
      BY <3>2
    <3>4. QED
      BY <2>2, <3>1
  <2>6. \A s \in Topics \ {t} : content'[s] = content[s]
    BY <2>1
  <2>7. QED
    <3>1. \A s \in Topics \ {t} :
            /\ \A i, j \in DOMAIN published'[s] : published'[s][i] = published'[s][j] => i = j
            /\ content'[s] = IF published'[s] = <<>> THEN None
                             ELSE published'[s][Len(published'[s])]
      BY <1>0, <2>2, <2>6 DEF TopicInv
    <3>2. QED
      BY <2>4, <2>5, <3>1 DEF TopicInv
<1>3. QED
  BY <1>1, <1>2, TopicsChange

------------------------------------------------------------------------------
(* What clients are to hear.                                               *)

\* c is to hear, last, m about t, which is the last publication of t.
Told(c, t, m) ==
  /\ Delivered(c)' = Append(Delivered(c), <<t, m>>)
  /\ published'[t] # <<>> /\ m = published'[t][Len(published'[t])]

\* The ways a topic can change, ...
Grows(t) ==
  \/ published'[t] = published[t]
  \/ \E m \in Contents : published'[t] = Append(published[t], m)

\* ... what a client is to hear, ...
Hears(c) ==
  \/ Begins(Delivered(c)', Delivered(c))
  \/ \E t \in Topics, m \in Contents : Told(c, t, m)

\* ... and what a subscriber is.
Follows(c, t) ==
  \/ /\ Delivered(c)' = Delivered(c) \/ \E s \in Topics \ {t}, m \in Contents : Told(c, s, m)
     /\ Listens(c, t) /\ published'[t] = published[t]
     /\ joined'[<<c, t>>] = joined[<<c, t>>]
  \/ /\ \E m \in Contents : Told(c, t, m)
     /\ \/ joined'[<<c, t>>] = Len(published'[t])
        \/ Listens(c, t) /\ joined'[<<c, t>>] = joined[<<c, t>>]
  \/ published'[t] = <<>>

\* A step that publishes nothing and sends nothing, of which no client gets
\* more to hear.
LEMMA QuietStep ==
  ASSUME ClientAssumption, TypeOK, FormInv, UNCHANGED <<published, joined>>,
         \A d \in Clients : Delivered(d)' = Delivered(d) \/ d \in crashed',
         \A d \in Clients : Begins(Delivered(d)', Delivered(d)),
         \A d \in Clients, s \in Topics : Listens(d, s)' => Listens(d, s)
  PROVE  /\ \A s \in Topics : Grows(s)
         /\ \A d \in Clients : Hears(d)
         /\ \A d \in Clients, s \in Topics : Listens(d, s)' => Follows(d, s)
<1>1. \A s \in Topics : Grows(s)
  BY DEF Grows
<1>2. \A d \in Clients : Hears(d)
  BY DEF Hears
<1>3. ASSUME NEW d \in Clients, NEW s \in Topics, Listens(d, s)' PROVE Follows(d, s)
  <2>1. d \notin crashed'
    BY <1>3 DEF Listens
  <2>2. Delivered(d)' = Delivered(d) /\ Listens(d, s)
    BY <1>3, <2>1
  <2>3. QED
    BY <2>2 DEF Follows
<1>4. QED
  BY <1>1, <1>2, <1>3

\* Same is a beginning.
LEMMA SameBegins ==
  ASSUME TypeOK, FormInv, NEW d \in Clients, Delivered(d)' = Delivered(d)
  PROVE  Begins(Delivered(d)', Delivered(d))
  BY DEF Begins

\* What a step can do to what is to be heard.
LEMMA HearingStep ==
  ASSUME ClientAssumption, HubInv, [Next]_vars
  PROVE  /\ \A s \in Topics : Grows(s)
         /\ \A d \in Clients : Hears(d)
         /\ \A d \in Clients, s \in Topics : Listens(d, s)' => Follows(d, s)
<1> DEFINE Goal == /\ \A s \in Topics : Grows(s)
                   /\ \A d \in Clients : Hears(d)
                   /\ \A d \in Clients, s \in Topics : Listens(d, s)' => Follows(d, s)
<1>0. TypeOK /\ FormInv /\ NewInv /\ TopicInv
  BY DEF HubInv
<1>a. ASSUME UNCHANGED <<published, joined>>, \A d \in Clients : Delivered(d)' = Delivered(d),
             \A d \in Clients, s \in Topics : Listens(d, s)' => Listens(d, s)
      PROVE  Goal
  <2>1. \A d \in Clients : Begins(Delivered(d)', Delivered(d))
    BY <1>0, <1>a, SameBegins
  <2>2. QED
    BY <1>0, <1>a, <2>1, QuietStep
<1>1. CASE UNCHANGED vars
  <2>1. UNCHANGED <<published, joined, audiences, accepted, toClient, heard, crashed>>
    BY <1>1 DEF vars, hubVars, wires
  <2>2. \A d \in Clients : Delivered(d)' = Delivered(d)
    BY <2>1, DeliveredStays
  <2>3. \A d \in Clients, s \in Topics : Listens(d, s)' => Listens(d, s)
    BY <2>1 DEF Listens
  <2>4. QED
    BY <1>a, <2>1, <2>2, <2>3
<1>2. ASSUME NEW c \in Clients,
             \/ Disconnects(c) \/ Reads(c) \/ Closes(c) \/ HubDies(c)
             \/ \E t \in Topics : Subscribes(c, t) \/ Unsubscribes(c, t) \/ Publishes(c, t)
      PROVE  Goal
  <2>1. /\ UNCHANGED <<published, joined, audiences, toClient, heard>> /\ accepted' \subseteq accepted
        /\ crashed' = crashed \/ crashed' = crashed \cup {"hub"}
    <3>1. CASE Disconnects(c) \/ Reads(c) \/ Closes(c) \/ HubDies(c)
      BY <3>1 DEF Disconnects, Disconnect, Reads, HubRead, Closes, HubClose, HubDies, hubVars,
           wires
    <3>2. ASSUME NEW t \in Topics, Subscribes(c, t) \/ Unsubscribes(c, t) \/ Publishes(c, t)
          PROVE  UNCHANGED <<published, joined, audiences, toClient, heard, accepted, crashed>>
      BY <3>2 DEF Subscribes, Unsubscribes, Publishes, Call, hubVars
    <3>3. QED
      BY <1>2, <3>1, <3>2
  <2>2. \A d \in Clients : Delivered(d)' = Delivered(d)
    BY <2>1, DeliveredStays
  <2>3. \A d \in Clients, s \in Topics : Listens(d, s)' => Listens(d, s)
    BY <2>1 DEF Listens
  <2>4. QED
    BY <1>a, <2>1, <2>2, <2>3
<1>3. ASSUME NEW c \in Clients, Connects(c) PROVE Goal
  <2>1. /\ UNCHANGED <<published, joined, audiences, toClient, heard, crashed>>
        /\ accepted' = accepted \cup {c} /\ conn[c] = "new"
    BY <1>3 DEF Connects, Connect, wires
  <2>2. \A d \in Clients : Delivered(d)' = Delivered(d)
    BY <2>1, DeliveredStays
  <2>3. \A d \in Clients, s \in Topics : Listens(d, s)' => Listens(d, s)
    BY <1>0, <2>1 DEF Listens, NewInv
  <2>4. QED
    BY <1>a, <2>1, <2>2, <2>3
<1>4. ASSUME NEW c \in Clients, ClientLoop(c) PROVE Goal
  <2>1. /\ UNCHANGED <<published, joined, audiences, accepted>>
        /\ \A d \in Clients \ {c} : Delivered(d)' = Delivered(d)
        /\ \/ crashed' = crashed /\ Delivered(c)' = Delivered(c)
           \/ crashed' = crashed \cup {c} /\ Begins(Delivered(c)', Delivered(c))
    BY <1>0, <1>4, ClientReads DEF hubVars
  <2>2. \A d \in Clients : Delivered(d)' = Delivered(d) \/ d \in crashed'
    BY <2>1
  <2>3. \A d \in Clients : Begins(Delivered(d)', Delivered(d))
    BY <1>0, <2>1, SameBegins
  <2>4. \A d \in Clients, s \in Topics : Listens(d, s)' => Listens(d, s)
    BY <2>1 DEF Listens
  <2>5. QED
    BY <1>0, <2>1, <2>3, <2>4, QuietStep
<1>5. ASSUME NEW c \in Clients, NEW t \in Topics, Unsubscribed(c, t) PROVE Goal
  <2>1. /\ audiences' = [audiences EXCEPT ![t] = @ \ {c}]
        /\ UNCHANGED <<published, joined, accepted, crashed>>
        /\ \A d \in Clients : Delivered(d)' = Delivered(d)
    BY <1>0, <1>5, UnsubscribedDoes
  <2>2. \A s \in Topics : audiences'[s] \subseteq audiences[s]
    BY <2>1
  <2>3. \A d \in Clients, s \in Topics : Listens(d, s)' => Listens(d, s)
    BY <2>1 DEF Listens
  <2>4. QED
    BY <1>a, <2>1, <2>3
<1>6. ASSUME NEW c \in Clients, NEW t \in Topics, Subscribed(c, t) PROVE Goal
  <2>1. /\ audiences' = [audiences EXCEPT ![t] = @ \cup {c}]
        /\ joined' = IF c \in audiences[t] THEN joined
                     ELSE [joined EXCEPT ![<<c, t>>] = Len(published[t])]
        /\ UNCHANGED <<content, published, accepted, crashed>>
        /\ IF content[t] = None THEN \A d \in Clients : Delivered(d)' = Delivered(d)
                                ELSE Tells({c}, t, content[t])
    BY <1>0, <1>6, SubscribedDoes
  <2>2. \A s \in Topics : Grows(s)
    BY <2>1 DEF Grows
  <2>3. content[t] # None => /\ published[t] # <<>> /\ content[t] \in Contents
                             /\ content[t] = published[t][Len(published[t])]
    BY <1>0 DEF TopicInv, TypeOK
  <2>4. content[t] = None => published[t] = <<>>
    <3>1. ASSUME published[t] # <<>> PROVE content[t] # None
      <4>1. Len(published[t]) \in DOMAIN published[t]
        <5>1. published[t] \in Seq(Contents)
          BY <1>0 DEF TypeOK
        <5>2. QED
          BY <3>1, <5>1
      <4>2. published[t][Len(published[t])] \in Contents
        BY <1>0, <4>1, PublishedAre
      <4>3. content[t] \in Contents
        BY <1>0, <3>1, <4>2 DEF TopicInv
      <4>4. QED
        BY <4>3, ContentFacts
    <3>2. QED
      BY <3>1
  <2>5. \A d \in Clients : \/ Delivered(d)' = Delivered(d)
                           \/ d = c /\ content[t] # None /\ Told(c, t, content[t])
    <3>1. CASE content[t] = None
      BY <2>1, <3>1
    <3>2. CASE content[t] # None
      BY <2>1, <2>3 DEF Tells, Told
    <3>3. QED
      BY <3>1, <3>2
  <2>6. \A d \in Clients : Hears(d)
    BY <1>0, <2>3, <2>5, SameBegins DEF Hears
  <2>7. ASSUME NEW d \in Clients, NEW s \in Topics, Listens(d, s)' PROVE Follows(d, s)
    <3>1. CASE d # c \/ s # t
      <4>1. Listens(d, s)
        BY <2>1, <2>7, <3>1 DEF Listens
      <4>2. joined'[<<d, s>>] = joined[<<d, s>>]
        BY <2>1, <3>1
      <4>3. \/ Delivered(d)' = Delivered(d)
            \/ \E x \in Topics \ {s}, m \in Contents : Told(d, x, m)
        BY <2>3, <2>5, <3>1
      <4>4. QED
        BY <2>1, <4>1, <4>2, <4>3 DEF Follows
    <3>2. CASE d = c /\ s = t /\ content[t] = None
      BY <2>1, <2>4, <3>2 DEF Follows
    <3>3. CASE d = c /\ s = t /\ content[t] # None
      <4>1. c \in ({c} \cap accepted) \ crashed
        BY <2>1, <2>7, <3>3 DEF Listens
      <4>2. Told(c, t, content[t])
        BY <2>1, <2>3, <3>3, <4>1 DEF Tells, Told
      <4>3. \/ joined'[<<c, t>>] = Len(published'[t])
            \/ Listens(c, t) /\ joined'[<<c, t>>] = joined[<<c, t>>]
        <5>1. CASE c \in audiences[t]
          BY <2>1, <4>1, <5>1 DEF Listens
        <5>2. CASE c \notin audiences[t]
          BY <1>0, <2>1, <5>2 DEF TypeOK
        <5>3. QED
          BY <5>1, <5>2
      <4>4. QED
        BY <2>3, <3>3, <4>2, <4>3 DEF Follows
    <3>4. QED
      BY <3>1, <3>2, <3>3
  <2>8. QED
    BY <2>2, <2>6, <2>7
<1>7. ASSUME NEW c \in Clients, NEW t \in Topics, Published(c, t) PROVE Goal
  <2> DEFINE m == ToCome(c)[2].text
  <2>1. /\ m \in Contents
        /\ published' = [published EXCEPT ![t] = Append(@, m)]
        /\ UNCHANGED <<accepted, audiences, joined, crashed>>
        /\ Tells(audiences[t], t, m)
    BY <1>0, <1>7, PublishedDoes
  <2> HIDE DEF m
  <2>2. /\ \A s \in Topics \ {t} : published'[s] = published[s]
        /\ published'[t] = Append(published[t], m)
        /\ published'[t] # <<>> /\ m = published'[t][Len(published'[t])]
    <3>1. /\ \A s \in Topics \ {t} : published'[s] = published[s]
          /\ published'[t] = Append(published[t], m)
          /\ Len(published[t]) \in Nat /\ Len(published'[t]) = Len(published[t]) + 1
          /\ published'[t][Len(published[t]) + 1] = m
      BY <1>0, <2>1, PublishedGrows
    <3>2. published'[t] # <<>>
      <4>1. published'[t] \in Seq(Contents) /\ Len(published'[t]) # 0
        <5>1. Len(published[t]) + 1 # 0
          BY <3>1
        <5>2. QED
          BY <1>0, <2>1, <5>1, PublishedGrows
      <4>2. QED
        BY <4>1, EmptySeq
    <3>3. QED
      BY <3>1, <3>2
  <2>3. \A s \in Topics : Grows(s)
    BY <2>1 DEF Grows
  <2>4. \A d \in Clients : IF Listens(d, t) THEN Told(d, t, m) ELSE Delivered(d)' = Delivered(d)
    BY <2>1, <2>2 DEF Tells, Told, Listens
  <2>5. \A d \in Clients : Hears(d)
    BY <1>0, <2>1, <2>4, SameBegins DEF Hears
  <2>6. ASSUME NEW d \in Clients, NEW s \in Topics, Listens(d, s)' PROVE Follows(d, s)
    <3>1. Listens(d, s) /\ joined'[<<d, s>>] = joined[<<d, s>>]
      BY <2>1, <2>6 DEF Listens
    <3>2. CASE s = t
      BY <2>1, <2>4, <3>1 DEF Follows
    <3>3. CASE s # t
      <4>1. \/ Delivered(d)' = Delivered(d)
            \/ \E x \in Topics \ {s}, y \in Contents : Told(d, x, y)
        BY <2>1, <2>4, <3>3
      <4>2. QED
        BY <2>2, <3>1, <3>3, <4>1 DEF Follows
    <3>4. QED
      BY <3>2, <3>3
  <2>7. QED
    BY <2>3, <2>5, <2>6
<1>8. QED
  BY <1>1, <1>2, <1>3, <1>4, <1>5, <1>6, <1>7, NextCases

\* A publication more is to be heard.
LEMMA ToldFacts ==
  ASSUME TypeOK, FormInv, NEW c \in Clients, NEW t \in Topics, NEW m \in Contents, Told(c, t, m)
  PROVE  /\ Len(Delivered(c)) \in Nat /\ DOMAIN Delivered(c) = 1..Len(Delivered(c))
         /\ Len(Delivered(c)') = Len(Delivered(c)) + 1
         /\ DOMAIN Delivered(c)' = 1..(Len(Delivered(c)) + 1)
         /\ \A i \in 1..Len(Delivered(c)) : Delivered(c)'[i] = Delivered(c)[i]
         /\ Delivered(c)'[Len(Delivered(c)) + 1] = <<t, m>>
<1> DEFINE q == Delivered(c)
           r == Delivered(c)'
           x == <<t, m>>
<1>1. q \in Seq(Topics \X Contents) /\ Len(q) \in Nat /\ DOMAIN q = 1..Len(q)
  BY DeliveredFacts
<1>2. r = Append(q, x) /\ x \in Topics \X Contents
  BY DEF Told
<1> HIDE DEF q, r, x
<1>3. /\ r \in Seq(Topics \X Contents) /\ Len(r) = Len(q) + 1
      /\ \A i \in 1..Len(q) : r[i] = q[i]
      /\ r[Len(q) + 1] = x
  BY <1>1, <1>2
<1>4. DOMAIN r = 1..(Len(q) + 1)
  BY <1>3, LenProperties
<1>5. QED
  BY <1>3 DEF q, r, x

\* What was to be heard stays so when a publication comes behind it.
LEMMA ToldKeeps ==
  ASSUME TypeOK, FormInv, NEW c \in Clients, NEW t \in Topics, NEW m \in Contents, Told(c, t, m)
  PROVE  \A i \in DOMAIN Delivered(c) :
           i \in DOMAIN Delivered(c)' /\ Delivered(c)'[i] = Delivered(c)[i]
<1> DEFINE n == Len(Delivered(c))
<1>1. /\ n \in Nat /\ DOMAIN Delivered(c) = 1..n /\ DOMAIN Delivered(c)' = 1..(n + 1)
      /\ \A i \in 1..n : Delivered(c)'[i] = Delivered(c)[i]
  BY ToldFacts
<1> HIDE DEF n
<1>2. \A i \in 1..n : i \in 1..(n + 1)
  BY <1>1
<1>3. QED
  BY <1>1, <1>2

\* What was published stays published, at its place.
LEMMA GrowsKeeps ==
  ASSUME ClientAssumption, TypeOK, NEW t \in Topics, Grows(t)
  PROVE  \A k \in DOMAIN published[t] :
           k \in DOMAIN published'[t] /\ published'[t][k] = published[t][k]
<1>1. CASE published'[t] = published[t]
  BY <1>1
<1>2. ASSUME NEW m \in Contents, published'[t] = Append(published[t], m)
      PROVE  \A k \in DOMAIN published[t] :
               k \in DOMAIN published'[t] /\ published'[t][k] = published[t][k]
  <2> DEFINE p == published[t]
             r == published'[t]
  <2>1. p \in Seq(Contents) /\ Len(p) \in Nat /\ DOMAIN p = 1..Len(p) /\ r = Append(p, m)
    BY <1>2 DEF TypeOK
  <2> HIDE DEF p, r
  <2>2. /\ r \in Seq(Contents) /\ Len(r) = Len(p) + 1
        /\ \A i \in 1..Len(p) : r[i] = p[i]
    BY <2>1, AppendProperties
  <2>3. DOMAIN r = 1..(Len(p) + 1)
    BY <2>2, LenProperties
  <2>4. \A k \in DOMAIN p : k \in DOMAIN r /\ r[k] = p[k]
    BY <2>1
  <2>5. QED
    BY <2>4 DEF p, r
<1>3. QED
  BY DEF Grows

\* The last publication of a topic.
LEMMA LastFacts ==
  ASSUME TypeOK', NEW t \in Topics, published'[t] # <<>>
  PROVE  /\ Len(published'[t]) \in DOMAIN published'[t]
         /\ DOMAIN published'[t] = 1..Len(published'[t]) /\ Len(published'[t]) \in Nat
<1>1. published'[t] \in Seq(Contents)
  BY DEF TypeOK
<1>2. QED
  BY <1>1

\* What is to be heard was published.
LEMMA HeardStep ==
  ASSUME ClientAssumption, HubInv, [Next]_vars, TypeOK'
  PROVE  HeardInv'
<1>0. TypeOK /\ FormInv /\ HeardInv
  BY DEF HubInv
<1>1. /\ \A s \in Topics : Grows(s)
      /\ \A d \in Clients : Hears(d)
  BY HearingStep
<1>2. ASSUME NEW c \in Clients, NEW i \in DOMAIN Delivered(c)',
             i \in DOMAIN Delivered(c), Delivered(c)'[i] = Delivered(c)[i]
      PROVE  \E k \in DOMAIN published'[Delivered(c)'[i][1]] :
               Delivered(c)'[i][2] = published'[Delivered(c)'[i][1]][k]
  <2>1. Delivered(c)[i][1] \in Topics
    BY <1>0, <1>2, DeliveredFacts
  <2>2. PICK k \in DOMAIN published[Delivered(c)[i][1]] :
          Delivered(c)[i][2] = published[Delivered(c)[i][1]][k]
    BY <1>0, <1>2 DEF HeardInv
  <2>3. k \in DOMAIN published'[Delivered(c)[i][1]] /\
          published'[Delivered(c)[i][1]][k] = published[Delivered(c)[i][1]][k]
    BY <1>0, <1>1, <2>1, GrowsKeeps
  <2>4. QED
    BY <1>2, <2>2, <2>3
<1>3. ASSUME NEW c \in Clients, NEW i \in DOMAIN Delivered(c)'
      PROVE  \E k \in DOMAIN published'[Delivered(c)'[i][1]] :
               Delivered(c)'[i][2] = published'[Delivered(c)'[i][1]][k]
  <2>1. CASE Begins(Delivered(c)', Delivered(c))
    BY <1>2, <2>1 DEF Begins
  <2>2. ASSUME NEW t \in Topics, NEW m \in Contents, Told(c, t, m)
        PROVE  \E k \in DOMAIN published'[Delivered(c)'[i][1]] :
                 Delivered(c)'[i][2] = published'[Delivered(c)'[i][1]][k]
    <3> DEFINE n == Len(Delivered(c))
    <3>1. /\ n \in Nat /\ DOMAIN Delivered(c) = 1..n
          /\ DOMAIN Delivered(c)' = 1..(n + 1)
          /\ \A j \in 1..n : Delivered(c)'[j] = Delivered(c)[j]
          /\ Delivered(c)'[n + 1] = <<t, m>>
      BY <1>0, <2>2, ToldFacts
    <3> HIDE DEF n
    <3>2. i \in 1..n \/ i = n + 1
      BY <3>1
    <3>3. CASE i \in 1..n
      BY <1>2, <3>1, <3>3
    <3>4. CASE i = n + 1
      <4>1. Delivered(c)'[i][1] = t /\ Delivered(c)'[i][2] = m
        BY <3>1, <3>4
      <4>2. published'[t] # <<>> /\ m = published'[t][Len(published'[t])]
        BY <2>2 DEF Told
      <4>3. Len(published'[t]) \in DOMAIN published'[t]
        BY <4>2, LastFacts
      <4>4. QED
        BY <4>1, <4>2
    <3>5. QED
      BY <3>2, <3>3, <3>4
  <2>3. QED
    BY <1>1, <2>1, <2>2 DEF Hears
<1>4. QED
  BY <1>3 DEF HeardInv

\* Publications come in order.
LEMMA OrderStep ==
  ASSUME ClientAssumption, HubInv, [Next]_vars, TypeOK', TopicInv'
  PROVE  OrderInv'
<1>0. TypeOK /\ FormInv /\ HeardInv /\ OrderInv
  BY DEF HubInv
<1>1. /\ \A s \in Topics : Grows(s)
      /\ \A d \in Clients : Hears(d)
  BY HearingStep
\* The place of what was to be heard is what it was.
<1>2. ASSUME NEW c \in Clients, NEW t \in Topics, NEW i \in DOMAIN Delivered(c),
             Delivered(c)[i][1] = t, NEW a \in DOMAIN published'[t],
             Delivered(c)[i][2] = published'[t][a]
      PROVE  a \in DOMAIN published[t] /\ published[t][a] = published'[t][a]
  <2>1. PICK k \in DOMAIN published[t] : Delivered(c)[i][2] = published[t][k]
    BY <1>0, <1>2 DEF HeardInv
  <2>2. k \in DOMAIN published'[t] /\ published'[t][k] = published[t][k]
    BY <1>0, <1>1, GrowsKeeps
  <2>3. k = a
    <3>1. published'[t][k] = published'[t][a]
      BY <1>2, <2>1, <2>2
    <3>2. \A x, y \in DOMAIN published'[t] : published'[t][x] = published'[t][y] => x = y
      BY DEF TopicInv
    <3>3. QED
      BY <2>2, <3>1, <3>2
  <2>4. QED
    BY <2>2, <2>3
<1>3. ASSUME NEW c \in Clients, NEW t \in Topics, NEW i \in DOMAIN Delivered(c)',
             NEW j \in DOMAIN Delivered(c)', i < j,
             Delivered(c)'[i][1] = t, Delivered(c)'[j][1] = t,
             NEW a \in DOMAIN published'[t], NEW b \in DOMAIN published'[t],
             Delivered(c)'[i][2] = published'[t][a], Delivered(c)'[j][2] = published'[t][b]
      PROVE  a <= b
  <2>1. ASSUME i \in DOMAIN Delivered(c), Delivered(c)'[i] = Delivered(c)[i],
               j \in DOMAIN Delivered(c), Delivered(c)'[j] = Delivered(c)[j]
        PROVE  a <= b
    <3>1. a \in DOMAIN published[t] /\ published[t][a] = published'[t][a]
      BY <1>2, <1>3, <2>1
    <3>2. b \in DOMAIN published[t] /\ published[t][b] = published'[t][b]
      BY <1>2, <1>3, <2>1
    <3>3. QED
      BY <1>0, <1>3, <2>1, <3>1, <3>2 DEF OrderInv
  <2>2. CASE Begins(Delivered(c)', Delivered(c))
    BY <2>1, <2>2 DEF Begins
  <2>3. ASSUME NEW s \in Topics, NEW m \in Contents, Told(c, s, m)
        PROVE  a <= b
    <3> DEFINE n == Len(Delivered(c))
    <3>1. /\ n \in Nat /\ DOMAIN Delivered(c) = 1..n
          /\ DOMAIN Delivered(c)' = 1..(n + 1)
          /\ \A x \in 1..n : Delivered(c)'[x] = Delivered(c)[x]
          /\ Delivered(c)'[n + 1] = <<s, m>>
      BY <1>0, <2>3, ToldFacts
    <3> HIDE DEF n
    <3>2. i \in 1..n /\ (j \in 1..n \/ j = n + 1)
      BY <1>3, <3>1
    <3>3. CASE j \in 1..n
      BY <2>1, <3>1, <3>2, <3>3
    <3>4. CASE j = n + 1
      <4>1. s = t /\ Delivered(c)'[j][2] = m
        BY <1>3, <3>1, <3>4
      <4>2. published'[t] # <<>> /\ m = published'[t][Len(published'[t])]
        BY <2>3, <4>1 DEF Told
      <4>3. /\ Len(published'[t]) \in DOMAIN published'[t]
            /\ DOMAIN published'[t] = 1..Len(published'[t]) /\ Len(published'[t]) \in Nat
        BY <4>2, LastFacts
      <4>4. b = Len(published'[t])
        BY <1>3, <4>1, <4>2, <4>3 DEF TopicInv
      <4>5. QED
        BY <4>3, <4>4
    <3>5. QED
      BY <3>2, <3>3, <3>4
  <2>4. QED
    BY <1>1, <2>2, <2>3 DEF Hears
<1>4. QED
  BY <1>3 DEF OrderInv

\* The last publication is the last to be heard.
LEMMA UpToDateStep ==
  ASSUME ClientAssumption, HubInv, [Next]_vars
  PROVE  SubscribersAreUpToDate'
<1>0. TypeOK /\ FormInv /\ SubscribersAreUpToDate
  BY DEF HubInv
<1> DEFINE Last(D, t, P) == \E i \in DOMAIN D :
                              /\ D[i] = <<t, P[t][Len(P[t])]>>
                              /\ \A j \in i + 1 .. Len(D) : D[j][1] # t
<1>1. ASSUME NEW c \in Clients, NEW t \in Topics, Listens(c, t)', published'[t] # <<>>
      PROVE  Last(Delivered(c)', t, published')
  <2>1. Follows(c, t)
    BY <1>1, HearingStep
  <2>2. ASSUME Listens(c, t), published'[t] = published[t]
        PROVE  Last(Delivered(c), t, published')
    BY <1>0, <1>1, <2>2 DEF SubscribersAreUpToDate
  <2>3. ASSUME NEW s \in Topics \ {t}, NEW m \in Contents, Told(c, s, m),
               Last(Delivered(c), t, published')
        PROVE  Last(Delivered(c)', t, published')
    <3> DEFINE n == Len(Delivered(c))
    <3>1. /\ n \in Nat /\ DOMAIN Delivered(c) = 1..n /\ Len(Delivered(c)') = n + 1
          /\ DOMAIN Delivered(c)' = 1..(n + 1)
          /\ \A x \in 1..n : Delivered(c)'[x] = Delivered(c)[x]
          /\ Delivered(c)'[n + 1] = <<s, m>>
      BY <1>0, <2>3, ToldFacts
    <3>2. PICK i \in 1..n : /\ Delivered(c)[i] = <<t, published'[t][Len(published'[t])]>>
                            /\ \A j \in i + 1 .. n : Delivered(c)[j][1] # t
      BY <2>3, <3>1
    <3> HIDE DEF n
    <3>3. ASSUME NEW j \in i + 1 .. n + 1 PROVE Delivered(c)'[j][1] # t
      <4>1. CASE j \in i + 1 .. n
        <5>1. j \in 1..n
          BY <3>1, <4>1
        <5>2. QED
          BY <3>1, <3>2, <4>1
      <4>2. CASE j = n + 1
        BY <3>1, <4>2
      <4>3. QED
        BY <3>1, <4>1
    <3>4. i \in DOMAIN Delivered(c)' /\ Delivered(c)'[i] = <<t, published'[t][Len(published'[t])]>>
      BY <3>1, <3>2
    <3>5. \A j \in i + 1 .. Len(Delivered(c)') : Delivered(c)'[j][1] # t
      BY <3>1, <3>3
    <3>6. QED
      BY <3>4, <3>5
  <2>4. ASSUME NEW m \in Contents, Told(c, t, m) PROVE Last(Delivered(c)', t, published')
    <3> DEFINE n == Len(Delivered(c))
    <3>1. /\ n \in Nat /\ Len(Delivered(c)') = n + 1 /\ DOMAIN Delivered(c)' = 1..(n + 1)
          /\ Delivered(c)'[n + 1] = <<t, m>>
      BY <1>0, <2>4, ToldFacts
    <3>2. m = published'[t][Len(published'[t])]
      BY <2>4 DEF Told
    <3> HIDE DEF n
    <3>3. n + 1 \in DOMAIN Delivered(c)' /\ \A j \in (n + 1) + 1 .. Len(Delivered(c)') : FALSE
      BY <3>1
    <3>4. QED
      BY <3>1, <3>2
  <2> HIDE DEF Last
  <2>5. CASE /\ Delivered(c)' = Delivered(c) \/ \E s \in Topics \ {t}, m \in Contents : Told(c, s, m)
             /\ Listens(c, t) /\ published'[t] = published[t]
    <3>1. Last(Delivered(c), t, published')
      BY <2>2, <2>5
    <3>2. QED
      BY <2>3, <2>5, <3>1
  <2>6. QED
    BY <1>1, <2>1, <2>4, <2>5 DEF Follows
<1>2. QED
  BY <1>1 DEF SubscribersAreUpToDate

\* No publication is missed.
LEMMA MissStep ==
  ASSUME ClientAssumption, HubInv, [Next]_vars, TypeOK'
  PROVE  MissInv'
<1>0. TypeOK /\ FormInv /\ MissInv
  BY DEF HubInv
<1>1. ASSUME NEW c \in Clients, NEW t \in Topics, Listens(c, t)',
             NEW k \in joined'[<<c, t>>] + 1 .. Len(published'[t])
      PROVE  \E i \in DOMAIN Delivered(c)' : Delivered(c)'[i] = <<t, published'[t][k]>>
  <2>1. Follows(c, t) /\ Grows(t)
    BY <1>1, HearingStep
  <2>2. joined'[<<c, t>>] \in Nat /\ Len(published'[t]) \in Nat
    <3>1. published'[t] \in Seq(Contents) /\ joined'[<<c, t>>] \in Nat
      BY DEF TypeOK
    <3>2. QED
      BY <3>1, LenProperties
  <2>3. ASSUME Listens(c, t), joined'[<<c, t>>] = joined[<<c, t>>],
               k <= Len(published[t]), published'[t][k] = published[t][k],
               \A i \in DOMAIN Delivered(c) :
                 i \in DOMAIN Delivered(c)' /\ Delivered(c)'[i] = Delivered(c)[i]
        PROVE  \E i \in DOMAIN Delivered(c)' : Delivered(c)'[i] = <<t, published'[t][k]>>
    <3>1. k \in joined[<<c, t>>] + 1 .. Len(published[t])
      <4>1. Len(published[t]) \in Nat
        BY <1>0, PublishedAre
      <4>2. QED
        BY <2>3
    <3>2. PICK i \in DOMAIN Delivered(c) : Delivered(c)[i] = <<t, published[t][k]>>
      BY <1>0, <2>3 DEF MissInv
    <3>3. QED
      BY <2>3, <3>2
  <2>4. CASE /\ Delivered(c)' = Delivered(c) \/ \E s \in Topics \ {t}, m \in Contents : Told(c, s, m)
             /\ Listens(c, t) /\ published'[t] = published[t]
             /\ joined'[<<c, t>>] = joined[<<c, t>>]
    <3>1. \A i \in DOMAIN Delivered(c) :
            i \in DOMAIN Delivered(c)' /\ Delivered(c)'[i] = Delivered(c)[i]
      BY <1>0, <2>4, ToldKeeps
    <3>2. k <= Len(published[t]) /\ published'[t][k] = published[t][k]
      BY <2>4
    <3>3. QED
      BY <2>3, <2>4, <3>1
  <2>5. ASSUME NEW m \in Contents, Told(c, t, m),
               \/ joined'[<<c, t>>] = Len(published'[t])
               \/ Listens(c, t) /\ joined'[<<c, t>>] = joined[<<c, t>>]
        PROVE  \E i \in DOMAIN Delivered(c)' : Delivered(c)'[i] = <<t, published'[t][k]>>
    <3> DEFINE n == Len(Delivered(c))
    <3>1. n \in Nat /\ DOMAIN Delivered(c)' = 1..(n + 1) /\ Delivered(c)'[n + 1] = <<t, m>>
      BY <1>0, <2>5, ToldFacts
    <3>2. m = published'[t][Len(published'[t])]
      BY <2>5 DEF Told
    <3> HIDE DEF n
    <3>3. CASE k = Len(published'[t])
      <4>1. n + 1 \in DOMAIN Delivered(c)'
        BY <3>1
      <4>2. QED
        BY <3>1, <3>2, <3>3
    <3>4. CASE k # Len(published'[t])
      <4>1. /\ Listens(c, t) /\ joined'[<<c, t>>] = joined[<<c, t>>] /\ k < Len(published'[t])
            /\ k \in 1..Len(published'[t])
        BY <2>2, <2>5, <3>4
      <4>2. k \in 1..Len(published[t])
        <5>1. Len(published[t]) \in Nat
          BY <1>0, PublishedAre
        <5>2. Len(published'[t]) <= Len(published[t]) + 1
          <6>1. CASE published'[t] = published[t]
            BY <5>1, <6>1
          <6>2. ASSUME NEW x \in Contents, published'[t] = Append(published[t], x)
                PROVE  Len(published'[t]) = Len(published[t]) + 1
            <7>1. published[t] \in Seq(Contents)
              BY <1>0 DEF TypeOK
            <7>2. QED
              BY <6>2
          <6>3. QED
            BY <2>1 DEF Grows
        <5>3. QED
          BY <4>1, <5>2
      <4>3. k \in DOMAIN published[t] /\ k <= Len(published[t])
        BY <4>2
      <4>4. published'[t][k] = published[t][k]
        BY <1>0, <2>1, <4>3, GrowsKeeps
      <4>5. \A i \in DOMAIN Delivered(c) :
              i \in DOMAIN Delivered(c)' /\ Delivered(c)'[i] = Delivered(c)[i]
        BY <1>0, <2>5, ToldKeeps
      <4>6. QED
        BY <2>3, <4>1, <4>3, <4>4, <4>5
    <3>5. QED
      BY <3>3, <3>4
  <2>6. published'[t] # <<>>
    <3>1. ASSUME published'[t] = <<>> PROVE FALSE
      <4>1. Len(published'[t]) = 0
        BY <3>1
      <4>2. QED
        BY <2>2, <4>1
    <3>2. QED
      BY <3>1
  <2>7. QED
    BY <2>1, <2>4, <2>5, <2>6 DEF Follows
<1>2. QED
  BY <1>1 DEF MissInv

------------------------------------------------------------------------------
(* The invariant, and what follows from it.                                *)

\* Nothing was sent, subscribed or published at first.
LEMMA InitInv ==
  ASSUME ClientAssumption, Init
  PROVE  HubInv
<1> DEFINE E == [c \in Clients |-> <<>>]
<1>1. /\ conn = [c \in Clients |-> "new"] /\ calls = [c \in Clients |-> 0]
      /\ wants = [c \in Clients |-> {}] /\ accepted = {} /\ crashed = {}
      /\ toHub = E /\ toClient = E /\ hubBuffer = E /\ heard = E
      /\ handling = NoClient /\ audiences = [t \in Topics |-> {}]
      /\ content = [t \in Topics |-> None] /\ published = [t \in Topics |-> <<>>]
      /\ joined = [x \in Clients \X Topics |-> 0]
  BY DEF Init
<1>2. E \in [Clients -> Seq(Lines)] /\ E \in [Clients -> Seq(Topics \X Contents)]
  OBVIOUS
<1>3. TypeOK
  <2>1. \A c \in Clients : calls[c] \in Nat /\ calls[c] <= MaxCalls[c]
    <3>1. \A c \in Clients : MaxCalls[c] \in Nat
      BY DEF ClientAssumption
    <3>2. \A c \in Clients : calls[c] = 0
      BY <1>1
    <3>3. ASSUME NEW c \in Clients PROVE calls[c] \in Nat /\ calls[c] <= MaxCalls[c]
      <4>1. MaxCalls[c] \in Nat /\ calls[c] = 0
        BY <3>1, <3>2
      <4>2. QED
        BY <4>1
    <3>4. QED
      BY <3>3
  <2>2. /\ published \in [Topics -> Seq(Contents)] /\ content \in [Topics -> Contents \cup {None}]
        /\ joined \in [Clients \X Topics -> Nat]
    BY <1>1
  <2> HIDE DEF E
  <2>3. QED
    BY <1>1, <1>2 DEF TypeOK
<1>4. \A c \in Clients : ToCome(c) = <<>>
  <2>1. \A c \in Clients : toHub[c] = <<>> /\ hubBuffer[c] = <<>>
    BY <1>1
  <2>2. <<>> \o <<>> = <<>>
    OBVIOUS
  <2>3. QED
    BY <2>1, <2>2 DEF ToCome
<1>5. \A c \in Clients : Whole(toClient[c]) /\ Delivered(c) = <<>>
  <2>1. Pairs(<<>>, 0)
    BY DEF Pairs
  <2>2. Whole(<<>>)
    BY <2>1 DEF Whole
  <2>3. Publications(<<>>) = <<>>
    <3>1. <<>> \in Seq(Lines) /\ Len(<<>>) = 0
      OBVIOUS
    <3>2. Publications(<<>>) \in Seq(Topics \X Contents) /\ Len(Publications(<<>>)) = 0
      BY <2>1, <3>1, WholeFacts
    <3>3. QED
      BY <3>2, EmptySeq
  <2>4. <<>> \o <<>> = <<>>
    OBVIOUS
  <2>5. \A c \in Clients : toClient[c] = <<>> /\ heard[c] = <<>> /\ c \notin crashed
    BY <1>1
  <2>6. QED
    BY <2>2, <2>3, <2>4, <2>5 DEF Delivered
<1>6. NewInv
  BY <1>1, <1>4 DEF NewInv
<1>7. FormInv
  <2>1. Formed(<<>>)
    BY DEF Formed
  <2>2. \A c \in Clients : Formed(ToCome(c))
    BY <1>4, <2>1
  <2>3. QED
    BY <1>5, <2>2 DEF FormInv
<1>8. WantInv
  BY <1>1 DEF WantInv
<1>9. \A t \in Topics : published[t] = <<>> /\ content[t] = None
  BY <1>1
<1>10. TextInv
  <2>1. DOMAIN <<>> = {}
    OBVIOUS
  <2>2. \A c \in Clients : DOMAIN ToCome(c) = {}
    BY <1>4, <2>1
  <2>3. \A t \in Topics : DOMAIN published[t] = {}
    BY <1>9, <2>1
  <2>4. QED
    BY <2>2, <2>3 DEF TextInv
<1>11. TopicInv
  BY <1>9 DEF TopicInv
<1>12. HeardInv /\ OrderInv
  BY <1>5 DEF HeardInv, OrderInv
<1>13. SubscribersAreUpToDate /\ MissInv
  BY <1>1 DEF SubscribersAreUpToDate, MissInv
<1>14. QED
  BY <1>3, <1>6, <1>7, <1>8, <1>10, <1>11, <1>12, <1>13 DEF HubInv

\* A step keeps every part of the invariant, by the lemmas above.
LEMMA StepInv ==
  ASSUME ClientAssumption, HubInv, [Next]_vars
  PROVE  HubInv'
<1>1. TypeOK'
  BY TypeStep
<1>2. NewInv' /\ TopicInv' /\ SubscribersAreUpToDate'
  BY NewStep, TopicStep, UpToDateStep
<1>3. FormInv' /\ WantInv' /\ TextInv' /\ HeardInv' /\ MissInv'
  BY <1>1, FormStep, WantStep, TextStep, HeardStep, MissStep
<1>4. OrderInv'
  BY <1>1, <1>2, OrderStep
<1>5. QED
  BY <1>1, <1>2, <1>3, <1>4 DEF HubInv

\* The invariant holds in every state of the hub and its clients.
LEMMA HubIsRight == Spec => []HubInv
<1>1. Init => HubInv
  BY ClientAssumption, InitInv
<1>2. HubInv /\ [Next]_vars => HubInv'
  BY ClientAssumption, StepInv
<1>3. QED
  BY <1>1, <1>2, PTL DEF Spec

\* The place of a publication that is made once.
LEMMA NumberIs ==
  ASSUME TopicInv, NEW t \in Topics, NEW k \in DOMAIN published[t]
  PROVE  Number(t, published[t][k]) = k
<1>1. \A i \in DOMAIN published[t] : published[t][i] = published[t][k] <=> i = k
  BY DEF TopicInv
<1>2. QED
  BY <1>1 DEF Number

\* Every variable has its type, the lines and publications on their way too.
THEOREM TypeCorrect == Spec => []TypeOK
<1>1. HubInv => TypeOK
  BY DEF HubInv
<1>2. QED
  BY <1>1, HubIsRight, PTL

\* doSubscribe(), doUnSubscribe() and the parser: when none of its requests is on
\* its way, a connected client is in the audience of the topics it asked for.
THEOREM AudiencesFollow == Spec => []AudiencesAreAsWanted
<1>1. ASSUME HubInv PROVE AudiencesAreAsWanted
  <2>1. ASSUME NEW c \in accepted, toHub[c] = <<>>, hubBuffer[c] = <<>>
        PROVE  {t \in Topics : c \in audiences[t]} = wants[c]
    <3>1. ToCome(c) = <<>>
      <4>1. <<>> \o <<>> = <<>>
        OBVIOUS
      <4>2. QED
        BY <2>1 DEF ToCome
    <3>2. \A t \in Topics : NoneAbout(ToCome(c), t)
      BY <3>1 DEF NoneAbout
    <3>3. \A t \in Topics : c \in audiences[t] <=> t \in wants[c]
      BY <1>1, <3>2 DEF HubInv, WantInv
    <3>4. wants[c] \subseteq Topics
      BY <1>1 DEF HubInv, TypeOK
    <3>5. QED
      BY <3>3, <3>4
  <2>2. QED
    BY <2>1 DEF AudiencesAreAsWanted
<1>2. QED
  BY <1>1, HubIsRight, PTL

\* Topic::add() and publish(): the last that a subscriber is to hear of a topic is
\* the topic's last publication.
THEOREM LastIsHeardLast == Spec => []SubscribersAreUpToDate
<1>1. HubInv => SubscribersAreUpToDate
  BY DEF HubInv
<1>2. QED
  BY <1>1, HubIsRight, PTL

\* Topic::publish() and PubSubClient::onMessage(): a subscriber is to hear all that
\* is published while it is subscribed, in the order of the hub.
THEOREM NothingIsMissed == Spec => []SubscribersMissNothing
<1>1. ASSUME HubInv PROVE SubscribersMissNothing
  <2>1. ASSUME NEW c \in Clients, NEW t \in Topics,
               NEW i \in DOMAIN Delivered(c), NEW j \in DOMAIN Delivered(c),
               i < j, Delivered(c)[i][1] = t, Delivered(c)[j][1] = t
        PROVE  Number(t, Delivered(c)[i][2]) <= Number(t, Delivered(c)[j][2])
    <3>1. PICK a \in DOMAIN published[t] : Delivered(c)[i][2] = published[t][a]
      BY <1>1, <2>1 DEF HubInv, HeardInv
    <3>2. PICK b \in DOMAIN published[t] : Delivered(c)[j][2] = published[t][b]
      BY <1>1, <2>1 DEF HubInv, HeardInv
    <3>3. a <= b
      BY <1>1, <2>1, <3>1, <3>2 DEF HubInv, OrderInv
    <3>4. Number(t, published[t][a]) = a /\ Number(t, published[t][b]) = b
      BY <1>1, NumberIs DEF HubInv
    <3>5. QED
      BY <3>1, <3>2, <3>3, <3>4
  <2>2. QED
    BY <1>1, <2>1 DEF SubscribersMissNothing, HubInv, MissInv
<1>2. QED
  BY <1>1, HubIsRight, PTL
==============================================================================
