---------------------------- MODULE PollersProofs ----------------------------
(***************************************************************************)
(* Proofs about Pollers for any channels, any descriptors and any initial  *)
(* size of events_: the tables of both pollers agree with the channels, no *)
(* assertion of the pollers fails, and the two report the same events save *)
(* for a channel that PollPoller once was told to ignore.                  *)
(***************************************************************************)
EXTENDS Pollers, SequenceTheorems, TLAPS

\* The channels in the poller have descriptors of their own.
DistinctFds == \A a, b \in added : fd[a] = fd[b] => a = b

\* What EpollPoller holds for each channel, and for the free descriptors.
EpollInv ==
  /\ EpollTypeOK
  /\ \A ch \in added :
       /\ epollIndex[ch] = 1
       /\ epollChannels[fd[ch]] = ch
       /\ interest[fd[ch]] = [events |-> events[ch], ptr |-> ch]
  /\ \A f \in Fds : FreeFd(f) => interest[f] = Unwatched /\ epollChannels[f] = NoChannel

\* The entry of pollfds_ that a channel should have.
EntryOf(ch) == [fd |-> IF ch \in silenced THEN Negated(fd[ch]) ELSE fd[ch],
                events |-> events[ch]]

\* What PollPoller holds: an index in range and of its own for each channel,
\* the right entry there, and no entry without a channel.
PollInv ==
  /\ PollTypeOK
  /\ \A ch \in added :
       /\ pollChannels[fd[ch]] = ch
       /\ pollIndex[ch] \in 0..(Len(pollfds) - 1)
       /\ pollfds[pollIndex[ch] + 1] = EntryOf(ch)
       /\ events[ch] = {} => ch \in silenced
  /\ \A a, b \in added : pollIndex[a] = pollIndex[b] => a = b
  /\ \A i \in 1..Len(pollfds) : \E ch \in added : pollIndex[ch] = i - 1

Inv == ChannelTypeOK /\ DistinctFds /\ EpollInv /\ PollInv

\* An action leaves the pollers' tables and the channels alone.
LEMMA InvUnchanged ==
  ASSUME Inv, maxEvents' \in Nat \ {0},
         UNCHANGED <<channelVars, epollTables, pollVars>>
  PROVE  Inv'
BY DEF Inv, ChannelTypeOK, DistinctFds, EpollInv, EpollTypeOK, PollInv, PollTypeOK,
       EntryOf, FreeFd, channelVars, epollTables, pollVars

\* The channels keep their types, and descriptors of their own.
LEMMA ChannelsKept ==
  ASSUME ChannelTypeOK, DistinctFds,
         \/ \E ch \in Channels, f \in Fds, ev \in SUBSET Events : Enable(ch, f, ev)
         \/ \E ch \in Channels, ev \in SUBSET Events : Change(ch, ev)
         \/ \E ch \in Channels : Remove(ch)
  PROVE  ChannelTypeOK' /\ DistinctFds'
<1>1. ASSUME NEW ch \in Channels, NEW f \in Fds, NEW ev \in SUBSET Events,
             Enable(ch, f, ev)
      PROVE  ChannelTypeOK' /\ DistinctFds'
  BY <1>1 DEF Enable, ChannelTypeOK, DistinctFds, FreeFd
<1>2. ASSUME NEW ch \in Channels, NEW ev \in SUBSET Events, Change(ch, ev)
      PROVE  ChannelTypeOK' /\ DistinctFds'
  BY <1>2 DEF Change, ChannelTypeOK, DistinctFds
<1>3. ASSUME NEW ch \in Channels, Remove(ch)
      PROVE  ChannelTypeOK' /\ DistinctFds'
  BY <1>3 DEF Remove, ChannelTypeOK, DistinctFds
<1>4. QED
  BY <1>1, <1>2, <1>3

------------------------------------------------------------------------------
(* EpollPoller.                                                            *)

\* A new channel takes a free descriptor.
LEMMA EpollAdd ==
  ASSUME ChannelTypeOK, DistinctFds, EpollInv,
         NEW ch \in Channels, NEW f \in Fds, NEW ev \in SUBSET Events,
         Enable(ch, f, ev), EpollUpdate(ch, -1, f, ev), UNCHANGED maxEvents
  PROVE  EpollInv'
<1> USE DEF ChannelTypeOK, EpollInv, EpollTypeOK, Enable, EpollUpdate
<1>1. EpollTypeOK'
  OBVIOUS
<1>2. ASSUME NEW c \in added'
      PROVE  /\ epollIndex'[c] = 1
             /\ epollChannels'[fd'[c]] = c
             /\ interest'[fd'[c]] = [events |-> events'[c], ptr |-> c]
  <2>1. CASE c = ch
    BY <2>1
  <2>2. CASE c # ch
    <3>1. c \in added /\ fd'[c] = fd[c] /\ fd[c] # f /\ events'[c] = events[c]
      BY <2>2 DEF FreeFd
    <3>2. QED
      BY <2>2, <3>1
  <2>3. QED
    BY <2>1, <2>2
<1>3. ASSUME NEW g \in Fds, FreeFd(g)'
      PROVE  interest'[g] = Unwatched /\ epollChannels'[g] = NoChannel
  <2>1. g # f /\ FreeFd(g)
    BY <1>3 DEF FreeFd
  <2>2. QED
    BY <2>1
<1>4. QED
  BY <1>1, <1>2, <1>3

\* A change of the events: EPOLL_CTL_MOD.
LEMMA EpollChange ==
  ASSUME ChannelTypeOK, DistinctFds, EpollInv,
         NEW ch \in Channels, NEW ev \in SUBSET Events,
         Change(ch, ev), EpollUpdate(ch, epollIndex[ch], fd[ch], ev), UNCHANGED maxEvents
  PROVE  EpollInv'
<1> USE DEF ChannelTypeOK, EpollInv, EpollTypeOK, Change, EpollUpdate
<1>1. EpollTypeOK'
  OBVIOUS
<1>2. ASSUME NEW c \in added'
      PROVE  /\ epollIndex'[c] = 1
             /\ epollChannels'[fd'[c]] = c
             /\ interest'[fd'[c]] = [events |-> events'[c], ptr |-> c]
  <2>1. CASE c = ch
    BY <2>1
  <2>2. CASE c # ch
    BY <2>2 DEF DistinctFds
  <2>3. QED
    BY <2>1, <2>2
<1>3. ASSUME NEW g \in Fds, FreeFd(g)'
      PROVE  interest'[g] = Unwatched /\ epollChannels'[g] = NoChannel
  BY <1>3 DEF FreeFd
<1>4. QED
  BY <1>1, <1>2, <1>3

\* A removal frees the descriptor.
LEMMA EpollRemoval ==
  ASSUME ChannelTypeOK, DistinctFds, EpollInv,
         NEW ch \in Channels, Remove(ch), EpollRemove(ch), UNCHANGED maxEvents
  PROVE  EpollInv'
<1> USE DEF ChannelTypeOK, EpollInv, EpollTypeOK, Remove, EpollRemove
<1>1. EpollTypeOK'
  BY DEF Unwatched
<1>2. ASSUME NEW c \in added'
      PROVE  /\ epollIndex'[c] = 1
             /\ epollChannels'[fd'[c]] = c
             /\ interest'[fd'[c]] = [events |-> events'[c], ptr |-> c]
  BY <1>2 DEF DistinctFds
<1>3. ASSUME NEW g \in Fds, FreeFd(g)'
      PROVE  interest'[g] = Unwatched /\ epollChannels'[g] = NoChannel
  <2>1. g = fd[ch] \/ FreeFd(g)
    BY <1>3 DEF FreeFd
  <2>2. QED
    BY <2>1
<1>4. QED
  BY <1>1, <1>2, <1>3

------------------------------------------------------------------------------
(* PollPoller.                                                             *)

\* The entry of a channel, in parts.
LEMMA EntryFacts ==
  ASSUME ChannelTypeOK, PollInv, NEW ch \in added
  PROVE  /\ DOMAIN pollfds = 1..Len(pollfds) /\ Len(pollfds) \in Nat
         /\ pollIndex[ch] \in Int /\ pollIndex[ch] + 1 \in 1..Len(pollfds)
         /\ pollChannels[fd[ch]] = ch
         /\ pollfds[pollIndex[ch] + 1] = EntryOf(ch)
         /\ EntryOf(ch).events = events[ch]
         /\ EntryOf(ch).fd = IF ch \in silenced THEN Negated(fd[ch]) ELSE fd[ch]
         /\ events[ch] = {} => ch \in silenced
         /\ fd[ch] \in Nat /\ Negated(fd[ch]) < 0
<1>1. pollfds \in Seq(Entries) /\ DOMAIN pollfds = 1..Len(pollfds) /\ Len(pollfds) \in Nat
  BY DEF PollInv, PollTypeOK
<1>2. pollIndex[ch] \in 0..(Len(pollfds) - 1)
  BY DEF PollInv
<1>3. pollIndex[ch] \in Int /\ pollIndex[ch] + 1 \in 1..Len(pollfds)
  BY <1>1, <1>2
<1>4. fd[ch] \in Nat /\ Negated(fd[ch]) < 0
  <2>1. fd[ch] \in Fds
    BY DEF ChannelTypeOK
  <2>2. fd[ch] \in Nat
    BY <2>1, ChannelAssumption
  <2>3. QED
    BY <2>2 DEF Negated
<1>5. /\ EntryOf(ch).events = events[ch]
      /\ EntryOf(ch).fd = IF ch \in silenced THEN Negated(fd[ch]) ELSE fd[ch]
  BY DEF EntryOf
<1>6. QED
  BY <1>1, <1>3, <1>4, <1>5 DEF PollInv

\* Every entry belongs to a channel.
LEMMA EntryOwner ==
  ASSUME ChannelTypeOK, PollInv, NEW j \in 1..Len(pollfds)
  PROVE  \E ch \in added : pollIndex[ch] = j - 1 /\ pollfds[j] = EntryOf(ch)
<1>1. PICK ch \in added : pollIndex[ch] = j - 1
  BY DEF PollInv
<1>2. pollIndex[ch] + 1 = j
  BY <1>1, EntryFacts
<1>3. QED
  BY <1>1, <1>2, EntryFacts

\* A new channel takes the entry behind the last.
LEMMA PollAdd ==
  ASSUME ChannelTypeOK, DistinctFds, PollInv,
         NEW ch \in Channels, NEW f \in Fds, NEW ev \in SUBSET Events,
         Enable(ch, f, ev), PollUpdate(ch, -1, f, ev)
  PROVE  PollInv'
<1> DEFINE n == Len(pollfds)
           new == [fd |-> f, events |-> ev]
<1> USE DEF ChannelTypeOK, PollInv, PollTypeOK
<1>1. /\ ch \notin added /\ ch \notin silenced /\ ev # {}
      /\ fd' = [fd EXCEPT ![ch] = f]
      /\ events' = [events EXCEPT ![ch] = ev]
      /\ added' = added \cup {ch}
      /\ pollfds' = Append(pollfds, new)
      /\ pollIndex' = [pollIndex EXCEPT ![ch] = n]
      /\ pollChannels' = [pollChannels EXCEPT ![f] = ch]
      /\ silenced' = silenced
  BY DEF Enable, PollUpdate
<1>2. new \in Entries /\ n \in Nat
  BY DEF Entries
<1>3. /\ pollfds' \in Seq(Entries)
      /\ Len(pollfds') = n + 1
      /\ \A i \in 1..n : pollfds'[i] = pollfds[i]
      /\ pollfds'[n + 1] = new
  BY <1>1, <1>2, AppendProperties
<1>4. PollTypeOK'
  BY <1>1, <1>2, <1>3
<1>5. ASSUME NEW c \in added'
      PROVE  /\ pollChannels'[fd'[c]] = c
             /\ pollIndex'[c] \in 0..(Len(pollfds') - 1)
             /\ pollfds'[pollIndex'[c] + 1] = EntryOf(c)'
             /\ events'[c] = {} => c \in silenced'
  <2>1. CASE c = ch
    BY <2>1, <1>1, <1>2, <1>3 DEF EntryOf
  <2>2. CASE c # ch
    <3>1. c \in added /\ fd'[c] = fd[c] /\ fd[c] # f /\ events'[c] = events[c]
          /\ pollIndex'[c] = pollIndex[c]
      BY <2>2, <1>1 DEF Enable, FreeFd
    <3>2. pollIndex[c] \in 0..(n - 1) /\ pollIndex[c] + 1 \in 1..n
      BY <3>1, <1>2
    <3>3. pollfds'[pollIndex'[c] + 1] = pollfds[pollIndex[c] + 1]
      BY <3>1, <3>2, <1>3
    <3>4. QED
      BY <3>1, <3>2, <3>3, <1>1, <1>2, <1>3 DEF EntryOf
  <2>3. QED
    BY <2>1, <2>2
<1>6. ASSUME NEW a \in added', NEW b \in added', pollIndex'[a] = pollIndex'[b]
      PROVE  a = b
  <2>1. \A c \in added : pollIndex[c] # n /\ pollIndex'[c] = pollIndex[c]
    BY <1>1, <1>2
  <2>2. QED
    BY <1>1, <1>6, <2>1
<1>7. ASSUME NEW i \in 1..Len(pollfds')
      PROVE  \E c \in added' : pollIndex'[c] = i - 1
  <2>1. CASE i = n + 1
    BY <2>1, <1>1, <1>2
  <2>2. CASE i \in 1..n
    <3>1. PICK c \in added : pollIndex[c] = i - 1
      BY <2>2
    <3>2. QED
      BY <3>1, <1>1
  <2>3. QED
    BY <2>1, <2>2, <1>2, <1>3
<1>8. QED
  BY <1>4, <1>5, <1>6, <1>7

\* A change of the events: the entry of the channel changes with them.
LEMMA PollChange ==
  ASSUME ChannelTypeOK, DistinctFds, PollInv,
         NEW ch \in Channels, NEW ev \in SUBSET Events,
         Change(ch, ev), PollUpdate(ch, pollIndex[ch], fd[ch], ev)
  PROVE  PollInv'
<1> DEFINE k == pollIndex[ch] + 1
           new == EntryUpdated(pollfds[k], fd[ch], ev)
<1> USE DEF ChannelTypeOK, PollInv, PollTypeOK
<1>1. /\ ch \in added /\ fd' = fd /\ added' = added
      /\ events' = [events EXCEPT ![ch] = ev]
      /\ pollfds' = [pollfds EXCEPT ![k] = new]
      /\ silenced' = IF ev = {} THEN silenced \cup {ch} ELSE silenced
      /\ pollIndex' = pollIndex /\ pollChannels' = pollChannels
      /\ pollIndex[ch] \in Nat /\ k \in 1..Len(pollfds)
  BY DEF Change, PollUpdate
<1>2. pollfds[k] = EntryOf(ch)
  BY <1>1
<1>3. new = [fd |-> IF ch \in silenced' THEN Negated(fd[ch]) ELSE fd[ch], events |-> ev]
  BY <1>1, <1>2 DEF EntryUpdated, EntryOf
<1>4. new \in Entries
  BY <1>3 DEF Entries
<1>5. /\ pollfds' \in Seq(Entries)
      /\ Len(pollfds') = Len(pollfds)
      /\ \A i \in 1..Len(pollfds) : pollfds'[i] = IF i = k THEN new ELSE pollfds[i]
  BY <1>1, <1>4, ExceptSeq
<1>6. PollTypeOK'
  BY <1>1, <1>5
<1>7. ASSUME NEW c \in added'
      PROVE  /\ pollChannels'[fd'[c]] = c
             /\ pollIndex'[c] \in 0..(Len(pollfds') - 1)
             /\ pollfds'[pollIndex'[c] + 1] = EntryOf(c)'
             /\ events'[c] = {} => c \in silenced'
  <2>1. CASE c = ch
    BY <2>1, <1>1, <1>3, <1>5, ZenonT(40) DEF EntryOf
  <2>2. CASE c # ch
    <3>1. pollIndex[c] + 1 \in 1..Len(pollfds) /\ pollIndex[c] + 1 # k
      BY <2>2, <1>1
    <3>2. QED
      BY <2>2, <3>1, <1>1, <1>5 DEF EntryOf
  <2>3. QED
    BY <2>1, <2>2
<1>8. QED
  BY <1>1, <1>5, <1>6, <1>7
\* A removal: pollfds_ loses an entry, and the channel of the last entry gets
\* the index of the removed one.
LEMMA PollRemoval ==
  ASSUME ChannelTypeOK, DistinctFds, PollInv,
         NEW ch \in Channels, Remove(ch), PollRemove(ch)
  PROVE  PollInv'
<1> DEFINE n == Len(pollfds)
           i == pollIndex[ch]
<1> USE DEF ChannelTypeOK, PollInv, PollTypeOK
<1>1. /\ ch \in added /\ fd' = fd /\ events' = events
      /\ added' = added \ {ch}
      /\ silenced' = silenced \ {ch}
      /\ pollChannels' = [pollChannels EXCEPT ![fd[ch]] = NoChannel]
      /\ i \in 0..(n - 1) /\ n \in Nat \ {0}
  BY DEF Remove, PollRemove
<1>2. PICK lc \in added : pollIndex[lc] = n - 1 /\ pollfds[n] = EntryOf(lc)
  <2>1. n \in 1..Len(pollfds)
    BY <1>1
  <2>2. QED
    BY <2>1, EntryOwner
<1>3. pollfds[n] \in Entries
  BY <1>1
<1>4. /\ pollfds' \in Seq(Entries)
      /\ Len(pollfds') = n - 1
      /\ \A j \in 1..n - 1 : pollfds'[j] = IF j = i + 1 THEN pollfds[n] ELSE pollfds[j]
  <2>1. CASE i = n - 1
    <3>1. pollfds' = SubSeq(pollfds, 1, n - 1)
      BY <2>1 DEF PollRemove
    <3>2. /\ n - 1 \in Int /\ pollfds \in Seq(Entries)
          /\ \A j \in 1..n - 1 : pollfds[j] \in Entries
      BY <1>1
    <3>3. /\ SubSeq(pollfds, 1, n - 1) \in Seq(Entries)
          /\ Len(SubSeq(pollfds, 1, n - 1)) = IF 1 <= n - 1 THEN n - 1 - 1 + 1 ELSE 0
          /\ \A j \in 1..n - 1 - 1 + 1 : SubSeq(pollfds, 1, n - 1)[j] = pollfds[1 + j - 1]
      BY <3>2, SubSeqProperties
    <3>4. \A j \in 1..n - 1 : j # i + 1 /\ 1 + j - 1 = j /\ j \in 1..n - 1 - 1 + 1
      BY <2>1, <1>1
    <3>5. Len(SubSeq(pollfds, 1, n - 1)) = n - 1
      <4>1. \A m \in Nat \ {0} : (IF 1 <= m - 1 THEN m - 1 - 1 + 1 ELSE 0) = m - 1
        OBVIOUS
      <4>2. n \in Nat \ {0}
        BY <1>1
      <4>3. QED
        BY <3>3, <4>1, <4>2, Zenon
    <3>6. \A j \in 1..n - 1 : SubSeq(pollfds, 1, n - 1)[j] = pollfds[j]
      BY <3>3, <3>4
    <3>7. QED
      BY <3>1, <3>3, <3>4, <3>5, <3>6
  <2>2. CASE i # n - 1
    <3> DEFINE t == [pollfds EXCEPT ![i + 1] = pollfds[n]]
    <3>1. pollfds' = SubSeq(t, 1, n - 1)
      BY <2>2 DEF PollRemove
    <3>2. /\ t \in Seq(Entries) /\ Len(t) = n
          /\ \A j \in 1..n : t[j] = IF j = i + 1 THEN pollfds[n] ELSE pollfds[j]
      <4>1. i + 1 \in 1..n
        BY <1>1
      <4>2. QED
        BY <4>1, <1>3, ExceptSeq
    <3> HIDE DEF t
    <3>3. QED
      BY <3>1, <3>2, <1>1, SubSeqProperties, SMTT(40)
  <2>3. QED
    BY <2>1, <2>2
<1>5. /\ pollIndex' \in [Channels -> Int]
      /\ \A c \in added' : pollIndex'[c] = IF c = lc THEN i ELSE pollIndex[c]
  <2>1. CASE i = n - 1
    <3>1. pollIndex' = pollIndex /\ lc = ch
      BY <2>1, <1>1, <1>2 DEF PollRemove
    <3>2. QED
      BY <3>1, <1>1
  <2>2. CASE i # n - 1
    <3>1. pollChannels[fd[lc]] = lc /\ fd[lc] \in Nat
      BY ChannelAssumption
    <3>2. pollChannels[IF pollfds[n].fd < 0 THEN Negated(pollfds[n].fd)
                                            ELSE pollfds[n].fd] = lc
      <4>1. /\ pollfds[n].fd = IF lc \in silenced THEN Negated(fd[lc]) ELSE fd[lc]
            /\ fd[lc] \in Nat /\ Negated(fd[lc]) < 0
        BY <1>2, EntryFacts
      <4>2. Negated(Negated(fd[lc])) = fd[lc] /\ ~(fd[lc] < 0)
        <5>1. \A f \in Nat : Negated(Negated(f)) = f /\ ~(f < 0)
          BY DEF Negated
        <5>2. QED
          BY <4>1, <5>1
      <4>3. QED
        BY <3>1, <4>1, <4>2
    <3>3. pollIndex' = [pollIndex EXCEPT ![lc] = i]
      BY <2>2, <3>2 DEF PollRemove, IndexMoved
    <3>4. QED
      BY <3>3, <1>1
  <2>3. QED
    BY <2>1, <2>2
<1>6. PollTypeOK'
  BY <1>1, <1>4, <1>5
<1>7. \A c \in added' : c # lc => /\ pollIndex[c] \in 0..(n - 2)
                                  /\ pollIndex[c] # i
  BY <1>1, <1>2
<1>8. lc \in added' => i \in 0..(n - 2)
  BY <1>1, <1>2
<1>9. ASSUME NEW c \in added'
      PROVE  /\ pollChannels'[fd'[c]] = c
             /\ pollIndex'[c] \in 0..(Len(pollfds') - 1)
             /\ pollfds'[pollIndex'[c] + 1] = EntryOf(c)'
             /\ events'[c] = {} => c \in silenced'
  <2>1. c \in added /\ c # ch /\ fd[c] # fd[ch] /\ EntryOf(c)' = EntryOf(c)
    BY <1>1 DEF DistinctFds, EntryOf
  <2>2. pollChannels'[fd'[c]] = c /\ (events'[c] = {} => c \in silenced')
    BY <2>1, <1>1
  <2>3. pollIndex'[c] \in 0..(n - 2)
    BY <1>5, <1>7, <1>8
  <2>4. pollfds'[pollIndex'[c] + 1] = EntryOf(c)
    <3> DEFINE m == pollIndex'[c] + 1
    <3>0. m \in 1..n - 1
      BY <2>3, <1>1
    <3>1. CASE c = lc
      <4>1. m = i + 1
        BY <3>1, <1>5
      <4>2. QED
        BY <3>0, <3>1, <4>1, <1>2, <1>4
    <3>2. CASE c # lc
      <4>1. m = pollIndex[c] + 1 /\ m # i + 1
        BY <3>2, <1>1, <1>5, <1>7
      <4>2. pollfds'[m] = pollfds[m]
        BY <3>0, <4>1, <1>4
      <4>3. QED
        BY <2>1, <4>1, <4>2, EntryFacts
    <3>3. QED
      BY <3>1, <3>2
  <2>5. QED
    BY <2>1, <2>2, <2>3, <2>4, <1>1, <1>4
<1>10. ASSUME NEW a \in added', NEW b \in added', pollIndex'[a] = pollIndex'[b]
       PROVE  a = b
  BY <1>10, <1>1, <1>5, <1>7
<1>11. ASSUME NEW j \in 1..Len(pollfds')
       PROVE  \E c \in added' : pollIndex'[c] = j - 1
  <2>1. CASE j = i + 1
    <3>1. lc # ch
      BY <2>1, <1>1, <1>2, <1>4
    <3>2. QED
      BY <2>1, <3>1, <1>1, <1>5
  <2>2. CASE j # i + 1
    <3>0. j \in 1..Len(pollfds)
      BY <1>1, <1>4
    <3>1. PICK c \in added : pollIndex[c] = j - 1
      BY <3>0
    <3>2. c # ch /\ c # lc
      BY <2>2, <3>1, <1>1, <1>2, <1>4
    <3>3. QED
      BY <3>1, <3>2, <1>1, <1>5
  <2>3. QED
    BY <2>1, <2>2
<1>12. QED
  BY <1>6, <1>9, <1>10, <1>11

------------------------------------------------------------------------------
(* The specification.                                                      *)

\* Hazard: the tables of the pollers come apart in a long sequence of updates
\* and removals.  They always agree with the channels.
THEOREM Invariance == Spec => [](Inv /\ left \subseteq Channels)
<1>1. Init => Inv /\ left \subseteq Channels
  <2> SUFFICES ASSUME Init
               PROVE  Inv /\ left \subseteq Channels
    OBVIOUS
  <2> USE DEF Init, ChannelInit, EpollInit, PollInit
  <2>1. ChannelTypeOK /\ DistinctFds /\ left \subseteq Channels
    BY DEF ChannelTypeOK, DistinctFds
  <2>2. EpollInv
    BY MaxEventsAssumption DEF EpollInv, EpollTypeOK, Unwatched
  <2>3. PollInv
    <3>1. <<>> \in Seq(Entries) /\ Len(<<>>) = 0
      BY EmptySeq
    <3>2. QED
      BY <3>1 DEF PollInv, PollTypeOK
  <2>4. QED
    BY <2>1, <2>2, <2>3 DEF Inv
<1>2. (Inv /\ left \subseteq Channels) /\ [Next]_vars => (Inv /\ left \subseteq Channels)'
  <2> SUFFICES ASSUME Inv, left \subseteq Channels, [Next]_vars
               PROVE  Inv' /\ (left \subseteq Channels)'
    OBVIOUS
  <2> USE DEF Inv
  <2>1. ASSUME NEW ch \in Channels, NEW f \in Fds, NEW ev \in SUBSET Events,
               AddChannel(ch, f, ev)
        PROVE  Inv' /\ (left \subseteq Channels)'
    <3>1. /\ Enable(ch, f, ev) /\ EpollUpdate(ch, -1, f, ev) /\ PollUpdate(ch, -1, f, ev)
          /\ maxEvents' = maxEvents /\ left' = left
      BY <2>1 DEF AddChannel
    <3>2. ChannelTypeOK' /\ DistinctFds'
      BY <3>1, ChannelsKept
    <3>3. EpollInv'
      BY <3>1, EpollAdd
    <3>4. PollInv'
      BY <3>1, PollAdd
    <3>5. QED
      BY <3>1, <3>2, <3>3, <3>4
  <2>2. ASSUME NEW ch \in Channels, NEW ev \in SUBSET Events, UpdateChannel(ch, ev)
        PROVE  Inv' /\ (left \subseteq Channels)'
    <3>1. /\ Change(ch, ev) /\ EpollUpdate(ch, epollIndex[ch], fd[ch], ev)
          /\ PollUpdate(ch, pollIndex[ch], fd[ch], ev)
          /\ maxEvents' = maxEvents /\ left' = left
      BY <2>2 DEF UpdateChannel
    <3>2. ChannelTypeOK' /\ DistinctFds'
      BY <3>1, ChannelsKept
    <3>3. EpollInv'
      BY <3>1, EpollChange
    <3>4. PollInv'
      BY <3>1, PollChange
    <3>5. QED
      BY <3>1, <3>2, <3>3, <3>4
  <2>3. ASSUME NEW ch \in Channels, RemoveChannel(ch)
        PROVE  Inv' /\ (left \subseteq Channels)'
    <3>1. /\ Remove(ch) /\ EpollRemove(ch) /\ PollRemove(ch)
          /\ maxEvents' = maxEvents /\ left' = left \ {ch}
      BY <2>3 DEF RemoveChannel
    <3>2. ChannelTypeOK' /\ DistinctFds'
      BY <3>1, ChannelsKept
    <3>3. EpollInv'
      BY <3>1, EpollRemoval
    <3>4. PollInv'
      BY <3>1, PollRemoval
    <3>5. QED
      BY <3>1, <3>2, <3>3, <3>4
  <2>4. CASE EpollWait
    <3>1. maxEvents' \in Nat \ {0}
      BY <2>4 DEF EpollWait, NextMaxEvents, EpollInv, EpollTypeOK
    <3>2. /\ UNCHANGED <<channelVars, epollTables, pollVars>>
          /\ left' \subseteq Channels
      BY <2>4 DEF EpollWait, ChannelTypeOK
    <3>3. QED
      BY <3>1, <3>2, InvUnchanged
  <2>5. CASE UNCHANGED vars
    BY <2>5, InvUnchanged DEF vars, EpollInv, EpollTypeOK
  <2>6. QED
    BY <2>1, <2>2, <2>3, <2>4, <2>5 DEF Next
<1>3. QED
  BY <1>1, <1>2, PTL DEF Spec

\* The types of all variables; events_ never has room for nothing.
THEOREM TypeCorrect == Spec => []TypeOK
<1>1. Inv /\ left \subseteq Channels => TypeOK
  BY DEF Inv, EpollInv, PollInv, TypeOK
<1>2. QED
  BY <1>1, Invariance, PTL

\* No legal sequence of calls makes an assertion of updateChannel() or
\* removeChannel() fail, in either poller.
THEOREM AssertionsNeverFail == Spec => []AssertionsHold
<1>1. Inv => AssertionsHold
  <2> SUFFICES ASSUME Inv, NEW ch \in added
               PROVE  EpollAccepts(ch) /\ PollAccepts(ch)
    BY DEF AssertionsHold
  <2>1. EpollAccepts(ch)
    <3>1. /\ epollIndex[ch] = 1 /\ epollChannels[fd[ch]] = ch
          /\ interest[fd[ch]] = [events |-> events[ch], ptr |-> ch]
      BY DEF Inv, EpollInv
    <3>2. interest[fd[ch]].ptr = ch /\ ch # NoChannel
      BY <3>1, ChannelAssumption DEF Inv, ChannelTypeOK
    <3>3. QED
      BY <3>1, <3>2 DEF EpollAccepts
  <2>2. PollAccepts(ch)
    BY EntryFacts DEF Inv, PollAccepts
  <2>3. QED
    BY <2>1, <2>2
<1>2. QED
  BY <1>1, Invariance, PTL

\* The kernel watches what the channels ask for, and nothing else.
THEOREM EpollIsExact == Spec => []EpollWatchesTheAsking
<1>1. Inv => EpollWatchesTheAsking
  BY DEF Inv, EpollInv, EpollWatchesTheAsking, FreeFd
<1>2. QED
  BY <1>1, Invariance, PTL

\* Every channel has its entry of pollfds_ at its index, and no entry is left
\* over, however removals move the entries.
THEOREM PollEntriesAreExact == Spec => []PollEntriesAgree
<1>1. Inv => PollEntriesAgree
  <2> SUFFICES ASSUME Inv
               PROVE  PollEntriesAgree
    OBVIOUS
  <2>1. \A ch \in added : pollIndex[ch] + 1 \in DOMAIN pollfds
    BY EntryFacts DEF Inv
  <2>2. \A i \in DOMAIN pollfds : \E ch \in added : pollIndex[ch] = i - 1
    <3>1. DOMAIN pollfds = 1..Len(pollfds)
      BY DEF Inv, PollInv, PollTypeOK
    <3>2. QED
      BY <3>1, EntryOwner DEF Inv
  <2>3. \A ch \in added : pollfds[pollIndex[ch] + 1] = EntryOf(ch)
    BY EntryFacts DEF Inv
  <2>4. QED
    BY <2>1, <2>2, <2>3 DEF PollEntriesAgree, EntryOf
<1>2. QED
  BY <1>1, Invariance, PTL

\* The two pollers report the same, save for channels PollPoller was told to
\* ignore: those it never reports again.
THEOREM PollersReportTheSame == Spec => []PollersAgree
<1>1. Inv => PollersAgree
  <2> SUFFICES ASSUME Inv, NEW f \in Fds, NEW r \in SUBSET (Events \cup {"hup"})
               PROVE  PollReport(f, r) = IF \E ch \in silenced : fd[ch] = f
                                           THEN {} ELSE EpollReport(f, r)
    BY DEF PollersAgree
  <2> USE DEF Inv, ChannelTypeOK
  <2> DEFINE places == {j \in DOMAIN pollfds :
                          /\ pollfds[j].fd = f
                          /\ r \cap (pollfds[j].events \cup {"hup"}) # {}}
  <2>1. PollReport(f, r) = {<<pollChannels[f], r \cap (pollfds[j].events \cup {"hup"})>> :
                              j \in places}
    BY DEF PollReport
  <2>2. ASSUME NEW j \in DOMAIN pollfds, pollfds[j].fd = f
        PROVE  \E ch \in added : /\ pollIndex[ch] = j - 1 /\ fd[ch] = f
                                 /\ ch \notin silenced
    <3>1. j \in 1..Len(pollfds)
      BY DEF PollInv, PollTypeOK
    <3>2. PICK ch \in added : pollIndex[ch] = j - 1 /\ pollfds[j] = EntryOf(ch)
      BY <3>1, EntryOwner
    <3>3. f \in Nat
      BY ChannelAssumption
    <3>4. EntryOf(ch).fd = f
      BY <2>2, <3>2
    <3>5. ch \notin silenced
      <4>1. ch \in silenced => EntryOf(ch).fd = Negated(fd[ch]) /\ Negated(fd[ch]) < 0
        BY EntryFacts
      <4>2. QED
        BY <3>3, <3>4, <4>1
    <3>6. QED
      BY <3>2, <3>4, <3>5, EntryFacts
  <2>4. CASE \A ch \in added : fd[ch] = f => ch \in silenced
    <3>1. places = {}
      BY <2>2, <2>4
    <3>2. PollReport(f, r) = {}
      BY <2>1, <3>1
    <3>3. CASE FreeFd(f)
      BY <3>2, <3>3 DEF EpollReport, EpollInv, Unwatched
    <3>4. CASE ~FreeFd(f)
      BY <3>2, <3>4, <2>4 DEF FreeFd
    <3>5. QED
      BY <3>3, <3>4
  <2>5. ASSUME NEW ch \in added, fd[ch] = f, ch \notin silenced
        PROVE  PollReport(f, r) = IF \E c \in silenced : fd[c] = f
                                    THEN {} ELSE EpollReport(f, r)
    <3> DEFINE k == pollIndex[ch] + 1
               some == r \cap (events[ch] \cup {"hup"})
    <3>1. /\ k \in DOMAIN pollfds /\ pollfds[k].fd = f /\ pollfds[k].events = events[ch]
          /\ pollChannels[f] = ch
      BY <2>5, EntryFacts
    <3>2. ~\E c \in silenced : fd[c] = f
      BY <2>5 DEF PollInv, PollTypeOK, DistinctFds
    <3>3. \A j \in DOMAIN pollfds : pollfds[j].fd = f => j = k
      <4>1. \A j \in DOMAIN pollfds : j \in Int
        BY DEF PollInv, PollTypeOK
      <4>2. QED
        BY <2>2, <2>5, <4>1 DEF DistinctFds
    <3>4. places = IF some # {} THEN {k} ELSE {}
      BY <3>1, <3>3
    <3>5. PollReport(f, r) = IF some # {} THEN {<<ch, some>>} ELSE {}
      BY <2>1, <3>1, <3>4
    <3>6. EpollReport(f, r) = IF some # {} THEN {<<ch, some>>} ELSE {}
      <4>1. interest[f] = [events |-> events[ch], ptr |-> ch] /\ ch # NoChannel
        BY <2>5, ChannelAssumption DEF EpollInv
      <4>2. interest[f].events = events[ch] /\ interest[f].ptr = ch
        BY <4>1
      <4>3. QED
        BY <4>1, <4>2 DEF EpollReport
    <3>7. QED
      BY <3>2, <3>5, <3>6
  <2>6. QED
    BY <2>4, <2>5
<1>2. QED
  BY <1>1, Invariance, PTL
==============================================================================
