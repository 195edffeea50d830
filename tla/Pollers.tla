------------------------------- MODULE Pollers -------------------------------
(***************************************************************************)
(* Poller::newDefaultPoller() (src/net/poller/NewDefaultPoller.cc) makes   *)
(* one of two pollers behind the same interface (Poller.h).  Here both are *)
(* given the same calls of EventLoop::updateChannel() and removeChannel(), *)
(* which shows what each table holds and where the two differ.             *)
(***************************************************************************)
EXTENDS EpollPoller, PollPoller

VARIABLE left   \* ready channels that the last epoll_wait() had no room for

vars == <<channelVars, epollTables, maxEvents, pollVars, left>>

TypeOK == /\ ChannelTypeOK /\ EpollTypeOK /\ PollTypeOK
          /\ left \subseteq Channels

Init == ChannelInit /\ EpollInit /\ PollInit /\ left = {}

AddChannel(ch, f, ev) ==
  /\ Enable(ch, f, ev)
  /\ EpollUpdate(ch, -1, f, ev)
  /\ PollUpdate(ch, -1, f, ev)
  /\ UNCHANGED <<maxEvents, left>>

UpdateChannel(ch, ev) ==
  /\ Change(ch, ev)
  /\ EpollUpdate(ch, epollIndex[ch], fd[ch], ev)
  /\ PollUpdate(ch, pollIndex[ch], fd[ch], ev)
  /\ UNCHANGED <<maxEvents, left>>

RemoveChannel(ch) ==
  /\ Remove(ch)
  /\ EpollRemove(ch)
  /\ PollRemove(ch)
  /\ left' = left \ {ch}
  /\ UNCHANGED maxEvents

\* EpollPoller::poll(): the kernel fills events_ with some of what is ready.
EpollWait ==
  \E ready \in SUBSET added :
    \E reported \in SUBSET ready :
      /\ \/ reported = ready /\ Cardinality(ready) <= maxEvents
         \/ Cardinality(reported) = maxEvents
      /\ left' = ready \ reported
      /\ maxEvents' = NextMaxEvents(Cardinality(reported))
      /\ UNCHANGED <<channelVars, epollTables, pollVars>>

Next == \/ \E ch \in Channels :
             \/ \E f \in Fds, ev \in SUBSET Events : AddChannel(ch, f, ev)
             \/ \E ev \in SUBSET Events : UpdateChannel(ch, ev)
             \/ RemoveChannel(ch)
        \/ EpollWait

Spec == Init /\ [][Next]_vars

\* The loop goes on polling.
FairSpec == Spec /\ WF_vars(EpollWait)

------------------------------------------------------------------------------
(* Properties.                                                             *)

\* No legal sequence of calls makes an assertion of updateChannel() or
\* removeChannel() fail in either poller.
AssertionsHold == \A ch \in added : EpollAccepts(ch) /\ PollAccepts(ch)

\* Hazard: the kernel keeps a pointer to a channel that was removed, or an old
\* mask.  epoll watches what the channels ask for now, and nothing else.
EpollWatchesTheAsking ==
  \A f \in Fds :
     \/ FreeFd(f) /\ interest[f] = Unwatched /\ epollChannels[f] = NoChannel
     \/ \E ch \in added : /\ fd[ch] = f
                          /\ interest[f] = [events |-> events[ch], ptr |-> ch]

\* Hazard: indices go wrong when removals move entries.  Each channel has one
\* entry of pollfds_, the one its index_ says, with its mask; and there are no
\* other entries.
PollEntriesAgree ==
  /\ \A ch \in added : pollIndex[ch] + 1 \in DOMAIN pollfds
  /\ \A i \in DOMAIN pollfds : \E ch \in added : pollIndex[ch] = i - 1
  /\ \A ch \in added :
       pollfds[pollIndex[ch] + 1] =
         [fd |-> IF ch \in silenced THEN Negated(fd[ch]) ELSE fd[ch],
          events |-> events[ch]]

\* The two pollers report the same channels with the same events, whatever the
\* descriptors are ready for, save for a channel that once asked for nothing:
\* PollPoller ignores it from then on, even when it asks again, and epoll
\* reports it, even a hang-up when it asks for nothing.
PollersAgree ==
  \A f \in Fds, r \in SUBSET (Events \cup {"hup"}) :
     PollReport(f, r) = IF \E ch \in silenced : fd[ch] = f THEN {}
                                                          ELSE EpollReport(f, r)

\* Hazard: more channels are ready than events_ has room for.  No channel is
\* left out by every poll().
NobodyIsLeftOut == \A ch \in Channels : []<>(ch \notin left)
==============================================================================
