----------------------------- MODULE EpollPoller -----------------------------
(***************************************************************************)
(* summer::net::EpollPoller (src/net/poller/EpollPoller.{h,cc}).           *)
(***************************************************************************)
EXTENDS Channel

CONSTANT InitMaxEvents   \* the size that events_ begins with

ASSUME MaxEventsAssumption == InitMaxEvents \in Nat \ {0}

VARIABLES epollIndex,      \* index_ of each channel
          epollChannels,   \* channels_
          interest,        \* the kernel's interest list
          maxEvents        \* events_.size()

epollTables == <<epollIndex, epollChannels, interest>>

Unwatched == [events |-> {}, ptr |-> NoChannel]

EpollTypeOK ==
  /\ epollIndex \in [Channels -> {-1, 1}]
  /\ epollChannels \in [Fds -> Channels \cup {NoChannel}]
  /\ interest \in [Fds -> [events : SUBSET Events, ptr : Channels \cup {NoChannel}]]
  /\ maxEvents \in Nat \ {0}

EpollInit == /\ epollIndex = [ch \in Channels |-> -1]
             /\ epollChannels = [f \in Fds |-> NoChannel]
             /\ interest = [f \in Fds |-> Unwatched]
             /\ maxEvents = InitMaxEvents

\* Faulty forms: no EPOLL_CTL_MOD, no EPOLL_CTL_DEL; events_ keeps its size.
EpollUpdateOnce(ch, index, f, ev) ==
  /\ epollIndex' = [epollIndex EXCEPT ![ch] = 1]
  /\ epollChannels' = [epollChannels EXCEPT ![f] = ch]
  /\ interest' = IF index < 0 THEN [interest EXCEPT ![f] = [events |-> ev, ptr |-> ch]]
                              ELSE interest

EpollRemoveQuietly(ch) ==
  /\ epollChannels' = [epollChannels EXCEPT ![fd[ch]] = NoChannel]
  /\ UNCHANGED <<epollIndex, interest>>

FixedSize(n) == maxEvents

\* updateChannel() of a channel whose index_ is index: EPOLL_CTL_ADD or _MOD.
EpollUpdate(ch, index, f, ev) ==
  /\ epollIndex' = [epollIndex EXCEPT ![ch] = IF index < 0 THEN 1 ELSE index]
  /\ epollChannels' = [epollChannels EXCEPT ![f] = IF index < 0 THEN ch ELSE @]
  /\ interest' = [interest EXCEPT ![f] = [events |-> ev, ptr |-> ch]]

\* removeChannel() leaves index_ as it is.
EpollRemove(ch) ==
  /\ epollChannels' = [epollChannels EXCEPT ![fd[ch]] = NoChannel]
  /\ interest' = [interest EXCEPT ![fd[ch]] = Unwatched]
  /\ UNCHANGED epollIndex

\* The assertions, and the refusals of epoll_ctl(), in the next call of
\* updateChannel() or removeChannel() for a channel in the poller.
EpollAccepts(ch) == /\ epollChannels[fd[ch]] = ch
                    /\ epollIndex[ch] = 1
                    /\ interest[fd[ch]].ptr # NoChannel

\* epoll_wait() and fillActiveChannels(): the channel and the revents_ reported
\* for a descriptor in condition r; a hang-up needs not be asked for.
EpollReport(f, r) ==
  LET e == interest[f]
  IN  IF e.ptr # NoChannel /\ r \cap (e.events \cup {"hup"}) # {}
        THEN {<<e.ptr, r \cap (e.events \cup {"hup"})>>} ELSE {}

\* events_.size() after a poll() that reported n events.
NextMaxEvents(n) == IF n = maxEvents THEN 2 * maxEvents ELSE maxEvents
==============================================================================
