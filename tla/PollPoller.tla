------------------------------ MODULE PollPoller ------------------------------
(***************************************************************************)
(* summer::net::PollPoller (src/net/poller/PollPoller.{h,cc}).  index_     *)
(* counts from zero, sequences from one: the entry of a channel in         *)
(* pollfds_ is pollfds[pollIndex[ch] + 1].                                 *)
(***************************************************************************)
EXTENDS Channel

VARIABLES pollIndex,      \* index_ of each channel
          pollChannels,   \* channels_
          pollfds,        \* pollfds_
          silenced        \* history: the channels that asked for nothing at
                          \* some time since they were added

pollVars == <<pollIndex, pollChannels, pollfds, silenced>>

\* The descriptor that poll(2) ignores in place of f; its own inverse.
Negated(f) == -f - 1

Entries == [fd : Fds \cup {Negated(f) : f \in Fds}, events : SUBSET Events]

PollTypeOK == /\ pollIndex \in [Channels -> Int]
              /\ pollChannels \in [Fds -> Channels \cup {NoChannel}]
              /\ pollfds \in Seq(Entries)
              /\ silenced \subseteq added

PollInit == /\ pollIndex = [ch \in Channels |-> -1]
            /\ pollChannels = [f \in Fds |-> NoChannel]
            /\ pollfds = <<>>
            /\ silenced = {}

\* Faulty forms: the moved channel is not told its new index; a channel that
\* asks for nothing is not ignored.
NotTold(ch, last, i) == pollIndex

EntryUnsigned(entry, f, ev) == [entry EXCEPT !.events = ev]

\* An entry after updateChannel(): it is negated when the channel asks for
\* nothing, and not restored when the channel asks for something again.
EntryUpdated(entry, f, ev) ==
  [fd |-> IF ev = {} THEN Negated(f) ELSE entry.fd, events |-> ev]

\* updateChannel() of a channel whose index_ is index.
PollUpdate(ch, index, f, ev) ==
  IF index = -1
    THEN /\ pollfds' = Append(pollfds, [fd |-> f, events |-> ev])
         /\ pollIndex' = [pollIndex EXCEPT ![ch] = Len(pollfds)]
         /\ pollChannels' = [pollChannels EXCEPT ![f] = ch]
         /\ UNCHANGED silenced
    ELSE /\ pollfds' = [pollfds EXCEPT ![index + 1] = EntryUpdated(@, f, ev)]
         /\ silenced' = IF ev = {} THEN silenced \cup {ch} ELSE silenced
         /\ UNCHANGED <<pollIndex, pollChannels>>

\* index_ of all channels when ch gave its place i to the last entry.
IndexMoved(ch, last, i) ==
  LET f == IF last.fd < 0 THEN Negated(last.fd) ELSE last.fd
  IN  [pollIndex EXCEPT ![pollChannels[f]] = i]

\* removeChannel(): the last entry takes the place of the removed one.
PollRemove(ch) ==
  LET i == pollIndex[ch]
      n == Len(pollfds)
  IN  /\ pollChannels' = [pollChannels EXCEPT ![fd[ch]] = NoChannel]
      /\ silenced' = silenced \ {ch}
      /\ IF i = n - 1
           THEN pollfds' = SubSeq(pollfds, 1, n - 1) /\ UNCHANGED pollIndex
           ELSE /\ pollfds' = SubSeq([pollfds EXCEPT ![i + 1] = pollfds[n]], 1, n - 1)
                /\ pollIndex' = IndexMoved(ch, pollfds[n], i)

\* The assertions in the next call of updateChannel() for a channel in the
\* poller, and of removeChannel() if it asks for nothing.
PollAccepts(ch) ==
  /\ pollChannels[fd[ch]] = ch
  /\ pollIndex[ch] + 1 \in DOMAIN pollfds
  /\ LET entry == pollfds[pollIndex[ch] + 1]
     IN  /\ entry.fd \in {fd[ch], Negated(fd[ch])}
         /\ events[ch] = {} => entry.fd = Negated(fd[ch]) /\ entry.events = {}

\* poll(2) and fillActiveChannels(): the channels and the revents_ reported
\* for a descriptor in condition r.
PollReport(f, r) ==
  {<<pollChannels[f], r \cap (pollfds[i].events \cup {"hup"})>> :
     i \in {j \in DOMAIN pollfds : /\ pollfds[j].fd = f
                                   /\ r \cap (pollfds[j].events \cup {"hup"}) # {}}}
==============================================================================
