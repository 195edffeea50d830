------------------------------- MODULE Channel -------------------------------
(***************************************************************************)
(* summer::net::Channel (src/net/Channel.{h,cc}) as the pollers see it: a  *)
(* descriptor and the events that its owner asks for.  Its event dispatch  *)
(* is in module TcpConnection.                                             *)
(*                                                                         *)
(* Channels are addresses: the object of a removed channel is deleted and  *)
(* its address may be used again.  A descriptor may be used again by       *)
(* another channel once the first one was removed (Connector hands its     *)
(* socket to TcpConnection that way).                                      *)
(***************************************************************************)
EXTENDS Integers, Sequences, FiniteSets

CONSTANTS Channels,    \* addresses of Channel objects
          NoChannel,   \* no channel
          Fds          \* file descriptors

ASSUME ChannelAssumption == NoChannel \notin Channels /\ Fds \subseteq Nat

VARIABLES fd,        \* fd_
          events,    \* events_
          added      \* channels updated and not removed since they were made

channelVars == <<fd, events, added>>

Events == {"read", "write"}

ChannelTypeOK == /\ fd \in [Channels -> Fds]
                 /\ events \in [Channels -> SUBSET Events]
                 /\ added \subseteq Channels

ChannelInit == /\ fd \in [Channels -> Fds]
               /\ events = [ch \in Channels |-> {}]
               /\ added = {}

\* No two channels of a loop have the same descriptor at a time.
FreeFd(f) == \A ch \in added : fd[ch] # f

\* The constructor and the first enableReading() or enableWriting().
Enable(ch, f, ev) ==
  /\ ch \notin added /\ FreeFd(f) /\ ev # {}
  /\ fd' = [fd EXCEPT ![ch] = f]
  /\ events' = [events EXCEPT ![ch] = ev]
  /\ added' = added \cup {ch}

\* The values that enableReading(), enableWriting(), disableWriting() and
\* disableAll() can give events_.
Masks(ch) == {events[ch] \cup {"read"}, events[ch] \cup {"write"},
              events[ch] \ {"write"}, {}}

\* One of them, on a channel that the poller knows.
Change(ch, ev) ==
  /\ ch \in added /\ ev \in Masks(ch)
  /\ events' = [events EXCEPT ![ch] = ev]
  /\ UNCHANGED <<fd, added>>

\* removeChannel() after disableAll().
Remove(ch) ==
  /\ ch \in added /\ events[ch] = {}
  /\ added' = added \ {ch}
  /\ UNCHANGED <<fd, events>>
==============================================================================
