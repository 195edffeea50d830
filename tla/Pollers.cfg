\* Both pollers, three channels; events_ begins with room for one event.
CONSTANTS
  Channels = {"ch1", "ch2", "ch3"}
  NoChannel = NoChannel
  Fds = {0, 1, 2}
  InitMaxEvents = 1
SPECIFICATION FairSpec
INVARIANTS
  AssertionsHold
  EpollWatchesTheAsking
  PollEntriesAgree
  PollersAgree
PROPERTIES
  NobodyIsLeftOut
