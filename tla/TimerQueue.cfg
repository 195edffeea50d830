\* Three timers on two addresses, a clock that never waits.
CONSTANTS
  a1 = a1
  a2 = a2
  Addrs = {a1, a2}
  NoAddr = NoAddr
  Delays = {0, 1, 2}
  Intervals = {0, 1}
  MaxTime = 3
  MaxSeq = 3
  MaxPending = 1
SPECIFICATION FairSpec
INVARIANTS
  TimersAreOwned
  TimerfdCoversFirst
PROPERTIES
  DueTimersLeave
  RunsAsAsked
  StaleIdHitsNobody
CHECK_DEADLOCK FALSE
