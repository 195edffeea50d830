\* A client that retries, and two threads that connect and disconnect it.
CONSTANTS
  f1 = f1
  f2 = f2
  Fds = {f1, f2}
  NoFd = NoFd
  kInitRetryDelayMs = 1
  kMaxRetryDelayMs = 3
  s1 = s1
  s2 = s2
  Callers = {s1, s2}
  RetryEnabled = TRUE
  MaxCalls = 2
SPECIFICATION FairSpec
INVARIANTS
  TypeOK
  AssertionsHold
  OneAttempt
  SocketsAreOwned
  HandledChannelExists
PROPERTIES
  NeverGivesUp
