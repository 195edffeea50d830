\* One loop, epoll, a user that sends and shuts down in callbacks.
CONSTANTS
  c1 = c1
  c2 = c2
  Conns = {c1, c2}
  NoConn = NoConn
  Listener = Listener
  base = base
  io1 = io1
  io2 = io2
  Loops = {base}
  Base = base
  IoLoops <- NoPool
  NoLoop = NoLoop
  s1 = s1
  s2 = s2
  Senders = {}
  MaxSends = 2
  MsgLen = 2
  WriteComplete = TRUE
  HupUnasked = TRUE
SPECIFICATION Spec
INVARIANTS
  TypeOK
  AssertionsHold
  PendingOutputIsWatched
