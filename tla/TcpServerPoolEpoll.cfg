\* A pool of one loop, epoll.
CONSTANTS
  c1 = c1
  c2 = c2
  Conns = {c1}
  NoConn = NoConn
  Listener = Listener
  base = base
  io1 = io1
  io2 = io2
  Loops = {base, io1}
  Base = base
  IoLoops <- OneLoop
  NoLoop = NoLoop
  s1 = s1
  s2 = s2
  Senders = {}
  MaxSends = 0
  MsgLen = 1
  WriteComplete = FALSE
  HupUnasked = TRUE
SPECIFICATION Spec
INVARIANTS
  EraseFindsConnection
