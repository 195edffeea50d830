\* A pool of two loops, poll(2).
CONSTANTS
  c1 = c1
  c2 = c2
  Conns = {c1, c2}
  NoConn = NoConn
  Listener = Listener
  base = base
  io1 = io1
  io2 = io2
  Loops = {base, io1, io2}
  Base = base
  IoLoops <- TwoLoops
  NoLoop = NoLoop
  s1 = s1
  s2 = s2
  Senders = {}
  MaxSends = 0
  MsgLen = 1
  WriteComplete = FALSE
  HupUnasked = FALSE
SPECIFICATION FairSpec
INVARIANTS
  AssertionsHold
  NoDanglingChannel
  MapHoldsTheOpen
PROPERTIES
  ClosedConnectionsAreFreed
