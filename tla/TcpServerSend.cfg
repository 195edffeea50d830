\* One connection, senders on two threads that are not loops.
CONSTANTS
  c1 = c1
  c2 = c2
  Conns = {c1}
  NoConn = NoConn
  Listener = Listener
  base = base
  io1 = io1
  io2 = io2
  Loops = {base}
  Base = base
  IoLoops <- NoPool
  NoLoop = NoLoop
  s1 = s1
  s2 = s2
  Senders = {s1, s2}
  MaxSends = 1
  MsgLen = 2
  WriteComplete = FALSE
  HupUnasked = TRUE
SPECIFICATION Spec
INVARIANTS
  StreamIntact
