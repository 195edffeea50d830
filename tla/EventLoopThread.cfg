\* One object from construction to destruction, used by two threads and by
\* the code inside its loop.
CONSTANTS
  creator = creator
  t2 = t2
  f1 = f1
  f2 = f2
  Threads = {creator, t2}
  Creator = creator
  Tasks = {f1, f2}
  NoTask = NoTask
SPECIFICATION EltFairSpec
INVARIANTS
  PublishedLoopExists
  ThreadDoneWithObject
PROPERTIES
  StartLoopReturns
  DtorReturnsWhenLooping
