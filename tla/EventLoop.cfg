\* One loop, two foreign threads, three functors.
CONSTANTS
  t1 = t1
  t2 = t2
  f1 = f1
  f2 = f2
  f3 = f3
  Threads = {t1, t2}
  Tasks = {f1, f2, f3}
  NoTask = NoTask
SPECIFICATION FairSpec
INVARIANTS
  NoLostWakeup
PROPERTIES
  ImplementsTaskQueue
  PromptRun
  EveryFunctorRuns
  QuitStopsLoop
