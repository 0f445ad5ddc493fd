CONSTANTS
  Loop = Loop
  Threads = {t1, t2}
  Functors = {f1, f2, f3}
  Channels = {sock}
  WakeupChannel = wakeup
  QueueBeforeLoop = FALSE
SPECIFICATION FairSpec
INVARIANT TypeOK
INVARIANT SleepingLoopIsWoken
PROPERTY ImplementsTaskQueue
PROPERTY QueuedFunctorRuns
PROPERTY QuitEndsLoop
