CONSTANTS
  Loop = Loop
  Threads = {main, other}
  Functors = {f1, f2}
  Channels = {sock}
  WakeupChannel = wakeup
  QueueBeforeLoop = FALSE
  Owner = main
  Quitters = {Loop}
SPECIFICATION ThreadFairSpec
INVARIANT ThreadTypeOK
INVARIANT StartedLoopIsLive
INVARIANT DestroyedLoopIsOver
PROPERTY StartLoopReturns
PROPERTY DestructorReturnsOnceLooping
CHECK_DEADLOCK FALSE
