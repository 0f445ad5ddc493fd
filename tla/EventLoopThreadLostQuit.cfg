CONSTANTS
  Loop = Loop
  Threads = {main, other}
  Functors = {f1, f2}
  Channels = {sock}
  WakeupChannel = wakeup
  QueueBeforeLoop = FALSE
  Owner = main
  Quitters = {}
SPECIFICATION ThreadFairSpec
PROPERTY DestructorReturns
CHECK_DEADLOCK FALSE
