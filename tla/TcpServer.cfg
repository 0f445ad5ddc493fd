SPECIFICATION ServerFairSpec
CONSTANTS
  MaxThreads = 2
  MaxConns = 3
  MaxFds = 2
INVARIANTS ServerTypeOK HeldOnce EachUpThenDown MissedDowns GoneIsQuiet
PROPERTIES ConnectionsLive NothingForDeadLoops ClosedIsRemoved DescriptorReturns WaitingClientIsTaken DestructorEnds
CHECK_DEADLOCK FALSE
