SPECIFICATION FairSpec
CONSTANTS
  u1 = u1
  u2 = u2
  Users = {u1, u2}
  MaxQueue = 3
INVARIANTS PolledIsAlive RawClosureIsSafe
PROPERTIES FreedAfterDestroyed FreedInTheEnd ImplementsConnection
CHECK_DEADLOCK FALSE
