SPECIFICATION Spec
CONSTANTS
  Threads = {t1, t2, t3}
  MaxCalls = 3
INVARIANT ShownIsOfAnOverlap
CHECK_DEADLOCK FALSE
