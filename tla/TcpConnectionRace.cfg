SPECIFICATION Spec
CONSTANTS
  Loop = Loop
  s = s
  h = h
  Senders = {s}
  Shutters = {h}
  highWaterMark_ = 2
  SndBuf = 1
  MaxChunk = 2
  MaxBytes = 2
  MaxMessages = 1
INVARIANTS PollerInSync InOrder WritingWhileOutput
PROPERTY HighWaterOnCrossing
CHECK_DEADLOCK FALSE
