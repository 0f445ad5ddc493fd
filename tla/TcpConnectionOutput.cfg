SPECIFICATION Spec
CONSTANTS
  Loop = Loop
  Senders = {}
  Shutters = {}
  highWaterMark_ = 2
  SndBuf = 1
  MaxChunk = 3
  MaxBytes = 4
  MaxMessages = 1
INVARIANT OutputComplete

CHECK_DEADLOCK FALSE
