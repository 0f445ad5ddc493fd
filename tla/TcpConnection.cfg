SPECIFICATION FairSpec
CONSTANTS
  Loop = Loop
  s = s
  Senders = {s}
  Shutters = {}
  highWaterMark_ = 2
  SndBuf = 1
  MaxChunk = 2
  MaxBytes = 2
  MaxMessages = 1
INVARIANTS TypeOK UpThenDown RemovedForGood
PROPERTIES ImplementsConnection OutputDrains CloseCompletes
CHECK_DEADLOCK FALSE
