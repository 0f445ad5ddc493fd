SPECIFICATION EchoSpec
CONSTANTS
  Loop = Loop
  Senders = {}
  Shutters = {}
  highWaterMark_ = 3
  SndBuf = 1
  MaxChunk = 3
  MaxBytes = 3
  MaxMessages = 3
  ShutsDown = TRUE
PROPERTY ShutdownCloses
CHECK_DEADLOCK FALSE
