CONSTANTS
  kCheapPrepend = 1
  kInitialSize = 1
  ExtraBuf = 5
  MaxChunk = 2
  MaxRead = 5
  Bytes = {a, b}
  NoByte = zero
  MaxSize = 8
SPECIFICATION Spec
INVARIANT IndexOrder
