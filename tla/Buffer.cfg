CONSTANTS
  kCheapPrepend = 1
  kInitialSize = 1
  ExtraBuf = 2
  MaxChunk = 2
  MaxRead = 2
  Bytes = {a, b}
  NoByte = zero
  MaxSize = 8
SPECIFICATION Spec
INVARIANT TypeOK
INVARIANT IndexOrder
PROPERTY ImplementsByteStream
