\* A pool one slot larger than the stream, which wraps three times; the lane stops at the end.
SPECIFICATION FairSpec

CONSTANTS
  Slots = 4
  BufferCap = 3
  MaxBuffers = 13

INVARIANTS
  StreamIsIntact
  NoBufferIsMissing
  LossIsCounted

PROPERTIES
  InputEnds

CHECK_DEADLOCK FALSE
