SPECIFICATION Spec
CONSTANTS
  Byte = {0, 1}
  Sep <- Newlines
  buffer_limit = 4
  MaxBlock = 2
  MaxBytes = 5
INVARIANTS BufferInv
PROPERTIES WokenReadsSucceed ImplementsByteStream
CHECK_DEADLOCK FALSE
