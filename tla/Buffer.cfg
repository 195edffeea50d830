\* A vector of seven bytes, two of them reserved.
CONSTANTS
  kCheapPrepend = 2
  kInitialSize = 5
  ExtraSize = 3
  MaxMade = 7
  MaxReserve = 1
SPECIFICATION Spec
PROPERTIES
  ImplementsByteQueue
  BreaksOnlyWithoutRoom
\* The end of the bytes, or of the buffer.
CHECK_DEADLOCK FALSE
