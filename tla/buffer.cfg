\* One buffer.
SPECIFICATION BufferSpec
CONSTANTS
  Buffers = {b}
  Bytes = {"x", "y"}
  Junk = Junk
  kCheapPrependSize = 1
  ExtraSize = 2
  Sizes = {0, 1, 2}
  Texts <- MCTexts
  MaxCapacity = 6
  UnreadAfterReset = FALSE
INVARIANTS FieldsConsistent AssertsHold
PROPERTY ImplementsByteQueue
