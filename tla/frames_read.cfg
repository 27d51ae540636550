SPECIFICATION Spec
CONSTANTS
  Word = 32
  MaxSize = 5
  HeaderSize = 2
  MethodHeaderSize = 2
  ContentHeaderSize = 3
  MaxFrames = 2
  MaxPayload = 3
  MaxFailures = 1
  DeliverArgsSize = 1
  Mask = 2
  Zeros = {4, 10}
INVARIANTS ReadsInOrder SizeOrZero InBounds Aligned HandedWhole DeliveredPrefix
CHECK_DEADLOCK FALSE
