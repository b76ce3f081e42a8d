SPECIFICATION FairSpec
CONSTANTS
  Bytes <- MCOneByte
  Capacity = 1
  MaxFrames = 2
  MaxLost = 1
  MaxOvertaken = 0
PROPERTIES LatchReleased EveryByteDecoded
