SPECIFICATION Spec
CONSTANTS
  Bytes <- MCBytes
  Capacity = 2
  MaxFrames = 2
  MaxLost = 2
  MaxOvertaken = 1
INVARIANTS TypeOK ExactReception NoFabrication LatchVisible InhibitTracksFrame
