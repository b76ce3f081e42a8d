SPECIFICATION FairSpec
CONSTANTS
  KeyNames = {"A", "LShift", "ShiftRight", "Pause"}
  Slots = 2
  KeyAt <- keymaps
  KbufRoom = 2
  QueueRoom = 2
  MaxEvents = 3
  MaxErrors = 0
  Suspends = FALSE
PROPERTY HostConverges
