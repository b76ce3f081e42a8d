SPECIFICATION Spec
CONSTANTS
  KeyNames = {"A"}
  Slots = 2
  KeyAt <- keymaps
  KbufRoom = 2
  QueueRoom = 4
  MaxEvents = 2
  MaxErrors = 1
  Suspends = FALSE
PROPERTY OverrunReleasesAll
