SPECIFICATION Spec
CONSTANTS
  KeyNames = {"A", "Power", "Wake", "AltPrtSc", "F7", "CtrlPause"}
  Slots = 6
  KeyAt <- keymaps
  KbufRoom = 2
  QueueRoom = 8
  MaxEvents = 3
  MaxErrors = 1
  Suspends = TRUE
INVARIANTS MatrixTracksKeys SystemReleased HostReads
