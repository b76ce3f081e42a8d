SPECIFICATION Spec
CONSTANTS
  KeyNames = {"A", "LShift", "Right", "ShiftRight", "NumLock", "CapsLock"}
  Slots = 2
  KeyAt <- keymaps
  KbufRoom = 2
  QueueRoom = 8
  MaxEvents = 4
  MaxErrors = 1
  Suspends = FALSE
INVARIANTS MatrixTracksKeys ReportTracksMatrix
