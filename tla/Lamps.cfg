SPECIFICATION FairSpec
CONSTANTS
  Locks = {"num", "caps", "scroll"}
  Window = 1
  LightAfter = 1
  CounterSize = 2
  TokensPerTick = 1
  MaxStrokes = 2
  MaxSleeps = 1
INVARIANTS NotSuspendedWhilePolled LightComesBack
PROPERTIES LocksSettle EveryStrokeCounts SleepNoticed
CHECK_DEADLOCK FALSE
