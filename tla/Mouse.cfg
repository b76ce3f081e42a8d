SPECIFICATION FairSpec
CONSTANTS
  Motions <- MCMotions
  PbufRoom = 6
  MbufRoom = 1
  CounterSize = 11
  MaxPackets = 3
  MaxEarly = 1
  MaxFaults = 1
  MaxControls = 2
INVARIANTS AnswersInStep NeverWaits CounterLags ReportsExact HostReads
PROPERTIES AllReported SystemKeyTold
CHECK_DEADLOCK FALSE
