SPECIFICATION FairSpec
CONSTANTS
  PacketSize = 2
  Reads <- MCReads
  Kinds <- AllKinds
  Endpoints = {1}
  MaxRequests = 4
  MaxReports = 3
  MaxFaults = 1
  MaxBreaks = 2
INVARIANTS TypeOK OwnData AnsweredInFull AddressAgrees LampsAsTold LossBounded
PROPERTIES ImplementsMailboxes TransferEnds
