SPECIFICATION FairSpec
CONSTANTS
  BufferSize = 4
  MaxTransfer = 3
  Timeouts = {TRUE, FALSE}
  MaxBytes = 10
  Faults <- SingleFaults
INVARIANTS
  OperationsAccounted
  TransfersOwnTheirCells
  EchoFaithful
  TimerWatchesTransfers
PROPERTIES
  RecycledIsNew
  ImplementsContract
  SilentPeerDropped
