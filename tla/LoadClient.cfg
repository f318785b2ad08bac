SPECIFICATION FairSpec
CONSTANTS
  MaxCount = 2
  BufferSize = 3
  Endpoints = 2
  MaxAttempts = 2
  SessionCount = 2
  BlockSize = 1
  MaxTotal = 3
INVARIANTS
  OutstandingExact
  EchoKeepsGoing
  StatsExact
PROPERTY
  ClientEnds
