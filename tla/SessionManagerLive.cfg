SPECIFICATION FairSpec
CONSTANTS
  MaxSessions = 2
  RecycledSessionCount = 0
  MaxStopping = 1
  Faults <- SingleFaults
PROPERTIES
  StopAnswered
