SPECIFICATION Spec
CONSTANTS
  MaxSessions = 1
  RecycledSessionCount = 0
  MaxStopping = 1
  Faults <- SingleFaults
INVARIANTS
  StopNeverRefused
