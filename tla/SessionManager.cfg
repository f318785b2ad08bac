SPECIFICATION Spec
CONSTANTS
  MaxSessions = 3
  RecycledSessionCount = 1
  MaxStopping = 2
  Faults <- SingleFaults
INVARIANTS
  PendingAccounted
  AcceptsWhileRoom
  SessionsAttended
  StopReachesEverySession
  RequestsInTurn
  ReportedOnce
PROPERTIES
  ImplementsContract
