SPECIFICATION FairSpec
CONSTANTS
  MaxSignals = 2
  WorkThreads = 2
  Spurious = TRUE
INVARIANTS
  ServerAskedInTurn
  SleepsWithReason
  ExitTellsWhy
PROPERTIES
  StateOnlyAdvances
  AppExits
\* The process ends.
CHECK_DEADLOCK FALSE
