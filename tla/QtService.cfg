SPECIFICATION FairSpec
CONSTANTS
  MaxServants = 2
  WorkThreads = 2
INVARIANTS
  EveryCallAnswered
PROPERTIES
  StopsWhenOver
\* The user may start the service no more.
CHECK_DEADLOCK FALSE
