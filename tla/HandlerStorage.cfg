SPECIFICATION Spec
CONSTANTS
  Storages = {s1, s2}
  Handlers = {h1, h2, h3}
  Null = Null
SYMMETRY Symmetry
INVARIANTS
  DestroyedOnce
  StoragesSound
  WorkUntilCalled
CHECK_DEADLOCK FALSE
