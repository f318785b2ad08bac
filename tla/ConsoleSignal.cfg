SPECIFICATION Spec
CONSTANTS
  None = None
  Guards = {guard}
  Users = {user}
  Objects = {o1, o2}
  Handlers = {h1, h2}
  Signals = {t1, t2}
  Threads <- MCThreads
  Values = {1, 2}
  MaxQueued = 2
INVARIANTS
  OneInstance
  SignalsNotLost
  DeliversToTheLiving
