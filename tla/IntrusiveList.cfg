SPECIFICATION ListSpec
CONSTANTS
  Nodes = {n1, n2, n3, n4}
  Lists = {a, b}
  Nil = Nil
INVARIANTS
  LinkedBothWays
PROPERTIES
  ImplementsLists
