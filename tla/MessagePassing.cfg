CONSTANTS
  N = 3
  Feature = {a, b}
  Graphs <- MCGraphs

SPECIFICATION Spec
CHECK_DEADLOCK FALSE

INVARIANTS
  SymmetriesPreserved
  ReceptiveField
