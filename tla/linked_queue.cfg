CONSTANTS
  Node = {n1, n2, n3, n4}
  Data = {d1, d2, d3}
  NULL = NULL
SPECIFICATION Spec
SYMMETRY Symmetry
INVARIANTS
  WellFormed
  CursorsInList
PROPERTIES
  OperationsMeetQueue
  NodesLostOnlyBySweep
