SPECIFICATION Spec
CONSTANTS
  LastId = 3
  Contents = {v1, v2}
  Processes = {p1, p2, p3}
  None = None
SYMMETRY Symmetry
CHECK_DEADLOCK FALSE
INVARIANTS
  AppliedInOrder
  EndsWithItsFiles
