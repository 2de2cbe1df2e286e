SPECIFICATION Spec
CONSTANTS
  Rooms = {r1}
  Users = {u1}
  Admins = {}
  Keys = {k}
  Bodies = {b1, b2}
  Blank = Blank
  Requests = {p1, p2}
  None = None
  PageSize = 1
  MaxSends = 2
  Operations = {"edit", "delete", "crash", "list", "leave"}
SYMMETRY Symmetry
CHECK_DEADLOCK FALSE
INVARIANTS
  ReadersCatchUp
  DeletedIsBlank
  ListedByLatest
PROPERTIES
  DeletedStaysDeleted
