SPECIFICATION Spec
CONSTANTS
  Rooms = {r1, r2}
  Users = {u1, u2}
  Admins = {u2}
  Keys = {k}
  Bodies = {b1}
  Blank = Blank
  Requests = {p1, p2}
  None = None
  PageSize = 1
  MaxSends = 2
  Operations = {"read", "drop", "delete"}
SYMMETRY Symmetry
CHECK_DEADLOCK FALSE
INVARIANTS
  AnswersTheMessageOfTheKey
  EventsStayInTheirRoom
  ReadPointersInRoom
