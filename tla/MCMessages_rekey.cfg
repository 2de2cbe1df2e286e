SPECIFICATION Spec
CONSTANTS
  Rooms = {r1, r2}
  Users = {u1, u2}
  Admins = {u2}
  Keys = {k}
  Bodies = {b1, b2}
  Blank = Blank
  Requests = {p1}
  None = None
  PageSize = 1
  MaxSends = 2
  Operations = {"rekey"}
SYMMETRY Symmetry
CHECK_DEADLOCK FALSE
INVARIANTS
  EventsStayInTheirRoom
