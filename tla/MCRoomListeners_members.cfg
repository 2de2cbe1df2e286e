SPECIFICATION ListenersSpec
CONSTANTS
  RoomIds = {r1}
  Users = {u1, u2, u3}
  Requests = {p1, p2}
  MaxListeners = 1
  None = None
  Gone = Gone
SYMMETRY Symmetry
CHECK_DEADLOCK FALSE
INVARIANTS
  HeardByItsMembers
  DmIsPrivate
  CreatedRoomsAreWhole
  CreatedDmIsUsable
PROPERTIES
  OwnersOnlyLeave
