SPECIFICATION Spec
CONSTANTS
  Tickets = {t1, t2}
  Upgrades = {p1, p2, p3}
  None = None
SYMMETRY Symmetry
CHECK_DEADLOCK FALSE
INVARIANTS
  OneSocketPerTicket
