SPECIFICATION Spec
CONSTANTS
  Tokens = {t1, t2, t3}
  Requests = {p1, p2}
  None = None
  Grace = TRUE
  MaxResets = 1
SYMMETRY Symmetry
CHECK_DEADLOCK FALSE
INVARIANTS
  LinksAreExact
  ResetEndsOldSessions
  ExchangedTokenIsLinked
  ExchangedOnce
  OneUsableToken
  ReplayEndsFamily
PROPERTIES
  DeadFamiliesStayDead
