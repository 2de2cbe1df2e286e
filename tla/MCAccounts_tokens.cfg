SPECIFICATION Spec
CONSTANTS
  Emails = {e1, e2}
  Passwords = {w1, w2}
  Tokens = {t1, t2, t3}
  Requests = {p1, p2}
  None = None
SYMMETRY Symmetry
CHECK_DEADLOCK FALSE
INVARIANTS
  VerifiedByMail
  UsedTokensTakeEffect
PROPERTIES
  TokensAreOneTime
