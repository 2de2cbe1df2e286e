SPECIFICATION Spec
CONSTANTS
  Conns = {c1, c2}
  Channels = {presence, r1}
  Handlers = {h1, h2, h3}
  Presence = presence
  NoSet = NoSet
  NoEntry = NoEntry
  UNSUBSCRIBE = UNSUBSCRIBE
CHECK_DEADLOCK FALSE
SYMMETRY Symmetry
INVARIANTS
  ReachedUnlessRejected
