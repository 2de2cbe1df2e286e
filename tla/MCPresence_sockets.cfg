SPECIFICATION FairSpec
CONSTANTS
  Conns = {c1, c2}
  Instances = {i1, i2}
  None = None
CHECK_DEADLOCK FALSE
INVARIANTS
  OpenSocketsAreOnline
  NoGhosts
  AnnouncedIsTrue
PROPERTIES
  LastCloseIsAnnounced
