SPECIFICATION FairSpec
CONSTANTS
  Conns = {c1, c2}
  Channels = {presence, r1}
  Handlers = {h1, h2, h3}
  Presence = presence
  NoSet = NoSet
  NoEntry = NoEntry
  UNSUBSCRIBE = UNSUBSCRIBE
CHECK_DEADLOCK FALSE
INVARIANTS
  TypeOK
  SubsMirrorRooms
  BusInStep
  ReachedDespiteRaces
  NeverTwice
  RefCountIsSubscribers
  NothingLeaks
PROPERTIES
  SubscriptionTakesEffect
  ImplementsFeed
