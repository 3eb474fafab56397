SPECIFICATION FairSpec
CONSTANTS
  OutboundCapacity = 1
  LiveCapacity = 1
  Batch = 1
  Parts = 2
  MaxEvents = 2
  MaxPings = 1
  MaxFaults = 2
  NoCursor = NoCursor
  Unread = Unread
INVARIANTS
  TypeOK
PROPERTIES
  FeedPromise
  CatchesUp
CHECK_DEADLOCK FALSE
