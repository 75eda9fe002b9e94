SPECIFICATION Spec
CONSTANTS
  c1 = c1
  c2 = c2
  Connections = {c1, c2}
  MaxRing = 2
  BufLen = 2
  MaxEvents = 4
CHECK_DEADLOCK FALSE
INVARIANT TypeOK
INVARIANT NoSendOnClosed
INVARIANT NothingSkipped
PROPERTY ImplementsFeed
PROPERTY PublishEnds
