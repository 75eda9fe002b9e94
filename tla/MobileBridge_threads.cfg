SPECIFICATION Spec
CONSTANTS
  a = a
  b = b
  Callers = {a, b}
  MaxSessions = 3
  WithPi = {}
  RateLimit = 1
  HistoryCap = 1
INVARIANT NoDoubleClose
INVARIANT NoOrphanLoop
INVARIANT SingleLoop
PROPERTY ImplementsLifecycle
