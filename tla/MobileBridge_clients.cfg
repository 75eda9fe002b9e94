SPECIFICATION Spec
CONSTANTS
  a = a
  b = b
  Callers = {a, b}
  MaxSessions = 2
  WithPi = {1}
  RateLimit = 1
  HistoryCap = 1
INVARIANT TypeOK
INVARIANT ClientNotPulled
PROPERTY CallsReturn
