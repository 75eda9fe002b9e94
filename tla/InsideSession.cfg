SPECIFICATION Spec
CONSTANTS
  MaxAttempts = 7
  SwitchLimit = 6
  MaxRuns = 2
CHECK_DEADLOCK FALSE
INVARIANT TypeOK
INVARIANT NoStrayBox
INVARIANT NoAttemptAnswersForAnother
