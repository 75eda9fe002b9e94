SPECIFICATION Spec
CONSTANTS
  p1 = p1
  p2 = p2
  p3 = p3
  Profiles = {p1, p2, p3}
  NoProfile = NoProfile
  OwnProcess = FALSE
  SwitchRate = 1
  MaxConsults = 3
CHECK_DEADLOCK FALSE
INVARIANT TypeOK
INVARIANT OwnAnswer
PROPERTY NeverBlocks
