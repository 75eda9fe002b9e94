SPECIFICATION Spec
CONSTANTS
  None = None
  Statuses = {"connecting", "connected"}
  Story <- ThreeEvents
  Backlog = 2
  MaxShown = 2
  Limit = 2
  MaxStarts = 1
INVARIANT TypeOK
INVARIANT TimelineInOrder
INVARIANT NoHole
PROPERTY StatusShows
PROPERTY NewestShows
