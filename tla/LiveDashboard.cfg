SPECIFICATION Spec
CONSTANTS
  None = None
  small = small
  large = large
  Snapshots <- AnyReport
  Thresholds <- TwoThresholds
  Default = 20
  Regions = {small, large}
INVARIANT TypeOK
INVARIANT OneFeed
INVARIANT RedactedNeverShown
PROPERTY FeedComesBack
