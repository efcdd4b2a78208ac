SPECIFICATION Spec
CONSTANTS
  s1 = s1
  s2 = s2
  s3 = s3
  None = None
  Marker = Marker
  Streams <- Three
  Stubborn <- Second
  BoundsOf <- Bounds
  Answers = 3
  Batch = 2
  Idle = 1
  Limit = 2
  MaxTime = 2
  MaxRequests <- Requests321
CHECK_DEADLOCK FALSE
INVARIANTS
  EnginesAreOwned
  EndIsComplete
  ClosedIsReleased
  ClosedServerHoldsNothing
PROPERTIES
  NeverClosedUnderPull
