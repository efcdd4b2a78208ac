SPECIFICATION FairSpec
CONSTANTS
  cb = cb
  qu = qu
  twin = twin
  p1 = p1
  fact = fact
  w1 = w1
  w2 = w2
  m1 = m1
  r1 = r1
  Folds <- BothTwins
  Plain = {}
  Queued = {}
  FactOf <- TwinsFact
  QueueMax = 1
  Writers <- TwoWriters
  Managers <- OneManager
  Waiters = {}
  Cancelling <- TwoWriters
  Failing <- BothTwins
  Collected <- OneTwin
  MaxWrites = 1
  NoThread = NoThread
  NoFold = NoFold
CHECK_DEADLOCK FALSE
INVARIANTS
  ReflectionIsExact

  
