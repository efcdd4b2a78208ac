SPECIFICATION FairSpec
CONSTANTS
  cb = cb
  qu = qu
  twin = twin
  p1 = p1
  fact = fact
  w1 = w1
  w2 = w2
  m1 = m1
  r1 = r1
  Folds <- OneCallback
  Plain = {}
  Queued = {}
  FactOf <- CallbackFact
  QueueMax = 1
  Writers <- TwoWriters
  Managers <- OneManager
  Waiters = {}
  Cancelling <- TwoWriters
  Failing = {}
  Collected = {}
  MaxWrites = 1
  NoThread = NoThread
  NoFold = NoFold
CHECK_DEADLOCK FALSE
PROPERTIES
  OwnCancelIsSafe
