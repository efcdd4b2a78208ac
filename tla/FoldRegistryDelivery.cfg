SPECIFICATION Spec
CONSTANTS
  cb = cb
  qu = qu
  twin = twin
  p1 = p1
  fact = fact
  w1 = w1
  w2 = w2
  m1 = m1
  r1 = r1
  Folds <- CallbackAndPlain
  Plain <- QueueAndPlain
  Queued <- OneQueue
  FactOf <- CallbackFact
  QueueMax = 1
  Writers <- TwoWriters
  Managers <- OneManager
  Waiters <- OneReader
  Cancelling <- OneWriter
  Failing <- OneCallback
  Collected = {}
  MaxWrites = 1
  NoThread = NoThread
  NoFold = NoFold
CHECK_DEADLOCK FALSE
INVARIANTS
  CancelledIsQuiet
  NoLostWakeup
  EveryEventOnce
PROPERTIES
  RestoredInPlace
