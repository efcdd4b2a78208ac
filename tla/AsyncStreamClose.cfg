SPECIFICATION Spec
CONSTANTS
  c1 = c1
  c2 = c2
  x1 = x1
  o1 = o1
  s1 = s1
  w1 = w1
  None = None
  End = End
  Consumers <- TwoConsumers
  Closers <- OneCloser
  Owners <- OneOwner
  Stoppers <- OneStopper
  Writers <- OneWriter
  Cancellable <- FirstConsumer
  Deadlined <- FirstConsumer
  Refusing <- Refusals
  LoopMayClose = TRUE
  QueueMax = 1
  MaxEvents = 2
CHECK_DEADLOCK FALSE
INVARIANTS
  ClosedHoldsNothing
  LiveIsOwned
  ParentHoldsNothing
  NoSilentLoss
  CloseWakesOne
