SPECIFICATION Spec
CONSTANTS
  add = add
  inner = inner
  None = None
  Stop = Stop
  Mutations <- Both
  Direct <- Inner
  Supplied <- Inner
  TTL = 2
  Limit = 1
  MaxTime = 3
  MaxAttempts = 2
  MaxDepth = 2
  MaxInstances = 2
CHECK_DEADLOCK FALSE
INVARIANTS
  LedgerIsPrunable
  WaitersAreOwed
  SignalIsAimed
PROPERTIES
  AtMostOnce
  AnswersAreRetained
