SPECIFICATION Spec
CONSTANTS
  charge = charge
  book = book
  None = None
  Receipts <- Both
  Host <- OnlyCharge
  Losing <- Anywhere
  Repeats <- ChargeTwice
  MaxStep = 2
  MaxForeign = 1
  MaxScopes = 2
CHECK_DEADLOCK FALSE
INVARIANTS
  EffectsAreOwed
  ReversedOnce
  JournalledIsStored
PROPERTIES
  RetryIsCalledFor
