SPECIFICATION Spec
CONSTANTS
  own = own
  bor = bor
  q1 = q1
  q2 = q2
  user = user
  Conns <- Pair
  Owner = own
  Requests <- PairRequests
  Releases = {}
  ConnOf <- PairConnOf
  Scoped <- Second
  Stoppers <- Solo
  Users = {}
  NoReq = NoReq
  Stop = Stop
CHECK_DEADLOCK FALSE
INVARIANTS
  TypeOK
  SignalsAimAtCurrent
  AcceptedIsOwed
PROPERTIES
  BorrowersAreIsolated
