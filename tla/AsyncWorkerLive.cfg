SPECIFICATION FairSpec
CONSTANTS
  own = own
  bor = bor
  q1 = q1
  q2 = q2
  user = user
  Conns <- Solo
  Owner = own
  Requests <- PairRequests
  Releases <- Second
  ConnOf <- SoloConnOf
  Scoped = {}
  Stoppers <- Solo
  Users <- OneUser
  NoReq = NoReq
  Stop = Stop
CHECK_DEADLOCK FALSE
PROPERTIES
  CloseSettlesRequests
  ClosedWorkerEnds
