SPECIFICATION Spec
CONSTANTS
  t1 = t1
  t2 = t2
  w1 = w1
  w2 = w2
  u1 = u1
  u2 = u2
  NoConn = NoConn
  NoUuid = NoUuid
  NoKey = NoKey
  ServerKey = NoKey
  Key = {}
  Conn <- MCConn
  Uuid <- MCUuid
  Ws <- MCWs
  Usage <- MCUsage
  UsageId <- MCUsageId
  Window = 1
SYMMETRY Symmetry
INVARIANTS
  UsageHasRelay
  RelayHasUsage
CHECK_DEADLOCK FALSE
