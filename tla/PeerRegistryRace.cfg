SPECIFICATION Spec
CONSTANTS
  t1 = t1
  t2 = t2
  t3 = t3
  i1 = i1
  m1 = m1
  m2 = m2
  k1 = k1
  k2 = k2
  a1 = a1
  a2 = a2
  NoTask = NoTask
  NoUuid = NoUuid
  NoPk = NoPk
  NoIp = NoIp
  NoRow = NoRow
  Loopback = lo
  Task <- MCTask
  Id <- MCId
  Uuid <- MCUuid
  Pk <- MCPk
  Ip <- MCIp
  Via = {"tcp"}
  Failures = {"read", "write"}
  MaxCrash = 1
SYMMETRY Symmetry
PROPERTIES
  RowKeepsOwner
  OwnershipIsStable
CHECK_DEADLOCK FALSE
