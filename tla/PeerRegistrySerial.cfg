SPECIFICATION Spec
CONSTANTS
  t1 = t1
  t2 = t2
  t3 = t3
  i1 = i1
  m1 = m1
  m2 = m2
  k1 = k1
  k2 = k2
  a1 = a1
  a2 = a2
  NoTask = NoTask
  NoUuid = NoUuid
  NoPk = NoPk
  NoIp = NoIp
  NoRow = NoRow
  Loopback = a2
  Task <- MCTask
  Id <- MCId
  Uuid <- MCUuid
  Pk <- MCPk
  Ip <- MCIp
  Via = {"udp"}
  Failures = {}
  MaxCrash = 1
SYMMETRY SerialSymmetry
INVARIANTS
  RowIsOneRequest
  AcceptedIsStored
CHECK_DEADLOCK FALSE
