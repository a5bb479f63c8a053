SPECIFICATION Spec
CONSTANTS
  t1 = t1
  t2 = t2
  t3 = t3
  i1 = i1
  m1 = m1
  m2 = m2
  k1 = k1
  k2 = k2
  a1 = a1
  a2 = a2
  NoTask = NoTask
  NoUuid = NoUuid
  NoPk = NoPk
  NoIp = NoIp
  NoRow = NoRow
  Loopback = lo
  Task <- MCTask
  Id <- MCId
  Uuid = {m1}
  Pk = {k1}
  Ip = {a1, a2, lo}
  Via = {"tcp", "proxy"}
  Failures = {}
  MaxCrash = 1
SYMMETRY AddressSymmetry
INVARIANTS
  AddressWasRegistered
CHECK_DEADLOCK FALSE
