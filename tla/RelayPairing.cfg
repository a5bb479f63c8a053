SPECIFICATION FairSpec
CONSTANTS
  c1 = c1
  c2 = c2
  c3 = c3
  u1 = u1
  u2 = u2
  k1 = k1
  k2 = k2
  i1 = i1
  i2 = i2
  i3 = i3
  NoConn = NoConn
  NoUuid = NoUuid
  NoKey = NoKey
  ServerKey = k1
  Conn <- MCConn
  Uuid <- MCUuid
  Key <- MCKey
  Ws <- MCWs
  Usage <- MCUsage
  UsageId <- MCUsageId
  Window = 2
INVARIANTS
  SleeperOwnsSlot
  ExclusiveRelay
  RelayIsLegitimate
PROPERTIES
  LosesSlotOnlyToNamesake
  ParkedLeaves
  KeepsPromise
CHECK_DEADLOCK FALSE
