SPECIFICATION Spec
CONSTANTS
  Ip = {p1}
  Id = {i1, i2, i3, i4, i5}
  Window = 2
  Burst = 2
  Day = 5
  IdLimit = 2
INVARIANTS
  BurstIsBounded
  NewIdsAreBounded
  BlocksExpire
