SPECIFICATION Spec
CONSTANTS
  Canonical = v4
  Mapped = v6
  Ip = {v4, v6}
  Second = 2
  IdleLimit = 4
  Period = 3
  StartCheck = 1
  Threshold = 1
  MaxTotal = 3
  MaxLife = 11
INVARIANTS
  SilenceIsBounded
  ListsTakeEffect
PROPERTIES
  DowngradeIsEarned
CHECK_DEADLOCK FALSE
