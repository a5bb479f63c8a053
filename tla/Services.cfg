SPECIFICATION Spec
CONSTANTS
  q1 = q1
  q2 = q2
  r1 = r1
  r2 = r2
  k1 = k1
  k2 = k2
  t1 = t1
  t2 = t2
  t3 = t3
  p1 = p1
  p2 = p2
  p3 = p3
  u1 = u1
  u2 = u2
  c1 = c1
  c2 = c2
  i1 = i1
  n1 = n1
  n2 = n2
  NoUser = NoUser
INVARIANTS
  TypeOK
  
PROPERTIES
  RelaysAreOffered
  AccountsAreKept
  LimitsHold
  
CHECK_DEADLOCK FALSE
