SPECIFICATION FairSpec
CONSTANTS
  h1 = h1
  h2 = h2
  NoHost = NoHost
  i1 = i1
  i2 = i2
  i3 = i3
  f1 = f1
  NoEnd = NoEnd
  j1 = j1
  j2 = j2
  s1 = s1
  t1 = t1
  t2 = t2
  t3 = t3
  k1 = k1
  r1 = r1
  r2 = r2
  c1 = c1
  n1 = n1
  u1 = u1
  NoUser = NoUser
  d1 = d1
  d2 = d2
PROPERTIES
  HostsComeBack
  EverythingEnds
  ListsFollow
  PicturesReturn
CHECK_DEADLOCK FALSE
