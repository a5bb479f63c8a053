SPECIFICATION Spec
CONSTANTS
  h1 = h1
  h2 = h2
  NoHost = NoHost
  i1 = i1
  i2 = i2
  i3 = i3
  f1 = f1
  f2 = f2
  NoEnd = NoEnd
  j1 = j1
  j2 = j2
  s1 = s1
  s2 = s2
  t1 = t1
  t2 = t2
  t3 = t3
  d1 = d1
  d2 = d2
  d3 = d3
  NoConn = NoConn
INVARIANTS
  TypeOK
  LoginsAreBounded
PROPERTIES
  HostsAreReached
  FilesArriveWhole
  OutputIsComplete
  ViewersShare
CHECK_DEADLOCK FALSE
