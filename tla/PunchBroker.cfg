SPECIFICATION FairSpec
CONSTANTS
  v = v
  p = p
  q = q
  h = h
  NoConn = NoConn
  NoAddr = NoAddr
  Conn <- MCConn
  Ws <- MCWs
  Addr <- MCAddr
  AddrOf <- MCAddrOf
  Host <- MCHost
  MaxTries = 3
INVARIANTS
  OneMessagePerSink
  WaitingIsOpen
  AnswerReachesAsker
PROPERTIES
  LeavesForAReason
  WaitingEnds
CHECK_DEADLOCK FALSE
