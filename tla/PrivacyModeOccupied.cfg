SPECIFICATION Spec
CONSTANTS
    Conns = {"c1", "c2"}
    Impls = {"exclude"}
    Slow = {}
    Tested = {}
    HostKeys = FALSE
    NoConn = NoConn
PROPERTIES
    NobodyElseTurnsOff
