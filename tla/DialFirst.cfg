SPECIFICATION DFairSpec
CONSTANTS
    a1 = a1
    a2 = a2
    Addrs = {a1, a2}
    uniqueAddrs <- mcAddrs
    Workers = {w1, w2}
    Clients = {g1}
    main = g1
    Tracked = a1
    maxWaitingCandidates = 1
    None = None
INVARIANTS
    ReturnedUsable
    NothingLeft
PROPERTIES
    DialFirstReturns
CHECK_DEADLOCK FALSE
