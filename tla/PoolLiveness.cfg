SPECIFICATION FairSpec
CONSTANTS
    a1 = a1
    a2 = a2
    a3 = a3
    Addrs <- MCAddrs
    uniqueAddrs <- TwoAddrs
    Workers = {w1, w2}
    Clients = {g1, g2}
    maxWaitingCandidates = 1
    None = None
PROPERTIES
    CloseTerminates
    NextReturns
    GoroutinesExit
    ImplementsDiscovery
