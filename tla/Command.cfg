SPECIFICATION CommandFairSpec
CONSTANTS
    ip1 = ip1
    ip2 = ip2
    mapped1 = mapped1
    IntSize = 16
    PortSize = 4
    Second = 3
    Ports <- mcPorts
    BaseQueries <- mcBaseQueries
    Responses <- mcResponses
    UintSize = 6
    hashLength = 2
    MaxPiecesBytes = 15
    MaxIndex = 8
    maxConcurrentDials = 2
    maxWaitingCandidates = 2
    Addresses = {ip1, ip2}
    mappedTo <- mcMappedTo
    Options <- mcOptions
    Followed <- mcFollowed
    DefaultFlags <- mcDefaultFlags
INVARIANTS
    PiecesTile
    RangeExact
    RequestExact
    ResponseExact
    PoolPreconditions
PROPERTIES
    AnnounceReturns
\* The command ends.
CHECK_DEADLOCK FALSE
