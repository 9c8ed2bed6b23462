SPECIFICATION Spec
CONSTANTS
    p1 = p1
    p2 = p2
    p3 = p3
    Procs <- MCProcs
    Forced <- MCForced
    Indexes <- MCIndexes
    PieceLength = 4
    TorrentLength = 7
    MaxBlockSize = 2
    UintSize = 8
SYMMETRY UnforcedSymmetry
INVARIANTS
    OnlyVerifiedPublished
    CleanExit
PROPERTY
    NoOverwriteWithoutForce
