SPECIFICATION TFairSpec
CONSTANTS
    pieceCount = 2
    MaxBlockSize = 2
    UintSize = 8
    Lengths = {3}
    MaxCalls = 3
    MaxChokes = 2
INVARIANT ViewsConverge
PROPERTIES HonestPeerNotBlamed CallAnswered
\* The program stops when its calls have returned.
CHECK_DEADLOCK FALSE
