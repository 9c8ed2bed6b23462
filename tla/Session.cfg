SPECIFICATION Spec
CONSTANTS
    pieceCount = 2
    MaxBlockSize = 2
    UintSize = 8
    Lengths = {0, 1, 4, 7}
INVARIANTS
    RequestsOnlyWhenServed
    BlocksTilePiece
    BlocksAnswerRequests
PROPERTIES
    PiecesNeverForgotten
\* An unusable session stops.
CHECK_DEADLOCK FALSE
