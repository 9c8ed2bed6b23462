SPECIFICATION Spec
CONSTANTS
    MaxPieceCount = 10
    PieceCounts <- mcPieceCounts
    Bytes <- mcBytes
INVARIANTS
    WrittenIsParsable
PROPERTIES
    ImplementsPieceSet
