SPECIFICATION FairSpec
CONSTANTS
    Base = 16
    uint32Size = 2
    BitsPerByte = 4
    MaxBlockSize = 2
    maxMsgLen = 8
    Handshakes <- mcHandshakes
    protocolName <- mcProtocolName
    fieldSize <- mcFieldSize
    infoHash <- mcInfoHash
    PieceCounts <- mcPieceCounts
    Constructed <- mcConstructed
    Foreign <- mcForeign
    MaxFrames = 2
    Continue <- mcContinue
INVARIANTS
    HandshakeExact
    ProgressReported
    CheckedBeforeAllocation
PROPERTIES
    FrameDelivered
    ImplementsFraming
CHECK_DEADLOCK FALSE
