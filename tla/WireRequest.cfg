SPECIFICATION Spec
CONSTANTS
    Base = 16
    uint32Size = 2
    BitsPerByte = 4
    MaxBlockSize = 2
    maxMsgLen = 8
    Handshakes <- mcValid
    protocolName <- mcProtocolName
    fieldSize <- mcFieldSize
    infoHash <- mcInfoHash
    PieceCounts <- mcOnePieceCount
    Constructed <- mcNone
    Foreign <- mcRequests
    MaxFrames = 1
    Continue <- mcNone
INVARIANT RefusedPayloadsAreMalformed
CHECK_DEADLOCK FALSE
