------------------------------- MODULE Message ------------------------------
(***************************************************************************)
(* The messages of internal/peerwire/message.go: constructors, parsers and *)
(* the length rules that ReadFrame applies before it allocates a payload.  *)
(* A byte is a number below Base, a uint32 is uint32Size bytes; both are   *)
(* parameters so that every declared length can be tried on a small scale. *)
(***************************************************************************)
EXTENDS Integers, SequencesExt

CONSTANTS
    Base,           \* values of a byte (256 in the code)
    uint32Size,     \* bytes of an integer on the wire (4)
    BitsPerByte,    \* pieces advertised by one byte of a bitfield (8)
    MaxBlockSize,   \* largest block of a Request or Piece (16 KiB)
    maxMsgLen       \* largest declared length (1 MiB)

\* The code's own constants satisfy this: every fixed-size message fits the
\* limit, and lengths above the limit can be declared.
ASSUME MessageAssumption ==
    /\ {Base, uint32Size, BitsPerByte, MaxBlockSize, maxMsgLen} \subseteq Nat \ {0}
    /\ Base > 9
    /\ 1 + 3 * uint32Size <= maxMsgLen
    /\ 1 + 2 * uint32Size + MaxBlockSize <= maxMsgLen
    /\ maxMsgLen < Base ^ uint32Size

MessageChoke == 0
MessageUnchoke == 1
MessageInterested == 2
MessageNotInterested == 3
MessageHave == 4
MessageBitfield == 5
MessageRequest == 6
MessagePiece == 7
MessageCancel == 8

Stateless == {MessageChoke, MessageUnchoke, MessageInterested, MessageNotInterested}

Message(id, payload) == [ID |-> id, Payload |-> payload]

-----------------------------------------------------------------------------
(* binary.BigEndian.                                                       *)

PutUint32(v) == [i \in 1..uint32Size |-> (v \div Base ^ (uint32Size - i)) % Base]

Uint32(b) == FoldLeft(LAMBDA high, low : high * Base + low, 0, b)

\* The k-th integer of a payload.
Field(payload, k) ==
    Uint32(SubSeq(payload, (k - 1) * uint32Size + 1, k * uint32Size))

Rest(payload, k) == SubSeq(payload, k * uint32Size + 1, Len(payload))

-----------------------------------------------------------------------------
(* Constructors.  "argument" is an error that concerns the caller only.    *)

Fails(e) == [err |-> e]
Built(m) == [err |-> "nil", message |-> m]

NewHave(pieceIndex) == Built(Message(MessageHave, PutUint32(pieceIndex)))

NewRequest(pieceIndex, begin, length) ==
    IF length \notin 1..MaxBlockSize THEN Fails("argument")
    ELSE Built(Message(MessageRequest,
                       PutUint32(pieceIndex) \o PutUint32(begin) \o PutUint32(length)))

NewPiece(pieceIndex, begin, block) ==
    IF Len(block) > MaxBlockSize THEN Fails("argument")
    ELSE Built(Message(MessagePiece, PutUint32(pieceIndex) \o PutUint32(begin) \o block))

-----------------------------------------------------------------------------
(* Parsers.  "malformed" is ErrMalformedFrame, "plain" any other error.    *)

ParseHave(m) ==
    IF m.ID # MessageHave THEN Fails("plain")
    ELSE IF Len(m.Payload) # uint32Size THEN Fails("malformed")
    ELSE [err |-> "nil", index |-> Uint32(m.Payload)]

ParseRequest(m) ==
    IF m.ID # MessageRequest THEN Fails("plain")
    ELSE IF Len(m.Payload) # 3 * uint32Size THEN Fails("malformed")
    ELSE IF Field(m.Payload, 3) \notin 1..MaxBlockSize THEN Fails("plain")
    ELSE [err |-> "nil", index |-> Field(m.Payload, 1),
          begin |-> Field(m.Payload, 2), length |-> Field(m.Payload, 3)]

ParsePiece(m) ==
    IF m.ID # MessagePiece THEN Fails("plain")
    ELSE IF Len(m.Payload) < 2 * uint32Size THEN Fails("malformed")
    ELSE IF Len(Rest(m.Payload, 2)) > MaxBlockSize THEN Fails("malformed")
    ELSE [err |-> "nil", index |-> Field(m.Payload, 1),
          begin |-> Field(m.Payload, 2), block |-> Rest(m.Payload, 2)]

-----------------------------------------------------------------------------
(* ReadFrame's checks on a declared length.                                *)

\* bitfieldByteCount
bitfieldByteCount(pieceCount) ==
    pieceCount \div BitsPerByte + (IF pieceCount % BitsPerByte # 0 THEN 1 ELSE 0)

Supported(id) == id <= MessageCancel

lengthAllowedNoPieceLimit(id, length, pieceCount) ==
    CASE id \in Stateless -> length = 1
      [] id = MessageHave -> length = 1 + uint32Size
      [] id = MessageBitfield -> length = 1 + bitfieldByteCount(pieceCount)
      [] id \in {MessageRequest, MessageCancel} -> length = 1 + 3 * uint32Size
      [] id = MessagePiece -> length >= 1 + 2 * uint32Size
      [] ~Supported(id) -> TRUE

\* The switch of ReadFrame on the message ID.
lengthAllowed(id, length, pieceCount) ==
    CASE id \in Stateless -> length = 1
      [] id = MessageHave -> length = 1 + uint32Size
      [] id = MessageBitfield -> length = 1 + bitfieldByteCount(pieceCount)
      [] id \in {MessageRequest, MessageCancel} -> length = 1 + 3 * uint32Size
      [] id = MessagePiece ->
             length \in (1 + 2 * uint32Size)..(1 + 2 * uint32Size + MaxBlockSize)
      [] ~Supported(id) -> TRUE
=============================================================================
