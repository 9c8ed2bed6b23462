-------------------------------- MODULE Wire --------------------------------
(***************************************************************************)
(* One direction of a peer connection as a stream of bytes: Message.WriteTo*)
(* and writeFull put bytes on it with short and failing writes,            *)
(* ReadHandshake and ReadFrame take them off in pieces of any size         *)
(* (internal/peerwire/handshake.go, message.go, write.go).                 *)
(*                                                                         *)
(* The sender is either this package or another implementation, which may  *)
(* send unknown messages and frames that violate the format.               *)
(***************************************************************************)
EXTENDS Message, FiniteSetsExt

CONSTANTS
    Handshakes,     \* handshakes a sender may open with, as [len, name, ...]
    protocolName,   \* its bytes
    fieldSize,      \* sizes of Reserved, InfoHash and PeerID, as a record
    infoHash,       \* the torrent the reader joins
    PieceCounts,    \* piece counts of that torrent
    Constructed,    \* results of the constructors the sender calls
    Foreign,        \* frames of other implementations: [length, id, body]
    MaxFrames,      \* bound on the frames sent
    Continue        \* bound: only after these frames is another one sent

Byte == 0..(Base - 1)

\* The fields of a handshake have the sizes that its first byte and the protocol
\* declare, and everything on the wire is bytes.
ASSUME WireAssumption ==
    /\ PieceCounts \subseteq Nat /\ protocolName \in Seq(Byte)
    /\ {fieldSize.Reserved, fieldSize.InfoHash, fieldSize.PeerID} \subseteq Nat
    /\ \A h \in Handshakes :
           /\ h.len \in Byte
           /\ {h.name, h.Reserved, h.InfoHash, h.PeerID} \subseteq Seq(Byte)
           /\ Len(h.name) = h.len /\ Len(h.Reserved) = fieldSize.Reserved
           /\ Len(h.InfoHash) = fieldSize.InfoHash /\ Len(h.PeerID) = fieldSize.PeerID
    /\ \A r \in Constructed :
           r.err = "nil" => r.message.ID \in Byte /\ r.message.Payload \in Seq(Byte)
    /\ \A f \in Foreign : f.length \in Nat /\ f.id \in Byte /\ f.body \in Seq(Byte)

VARIABLES
    pieceCount,
    hs, sent,       \* history: the handshake and the frames whose writing began
    wpc,            \* "idle", "writing", "failed" or "closed"
    data, written,  \* the locals of writeFull
    start,          \* history: bytes on the stream when the last call began
    ret,            \* what the last write call returned: [n, err]
    bytes, pos,     \* all bytes put on the stream, and how many were read
    rpc,            \* the io.ReadFull the reader is in, "failed" after an error
    buf,            \* the bytes that call has read
    length, id,     \* locals of ReadFrame
    remote,         \* the handshake ReadHandshake returned
    received,       \* the frames ReadFrame returned
    rerr            \* the error that ended reading

writerVars == <<hs, sent, wpc, data, written, start, ret>>
readerVars == <<pos, rpc, buf, length, id, remote, received, rerr>>
vars == <<pieceCount, writerVars, bytes, readerVars>>

-----------------------------------------------------------------------------
(* Handshake.bytes and its inverse.                                        *)

lenProtocolName == Len(protocolName)
handshakeSize == 1 + lenProtocolName + fieldSize.Reserved + fieldSize.InfoHash + fieldSize.PeerID

HandshakeBytes(h) == <<h.len>> \o h.name \o h.Reserved \o h.InfoHash \o h.PeerID

ParseRestForgetsReserved(rest) ==
    LET At(offset, size) == SubSeq(rest, offset + 1, offset + size)
    IN  [Reserved |-> At(lenProtocolName, fieldSize.Reserved),
         InfoHash |-> At(lenProtocolName, fieldSize.InfoHash),
         PeerID |-> At(lenProtocolName + fieldSize.InfoHash, fieldSize.PeerID)]

\* The copies at the end of ReadHandshake.
ParseRest(rest) ==
    LET At(offset, size) == SubSeq(rest, offset + 1, offset + size)
        hash == lenProtocolName + fieldSize.Reserved
    IN  [Reserved |-> At(lenProtocolName, fieldSize.Reserved),
         InfoHash |-> At(hash, fieldSize.InfoHash),
         PeerID |-> At(hash + fieldSize.InfoHash, fieldSize.PeerID)]

-----------------------------------------------------------------------------
(* Frames.                                                                 *)

KeepAlive == [kind |-> "keepAlive"]
Unsupported == [kind |-> "unsupported"]
Malformed == [kind |-> "malformed"]
MessageFrame(m) == [kind |-> "message", message |-> m]

FrameBytes(declared, m) == PutUint32(declared) \o <<m.ID>> \o m.Payload

\* Whether m obeys the format that the parsers of the message define.
Parses(m) ==
    CASE m.ID \in Stateless -> m.Payload = <<>>
      [] m.ID = MessageHave -> ParseHave(m).err # "malformed"
      [] m.ID = MessageBitfield -> Len(m.Payload) = bitfieldByteCount(pieceCount)
      [] m.ID = MessageRequest -> ParseRequest(m).err # "malformed"
      [] m.ID = MessageCancel -> ParseRequest(Message(MessageRequest, m.Payload)).err # "malformed"
      [] m.ID = MessagePiece -> ParsePiece(m).err # "malformed"
      [] ~Supported(m.ID) -> TRUE

\* What a complete frame means to its receiver.
Meaning(declared, m) ==
    IF declared > maxMsgLen \/ ~Parses(m) THEN Malformed
    ELSE IF Supported(m.ID) THEN MessageFrame(m) ELSE Unsupported

-----------------------------------------------------------------------------
(* Writing.                                                                *)

\* The reader has not given up; what is sent after that reaches nobody.
Connected == rpc # "failed"

Begin(f, b) ==
    /\ wpc = "idle" /\ Connected
    /\ Len(sent) < MaxFrames /\ \A k \in DOMAIN sent : sent[k] \in Continue
    /\ sent' = Append(sent, f) /\ data' = b /\ written' = 0 /\ wpc' = "writing"
    /\ start' = Len(bytes)
    /\ UNCHANGED <<pieceCount, hs, ret, bytes, readerVars>>

Returns(n, e) == ret' = [n |-> n, err |-> e]

RefuseCall ==
    /\ wpc = "idle" /\ Returns(0, "argument") /\ start' = Len(bytes)
    /\ UNCHANGED <<pieceCount, hs, sent, wpc, data, written, bytes, readerVars>>

tooLong(m) == Len(m.Payload) >= maxMsgLen

\* Message.WriteTo, up to its call of writeFull.
WriteTo(m) ==
    IF tooLong(m) THEN RefuseCall
    ELSE Begin(MessageFrame(m), FrameBytes(1 + Len(m.Payload), m))

\* WriteHave, WriteRequest and WritePiece.
WriteConstructed(r) == IF r.err # "nil" THEN RefuseCall ELSE WriteTo(r.message)

\* WriteChoke, WriteUnchoke, WriteInterested and WriteNotInterested.
WriteStateless(i) == WriteTo(Message(i, <<>>))

\* WriteBitfield, for a Bitfield made for this torrent.
WriteBitfield ==
    WriteTo(Message(MessageBitfield, [i \in 1..bitfieldByteCount(pieceCount) |-> 0]))

WriteKeepAlive == Begin(KeepAlive, PutUint32(0))

\* A frame of another implementation, of the declared length.
WriteForeign(f) ==
    LET m == Message(f.id, f.body)
    IN  Begin(Meaning(f.length, m), FrameBytes(f.length, m))

Put(n) == bytes' = bytes \o SubSeq(data, written + 1, written + n)

FailKeepingCount(n) == written' = written + n /\ wpc' = "failed" /\ Returns(written, "io")

FailCounting(n) == written' = written + n /\ wpc' = "failed" /\ Returns(written + n, "io")

\* w.Write inside writeFull takes n bytes without an error.
WriteSome(n) ==
    /\ wpc = "writing" /\ Connected /\ written + n <= Len(data)
    /\ Put(n) /\ written' = written + n
    /\ IF written + n = Len(data)
       THEN wpc' = "idle" /\ Returns(written + n, "nil")
       ELSE UNCHANGED <<wpc, ret>>
    /\ UNCHANGED <<pieceCount, hs, sent, data, start, readerVars>>

\* w.Write fails after n bytes, or makes no progress (n = 0), which writeFull
\* turns into an error.  The caller then gives the connection up.
WriteFails(n) ==
    /\ wpc = "writing" /\ written + n <= Len(data)
    /\ Put(n) /\ FailCounting(n)
    /\ UNCHANGED <<pieceCount, hs, sent, data, start, readerVars>>

CloseConn ==
    /\ wpc \in {"idle", "failed"} /\ wpc' = "closed"
    /\ UNCHANGED <<pieceCount, hs, sent, data, written, start, ret, bytes, readerVars>>

-----------------------------------------------------------------------------
(* Reading.                                                                *)

wantCountsID ==
    CASE rpc \in {"protocolLength", "id"} -> 1
      [] rpc = "handshake" -> handshakeSize - 1
      [] rpc = "prefix" -> uint32Size
      [] rpc \in {"payload", "drain"} -> length
      [] rpc = "failed" -> 0

\* The size of the buffer of the current io.ReadFull.
want ==
    CASE rpc \in {"protocolLength", "id"} -> 1
      [] rpc = "handshake" -> handshakeSize - 1
      [] rpc = "prefix" -> uint32Size
      [] rpc \in {"payload", "drain"} -> length - 1
      [] rpc = "failed" -> 0

unread == Len(bytes) - pos

\* One read of the connection inside io.ReadFull or io.CopyN.
ReadSome(n) ==
    /\ rpc # "failed" /\ n <= want - Len(buf) /\ n <= unread
    /\ buf' = buf \o SubSeq(bytes, pos + 1, pos + n) /\ pos' = pos + n
    /\ UNCHANGED <<pieceCount, writerVars, bytes, rpc, length, id, remote, received, rerr>>

Abort(e) == rpc' = "failed" /\ rerr' = e /\ UNCHANGED <<length, id, remote, received>>

\* The end of the stream inside a read: io.EOF before the first byte and in
\* io.CopyN, else io.ErrUnexpectedEOF.
ReadEOF ==
    /\ rpc # "failed" /\ Len(buf) < want /\ unread = 0 /\ wpc = "closed"
    /\ Abort(IF buf = <<>> \/ rpc = "drain" THEN "eof" ELSE "unexpectedEOF")
    /\ UNCHANGED <<pieceCount, writerVars, bytes, pos, buf>>

\* Any other error of a read: a reset connection or an expired deadline.
ReadFails ==
    /\ rpc # "failed" /\ Len(buf) < want
    /\ Abort("io")
    /\ UNCHANGED <<pieceCount, writerVars, bytes, pos, buf>>

\* io.ReadFull at r has filled its buffer; the next one starts empty.
Filled(r) ==
    /\ rpc = r /\ Len(buf) = want
    /\ buf' = <<>>
    /\ UNCHANGED <<pieceCount, writerVars, bytes, pos>>

Goto(r) == rpc' = r /\ UNCHANGED rerr

GotProtocolLength ==
    /\ Filled("protocolLength")
    /\ IF buf[1] # lenProtocolName THEN Abort("handshake")
       ELSE Goto("handshake") /\ UNCHANGED <<length, id, remote, received>>

\* The rest of ReadHandshake, and exchangeHandshake's check of the info hash.
GotHandshake ==
    /\ Filled("handshake")
    /\ IF \/ SubSeq(buf, 1, lenProtocolName) # protocolName
          \/ ParseRest(buf).InfoHash # infoHash
       THEN Abort("handshake")
       ELSE Goto("prefix") /\ remote' = ParseRest(buf) /\ UNCHANGED <<length, id, received>>

ReturnFrame(f) ==
    /\ received' = Append(received, f)
    /\ Goto("prefix") /\ UNCHANGED <<length, id, remote>>

GotPrefix ==
    /\ Filled("prefix")
    /\ CASE Uint32(buf) = 0 -> ReturnFrame(KeepAlive)
         [] Uint32(buf) > maxMsgLen -> Abort("malformed")
         [] OTHER -> /\ length' = Uint32(buf)
                     /\ Goto("id") /\ UNCHANGED <<id, remote, received>>

DispatchWithoutDraining(i) ==
    CASE ~lengthAllowed(i, length, pieceCount) -> Abort("malformed")
      [] Supported(i) /\ lengthAllowed(i, length, pieceCount) ->
             id' = i /\ Goto("payload") /\ UNCHANGED <<length, remote, received>>
      [] ~Supported(i) -> ReturnFrame(Unsupported)

\* The switch on the message ID.
Dispatch(i) ==
    CASE ~lengthAllowed(i, length, pieceCount) -> Abort("malformed")
      [] Supported(i) /\ lengthAllowed(i, length, pieceCount) ->
             id' = i /\ Goto("payload") /\ UNCHANGED <<length, remote, received>>
      [] ~Supported(i) ->
             id' = i /\ Goto("drain") /\ UNCHANGED <<length, remote, received>>

GotID == Filled("id") /\ Dispatch(buf[1])

GotPayload == Filled("payload") /\ ReturnFrame(MessageFrame(Message(id, buf)))

Drained == Filled("drain") /\ ReturnFrame(Unsupported)

-----------------------------------------------------------------------------

Init ==
    /\ pieceCount \in PieceCounts /\ hs \in Handshakes
    /\ sent = <<>> /\ wpc = "writing" /\ data = HandshakeBytes(hs) /\ written = 0 /\ start = 0
    /\ ret = [n |-> 0, err |-> "none"] /\ bytes = <<>>
    /\ pos = 0 /\ rpc = "protocolLength" /\ buf = <<>> /\ length = 0 /\ id = 0
    /\ remote = [none |-> TRUE] /\ received = <<>> /\ rerr = "nil"

Call ==
    \/ \E r \in Constructed : WriteConstructed(r)
    \/ \E i \in Stateless : WriteStateless(i)
    \/ WriteBitfield
    \/ WriteKeepAlive
    \/ \E f \in Foreign : WriteForeign(f)

writeFull == \E n \in 1..Len(data) : WriteSome(n)

Sizes == 1..Max({handshakeSize, maxMsgLen})

Reader ==
    \/ \E n \in Sizes : ReadSome(n)
    \/ ReadEOF
    \/ GotProtocolLength \/ GotHandshake \/ GotPrefix \/ GotID \/ GotPayload \/ Drained

Next ==
    \/ Call
    \/ writeFull
    \/ \E n \in 0..Len(data) : WriteFails(n)
    \/ CloseConn
    \/ Reader
    \/ ReadFails

Spec == Init /\ [][Next]_vars

\* A writer in writeFull goes on until the call ends, and the reader's
\* goroutine keeps reading what has arrived.
FairSpec == Spec /\ WF_vars(writeFull) /\ WF_vars(Reader)
=============================================================================
