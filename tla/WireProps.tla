------------------------------ MODULE WireProps -----------------------------
(* Properties of the peer wire.                                            *)
EXTENDS Wire

Messages ==
    {r.message : r \in {c \in Constructed : c.err = "nil"}}
    \cup {Message(i, <<>>) : i \in Stateless}
    \cup {Message(MessageBitfield, [i \in 1..bitfieldByteCount(n) |-> 0]) : n \in PieceCounts}
    \cup {Message(f.id, f.body) : f \in Foreign}

AllFrames == {KeepAlive, Unsupported, Malformed} \cup {MessageFrame(m) : m \in Messages}

\* Frames that are on the stream completely.
whole == IF written < Len(data) /\ sent # <<>> THEN Len(sent) - 1 ELSE Len(sent)

Frame == INSTANCE Framing WITH
    Frames <- AllFrames,
    state <- CASE rpc # "failed" -> "open"
               [] rpc = "failed" /\ rerr = "malformed" -> "malformed"
               [] OTHER -> "broken"

\* However the stream is cut into reads and writes, ReadFrame returns exactly
\* the frames that were written, in order: an unknown message is drained to
\* its last byte, a frame cut short by a failed write is never returned, and
\* a frame written by this package is never called malformed, not even a
\* Bitfield at the 1 MiB limit.
ImplementsFraming == Frame!Spec

\* exchangeHandshake succeeds only on the protocol name and our info hash,
\* returns the other fields as they were sent, and refuses nothing else.
HandshakeExact ==
    LET valid == hs.len = lenProtocolName /\ hs.name = protocolName /\ hs.InfoHash = infoHash
    IN  /\ "Reserved" \in DOMAIN remote =>
               /\ valid
               /\ remote = [Reserved |-> hs.Reserved, InfoHash |-> hs.InfoHash, PeerID |-> hs.PeerID]
        /\ rerr = "handshake" => ~valid

\* Every write call, whether it ends with success, a partial write or a refused
\* argument, returns the number of bytes it put on the connection.
ProgressReported == wpc # "writing" => Len(bytes) = start + ret.n

\* When ReadFrame allocates a payload, its size is one that the parser of that
\* message accepts: a declared length never makes it allocate more.
CheckedBeforeAllocation ==
    rpc = "payload" => Parses(Message(id, [k \in 1..(length - 1) |-> 0]))

\* A frame that has been put on the stream completely is returned by ReadFrame,
\* unless reading ends with an error.
FrameDelivered ==
    \A k \in 1..MaxFrames : (whole >= k) ~> (Len(received) >= k \/ rpc = "failed")

\* errors.go: ErrMalformedFrame reports a received message payload that
\* violates the wire format.  So when a parser refuses the payload of a
\* received Request, this is the error.
RefusedPayloadsAreMalformed ==
    \A k \in DOMAIN received :
        /\ received[k].kind = "message"
        /\ received[k].message.ID = MessageRequest
        => ParseRequest(received[k].message).err \in {"nil", "malformed"}
=============================================================================
