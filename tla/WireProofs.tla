----------------------------- MODULE WireProofs -----------------------------
(***************************************************************************)
(* Proofs about the peer wire, for every size of integers and fields,      *)
(* every sender and every way in which the stream is cut.                  *)
(***************************************************************************)
EXTENDS WireProps, SequenceTheorems, TLAPS

LEMMA SizesNat ==
  /\ Base \in Nat \ {0} /\ Base > 9 /\ uint32Size \in Nat \ {0} /\ BitsPerByte \in Nat \ {0}
  /\ MaxBlockSize \in Nat /\ maxMsgLen \in Nat
  BY MessageAssumption DEF MessageAssumption

\* An integer on the wire is bytes.
LEMMA PutBytes ==
  ASSUME NEW v \in Nat
  PROVE  PutUint32(v) \in Seq(Byte)
  <1>1. \A k \in 1..uint32Size : (v \div Base ^ (uint32Size - k)) % Base \in Byte
    BY SizesNat DEF Byte
  <1> QED BY <1>1, SizesNat DEF PutUint32

\* What remains the same and what is new when a piece of a sequence is added
\* to another: a write on the stream, and a read into the buffer.
LEMMA Extend ==
  ASSUME NEW s \in Seq(Byte), NEW t \in Seq(Byte), NEW a \in Nat, NEW n \in Nat,
         a + n <= Len(t)
  PROVE  LET u == s \o SubSeq(t, a + 1, a + n)
         IN  /\ u \in Seq(Byte) /\ Len(u) = Len(s) + n
             /\ \A k \in 1..Len(s) : u[k] = s[k]
             /\ \A k \in 1..n : u[Len(s) + k] = t[a + k]
  <1> DEFINE c == SubSeq(t, a + 1, a + n)
             u == s \o c
  <1>1. \A k \in (a + 1)..(a + n) : t[k] \in Byte
    OBVIOUS
  <1>2. /\ c \in Seq(Byte) /\ Len(c) = n
        /\ \A k \in 1..n : c[k] = t[a + k]
    BY <1>1, SubSeqProperties
  <1> HIDE DEF c
  <1>3. /\ u \in Seq(Byte) /\ Len(u) = Len(s) + n
        /\ \A k \in 1..(Len(s) + n) : u[k] = IF k <= Len(s) THEN s[k] ELSE c[k - Len(s)]
    BY <1>2, ConcatProperties
  <1> HIDE DEF u
  <1>4. \A k \in 1..Len(s) : u[k] = s[k]
    BY <1>3
  <1>5. \A k \in 1..n : u[Len(s) + k] = t[a + k]
    <2> SUFFICES ASSUME NEW k \in 1..n PROVE u[Len(s) + k] = t[a + k]
      OBVIOUS
    <2>1. /\ Len(s) + k \in 1..(Len(s) + n) /\ ~(Len(s) + k <= Len(s))
          /\ (Len(s) + k) - Len(s) = k
      OBVIOUS
    <2>2. u[Len(s) + k] = c[k]
      BY <1>3, <2>1
    <2> QED BY <1>2, <2>2
  <1> QED BY <1>3, <1>4, <1>5 DEF u, c

\* The same for a whole sequence.
LEMMA Joined ==
  ASSUME NEW s \in Seq(Byte), NEW t \in Seq(Byte)
  PROVE  LET u == s \o t
         IN  /\ u \in Seq(Byte) /\ Len(u) = Len(s) + Len(t)
             /\ \A k \in 1..Len(s) : u[k] = s[k]
             /\ \A k \in 1..Len(t) : u[Len(s) + k] = t[k]
  <1> DEFINE u == s \o t
  <1>1. /\ u \in Seq(Byte) /\ Len(u) = Len(s) + Len(t)
        /\ \A k \in 1..(Len(s) + Len(t)) : u[k] = IF k <= Len(s) THEN s[k] ELSE t[k - Len(s)]
    BY ConcatProperties
  <1> HIDE DEF u
  <1>2. \A k \in 1..Len(s) : u[k] = s[k]
    BY <1>1
  <1>3. \A k \in 1..Len(t) : u[Len(s) + k] = t[k]
    BY <1>1
  <1> QED BY <1>1, <1>2, <1>3 DEF u

\* The bytes of a frame.
LEMMA FrameIsBytes ==
  ASSUME NEW declared \in Nat, NEW m, m.ID \in Byte, m.Payload \in Seq(Byte)
  PROVE  FrameBytes(declared, m) \in Seq(Byte)
  <1>1. PutUint32(declared) \in Seq(Byte)
    BY PutBytes
  <1>2. <<m.ID>> \in Seq(Byte)
    OBVIOUS
  <1>3. PutUint32(declared) \o <<m.ID>> \in Seq(Byte)
    BY <1>1, <1>2, ConcatProperties
  <1> QED BY <1>3, ConcatProperties DEF FrameBytes

-----------------------------------------------------------------------------
(* The handshake as bytes.                                                 *)

HandshakeLen(h) == 1 + Len(h.name) + Len(h.Reserved) + Len(h.InfoHash) + Len(h.PeerID)

LEMMA HandshakeFields ==
  ASSUME NEW h \in Handshakes
  PROVE  /\ h.len \in Byte /\ h.name \in Seq(Byte) /\ h.Reserved \in Seq(Byte)
         /\ h.InfoHash \in Seq(Byte) /\ h.PeerID \in Seq(Byte)
         /\ Len(h.name) = h.len /\ Len(h.Reserved) = fieldSize.Reserved
         /\ Len(h.InfoHash) = fieldSize.InfoHash /\ Len(h.PeerID) = fieldSize.PeerID
  BY WireAssumption DEF WireAssumption

\* Where the fields are.
LEMMA HandshakeLayout ==
  ASSUME NEW h \in Handshakes
  PROVE  LET b == HandshakeBytes(h)
             name == 1
             Reserved == name + Len(h.name)
             InfoHash == Reserved + Len(h.Reserved)
             PeerID == InfoHash + Len(h.InfoHash)
         IN  /\ b \in Seq(Byte) /\ Len(b) = HandshakeLen(h) /\ b[1] = h.len
             /\ \A k \in 1..Len(h.name) : b[name + k] = h.name[k]
             /\ \A k \in 1..Len(h.Reserved) : b[Reserved + k] = h.Reserved[k]
             /\ \A k \in 1..Len(h.InfoHash) : b[InfoHash + k] = h.InfoHash[k]
             /\ \A k \in 1..Len(h.PeerID) : b[PeerID + k] = h.PeerID[k]
  <1> DEFINE b1 == <<h.len>>
             b2 == b1 \o h.name
             b3 == b2 \o h.Reserved
             b4 == b3 \o h.InfoHash
             b5 == b4 \o h.PeerID
  <1>1. b1 \in Seq(Byte) /\ Len(b1) = 1 /\ b1[1] = h.len
    BY HandshakeFields
  <1> HIDE DEF b1
  <1>2. /\ b2 \in Seq(Byte) /\ Len(b2) = 1 + Len(h.name)
        /\ b2[1] = h.len
        /\ \A k \in 1..Len(h.name) : b2[1 + k] = h.name[k]
    BY <1>1, HandshakeFields, Joined
  <1> HIDE DEF b2
  <1>3. /\ b3 \in Seq(Byte) /\ Len(b3) = Len(b2) + Len(h.Reserved)
        /\ \A k \in 1..Len(b2) : b3[k] = b2[k]
        /\ \A k \in 1..Len(h.Reserved) : b3[Len(b2) + k] = h.Reserved[k]
    BY <1>2, HandshakeFields, Joined
  <1> HIDE DEF b3
  <1>4. /\ b4 \in Seq(Byte) /\ Len(b4) = Len(b3) + Len(h.InfoHash)
        /\ \A k \in 1..Len(b3) : b4[k] = b3[k]
        /\ \A k \in 1..Len(h.InfoHash) : b4[Len(b3) + k] = h.InfoHash[k]
    BY <1>3, HandshakeFields, Joined
  <1> HIDE DEF b4
  <1>5. /\ b5 \in Seq(Byte) /\ Len(b5) = Len(b4) + Len(h.PeerID)
        /\ \A k \in 1..Len(b4) : b5[k] = b4[k]
        /\ \A k \in 1..Len(h.PeerID) : b5[Len(b4) + k] = h.PeerID[k]
    BY <1>4, HandshakeFields, Joined
  <1> HIDE DEF b5
  <1> DEFINE n == Len(h.name)
             r == Len(h.Reserved)
             i == Len(h.InfoHash)
             p == Len(h.PeerID)
  <1>6. n \in Nat /\ r \in Nat /\ i \in Nat /\ p \in Nat
    BY HandshakeFields
  <1>7. Len(b2) = 1 + n /\ Len(b3) = 1 + n + r /\ Len(b4) = 1 + n + r + i /\ Len(b5) = 1 + n + r + i + p
    <2>1. Len(b2) = 1 + n /\ Len(b3) = Len(b2) + r /\ Len(b4) = Len(b3) + i /\ Len(b5) = Len(b4) + p
      BY <1>2, <1>3, <1>4, <1>5
    <2> HIDE DEF n, r, i, p
    <2> QED BY <1>6, <2>1
  <1>8. HandshakeBytes(h) = b5
    BY DEF HandshakeBytes, b5, b4, b3, b2, b1
  <1> HIDE DEF n, r, i, p
  <1>9. /\ \A k \in 1..n : 1 + k \in 1..(1 + n)
        /\ \A k \in 1..r : 1 + n + k \in 1..(1 + n + r)
        /\ \A k \in 1..i : 1 + n + r + k \in 1..(1 + n + r + i)
        /\ 1 \in 1..(1 + n)
        /\ 1..(1 + n) \subseteq 1..(1 + n + r)
        /\ 1..(1 + n + r) \subseteq 1..(1 + n + r + i)
    BY <1>6
  <1>10. /\ \A k \in 1..(1 + n) : b5[k] = b2[k]
         /\ \A k \in 1..(1 + n + r) : b5[k] = b3[k]
         /\ \A k \in 1..(1 + n + r + i) : b5[k] = b4[k]
    BY <1>3, <1>4, <1>5, <1>7, <1>9
  <1>11. /\ b5[1] = h.len
         /\ \A k \in 1..n : b5[1 + k] = h.name[k]
    BY <1>2, <1>9, <1>10 DEF n
  <1>12. \A k \in 1..r : b5[1 + n + k] = h.Reserved[k]
    BY <1>3, <1>7, <1>9, <1>10 DEF r
  <1>13. \A k \in 1..i : b5[1 + n + r + k] = h.InfoHash[k]
    BY <1>4, <1>7, <1>9, <1>10 DEF i
  <1>14. \A k \in 1..p : b5[1 + n + r + i + k] = h.PeerID[k]
    BY <1>5, <1>7 DEF p
  <1> QED BY <1>5, <1>7, <1>8, <1>11, <1>12, <1>13, <1>14 DEF HandshakeLen, n, r, i, p

-----------------------------------------------------------------------------
(* Writing.                                                                *)

HB == HandshakeBytes(hs)

\* The stream starts with the handshake, and the count of writeFull is the
\* number of bytes that are on it since the call began.
WriterInv ==
    /\ hs \in Handshakes /\ pieceCount \in PieceCounts
    /\ data \in Seq(Byte) /\ bytes \in Seq(Byte)
    /\ written \in Nat /\ written <= Len(data) /\ start \in Nat
    /\ wpc \in {"idle", "writing", "failed", "closed"}
    /\ wpc = "writing" => /\ Len(bytes) = start + written
                          /\ (start = 0 /\ data = HB) \/ start >= Len(HB)
    /\ wpc = "idle" => Len(bytes) >= Len(HB)
    /\ wpc # "writing" => Len(bytes) = start + ret.n
    /\ \A k \in 1..Len(bytes) : k <= Len(HB) => bytes[k] = HB[k]

LEMMA HBBytes ==
  ASSUME hs \in Handshakes
  PROVE  HB \in Seq(Byte) /\ Len(HB) \in Nat \ {0} /\ Len(HB) = HandshakeLen(hs)
  <1>1. HB \in Seq(Byte) /\ Len(HB) = HandshakeLen(hs)
    BY HandshakeLayout DEF HB
  <1>2. HandshakeLen(hs) \in Nat \ {0}
    <2>1. /\ Len(hs.name) \in Nat /\ Len(hs.Reserved) \in Nat
          /\ Len(hs.InfoHash) \in Nat /\ Len(hs.PeerID) \in Nat
      BY HandshakeFields
    <2>2. \A n, r, i, p \in Nat : 1 + n + r + i + p \in Nat \ {0}
      OBVIOUS
    <2> QED BY <2>1, <2>2 DEF HandshakeLen
  <1> QED BY <1>1, <1>2

LEMMA InitWriter == Init => WriterInv
  <1> SUFFICES ASSUME Init PROVE WriterInv
    OBVIOUS
  <1>1. hs \in Handshakes /\ data = HB /\ bytes = <<>> /\ written = 0 /\ start = 0
    BY DEF Init, HB
  <1>2. HB \in Seq(Byte) /\ Len(HB) \in Nat
    BY <1>1, HBBytes
  <1> QED BY <1>1, <1>2 DEF Init, WriterInv

\* A call that begins.
LEMMA BeginWriter ==
  ASSUME WriterInv, NEW f, NEW b \in Seq(Byte), Begin(f, b)
  PROVE  WriterInv'
  <1>1. HB' = HB /\ Len(HB) \in Nat
    BY HBBytes DEF Begin, HB, WriterInv
  <1>2. Len(bytes) \in Nat
    BY DEF WriterInv
  <1> QED BY <1>1, <1>2 DEF Begin, WriterInv

\* A call with an argument that is refused.
LEMMA RefuseWriter ==
  ASSUME WriterInv, RefuseCall
  PROVE  WriterInv'
  <1>1. HB' = HB /\ Len(HB) \in Nat
    BY HBBytes DEF RefuseCall, HB, WriterInv
  <1>2. Len(bytes) \in Nat /\ ret'.n = 0
    BY DEF WriterInv, RefuseCall, Returns
  <1> QED BY <1>1, <1>2 DEF RefuseCall, WriterInv

LEMMA WriteToWriter ==
  ASSUME WriterInv, NEW m, m.ID \in Byte, m.Payload \in Seq(Byte), WriteTo(m)
  PROVE  WriterInv'
  <1>1. 1 + Len(m.Payload) \in Nat
    OBVIOUS
  <1>2. FrameBytes(1 + Len(m.Payload), m) \in Seq(Byte)
    BY <1>1, FrameIsBytes
  <1> QED BY <1>2, BeginWriter, RefuseWriter DEF WriteTo

\* Every call of the package's functions.
LEMMA CallWriter ==
  ASSUME WriterInv, Call
  PROVE  WriterInv'
  <1>1. ASSUME NEW r \in Constructed, WriteConstructed(r) PROVE WriterInv'
    BY <1>1, WriteToWriter, RefuseWriter, WireAssumption DEF WriteConstructed, WireAssumption
  <1>2. ASSUME NEW j \in Stateless, WriteStateless(j) PROVE WriterInv'
    <2> DEFINE m == Message(j, <<>>)
    <2>1. m.ID \in Byte /\ m.Payload \in Seq(Byte)
      BY SizesNat DEF Message, Byte, Stateless, MessageChoke, MessageUnchoke,
                      MessageInterested, MessageNotInterested
    <2> QED BY <1>2, <2>1, WriteToWriter DEF WriteStateless
  <1>3. CASE WriteBitfield
    <2> DEFINE n == bitfieldByteCount(pieceCount)
               m == Message(MessageBitfield, [k \in 1..n |-> 0])
    <2>1. pieceCount \in Nat
      BY WireAssumption DEF WriterInv, WireAssumption
    <2>2. n \in Nat
      BY <2>1, SizesNat DEF bitfieldByteCount
    <2> HIDE DEF n
    <2>3. MessageBitfield \in Byte /\ 0 \in Byte
      BY SizesNat DEF Byte, MessageBitfield
    <2>4. m.ID \in Byte /\ m.Payload \in Seq(Byte)
      BY <2>2, <2>3 DEF Message
    <2> QED BY <1>3, <2>4, WriteToWriter DEF WriteBitfield, n
  <1>4. CASE WriteKeepAlive
    BY <1>4, BeginWriter, PutBytes DEF WriteKeepAlive
  <1>5. ASSUME NEW f \in Foreign, WriteForeign(f) PROVE WriterInv'
    <2> DEFINE m == Message(f.id, f.body)
    <2>1. f.length \in Nat /\ m.ID \in Byte /\ m.Payload \in Seq(Byte)
      BY WireAssumption DEF WireAssumption, Message
    <2>2. FrameBytes(f.length, m) \in Seq(Byte)
      BY <2>1, FrameIsBytes
    <2> QED BY <1>5, <2>2, BeginWriter DEF WriteForeign
  <1> QED BY <1>1, <1>2, <1>3, <1>4, <1>5 DEF Call

\* n more bytes of the call's data on the stream.
LEMMA PutWriter ==
  ASSUME WriterInv, wpc = "writing", NEW n \in Nat, written + n <= Len(data), Put(n)
  PROVE  /\ bytes' \in Seq(Byte) /\ Len(bytes') = start + written + n
         /\ written + n = Len(data) => Len(bytes') >= Len(HB)
         /\ \A k \in 1..Len(bytes') : k <= Len(HB) => bytes'[k] = HB[k]
  <1>1. /\ data \in Seq(Byte) /\ bytes \in Seq(Byte) /\ written \in Nat /\ start \in Nat
        /\ Len(bytes) = start + written /\ hs \in Handshakes
        /\ (start = 0 /\ data = HB) \/ start >= Len(HB)
        /\ \A k \in 1..Len(bytes) : k <= Len(HB) => bytes[k] = HB[k]
    BY DEF WriterInv
  <1> DEFINE u == bytes \o SubSeq(data, written + 1, written + n)
  <1>2. bytes' = u
    BY DEF Put
  <1>u. /\ u \in Seq(Byte) /\ Len(u) = Len(bytes) + n
        /\ \A k \in 1..Len(bytes) : u[k] = bytes[k]
        /\ \A k \in 1..n : u[Len(bytes) + k] = data[written + k]
    BY <1>1, Extend, SMTT(30)
  <1> HIDE DEF u
  <1>3. /\ bytes' \in Seq(Byte) /\ Len(bytes') = Len(bytes) + n
        /\ \A k \in 1..Len(bytes) : bytes'[k] = bytes[k]
        /\ \A k \in 1..n : bytes'[Len(bytes) + k] = data[written + k]
    BY <1>2, <1>u
  <1>4. Len(HB) \in Nat \ {0}
    BY <1>1, HBBytes
  <1> DEFINE h == Len(HB)
             b == Len(bytes)
             b2 == Len(bytes')
  <1>5. b2 = b + n /\ b = start + written /\ ((start = 0 /\ Len(data) = h) \/ start >= h)
        /\ h \in Nat /\ Len(data) \in Nat
    BY <1>1, <1>3, <1>4
  <1>6. written + n = Len(data) => b2 >= h
    <2> HIDE DEF h, b, b2
    <2> QED BY <1>1, <1>5
  <1>7. ASSUME NEW k \in 1..b2, k <= h PROVE bytes'[k] = HB[k]
    <2>1. CASE k <= b
      BY <1>1, <1>3, <1>5, <1>7, <2>1
    <2>2. CASE k > b
      <3>1. start = 0 /\ data = HB
        BY <1>1, <1>4, <1>5, <1>7, <2>2
      <3>2. k - b \in 1..n /\ b + (k - b) = k /\ written + (k - b) = k
        BY <1>1, <1>5, <1>7, <2>2, <3>1
      <3>3. bytes'[b + (k - b)] = data[written + (k - b)]
        BY <1>3, <3>2
      <3> QED BY <3>1, <3>2, <3>3
    <2> QED BY <1>1, <2>1, <2>2
  <1>8. Len(bytes') = start + written + n
    BY <1>1, <1>3
  <1> QED BY <1>3, <1>6, <1>7, <1>8

LEMMA NextWriter == WriterInv /\ [Next]_vars => WriterInv'
  <1> SUFFICES ASSUME WriterInv, [Next]_vars PROVE WriterInv'
    OBVIOUS
  <1>0. HB \in Seq(Byte) /\ Len(HB) \in Nat
    BY HBBytes DEF WriterInv
  <1>1. CASE UNCHANGED <<pieceCount, writerVars, bytes>>
    BY <1>1 DEF writerVars, WriterInv, HB
  <1>2. CASE Call
    BY <1>2, CallWriter
  <1>3. ASSUME NEW n \in 1..Len(data), WriteSome(n) PROVE WriterInv'
    <2>1. n \in Nat /\ written + n <= Len(data) /\ Put(n) /\ wpc = "writing"
      BY <1>3 DEF WriteSome, WriterInv
    <2>2. /\ bytes' \in Seq(Byte) /\ Len(bytes') = start + written + n
          /\ written + n = Len(data) => Len(bytes') >= Len(HB)
          /\ \A k \in 1..Len(bytes') : k <= Len(HB) => bytes'[k] = HB[k]
      BY <2>1, PutWriter
    <2>3. /\ HB' = HB /\ start' = start /\ data' = data /\ written' = written + n
          /\ hs' = hs /\ pieceCount' = pieceCount
          /\ IF written + n = Len(data) THEN wpc' = "idle" /\ ret'.n = written + n
             ELSE wpc' = wpc
      BY <1>3 DEF WriteSome, HB, Returns
    <2>4. start + (written + n) = start + written + n /\ written + n \in Nat
      BY <2>1 DEF WriterInv
    <2> QED BY <2>1, <2>2, <2>3, <2>4 DEF WriterInv
  <1>4. ASSUME NEW n \in 0..Len(data), WriteFails(n) PROVE WriterInv'
    <2>1. n \in Nat /\ written + n <= Len(data) /\ Put(n) /\ wpc = "writing"
      BY <1>4 DEF WriteFails, WriterInv
    <2>2. /\ bytes' \in Seq(Byte) /\ Len(bytes') = start + written + n
          /\ \A k \in 1..Len(bytes') : k <= Len(HB) => bytes'[k] = HB[k]
      BY <2>1, PutWriter
    <2>3. /\ HB' = HB /\ start' = start /\ data' = data /\ written' = written + n
          /\ hs' = hs /\ pieceCount' = pieceCount /\ wpc' = "failed" /\ ret'.n = written + n
      BY <1>4 DEF WriteFails, FailCounting, HB, Returns
    <2>4. start + (written + n) = start + written + n /\ written + n \in Nat
      BY <2>1 DEF WriterInv
    <2> QED BY <2>1, <2>2, <2>3, <2>4 DEF WriterInv
  <1>5. CASE CloseConn
    BY <1>5 DEF CloseConn, WriterInv, HB
  <1>6. CASE Reader \/ ReadFails
    <2>1. UNCHANGED <<pieceCount, writerVars, bytes>>
      BY <1>6 DEF Reader, ReadFails, ReadSome, ReadEOF, GotProtocolLength, GotHandshake,
                  GotPrefix, GotID, GotPayload, Drained, Filled
    <2> QED BY <1>1, <2>1
  <1>7. CASE UNCHANGED vars
    BY <1>1, <1>7 DEF vars
  <1> QED BY <1>2, <1>3, <1>4, <1>5, <1>6, <1>7 DEF Next, writeFull

\* A write call reports the bytes it has put on the connection.
THEOREM ProgressIsReported == Spec => []ProgressReported
  <1>1. WriterInv => ProgressReported
    BY DEF WriterInv, ProgressReported
  <1> QED BY <1>1, InitWriter, NextWriter, PTL DEF Spec

-----------------------------------------------------------------------------
(* Reading.                                                                *)

\* The handshake that exchangeHandshake accepts, and what it returns for it.
ValidHandshake ==
    hs.len = lenProtocolName /\ hs.name = protocolName /\ hs.InfoHash = infoHash

Fields == [Reserved |-> hs.Reserved, InfoHash |-> hs.InfoHash, PeerID |-> hs.PeerID]

\* What ReadFrame knows before it allocates a payload.
Checked == id \in Byte /\ Supported(id) /\ lengthAllowed(id, length, pieceCount)

\* What ReadHandshake and exchangeHandshake have returned.
Unset == [none |-> TRUE]

Outcome ==
    /\ remote = Unset \/ (ValidHandshake /\ remote = Fields)
    /\ rerr = "handshake" => ~ValidHandshake

\* The buffer is the next part of the stream.
ReaderInv ==
    /\ buf \in Seq(Byte) /\ pos \in Nat /\ pos <= Len(bytes)
    /\ rpc = "protocolLength" => pos = Len(buf) /\ \A k \in 1..Len(buf) : buf[k] = bytes[k]
    /\ rpc = "handshake" => /\ hs.len = lenProtocolName
                            /\ pos = 1 + Len(buf)
                            /\ \A k \in 1..Len(buf) : buf[k] = bytes[1 + k]
    /\ rpc = "payload" => Checked
    /\ Outcome

\* A part of a sequence that agrees with another sequence is that sequence.
LEMMA Slice ==
  ASSUME NEW s \in Seq(Byte), NEW t \in Seq(Byte), NEW o \in Nat, o + Len(t) <= Len(s),
         \A k \in 1..Len(t) : s[o + k] = t[k]
  PROVE  SubSeq(s, o + 1, o + Len(t)) = t
  <1> DEFINE n == Len(t)
             c == SubSeq(s, o + 1, o + n)
  <1>1. n \in Nat /\ \A k \in (o + 1)..(o + n) : s[k] \in Byte
    OBVIOUS
  <1>2. c \in Seq(Byte) /\ Len(c) = n /\ \A k \in 1..n : c[k] = s[o + k]
    BY <1>1, SubSeqProperties
  <1> HIDE DEF c
  <1>3. \A k \in 1..n : c[k] = t[k]
    BY <1>2
  <1>4. c = t
    BY <1>2, <1>3, SeqEqual
  <1> QED BY <1>4 DEF c

\* The sizes of the handshake, as numbers.
LEMMA HandshakeSizes ==
  ASSUME hs \in Handshakes, hs.len = lenProtocolName
  PROVE  /\ lenProtocolName \in Nat /\ fieldSize.Reserved \in Nat
         /\ fieldSize.InfoHash \in Nat /\ fieldSize.PeerID \in Nat
         /\ Len(hs.name) = lenProtocolName /\ Len(HB) = handshakeSize
  <1>1. /\ lenProtocolName \in Nat /\ fieldSize.Reserved \in Nat
        /\ fieldSize.InfoHash \in Nat /\ fieldSize.PeerID \in Nat
    BY WireAssumption DEF WireAssumption, lenProtocolName
  <1> QED BY <1>1, HandshakeFields, HBBytes DEF HandshakeLen, handshakeSize

\* A full buffer of ReadHandshake holds the fields that were sent.
LEMMA Parsed ==
  ASSUME WriterInv, ReaderInv, rpc = "handshake", Len(buf) = want
  PROVE  SubSeq(buf, 1, lenProtocolName) = hs.name /\ ParseRest(buf) = Fields
  <1> DEFINE n == lenProtocolName
             r == fieldSize.Reserved
             i == fieldSize.InfoHash
             p == fieldSize.PeerID
             l == Len(buf)
  <1>1. hs \in Handshakes /\ hs.len = n /\ buf \in Seq(Byte) /\ bytes \in Seq(Byte)
    BY DEF WriterInv, ReaderInv
  <1>2. n \in Nat /\ r \in Nat /\ i \in Nat /\ p \in Nat /\ Len(hs.name) = n /\ Len(HB) = handshakeSize
    BY <1>1, HandshakeSizes
  <1>3. /\ hs.name \in Seq(Byte) /\ hs.Reserved \in Seq(Byte)
        /\ hs.InfoHash \in Seq(Byte) /\ hs.PeerID \in Seq(Byte)
        /\ Len(hs.Reserved) = r /\ Len(hs.InfoHash) = i /\ Len(hs.PeerID) = p
    BY <1>1, HandshakeFields
  <1>4. l = n + r + i + p /\ handshakeSize = 1 + l
    <2>1. l = handshakeSize - 1
      BY DEF want
    <2> HIDE DEF l, n, r, i, p
    <2>2. handshakeSize = 1 + n + r + i + p
      BY DEF handshakeSize, n, r, i, p
    <2> QED BY <1>2, <2>1, <2>2
  <1>5. \A k \in 1..l : buf[k] = HB[1 + k]
    <2>1. pos = 1 + l /\ pos <= Len(bytes) /\ l \in Nat /\ Len(bytes) \in Nat
      BY <1>1 DEF ReaderInv
    <2>2. \A k \in 1..l : 1 + k \in 1..Len(bytes) /\ 1 + k <= Len(HB)
      BY <1>2, <1>4, <2>1
    <2>3. \A k \in 1..l : buf[k] = bytes[1 + k]
      BY DEF ReaderInv
    <2> QED BY <2>2, <2>3 DEF WriterInv
  <1>6. /\ \A k \in 1..n : HB[1 + k] = hs.name[k]
        /\ \A k \in 1..r : HB[1 + n + k] = hs.Reserved[k]
        /\ \A k \in 1..i : HB[1 + n + r + k] = hs.InfoHash[k]
        /\ \A k \in 1..p : HB[1 + n + r + i + k] = hs.PeerID[k]
    <2> DEFINE B == HandshakeBytes(hs)
    <2>1. /\ \A k \in 1..Len(hs.name) : B[1 + k] = hs.name[k]
          /\ \A k \in 1..Len(hs.Reserved) : B[1 + Len(hs.name) + k] = hs.Reserved[k]
          /\ \A k \in 1..Len(hs.InfoHash) :
                 B[1 + Len(hs.name) + Len(hs.Reserved) + k] = hs.InfoHash[k]
          /\ \A k \in 1..Len(hs.PeerID) :
                 B[1 + Len(hs.name) + Len(hs.Reserved) + Len(hs.InfoHash) + k] = hs.PeerID[k]
      BY <1>1, HandshakeLayout, ZenonT(30)
    <2> HIDE DEF B
    <2>2. B = HB
      BY DEF B, HB
    <2> HIDE DEF n, r, i, p, HB
    <2> QED BY <1>2, <1>3, <2>1, <2>2
  <1> HIDE DEF n, r, i, p, l
  <1>7. /\ \A k \in 1..n : k \in 1..l
        /\ \A k \in 1..r : n + k \in 1..l /\ 1 + (n + k) = 1 + n + k
        /\ \A k \in 1..i : n + r + k \in 1..l /\ 1 + (n + r + k) = 1 + n + r + k
        /\ \A k \in 1..p : n + r + i + k \in 1..l /\ 1 + (n + r + i + k) = 1 + n + r + i + k
    BY <1>2, <1>4
  <1>8. /\ \A k \in 1..n : buf[0 + k] = hs.name[k]
        /\ \A k \in 1..r : buf[n + k] = hs.Reserved[k]
        /\ \A k \in 1..i : buf[n + r + k] = hs.InfoHash[k]
        /\ \A k \in 1..p : buf[n + r + i + k] = hs.PeerID[k]
    BY <1>5, <1>6, <1>7
  <1>9. 0 + n <= l /\ n + r <= l /\ n + r + i <= l /\ n + r + i + p <= l
    BY <1>2, <1>4
  <1>10. SubSeq(buf, 1, n) = hs.name
    <2>1. SubSeq(buf, 0 + 1, 0 + n) = hs.name
      BY <1>1, <1>2, <1>3, <1>8, <1>9, Slice DEF l
    <2> QED BY <1>2, <2>1
  <1>11. SubSeq(buf, n + 1, n + r) = hs.Reserved
    BY <1>1, <1>2, <1>3, <1>8, <1>9, Slice DEF l
  <1>12. SubSeq(buf, n + r + 1, n + r + i) = hs.InfoHash
    <2>1. n + r \in Nat
      BY <1>2
    <2> QED BY <1>1, <1>3, <1>8, <1>9, <2>1, Slice DEF l
  <1>13. SubSeq(buf, n + r + i + 1, n + r + i + p) = hs.PeerID
    <2>1. n + r + i \in Nat
      BY <1>2
    <2> QED BY <1>1, <1>3, <1>8, <1>9, <2>1, Slice DEF l
  <1>14. ParseRest(buf) = Fields
    BY <1>11, <1>12, <1>13 DEF ParseRest, Fields, n, r, i, p
  <1> QED BY <1>10, <1>14 DEF n

\* The known message IDs.
LEMMA Known ==
  ASSUME NEW j \in Byte
  PROVE  Supported(j) <=> j \in {0, 1, 2, 3, 4, 5, 6, 7, 8}
  <1>1. j \in Nat
    BY SizesNat DEF Byte
  <1> QED BY <1>1 DEF Supported, MessageCancel

\* The lengths that ReadFrame allows them; that of another is not restricted.
LEMMA Allowed ==
  ASSUME NEW j \in Byte, NEW l, NEW n
  PROVE  /\ lengthAllowed(j, l, n) =>
                /\ j \in {0, 1, 2, 3} => l = 1
                /\ j = 4 => l = 1 + uint32Size
                /\ j = 5 => l = 1 + bitfieldByteCount(n)
                /\ j \in {6, 8} => l = 1 + 3 * uint32Size
                /\ j = 7 => l \in (1 + 2 * uint32Size)..(1 + 2 * uint32Size + MaxBlockSize)
         /\ ~Supported(j) => lengthAllowed(j, l, n)
  <1> USE DEF lengthAllowed, Stateless, MessageChoke, MessageUnchoke, MessageInterested,
              MessageNotInterested, MessageHave, MessageBitfield, MessageRequest,
              MessagePiece, MessageCancel
  <1>0. CASE j = 0
    BY <1>0, Known
  <1>1. CASE j = 1
    BY <1>1, Known
  <1>2. CASE j = 2
    BY <1>2, Known
  <1>3. CASE j = 3
    BY <1>3, Known
  <1>4. CASE j = 4
    BY <1>4, Known
  <1>5. CASE j = 5
    BY <1>5, Known
  <1>6. CASE j = 6
    BY <1>6, Known
  <1>7. CASE j = 7
    BY <1>7, Known
  <1>8. CASE j = 8
    BY <1>8, Known
  <1>9. CASE j \notin {0, 1, 2, 3, 4, 5, 6, 7, 8}
    BY <1>9, Known
  <1> QED BY <1>0, <1>1, <1>2, <1>3, <1>4, <1>5, <1>6, <1>7, <1>8, <1>9

LEMMA InitReader == Init => ReaderInv
  <1> SUFFICES ASSUME Init PROVE ReaderInv
    OBVIOUS
  <1>1. bytes = <<>> /\ buf = <<>> /\ pos = 0 /\ rpc = "protocolLength" /\ rerr = "nil"
        /\ remote = Unset
    BY DEF Init, Unset
  <1>2. Outcome
    <2>1. rerr # "handshake"
      BY <1>1
    <2>2. remote = Unset
      BY <1>1
    <2> QED BY <2>1, <2>2 DEF Outcome
  <1>3. buf \in Seq(Byte) /\ Len(buf) = 0 /\ Len(bytes) = 0
    BY <1>1
  <1> QED BY <1>1, <1>2, <1>3 DEF ReaderInv

\* The reader's part of the stream does not change when bytes are added.
LEMMA GrowReader ==
  ASSUME WriterInv, ReaderInv, UNCHANGED <<readerVars, hs, pieceCount>>,
         bytes' \in Seq(Byte), Len(bytes') >= Len(bytes),
         \A k \in 1..Len(bytes) : bytes'[k] = bytes[k]
  PROVE  ReaderInv'
  <1>1. /\ buf \in Seq(Byte) /\ Len(buf) \in Nat /\ pos \in Nat
        /\ Len(bytes) \in Nat /\ Len(bytes') \in Nat /\ pos <= Len(bytes)
    BY DEF WriterInv, ReaderInv
  <1>2. buf' = buf /\ pos' = pos /\ rpc' = rpc /\ hs' = hs /\ remote' = remote /\ rerr' = rerr
    BY DEF readerVars
  <1>3. pos' <= Len(bytes')
    BY <1>1, <1>2
  <1>4. ASSUME rpc = "protocolLength", NEW k \in 1..Len(buf) PROVE buf[k] = bytes'[k]
    <2>1. k \in 1..Len(bytes)
      BY <1>1, <1>4 DEF ReaderInv
    <2> QED BY <1>4, <2>1 DEF ReaderInv
  <1>5. ASSUME rpc = "handshake", NEW k \in 1..Len(buf) PROVE buf[k] = bytes'[1 + k]
    <2>1. 1 + k \in 1..Len(bytes)
      BY <1>1, <1>5 DEF ReaderInv
    <2> QED BY <1>5, <2>1 DEF ReaderInv
  <1>6. (Checked => Checked') /\ (Outcome => Outcome')
    BY DEF readerVars, Checked, Outcome, ValidHandshake, Fields
  <1> QED BY <1>1, <1>2, <1>3, <1>4, <1>5, <1>6 DEF ReaderInv

\* A step of the reader that ends its io.ReadFull and is past the handshake.
LEMMA PastHandshake ==
  ASSUME WriterInv, ReaderInv, UNCHANGED <<pieceCount, writerVars, bytes, pos, remote>>,
         buf' = <<>> \/ buf' = buf,
         rpc' \in {"prefix", "id", "drain", "failed", "payload"}, rpc' = "payload" => Checked',
         rerr' = rerr \/ rerr' # "handshake"
  PROVE  ReaderInv'
  <1>1. ValidHandshake' = ValidHandshake /\ Fields' = Fields
    BY DEF writerVars, ValidHandshake, Fields
  <1>2. Outcome'
    BY <1>1 DEF ReaderInv, Outcome
  <1>3. buf' \in Seq(Byte) /\ pos' \in Nat /\ pos' <= Len(bytes')
    <2>1. buf \in Seq(Byte) /\ pos \in Nat /\ pos <= Len(bytes)
      BY DEF ReaderInv
    <2>2. <<>> \in Seq(Byte)
      OBVIOUS
    <2> QED BY <2>1, <2>2
  <1>4. rpc' # "protocolLength" /\ rpc' # "handshake" /\ (rpc' = "payload" => Checked')
    OBVIOUS
  <1> QED BY <1>2, <1>3, <1>4 DEF ReaderInv

LEMMA NextReader == WriterInv /\ ReaderInv /\ [Next]_vars => ReaderInv'
  <1> SUFFICES ASSUME WriterInv, ReaderInv, [Next]_vars PROVE ReaderInv'
    OBVIOUS
  <1>0. bytes \in Seq(Byte) /\ Len(bytes) \in Nat /\ buf \in Seq(Byte) /\ Len(buf) \in Nat
        /\ pos \in Nat /\ pos <= Len(bytes) /\ hs \in Handshakes
    BY DEF WriterInv, ReaderInv
  <1>1. CASE UNCHANGED <<readerVars, hs, pieceCount, bytes>>
    BY <1>0, <1>1, GrowReader
  <1>2. CASE Call \/ CloseConn
    <2>1. UNCHANGED <<readerVars, hs, pieceCount, bytes>>
      BY <1>2 DEF Call, CloseConn, WriteConstructed, WriteStateless, WriteBitfield,
                  WriteKeepAlive, WriteForeign, WriteTo, Begin, RefuseCall
    <2> QED BY <1>1, <2>1
  <1>3. ASSUME NEW n \in Nat, written + n <= Len(data), Put(n),
               UNCHANGED <<readerVars, hs, pieceCount>>
        PROVE  ReaderInv'
    <2> DEFINE u == bytes \o SubSeq(data, written + 1, written + n)
    <2>1. bytes' = u
      BY <1>3 DEF Put
    <2>2. data \in Seq(Byte) /\ written \in Nat
      BY DEF WriterInv
    <2>3. u \in Seq(Byte) /\ Len(u) = Len(bytes) + n /\ \A k \in 1..Len(bytes) : u[k] = bytes[k]
      BY <1>0, <1>3, <2>2, Extend
    <2> HIDE DEF u
    <2>4. bytes' \in Seq(Byte) /\ Len(bytes') >= Len(bytes) /\ \A k \in 1..Len(bytes) : bytes'[k] = bytes[k]
      BY <1>0, <1>3, <2>1, <2>3
    <2> QED BY <1>3, <2>4, GrowReader
  <1>4. ASSUME NEW n \in 1..Len(data), WriteSome(n) PROVE ReaderInv'
    <2>1. n \in Nat
      BY DEF WriterInv
    <2> QED BY <1>3, <1>4, <2>1 DEF WriteSome
  <1>5. ASSUME NEW n \in 0..Len(data), WriteFails(n) PROVE ReaderInv'
    <2>1. n \in Nat
      BY DEF WriterInv
    <2> QED BY <1>3, <1>5, <2>1 DEF WriteFails
  <1>6. ASSUME NEW n \in Sizes, ReadSome(n) PROVE ReaderInv'
    <2>1. n \in Nat
      BY DEF Sizes
    <2>2. n <= Len(bytes) - pos /\ buf' = buf \o SubSeq(bytes, pos + 1, pos + n) /\ pos' = pos + n
      BY <1>6 DEF ReadSome, unread
    <2> DEFINE u == buf \o SubSeq(bytes, pos + 1, pos + n)
    <2>3. pos + n <= Len(bytes)
      BY <1>0, <2>1, <2>2
    <2>4. /\ u \in Seq(Byte) /\ Len(u) = Len(buf) + n
          /\ \A k \in 1..Len(buf) : u[k] = buf[k]
          /\ \A k \in 1..n : u[Len(buf) + k] = bytes[pos + k]
      BY <1>0, <2>1, <2>3, Extend
    <2> HIDE DEF u
    <2>5. buf' = u
      BY <2>2 DEF u
    <2>6. /\ UNCHANGED <<pieceCount, hs, bytes, rpc, length, id, remote, received, rerr>>
          /\ (Checked => Checked') /\ (Outcome => Outcome')
      BY <1>6 DEF ReadSome, writerVars, Checked, Outcome, ValidHandshake, Fields
    <2>7. \A k \in 1..Len(u) : k \in 1..Len(buf) \/ (k - Len(buf) \in 1..n /\ Len(buf) + (k - Len(buf)) = k)
      BY <1>0, <2>1, <2>4
    <2>8. ASSUME rpc = "protocolLength" PROVE pos + n = Len(u) /\ \A k \in 1..Len(u) : u[k] = bytes[k]
      <3>1. pos = Len(buf) /\ \A k \in 1..Len(buf) : buf[k] = bytes[k]
        BY <2>8 DEF ReaderInv
      <3>2. ASSUME NEW k \in 1..Len(u) PROVE u[k] = bytes[k]
        <4>1. CASE k \in 1..Len(buf)
          BY <2>4, <3>1, <4>1
        <4>2. CASE k - Len(buf) \in 1..n /\ Len(buf) + (k - Len(buf)) = k
          BY <2>4, <3>1, <4>2
        <4> QED BY <2>7, <4>1, <4>2
      <3> QED BY <2>4, <3>1, <3>2
    <2>9. ASSUME rpc = "handshake" PROVE pos + n = 1 + Len(u) /\ \A k \in 1..Len(u) : u[k] = bytes[1 + k]
      <3>1. pos = 1 + Len(buf) /\ \A k \in 1..Len(buf) : buf[k] = bytes[1 + k]
        BY <2>9 DEF ReaderInv
      <3>2. ASSUME NEW k \in 1..Len(u) PROVE u[k] = bytes[1 + k]
        <4>1. CASE k \in 1..Len(buf)
          BY <2>4, <3>1, <4>1
        <4>2. CASE k - Len(buf) \in 1..n /\ Len(buf) + (k - Len(buf)) = k
          <5>1. pos + (k - Len(buf)) = 1 + k
            BY <1>0, <2>4, <3>1
          <5>2. u[Len(buf) + (k - Len(buf))] = bytes[pos + (k - Len(buf))]
            BY <2>4, <4>2
          <5> QED BY <4>2, <5>1, <5>2
        <4> QED BY <2>7, <4>1, <4>2
      <3>3. pos + n = 1 + Len(u)
        BY <1>0, <2>1, <2>4, <3>1
      <3> QED BY <3>2, <3>3
    <2>10. pos' \in Nat /\ pos' <= Len(bytes')
      BY <1>0, <2>1, <2>2, <2>3, <2>6
    <2> QED BY <2>2, <2>4, <2>5, <2>6, <2>8, <2>9, <2>10 DEF ReaderInv
  <1>7. CASE ReadEOF \/ ReadFails
    <2>1. /\ UNCHANGED <<pieceCount, writerVars, bytes, pos, remote>> /\ buf' = buf
          /\ rpc' = "failed" /\ rerr' # "handshake"
      BY <1>7 DEF ReadEOF, ReadFails, Abort
    <2>2. rpc' \in {"prefix", "id", "drain", "failed", "payload"} /\ (rpc' = "payload" => Checked')
      BY <2>1 DEF Checked
    <2> QED BY <2>1, <2>2, PastHandshake, Zenon
  <1>8. CASE GotProtocolLength
    <2>1. /\ rpc = "protocolLength" /\ Len(buf) = 1 /\ buf' = <<>>
          /\ UNCHANGED <<pieceCount, writerVars, bytes, pos, remote>>
      BY <1>8 DEF GotProtocolLength, Filled, want, Abort
    <2>2. buf[1] = hs.len /\ pos = 1
      <3>1. pos = 1 /\ buf[1] = bytes[1] /\ 1 \in 1..Len(bytes)
        BY <1>0, <2>1 DEF ReaderInv
      <3>2. HB[1] = hs.len /\ 1 <= Len(HB)
        <4>1. HB[1] = hs.len
          BY <1>0, HandshakeLayout DEF HB
        <4>2. Len(HB) \in Nat \ {0}
          BY <1>0, HBBytes
        <4> QED BY <4>1, <4>2
      <3>3. bytes[1] = HB[1]
        BY <3>1, <3>2 DEF WriterInv
      <3> QED BY <3>1, <3>2, <3>3
    <2>3. hs' = hs /\ ValidHandshake' = ValidHandshake /\ Fields' = Fields
      BY <2>1 DEF writerVars, ValidHandshake, Fields
    <2>4. CASE buf[1] # lenProtocolName
      <3>1. rpc' = "failed" /\ ~ValidHandshake
        BY <1>8, <2>2, <2>4 DEF GotProtocolLength, Abort, ValidHandshake
      <3>2. Outcome'
        BY <2>1, <2>3, <3>1 DEF ReaderInv, Outcome
      <3> QED BY <2>1, <3>1, <3>2 DEF ReaderInv
    <2>5. CASE buf[1] = lenProtocolName
      <3>1. rpc' = "handshake" /\ rerr' = rerr
        BY <1>8, <2>5 DEF GotProtocolLength, Goto
      <3>2. Outcome'
        BY <2>1, <2>3, <3>1 DEF ReaderInv, Outcome
      <3> QED BY <2>1, <2>2, <2>3, <2>5, <3>1, <3>2 DEF ReaderInv
    <2> QED BY <2>4, <2>5
  <1>9. CASE GotHandshake
    <2>1. /\ rpc = "handshake" /\ Len(buf) = want /\ buf' = <<>>
          /\ UNCHANGED <<pieceCount, writerVars, bytes, pos>>
      BY <1>9 DEF GotHandshake, Filled
    <2>2. SubSeq(buf, 1, lenProtocolName) = hs.name /\ ParseRest(buf) = Fields
      BY <2>1, Parsed
    <2>3. ParseRest(buf).InfoHash = hs.InfoHash /\ hs.len = lenProtocolName
      BY <2>1, <2>2 DEF Fields, ReaderInv
    <2>4. hs' = hs /\ ValidHandshake' = ValidHandshake /\ Fields' = Fields
      BY <2>1 DEF writerVars, ValidHandshake, Fields
    <2>5. CASE ~ValidHandshake
      <3>1. rpc' = "failed" /\ remote' = remote
        BY <1>9, <2>2, <2>3, <2>5 DEF GotHandshake, Abort, ValidHandshake
      <3>2. Outcome'
        BY <2>4, <2>5, <3>1 DEF ReaderInv, Outcome
      <3> QED BY <2>1, <3>1, <3>2 DEF ReaderInv
    <2>6. CASE ValidHandshake
      <3>1. rpc' = "prefix" /\ remote' = Fields /\ rerr' = rerr
        BY <1>9, <2>2, <2>3, <2>6 DEF GotHandshake, Goto, ValidHandshake
      <3>2. Outcome'
        BY <2>4, <2>6, <3>1 DEF ReaderInv, Outcome
      <3> QED BY <2>1, <3>1, <3>2 DEF ReaderInv
    <2> QED BY <2>5, <2>6
  <1>10. CASE GotPrefix \/ GotPayload \/ Drained
    <2>1. /\ UNCHANGED <<pieceCount, writerVars, bytes, pos, remote>> /\ buf' = <<>>
          /\ rpc' \in {"prefix", "failed", "id"} /\ (rerr' = rerr \/ rerr' = "malformed")
      BY <1>10 DEF GotPrefix, GotPayload, Drained, Filled, ReturnFrame, Abort, Goto
    <2>2. /\ rpc' \in {"prefix", "id", "drain", "failed", "payload"} /\ (rpc' = "payload" => Checked')
          /\ rerr' = rerr \/ rerr' # "handshake"
      BY <2>1 DEF Checked
    <2> QED BY <2>1, <2>2, PastHandshake, Zenon
  <1>11. CASE GotID
    <2>1. /\ UNCHANGED <<pieceCount, writerVars, bytes, pos>> /\ buf' = <<>>
          /\ Dispatch(buf[1]) /\ buf[1] \in Byte
      <3>1. /\ UNCHANGED <<pieceCount, writerVars, bytes, pos>> /\ buf' = <<>>
            /\ Dispatch(buf[1]) /\ rpc = "id" /\ Len(buf) = want
        BY <1>11 DEF GotID, Filled
      <3>2. Len(buf) = 1
        BY <3>1 DEF want
      <3>3. buf[1] \in Byte
        <4>1. 1 \in 1..Len(buf)
          BY <3>2
        <4> QED BY <1>0, <4>1, ElementOfSeq
      <3> QED BY <3>1, <3>3
    <2> DEFINE j == buf[1]
    <2>2. Supported(j) \/ lengthAllowed(j, length, pieceCount)
      BY <2>1, Allowed
    <2> HIDE DEF j
    <2>3. \/ Abort("malformed")
          \/ /\ Supported(j) /\ lengthAllowed(j, length, pieceCount) /\ id' = j /\ Goto("payload")
             /\ UNCHANGED <<length, remote, received>>
          \/ Goto("drain") /\ UNCHANGED <<length, remote, received>>
      BY <2>1, <2>2 DEF Dispatch, j
    <2>4. /\ remote' = remote /\ (rerr' = rerr \/ rerr' # "handshake")
          /\ rpc' \in {"prefix", "id", "drain", "failed", "payload"} /\ (rpc' = "payload" => Checked')
      <3>1. CASE Abort("malformed")
        BY <3>1 DEF Abort, Checked
      <3>2. CASE /\ Supported(j) /\ lengthAllowed(j, length, pieceCount) /\ id' = j /\ Goto("payload")
                 /\ UNCHANGED <<length, remote, received>>
        BY <2>1, <3>2 DEF Goto, Checked, j
      <3>3. CASE Goto("drain") /\ UNCHANGED <<length, remote, received>>
        BY <3>3 DEF Goto, Checked
      <3> QED BY <2>3, <3>1, <3>2, <3>3
    <2> QED BY <2>1, <2>4, PastHandshake, Zenon
  <1>12. CASE UNCHANGED vars
    BY <1>1, <1>12 DEF vars, writerVars
  <1> QED BY <1>2, <1>4, <1>5, <1>6, <1>7, <1>8, <1>9, <1>10, <1>11, <1>12
          DEF Next, writeFull, Reader

\* exchangeHandshake accepts exactly the valid handshakes, and returns their fields.
THEOREM HandshakeIsExact == Spec => []HandshakeExact
  <1>1. ReaderInv => HandshakeExact
    <2>1. "Reserved" \notin DOMAIN Unset
      BY DEF Unset
    <2> QED BY <2>1 DEF ReaderInv, Outcome, HandshakeExact, ValidHandshake, Fields
  <1> QED BY <1>1, InitWriter, NextWriter, InitReader, NextReader, PTL DEF Spec

\* A Request of the right size is refused for its length only.
LEMMA RequestFormat ==
  ASSUME NEW m, m.ID = 6, Len(m.Payload) = 3 * uint32Size
  PROVE  ParseRequest(m).err # "malformed"
  <1>1. Fails("plain").err = "plain"
    BY DEF Fails
  <1>2. CASE Field(m.Payload, 3) \notin 1..MaxBlockSize
    BY <1>1, <1>2 DEF ParseRequest, MessageRequest
  <1>3. CASE Field(m.Payload, 3) \in 1..MaxBlockSize
    BY <1>3 DEF ParseRequest, MessageRequest
  <1> QED BY <1>2, <1>3

\* The format of a message with a known ID.
LEMMA Format ==
  ASSUME NEW m
  PROVE  /\ m.ID \in {0, 1, 2, 3} /\ m.Payload = <<>> => Parses(m)
         /\ m.ID = 4 /\ ParseHave(m).err # "malformed" => Parses(m)
         /\ m.ID = 5 /\ Len(m.Payload) = bitfieldByteCount(pieceCount) => Parses(m)
         /\ m.ID = 6 /\ ParseRequest(m).err # "malformed" => Parses(m)
         /\ m.ID = 7 /\ ParsePiece(m).err # "malformed" => Parses(m)
         /\ m.ID = 8 /\ ParseRequest(Message(6, m.Payload)).err # "malformed" => Parses(m)
  <1> USE DEF Parses, Stateless, MessageChoke, MessageUnchoke, MessageInterested,
              MessageNotInterested, MessageHave, MessageBitfield, MessageRequest,
              MessagePiece, MessageCancel, Supported
  <1>1. ASSUME m.ID \in {0, 1, 2, 3}, m.Payload = <<>> PROVE Parses(m)
    <2>0. CASE m.ID = 0
      BY <1>1, <2>0
    <2>1. CASE m.ID = 1
      BY <1>1, <2>1
    <2>2. CASE m.ID = 2
      BY <1>1, <2>2
    <2>3. CASE m.ID = 3
      BY <1>1, <2>3
    <2> QED BY <1>1, <2>0, <2>1, <2>2, <2>3
  <1>2. ASSUME m.ID = 4, ParseHave(m).err # "malformed" PROVE Parses(m)
    BY <1>2
  <1>3. ASSUME m.ID = 5, Len(m.Payload) = bitfieldByteCount(pieceCount) PROVE Parses(m)
    BY <1>3
  <1>4. ASSUME m.ID = 6, ParseRequest(m).err # "malformed" PROVE Parses(m)
    BY <1>4
  <1>5. ASSUME m.ID = 7, ParsePiece(m).err # "malformed" PROVE Parses(m)
    BY <1>5
  <1>6. ASSUME m.ID = 8, ParseRequest(Message(6, m.Payload)).err # "malformed" PROVE Parses(m)
    BY <1>6
  <1> QED BY <1>1, <1>2, <1>3, <1>4, <1>5, <1>6

\* ReadFrame allocates only what the parser of the message accepts.
THEOREM LengthCheckedFirst == Spec => []CheckedBeforeAllocation
  <1>1. WriterInv /\ ReaderInv => CheckedBeforeAllocation
    <2> SUFFICES ASSUME WriterInv, Checked PROVE Parses(Message(id, [k \in 1..(length - 1) |-> 0]))
      BY DEF CheckedBeforeAllocation, ReaderInv
    <2> DEFINE payload == [k \in 1..(length - 1) |-> 0]
               m == Message(id, payload)
    <2>1. id \in Byte /\ id \in {0, 1, 2, 3, 4, 5, 6, 7, 8} /\ lengthAllowed(id, length, pieceCount)
      BY Known DEF Checked
    <2>2. m.ID = id /\ m.Payload = payload
      BY DEF Message
    <2>3. pieceCount \in Nat
      BY WireAssumption DEF WriterInv, WireAssumption
    <2>4. bitfieldByteCount(pieceCount) \in Nat
      BY <2>3, SizesNat DEF bitfieldByteCount
    <2>5. /\ id \in {0, 1, 2, 3} => length = 1
          /\ id = 4 => length = 1 + uint32Size
          /\ id = 5 => length = 1 + bitfieldByteCount(pieceCount)
          /\ id \in {6, 8} => length = 1 + 3 * uint32Size
          /\ id = 7 => length \in (1 + 2 * uint32Size)..(1 + 2 * uint32Size + MaxBlockSize)
      BY <2>1, Allowed
    <2>6. length - 1 \in Nat
      BY <2>1, <2>4, <2>5, SizesNat
    <2>7. payload \in Seq({0}) /\ Len(payload) = length - 1
      BY <2>6
    <2> HIDE DEF payload, m
    <2>8. ASSUME id \in {0, 1, 2, 3} PROVE Parses(m)
      <3>1. payload = <<>>
        BY <2>5, <2>7, <2>8
      <3> QED BY <2>2, <2>8, <3>1, Format
    <2>9. ASSUME id = 4 PROVE Parses(m)
      <3>1. Len(m.Payload) = uint32Size
        BY <2>2, <2>5, <2>7, <2>9, SizesNat
      <3>2. ParseHave(m).err # "malformed"
        BY <2>2, <2>9, <3>1 DEF ParseHave, MessageHave
      <3> QED BY <2>2, <2>9, <3>2, Format
    <2>10. ASSUME id = 5 PROVE Parses(m)
      <3>1. Len(m.Payload) = bitfieldByteCount(pieceCount)
        BY <2>2, <2>4, <2>5, <2>7, <2>10
      <3> QED BY <2>2, <2>10, <3>1, Format
    <2>11. ASSUME id = 6 PROVE Parses(m)
      <3>1. Len(m.Payload) = 3 * uint32Size
        BY <2>2, <2>5, <2>7, <2>11, SizesNat
      <3>2. ParseRequest(m).err # "malformed"
        BY <2>2, <2>11, <3>1, RequestFormat
      <3> QED BY <2>2, <2>11, <3>2, Format
    <2>12. ASSUME id = 8 PROVE Parses(m)
      <3> DEFINE q == Message(6, m.Payload)
      <3>1. Len(m.Payload) = 3 * uint32Size
        BY <2>2, <2>5, <2>7, <2>12, SizesNat
      <3>2. q.ID = 6 /\ q.Payload = m.Payload
        BY DEF Message
      <3>3. ParseRequest(q).err # "malformed"
        BY <3>1, <3>2, RequestFormat
      <3> QED BY <2>2, <2>12, <3>3, Format
    <2>13. ASSUME id = 7 PROVE Parses(m)
      <3>1. Len(payload) >= 2 * uint32Size /\ Len(payload) <= 2 * uint32Size + MaxBlockSize
        BY <2>5, <2>7, <2>13, SizesNat
      <3>2. Len(Rest(payload, 2)) <= MaxBlockSize
        BY <2>7, <3>1, SizesNat, SubSeqProperties DEF Rest
      <3>3. ParsePiece(m).err # "malformed"
        <4>1. m.ID = MessagePiece /\ ~(Len(m.Payload) < 2 * uint32Size)
          BY <2>2, <2>7, <2>13, <3>1, SizesNat DEF MessagePiece
        <4>2. ~(Len(Rest(m.Payload, 2)) > MaxBlockSize)
          <5>1. Len(Rest(payload, 2)) \in Nat
            BY <2>7, <3>1, SizesNat, SubSeqProperties DEF Rest
          <5> QED BY <2>2, <3>2, <5>1, SizesNat
        <4> QED BY <4>1, <4>2 DEF ParsePiece
      <3> QED BY <2>2, <2>13, <3>3, Format
    <2> QED BY <2>1, <2>8, <2>9, <2>10, <2>11, <2>12, <2>13 DEF m, payload
  <1> QED BY <1>1, InitWriter, NextWriter, InitReader, NextReader, PTL DEF Spec
=============================================================================
