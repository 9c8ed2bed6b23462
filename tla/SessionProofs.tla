--------------------------- MODULE SessionProofs ----------------------------
(***************************************************************************)
(* Proofs that a session keeps its promises for every piece count, block   *)
(* size, integer width and piece length: first whatever the peer sends     *)
(* (Session), then with a well-behaved peer and any number of messages     *)
(* under way in both directions (Transfer).                                *)
(***************************************************************************)
EXTENDS SessionProps, Transfer, SequenceTheorems, TLAPS

\* Until the Bitfield window closes the peer has advertised nothing.
WindowShape == bitfieldAllowed => peerPieces = {}

\* What each control point of FetchPiece has established.
ReadyShape ==
    /\ pc # "idle" => piece.Index \in Pieces /\ piece.Length > 0
    /\ pc = "unchoke" => HasPiece /\ interested
    /\ pc \in {"request", "await"} => ~choked /\ HasPiece /\ interested

\* The offset behind the last delivered block.
End == IF delivered = <<>> THEN 0
       ELSE delivered[Len(delivered)].offset + delivered[Len(delivered)].block.length

\* Progress of the block loop at each control point.
LoopShape ==
    /\ pc \in {"advertise", "unchoke"} =>
           blockOffset = 0 /\ requested = <<>> /\ delivered = <<>>
    /\ pc \in {"request", "await"} => blockOffset < piece.Length /\ End = blockOffset
    /\ pc = "request" => Len(requested) = Len(delivered)
    /\ pc = "await" => /\ Len(requested) = Len(delivered) + 1
                       /\ requested[Len(requested)] =
                              [begin |-> blockOffset, length |-> blockLength]
    /\ result = "ok" => pc = "idle" /\ delivered # <<>> /\ End = piece.Length

\* The part of BlocksTilePiece about the blocks themselves.
Tiled ==
    \A k \in 1..Len(delivered) :
        /\ delivered[k].offset = (IF k = 1 THEN 0
               ELSE delivered[k - 1].offset + delivered[k - 1].block.length)
        /\ delivered[k].offset + delivered[k].block.length <= piece.Length

IInv == /\ TypeOK /\ WindowShape /\ ReadyShape
        /\ LoopShape /\ Tiled /\ BlocksAnswerRequests

-----------------------------------------------------------------------------
(* Facts about the operators.                                              *)

\* The arguments of the messages that change the session.
LEMMA MessageShape ==
    ASSUME NEW m \in Messages
    PROVE  /\ m.id = "bitfield" => m.pieces \subseteq Pieces
           /\ m.id = "have" => m.index \in 0..pieceCount
BY SessionAssumption DEF Messages

\* Reading a message closes the Bitfield window, adds pieces only, and chokes
\* the session only if it is a Choke.
LEMMA ReadEffect ==
    ASSUME TypeOK, WindowShape, NEW m \in Messages, Read(m)
    PROVE  /\ choked' \in BOOLEAN /\ bitfieldAllowed' = FALSE
           /\ peerPieces' \subseteq Pieces /\ peerPieces \subseteq peerPieces'
           /\ ~choked /\ m.id # "choke" => ~choked'
<1>1. choked' \in BOOLEAN /\ bitfieldAllowed' = FALSE
      /\ (~choked /\ m.id # "choke" => ~choked')
  BY DEF Read, TypeOK
<1>2. CASE ReadError(m) # "nil"
  <2>1. peerPieces' = peerPieces
    BY <1>2 DEF Read
  <2> QED
    BY <1>1, <2>1 DEF TypeOK
<1>3. CASE ReadError(m) = "nil" /\ m.id = "bitfield"
  <2>1. peerPieces' = m.pieces
    BY <1>3 DEF Read
  <2>2. bitfieldAllowed
    BY <1>3 DEF ReadError, IsBitfield
  <2> QED
    BY <1>1, <1>3, <2>1, <2>2, MessageShape DEF WindowShape
<1>4. CASE ReadError(m) = "nil" /\ m.id = "have"
  <2>1. peerPieces' = peerPieces \cup {m.index}
    BY <1>4 DEF Read
  <2>2. m.index \in 0..pieceCount /\ ~(m.index >= pieceCount)
    BY <1>4, MessageShape DEF ReadError, IsBitfield
  <2>3. m.index \in Pieces
    BY <2>2, SessionAssumption DEF Pieces
  <2> QED
    BY <1>1, <2>1, <2>3 DEF TypeOK
<1>5. CASE ReadError(m) = "nil" /\ m.id \notin {"bitfield", "have"}
  <2>1. peerPieces' = peerPieces
    BY <1>5 DEF Read
  <2> QED
    BY <1>1, <2>1 DEF TypeOK
<1> QED
  BY <1>2, <1>3, <1>4, <1>5

\* Reducing a number that fits the width changes nothing.
LEMMA ModSmall ==
    ASSUME NEW n \in Nat, NEW d \in Nat \ {0}, n < d
    PROVE  n % d = n
OBVIOUS

\* A remainder fits the width.
LEMMA ModRange ==
    ASSUME NEW n \in Int, NEW d \in Nat \ {0}
    PROVE  n % d \in 0..(d - 1)
OBVIOUS

\* blockLength is the smaller of MaxBlockSize and what is left, and adding it
\* to the offset does not wrap.
LEMMA BlockLengthFits ==
    ASSUME TypeOK, blockOffset < piece.Length
    PROVE  /\ blockLength \in 1..MaxBlockSize
           /\ blockOffset + blockLength <= piece.Length
           /\ (blockOffset + blockLength) % UintSize = blockOffset + blockLength
<1> USE SessionAssumption DEF TypeOK, Uint
<1>1. (piece.Length - blockOffset) % UintSize = piece.Length - blockOffset
  <2>1. piece.Length - blockOffset \in Nat /\ piece.Length - blockOffset < UintSize
    OBVIOUS
  <2> QED
    BY <2>1, ModSmall
<1>2. blockLength \in 1..MaxBlockSize /\ blockOffset + blockLength <= piece.Length
  BY <1>1 DEF blockLength
<1>3. blockOffset + blockLength \in Nat /\ blockOffset + blockLength < UintSize
  BY <1>2
<1> QED
  BY <1>2, <1>3, ModSmall, UintSize \in Nat \ {0}

\* blockLength never exceeds MaxBlockSize.
LEMMA BlockLengthType ==
    ASSUME TypeOK
    PROVE  blockLength \in 0..MaxBlockSize
<1>1. piece.Length - blockOffset \in Int /\ UintSize \in Nat \ {0}
  BY SessionAssumption DEF TypeOK, Uint
<1>2. (piece.Length - blockOffset) % UintSize \in 0..(UintSize - 1)
  BY <1>1, ModRange
<1> QED
  BY <1>2, SessionAssumption DEF blockLength

-----------------------------------------------------------------------------
(* The invariant.                                                          *)

\* A new session satisfies the invariant.
LEMMA InitInv == Init => IInv
<1> SUFFICES ASSUME Init PROVE IInv
  OBVIOUS
<1>1. TypeOK
  <2>1. 0 \in Uint /\ piece \in [Index : 0..pieceCount, Length : Uint]
    BY SessionAssumption DEF Init, Uint
  <2>2. requested = <<>> /\ delivered = <<>>
    BY DEF Init
  <2>3. /\ requested \in Seq([begin : Uint, length : 1..MaxBlockSize])
        /\ delivered \in Seq([offset : Uint, block : Messages])
    BY <2>2
  <2>4. choked \in BOOLEAN /\ bitfieldAllowed \in BOOLEAN
        /\ usable \in BOOLEAN /\ interested \in BOOLEAN
    BY DEF Init
  <2> QED
    BY <2>1, <2>3, <2>4 DEF Init, TypeOK
<1> QED
  BY <1>1 DEF Init, IInv, WindowShape, ReadyShape, LoopShape, Tiled,
              BlocksAnswerRequests

\* What a call of FetchPiece can return.
Results == {"none", "ok", "argument", "context", "watch", "unavailable",
            "choked", "callback", "io", "malformed", "protocol"}

\* The error of Read is one of the results.
LEMMA ReadErrorType ==
    ASSUME NEW m \in Messages
    PROVE  ReadError(m) \in {"nil", "malformed", "protocol"}
BY DEF ReadError

\* A step that reads a message outside the block loop keeps the loop's state and
\* either stays, or returns an error.
LEMMA SetupRead ==
    ASSUME TypeOK, NEW m \in Messages,
           ReadAdvertisement(m) \/ ReadUnchoke(m)
    PROVE  /\ Read(m) /\ UNCHANGED callVars /\ pc \in {"advertise", "unchoke"}
           /\ \/ UNCHANGED <<pc, result, usable>>
              \/ /\ pc' = "idle" /\ usable' \in BOOLEAN
                 /\ result' \in Results \ {"ok"}
<1> USE ReadErrorType DEF Fail, FailIO, Refuse, Return, Stay, TypeOK, Results
<1>1. CASE ReadAdvertisement(m)
  BY <1>1 DEF ReadAdvertisement
<1>2. CASE ReadUnchoke(m)
  BY <1>2 DEF ReadUnchoke
<1> QED
  BY <1>1, <1>2

\* A message read while a block is awaited keeps the loop waiting, returns an
\* error, or is the block.
LEMMA AwaitRead ==
    ASSUME TypeOK, NEW m \in Messages, AwaitBlock(m)
    PROVE  /\ Read(m) /\ pc = "await" /\ UNCHANGED <<piece, interested, requested>>
           /\ \/ /\ UNCHANGED <<pc, result, usable, delivered, blockOffset>>
                 /\ m.id # "choke"
              \/ /\ pc' = "idle" /\ usable' \in BOOLEAN
                 /\ result' \in Results \ {"ok"}
                 /\ UNCHANGED <<delivered, blockOffset>>
              \/ m.id = "piece" /\ MatchesRequest(m) /\ AcceptBlock(m)
<1> USE ReadErrorType DEF Fail, FailIO, Refuse, Return, Stay, TypeOK, Results
<1>1. Read(m) /\ pc = "await" /\ UNCHANGED <<piece, interested, requested>> /\ OnMessage(m)
  BY DEF AwaitBlock
<1>2. CASE ReadError(m) # "nil"
  <2>1. m.id \notin {"choke", "piece"}
    BY <1>2 DEF ReadError, IsBitfield
  <2>2. FailIO(ReadError(m)) /\ UNCHANGED <<delivered, blockOffset>>
    BY <1>1, <1>2, <2>1 DEF OnMessage
  <2> QED
    BY <1>1, <1>2, <2>2
<1>3. CASE ReadError(m) = "nil" /\ m.id = "choke"
  BY <1>1, <1>3 DEF OnMessage
<1>4. CASE ReadError(m) = "nil" /\ m.id = "piece"
  <2>1. ReceiveBlock(m)
    BY <1>1, <1>4 DEF OnMessage
  <2> QED
    BY <1>1, <1>4, <2>1 DEF ReceiveBlock
<1>5. CASE ReadError(m) = "nil" /\ m.id \notin {"choke", "piece"}
  BY <1>1, <1>5 DEF OnMessage
<1> QED
  BY <1>2, <1>3, <1>4, <1>5

-----------------------------------------------------------------------------
(* Preservation, one lemma per kind of step.                               *)

\* The history conjuncts depend on the call's variables only.
LEMMA CallKept ==
    ASSUME UNCHANGED callVars
    PROVE  /\ Tiled' <=> Tiled
           /\ BlocksAnswerRequests' <=> BlocksAnswerRequests
           /\ End' = End /\ blockLength' = blockLength
BY DEF callVars, Tiled, BlocksAnswerRequests, End, blockLength

\* Starting a call resets the loop.
LEMMA FetchPieceStep ==
    ASSUME IInv, NEW i \in 0..pieceCount, NEW length \in Lengths,
           FetchPiece(i, length)
    PROVE  IInv'
<1> USE SessionAssumption DEF FetchPiece, Refuse, Return, fieldVars
<1>1. TypeOK'
  <2>1. piece' \in [Index : 0..pieceCount, Length : Uint] /\ blockOffset' \in Uint
    BY DEF Uint
  <2>2. requested' = <<>> /\ delivered' = <<>> /\ interested' = FALSE
    OBVIOUS
  <2>3. /\ requested' \in Seq([begin : Uint, length : 1..MaxBlockSize])
        /\ delivered' \in Seq([offset : Uint, block : Messages])
    BY <2>2
  <2>4. usable' \in BOOLEAN /\ interested' \in BOOLEAN
    BY <2>2 DEF IInv, TypeOK
  <2> QED
    BY <2>1, <2>3, <2>4 DEF IInv, TypeOK
<1>2. /\ piece' = [Index |-> i, Length |-> length] /\ blockOffset' = 0
      /\ requested' = <<>> /\ delivered' = <<>>
      /\ \/ pc' = "idle" /\ result' # "ok"
         \/ pc' = "advertise" /\ result' = "none" /\ ~(i >= pieceCount) /\ length # 0
  OBVIOUS
<1> HIDE DEF FetchPiece
<1>3. ReadyShape'
  <2>1. pc' = "advertise" => i \in Pieces /\ length > 0
    BY <1>2 DEF Pieces
  <2> QED
    BY <1>2, <2>1 DEF ReadyShape
<1>4. LoopShape'
  BY <1>2 DEF LoopShape
<1>5. Tiled' /\ BlocksAnswerRequests'
  <2>1. Len(delivered') = 0 /\ Len(requested') = 0
    BY <1>2
  <2> QED
    BY <2>1 DEF Tiled, BlocksAnswerRequests
<1>6. WindowShape'
  BY DEF IInv, WindowShape, FetchPiece
<1> QED
  BY <1>1, <1>3, <1>4, <1>5, <1>6 DEF IInv

\* A step that leaves the call's variables alone and stays or returns an error,
\* and reads nothing or a message outside the block loop.
LEMMA QuietStep ==
    ASSUME IInv, UNCHANGED callVars,
           \/ UNCHANGED <<pc, result>>
           \/ pc' = "idle" /\ result' \in Results \ {"ok"},
           usable' \in BOOLEAN,
           \/ UNCHANGED fieldVars
           \/ pc \in {"idle", "advertise", "unchoke"} /\ \E m \in Messages : Read(m)
    PROVE  IInv'
<1>1. /\ choked' \in BOOLEAN /\ bitfieldAllowed' \in BOOLEAN
      /\ peerPieces' \subseteq Pieces /\ peerPieces \subseteq peerPieces'
      /\ WindowShape' /\ (choked' # choked => pc \in {"idle", "advertise", "unchoke"})
  <2>1. CASE UNCHANGED fieldVars
    BY <2>1 DEF IInv, TypeOK, fieldVars, WindowShape
  <2>2. CASE pc \in {"idle", "advertise", "unchoke"} /\ \E m \in Messages : Read(m)
    BY <2>2, ReadEffect DEF IInv, WindowShape
  <2> QED
    BY <2>1, <2>2
<1>2. TypeOK'
  BY <1>1 DEF IInv, TypeOK, callVars, Results
<1>3. ReadyShape'
  BY <1>1 DEF IInv, ReadyShape, HasPiece, callVars
<1>4. LoopShape'
  BY CallKept DEF IInv, LoopShape, callVars
<1> QED
  BY <1>1, <1>2, <1>3, <1>4, CallKept DEF IInv

\* Sending Interested changes no other part of the call.
LEMMA SendInterestedStep == IInv /\ SendInterested => IInv'
<1> SUFFICES ASSUME IInv, SendInterested PROVE IInv'
  OBVIOUS
<1>1. CASE pc' = "unchoke" /\ interested' = TRUE /\ UNCHANGED <<result, usable>>
  <2>1. /\ pc = "advertise" /\ HasPiece
        /\ UNCHANGED <<choked, peerPieces, bitfieldAllowed, usable, result, piece,
                       blockOffset, requested, delivered>>
    BY <1>1 DEF SendInterested, fieldVars
  <2>2. TypeOK' /\ WindowShape'
    BY <1>1, <2>1 DEF IInv, TypeOK, WindowShape
  <2>3. ReadyShape'
    BY <1>1, <2>1 DEF IInv, ReadyShape, HasPiece
  <2>4. LoopShape'
    BY <1>1, <2>1 DEF IInv, LoopShape
  <2>5. Tiled' /\ BlocksAnswerRequests'
    BY <2>1 DEF IInv, Tiled, BlocksAnswerRequests
  <2> QED
    BY <2>2, <2>3, <2>4, <2>5 DEF IInv
<1>2. CASE FailIO("io") /\ UNCHANGED interested
  BY <1>2, QuietStep DEF SendInterested, FailIO, Fail, Return, callVars, Results
<1> QED
  BY <1>1, <1>2 DEF SendInterested

\* The end of the setup enters the block loop at the first block.
LEMMA SetupDoneStep == IInv /\ SetupDone => IInv'
<1> SUFFICES ASSUME IInv, SetupDone PROVE IInv'
  OBVIOUS
<1>1. CASE pc' = "request" /\ UNCHANGED <<result, usable>>
  <2>1. pc = "unchoke" /\ ~choked /\ UNCHANGED callVars /\ UNCHANGED fieldVars
    BY DEF SetupDone
  <2>2. TypeOK' /\ WindowShape'
    BY <1>1, <2>1 DEF IInv, TypeOK, WindowShape, callVars, fieldVars
  <2>3. ReadyShape'
    BY <1>1, <2>1 DEF IInv, ReadyShape, HasPiece, callVars, fieldVars
  <2>4. LoopShape'
    BY <1>1, <2>1 DEF IInv, LoopShape, ReadyShape, callVars, End
  <2> QED
    BY <2>1, <2>2, <2>3, <2>4, CallKept DEF IInv
<1>2. CASE Refuse("context")
  BY <1>2, QuietStep DEF SetupDone, Refuse, Return, Results, IInv, TypeOK
<1> QED
  BY <1>1, <1>2 DEF SetupDone

\* A request is recorded for the bytes behind the last delivered block.
LEMMA RequestBlockStep == IInv /\ RequestBlock => IInv'
<1> SUFFICES ASSUME IInv, RequestBlock PROVE IInv'
  OBVIOUS
<1>1. CASE UNCHANGED requested /\ pc' = "idle" /\ usable' \in BOOLEAN
           /\ result' \in Results \ {"ok"}
  BY <1>1, QuietStep DEF RequestBlock, callVars
<1>2. CASE /\ pc' = "await" /\ UNCHANGED <<result, usable>>
           /\ requested' = Append(requested,
                               [begin |-> blockOffset, length |-> blockLength])
  <2>1. /\ pc = "request"
        /\ UNCHANGED <<choked, peerPieces, bitfieldAllowed, piece, blockOffset,
                       interested, delivered>>
    BY DEF RequestBlock, fieldVars
  <2>2. blockOffset < piece.Length /\ Len(requested) = Len(delivered)
    BY <2>1 DEF IInv, LoopShape
  <2>3. [begin |-> blockOffset, length |-> blockLength]
            \in [begin : Uint, length : 1..MaxBlockSize]
    BY <2>2, BlockLengthFits DEF IInv, TypeOK
  <2>4. requested \in Seq([begin : Uint, length : 1..MaxBlockSize])
    BY DEF IInv, TypeOK
  <2>5. /\ requested' \in Seq([begin : Uint, length : 1..MaxBlockSize])
        /\ Len(requested') = Len(requested) + 1
        /\ \A k \in 1..Len(requested) : requested'[k] = requested[k]
        /\ requested'[Len(requested')] =
               [begin |-> blockOffset, length |-> blockLength]
    BY <1>2, <2>3, <2>4
  <2>6. TypeOK' /\ WindowShape'
    BY <1>2, <2>1, <2>5 DEF IInv, TypeOK, WindowShape
  <2>7. ReadyShape'
    BY <1>2, <2>1 DEF IInv, ReadyShape, HasPiece
  <2>8. LoopShape'
    BY <1>2, <2>1, <2>2, <2>5 DEF IInv, LoopShape, End, blockLength
  <2>9. Tiled'
    BY <2>1 DEF IInv, Tiled
  <2>10. BlocksAnswerRequests'
    <3>1. Len(delivered) \in Nat
      BY DEF IInv, TypeOK
    <3> QED
      BY <2>1, <2>2, <2>5, <3>1 DEF IInv, BlocksAnswerRequests
  <2> QED
    BY <2>6, <2>7, <2>8, <2>9, <2>10 DEF IInv
<1> QED
  BY <1>1, <1>2 DEF RequestBlock, Refuse, FailIO, Fail, Return, Results, IInv, TypeOK

\* An accepted block extends the tiling by the bytes that were requested.
LEMMA AcceptStep ==
    ASSUME IInv, NEW m \in Messages, Read(m), pc = "await",
           UNCHANGED <<piece, interested, requested>>,
           m.id = "piece", MatchesRequest(m), AcceptBlock(m)
    PROVE  IInv'
<1> DEFINE n == Len(delivered)
           new == [offset |-> blockOffset, block |-> m]
<1>1. /\ blockOffset < piece.Length /\ End = blockOffset
      /\ Len(requested) = n + 1
      /\ requested[n + 1] = [begin |-> blockOffset, length |-> blockLength]
  BY DEF IInv, LoopShape
<1>2. /\ blockLength \in 1..MaxBlockSize
      /\ blockOffset + blockLength <= piece.Length
      /\ blockOffset' = blockOffset + blockLength
  BY <1>1, BlockLengthFits DEF IInv, AcceptBlock
<1>3. m.index = piece.Index /\ m.begin = blockOffset /\ m.length = blockLength
  BY DEF MatchesRequest
<1>4. blockOffset \in Nat /\ piece.Length \in Nat /\ n \in Nat /\ blockOffset \in Uint
      /\ piece.Length \in Uint
  BY SessionAssumption DEF IInv, TypeOK, Uint
<1>5. /\ delivered' \in Seq([offset : Uint, block : Messages])
      /\ Len(delivered') = n + 1 /\ delivered' # <<>>
      /\ \A k \in 1..n : delivered'[k] = delivered[k]
      /\ delivered'[n + 1] = new
  <2>1. delivered' = Append(delivered, new)
    BY DEF AcceptBlock
  <2>2. delivered \in Seq([offset : Uint, block : Messages])
        /\ new \in [offset : Uint, block : Messages]
    BY <1>4 DEF IInv, TypeOK
  <2> QED
    BY <2>1, <2>2
<1>6. End' = blockOffset'
  BY <1>2, <1>3, <1>5 DEF End
<1>7. \/ /\ pc' = "request" /\ UNCHANGED <<result, usable>>
         /\ blockOffset' < piece.Length
      \/ /\ pc' = "idle" /\ result' = "ok" /\ UNCHANGED usable
         /\ blockOffset' = piece.Length
  <2>1. blockOffset' < piece.Length \/ blockOffset' = piece.Length
    BY <1>2, <1>4
  <2> QED
    BY <2>1, <1>2, <1>4 DEF AcceptBlock, Refuse, Return
<1>8. choked' \in BOOLEAN /\ bitfieldAllowed' = FALSE /\ peerPieces' \subseteq Pieces
      /\ peerPieces \subseteq peerPieces' /\ (~choked => ~choked')
  BY ReadEffect DEF IInv
<1>9. TypeOK' /\ WindowShape'
  <2>1. blockOffset' \in Uint
    BY <1>2, <1>4, SessionAssumption DEF Uint
  <2> QED
    BY <1>5, <1>7, <1>8, <2>1 DEF IInv, TypeOK, WindowShape
<1>10. ReadyShape'
  BY <1>7, <1>8 DEF IInv, ReadyShape, HasPiece
<1>11. LoopShape'
  <2>1. result # "ok"
    BY DEF IInv, LoopShape
  <2> QED
    BY <1>1, <1>4, <1>5, <1>6, <1>7, <2>1 DEF LoopShape
<1>12. Tiled'
  <2> SUFFICES ASSUME NEW k \in 1..(n + 1)
               PROVE  /\ delivered'[k].offset = (IF k = 1 THEN 0
                          ELSE delivered'[k - 1].offset + delivered'[k - 1].block.length)
                      /\ delivered'[k].offset + delivered'[k].block.length <= piece.Length
    BY <1>5 DEF Tiled
  <2>1. CASE k \in 1..n
    <3>1. delivered'[k] = delivered[k]
      BY <1>5, <2>1
    <3>2. k # 1 => delivered'[k - 1] = delivered[k - 1]
      BY <1>4, <1>5, <2>1
    <3>3. /\ delivered[k].offset = (IF k = 1 THEN 0
                 ELSE delivered[k - 1].offset + delivered[k - 1].block.length)
          /\ delivered[k].offset + delivered[k].block.length <= piece.Length
      BY <2>1 DEF IInv, Tiled
    <3> QED
      BY <3>1, <3>2, <3>3
  <2>2. CASE k = n + 1
    <3>1. delivered'[k].offset = blockOffset /\ delivered'[k].block.length = blockLength
      BY <1>3, <1>5, <2>2
    <3>2. CASE n = 0
      <4>1. delivered = <<>>
        BY <3>2 DEF IInv, TypeOK
      <4> QED
        BY <1>1, <1>2, <2>2, <3>1, <3>2, <4>1 DEF End
    <3>3. CASE n # 0
      <4>1. delivered # <<>> /\ delivered'[n] = delivered[n] /\ k - 1 = n /\ k # 1
        BY <1>4, <1>5, <2>2, <3>3
      <4> QED
        BY <1>1, <1>2, <3>1, <4>1 DEF End
    <3> QED
      BY <3>2, <3>3
  <2> QED
    BY <2>1, <2>2, <1>4
<1>13. BlocksAnswerRequests'
  <2>1. Len(requested') - Len(delivered') = 0
    BY <1>1, <1>4, <1>5
  <2> SUFFICES ASSUME NEW k \in 1..(n + 1)
               PROVE  /\ delivered'[k].block.index = piece.Index
                      /\ delivered'[k].block.begin = requested[k].begin
                      /\ delivered'[k].block.length = requested[k].length
                      /\ delivered'[k].offset = requested[k].begin
    BY <1>5, <2>1 DEF BlocksAnswerRequests
  <2>2. CASE k \in 1..n
    BY <1>5, <2>2 DEF IInv, BlocksAnswerRequests
  <2>3. CASE k = n + 1
    BY <1>1, <1>3, <1>5, <2>3
  <2> QED
    BY <1>4, <2>2, <2>3
<1> QED
  BY <1>9, <1>10, <1>11, <1>12, <1>13 DEF IInv

\* Reading a message in the block loop.
LEMMA AwaitStep ==
    ASSUME IInv, NEW m \in Messages, AwaitBlock(m)
    PROVE  IInv'
<1>1. /\ choked' \in BOOLEAN /\ bitfieldAllowed' = FALSE
      /\ peerPieces' \subseteq Pieces /\ peerPieces \subseteq peerPieces'
      /\ (~choked /\ m.id # "choke" => ~choked')
  BY AwaitRead, ReadEffect DEF IInv
<1>2. /\ Read(m) /\ pc = "await" /\ UNCHANGED <<piece, interested, requested>>
  BY AwaitRead DEF IInv
<1>3. CASE UNCHANGED <<delivered, blockOffset>>
           /\ (\/ UNCHANGED <<pc, result, usable>> /\ m.id # "choke"
               \/ pc' = "idle" /\ usable' \in BOOLEAN /\ result' \in Results \ {"ok"})
  <2>1. UNCHANGED callVars
    BY <1>2, <1>3 DEF callVars
  <2>2. TypeOK' /\ WindowShape'
    BY <1>1, <1>2, <1>3 DEF IInv, TypeOK, WindowShape, Results
  <2>3. ReadyShape'
    BY <1>1, <1>2, <1>3 DEF IInv, ReadyShape, HasPiece
  <2>4. LoopShape'
    BY <1>2, <1>3, <2>1, CallKept DEF IInv, LoopShape
  <2> QED
    BY <2>1, <2>2, <2>3, <2>4, CallKept DEF IInv
<1>4. CASE m.id = "piece" /\ MatchesRequest(m) /\ AcceptBlock(m)
  BY <1>2, <1>4, AcceptStep
<1> QED
  BY <1>3, <1>4, AwaitRead DEF IInv

-----------------------------------------------------------------------------
\* Every step preserves the invariant.
LEMMA NextInv == IInv /\ [Next]_vars => IInv'
<1> SUFFICES ASSUME IInv, [Next]_vars PROVE IInv'
  OBVIOUS
<1>1. ASSUME NEW m \in Messages, ReadIdle(m) PROVE IInv'
  <2>1. usable' \in BOOLEAN
    BY <1>1 DEF ReadIdle
  <2> QED
    BY <1>1, <2>1, QuietStep DEF ReadIdle
<1>2. CASE ReadIdleFails
  BY <1>2, QuietStep DEF ReadIdleFails
<1>3. ASSUME NEW m \in Messages, ReadAdvertisement(m) \/ ReadUnchoke(m) PROVE IInv'
  <2>1. usable' \in BOOLEAN
    BY <1>3, SetupRead DEF IInv, TypeOK
  <2> QED
    BY <1>3, <2>1, SetupRead, QuietStep DEF IInv
<1>4. ASSUME NEW e \in {"io", "malformed"}, ReadFails(e) PROVE IInv'
  BY <1>4, QuietStep DEF ReadFails, FailIO, Fail, Return, Results
<1>5. CASE UNCHANGED vars
  <2>1. usable' \in BOOLEAN /\ UNCHANGED callVars /\ UNCHANGED <<pc, result>>
        /\ UNCHANGED fieldVars
    BY <1>5 DEF vars, IInv, TypeOK
  <2> QED
    BY <2>1, QuietStep
<1> QED
  BY <1>1, <1>2, <1>3, <1>4, <1>5, FetchPieceStep, SendInterestedStep, SetupDoneStep,
     RequestBlockStep, AwaitStep DEF Next

-----------------------------------------------------------------------------
(* The theorems.                                                           *)

\* The invariant holds throughout.
LEMMA Invariance == Spec => []IInv
BY InitInv, NextInv, PTL DEF Spec

\* All variables keep their ranges, offsets their integer width.
THEOREM SessionTypeCorrect == Spec => []TypeOK
<1>1. IInv => TypeOK
  BY DEF IInv
<1> QED
  BY <1>1, Invariance, PTL

\* Blocks are requested only from a peer that has unchoked us and advertised
\* the piece.
THEOREM ServedRequests == Spec => []RequestsOnlyWhenServed
<1>1. IInv => RequestsOnlyWhenServed
  BY DEF IInv, ReadyShape, RequestsOnlyWhenServed
<1> QED
  BY <1>1, Invariance, PTL

\* For every piece length up to the limit of the integer width, the delivered
\* blocks tile the piece.
THEOREM BlocksTile == Spec => []BlocksTilePiece
<1>1. IInv => BlocksTilePiece
  BY DEF IInv, Tiled, LoopShape, End, BlocksTilePiece
<1> QED
  BY <1>1, Invariance, PTL

\* Every delivered block answers the request with the same number.
THEOREM BlocksAnswer == Spec => []BlocksAnswerRequests
<1>1. IInv => BlocksAnswerRequests
  BY DEF IInv
<1> QED
  BY <1>1, Invariance, PTL

\* No step of a session forgets an advertised piece.
THEOREM PiecesKept == Spec => PiecesNeverForgotten
<1>1. IInv /\ [Next]_vars => [peerPieces \subseteq peerPieces']_vars
  <2> SUFFICES ASSUME IInv, Next PROVE peerPieces \subseteq peerPieces'
    OBVIOUS
  <2>1. ASSUME NEW m \in Messages,
               \/ ReadIdle(m) \/ ReadAdvertisement(m) \/ ReadUnchoke(m) \/ AwaitBlock(m)
        PROVE  peerPieces \subseteq peerPieces'
    <3>1. Read(m)
      BY <2>1 DEF ReadIdle, ReadAdvertisement, ReadUnchoke, AwaitBlock
    <3> QED
      BY <3>1, ReadEffect DEF IInv
  <2> QED
    BY <2>1 DEF Next, FetchPiece, SendInterested, SetupDone, RequestBlock, ReadIdleFails,
                ReadFails, fieldVars
<1> QED
  BY <1>1, Invariance, PTL DEF Spec, PiecesNeverForgotten

-----------------------------------------------------------------------------
(* With a well-behaved peer: queues of messages.                           *)

\* A list of messages.
IsList(s) == s \in Seq({s[k] : k \in DOMAIN s})

LEMMA AppendList ==
  ASSUME NEW s, NEW e, IsList(s)
  PROVE  LET t == Append(s, e)
         IN  /\ IsList(t) /\ Len(s) \in Nat /\ Len(t) = Len(s) + 1 /\ t[Len(s) + 1] = e
             /\ \A k \in 1..Len(s) : t[k] = s[k]
  <1> DEFINE S == {s[k] : k \in DOMAIN s} \cup {e}
             t == Append(s, e)
  <1>1. s \in Seq(S) /\ e \in S
    BY DEF IsList
  <1> HIDE DEF S
  <1>2. /\ t \in Seq(S) /\ Len(s) \in Nat /\ Len(t) = Len(s) + 1 /\ t[Len(s) + 1] = e
        /\ \A k \in 1..Len(s) : t[k] = s[k]
    BY <1>1
  <1> HIDE DEF t
  <1>3. IsList(t)
    BY <1>2 DEF IsList
  <1> QED BY <1>2, <1>3 DEF t

LEMMA TailList ==
  ASSUME NEW s, IsList(s), s # <<>>
  PROVE  /\ IsList(Tail(s)) /\ Len(s) \in Nat \ {0} /\ Len(Tail(s)) = Len(s) - 1
         /\ Head(s) = s[1]
         /\ \A k \in 1..Len(Tail(s)) : Tail(s)[k] = s[k + 1]
  <1> DEFINE S == {s[k] : k \in DOMAIN s}
             t == Tail(s)
  <1>1. s \in Seq(S)
    BY DEF IsList
  <1> HIDE DEF S
  <1>2. /\ t \in Seq(S) /\ Len(s) \in Nat \ {0} /\ Len(t) = Len(s) - 1 /\ Head(s) = s[1]
        /\ \A k \in 1..Len(t) : t[k] = s[k + 1]
    BY <1>1, EmptySeq, HeadTailProperties
  <1> HIDE DEF t
  <1>3. IsList(t)
    BY <1>2 DEF IsList
  <1> QED BY <1>2, <1>3 DEF t

\* The positions of a queue after its first message was taken, or one added.
LEMMA TailIndex ==
  ASSUME NEW s, IsList(s), s # <<>>
  PROVE  /\ \A k \in 1..Len(s) : k = 1 \/ (k - 1 \in 1..Len(Tail(s)) /\ Tail(s)[k - 1] = s[k])
         /\ \A k \in 1..Len(Tail(s)) : k + 1 \in 1..Len(s) /\ Tail(s)[k] = s[k + 1]
         /\ 1 \in 1..Len(s)
  <1>1. /\ Len(s) \in Nat \ {0} /\ Len(Tail(s)) = Len(s) - 1
        /\ \A k \in 1..Len(Tail(s)) : Tail(s)[k] = s[k + 1]
    BY TailList
  <1>2. ASSUME NEW k \in 1..Len(s), k # 1
        PROVE  k - 1 \in 1..Len(Tail(s)) /\ Tail(s)[k - 1] = s[k]
    <2>1. k - 1 \in 1..Len(Tail(s)) /\ (k - 1) + 1 = k
      BY <1>1, <1>2
    <2> QED BY <1>1, <2>1
  <1>3. \A k \in 1..Len(Tail(s)) : k + 1 \in 1..Len(s)
    BY <1>1
  <1> QED BY <1>1, <1>2, <1>3

LEMMA AppendIndex ==
  ASSUME NEW s, NEW e, IsList(s)
  PROVE  LET t == Append(s, e)
         IN  /\ \A k \in 1..Len(t) : (k \in 1..Len(s) /\ t[k] = s[k]) \/ (k = Len(s) + 1 /\ t[k] = e)
             /\ \A k \in 1..Len(s) : k \in 1..Len(t)
             /\ Len(s) + 1 \in 1..Len(t)
  BY AppendList

-----------------------------------------------------------------------------
(* What messages under way mean.                                           *)

About(m) == m.id \in {"choke", "unchoke"}

LEMMA ChokedAppend ==
  ASSUME NEW s, NEW m, NEW c, IsList(s)
  PROVE  ChokedAfter(Append(s, m), c) <=> IF About(m) THEN m.id = "choke" ELSE ChokedAfter(s, c)
  <1> DEFINE t == Append(s, m)
             n == Len(s)
  <1>1. /\ n \in Nat /\ Len(t) = n + 1 /\ t[n + 1] = m
        /\ \A k \in 1..n : t[k] = s[k]
    BY AppendList
  <1>2. /\ \A k \in 1..(n + 1) : k \in 1..n \/ k = n + 1
        /\ \A k \in 1..n : k \in 1..(n + 1) /\ ~(k > n + 1) /\ n + 1 > k
        /\ n + 1 \in 1..(n + 1)
    BY <1>1
  <1> HIDE DEF t
  <1>3. CASE About(m)
    <2>1. ChokedAfter(t, c) <=> \E k \in 1..(n + 1) :
              t[k].id = "choke" /\ \A j \in 1..(n + 1) : j > k => ~About(t[j])
      BY <1>1, <1>2, <1>3 DEF ChokedAfter, About
    <2> QED BY <1>1, <1>2, <1>3, <2>1 DEF t, About
  <1>4. CASE ~About(m)
    <2>1. (\E k \in 1..(n + 1) : About(t[k])) <=> \E k \in 1..n : About(s[k])
      BY <1>1, <1>2, <1>4
    <2>2. (\E k \in 1..(n + 1) : t[k].id = "choke" /\ \A j \in 1..(n + 1) : j > k => ~About(t[j]))
          <=> \E k \in 1..n : s[k].id = "choke" /\ \A j \in 1..n : j > k => ~About(s[j])
      <3>1. ~(t[n + 1].id = "choke")
        BY <1>1, <1>4 DEF About
      <3> QED BY <1>1, <1>2, <1>4, <3>1
    <2> QED BY <1>1, <1>4, <2>1, <2>2 DEF ChokedAfter, About, t
  <1> QED BY <1>3, <1>4

\* Reading the first message changes the view, not what is to come.
LEMMA ChokedTail ==
  ASSUME NEW s, NEW c, NEW d, IsList(s), s # <<>>,
         d <=> (s[1].id = "choke" \/ (s[1].id # "unchoke" /\ c))
  PROVE  ChokedAfter(s, c) <=> ChokedAfter(Tail(s), d)
  <1> DEFINE t == Tail(s)
             n == Len(t)
  <1>1. /\ n \in Nat /\ Len(s) = n + 1 /\ \A k \in 1..n : t[k] = s[k + 1]
    BY TailList
  <1>2. /\ \A k \in 1..(n + 1) : k = 1 \/ (k - 1 \in 1..n /\ t[k - 1] = s[k])
        /\ \A k \in 1..n : k + 1 \in 1..(n + 1) /\ t[k] = s[k + 1]
        /\ 1 \in 1..(n + 1)
    BY <1>1, TailIndex
  <1> HIDE DEF t
  <1>3. CASE \E k \in 1..n : About(t[k])
    <2>1. \E k \in 1..(n + 1) : About(s[k])
      BY <1>2, <1>3
    <2>2. ASSUME NEW k \in 1..n, t[k].id = "choke", \A j \in 1..n : j > k => ~About(t[j])
          PROVE  s[k + 1].id = "choke" /\ \A j \in 1..(n + 1) : j > k + 1 => ~About(s[j])
      <3>1. \A j \in 1..(n + 1) : j > k + 1 => j # 1 /\ j - 1 > k
        BY <1>1
      <3> QED BY <1>2, <2>2, <3>1
    <2>3. ASSUME NEW k \in 1..(n + 1), s[k].id = "choke", \A j \in 1..(n + 1) : j > k => ~About(s[j])
          PROVE  k # 1 /\ t[k - 1].id = "choke" /\ \A j \in 1..n : j > k - 1 => ~About(t[j])
      <3>1. PICK a \in 1..n : About(t[a])
        BY <1>3
      <3>2. a + 1 \in 1..(n + 1) /\ About(s[a + 1]) /\ (k = 1 => a + 1 > k)
        BY <1>1, <1>2, <3>1
      <3>3. k # 1
        BY <2>3, <3>2
      <3>4. \A j \in 1..n : j > k - 1 => j + 1 > k
        BY <1>1
      <3> QED BY <1>2, <2>3, <3>3, <3>4
    <2>4. (\E k \in 1..(n + 1) : s[k].id = "choke" /\ \A j \in 1..(n + 1) : j > k => ~About(s[j]))
          <=> \E k \in 1..n : t[k].id = "choke" /\ \A j \in 1..n : j > k => ~About(t[j])
      BY <1>2, <2>2, <2>3
    <2> QED BY <1>1, <1>3, <2>1, <2>4 DEF ChokedAfter, About, t
  <1>4. CASE ~(\E k \in 1..n : About(t[k]))
    <2>1. \A j \in 1..(n + 1) : j # 1 => ~About(s[j])
      BY <1>2, <1>4
    <2>2. ChokedAfter(t, d) <=> d
      BY <1>4 DEF ChokedAfter, About
    <2>3. CASE About(s[1])
      <3>1. ChokedAfter(s, c) <=> \E k \in 1..(n + 1) :
                s[k].id = "choke" /\ \A j \in 1..(n + 1) : j > k => ~About(s[j])
        BY <1>1, <1>2, <2>3 DEF ChokedAfter, About
      <3>2. \A j \in 1..(n + 1) : j > 1 => j # 1
        BY <1>1
      <3>3. s[1].id = "choke" => ChokedAfter(s, c)
        BY <1>2, <2>1, <3>1, <3>2
      <3>4. ChokedAfter(s, c) => s[1].id = "choke"
        BY <2>1, <3>1 DEF About
      <3> QED BY <2>2, <2>3, <3>3, <3>4 DEF About, t
    <2>4. CASE ~About(s[1])
      <3>1. ~(\E k \in 1..(n + 1) : About(s[k]))
        BY <2>1, <2>4
      <3>2. ChokedAfter(s, c) <=> c
        BY <1>1, <3>1 DEF ChokedAfter, About
      <3> QED BY <2>2, <2>4, <3>2 DEF About, t
    <2> QED BY <2>3, <2>4
  <1> QED BY <1>3, <1>4

LEMMA AdvertisedAppend ==
  ASSUME NEW s, NEW m, IsList(s)
  PROVE  AdvertisedIn(Append(s, m)) = AdvertisedIn(s) \cup Advertised(m)
  <1> DEFINE t == Append(s, m)
  <1>1. /\ \A k \in 1..Len(t) : (k \in 1..Len(s) /\ t[k] = s[k]) \/ (k = Len(s) + 1 /\ t[k] = m)
        /\ \A k \in 1..Len(s) : k \in 1..Len(t) /\ t[k] = s[k]
        /\ Len(s) + 1 \in 1..Len(t) /\ t[Len(s) + 1] = m
    BY AppendIndex, AppendList
  <1> HIDE DEF t
  <1>2. AdvertisedIn(t) \subseteq AdvertisedIn(s) \cup Advertised(m)
    BY <1>1 DEF AdvertisedIn
  <1>3. AdvertisedIn(s) \cup Advertised(m) \subseteq AdvertisedIn(t)
    BY <1>1 DEF AdvertisedIn
  <1> QED BY <1>2, <1>3 DEF t

LEMMA AdvertisedTail ==
  ASSUME NEW s, IsList(s), s # <<>>
  PROVE  AdvertisedIn(s) = Advertised(s[1]) \cup AdvertisedIn(Tail(s))
  <1> DEFINE t == Tail(s)
  <1>1. /\ \A k \in 1..Len(s) : k = 1 \/ (k - 1 \in 1..Len(t) /\ t[k - 1] = s[k])
        /\ \A k \in 1..Len(t) : k + 1 \in 1..Len(s) /\ t[k] = s[k + 1]
        /\ 1 \in 1..Len(s)
    BY TailIndex
  <1> HIDE DEF t
  <1>2. AdvertisedIn(s) \subseteq Advertised(s[1]) \cup AdvertisedIn(t)
    BY <1>1 DEF AdvertisedIn
  <1>3. Advertised(s[1]) \cup AdvertisedIn(t) \subseteq AdvertisedIn(s)
    BY <1>1 DEF AdvertisedIn
  <1> QED BY <1>2, <1>3 DEF t

-----------------------------------------------------------------------------
(* The inductive invariant.                                                *)

QueueType ==
    /\ IsList(toUs) /\ IsList(toPeer) /\ IsList(pending) /\ IsList(requested)
    /\ choked \in BOOLEAN /\ peerChoking \in BOOLEAN /\ peerHas \subseteq Pieces
    /\ usable \in BOOLEAN /\ opened \in BOOLEAN
    /\ \A k \in 1..Len(pending) : pending[k].id = "request"
    /\ pc # "idle" => usable

Sent(m) ==
    /\ m.id \in {"bitfield", "have", "choke", "unchoke", "piece"}
    /\ m.id = "have" => m.index \in Pieces

\* What a well-behaved peer sends, the Bitfield only as the first message.
HonestQueue(s) ==
    \A k \in 1..Len(s) : Sent(s[k]) /\ (s[k].id = "bitfield" => k = 1)

NoneIn(s, id) == \A k \in 1..Len(s) : s[k].id # id

\* Until the peer has opened nothing was under way, and until something has been
\* read the session knows nothing.
Window ==
    /\ ~opened => toUs = <<>> /\ peerChoking /\ pending = <<>>
    /\ usable =>
           /\ ~opened => choked /\ bitfieldAllowed
           /\ bitfieldAllowed => peerPieces = {}
           /\ ~bitfieldAllowed => NoneIn(toUs, "bitfield")

\* A request or its answer that is none of the requests g that were given up.
Fresh(g, id, m) == m.id = id /\ \A r \in g : ~Answers(m, r)

NoFresh(g, id, s) == \A k \in 1..Len(s) : ~Fresh(g, id, s[k])

\* At most one of the messages s is fresh, and it is the request w or its answer.
OnlyFresh(g, w, id, s) ==
    /\ \A j, k \in 1..Len(s) : Fresh(g, id, s[j]) /\ Fresh(g, id, s[k]) => j = k
    /\ \A k \in 1..Len(s) : Fresh(g, id, s[k]) => Answers(s[k], w)

\* No fresh request is under way, with the peer, or answered.
Clean(g, p, d, u) == NoFresh(g, "request", p) /\ NoFresh(g, "request", d) /\ NoFresh(g, "piece", u)

\* At most the request w is, and in one of the three places.
Waiting(g, w, p, d, u) ==
    /\ OnlyFresh(g, w, "request", p) /\ OnlyFresh(g, w, "request", d) /\ OnlyFresh(g, w, "piece", u)
    /\ NoFresh(g, "request", p) \/ NoFresh(g, "request", d)
    /\ NoFresh(g, "request", p) \/ NoFresh(g, "piece", u)
    /\ NoFresh(g, "request", d) \/ NoFresh(g, "piece", u)

\* Except for the requests that calls gave up, no request is left between two
\* requests.
OneRequest ==
    usable => IF pc = "await" THEN Waiting(givenUp, wanted, toPeer, pending, toUs)
              ELSE Clean(givenUp, toPeer, pending, toUs)

TInv == QueueType /\ HonestQueue(toUs) /\ Window /\ ViewsConverge /\ OneRequest

-----------------------------------------------------------------------------
(* Messages move from queue to queue.                                      *)

LEMMA EmptyList ==
  /\ IsList(<<>>) /\ Len(<<>>) = 0 /\ (\A id : NoneIn(<<>>, id))
  /\ \A g, id : NoFresh(g, id, <<>>)
BY DEF IsList, NoneIn, NoFresh

LEMMA NotEmpty ==
  ASSUME NEW s, IsList(s)
  PROVE  s = <<>> <=> Len(s) = 0
BY EmptySeq DEF IsList

LEMMA NoneAppend ==
  ASSUME NEW s, NEW m, NEW id, IsList(s)
  PROVE  NoneIn(Append(s, m), id) <=> NoneIn(s, id) /\ m.id # id
  <1> DEFINE t == Append(s, m)
  <1>1. /\ \A k \in 1..Len(t) : (k \in 1..Len(s) /\ t[k] = s[k]) \/ (k = Len(s) + 1 /\ t[k] = m)
        /\ \A k \in 1..Len(s) : k \in 1..Len(t) /\ t[k] = s[k]
        /\ Len(s) + 1 \in 1..Len(t) /\ t[Len(s) + 1] = m
    BY AppendIndex, AppendList
  <1> HIDE DEF t
  <1> QED BY <1>1 DEF NoneIn, t

LEMMA NoneTail ==
  ASSUME NEW s, NEW id, IsList(s), s # <<>>
  PROVE  NoneIn(s, id) => NoneIn(Tail(s), id) /\ Head(s).id # id
  <1>1. /\ \A k \in 1..Len(Tail(s)) : k + 1 \in 1..Len(s) /\ Tail(s)[k] = s[k + 1]
        /\ 1 \in 1..Len(s) /\ Head(s) = s[1]
    BY TailIndex, TailList
  <1> QED BY <1>1 DEF NoneIn

LEMMA FreshAppend ==
  ASSUME NEW g, NEW w, NEW s, NEW m, NEW id, IsList(s)
  PROVE  /\ NoFresh(g, id, s) /\ ~Fresh(g, id, m) => NoFresh(g, id, Append(s, m))
         /\ OnlyFresh(g, w, id, s) /\ ~Fresh(g, id, m) => OnlyFresh(g, w, id, Append(s, m))
         /\ NoFresh(g, id, s) /\ Answers(m, w) => OnlyFresh(g, w, id, Append(s, m))
  <1> DEFINE t == Append(s, m)
  <1>1. \A k \in 1..Len(t) : (k \in 1..Len(s) /\ t[k] = s[k]) \/ (k = Len(s) + 1 /\ t[k] = m)
    BY AppendIndex
  <1> HIDE DEF t
  <1>2. NoFresh(g, id, s) /\ ~Fresh(g, id, m) => NoFresh(g, id, t)
    BY <1>1 DEF NoFresh
  <1>3. OnlyFresh(g, w, id, s) /\ ~Fresh(g, id, m) => OnlyFresh(g, w, id, t)
    BY <1>1 DEF OnlyFresh
  <1>4. NoFresh(g, id, s) /\ Answers(m, w) => OnlyFresh(g, w, id, t)
    BY <1>1 DEF NoFresh, OnlyFresh
  <1> QED BY <1>2, <1>3, <1>4 DEF t

LEMMA FreshTail ==
  ASSUME NEW g, NEW w, NEW s, NEW id, IsList(s), s # <<>>
  PROVE  /\ NoFresh(g, id, s) => NoFresh(g, id, Tail(s)) /\ ~Fresh(g, id, Head(s))
         /\ OnlyFresh(g, w, id, s) =>
                /\ OnlyFresh(g, w, id, Tail(s))
                /\ Fresh(g, id, Head(s)) =>
                       NoFresh(g, id, Tail(s)) /\ ~NoFresh(g, id, s) /\ Answers(Head(s), w)
  <1>1. /\ \A k \in 1..Len(Tail(s)) : k + 1 \in 1..Len(s) /\ Tail(s)[k] = s[k + 1]
        /\ 1 \in 1..Len(s) /\ Head(s) = s[1]
    BY TailIndex, TailList
  <1>2. \A j, k \in 1..Len(Tail(s)) : (j + 1 = k + 1 => j = k) /\ j + 1 # 1
    BY <1>1
  <1>3. NoFresh(g, id, s) => NoFresh(g, id, Tail(s)) /\ ~Fresh(g, id, Head(s))
    BY <1>1 DEF NoFresh
  <1>4. OnlyFresh(g, w, id, s) => OnlyFresh(g, w, id, Tail(s))
    BY <1>1, <1>2 DEF OnlyFresh
  <1>5. OnlyFresh(g, w, id, s) /\ Fresh(g, id, Head(s)) =>
            NoFresh(g, id, Tail(s)) /\ ~NoFresh(g, id, s) /\ Answers(Head(s), w)
    BY <1>1, <1>2 DEF NoFresh, OnlyFresh
  <1> QED BY <1>3, <1>4, <1>5

LEMMA NoFreshIsOnly ==
  ASSUME NEW g, NEW w, NEW s, NEW id, NoFresh(g, id, s)
  PROVE  OnlyFresh(g, w, id, s)
BY DEF NoFresh, OnlyFresh

\* An answer is as fresh as its request.
LEMMA AnswerFresh ==
  ASSUME NEW g, NEW m, NEW r, m.id = "piece", r.id = "request", Answers(m, r)
  PROVE  Fresh(g, "piece", m) <=> Fresh(g, "request", r)
BY DEF Fresh, Answers

LEMMA HonestAppend ==
  ASSUME NEW s, NEW m, IsList(s), HonestQueue(s), Sent(m), m.id = "bitfield" => s = <<>>
  PROVE  HonestQueue(Append(s, m))
  <1> DEFINE t == Append(s, m)
  <1>1. \A k \in 1..Len(t) : (k \in 1..Len(s) /\ t[k] = s[k]) \/ (k = Len(s) + 1 /\ t[k] = m)
    BY AppendIndex
  <1>2. m.id = "bitfield" => Len(s) + 1 = 1
    BY NotEmpty
  <1> HIDE DEF t
  <1> QED BY <1>1, <1>2 DEF HonestQueue, t

LEMMA HonestTail ==
  ASSUME NEW s, IsList(s), HonestQueue(s), s # <<>>
  PROVE  HonestQueue(Tail(s)) /\ Sent(Head(s)) /\ NoneIn(Tail(s), "bitfield")
  <1>1. /\ \A k \in 1..Len(Tail(s)) : k + 1 \in 1..Len(s) /\ Tail(s)[k] = s[k + 1]
        /\ 1 \in 1..Len(s) /\ Head(s) = s[1]
    BY TailIndex, TailList
  <1>2. \A k \in 1..Len(Tail(s)) : k + 1 # 1
    BY <1>1
  <1>3. NoneIn(Tail(s), "bitfield")
    BY <1>1, <1>2 DEF HonestQueue, NoneIn
  <1> QED BY <1>1, <1>3 DEF HonestQueue, NoneIn

\* RequestBlock: the request is on its way.
LEMMA RequestSent ==
  ASSUME NEW g, NEW w, NEW p, NEW d, NEW u, NEW m, IsList(p),
         Clean(g, p, d, u), Answers(m, w)
  PROVE  Waiting(g, w, Append(p, m), d, u)
BY FreshAppend, NoFreshIsOnly DEF Clean, Waiting

\* PeerReads: the request is with the peer, or ignored.
LEMMA RequestRead ==
  ASSUME NEW g, NEW w, NEW p, NEW d, NEW u, NEW e, IsList(p), IsList(d), p # <<>>,
         e = d \/ (Head(p).id = "request" /\ e = Append(d, Head(p)))
  PROVE  /\ Waiting(g, w, p, d, u) => Waiting(g, w, Tail(p), e, u)
         /\ Clean(g, p, d, u) => Clean(g, Tail(p), e, u)
  <1>1. Clean(g, p, d, u) => Clean(g, Tail(p), e, u)
    BY FreshTail, FreshAppend DEF Clean
  <1>2. ASSUME Waiting(g, w, p, d, u) PROVE Waiting(g, w, Tail(p), e, u)
    <2>1. /\ OnlyFresh(g, w, "request", Tail(p))
          /\ NoFresh(g, "request", p) => NoFresh(g, "request", Tail(p))
          /\ Fresh(g, "request", Head(p)) =>
                 /\ NoFresh(g, "request", Tail(p)) /\ ~NoFresh(g, "request", p)
                 /\ Answers(Head(p), w)
      BY <1>2, FreshTail DEF Waiting
    <2>2. CASE e = d
      BY <1>2, <2>1, <2>2 DEF Waiting
    <2>3. CASE e = Append(d, Head(p)) /\ Fresh(g, "request", Head(p))
      BY <1>2, <2>1, <2>3, FreshAppend DEF Waiting
    <2>4. CASE e = Append(d, Head(p)) /\ ~Fresh(g, "request", Head(p))
      BY <1>2, <2>1, <2>4, FreshAppend DEF Waiting
    <2> QED BY <2>2, <2>3, <2>4
  <1> QED BY <1>1, <1>2

\* PeerServes: the answer is on its way.
LEMMA RequestServed ==
  ASSUME NEW g, NEW w, NEW p, NEW d, NEW u, NEW m, IsList(d), IsList(u), d # <<>>,
         m.id = "piece", Head(d).id = "request", Answers(m, Head(d))
  PROVE  /\ Waiting(g, w, p, d, u) => Waiting(g, w, p, Tail(d), Append(u, m))
         /\ Clean(g, p, d, u) => Clean(g, p, Tail(d), Append(u, m))
  <1>1. Fresh(g, "piece", m) <=> Fresh(g, "request", Head(d))
    BY AnswerFresh
  <1>2. Clean(g, p, d, u) => Clean(g, p, Tail(d), Append(u, m))
    BY <1>1, FreshTail, FreshAppend DEF Clean
  <1>3. ASSUME Waiting(g, w, p, d, u) PROVE Waiting(g, w, p, Tail(d), Append(u, m))
    <2>1. /\ OnlyFresh(g, w, "request", Tail(d))
          /\ NoFresh(g, "request", d) => NoFresh(g, "request", Tail(d))
          /\ Fresh(g, "request", Head(d)) =>
                 /\ NoFresh(g, "request", Tail(d)) /\ ~NoFresh(g, "request", d)
                 /\ Answers(Head(d), w)
      BY <1>3, FreshTail DEF Waiting
    <2>2. CASE Fresh(g, "request", Head(d))
      <3>1. Answers(m, w)
        BY <2>1, <2>2 DEF Answers
      <3> QED BY <1>3, <2>1, <2>2, <3>1, FreshAppend DEF Waiting
    <2>3. CASE ~Fresh(g, "request", Head(d))
      BY <1>1, <1>3, <2>1, <2>3, FreshAppend DEF Waiting
    <2> QED BY <2>2, <2>3
  <1> QED BY <1>2, <1>3

\* Any other message joins those under way to us; a Choke empties the peer's list.
LEMMA OtherSent ==
  ASSUME NEW g, NEW w, NEW p, NEW d, NEW u, NEW m, NEW e,
         IsList(u), m.id # "piece", e = d \/ e = <<>>
  PROVE  /\ Waiting(g, w, p, d, u) => Waiting(g, w, p, e, Append(u, m))
         /\ Clean(g, p, d, u) => Clean(g, p, e, Append(u, m))
  <1>1. ~Fresh(g, "piece", m)
    BY DEF Fresh
  <1>2. e = <<>> => NoFresh(g, "request", e) /\ OnlyFresh(g, w, "request", e)
    BY EmptyList, NoFreshIsOnly
  <1> QED BY <1>1, <1>2, FreshAppend DEF Waiting, Clean

\* The session reads a message: another one, the answer to its request, or the
\* answer to one that was given up.
LEMMA MessageRead ==
  ASSUME NEW g, NEW w, NEW p, NEW d, NEW u, IsList(u), u # <<>>
  PROVE  /\ Clean(g, p, d, u) => Clean(g, p, d, Tail(u)) /\ ~Fresh(g, "piece", Head(u))
         /\ Waiting(g, w, p, d, u) => Waiting(g, w, p, d, Tail(u))
         /\ Waiting(g, w, p, d, u) /\ Head(u).id = "piece" =>
                IF Answers(Head(u), w) THEN Clean(g, p, d, Tail(u))
                ELSE ~Fresh(g, "piece", Head(u))
  <1>1. Clean(g, p, d, u) => Clean(g, p, d, Tail(u)) /\ ~Fresh(g, "piece", Head(u))
    BY FreshTail DEF Clean
  <1>2. /\ NoFresh(g, "piece", u) => NoFresh(g, "piece", Tail(u))
        /\ OnlyFresh(g, w, "piece", u) =>
               /\ OnlyFresh(g, w, "piece", Tail(u))
               /\ Fresh(g, "piece", Head(u)) =>
                      /\ NoFresh(g, "piece", Tail(u)) /\ ~NoFresh(g, "piece", u)
                      /\ Answers(Head(u), w)
    BY FreshTail
  <1>3. Waiting(g, w, p, d, u) => Waiting(g, w, p, d, Tail(u))
    BY <1>2 DEF Waiting
  <1>4. ASSUME Waiting(g, w, p, d, u), Head(u).id = "piece", Answers(Head(u), w)
        PROVE  Clean(g, p, d, Tail(u))
    <2>1. CASE Fresh(g, "piece", Head(u))
      BY <1>2, <1>4, <2>1 DEF Waiting, Clean
    <2>2. CASE ~Fresh(g, "piece", Head(u))
      <3>1. \E r \in g : Answers(Head(u), r)
        BY <1>4, <2>2 DEF Fresh
      <3>2. \A m, id : Fresh(g, id, m) => ~Answers(m, w)
        BY <1>4, <3>1 DEF Fresh, Answers
      <3> QED BY <1>3, <1>4, <3>2 DEF Waiting, Clean, OnlyFresh, NoFresh
    <2> QED BY <2>1, <2>2
  <1>5. Waiting(g, w, p, d, u) /\ ~Answers(Head(u), w) => ~Fresh(g, "piece", Head(u))
    BY <1>2 DEF Waiting
  <1> QED BY <1>1, <1>3, <1>4, <1>5

\* FetchPiece gives up its request at a Choke.
LEMMA GiveUp ==
  ASSUME NEW g, NEW w, NEW p, NEW d, NEW u, Waiting(g, w, p, d, u)
  PROVE  Clean(g \cup {w}, p, d, u) /\ Waiting(g \cup {w}, w, p, d, u)
  <1>1. \A m, id : Fresh(g \cup {w}, id, m) => Fresh(g, id, m) /\ ~Answers(m, w)
    BY DEF Fresh
  <1>2. Clean(g \cup {w}, p, d, u)
    BY <1>1 DEF Waiting, Clean, OnlyFresh, NoFresh
  <1> QED BY <1>2, NoFreshIsOnly DEF Clean, Waiting

-----------------------------------------------------------------------------
(* The steps.                                                              *)

LEMMA TransferInit == TInit => TInv
  <1> SUFFICES ASSUME TInit PROVE TInv
    OBVIOUS
  <1>1. QueueType
    <2>1. \A k \in 1..Len(pending) : FALSE
      BY EmptyList DEF TInit
    <2> QED BY <2>1, EmptyList DEF TInit, Init, QueueType
  <1>2. HonestQueue(toUs) /\ Clean(givenUp, toPeer, pending, toUs) /\ NoneIn(toUs, "bitfield")
    BY EmptyList DEF TInit, HonestQueue, Clean
  <1>3. Window /\ ViewsConverge /\ OneRequest
    BY <1>2 DEF TInit, Init, Window, ViewsConverge, OneRequest
  <1> QED BY <1>1, <1>2, <1>3 DEF TInv

\* A step of ours that reads nothing and writes no request.
LEMMA QuietTransfer ==
  ASSUME TInv, UNCHANGED <<fieldVars, toUs, peerVars, givenUp>>,
         IsList(toPeer'), IsList(requested'), usable' \in BOOLEAN,
         usable' => usable, pc' # "idle" => usable',
         usable' => pc # "await" /\ pc' # "await" /\
                    (toPeer' = toPeer \/ toPeer' = Append(toPeer, [id |-> "interested"]))
  PROVE  TInv'
  <1> USE DEF TInv
  <1>1. QueueType'
    BY DEF QueueType, fieldVars, peerVars, Pieces
  <1>2. HonestQueue(toUs)'
    BY DEF HonestQueue, Sent, Pieces
  <1>3. Window'
    BY DEF Window, NoneIn, fieldVars, peerVars
  <1>4. ViewsConverge'
    BY DEF ViewsConverge, ChokedAfter, AdvertisedIn, Advertised, fieldVars, peerVars
  <1>5. OneRequest'
    <2> SUFFICES ASSUME usable' PROVE Clean(givenUp, toPeer, pending, toUs)'
      BY DEF OneRequest
    <2>1. Clean(givenUp, toPeer, pending, toUs)
      BY DEF OneRequest
    <2>2. NoFresh(givenUp, "request", toPeer')
      <3>1. CASE toPeer' = toPeer
        BY <2>1, <3>1 DEF Clean
      <3>2. CASE toPeer' = Append(toPeer, [id |-> "interested"])
        <4>1. ~Fresh(givenUp, "request", [id |-> "interested"])
          BY DEF Fresh
        <4> QED BY <2>1, <3>2, <4>1, FreshAppend DEF Clean, QueueType
      <3> QED BY <3>1, <3>2
    <2> QED BY <2>1, <2>2 DEF Clean, NoFresh, Fresh, Answers, peerVars
  <1> QED BY <1>1, <1>2, <1>3, <1>4, <1>5

LEMMA CallStep ==
  ASSUME TInv, NEW i \in 0..pieceCount, NEW length \in Lengths, CallFetchPiece(i, length)
  PROVE  TInv'
  <1> USE DEF CallFetchPiece, FetchPiece
  <1>1. QueueType
    BY DEF TInv
  <1>2. usable' = usable /\ usable /\ (pc' = "idle" \/ pc' = "advertise")
    BY DEF Refuse, Return
  <1>3. IsList(toPeer') /\ IsList(requested')
    BY <1>1, EmptyList DEF QueueType
  <1>4. UNCHANGED <<fieldVars, toUs, peerVars, givenUp>> /\ toPeer' = toPeer /\ pc = "idle"
    OBVIOUS
  <1>5. usable' \in BOOLEAN
    BY <1>1, <1>2 DEF QueueType
  <1> HIDE DEF CallFetchPiece, FetchPiece
  <1> QED BY <1>2, <1>3, <1>4, <1>5, QuietTransfer

LEMMA TimesOutStep ==
  ASSUME TInv, TimesOut
  PROVE  TInv'
  <1>1. QueueType
    BY DEF TInv
  <1>2. usable' = FALSE /\ pc' = "idle"
    BY DEF TimesOut, ReadFails, ReadIdleFails, FailIO, Fail, Return
  <1>3. UNCHANGED <<fieldVars, toUs, peerVars, givenUp>> /\ toPeer' = toPeer
        /\ requested' = requested
    BY DEF TimesOut, ReadFails, ReadIdleFails, callVars, historyVars
  <1>4. IsList(toPeer') /\ IsList(requested')
    BY <1>1, <1>3 DEF QueueType
  <1> QED BY <1>2, <1>3, <1>4, QuietTransfer

LEMMA ProceedStep ==
  ASSUME TInv, Proceed
  PROVE  TInv'
  <1> DEFINE hello == [id |-> "interested"]
             request == [id |-> "request", index |-> piece.Index,
                         begin |-> Last(requested').begin, length |-> Last(requested').length]
  <1>1. QueueType
    BY DEF TInv
  <1>2. UNCHANGED <<fieldVars, toUs, peerVars, givenUp>>
    BY DEF Proceed, SendInterested, SetupDone, RequestBlock, historyVars
  <1>3. toPeer' = (CASE interested' # interested -> Append(toPeer, hello)
                     [] requested' # requested -> Append(toPeer, request)
                     [] OTHER -> toPeer)
    BY DEF Proceed
  <1> HIDE DEF hello, request
  <1>4. IsList(toPeer')
    BY <1>1, <1>3, AppendList DEF QueueType
  <1>5. CASE requested' = requested
    <2>1. toPeer' = toPeer \/ toPeer' = Append(toPeer, hello)
      BY <1>3, <1>5
    <2>2. pc # "await" /\ usable
      BY <1>1 DEF QueueType, Proceed, SendInterested, SetupDone, RequestBlock
    <2>3. CASE SendInterested
      BY <1>1, <1>2, <1>4, <1>5, <2>1, <2>2, <2>3, QuietTransfer
         DEF hello, SendInterested, FailIO, Fail, Return, QueueType
    <2>4. CASE SetupDone
      BY <1>1, <1>2, <1>4, <1>5, <2>1, <2>2, <2>4, QuietTransfer
         DEF hello, SetupDone, Refuse, Return, QueueType
    <2>5. CASE RequestBlock
      <3>1. requested # Append(requested, [begin |-> blockOffset, length |-> blockLength])
        <4>1. Len(Append(requested, [begin |-> blockOffset, length |-> blockLength])) # Len(requested)
          BY <1>1, AppendList DEF QueueType
        <4> QED BY <4>1
      <3>2. pc' = "idle" /\ (usable' = usable \/ usable' = FALSE)
        BY <1>5, <2>5, <3>1 DEF RequestBlock, Refuse, FailIO, Fail, Return
      <3> QED BY <1>1, <1>2, <1>4, <1>5, <2>1, <2>2, <3>2, QuietTransfer DEF hello, QueueType
    <2> QED BY <2>3, <2>4, <2>5 DEF Proceed
  <1>6. CASE requested' # requested
    <2>1. /\ pc = "request" /\ pc' = "await" /\ UNCHANGED <<result, usable, piece, blockOffset>>
          /\ interested' = interested
          /\ requested' = Append(requested, [begin |-> blockOffset, length |-> blockLength])
      BY <1>6 DEF Proceed, SendInterested, SetupDone, RequestBlock, callVars
    <2>2. toPeer' = Append(toPeer, request)
      BY <1>3, <1>6, <2>1
    <2>3. /\ IsList(requested')
          /\ Last(requested') = [begin |-> blockOffset, length |-> blockLength]
      BY <1>1, <2>1, AppendList DEF QueueType, Last
    <2>4. Answers(request, wanted)
      BY <2>3 DEF request, Answers, wanted
    <2>5. wanted' = wanted
      BY <2>1 DEF wanted, blockLength
    <2>6. QueueType'
      BY <1>1, <1>2, <1>4, <2>1, <2>3 DEF QueueType, fieldVars, peerVars, Pieces
    <2>7. HonestQueue(toUs)' /\ Window' /\ ViewsConverge'
      <3>1. HonestQueue(toUs)'
        BY <1>2, <2>1 DEF HonestQueue, Sent, Pieces, TInv
      <3>2. Window'
        BY <1>2, <2>1 DEF Window, NoneIn, fieldVars, peerVars, TInv
      <3>3. ViewsConverge'
        BY <1>2, <2>1 DEF ViewsConverge, ChokedAfter, AdvertisedIn, Advertised, fieldVars, peerVars, TInv
      <3> QED BY <3>1, <3>2, <3>3
    <2>8. OneRequest'
      <3> SUFFICES ASSUME usable PROVE Waiting(givenUp, wanted, toPeer', pending, toUs)
        BY <1>2, <2>1, <2>5 DEF OneRequest, peerVars, Waiting, OnlyFresh, NoFresh, Fresh, Answers
      <3>1. Clean(givenUp, toPeer, pending, toUs)
        BY <2>1 DEF OneRequest, TInv
      <3> QED BY <1>1, <2>2, <2>4, <3>1, RequestSent DEF QueueType
    <2> QED BY <2>6, <2>7, <2>8 DEF TInv
  <1> QED BY <1>5, <1>6

\* Read finds nothing wrong with what a well-behaved peer sends.
LEMMA ReadAccepts ==
  ASSUME TInv, usable, toUs # <<>>
  PROVE  ReadError(Head(toUs)) = "nil"
  <1> DEFINE m == Head(toUs)
  <1>1. Sent(m)
    BY HonestTail DEF TInv, QueueType
  <1>2. m.id = "bitfield" => bitfieldAllowed
    BY NoneTail DEF TInv, QueueType, Window
  <1> HIDE DEF m
  <1>3. m.id = "have" => ~(m.index >= pieceCount)
    BY <1>1, SessionAssumption DEF Sent, Pieces
  <1>4. m.id # "spareBits"
    BY <1>1 DEF Sent
  <1>5. ReadError(m) = "nil"
    BY <1>2, <1>3, <1>4 DEF ReadError, IsBitfield
  <1> QED BY <1>5 DEF m

\* Reading the first message keeps the view and the rest of the messages together.
LEMMA ViewRead ==
  ASSUME TInv, usable, toUs # <<>>, toUs' = Tail(toUs), Read(Head(toUs)), UNCHANGED peerVars
  PROVE  HonestQueue(toUs)' /\ Window' /\ ViewsConverge' /\ choked' \in BOOLEAN
  <1> DEFINE m == Head(toUs)
  <1>1. QueueType /\ HonestQueue(toUs) /\ Window /\ ViewsConverge
    BY DEF TInv
  <1>2. ReadError(m) = "nil"
    BY ReadAccepts
  <1>3. /\ HonestQueue(Tail(toUs)) /\ Sent(m) /\ NoneIn(Tail(toUs), "bitfield") /\ m = toUs[1]
    BY <1>1, HonestTail, TailList DEF QueueType
  <1>4. m.id = "bitfield" => peerPieces = {}
    BY <1>1, NoneTail DEF QueueType, Window
  <1> HIDE DEF m
  <1>5. /\ bitfieldAllowed' = FALSE
        /\ choked' = CASE m.id = "choke" -> TRUE [] m.id = "unchoke" -> FALSE [] OTHER -> choked
        /\ peerPieces' = CASE m.id = "bitfield" -> m.pieces
                           [] m.id = "have" -> peerPieces \cup {m.index}
                           [] OTHER -> peerPieces
    BY <1>2 DEF Read, m
  <1>6. choked' \in BOOLEAN /\ (choked' <=> (m.id = "choke" \/ (m.id # "unchoke" /\ choked)))
    <2>1. choked \in BOOLEAN
      BY <1>1 DEF QueueType
    <2>2. CASE m.id = "choke"
      BY <1>5, <2>2
    <2>3. CASE m.id = "unchoke"
      BY <1>5, <2>3
    <2>4. CASE m.id # "choke" /\ m.id # "unchoke"
      BY <1>5, <2>1, <2>4
    <2> QED BY <2>2, <2>3, <2>4
  <1>7. peerPieces' = peerPieces \cup Advertised(m)
    <2>1. CASE m.id = "bitfield"
      BY <1>4, <1>5, <2>1 DEF Advertised
    <2>2. CASE m.id = "have"
      BY <1>5, <2>2 DEF Advertised
    <2>3. CASE m.id # "bitfield" /\ m.id # "have"
      BY <1>5, <2>3 DEF Advertised
    <2> QED BY <2>1, <2>2, <2>3
  <1>8. HonestQueue(toUs)'
    BY <1>3 DEF HonestQueue, Sent, Pieces
  <1>9. Window'
    <2>1. opened
      BY <1>1 DEF Window
    <2> QED BY <1>3, <1>5, <2>1 DEF Window, NoneIn, peerVars
  <1>10. ViewsConverge'
    <2>1. opened /\ opened' = opened /\ peerChoking' = peerChoking /\ peerHas' = peerHas
      BY <1>1 DEF Window, peerVars
    <2>2. peerChoking <=> ChokedAfter(Tail(toUs), choked')
      BY <1>1, <1>3, <1>6, <2>1, ChokedTail DEF QueueType, ViewsConverge
    <2>3. peerHas = peerPieces' \cup AdvertisedIn(Tail(toUs))
      BY <1>1, <1>3, <1>7, <2>1, AdvertisedTail DEF QueueType, ViewsConverge
    <2>4. /\ ChokedAfter(Tail(toUs), choked') <=> ChokedAfter(toUs, choked)'
          /\ AdvertisedIn(Tail(toUs)) = AdvertisedIn(toUs)'
      BY DEF ChokedAfter, AdvertisedIn, Advertised
    <2> QED BY <2>1, <2>2, <2>3, <2>4 DEF ViewsConverge
  <1> QED BY <1>6, <1>8, <1>9, <1>10

\* The message is held against the peer only if it answers a request given up.
LEMMA ReadNextStep ==
  ASSUME TInv, ReadNext
  PROVE  /\ TInv'
         /\ ~usable' => Head(toUs).id = "piece" /\ \E r \in givenUp : Answers(Head(toUs), r)
  <1> DEFINE m == Head(toUs)
             late == \E r \in givenUp : Answers(m, r)
  <1>1. QueueType
    BY DEF TInv
  <1>2. /\ toUs # <<>> /\ toUs' = Tail(toUs) /\ UNCHANGED <<toPeer, peerVars>>
        /\ givenUp' = IF pc = "await" /\ result' = "choked" THEN givenUp \cup {wanted} ELSE givenUp
        /\ ReadIdle(m) \/ ReadAdvertisement(m) \/ ReadUnchoke(m) \/ AwaitBlock(m)
    BY DEF ReadNext
  <1>3. usable
    BY <1>1, <1>2 DEF ReadIdle, ReadAdvertisement, ReadUnchoke, AwaitBlock, QueueType
  <1>4. ReadError(m) = "nil"
    BY <1>2, <1>3, ReadAccepts
  <1>5. Read(m) /\ requested' = requested /\ piece' = piece
    BY <1>2 DEF ReadIdle, ReadAdvertisement, ReadUnchoke, AwaitBlock, callVars
  <1>6. HonestQueue(toUs)' /\ Window' /\ ViewsConverge' /\ choked' \in BOOLEAN
    BY <1>2, <1>3, <1>5, ViewRead
  <1>7. /\ pc # "await" =>
               /\ Clean(givenUp, toPeer, pending, Tail(toUs))
               /\ m.id = "piece" => late
        /\ pc = "await" =>
               /\ Waiting(givenUp, wanted, toPeer, pending, Tail(toUs))
               /\ m.id = "piece" /\ MatchesRequest(m) => Clean(givenUp, toPeer, pending, Tail(toUs))
               /\ m.id = "piece" /\ ~MatchesRequest(m) => late
    <2>1. Answers(m, wanted) <=> MatchesRequest(m)
      BY DEF Answers, wanted, MatchesRequest
    <2>2. m.id = "piece" /\ ~Fresh(givenUp, "piece", m) => late
      BY DEF Fresh
    <2>3. IF pc = "await" THEN Waiting(givenUp, wanted, toPeer, pending, toUs)
          ELSE Clean(givenUp, toPeer, pending, toUs)
      BY <1>3 DEF TInv, OneRequest
    <2>4. IsList(toUs)
      BY <1>1 DEF QueueType
    <2> HIDE DEF late
    <2> QED BY <1>2, <2>1, <2>2, <2>3, <2>4, MessageRead
  <1>8. IsList(Tail(toUs))
    BY <1>1, <1>2, TailList DEF QueueType
  <1> HIDE DEF m, late
  <1>9. /\ usable' \in BOOLEAN /\ (pc' # "idle" => usable')
        /\ ~usable' => m.id = "piece" /\ late
        /\ usable' =>
               \/ pc' # "await" /\ Clean(givenUp', toPeer, pending, Tail(toUs))
               \/ /\ pc' = "await" /\ blockOffset' = blockOffset
                  /\ Waiting(givenUp', wanted, toPeer, pending, Tail(toUs))
    <2>1. CASE ReadIdle(m)
      BY <1>2, <1>3, <1>4, <1>7, <2>1 DEF ReadIdle
    <2>2. CASE ReadAdvertisement(m) \/ ReadUnchoke(m)
      <3>1. \/ m.id = "piece" /\ Fail("protocol")
            \/ m.id = "bitfield" /\ Refuse("unavailable")
            \/ Stay
        BY <1>4, <2>2 DEF ReadAdvertisement, ReadUnchoke
      <3>2. pc # "await"
        BY <2>2 DEF ReadAdvertisement, ReadUnchoke
      <3>3. givenUp' = givenUp
        BY <1>2, <3>2
      <3>4. CASE m.id = "piece" /\ Fail("protocol")
        BY <1>7, <3>2, <3>4 DEF Fail, Return
      <3>5. CASE m.id = "bitfield" /\ Refuse("unavailable")
        BY <1>3, <1>7, <3>2, <3>3, <3>5 DEF Refuse, Return
      <3>6. CASE Stay
        BY <1>3, <1>7, <3>2, <3>3, <3>6 DEF Stay
      <3> QED BY <3>1, <3>4, <3>5, <3>6
    <2>3. CASE AwaitBlock(m)
      <3>1. pc = "await" /\ OnMessage(m)
        BY <2>3 DEF AwaitBlock
      <3>2. Waiting(givenUp', wanted, toPeer, pending, Tail(toUs))
        BY <1>2, <1>7, <3>1, GiveUp
      <3>3. CASE m.id = "choke"
        <4>1. Refuse("choked")
          BY <1>4, <3>1, <3>3 DEF OnMessage
        <4>2. usable' = usable /\ pc' = "idle" /\ givenUp' = givenUp \cup {wanted}
          BY <1>2, <3>1, <4>1 DEF Refuse, Return
        <4>3. Clean(givenUp', toPeer, pending, Tail(toUs))
          BY <1>7, <3>1, <4>2, GiveUp
        <4> QED BY <1>3, <4>2, <4>3
      <3>4. CASE m.id = "piece"
        <4>1. ReceiveBlock(m)
          BY <1>4, <3>1, <3>4 DEF OnMessage
        <4>2. CASE ~MatchesRequest(m)
          <5>1. late /\ usable' = FALSE /\ pc' = "idle"
            BY <1>7, <3>1, <3>4, <4>1, <4>2 DEF ReceiveBlock, Fail, Return
          <5> QED BY <3>4, <5>1
        <4>3. CASE MatchesRequest(m)
          <5>1. usable' = usable /\ pc' \in {"idle", "request"}
            BY <4>1, <4>3 DEF ReceiveBlock, AcceptBlock, Refuse, Return
          <5>2. /\ Clean(givenUp, toPeer, pending, Tail(toUs))
                /\ Waiting(givenUp, wanted, toPeer, pending, Tail(toUs))
            BY <1>7, <3>1, <3>4, <4>3
          <5>3. Clean(givenUp', toPeer, pending, Tail(toUs))
            BY <1>2, <5>2, GiveUp
          <5> QED BY <1>3, <5>1, <5>3
        <4> QED BY <4>2, <4>3
      <3>5. CASE m.id # "choke" /\ m.id # "piece"
        <4>1. Stay /\ blockOffset' = blockOffset
          BY <1>4, <3>1, <3>5 DEF OnMessage
        <4> QED BY <1>3, <3>1, <3>2, <4>1 DEF Stay
      <3> QED BY <3>3, <3>4, <3>5
    <2> QED BY <1>2, <2>1, <2>2, <2>3 DEF m
  <1>10. QueueType'
    BY <1>1, <1>2, <1>5, <1>6, <1>8, <1>9 DEF QueueType, peerVars, Pieces
  <1>11. OneRequest'
    <2> SUFFICES ASSUME usable'
                 PROVE  IF pc' = "await" THEN Waiting(givenUp, wanted, toPeer, pending, toUs)'
                        ELSE Clean(givenUp, toPeer, pending, toUs)'
      BY DEF OneRequest
    <2>1. CASE pc' # "await" /\ Clean(givenUp', toPeer, pending, Tail(toUs))
      BY <1>2, <2>1 DEF Clean, NoFresh, Fresh, Answers, peerVars
    <2>2. CASE /\ pc' = "await" /\ blockOffset' = blockOffset
               /\ Waiting(givenUp', wanted, toPeer, pending, Tail(toUs))
      <3>1. wanted' = wanted
        BY <1>5, <2>2 DEF wanted, blockLength
      <3> QED BY <1>2, <2>2, <3>1 DEF Waiting, OnlyFresh, NoFresh, Fresh, Answers, peerVars
    <2> QED BY <1>9, <2>1, <2>2
  <1> QED BY <1>6, <1>9, <1>10, <1>11 DEF TInv, m, late

\* A message of the peer, other than an answer, with what it says of the peer.
LEMMA PeerSendStep ==
  ASSUME TInv, NEW m, Sends(m), Sent(m), m.id # "piece",
         UNCHANGED <<OurSide, toPeer>>, opened', peerHas' \subseteq Pieces,
         peerChoking' \in BOOLEAN,
         pending' = pending \/ pending' = <<>>,
         \/ opened /\ m.id # "bitfield" /\ peerHas' = peerHas \cup Advertised(m)
         \/ ~opened /\ m.id = "bitfield" /\ peerHas' = m.pieces,
         peerChoking' <=> IF About(m) THEN m.id = "choke" ELSE peerChoking
  PROVE  TInv'
  <1>1. QueueType /\ HonestQueue(toUs) /\ Window /\ ViewsConverge /\ OneRequest
    BY DEF TInv
  <1>2. /\ toUs' = Append(toUs, m) /\ toPeer' = toPeer
        /\ UNCHANGED <<choked, peerPieces, bitfieldAllowed, usable, pc, piece, blockOffset,
                       requested, result, givenUp>>
    BY DEF Sends, OurSide, vars, fieldVars, callVars, historyVars
  <1>3. ~opened => toUs = <<>>
    BY <1>1 DEF Window
  <1>4. QueueType'
    BY <1>1, <1>2, AppendList, EmptyList DEF QueueType, Pieces
  <1>5. HonestQueue(toUs)'
    <2>1. HonestQueue(Append(toUs, m))
      BY <1>1, <1>3, HonestAppend DEF QueueType
    <2> QED BY <1>2, <2>1 DEF HonestQueue, Sent, Pieces
  <1>6. Window'
    <2> SUFFICES ASSUME usable, ~bitfieldAllowed PROVE NoneIn(toUs', "bitfield")
      BY <1>1, <1>2 DEF Window, NoneIn
    <2>1. NoneIn(toUs, "bitfield") /\ m.id # "bitfield"
      BY <1>1 DEF Window
    <2> QED BY <1>1, <1>2, <2>1, NoneAppend DEF QueueType
  <1>7. ViewsConverge'
    <2> SUFFICES ASSUME usable
                 PROVE  /\ peerChoking' <=> ChokedAfter(toUs', choked)
                        /\ peerHas' = peerPieces \cup AdvertisedIn(toUs')
      BY <1>2 DEF ViewsConverge, ChokedAfter, AdvertisedIn, Advertised
    <2>1. /\ ChokedAfter(toUs', choked) <=>
                 IF About(m) THEN m.id = "choke" ELSE ChokedAfter(toUs, choked)
          /\ AdvertisedIn(toUs') = AdvertisedIn(toUs) \cup Advertised(m)
      BY <1>1, <1>2, ChokedAppend, AdvertisedAppend DEF QueueType
    <2>2. /\ peerChoking <=> ChokedAfter(toUs, choked)
          /\ peerHas' = peerPieces \cup AdvertisedIn(toUs) \cup Advertised(m)
      <3>1. CASE opened
        BY <1>1, <3>1 DEF ViewsConverge
      <3>2. CASE ~opened
        <4>1. toUs = <<>> /\ peerChoking /\ choked /\ peerPieces = {} /\ Advertised(m) = m.pieces
          BY <1>1, <3>2 DEF Window, Advertised
        <4>2. ChokedAfter(<<>>, choked) /\ AdvertisedIn(<<>>) = {}
          <5>1. 1..Len(<<>>) = {}
            OBVIOUS
          <5> QED BY <4>1, <5>1 DEF ChokedAfter, AdvertisedIn
        <4> QED BY <3>2, <4>1, <4>2
      <3> QED BY <3>1, <3>2
    <2> QED BY <2>1, <2>2
  <1>8. OneRequest'
    <2>1. wanted' = wanted
      BY <1>2 DEF wanted, blockLength
    <2>2. /\ Waiting(givenUp, wanted, toPeer, pending, toUs) =>
                 Waiting(givenUp, wanted, toPeer, pending', toUs')
          /\ Clean(givenUp, toPeer, pending, toUs) => Clean(givenUp, toPeer, pending', toUs')
      BY <1>1, <1>2, OtherSent DEF QueueType
    <2>3. /\ Waiting(givenUp, wanted, toPeer, pending', toUs') <=>
                 Waiting(givenUp, wanted, toPeer, pending, toUs)'
          /\ Clean(givenUp, toPeer, pending', toUs') <=> Clean(givenUp, toPeer, pending, toUs)'
      BY <1>2, <2>1 DEF Waiting, Clean, OnlyFresh, NoFresh, Fresh, Answers
    <2> QED BY <1>1, <1>2, <2>2, <2>3 DEF OneRequest
  <1> QED BY <1>4, <1>5, <1>6, <1>7, <1>8 DEF TInv

\* A step of the peer that says nothing about its pieces and its choking, with
\* the requests where the session expects them.
LEMMA PeerQuietStep ==
  ASSUME TInv, UNCHANGED <<OurSide, peerHas, peerChoking, opened>>,
         IsList(toPeer'), IsList(pending'), ~opened => pending' = <<>>,
         \A k \in 1..Len(pending') : pending'[k].id = "request",
         toUs' = toUs \/ (opened /\ \E m : toUs' = Append(toUs, m) /\ m.id = "piece"),
         Waiting(givenUp, wanted, toPeer, pending, toUs) =>
             Waiting(givenUp, wanted, toPeer', pending', toUs'),
         Clean(givenUp, toPeer, pending, toUs) => Clean(givenUp, toPeer', pending', toUs')
  PROVE  TInv'
  <1>1. QueueType /\ HonestQueue(toUs) /\ Window /\ ViewsConverge /\ OneRequest
    BY DEF TInv
  <1>2. UNCHANGED <<choked, peerPieces, bitfieldAllowed, usable, pc, piece, blockOffset,
                    requested, result, givenUp>>
    BY DEF OurSide, vars, fieldVars, callVars, historyVars
  <1>3. /\ IsList(toUs') /\ HonestQueue(toUs')
        /\ NoneIn(toUs, "bitfield") => NoneIn(toUs', "bitfield")
        /\ ChokedAfter(toUs', choked) <=> ChokedAfter(toUs, choked)
        /\ AdvertisedIn(toUs') = AdvertisedIn(toUs)
        /\ ~opened => toUs' = toUs
    <2>1. CASE toUs' = toUs
      BY <1>1, <2>1 DEF QueueType
    <2>2. CASE opened /\ \E m : toUs' = Append(toUs, m) /\ m.id = "piece"
      <3>1. PICK m : toUs' = Append(toUs, m) /\ m.id = "piece"
        BY <2>2
      <3>2. Sent(m) /\ ~About(m) /\ Advertised(m) = {} /\ m.id # "bitfield"
        BY <3>1 DEF Sent, About, Advertised
      <3>3. IsList(toUs)
        BY <1>1 DEF QueueType
      <3>4. IsList(toUs') /\ HonestQueue(toUs')
        BY <1>1, <3>1, <3>2, <3>3, AppendList, HonestAppend
      <3>5. NoneIn(toUs, "bitfield") => NoneIn(toUs', "bitfield")
        BY <3>1, <3>2, <3>3, NoneAppend
      <3>6. ChokedAfter(toUs', choked) <=> ChokedAfter(toUs, choked)
        BY <3>1, <3>2, <3>3, ChokedAppend
      <3>7. AdvertisedIn(toUs') = AdvertisedIn(toUs)
        <4>1. AdvertisedIn(Append(toUs, m)) = AdvertisedIn(toUs) \cup Advertised(m)
          BY <3>3, AdvertisedAppend
        <4>2. AdvertisedIn(toUs) \cup Advertised(m) = AdvertisedIn(toUs)
          BY <3>2
        <4> QED BY <3>1, <4>1, <4>2
      <3> QED BY <2>2, <3>4, <3>5, <3>6, <3>7
    <2> QED BY <2>1, <2>2
  <1>4. QueueType'
    BY <1>1, <1>2, <1>3 DEF QueueType, Pieces
  <1>5. HonestQueue(toUs)'
    BY <1>3 DEF HonestQueue, Sent, Pieces
  <1>6. Window'
    BY <1>1, <1>2, <1>3 DEF Window, NoneIn
  <1>7. ViewsConverge'
    <2>1. /\ ChokedAfter(toUs, choked)' <=> ChokedAfter(toUs', choked)
          /\ AdvertisedIn(toUs)' = AdvertisedIn(toUs')
      BY <1>2 DEF ChokedAfter, AdvertisedIn, Advertised
    <2> QED BY <1>1, <1>2, <1>3, <2>1 DEF ViewsConverge
  <1>8. OneRequest'
    <2>1. wanted' = wanted
      BY <1>2 DEF wanted, blockLength
    <2>2. /\ Waiting(givenUp, wanted, toPeer', pending', toUs') <=>
                 Waiting(givenUp, wanted, toPeer, pending, toUs)'
          /\ Clean(givenUp, toPeer', pending', toUs') <=> Clean(givenUp, toPeer, pending, toUs)'
      BY <1>2, <2>1 DEF Waiting, Clean, OnlyFresh, NoFresh, Fresh, Answers
    <2> QED BY <1>1, <1>2, <2>2 DEF OneRequest
  <1> QED BY <1>4, <1>5, <1>6, <1>7, <1>8 DEF TInv

LEMMA PeerOpensStep ==
  ASSUME TInv, PeerOpens
  PROVE  TInv'
  <1> DEFINE m == [id |-> "bitfield", pieces |-> peerHas]
  <1>1. /\ ~opened /\ opened' /\ UNCHANGED <<OurSide, toPeer, peerHas, peerChoking, pending>>
        /\ opened' = TRUE
        /\ Sends(m) \/ (peerHas = {} /\ toUs' = toUs)
    BY DEF PeerOpens
  <1>2. QueueType /\ HonestQueue(toUs) /\ Window /\ OneRequest
    BY DEF TInv
  <1>3. Sent(m) /\ m.id = "bitfield" /\ m.pieces = peerHas /\ ~About(m)
    BY DEF Sent, About
  <1> HIDE DEF m
  <1>4. CASE Sends(m)
    BY <1>1, <1>2, <1>3, <1>4, PeerSendStep DEF QueueType
  <1>5. CASE peerHas = {} /\ toUs' = toUs
    <2>1. UNCHANGED <<choked, peerPieces, bitfieldAllowed, usable, pc, piece, blockOffset,
                      requested, result, givenUp>>
      BY <1>1 DEF OurSide, vars, fieldVars, callVars, historyVars
    <2>2. QueueType' /\ HonestQueue(toUs)'
      BY <1>1, <1>2, <1>5, <2>1 DEF QueueType, HonestQueue, Sent, Pieces
    <2>3. Window'
      BY <1>1, <1>2, <1>5, <2>1 DEF Window, NoneIn
    <2>4. ViewsConverge'
      <3> SUFFICES ASSUME usable
                   PROVE  /\ peerChoking <=> ChokedAfter(toUs, choked)
                          /\ peerHas = peerPieces \cup AdvertisedIn(toUs)
        <4>1. /\ ChokedAfter(toUs, choked)' <=> ChokedAfter(toUs, choked)
              /\ AdvertisedIn(toUs)' = AdvertisedIn(toUs)
          BY <1>5, <2>1 DEF ChokedAfter, AdvertisedIn, Advertised
        <4> QED BY <1>1, <2>1, <4>1 DEF ViewsConverge
      <3>1. toUs = <<>> /\ peerChoking /\ choked /\ peerPieces = {}
        BY <1>1, <1>2 DEF Window
      <3>2. 1..Len(<<>>) = {}
        OBVIOUS
      <3> QED BY <1>5, <3>1, <3>2 DEF ChokedAfter, AdvertisedIn
    <2>5. OneRequest'
      BY <1>1, <1>2, <1>5, <2>1
         DEF OneRequest, Waiting, Clean, OnlyFresh, NoFresh, Fresh, Answers, wanted, blockLength
    <2> QED BY <2>2, <2>3, <2>4, <2>5 DEF TInv
  <1> QED BY <1>1, <1>4, <1>5

LEMMA PeerTellsStep ==
  ASSUME TInv, PeerUnchokes \/ PeerChokes \/ \E i \in Pieces : PeerAcquires(i)
  PROVE  TInv'
  <1>1. QueueType
    BY DEF TInv
  <1>2. CASE PeerUnchokes
    <2> DEFINE m == [id |-> "unchoke"]
    <2>1. /\ opened /\ opened' /\ Sends(m) /\ peerChoking' = FALSE
          /\ UNCHANGED <<OurSide, toPeer, peerHas, pending>>
      BY <1>2 DEF PeerUnchokes
    <2>2. Sent(m) /\ m.id = "unchoke" /\ About(m) /\ Advertised(m) = {}
      BY DEF Sent, About, Advertised
    <2> HIDE DEF m
    <2> QED BY <1>1, <2>1, <2>2, PeerSendStep DEF QueueType
  <1>3. CASE PeerChokes
    <2> DEFINE m == [id |-> "choke"]
    <2>1. /\ opened /\ opened' /\ Sends(m) /\ peerChoking' = TRUE /\ pending' = <<>>
          /\ UNCHANGED <<OurSide, toPeer, peerHas>>
      BY <1>3 DEF PeerChokes
    <2>2. Sent(m) /\ m.id = "choke" /\ About(m) /\ Advertised(m) = {}
      BY DEF Sent, About, Advertised
    <2> HIDE DEF m
    <2> QED BY <1>1, <2>1, <2>2, PeerSendStep DEF QueueType
  <1>4. CASE \E i \in Pieces : PeerAcquires(i)
    <2>1. PICK i \in Pieces : PeerAcquires(i)
      BY <1>4
    <2> DEFINE m == [id |-> "have", index |-> i]
    <2>2. /\ opened /\ opened' /\ Sends(m) /\ peerHas' = peerHas \cup {i}
          /\ UNCHANGED <<OurSide, toPeer, peerChoking, pending>>
      BY <2>1 DEF PeerAcquires
    <2>3. Sent(m) /\ m.id = "have" /\ ~About(m) /\ Advertised(m) = {i}
      BY DEF Sent, About, Advertised
    <2> HIDE DEF m
    <2> QED BY <1>1, <2>2, <2>3, PeerSendStep DEF QueueType
  <1> QED BY <1>2, <1>3, <1>4

LEMMA PeerReadsStep ==
  ASSUME TInv, PeerReads
  PROVE  TInv'
  <1>1. QueueType
    BY DEF TInv
  <1>2. /\ toPeer # <<>> /\ toPeer' = Tail(toPeer) /\ toUs' = toUs
        /\ UNCHANGED <<OurSide, peerHas, peerChoking, opened>>
        /\ pending' = pending \/
              (/\ Head(toPeer).id = "request" /\ ~peerChoking
               /\ pending' = Append(pending, Head(toPeer)))
    BY DEF PeerReads
  <1>3. IsList(toPeer') /\ IsList(pending') /\ (~opened => pending' = <<>>)
    <2>1. IsList(Tail(toPeer)) /\ IsList(Append(pending, Head(toPeer)))
      BY <1>1, <1>2, TailList, AppendList DEF QueueType
    <2>2. ~opened => peerChoking /\ pending = <<>>
      BY DEF TInv, Window
    <2> QED BY <1>1, <1>2, <2>1, <2>2 DEF QueueType
  <1>4. /\ Waiting(givenUp, wanted, toPeer, pending, toUs) =>
               Waiting(givenUp, wanted, toPeer', pending', toUs')
        /\ Clean(givenUp, toPeer, pending, toUs) => Clean(givenUp, toPeer', pending', toUs')
    BY <1>1, <1>2, RequestRead DEF QueueType
  <1>5. \A k \in 1..Len(pending') : pending'[k].id = "request"
    BY <1>1, <1>2, AppendIndex DEF QueueType
  <1> QED BY <1>2, <1>3, <1>4, <1>5, PeerQuietStep

LEMMA PeerServesStep ==
  ASSUME TInv, PeerServes
  PROVE  TInv'
  <1> DEFINE r == Head(pending)
             m == [id |-> "piece", index |-> r.index, begin |-> r.begin, length |-> r.length]
  <1>1. QueueType
    BY DEF TInv
  <1>2. /\ pending # <<>> /\ pending' = Tail(pending) /\ toPeer' = toPeer
        /\ toUs' = Append(toUs, m) /\ UNCHANGED <<OurSide, peerHas, peerChoking, opened>>
    BY DEF PeerServes, Sends
  <1>3. m.id = "piece" /\ Answers(m, r)
    BY DEF Answers
  <1> HIDE DEF m
  <1>4. IsList(toPeer') /\ IsList(pending') /\ opened
    BY <1>1, <1>2, TailList DEF QueueType, TInv, Window
  <1>5. r.id = "request" /\ \A k \in 1..Len(pending') : pending'[k].id = "request"
    BY <1>1, <1>2, TailList, TailIndex DEF QueueType
  <1>6. /\ Waiting(givenUp, wanted, toPeer, pending, toUs) =>
               Waiting(givenUp, wanted, toPeer', pending', toUs')
        /\ Clean(givenUp, toPeer, pending, toUs) => Clean(givenUp, toPeer', pending', toUs')
    BY <1>1, <1>2, <1>3, <1>5, RequestServed DEF QueueType
  <1> QED BY <1>2, <1>3, <1>4, <1>5, <1>6, PeerQuietStep

-----------------------------------------------------------------------------
(* The theorems.                                                           *)

LEMMA TransferNext == TInv /\ [TNext]_allVars => TInv'
  <1> SUFFICES ASSUME TInv, [TNext]_allVars PROVE TInv'
    OBVIOUS
  <1>1. CASE \E i \in 0..pieceCount, length \in Lengths : CallFetchPiece(i, length)
    BY <1>1, CallStep
  <1>2. CASE Proceed \/ ReadNext \/ TimesOut
    BY <1>2, ProceedStep, ReadNextStep, TimesOutStep
  <1>3. CASE PeerOpens \/ PeerReads \/ PeerServes
    BY <1>3, PeerOpensStep, PeerReadsStep, PeerServesStep
  <1>4. CASE PeerUnchokes \/ PeerChokes \/ \E i \in Pieces : PeerAcquires(i)
    BY <1>4, PeerTellsStep
  <1>5. CASE UNCHANGED allVars
    <2>1. /\ UNCHANGED <<OurSide, peerHas, peerChoking, opened>>
          /\ toUs' = toUs /\ toPeer' = toPeer /\ pending' = pending
      BY <1>5 DEF allVars, OurSide, historyVars, peerVars
    <2>2. /\ IsList(toPeer') /\ IsList(pending') /\ (~opened => pending' = <<>>)
          /\ \A k \in 1..Len(pending') : pending'[k].id = "request"
      BY <2>1 DEF TInv, QueueType, Window
    <2> QED BY <2>1, <2>2, PeerQuietStep
  <1> QED BY <1>1, <1>2, <1>3, <1>4, <1>5 DEF TNext

LEMMA TransferInvariance == TFairSpec => []TInv
BY TransferInit, TransferNext, PTL DEF TFairSpec

\* However far a well-behaved peer runs ahead, and however its Choke, Unchoke,
\* Have and Bitfield messages cross our requests, what the session believes
\* (Session.Read) becomes the peer's state once the messages under way are read.
THEOREM ViewIsPeersDelayed == TFairSpec => []ViewsConverge
  <1>1. TInv => ViewsConverge
    BY DEF TInv
  <1> QED BY <1>1, TransferInvariance, PTL

\* A step that reads nothing leaves the messages under way to us, or adds one.
LEMMA OnlyReadsShorten ==
  ASSUME TInv, [TNext]_allVars, toUs # <<>>, toUs' = Tail(toUs), usable, ~usable'
  PROVE  ReadNext
  <1>1. Len(Tail(toUs)) # Len(toUs)
    BY TailList DEF TInv, QueueType
  <1>2. toUs' # toUs
    BY <1>1, Zenon
  <1>3. CASE \E i \in 0..pieceCount, length \in Lengths : CallFetchPiece(i, length)
    BY <1>2, <1>3 DEF CallFetchPiece
  <1>4. CASE Proceed \/ TimesOut \/ PeerReads \/ UNCHANGED allVars
    BY <1>2, <1>4 DEF Proceed, TimesOut, PeerReads, allVars
  <1>5. CASE \/ PeerOpens \/ PeerUnchokes \/ PeerChokes \/ PeerServes
             \/ \E i \in Pieces : PeerAcquires(i)
    <2>1. usable' = usable
      BY <1>5 DEF PeerOpens, PeerUnchokes, PeerChokes, PeerServes, PeerAcquires, OurSide, vars
    <2> QED BY <2>1
  <1> QED BY <1>3, <1>4, <1>5 DEF TNext

\* FetchPiece and Read hold one message of a well-behaved peer against it, the
\* answer to a request that a call gave up at a Choke, and no other.
THEOREM NoFalseBlame == TFairSpec => HonestPeerNotBlamed
  <1>1. ASSUME TInv, [TNext]_allVars
        PROVE  [toUs # <<>> /\ toUs' = Tail(toUs) /\ usable /\ ~usable' =>
                    Head(toUs).id = "piece" /\ \E r \in givenUp : Answers(Head(toUs), r)]_allVars
    BY <1>1, OnlyReadsShorten, ReadNextStep
  <1> QED BY <1>1, TransferInvariance, PTL DEF TFairSpec, HonestPeerNotBlamed
=============================================================================
