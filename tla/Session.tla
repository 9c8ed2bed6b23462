------------------------------- MODULE Session ------------------------------
(***************************************************************************)
(* The peer session of internal/peerconn/session.go: Session.Read and      *)
(* FetchPiece against a peer that may send any message at any time.        *)
(*                                                                         *)
(* A message read is one action.  Keep-alives and unsupported frames,      *)
(* which Read skips, change nothing and are not actions.  The contexts of  *)
(* the setup and of each block (module Conn) appear here only as an error  *)
(* that any I/O call or context check may return.                          *)
(***************************************************************************)
EXTENDS Integers, Sequences

CONSTANTS
    pieceCount,     \* number of pieces in the torrent
    MaxBlockSize,   \* largest block (16 KiB in the code)
    UintSize,       \* 2^32: offsets and lengths are below it and wrap at it
    Lengths         \* piece lengths that FetchPiece is called with

ASSUME SessionAssumption ==
    /\ pieceCount \in Nat /\ MaxBlockSize \in Nat \ {0} /\ UintSize \in Nat
    /\ MaxBlockSize < UintSize /\ pieceCount <= UintSize
    /\ Lengths \subseteq 0..(UintSize - 1)

VARIABLES
    choked, peerPieces, bitfieldAllowed,    \* the fields of Session
    usable,         \* no read or protocol error has ended the session
    pc,             \* control of FetchPiece, "idle" between calls
    piece,          \* its argument, a PieceSpec
    blockOffset,    \* its loop variable
    interested,     \* this call has sent Interested
    requested,      \* blocks requested by this call, as [begin, length]
    delivered,      \* calls of onBlock: [offset, block], block as sent by peer
    result          \* what the last call returned

fieldVars == <<choked, peerPieces, bitfieldAllowed>>
callVars == <<piece, blockOffset, interested, requested, delivered>>
vars == <<fieldVars, usable, pc, callVars, result>>

Pieces == 0..(pieceCount - 1)
Uint == 0..(UintSize - 1)

\* NewSession
Init ==
    /\ choked = TRUE /\ peerPieces = {} /\ bitfieldAllowed = TRUE
    /\ usable = TRUE /\ pc = "idle" /\ result = "none"
    /\ piece = [Index |-> 0, Length |-> 0] /\ blockOffset = 0
    /\ interested = FALSE /\ requested = <<>> /\ delivered = <<>>

-----------------------------------------------------------------------------
(* Session.Read.                                                           *)

\* Frames that ReadFrame accepts.  "other" stands for Interested,
\* NotInterested, Request and Cancel; "spareBits" for a Bitfield of the right
\* length that ParseBitfield refuses.  A Have may name a missing piece.
Messages ==
    [id : {"choke", "unchoke", "spareBits", "other"}]
    \cup [id : {"have"}, index : 0..pieceCount]
    \cup [id : {"bitfield"}, pieces : SUBSET Pieces]
    \cup [id : {"piece"}, index : 0..pieceCount, begin : Uint,
          length : 0..MaxBlockSize]

IsBitfield(m) == m.id \in {"bitfield", "spareBits"}

ReadErrorAnyBitfield(m) ==
    CASE m.id = "spareBits" -> "malformed"
      [] m.id = "have" /\ m.index >= pieceCount -> "protocol"
      [] OTHER -> "nil"

\* The error Read returns for message m.
ReadError(m) ==
    CASE IsBitfield(m) /\ ~bitfieldAllowed -> "protocol"
      [] m.id = "spareBits" /\ bitfieldAllowed -> "malformed"
      [] m.id = "have" /\ m.index >= pieceCount -> "protocol"
      [] OTHER -> "nil"

ReadKeepsUnchoked(m) ==
    /\ bitfieldAllowed' = FALSE
    /\ choked' = (choked /\ m.id # "unchoke")
    /\ peerPieces' =
           IF ReadError(m) # "nil" THEN peerPieces
           ELSE CASE m.id = "bitfield" -> m.pieces
                  [] m.id = "have" -> peerPieces \cup {m.index}
                  [] OTHER -> peerPieces

\* The effect of reading m on the session, also when it is refused.
Read(m) ==
    /\ bitfieldAllowed' = FALSE
    /\ choked' = CASE m.id = "choke" -> TRUE
                   [] m.id = "unchoke" -> FALSE
                   [] OTHER -> choked
    /\ peerPieces' =
           IF ReadError(m) # "nil" THEN peerPieces
           ELSE CASE m.id = "bitfield" -> m.pieces
                  [] m.id = "have" -> peerPieces \cup {m.index}
                  [] OTHER -> peerPieces

HasPiece == piece.Index \in peerPieces

-----------------------------------------------------------------------------
(* Returning from FetchPiece.                                              *)

Return(r) == pc' = "idle" /\ result' = r

\* Return an error that leaves the stream at an unknown position or in dispute.
Fail(e) == Return(e) /\ usable' = FALSE

\* Return an error after which the caller may use the session again.
Refuse(e) == Return(e) /\ UNCHANGED usable

Stay == UNCHANGED <<pc, result, usable>>

\* contextIOError: an error of a read or write, or the context's if it is done.
FailIO(e) == Fail(e) \/ Fail("context")

-----------------------------------------------------------------------------
(* FetchPiece.                                                             *)

\* The call: argument checks, the context check, and watchContext for the
\* setup, which can fail before anything is read.
FetchPiece(i, length) ==
    /\ pc = "idle" /\ usable
    /\ piece' = [Index |-> i, Length |-> length]
    /\ blockOffset' = 0 /\ interested' = FALSE
    /\ requested' = <<>> /\ delivered' = <<>>
    /\ IF i >= pieceCount \/ length = 0
       THEN Refuse("argument")
       ELSE \/ \E e \in {"context", "watch"} : Refuse(e)
            \/ pc' = "advertise" /\ result' = "none" /\ UNCHANGED usable
    /\ UNCHANGED fieldVars

\* An exported Read between two calls of FetchPiece.
ReadIdle(m) ==
    /\ pc = "idle" /\ usable
    /\ Read(m)
    /\ usable' = (ReadError(m) = "nil")
    /\ UNCHANGED <<pc, callVars, result>>

\* That Read finds the stream ended or the frame malformed.
ReadIdleFails ==
    /\ pc = "idle" /\ usable
    /\ usable' = FALSE
    /\ UNCHANGED <<fieldVars, pc, callVars, result>>

\* waitUntilReady, first loop.
ReadAdvertisement(m) ==
    /\ pc = "advertise" /\ ~HasPiece
    /\ Read(m)
    /\ CASE ReadError(m) # "nil" -> FailIO(ReadError(m))
         [] ReadError(m) = "nil" /\ m.id = "bitfield" /\ piece.Index \notin m.pieces
                -> Refuse("unavailable")
         [] m.id = "piece" -> Fail("protocol")
         [] OTHER -> Stay
    /\ UNCHANGED callVars

SendInterested ==
    /\ pc = "advertise" /\ HasPiece
    /\ \/ pc' = "unchoke" /\ interested' = TRUE /\ UNCHANGED <<result, usable>>
       \/ FailIO("io") /\ UNCHANGED interested
    /\ UNCHANGED <<fieldVars, piece, blockOffset, requested, delivered>>

\* waitUntilReady, second loop.
ReadUnchoke(m) ==
    /\ pc = "unchoke" /\ choked
    /\ Read(m)
    /\ CASE ReadError(m) # "nil" -> FailIO(ReadError(m))
         [] m.id = "piece" -> Fail("protocol")
         [] OTHER -> Stay
    /\ UNCHANGED callVars

\* return setupCtx.Err()
SetupDone ==
    /\ pc = "unchoke" /\ ~choked
    /\ \/ pc' = "request" /\ UNCHANGED <<result, usable>>
       \/ Refuse("context")
    /\ UNCHANGED <<fieldVars, callVars>>

blockLengthUncut == MaxBlockSize

\* min(peerwire.MaxBlockSize, piece.Length-blockOffset) on uint32
blockLength ==
    LET rest == (piece.Length - blockOffset) % UintSize
    IN  IF MaxBlockSize < rest THEN MaxBlockSize ELSE rest

\* One turn of the block loop up to the written request: watchContext, context
\* check, WriteRequest, which refuses a length of zero.
RequestBlock ==
    /\ pc = "request"
    /\ \/ /\ blockLength > 0
          /\ pc' = "await"
          /\ requested' = Append(requested,
                              [begin |-> blockOffset, length |-> blockLength])
          /\ UNCHANGED <<result, usable>>
       \/ \E e \in {"context", "watch"} : Refuse(e) /\ UNCHANGED requested
       \/ FailIO("io") /\ UNCHANGED requested
    /\ UNCHANGED <<fieldVars, piece, blockOffset, interested, delivered>>

MatchesFullBlock(m) ==
    m.index = piece.Index /\ m.begin = blockOffset /\ m.length = MaxBlockSize

MatchesByLength(m) == m.length = blockLength

MatchesRequest(m) ==
    m.index = piece.Index /\ m.begin = blockOffset /\ m.length = blockLength

\* onBlock(blockOffset, block), blockOffset += length, and the loop condition.
AcceptBlock(m) ==
    /\ delivered' = Append(delivered, [offset |-> blockOffset, block |-> m])
    /\ blockOffset' = (blockOffset + blockLength) % UintSize
    /\ IF blockOffset' < piece.Length
       THEN pc' = "request" /\ UNCHANGED <<result, usable>>
       ELSE Refuse("ok")

\* A Piece message while a request is outstanding: refused, or the context is
\* done, or onBlock fails, or it is accepted.
ReceiveBlock(m) ==
    IF MatchesRequest(m)
    THEN \/ \E e \in {"context", "callback"} :
                Refuse(e) /\ UNCHANGED <<delivered, blockOffset>>
         \/ AcceptBlock(m)
    ELSE Fail("protocol") /\ UNCHANGED <<delivered, blockOffset>>

AwaitIgnoresChoke(m) ==
    CASE ReadError(m) # "nil" -> FailIO(ReadError(m)) /\ UNCHANGED <<delivered, blockOffset>>
      [] m.id = "piece" -> ReceiveBlock(m)
      [] OTHER -> Stay /\ UNCHANGED <<delivered, blockOffset>>

\* The switch on a message received in the inner loop.
OnMessage(m) ==
    CASE ReadError(m) # "nil" -> FailIO(ReadError(m)) /\ UNCHANGED <<delivered, blockOffset>>
      [] m.id = "choke" -> Refuse("choked") /\ UNCHANGED <<delivered, blockOffset>>
      [] m.id = "piece" -> ReceiveBlock(m)
      [] OTHER -> Stay /\ UNCHANGED <<delivered, blockOffset>>

AwaitBlock(m) ==
    /\ pc = "await"
    /\ Read(m)
    /\ OnMessage(m)
    /\ UNCHANGED <<piece, interested, requested>>

Reading ==
    \/ pc = "advertise" /\ ~HasPiece
    \/ pc = "unchoke" /\ choked
    \/ pc = "await"

\* ReadFrame fails: the stream ends, the frame is malformed, or the deadline of
\* the context ends the wait.
ReadFails(e) ==
    /\ Reading
    /\ FailIO(e)
    /\ UNCHANGED <<fieldVars, callVars>>

-----------------------------------------------------------------------------
Next ==
    \/ \E i \in 0..pieceCount, length \in Lengths : FetchPiece(i, length)
    \/ \E m \in Messages : \/ ReadIdle(m) \/ ReadAdvertisement(m)
                           \/ ReadUnchoke(m) \/ AwaitBlock(m)
    \/ SendInterested \/ SetupDone \/ RequestBlock
    \/ ReadIdleFails
    \/ \E e \in {"io", "malformed"} : ReadFails(e)

Spec == Init /\ [][Next]_vars
=============================================================================
