---------------------------- MODULE SessionProps ----------------------------
(***************************************************************************)
(* What a session promises, whatever its peer sends.                       *)
(***************************************************************************)
EXTENDS Session

\* Every variable stays in its range; offsets stay inside uint32.
TypeOK ==
    /\ choked \in BOOLEAN /\ bitfieldAllowed \in BOOLEAN
    /\ peerPieces \subseteq Pieces
    /\ usable \in BOOLEAN /\ interested \in BOOLEAN
    /\ pc \in {"idle", "advertise", "unchoke", "request", "await"}
    /\ piece \in [Index : 0..pieceCount, Length : Uint]
    /\ blockOffset \in Uint
    /\ requested \in Seq([begin : Uint, length : 1..MaxBlockSize])
    /\ delivered \in Seq([offset : Uint, block : Messages])
    /\ result \in {"none", "ok", "argument", "context", "watch", "unavailable",
                   "choked", "callback", "io", "malformed", "protocol"}

\* A block is requested, and awaited, only while the peer has unchoked us and
\* has advertised the piece, and after this call has sent Interested: a Choke
\* that arrives between two blocks, or before a later call, is never ignored.
RequestsOnlyWhenServed ==
    pc \in {"request", "await"} =>
        ~choked /\ HasPiece /\ interested

\* The blocks handed to onBlock tile the piece from its start without gap,
\* overlap or wrap-around, and a successful call has delivered all of it.
BlocksTilePiece ==
    /\ \A k \in 1..Len(delivered) :
           /\ delivered[k].offset = (IF k = 1 THEN 0
                  ELSE delivered[k - 1].offset + delivered[k - 1].block.length)
           /\ delivered[k].offset + delivered[k].block.length <= piece.Length
    /\ result = "ok" =>
           /\ delivered # <<>>
           /\ LET last == delivered[Len(delivered)]
              IN  last.offset + last.block.length = piece.Length

\* Every block handed to onBlock is the peer's answer to the request with the
\* same number: same piece, same offset, same length.  At most one request is
\* outstanding, so stale and duplicate Piece messages are never accepted.
BlocksAnswerRequests ==
    /\ Len(requested) - Len(delivered) \in {0, 1}
    /\ \A k \in 1..Len(delivered) :
           /\ delivered[k].block.index = piece.Index
           /\ delivered[k].block.begin = requested[k].begin
           /\ delivered[k].block.length = requested[k].length
           /\ delivered[k].offset = requested[k].begin

\* What the peer advertised is never forgotten: a Bitfield replaces the whole
\* set, so it must not arrive after a Have.
PiecesNeverForgotten == [][peerPieces \subseteq peerPieces']_vars
=============================================================================
