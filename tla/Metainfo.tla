------------------------------ MODULE Metainfo ------------------------------
(***************************************************************************)
(* The piece layout of a single-file torrent: the checks of                *)
(* internal/metainfo/parse.go and the byte range that the download-piece   *)
(* command derives from it (cmd/bt/main.go).  Integers are int64 and wrap. *)
(***************************************************************************)
EXTENDS Integers

CONSTANTS
    IntSize,        \* an int64 lies in -IntSize..IntSize-1 (2^63 in the code)
    UintSize,       \* piece indexes and block offsets are below it (2^32)
    hashLength,     \* bytes of a digest (20)
    MaxPiecesBytes, \* bound on the length of the pieces field
    MaxIndex        \* bound on the piece index asked for

VARIABLES
    declared,   \* the decoded info dictionary
    torrent,    \* the TorrentFile that Open returned, if it did
    range,      \* the byte range of the piece asked for, if accepted
    pc

vars == <<declared, torrent, range, pc>>

Int64 == -IntSize..(IntSize - 1)

\* The value of an int64 expression whose exact value is v.
wrap(v) == ((v + IntSize) % (2 * IntSize)) - IntSize

\* Integer division truncates toward zero; y is positive.
quotient(x, y) == IF x >= 0 THEN x \div y ELSE -((-x) \div y)

NoTorrent == [PieceHashes |-> 0, PieceLength |-> 0, Length |-> 0]
NoRange == [index |-> 0, start |-> 0, length |-> 0]

expectedPieceCountRounding(d) ==
    IF d.Length > 0 THEN quotient(wrap(d.Length + d.PieceLength - 1), d.PieceLength) ELSE 0

\* expectedPieceCount of toTorrentFile, for a positive piece length
expectedPieceCount(d) ==
    IF d.Length > 0 THEN wrap(1 + quotient(wrap(d.Length - 1), d.PieceLength)) ELSE 0

\* len(hashes) of splitPieceHashes
hashCount(d) == d.Pieces \div hashLength

layoutValid(d) ==
    /\ d.PieceLength > 0 /\ d.Length >= 0
    /\ d.Pieces % hashLength = 0
    /\ hashCount(d) <= UintSize
    /\ hashCount(d) = expectedPieceCount(d)

\* Open: reading or decoding the file may fail, the layout may be refused.
Open(d) ==
    /\ pc = "open" /\ declared' = d
    /\ \/ /\ layoutValid(d) /\ pc' = "index"
          /\ torrent' = [PieceHashes |-> hashCount(d),
                         PieceLength |-> d.PieceLength, Length |-> d.Length]
       \/ pc' = "refused" /\ UNCHANGED torrent
    /\ UNCHANGED range

indexCheckMissing(i) == i < UintSize

\* The flag has been checked to be non-negative.
indexCheck(i) == i < torrent.PieceHashes /\ i < UintSize

\* downloadPiece: the index check, start, and the length of the piece.
PieceRange(i) ==
    LET start == wrap(i * torrent.PieceLength)
        rest == wrap(torrent.Length - start)
        length == IF torrent.PieceLength < rest THEN torrent.PieceLength ELSE rest
    IN  /\ pc = "index"
        /\ IF indexCheck(i) /\ length > 0 /\ length < UintSize
           THEN pc' = "ranged" /\ range' = [index |-> i, start |-> start, length |-> length]
           ELSE pc' = "refused" /\ UNCHANGED range
        /\ UNCHANGED <<declared, torrent>>

Declared == [PieceLength : Int64, Length : Int64, Pieces : 0..MaxPiecesBytes]

Init ==
    /\ declared = [PieceLength |-> 0, Length |-> 0, Pieces |-> 0]
    /\ torrent = NoTorrent /\ range = NoRange /\ pc = "open"

Next ==
    \/ \E d \in Declared : Open(d)
    \/ \E i \in 0..MaxIndex : PieceRange(i)

Spec == Init /\ [][Next]_vars

-----------------------------------------------------------------------------
(* Properties.                                                             *)

\* An accepted torrent has one hash for every piece and none besides: the
\* pieces before the last are full, the last is not empty and ends with the
\* content, at the largest int64 lengths too.
PiecesTile ==
    pc = "index" =>
        LET n == torrent.PieceHashes  p == torrent.PieceLength
        IN  IF torrent.Length = 0 THEN n = 0
            ELSE (n - 1) * p < torrent.Length /\ torrent.Length <= n * p

\* The byte range the command downloads is exactly that of the piece asked
\* for: the multiplication has not wrapped and the range lies in the content.
RangeExact ==
    pc = "ranged" =>
        /\ range.start = range.index * torrent.PieceLength
        /\ range.length \in 1..torrent.PieceLength
        /\ range.start + range.length <= torrent.Length
        /\ range.length < torrent.PieceLength => range.start + range.length = torrent.Length
=============================================================================
