------------------------------ MODULE Bitfield ------------------------------
(***************************************************************************)
(* internal/peerwire/bitfield.go.  A byte is the set of the positions of   *)
(* its one bits, position 0 being the least significant.                   *)
(***************************************************************************)
EXTENDS Integers

CONSTANTS
    MaxPieceCount,  \* 2^32, the limit of validatePieceCount
    PieceCounts,    \* piece counts the operations are called with
    Bytes           \* bytes of the payloads ParseBitfield is called with

ASSUME BitfieldAssumption ==
    MaxPieceCount \in Nat /\ PieceCounts \subseteq Int /\ Bytes \subseteq SUBSET (0..7)

VARIABLES
    bits, pieceCount,   \* the fields of Bitfield
    instance,           \* history: 0 or 1, another number for each new Bitfield
    err                 \* what the last call returned

vars == <<bits, pieceCount, instance, err>>

Byte == SUBSET (0..7)

validatePieceCount(n) == n >= 0 /\ n <= MaxPieceCount

\* bytes := pieceCount / 8, one more if a remainder is left
bitfieldByteCount(n) == (n \div 8) + (IF n % 8 # 0 THEN 1 ELSE 0)

\* 1 << (7 - bitIndex)
mask(i) == 7 - (i % 8)

holds(b, i) == mask(i) \in b[i \div 8]

HasPiece(i) == i \in 0..(pieceCount - 1) /\ holds(bits, i)

\* The bits of the last byte that stand for no piece
spareMask(n) == 0..(7 - (n % 8))

spareBitsSet(payload, n) ==
    n % 8 # 0 /\ payload[bitfieldByteCount(n) - 1] \cap spareMask(n) # {}

Fails(e) == err' = e /\ UNCHANGED <<bits, pieceCount, instance>>

Becomes(b, n) ==
    bits' = b /\ pieceCount' = n /\ instance' = 1 - instance /\ err' = "nil"

NewBitfield(n) ==
    IF ~validatePieceCount(n) THEN Fails("argument")
    ELSE Becomes([k \in 0..(bitfieldByteCount(n) - 1) |-> {}], n)

\* ParseBitfield of a payload of size bytes.
ParseBitfield(payload, size, n) ==
    IF ~validatePieceCount(n) THEN Fails("argument")
    ELSE IF size # bitfieldByteCount(n) \/ spareBitsSet(payload, n) THEN Fails("malformed")
    ELSE Becomes(payload, n)

SetPieceOverwrites(i) ==
    IF i < 0 \/ i >= pieceCount THEN Fails("argument")
    ELSE /\ bits' = [bits EXCEPT ![i \div 8] = {mask(i)}]
         /\ err' = "nil" /\ UNCHANGED <<pieceCount, instance>>

SetPieceUnchecked(i) ==
    IF i < 0 \/ i > 8 * bitfieldByteCount(pieceCount) - 1 THEN Fails("argument")
    ELSE /\ bits' = [bits EXCEPT ![i \div 8] = @ \cup {mask(i)}]
         /\ err' = "nil" /\ UNCHANGED <<pieceCount, instance>>

SetPiece(i) ==
    IF i < 0 \/ i >= pieceCount THEN Fails("argument")
    ELSE /\ bits' = [bits EXCEPT ![i \div 8] = @ \cup {mask(i)}]
         /\ err' = "nil" /\ UNCHANGED <<pieceCount, instance>>

\* The zero value of Bitfield.
Init == bits = [k \in {} |-> {}] /\ pieceCount = 0 /\ instance = 0 /\ err = "nil"

Payloads(size) == [0..(size - 1) -> Bytes]

Next ==
    \/ \E n \in PieceCounts : NewBitfield(n)
    \/ \E n \in PieceCounts, size \in 0..bitfieldByteCount(MaxPieceCount) :
           \E payload \in Payloads(size) : ParseBitfield(payload, size, n)
    \/ \E i \in -1..MaxPieceCount : SetPiece(i)

Spec == Init /\ [][Next]_vars

-----------------------------------------------------------------------------
(* Properties.                                                             *)

\* The type invariant of a Bitfield.
TypeOK ==
    /\ pieceCount \in 0..MaxPieceCount
    /\ bits \in [0..(bitfieldByteCount(pieceCount) - 1) -> Byte]
    /\ instance \in {0, 1} /\ err \in {"nil", "argument", "malformed"}

Pieces == INSTANCE PieceSet WITH have <- {i \in 0..(pieceCount - 1) : HasPiece(i)}

\* NewBitfield, ParseBitfield and SetPiece implement a set of pieces: the
\* shifts and masks of SetPiece change the piece they name and no other, and
\* an operation that fails changes nothing.
ImplementsPieceSet == Pieces!Spec

\* Whatever a Bitfield holds, WriteBitfield sends bytes that ParseBitfield
\* accepts on the other side: no operation ever sets a spare bit.
WrittenIsParsable == ~spareBitsSet(bits, pieceCount)
=============================================================================
