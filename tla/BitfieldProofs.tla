--------------------------- MODULE BitfieldProofs ---------------------------
(* Theorems about the bitfield, for every piece count and payload.         *)
EXTENDS Bitfield, TLAPS

LEMMA ByteCountNat ==
    ASSUME NEW n \in Nat
    PROVE  bitfieldByteCount(n) \in Nat
BY DEF bitfieldByteCount

\* The byte of a piece exists.
LEMMA ByteExists ==
    ASSUME NEW n \in Nat, NEW i \in 0..(n - 1)
    PROVE  i \div 8 \in 0..(bitfieldByteCount(n) - 1)
BY DEF bitfieldByteCount

LEMMA MaskInByte ==
    ASSUME NEW i \in Nat
    PROVE  mask(i) \in 0..7
BY DEF mask

\* Two pieces of one byte have different bits.
LEMMA MaskInjective ==
    ASSUME NEW i \in Nat, NEW j \in Nat, i \div 8 = j \div 8, mask(i) = mask(j)
    PROVE  i = j
BY DEF mask

\* The bit of a piece is not a spare bit.
LEMMA MaskNotSpare ==
    ASSUME NEW n \in Nat, NEW i \in 0..(n - 1), n % 8 # 0,
           i \div 8 = bitfieldByteCount(n) - 1
    PROVE  mask(i) \notin spareMask(n)
BY DEF mask, spareMask, bitfieldByteCount

IInv == TypeOK /\ WrittenIsParsable

LEMMA InitIInv == Init => IInv
BY BitfieldAssumption DEF Init, IInv, TypeOK, WrittenIsParsable, spareBitsSet, bitfieldByteCount

LEMMA FailsIInv ==
    ASSUME IInv, NEW e \in {"argument", "malformed"}, Fails(e)
    PROVE  IInv'
BY DEF IInv, TypeOK, WrittenIsParsable, spareBitsSet, Fails

LEMMA BecomesIInv ==
    ASSUME IInv, NEW n \in Int, validatePieceCount(n), NEW b,
           b \in [0..(bitfieldByteCount(n) - 1) -> Byte],
           ~spareBitsSet(b, n), Becomes(b, n)
    PROVE  IInv'
<1>1. n \in 0..MaxPieceCount
  BY BitfieldAssumption DEF validatePieceCount
<1>2. TypeOK'
  BY <1>1 DEF IInv, TypeOK, Becomes
<1>3. WrittenIsParsable'
  BY DEF WrittenIsParsable, Becomes
<1> QED
  BY <1>2, <1>3 DEF IInv

LEMMA NewBitfieldIInv ==
    ASSUME IInv, NEW n \in PieceCounts, NewBitfield(n)
    PROVE  IInv'
<1>1. n \in Int
  BY BitfieldAssumption
<1>2. CASE ~validatePieceCount(n)
  BY <1>2, FailsIInv DEF NewBitfield
<1>3. CASE validatePieceCount(n)
  <2> DEFINE b == [k \in 0..(bitfieldByteCount(n) - 1) |-> {}]
  <2>1. n \in Nat
    BY <1>1, <1>3 DEF validatePieceCount
  <2>2. b \in [0..(bitfieldByteCount(n) - 1) -> Byte]
    BY DEF Byte
  <2>3. ~spareBitsSet(b, n)
    <3> SUFFICES ASSUME n % 8 # 0
                 PROVE  b[bitfieldByteCount(n) - 1] \cap spareMask(n) = {}
      BY DEF spareBitsSet
    <3>1. bitfieldByteCount(n) - 1 \in 0..(bitfieldByteCount(n) - 1)
      BY <2>1 DEF bitfieldByteCount
    <3>2. b[bitfieldByteCount(n) - 1] = {}
      BY <3>1
    <3> QED
      BY <3>2
  <2>4. Becomes(b, n)
    BY <1>3 DEF NewBitfield
  <2> HIDE DEF b
  <2> QED
    BY <1>1, <1>3, <2>2, <2>3, <2>4, BecomesIInv
<1> QED
  BY <1>2, <1>3

LEMMA ParseBitfieldIInv ==
    ASSUME IInv, NEW n \in PieceCounts, NEW size \in Nat,
           NEW payload \in Payloads(size), ParseBitfield(payload, size, n)
    PROVE  IInv'
<1>1. n \in Int
  BY BitfieldAssumption
<1>2. CASE ~validatePieceCount(n)
  BY <1>2, FailsIInv DEF ParseBitfield
<1>3. CASE validatePieceCount(n) /\ size # bitfieldByteCount(n)
  BY <1>3, FailsIInv DEF ParseBitfield
<1>4. CASE validatePieceCount(n) /\ size = bitfieldByteCount(n)
  <2>1. CASE spareBitsSet(payload, n)
    BY <1>4, <2>1, FailsIInv DEF ParseBitfield
  <2>2. CASE ~spareBitsSet(payload, n)
    <3>1. Becomes(payload, n)
      BY <1>4, <2>2 DEF ParseBitfield
    <3>2. payload \in [0..(bitfieldByteCount(n) - 1) -> Byte]
      BY <1>4, BitfieldAssumption DEF Payloads, Byte
    <3> QED
      BY <1>1, <1>4, <2>2, <3>1, <3>2, BecomesIInv
  <2> QED
    BY <2>1, <2>2
<1> QED
  BY <1>2, <1>3, <1>4

LEMMA SetPieceIInv ==
    ASSUME IInv, NEW i \in Int, SetPiece(i)
    PROVE  IInv'
<1>1. CASE i < 0 \/ i >= pieceCount
  BY <1>1, FailsIInv DEF SetPiece
<1>2. CASE ~(i < 0 \/ i >= pieceCount)
  <2>1. pieceCount \in Nat /\ i \in 0..(pieceCount - 1)
    BY <1>2, BitfieldAssumption DEF IInv, TypeOK
  <2>2. /\ bits' = [bits EXCEPT ![i \div 8] = bits[i \div 8] \cup {mask(i)}]
        /\ err' = "nil" /\ pieceCount' = pieceCount /\ instance' = instance
    BY <1>2 DEF SetPiece
  <2>3. i \div 8 \in 0..(bitfieldByteCount(pieceCount) - 1)
    BY <2>1, ByteExists
  <2>4. bits[i \div 8] \cup {mask(i)} \in Byte
    BY <2>1, <2>3, MaskInByte DEF IInv, TypeOK, Byte
  <2>5. TypeOK'
    BY <2>2, <2>3, <2>4 DEF IInv, TypeOK
  <2>6. WrittenIsParsable'
    <3> DEFINE last == bitfieldByteCount(pieceCount) - 1
    <3> SUFFICES ASSUME pieceCount % 8 # 0
                 PROVE  bits'[last] \cap spareMask(pieceCount) = {}
      BY <2>2 DEF WrittenIsParsable, spareBitsSet
    <3>1. bits[last] \cap spareMask(pieceCount) = {}
      BY DEF IInv, WrittenIsParsable, spareBitsSet
    <3>2. last \in 0..last
      BY <2>1 DEF bitfieldByteCount
    <3>3. CASE i \div 8 = last
      <4>1. mask(i) \notin spareMask(pieceCount)
        BY <2>1, <3>3, MaskNotSpare
      <4>2. bits'[last] = bits[last] \cup {mask(i)}
        BY <2>2, <3>2, <3>3 DEF IInv, TypeOK
      <4> QED
        BY <3>1, <4>1, <4>2
    <3>4. CASE i \div 8 # last
      <4>1. bits'[last] = bits[last]
        BY <2>2, <3>2, <3>4 DEF IInv, TypeOK
      <4> QED
        BY <3>1, <4>1
    <3> QED
      BY <3>3, <3>4
  <2> QED
    BY <2>5, <2>6 DEF IInv
<1> QED
  BY <1>1, <1>2

LEMMA NextIInv == IInv /\ [Next]_vars => IInv'
<1> SUFFICES ASSUME IInv, [Next]_vars PROVE IInv'
  OBVIOUS
<1>1. ASSUME NEW n \in PieceCounts, NewBitfield(n) PROVE IInv'
  BY <1>1, NewBitfieldIInv
<1>2. ASSUME NEW n \in PieceCounts, NEW size \in 0..bitfieldByteCount(MaxPieceCount),
             NEW payload \in Payloads(size), ParseBitfield(payload, size, n)
      PROVE  IInv'
  <2>1. size \in Nat
    BY BitfieldAssumption, ByteCountNat
  <2> QED
    BY <1>2, <2>1, ParseBitfieldIInv
<1>3. ASSUME NEW i \in -1..MaxPieceCount, SetPiece(i) PROVE IInv'
  <2>1. i \in Int
    BY BitfieldAssumption
  <2> QED
    BY <1>3, <2>1, SetPieceIInv
<1>4. CASE UNCHANGED vars
  BY <1>4 DEF IInv, TypeOK, WrittenIsParsable, spareBitsSet, vars
<1> QED
  BY <1>1, <1>2, <1>3, <1>4 DEF Next

\* The type invariant: bits always has the bytes that its piece count needs.
THEOREM BitfieldTypeCorrect == Spec => []TypeOK
<1>1. IInv => TypeOK
  BY DEF IInv
<1> QED
  BY <1>1, InitIInv, NextIInv, PTL DEF Spec

\* No operation of a Bitfield ever sets a spare bit, so what WriteBitfield sends
\* is what ParseBitfield accepts, for every piece count.
THEOREM SpareBitsStayClear == Spec => []WrittenIsParsable
<1>1. IInv => WrittenIsParsable
  BY DEF IInv
<1> QED
  BY <1>1, InitIInv, NextIInv, PTL DEF Spec

-----------------------------------------------------------------------------
(* The refinement of PieceSet.                                             *)

have == {i \in 0..(pieceCount - 1) : HasPiece(i)}

\* A failing call changes nothing that the set is made of.
LEMMA FailsStutters ==
    ASSUME NEW e, Fails(e)
    PROVE  UNCHANGED <<pieceCount, have, instance>>
BY DEF Fails, have, HasPiece, holds

LEMMA BecomesMakes ==
    ASSUME NEW n \in PieceCounts, NEW b, Becomes(b, n)
    PROVE  Pieces!Make(n)
BY DEF Becomes, Pieces!Make

LEMMA SetPieceAdds ==
    ASSUME IInv, NEW i \in Int, SetPiece(i)
    PROVE  [Pieces!Next]_<<pieceCount, have, instance>>
<1>1. CASE i < 0 \/ i >= pieceCount
  <2>1. Fails("argument")
    BY <1>1 DEF SetPiece
  <2> QED
    BY <2>1, FailsStutters
<1>2. CASE ~(i < 0 \/ i >= pieceCount)
  <2>1. pieceCount \in Nat /\ i \in 0..(pieceCount - 1)
    BY <1>2, BitfieldAssumption DEF IInv, TypeOK
  <2>2. /\ bits' = [bits EXCEPT ![i \div 8] = bits[i \div 8] \cup {mask(i)}]
        /\ pieceCount' = pieceCount /\ instance' = instance
    BY <1>2 DEF SetPiece
  <2>3. i \div 8 \in DOMAIN bits
    BY <2>1, ByteExists DEF IInv, TypeOK
  <2>4. ASSUME NEW j \in 0..(pieceCount - 1)
        PROVE  HasPiece(j)' <=> HasPiece(j) \/ j = i
    <3>1. j \in Nat /\ i \in Nat
      BY <2>1
    <3>2. HasPiece(j) <=> mask(j) \in bits[j \div 8]
      BY DEF HasPiece, holds
    <3>3. HasPiece(j)' <=> mask(j) \in bits'[j \div 8]
      BY <2>2 DEF HasPiece, holds
    <3>4. j \div 8 \in DOMAIN bits
      BY <2>1, ByteExists DEF IInv, TypeOK
    <3>5. CASE i \div 8 = j \div 8
      <4>1. bits'[j \div 8] = bits[j \div 8] \cup {mask(i)}
        BY <2>2, <2>3, <3>5
      <4>2. mask(j) = mask(i) <=> j = i
        BY <3>1, <3>5, MaskInjective
      <4> QED
        BY <3>2, <3>3, <4>1, <4>2
    <3>6. CASE i \div 8 # j \div 8
      <4>1. bits'[j \div 8] = bits[j \div 8]
        BY <2>2, <3>4, <3>6
      <4> QED
        BY <3>2, <3>3, <3>6, <4>1
    <3> QED
      BY <3>5, <3>6
  <2>5. have' = have \cup {i}
    BY <2>1, <2>2, <2>4 DEF have
  <2>6. Pieces!Add(i)
    BY <2>2, <2>5 DEF Pieces!Add, have
  <2> QED
    BY <2>1, <2>6 DEF Pieces!Next
<1> QED
  BY <1>1, <1>2

\* NewBitfield, ParseBitfield and SetPiece implement a growing set of pieces,
\* whatever the piece counts and payloads.
THEOREM ImplementsSet == Spec => ImplementsPieceSet
<1>1. Init => Pieces!Init
  BY DEF Init, Pieces!Init
<1>2. ASSUME IInv, [Next]_vars
      PROVE  [Pieces!Next]_<<pieceCount, have, instance>>
  <2>1. ASSUME NEW n \in PieceCounts, NewBitfield(n)
        PROVE  [Pieces!Next]_<<pieceCount, have, instance>>
    BY <2>1, FailsStutters, BecomesMakes DEF NewBitfield, Pieces!Next
  <2>2. ASSUME NEW n \in PieceCounts, NEW size, NEW payload, ParseBitfield(payload, size, n)
        PROVE  [Pieces!Next]_<<pieceCount, have, instance>>
    BY <2>2, FailsStutters, BecomesMakes DEF ParseBitfield, Pieces!Next
  <2>3. ASSUME NEW i \in -1..MaxPieceCount, SetPiece(i)
        PROVE  [Pieces!Next]_<<pieceCount, have, instance>>
    <3>1. i \in Int
      BY BitfieldAssumption
    <3> QED
      BY <1>2, <2>3, <3>1, SetPieceAdds
  <2>4. CASE UNCHANGED vars
    BY <2>4 DEF vars, have, HasPiece, holds
  <2> QED
    BY <1>2, <2>1, <2>2, <2>3, <2>4 DEF Next
<1> QED
  BY <1>1, <1>2, InitIInv, NextIInv, PTL DEF Spec, ImplementsPieceSet, Pieces!Spec, have
=============================================================================
