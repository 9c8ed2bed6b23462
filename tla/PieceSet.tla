------------------------------ MODULE PieceSet ------------------------------
(* What a Bitfield stands for: a set of pieces that only grows.            *)
EXTENDS Integers

CONSTANT PieceCounts

VARIABLES
    pieceCount, have,
    instance            \* which of the sets made so far this is, modulo 2

Init == pieceCount = 0 /\ have = {} /\ instance = 0

\* A new set for a torrent of n pieces, empty or as a peer advertised it.
Make(n) ==
    pieceCount' = n /\ have' \in SUBSET (0..(n - 1)) /\ instance' = 1 - instance

Add(i) == have' = have \cup {i} /\ UNCHANGED <<pieceCount, instance>>

Next == (\E n \in PieceCounts : Make(n)) \/ (\E i \in 0..(pieceCount - 1) : Add(i))

Spec == Init /\ [][Next]_<<pieceCount, have, instance>>
=============================================================================
