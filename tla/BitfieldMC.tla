----------------------------- MODULE BitfieldMC -----------------------------
(* An instance of the bitfield for TLC: one byte, two bytes and the edges. *)
EXTENDS Bitfield

mcPieceCounts == {-1, 0, 1, 7, 8, 9, 10, 11}
mcBytes == {{}, {7}, {0}, {6, 1}, 0..7}
=============================================================================
