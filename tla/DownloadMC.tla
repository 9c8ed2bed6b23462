----------------------------- MODULE DownloadMC -----------------------------
(***************************************************************************)
(* Three processes for one output path, one of them with --force, and a    *)
(* torrent of two pieces with two blocks each, the last one short.         *)
(***************************************************************************)
EXTENDS DownloadProps, TLC

CONSTANTS p1, p2, p3

MCProcs == {p1, p2, p3}
MCForced == {p3}
MCIndexes == {-1, 1, 2}
UnforcedSymmetry == Permutations({p1, p2})
=============================================================================
