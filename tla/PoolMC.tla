------------------------------- MODULE PoolMC -------------------------------
(***************************************************************************)
(* Small instances of Pool for TLC: three endpoints and a budget of two    *)
(* slots, so that the endpoints outnumber slots and workers.               *)
(***************************************************************************)
EXTENDS PoolProps, TLC

CONSTANTS a1, a2, a3

ThreeAddrs == <<a1, a2, a3>>
TwoAddrs == <<a1, a2>>
MCAddrs == {a1, a2, a3}

\* Workers and clients run the same code and are never ordered.
GoroutineSymmetry == Permutations(Workers) \cup Permutations(Clients)
=============================================================================
