---------------------------- MODULE DialFirstMC -----------------------------
(* An instance of DialFirst for TLC.                                       *)
EXTENDS DialFirst

CONSTANTS a1, a2

mcAddrs == <<a1, a2>>
=============================================================================
