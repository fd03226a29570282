---------------------------- MODULE MCSavepoints ----------------------------
(* Two savepoint names and two kinds of mutations.                          *)
EXTENDS Savepoints, TLC

CONSTANTS a, b, k1, k2

MCNames == {a, b}
MCKinds == {k1, k2}
SavepointSymmetry == Permutations(MCNames) \cup Permutations(MCKinds)
=============================================================================
