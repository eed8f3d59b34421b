---------------------------- MODULE MCLERReplay ----------------------------
(* LERReplay for TLC: hashes are free terms, so that two nodes are equal     *)
(* only when they were built from the same leaves in the same places.        *)
EXTENDS LERReplay, TLC

MCHash(left, right) == <<left, right>>

\* The properties treat all leaves alike.
MCSymmetry == Permutations(Leaves)
=============================================================================
