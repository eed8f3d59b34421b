------------------------------ MODULE MCBn256 ------------------------------
(* Bn256 for TLC.                                                           *)
EXTENDS Bn256, ToyCurve

MCSymmetry == Permutations(Registers)
MCScalars == {0, 1, Order - 1}
=============================================================================
