------------------------------ MODULE ToyCurve ------------------------------
(***************************************************************************)
(* The curve of BNParams for TLC: u = 1, y^2 = x^3 + 40 over GF(103), of   *)
(* prime order 97, and xi = i + 8.  As on the program's curve, 1 + b is a  *)
(* square, which MapToPoint relies on.                                     *)
(***************************************************************************)
EXTENDS Integers

MCCurveGen == <<99, 64>>
MCTwistGen == <<[x |-> 33, y |-> 62], [x |-> 35, y |-> 15]>>

\* 105, which is 8 modulo the order, so that both digits 1 and -1 occur.
MCSixUPlus2NAF == <<1, 0, 0, 1, 0, -1, 0, 1>>

\* A point of the twist whose order is not 97.
MCStray == <<[x |-> 0, y |-> 9], [x |-> 10, y |-> 38]>>
=============================================================================
