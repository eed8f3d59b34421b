---------------------------- MODULE GoogleField ----------------------------
(***************************************************************************)
(* bn256/google: the tower above GF(p), on big.Int values that are reduced *)
(* only where the code calls Mod.  Sums, negations and products by a       *)
(* scalar stay outside 0..p-1, may be negative, and are read as they are   *)
(* by the comparisons with 0 and 1.                                        *)
(*                                                                         *)
(* Where a product is reduced at once, its factors are reduced before the  *)
(* multiplication here: the value is the same, and TLC's integers suffice. *)
(***************************************************************************)
EXTENDS BNParams

gfP == Int

\* The product of two numbers, reduced.
MulMod(a, b) == ((a % P) * (b % P)) % P

----------------------------------------------------------------------------
(* gfP2: xi+y.                                                              *)

gfP2 == [x : gfP, y : gfP]

Zero2 == [x |-> 0, y |-> 0]
One2 == [x |-> 0, y |-> 1]
Minimal2(a) == [x |-> a.x % P, y |-> a.y % P]
IsZero2(a) == a = Zero2

\* Bits are those of the absolute value.
IsOne2(a) == a.x = 0 /\ a.y \in {1, -1}

Conj2(a) == [a EXCEPT !.x = -@]
Neg2(a) == [x |-> -a.x, y |-> -a.y]
Add2(a, b) == [x |-> a.x + b.x, y |-> a.y + b.y]
Sub2(a, b) == [x |-> a.x - b.x, y |-> a.y - b.y]
Dbl2(a) == [x |-> 2 * a.x, y |-> 2 * a.y]

Mul2(a, b) == [x |-> (MulMod(a.x, b.y) + MulMod(b.x, a.y)) % P,
               y |-> (MulMod(a.y, b.y) - MulMod(a.x, b.x)) % P]
MulScalar2(a, b) == [x |-> a.x * b, y |-> a.y * b]
MulXi(a) == [x |-> XiRe * a.x + a.y, y |-> XiRe * a.y - a.x]
Square2(a) == [x |-> (2 * MulMod(a.x, a.y)) % P,
               y |-> MulMod(a.y - a.x, a.x + a.y)]

Invert2(a) ==
    LET inv == ModInverse(MulMod(a.y, a.y) + MulMod(a.x, a.x))
    IN  [x |-> MulMod(-a.x, inv), y |-> MulMod(a.y, inv)]

\* The field as a value, for the formulas above it.
GFp2 ==
    [add   |-> [a \in gfP2 |-> [b \in gfP2 |-> Add2(a, b)]],
     sub   |-> [a \in gfP2 |-> [b \in gfP2 |-> Sub2(a, b)]],
     mult  |-> [a \in gfP2 |-> [b \in gfP2 |-> Mul2(a, b)]],
     sqr   |-> [a \in gfP2 |-> Square2(a)],
     neg   |-> [a \in gfP2 |-> Neg2(a)],
     scale |-> [a \in gfP2 |-> [b \in gfP |-> MulScalar2(a, b)]],
     mulXi |-> [a \in gfP2 |-> MulXi(a)],
     inv   |-> [a \in gfP2 |-> Invert2(a)]]

xiToPMinus1Over6 == XiPower((P - 1) \div 6)
xiToPMinus1Over3 == XiPower((P - 1) \div 3)
xiToPMinus1Over2 == XiPower((P - 1) \div 2)
xiTo2PMinus2Over3 == XiPower((2 * P - 2) \div 3)
xiToPSquaredMinus1Over3 == XiPower((P * P - 1) \div 3).y
xiTo2PSquaredMinus2Over3 == XiPower((2 * P * P - 2) \div 3).y
xiToPSquaredMinus1Over6 == XiPower((P * P - 1) \div 6).y

----------------------------------------------------------------------------
(* gfP6: x tau^2 + y tau + z, where tau^3 = xi.                             *)

gfP6 == [x : gfP2, y : gfP2, z : gfP2]

Each6(Op(_), a) == [x |-> Op(a.x), y |-> Op(a.y), z |-> Op(a.z)]
Zero6 == [x |-> Zero2, y |-> Zero2, z |-> Zero2]
One6 == [Zero6 EXCEPT !.z = One2]
Minimal6(a) == Each6(Minimal2, a)
IsZero6(a) == IsZero2(a.x) /\ IsZero2(a.y) /\ IsZero2(a.z)
IsOne6(a) == IsZero2(a.x) /\ IsZero2(a.y) /\ IsOne2(a.z)

Neg6(a) == Each6(Neg2, a)
Add6(a, b) == [x |-> Add2(a.x, b.x), y |-> Add2(a.y, b.y), z |-> Add2(a.z, b.z)]
Sub6(a, b) == [x |-> Sub2(a.x, b.x), y |-> Sub2(a.y, b.y), z |-> Sub2(a.z, b.z)]
Dbl6(a) == Each6(Dbl2, a)
MulScalar6(F, a, b) == Each6(LAMBDA c : F.mult[c][b], a)
MulGFP6(a, b) == Each6(LAMBDA c : MulScalar2(c, b), a)
MulTau(a) == [x |-> a.y, y |-> a.z, z |-> MulXi(a.x)]

Frobenius6(a) == [x |-> Mul2(Conj2(a.x), xiTo2PMinus2Over3),
                  y |-> Mul2(Conj2(a.y), xiToPMinus1Over3),
                  z |-> Conj2(a.z)]
FrobeniusP2of6(a) == [a EXCEPT !.x = MulScalar2(@, xiTo2PSquaredMinus2Over3),
                               !.y = MulScalar2(@, xiToPSquaredMinus1Over3)]

\* Karatsuba: the cross terms from the products of sums.  F is the field of
\* the coefficients.
Mul6(F, a, b) ==
    LET v0 == F.mult[a.z][b.z]
        v1 == F.mult[a.y][b.y]
        v2 == F.mult[a.x][b.x]
        xy == F.mult[F.add[a.x][a.y]][F.add[b.x][b.y]]
        yz == F.mult[F.add[a.y][a.z]][F.add[b.y][b.z]]
        xz == F.mult[F.add[a.x][a.z]][F.add[b.x][b.z]]
    IN  [x |-> F.sub[F.add[F.sub[xz][v0]][v1]][v2],
         y |-> F.add[F.sub[F.sub[yz][v0]][v1]][F.mulXi[v2]],
         z |-> F.add[F.mulXi[F.sub[F.sub[xy][v1]][v2]]][v0]]

\* The same with squares.
Square6(F, a) ==
    Mul6([F EXCEPT !.mult = [c \in gfP2 |-> [d \in gfP2 |-> F.sqr[c]]]], a, a)

\* C, B and A: a times it is in GF(p^2).
Adjoint6(F, a) ==
    [x |-> F.sub[F.sqr[a.y]][F.mult[a.x][a.z]],
     y |-> F.sub[F.mulXi[F.sqr[a.x]]][F.mult[a.y][a.z]],
     z |-> F.sub[F.sqr[a.z]][F.mulXi[F.mult[a.x][a.y]]]]

Invert6(F, a) ==
    LET by(adj) ==
            MulScalar6(F, adj, F.inv[F.add[F.add[F.mulXi[F.mult[adj.x][a.y]]]
                                                [F.mult[adj.z][a.z]]]
                                          [F.mulXi[F.mult[adj.y][a.x]]]])
    IN  by(Adjoint6(F, a))

\* The operations as functions of a record, over the field F.
GFp6Over(F) ==
    [add    |-> [a \in gfP6 |-> [b \in gfP6 |-> Add6(a, b)]],
     sub    |-> [a \in gfP6 |-> [b \in gfP6 |-> Sub6(a, b)]],
     mult   |-> [a \in gfP6 |-> [b \in gfP6 |-> Mul6(F, a, b)]],
     sqr    |-> [a \in gfP6 |-> Square6(F, a)],
     dbl    |-> [a \in gfP6 |-> Dbl6(a)],
     neg    |-> [a \in gfP6 |-> Neg6(a)],
     scale  |-> [a \in gfP6 |-> [b \in gfP2 |-> MulScalar6(F, a, b)]],
     mulTau |-> [a \in gfP6 |-> MulTau(a)],
     inv    |-> [a \in gfP6 |-> Invert6(F, a)],
     base   |-> F]

----------------------------------------------------------------------------
(* gfP12: x omega + y, where omega^2 = tau.                                 *)

gfP12 == [x : gfP6, y : gfP6]

One12 == [x |-> Zero6, y |-> One6]
Minimal12(a) == [x |-> Minimal6(a.x), y |-> Minimal6(a.y)]
IsOne12(a) == LET m == Minimal12(a) IN IsZero6(m.x) /\ IsOne6(m.y)

Conj12(a) == [a EXCEPT !.x = Neg6(@)]
Frobenius12(F, a) == [x |-> F.scale[Frobenius6(a.x)][xiToPMinus1Over6],
                      y |-> Frobenius6(a.y)]
FrobeniusP2of12(a) == [x |-> MulGFP6(FrobeniusP2of6(a.x), xiToPSquaredMinus1Over6),
                       y |-> FrobeniusP2of6(a.y)]

\* F is the field of the coefficients, here and in the operations above.
Mul12(F, a, b) ==
    [x |-> F.add[F.mult[a.x][b.y]][F.mult[b.x][a.y]],
     y |-> F.add[F.mult[a.y][b.y]][F.mulTau[F.mult[a.x][b.x]]]]

\* MulScalar multiplies what the receiver holds, whatever its argument a is.
MulScalar12(F, e, b) == [x |-> F.mult[e.x][b], y |-> F.mult[e.y][b]]

Square12(F, a) ==
    LET from(v0, t) == [x |-> F.dbl[v0], y |-> F.sub[F.sub[t][v0]][F.mulTau[v0]]]
    IN  from(F.mult[a.x][a.y], F.mult[F.add[a.x][a.y]][F.add[a.y][F.mulTau[a.x]]])

Invert12(F, a) ==
    MulScalar12(F, Conj12(a), F.inv[F.sub[F.sqr[a.y]][F.mulTau[F.sqr[a.x]]]])

GFp12Over(F) ==
    [mult        |-> [a \in gfP12 |-> [b \in gfP12 |-> Mul12(F, a, b)]],
     sqr         |-> [a \in gfP12 |-> Square12(F, a)],
     inv         |-> [a \in gfP12 |-> Invert12(F, a)],
     conj        |-> [a \in gfP12 |-> Conj12(a)],
     frobenius   |-> [a \in gfP12 |-> Frobenius12(F, a)],
     frobeniusP2 |-> [a \in gfP12 |-> FrobeniusP2of12(a)],
     base        |-> F]

GFp12 == GFp12Over(GFp6Over(GFp2))

\* F is the field itself.
Exp12(F, a, power) ==
    FoldLeft(LAMBDA sum, bit : IF bit = 1 THEN F.mult[F.sqr[sum]][a] ELSE F.sqr[sum],
             One12, Bits(power))
=============================================================================
