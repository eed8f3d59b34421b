-------------------------- MODULE CloudflareField ---------------------------
(***************************************************************************)
(* bn256/cloudflare: GF(p) in Montgomery form and the tower above it.      *)
(*                                                                         *)
(* A gfP is a number below R; the loops over its words are                 *)
(* modelled by the sum or product they compute and the carry out of the    *)
(* last word.  The field operations return the new value of the receiver:  *)
(* each assigns a component of the receiver after it has read it for the   *)
(* last time, so that the receiver may be one of the operands.             *)
(*                                                                         *)
(* ..._Faulty... definitions are plausible bugs that test the properties.  *)
(***************************************************************************)
EXTENDS BNParams

gfP == 0 .. R - 1
np == R - CHOOSE n \in 1 .. R - 1 : (n * P) % R = 1
rN1 == ModInverse(R)
r2 == ((R % P) * (R % P)) % P
r3 == (r2 * (R % P)) % P

\* Subtract p, unless that borrows and there is no carry into the head.
GfpCarry(a, head) == IF a < P /\ head = 0 THEN a ELSE (a - P) % R

\* The negative of 0 is left at p.
GfpNeg_FaultyZero(a) == (P - a) % R
GfpNeg(a) == GfpCarry((P - a) % R, 0)
GfpAdd(a, b) == GfpCarry((a + b) % R, (a + b) \div R)
GfpSub(a, b) == LET t == (P - b) % R IN GfpCarry((a + t) % R, (a + t) \div R)

\* The products of gfpMul: all of it, and its lower half.
mul(a, b) == a * b
halfMul(a, b) == (a * b) % R
HighHalf(sum) == GfpCarry((sum \div R) % R, sum \div (R * R))
GfpMul(a, b) ==
    LET T == mul(a, b) IN HighHalf(T + mul(halfMul(T % R, np), P))

MontEncode(a) == GfpMul(a, r2)
MontDecode(a) == GfpMul(a, 1)
NewGFp(x) == MontEncode(IF x >= 0 THEN x ELSE GfpNeg(-x))

\* f^(p-2) by repeated squaring, the lowest bit of the exponent first.
GfpInvert(f) ==
    LET step(s, bit) == [sum   |-> IF bit = 1 THEN GfpMul(s.sum, s.power) ELSE s.sum,
                         power |-> GfpMul(s.power, s.power)]
        final == FoldLeft(step, [sum |-> rN1, power |-> f], Reverse(Bits(P - 2)))
    IN  GfpMul(final.sum, r3)

\* The field as a value, for what is computed in several fields alike.
GFp ==
    [add  |-> [a \in gfP |-> [b \in gfP |-> GfpAdd(a, b)]],
     sub  |-> [a \in gfP |-> [b \in gfP |-> GfpSub(a, b)]],
     mult |-> [a \in gfP |-> [b \in gfP |-> GfpMul(a, b)]],
     inv  |-> [a \in gfP |-> GfpInvert(a)],
     zero |-> 0,
     one  |-> NewGFp(1)]

----------------------------------------------------------------------------
(* gfP2: xi+y.                                                              *)

gfP2 == [x : gfP, y : gfP]

Zero2 == [x |-> 0, y |-> 0]
One2 == [x |-> 0, y |-> NewGFp(1)]
Encode2(a) == [x |-> NewGFp(a.x), y |-> NewGFp(a.y)]
Decode2(a) == [x |-> MontDecode(a.x), y |-> MontDecode(a.y)]

Conj2(a) == [x |-> GfpNeg(a.x), y |-> a.y]
Neg2(a) == [x |-> GfpNeg(a.x), y |-> GfpNeg(a.y)]
Add2(a, b) == [x |-> GfpAdd(a.x, b.x), y |-> GfpAdd(a.y, b.y)]
Sub2(a, b) == [x |-> GfpSub(a.x, b.x), y |-> GfpSub(a.y, b.y)]
Dbl2(a) == Add2(a, a)
Mul2(a, b) == [x |-> GfpAdd(GfpMul(a.x, b.y), GfpMul(b.x, a.y)),
               y |-> GfpSub(GfpMul(a.y, b.y), GfpMul(a.x, b.x))]
MulScalar2(a, b) == [x |-> GfpMul(a.x, b), y |-> GfpMul(a.y, b)]

\* The multiplication by the constant is a chain of doublings in the code.
MulXi(a) ==
    LET times(c) == GfpMul(NewGFp(XiRe), c)
    IN  [x |-> GfpAdd(times(a.x), a.y), y |-> GfpSub(times(a.y), a.x)]

Square2(a) ==
    LET xy == GfpMul(a.x, a.y)
    IN  [x |-> GfpAdd(xy, xy), y |-> GfpMul(GfpSub(a.y, a.x), GfpAdd(a.x, a.y))]

Invert2(a) ==
    LET inv == GfpInvert(GfpAdd(GfpMul(a.x, a.x), GfpMul(a.y, a.y)))
    IN  [x |-> GfpMul(GfpNeg(a.x), inv), y |-> GfpMul(a.y, inv)]

GFp2 ==
    [add   |-> [a \in gfP2 |-> [b \in gfP2 |-> Add2(a, b)]],
     sub   |-> [a \in gfP2 |-> [b \in gfP2 |-> Sub2(a, b)]],
     mult  |-> [a \in gfP2 |-> [b \in gfP2 |-> Mul2(a, b)]],
     sqr   |-> [a \in gfP2 |-> Square2(a)],
     neg   |-> [a \in gfP2 |-> Neg2(a)],
     scale |-> [a \in gfP2 |-> [b \in gfP |-> MulScalar2(a, b)]],
     mulXi |-> [a \in gfP2 |-> MulXi(a)],
     inv   |-> [a \in gfP2 |-> Invert2(a)],
     zero  |-> Zero2,
     one   |-> One2]

xiToPMinus1Over6 == Encode2(XiPower((P - 1) \div 6))
xiToPMinus1Over3 == Encode2(XiPower((P - 1) \div 3))
xiToPMinus1Over2 == Encode2(XiPower((P - 1) \div 2))
xiTo2PMinus2Over3 == Encode2(XiPower((2 * P - 2) \div 3))
xiToPSquaredMinus1Over3 == NewGFp(XiPower((P * P - 1) \div 3).y)
xiTo2PSquaredMinus2Over3 == NewGFp(XiPower((2 * P * P - 2) \div 3).y)
xiToPSquaredMinus1Over6 == NewGFp(XiPower((P * P - 1) \div 6).y)

----------------------------------------------------------------------------
(* gfP6: x tau^2 + y tau + z, where tau^3 = xi.                             *)

gfP6 == [x : gfP2, y : gfP2, z : gfP2]

Each6(Op(_), a) == [x |-> Op(a.x), y |-> Op(a.y), z |-> Op(a.z)]
Zero6 == [x |-> Zero2, y |-> Zero2, z |-> Zero2]
One6 == [Zero6 EXCEPT !.z = One2]

Neg6(a) == Each6(Neg2, a)
Add6(a, b) == [x |-> Add2(a.x, b.x), y |-> Add2(a.y, b.y), z |-> Add2(a.z, b.z)]
Sub6(a, b) == [x |-> Sub2(a.x, b.x), y |-> Sub2(a.y, b.y), z |-> Sub2(a.z, b.z)]
MulScalar6(F, a, b) == Each6(LAMBDA c : F.mult[c][b], a)
MulGFP6(a, b) == Each6(LAMBDA c : MulScalar2(c, b), a)
MulTau(a) == [x |-> a.y, y |-> a.z, z |-> MulXi(a.x)]

Frobenius6(a) == [x |-> Mul2(Conj2(a.x), xiTo2PMinus2Over3),
                  y |-> Mul2(Conj2(a.y), xiToPMinus1Over3),
                  z |-> Conj2(a.z)]
FrobeniusP2of6(a) == [a EXCEPT !.x = MulScalar2(@, xiTo2PSquaredMinus2Over3),
                               !.y = MulScalar2(@, xiToPSquaredMinus1Over3)]

\* Karatsuba: the cross terms from the products of sums.  F is the field of
\* the coefficients.
Mul6(F, a, b) ==
    LET v0 == F.mult[a.z][b.z]
        v1 == F.mult[a.y][b.y]
        v2 == F.mult[a.x][b.x]
        xy == F.mult[F.add[a.x][a.y]][F.add[b.x][b.y]]
        yz == F.mult[F.add[a.y][a.z]][F.add[b.y][b.z]]
        xz == F.mult[F.add[a.x][a.z]][F.add[b.x][b.z]]
    IN  [x |-> F.sub[F.add[F.sub[xz][v0]][v1]][v2],
         y |-> F.add[F.sub[F.sub[yz][v0]][v1]][F.mulXi[v2]],
         z |-> F.add[F.mulXi[F.sub[F.sub[xy][v1]][v2]]][v0]]

\* The same with squares.
Square6(F, a) ==
    Mul6([F EXCEPT !.mult = [c \in gfP2 |-> [d \in gfP2 |-> F.sqr[c]]]], a, a)

\* C, B and A: a times it is in GF(p^2).
Adjoint6(F, a) ==
    [x |-> F.sub[F.sqr[a.y]][F.mult[a.x][a.z]],
     y |-> F.sub[F.mulXi[F.sqr[a.x]]][F.mult[a.y][a.z]],
     z |-> F.sub[F.sqr[a.z]][F.mulXi[F.mult[a.x][a.y]]]]

Invert6(F, a) ==
    LET by(adj) ==
            MulScalar6(F, adj, F.inv[F.add[F.add[F.mulXi[F.mult[adj.x][a.y]]]
                                                [F.mult[adj.z][a.z]]]
                                          [F.mulXi[F.mult[adj.y][a.x]]]])
    IN  by(Adjoint6(F, a))

\* The operations as functions of a record, over the field F.
GFp6Over(F) ==
    [add    |-> [a \in gfP6 |-> [b \in gfP6 |-> Add6(a, b)]],
     sub    |-> [a \in gfP6 |-> [b \in gfP6 |-> Sub6(a, b)]],
     mult   |-> [a \in gfP6 |-> [b \in gfP6 |-> Mul6(F, a, b)]],
     sqr    |-> [a \in gfP6 |-> Square6(F, a)],
     neg    |-> [a \in gfP6 |-> Neg6(a)],
     scale  |-> [a \in gfP6 |-> [b \in gfP2 |-> MulScalar6(F, a, b)]],
     mulTau |-> [a \in gfP6 |-> MulTau(a)],
     inv    |-> [a \in gfP6 |-> Invert6(F, a)],
     base   |-> F]

----------------------------------------------------------------------------
(* gfP12: x omega + y, where omega^2 = tau.                                 *)

gfP12 == [x : gfP6, y : gfP6]

One12 == [x |-> Zero6, y |-> One6]

Conj12(a) == [a EXCEPT !.x = Neg6(@)]
Frobenius12(F, a) == [x |-> F.scale[Frobenius6(a.x)][xiToPMinus1Over6],
                      y |-> Frobenius6(a.y)]
FrobeniusP2of12(a) == [x |-> MulGFP6(FrobeniusP2of6(a.x), xiToPSquaredMinus1Over6),
                       y |-> FrobeniusP2of6(a.y)]

\* F is the field of the coefficients, here and in the operations above.
Mul12(F, a, b) ==
    [x |-> F.add[F.mult[a.x][b.y]][F.mult[b.x][a.y]],
     y |-> F.add[F.mult[a.y][b.y]][F.mulTau[F.mult[a.x][b.x]]]]

Square12(F, a) ==
    LET from(v0, t) == [x |-> F.add[v0][v0], y |-> F.sub[F.sub[t][v0]][F.mulTau[v0]]]
    IN  from(F.mult[a.x][a.y], F.mult[F.add[a.x][a.y]][F.add[a.y][F.mulTau[a.x]]])

\* Both parts are multiplied by the inverse of the norm.
Invert12(F, a) ==
    LET by(inv) == [x |-> F.mult[F.neg[a.x]][inv], y |-> F.mult[a.y][inv]]
    IN  by(F.inv[F.sub[F.sqr[a.y]][F.mulTau[F.sqr[a.x]]]])

GFp12Over(F) ==
    [mult        |-> [a \in gfP12 |-> [b \in gfP12 |-> Mul12(F, a, b)]],
     sqr         |-> [a \in gfP12 |-> Square12(F, a)],
     inv         |-> [a \in gfP12 |-> Invert12(F, a)],
     conj        |-> [a \in gfP12 |-> Conj12(a)],
     frobenius   |-> [a \in gfP12 |-> Frobenius12(F, a)],
     frobeniusP2 |-> [a \in gfP12 |-> FrobeniusP2of12(a)],
     base        |-> F]

GFp12 == GFp12Over(GFp6Over(GFp2))

\* F is the field itself.
Exp12(F, a, power) ==
    FoldLeft(LAMBDA sum, bit : IF bit = 1 THEN F.mult[F.sqr[sum]][a] ELSE F.sqr[sum],
             One12, Bits(power))
=============================================================================
