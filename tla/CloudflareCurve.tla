-------------------------- MODULE CloudflareCurve ---------------------------
(***************************************************************************)
(* bn256/cloudflare: the curve (G1) and its twist (G2).                    *)
(*                                                                         *)
(* A point is [x, y, z, t] in Jacobian coordinates; t is z^2 "when valid"  *)
(* (twist.go:8).  No operation of the group law reads or sets t, but the   *)
(* Miller loop does, so that what is left in the receiver's t matters: the *)
(* operations have the receiver c as their first parameter.                *)
(*                                                                         *)
(* The formulas of curve.go and twist.go are the same over two fields.     *)
(*                                                                         *)
(* ..._Faulty... definitions are plausible bugs that test the properties.  *)
(***************************************************************************)
EXTENDS CloudflareField

\* dbl-2009-l.
JacobianDouble(F, c, a) ==
    LET dbl(v) == F.add[v][v]
        sqr(v) == F.mult[v][v]
        A == sqr(a.x)
        B == sqr(a.y)
        C == sqr(B)
        d == dbl(F.sub[F.sub[sqr(F.add[a.x][B])][A]][C])
        e == F.add[dbl(A)][A]
        x == F.sub[sqr(e)][dbl(d)]
    IN  [c EXCEPT !.x = x,
                  !.y = F.sub[F.mult[e][F.sub[d][x]]][dbl(dbl(dbl(C)))],
                  !.z = dbl(F.mult[a.y][a.z])]

\* add-2007-bl, with the three cases that it does not cover.
JacobianAdd(F, c, a, b) ==
    LET dbl(v) == F.add[v][v]
        sqr(v) == F.mult[v][v]
        z12 == sqr(a.z)
        z22 == sqr(b.z)
        u1 == F.mult[a.x][z22]
        s1 == F.mult[a.y][F.mult[b.z][z22]]
        h == F.sub[F.mult[b.x][z12]][u1]
        s == F.sub[F.mult[b.y][F.mult[a.z][z12]]][s1]
        i == sqr(dbl(h))
        j == F.mult[h][i]
        r == dbl(s)
        v == F.mult[u1][i]
        x == F.sub[F.sub[sqr(r)][j]][dbl(v)]
    IN  IF a.z = F.zero THEN b
        ELSE IF b.z = F.zero THEN a
        ELSE IF h = F.zero /\ s = F.zero THEN JacobianDouble(F, c, a)
        ELSE [c EXCEPT !.x = x,
                       !.y = F.sub[F.mult[r][F.sub[v][x]]][dbl(F.mult[s1][j])],
                       !.z = F.mult[F.sub[F.sub[sqr(F.add[a.z][b.z])][z12]][z22]][h]]

JacobianAffine(F, c) ==
    LET zInv == F.inv[c.z]
        zInv2 == F.mult[zInv][zInv]
    IN  IF c.z = F.one THEN c
        ELSE IF c.z = F.zero THEN [c EXCEPT !.x = F.zero, !.y = F.one, !.t = F.zero]
        ELSE [x |-> F.mult[c.x][zInv2], y |-> F.mult[F.mult[c.y][zInv]][zInv2],
              z |-> F.one, t |-> F.one]

----------------------------------------------------------------------------
(* lattice.go: scalars in two short parts.                                  *)

curveLattice ==
    [vectors |-> <<<<6*U*U + 2*U, 6*U*U + 4*U + 1>>, <<6*U*U + 6*U + 2, 1 - 6*U*U>>>>,
     inverse |-> <<6*U*U - 1, 6*U*U + 4*U + 1>>,
     det     |-> 2 * Order]

\* The remainder is compared with half of Order, whatever denom is.
half == Order \div 2
round(num, denom) ==
    IF num % denom > half THEN num \div denom + 1 ELSE num \div denom

\* The parts may be negative.
decompose_FaultySigned(l, k) ==
    LET c == [j \in 1 .. 2 |-> round(k * l.inverse[j], l.det)]
        sum(i) == c[1] * l.vectors[1][i] + c[2] * l.vectors[2][i]
    IN  [i \in 1 .. 2 |-> (IF i = 1 THEN k ELSE 0) - sum(i)]

\* k minus a lattice vector close to it, and twice the first basis vector.
decompose(l, k) ==
    LET c == [j \in 1 .. 2 |-> round(k * l.inverse[j], l.det)]
        sum(i) == c[1] * l.vectors[1][i] + c[2] * l.vectors[2][i]
    IN  [i \in 1 .. 2 |-> 2 * l.vectors[1][i] - sum(i) + (IF i = 1 THEN k ELSE 0)]

\* One digit per bit of the parts, here with the highest first: the bit of
\* part j counts 2^(j-1).
Multi(l, k) ==
    LET parts == decompose(l, k)
        length(n) == BitLen(IF n < 0 THEN -n ELSE n)
        len == IF length(parts[1]) < length(parts[2]) THEN length(parts[2])
               ELSE length(parts[1])
        bit(j, i) == (parts[j] \div Power(2)[len - i]) % 2
    IN  [i \in 1 .. len |-> bit(1, i) + 2 * bit(2, i)]

----------------------------------------------------------------------------
(* curve.go.                                                                *)

curvePoint == [x : gfP, y : gfP, z : gfP, t : gfP]

One1 == NewGFp(1)
ZeroCurve == [x |-> 0, y |-> 0, z |-> 0, t |-> 0]
CurveInfinity == [ZeroCurve EXCEPT !.y = One1]
AffineCurve(x, y) == [x |-> NewGFp(x), y |-> NewGFp(y), z |-> One1, t |-> One1]
curveGen == AffineCurve(CurveGen[1], CurveGen[2])

CurveDouble(c, a) == JacobianDouble(GFp, c, a)
CurveAdd(c, a, b) == JacobianAdd(GFp, c, a, b)
CurveNeg(a) == [a EXCEPT !.y = GfpNeg(@), !.t = 0]
CurveAffine(c) == JacobianAffine(GFp, c)

\* The point that IsOnCurve is asked about is affine afterwards.
IsOnCurve(c) ==
    LET on(a) ==
            \/ a.z = 0
            \/ GfpMul(a.y, a.y) = GfpAdd(GfpMul(GfpMul(a.x, a.x), a.x), NewGFp(CurveB))
    IN  on(CurveAffine(c))

\* Both parts of the scalar at once; the second one times the endomorphism.
CurveMul(a, scalar) ==
    LET phi == [a EXCEPT !.x = GfpMul(@, xiTo2PSquaredMinus2Over3)]
        loop(precomp) ==
            LET add(c, t, digit) ==
                    [t |-> t, sum |-> IF digit = 0 THEN t ELSE CurveAdd(c, t, precomp[digit])]
                step(s, digit) == add(s.sum, CurveDouble(s.t, s.sum), digit)
            IN  FoldLeft(step, [t |-> ZeroCurve, sum |-> CurveInfinity],
                         Multi(curveLattice, scalar))
    IN  loop(<<a, phi, CurveAdd(ZeroCurve, a, phi)>>).sum

----------------------------------------------------------------------------
(* twist.go.                                                                *)

twistPoint == [x : gfP2, y : gfP2, z : gfP2, t : gfP2]

ZeroTwist == [x |-> Zero2, y |-> Zero2, z |-> Zero2, t |-> Zero2]
TwistInfinity == [ZeroTwist EXCEPT !.y = One2]
AffineTwist(x, y) == [x |-> Encode2(x), y |-> Encode2(y), z |-> One2, t |-> One2]
twistGen == AffineTwist(TwistGen[1], TwistGen[2])

TwistDouble(c, a) == JacobianDouble(GFp2, c, a)
TwistAdd(c, a, b) == JacobianAdd(GFp2, c, a, b)
TwistNeg(a) == [a EXCEPT !.y = Neg2(@), !.t = Zero2]
TwistAffine(c) == JacobianAffine(GFp2, c)

\* From one bit above the highest: it is zero.
TwistMul(a, scalar) ==
    LET add(c, t, bit) == [t |-> t, sum |-> IF bit = 1 THEN TwistAdd(c, t, a) ELSE t]
        step(s, bit) == add(s.sum, TwistDouble(s.t, s.sum), bit)
    IN  FoldLeft(step, [t |-> ZeroTwist, sum |-> ZeroTwist], <<0>> \o Bits(scalar)).sum

\* Any point of the curve.
IsOnTwist_FaultyAnyOrder(c) ==
    LET on(a) == a.z = Zero2 \/ Square2(a.y) = Add2(Mul2(Square2(a.x), a.x), Encode2(TwistB))
    IN  on(TwistAffine(c))

\* On the curve, and in the subgroup of the right order.
IsOnTwist(c) ==
    LET on(a) ==
            \/ a.z = Zero2
            \/ /\ Square2(a.y) = Add2(Mul2(Square2(a.x), a.x), Encode2(TwistB))
               /\ TwistMul(a, Order).z = Zero2
    IN  on(TwistAffine(c))
=============================================================================
