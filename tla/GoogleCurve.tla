---------------------------- MODULE GoogleCurve ----------------------------
(***************************************************************************)
(* bn256/google: the curve (G1) and its twist (G2), on coordinates that    *)
(* are reduced only in part (see GoogleField).                             *)
(*                                                                         *)
(* The receiver c of an operation may be the operand a itself: then what   *)
(* is read of a after an assignment to c is the new value.  "same" says    *)
(* whether it is.                                                          *)
(***************************************************************************)
EXTENDS GoogleField

----------------------------------------------------------------------------
(* curve.go.                                                                *)

curvePoint == [x : gfP, y : gfP, z : gfP, t : gfP]

ZeroCurve == [x |-> 0, y |-> 0, z |-> 0, t |-> 0]
AffineCurve(x, y) == [x |-> x, y |-> y, z |-> 1, t |-> 1]
curveGen == AffineCurve(CurveGen[1], CurveGen[2])

\* It sets only z.
CurveInfinity(c) == [c EXCEPT !.z = 0]

IsOnCurve(c) == (MulMod(c.y, c.y) - MulMod(c.x, MulMod(c.x, c.x)) - CurveB) % P = 0

\* a.y is read for z after c.y has been assigned.
CurveDouble(c, a, same) ==
    LET A == MulMod(a.x, a.x)
        B == MulMod(a.y, a.y)
        C == MulMod(B, B)
        d == 2 * (MulMod(a.x + B, a.x + B) - A - C)
        e == 3 * A
        x == MulMod(e, e) - 2 * d
        y == MulMod(e, d - x) - 8 * C
    IN  [c EXCEPT !.x = x, !.y = y,
                  !.z = 2 * MulMod(IF same THEN y ELSE a.y, a.z)]

CurveAdd(c, a, b, same) ==
    LET z1z1 == MulMod(a.z, a.z)
        z2z2 == MulMod(b.z, b.z)
        u1 == MulMod(a.x, z2z2)
        s1 == MulMod(a.y, MulMod(b.z, z2z2))
        h == MulMod(b.x, z1z1) - u1
        s == MulMod(b.y, MulMod(a.z, z1z1)) - s1
        i == MulMod(2 * h, 2 * h)
        j == MulMod(h, i)
        r == 2 * s
        v == MulMod(u1, i)
        x == MulMod(r, r) - j - 2 * v
    IN  IF a.z = 0 THEN b
        ELSE IF b.z = 0 THEN a
        ELSE IF h = 0 /\ s = 0 THEN CurveDouble(c, a, same)
        ELSE [c EXCEPT !.x = x,
                       !.y = MulMod(r, v - x) - 2 * MulMod(s1, j),
                       !.z = MulMod(MulMod(a.z + b.z, a.z + b.z) - z1z1 - z2z2, h)]

\* From one bit above the highest.
CurveMul(a, scalar) ==
    LET add(c, t, bit) == [t |-> t, sum |-> IF bit = 1 THEN CurveAdd(c, t, a, FALSE) ELSE t]
        step(s, bit) == add(s.sum, CurveDouble(s.t, s.sum, FALSE), bit)
    IN  FoldLeft(step, [t |-> ZeroCurve, sum |-> CurveInfinity(ZeroCurve)],
                 <<0>> \o Bits(scalar)).sum

CurveAffine(c) ==
    LET zInv == ModInverse(c.z)
        zInv2 == MulMod(zInv, zInv)
    IN  IF c.z \in {1, -1} THEN c
        ELSE IF c.z = 0 THEN [x |-> 0, y |-> 1, z |-> 0, t |-> 0]
        ELSE AffineCurve(MulMod(c.x, zInv2), MulMod(MulMod(c.y, zInv), zInv2))

CurveNeg(a) == [a EXCEPT !.y = -@, !.t = 0]

----------------------------------------------------------------------------
(* twist.go.                                                                *)

twistPoint == [x : gfP2, y : gfP2, z : gfP2, t : gfP2]

ZeroTwist == [x |-> Zero2, y |-> Zero2, z |-> Zero2, t |-> Zero2]
AffineTwist(x, y) == [x |-> x, y |-> y, z |-> One2, t |-> One2]
twistGen == AffineTwist(TwistGen[1], TwistGen[2])
TwistInfinity(c) == [c EXCEPT !.z = Zero2]

TwistDouble(c, a, same) ==
    LET A == Square2(a.x)
        B == Square2(a.y)
        C == Square2(B)
        half == Sub2(Sub2(Square2(Add2(a.x, B)), A), C)
        d == Add2(half, half)
        e == Add2(Add2(A, A), A)
        x == Sub2(Square2(e), Add2(d, d))
        y == Sub2(Mul2(e, Sub2(d, x)), Dbl2(Dbl2(Dbl2(C))))
    IN  [c EXCEPT !.x = x, !.y = y,
                  !.z = Dbl2(Mul2(IF same THEN y ELSE a.y, a.z))]

TwistAdd(c, a, b, same) ==
    LET z1z1 == Square2(a.z)
        z2z2 == Square2(b.z)
        u1 == Mul2(a.x, z2z2)
        s1 == Mul2(a.y, Mul2(b.z, z2z2))
        h == Sub2(Mul2(b.x, z1z1), u1)
        s == Sub2(Mul2(b.y, Mul2(a.z, z1z1)), s1)
        i == Square2(Add2(h, h))
        j == Mul2(h, i)
        r == Add2(s, s)
        v == Mul2(u1, i)
        x == Sub2(Sub2(Square2(r), j), Add2(v, v))
    IN  IF IsZero2(a.z) THEN b
        ELSE IF IsZero2(b.z) THEN a
        ELSE IF IsZero2(h) /\ IsZero2(s) THEN TwistDouble(c, a, same)
        ELSE [c EXCEPT !.x = x,
                       !.y = Sub2(Mul2(r, Sub2(v, x)), Dbl2(Mul2(s1, j))),
                       !.z = Mul2(Sub2(Sub2(Square2(Add2(a.z, b.z)), z1z1), z2z2), h)]

\* sum and t are made of integers from the pool, which have their last
\* values: "pooled" is such a point.
TwistMul(a, scalar, pooled) ==
    LET add(c, t, bit) == [t |-> t, sum |-> IF bit = 1 THEN TwistAdd(c, t, a, FALSE) ELSE t]
        step(s, bit) == add(s.sum, TwistDouble(s.t, s.sum, FALSE), bit)
    IN  FoldLeft(step, [t |-> pooled, sum |-> TwistInfinity(pooled)],
                 <<0>> \o Bits(scalar)).sum

TwistAffine(c) ==
    LET zInv == Invert2(c.z)
        zInv2 == Square2(zInv)
    IN  IF IsOne2(c.z) THEN c
        ELSE IF IsZero2(c.z) THEN [ZeroTwist EXCEPT !.y = One2]
        ELSE AffineTwist(Mul2(c.x, zInv2), Mul2(Mul2(c.y, zInv), zInv2))

TwistNeg(a) == [a EXCEPT !.y = Sub2(Zero2, @), !.t = Zero2]

\* For an affine c.  The pool is in use when the subgroup is checked.
IsOnTwist(c) ==
    /\ Minimal2(Sub2(Sub2(Square2(c.y), Mul2(Square2(c.x), c.x)), TwistB)) = Zero2
    /\ IsZero2(TwistMul(c, Order, [x |-> c.y, y |-> c.x, z |-> c.x, t |-> c.y]).z)
=============================================================================
