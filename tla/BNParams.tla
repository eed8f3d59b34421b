------------------------------ MODULE BNParams ------------------------------
(***************************************************************************)
(* The Barreto-Naehrig curve that crypto/bn256 works on, with the BN       *)
(* parameter u and the coefficients as constants: the program's curve has  *)
(* a 254-bit prime, TLC's has one below 2^15.                              *)
(*                                                                         *)
(* Everything here is plain arithmetic modulo p, by definition rather than *)
(* by algorithm: it fixes the constants of both implementations, and it is *)
(* what their algorithms are compared with.  An element xi+y of GF(p^2) is *)
(* a record [x, y]; a point is a pair of coordinates or Infinity.          *)
(***************************************************************************)
EXTENDS GoBasics

CONSTANTS
    U,            \* u, the BN parameter
    XiRe,         \* the non-residue xi is i + XiRe: 9 in the program
    CurveB,       \* the curve is y^2 = x^3 + CurveB: 3 in the program
    CurveGen,     \* generator of G1, an affine point
    TwistGen,     \* generator of G2, an affine point over GF(p^2)
    SixUPlus2NAF, \* signed binary digits of 6u+2, the lowest first
    ByteBase,     \* values of a byte: 256 in the program
    CoordBytes,   \* bytes of a marshalled coordinate: 32 in the program
    Infinity      \* the neutral element

P == 36 * U*U*U*U + 36 * U*U*U + 24 * U*U + 6 * U + 1
Order == 36 * U*U*U*U + 36 * U*U*U + 18 * U*U + 6 * U + 1

\* The bytes of a coordinate hold the numbers below R, as does a gfP: the words
\* of the program's have 256 bits.
R == Power(ByteBase)[CoordBytes]

Digits(seq) == FoldRight(LAMBDA d, n : d + 2 * n, seq, 0)

\* As the construction needs: p = 3 modulo 4, so that i^2 = -1 is no square,
\* and it has an inverse modulo R; the digits may stand for any number that is
\* 6u+2 modulo the order.
ASSUME ParamsAssumption ==
    /\ U \in Nat \ {0}
    /\ ByteBase \in Nat \ {0, 1} /\ CoordBytes \in Nat \ {0}
    /\ P % 4 = 3
    /\ P < R
    /\ \E n \in 1 .. R - 1 : (n * P) % R = 1
    /\ SixUPlus2NAF \in Seq({-1, 0, 1}) /\ SixUPlus2NAF # <<>>
    /\ (Digits(SixUPlus2NAF) - (6*U + 2)) % Order = 0
    /\ SixUPlus2NAF[Len(SixUPlus2NAF)] = 1

\* Coefficients and coordinates are elements of the field; y of the program's
\* generator of G1 is given as -2.
ASSUME FieldAssumption ==
    /\ XiRe \in 0 .. P - 1 /\ CurveB \in 0 .. P - 1
    /\ CurveGen \in (1 - P .. P - 1) \X (1 - P .. P - 1)
    /\ TwistGen \in [x : 0 .. P - 1, y : 0 .. P - 1] \X [x : 0 .. P - 1, y : 0 .. P - 1]

----------------------------------------------------------------------------
(* math/big.                                                                *)

\* The bits of a natural number, the highest first.
Bits(n) == LET len == BitLen(n) IN [i \in 1 .. len |-> Shr(n)[len - i] % 2]

\* x.Bytes(): big-endian, without leading zeros.
Bytes(n) ==
    LET len == CHOOSE l \in 0 .. CoordBytes :
                   Power(ByteBase)[l] > n /\ (l = 0 \/ Power(ByteBase)[l - 1] <= n)
    IN  [i \in 1 .. len |-> (n \div Power(ByteBase)[len - i]) % ByteBase]

SetBytes(bytes) == FoldLeft(LAMBDA n, b : ByteBase * n + b, 0, bytes)

\* A number as exactly CoordBytes bytes; the coordinates in a byte string.
FixedBytes(n) ==
    [i \in 1 .. CoordBytes |-> (n \div Power(ByteBase)[CoordBytes - i]) % ByteBase]
Coordinate(bytes, i) ==
    SetBytes(SubSeq(bytes, i * CoordBytes + 1, (i + 1) * CoordBytes))

\* new(big.Int).ModInverse(x, P), for x that is not 0 modulo P: by Fermat.
PowMod(x, k) ==
    FoldLeft(LAMBDA acc, b : IF b = 1 THEN (((acc * acc) % P) * (x % P)) % P
                                      ELSE (acc * acc) % P, 1, Bits(k))
ModInverse(x) == PowMod(x, P - 2)

----------------------------------------------------------------------------
(* The coordinates of a composite value, in the order of the wire format.   *)

Coords2(a) == <<a.x, a.y>>
Coords6(a) == Coords2(a.x) \o Coords2(a.y) \o Coords2(a.z)
Coords12(a) == Coords6(a.x) \o Coords6(a.y)

From2(c, i) == [x |-> c[i + 1], y |-> c[i + 2]]
From6(c, i) == [x |-> From2(c, i), y |-> From2(c, i + 2), z |-> From2(c, i + 4)]
From12(c) == [x |-> From6(c, 0), y |-> From6(c, 6)]

Wire(coords) == FoldLeft(LAMBDA m, n : m \o FixedBytes(n), <<>>, coords)

\* Reading n coordinates stops at the first one that is not below p.
Read(m, n) ==
    LET raw == [i \in 1 .. n |-> Coordinate(m, i - 1)]
        bad == {i \in 1 .. n : raw[i] >= P}
    IN  [ok |-> bad = {}, coords |-> IF bad = {} THEN raw ELSE SubSeq(raw, 1, Min(bad))]

\* The values written over the first of the old ones.
Overwrite(new, old) == [i \in DOMAIN old |-> IF i \in DOMAIN new THEN new[i] ELSE old[i]]

----------------------------------------------------------------------------
(* GF(p^2), by definition, and the powers of xi in constants.go.            *)

Plus(a, b) == [x |-> (a.x + b.x) % P, y |-> (a.y + b.y) % P]
Minus(a, b) == [x |-> (a.x - b.x) % P, y |-> (a.y - b.y) % P]
Times(a, b) == [x |-> (a.x * b.y + a.y * b.x) % P,
                y |-> (a.y * b.y - a.x * b.x) % P]
Quotient(a, b) ==
    LET norm == (b.x * b.x + b.y * b.y) % P
        inv == ModInverse(norm)
    IN  Times(a, [x |-> ((-b.x) * inv) % P, y |-> (b.y * inv) % P])

Scalar(y) == [x |-> 0, y |-> y]
Xi == [x |-> 1, y |-> XiRe]

XiPower(k) ==
    FoldLeft(LAMBDA acc, b : IF b = 1 THEN Times(Times(acc, acc), Xi)
                                      ELSE Times(acc, acc), Scalar(1), Bits(k))

TwistB == Quotient(Scalar(CurveB), Xi)

----------------------------------------------------------------------------
(* The group law, by chord and tangent.  A point of G1 has coordinates in   *)
(* GF(p), which are taken as elements of GF(p^2).                           *)

PointSum(a, b) ==
    LET slope == IF a[1] = b[1]
                 THEN Quotient(Times(Scalar(3), Times(a[1], a[1])), Plus(a[2], a[2]))
                 ELSE Quotient(Minus(b[2], a[2]), Minus(b[1], a[1]))
        x == Minus(Minus(Times(slope, slope), a[1]), b[1])
    IN  IF a = Infinity THEN b
        ELSE IF b = Infinity THEN a
        ELSE IF a[1] = b[1] /\ a[2] # b[2] THEN Infinity
        ELSE <<x, Minus(Times(slope, Minus(a[1], x)), a[2])>>

PointMul(k, a) ==
    FoldLeft(LAMBDA acc, b : IF b = 1 THEN PointSum(PointSum(acc, acc), a)
                                      ELSE PointSum(acc, acc), Infinity, Bits(k))

\* The constants are those of a curve of prime order with its twist.
ASSUME CurveAssumption ==
    /\ PointMul(Order, <<Scalar(CurveGen[1]), Scalar(CurveGen[2])>>) = Infinity
    /\ PointMul(Order, TwistGen) = Infinity
    /\ Times(TwistGen[2], TwistGen[2])
         = Plus(Times(TwistGen[1], Times(TwistGen[1], TwistGen[1])), TwistB)
    /\ (CurveGen[2] * CurveGen[2] - CurveGen[1] * CurveGen[1] * CurveGen[1] - CurveB) % P = 0
=============================================================================
