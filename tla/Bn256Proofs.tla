---------------------------- MODULE Bn256Proofs ----------------------------
(***************************************************************************)
(* The words of cloudflare's package stay below the modulus: the proofs     *)
(* behind Reduced.  gfP's equality is the equality of its words, so that    *)
(* every comparison in the package (IsZero, IsOne, IsOnCurve, the Marshals) *)
(* is right only if no operation ever leaves a word at or above p, and      *)
(* nothing but Unmarshal's check keeps one from coming in.                  *)
(*                                                                          *)
(* In layers: remainders and gfP's arithmetic; the tower up to GF(p^12);    *)
(* the curve and its twist; the pairing; the wire format; the calls of the  *)
(* package; and the state machine, by the inductive invariant ReducedInv.   *)
(*                                                                          *)
(* Then what the numbers stand for: Montgomery form, bytes and the digits   *)
(* of a scalar lose nothing (MontExact, WireExact, GTRoundTrip, MultiExact). *)
(***************************************************************************)
EXTENDS Bn256

----------------------------------------------------------------------------
(* Remainders.                                                              *)

\* The remainder and the quotient of an integer.
LEMMA ModRange ==
    ASSUME NEW x \in Int, NEW n \in Nat \ {0}
    PROVE  x % n \in 0 .. n - 1 /\ x \div n \in Int /\ x = n * (x \div n) + (x % n)
  OBVIOUS

\* A number is its own remainder and quotient, by that decomposition.
LEMMA ModIs ==
    ASSUME NEW n \in Nat \ {0}, NEW q \in Int, NEW r \in 0 .. n - 1
    PROVE  (n * q + r) % n = r /\ (n * q + r) \div n = q
  OBVIOUS

\* Below the modulus nothing is taken off,
LEMMA ModSmall ==
    ASSUME NEW n \in Nat \ {0}, NEW x \in 0 .. n - 1
    PROVE  x % n = x /\ x \div n = 0
  OBVIOUS

\* below twice the modulus it is taken off once,
LEMMA ModAbove ==
    ASSUME NEW n \in Nat \ {0}, NEW x \in n .. 2 * n - 1
    PROVE  x % n = x - n /\ x \div n = 1
  OBVIOUS

\* and it is added once to a small negative number.
LEMMA ModBelow ==
    ASSUME NEW n \in Nat \ {0}, NEW x \in -n .. -1
    PROVE  x % n = x + n
  OBVIOUS

----------------------------------------------------------------------------
(* The parameters.                                                          *)

Word == 0 .. R - 1

\* The modulus fits the words, and powers of the base are not zero.
LEMMA Params ==
    /\ P \in Nat /\ R \in Nat /\ 2 < P /\ P < R /\ Order \in Nat /\ 2 < Order
    /\ \A k \in Nat : Power(ByteBase)[k] \in Nat \ {0}
<1>1. \A k \in Nat : Power(ByteBase)[k] \in Nat \ {0}
  <2> DEFINE S == {k \in Nat : Power(ByteBase)[k] \in Nat \ {0}}
  <2>1. ByteBase \in Nat /\ ByteBase >= 2
    BY ParamsAssumption
  <2>2. 0 \in S
    BY <2>1, PowerUnfolds
  <2>3. ASSUME NEW k \in Nat, k \in S PROVE k + 1 \in S
    <3>1. Power(ByteBase)[k + 1] = ByteBase * Power(ByteBase)[k]
      BY <2>1, PowerUnfolds
    <3>2. \A x, y \in Nat \ {0} : x * y \in Nat \ {0}
      OBVIOUS
    <3> QED
      BY <2>1, <2>3, <3>1, <3>2
  <2> QED
    BY <2>2, <2>3, NatInduct
<1>2. R \in Nat
  BY <1>1, ParamsAssumption DEF R
<1>3. U \in Nat /\ U > 0 /\ U * U \in Nat /\ U * U * U \in Nat /\ U * U * U * U \in Nat
  BY ParamsAssumption
<1>4. U * U > 0
  BY <1>3
<1>5. P \in Nat /\ 2 < P /\ Order \in Nat /\ 2 < Order
  BY <1>3, <1>4 DEF P, Order
<1> QED
  BY <1>1, <1>2, <1>5, ParamsAssumption

\* The parameters of the package are those of the program.
LEMMA SameParams == C!P = P /\ C!R = R /\ C!Order = Order
  BY DEF C!P, P, C!R, R, C!Order, Order, C!Power, Power

----------------------------------------------------------------------------
(* GF(p) of bn256/cloudflare.                                               *)

\* The conditional subtraction of gfpCarry, for a sum below 2p.
LEMMA CarryExact ==
    ASSUME NEW a \in Word, NEW head \in Nat, a + head * R < 2 * P
    PROVE  /\ C!GfpCarry(a, head) \in Fp
           /\ C!GfpCarry(a, head) = (a + head * R) % P
<1>1. P \in Nat /\ R \in Nat /\ 2 < P /\ P < R
  BY Params
<1>2. head = 0 \/ head = 1
  <2>1. SUFFICES ASSUME head >= 2 PROVE FALSE
    BY DEF Word
  <2>2. head * R >= 2 * R
    BY <1>1, <2>1
  <2> QED
    BY <1>1, <2>2 DEF Word
<1>3. CASE head = 0 /\ a < P
  <2>1. a + head * R = a
    BY <1>1, <1>3 DEF Word
  <2>2. C!GfpCarry(a, head) = a
    BY <1>3, SameParams DEF C!GfpCarry
  <2> QED
    BY <1>1, <1>3, <2>1, <2>2, ModSmall DEF Fp, Word
<1>4. CASE head = 0 /\ a >= P
  <2>1. a + head * R = a
    BY <1>1, <1>4 DEF Word
  <2>2. C!GfpCarry(a, head) = (a - P) % R
    BY <1>1, <1>4, SameParams DEF C!GfpCarry, Word
  <2>3. a - P \in 0 .. R - 1 /\ a \in P .. 2 * P - 1
    BY <1>1, <1>4, <2>1 DEF Word
  <2>4. (a - P) % R = a - P
    BY <1>1, <2>3, ModSmall
  <2>5. a % P = a - P
    <3>1. P \in Nat \ {0} /\ a \in P .. 2 * P - 1
      BY <1>1, <2>3
    <3> QED
      BY <3>1, ModAbove
  <2> QED
    BY <1>1, <2>1, <2>2, <2>3, <2>4, <2>5 DEF Fp
<1>5. CASE head = 1
  <2>1. a + head * R = a + R
    BY <1>1, <1>5 DEF Word
  <2>2. C!GfpCarry(a, head) = (a - P) % R
    BY <1>1, <1>5, SameParams DEF C!GfpCarry, Word
  <2>3. a - P \in -R .. -1 /\ a + R \in P .. 2 * P - 1
    BY <1>1, <1>5, <2>1 DEF Word
  <2>4. (a - P) % R = (a - P) + R
    BY <1>1, <2>3, ModBelow
  <2>5. (a + R) % P = (a + R) - P
    BY <1>1, <2>3, ModAbove
  <2> QED
    BY <1>1, <2>1, <2>2, <2>3, <2>4, <2>5 DEF Fp, Word
<1>6. a < P \/ a >= P
  BY <1>1 DEF Word
<1> QED
  BY <1>2, <1>3, <1>4, <1>5, <1>6

\* Numbers a multiple of p apart have the same remainder.
LEMMA SameRemainder ==
    ASSUME NEW x \in Int, NEW k \in Int
    PROVE  (P * k + x) % P = x % P
<1>1. P \in Nat \ {0}
  BY Params
<1>2. x % P \in 0 .. P - 1 /\ x \div P \in Int /\ x = P * (x \div P) + (x % P)
  BY <1>1, ModRange
<1> DEFINE q == x \div P
           r == x % P
<1>3. \A y, z \in Int : P * y + (P * z + r) = P * (y + z) + r
  BY <1>1, <1>2
<1>4. P * k + x = P * (k + q) + r
  BY <1>2, <1>3
<1>5. \A y \in Int : (P * y + r) % P = r
  BY <1>1, <1>2, ModIs
<1>6. k + q \in Int
  BY <1>2
<1> QED
  BY <1>4, <1>5, <1>6

\* The sum of two elements and its carry.
LEMMA SumExact ==
    ASSUME NEW s \in Nat, s < 2 * P
    PROVE  /\ C!GfpCarry(s % R, s \div R) \in Fp
           /\ C!GfpCarry(s % R, s \div R) = s % P
<1>1. R \in Nat \ {0} /\ P \in Nat
  BY Params
<1>2. s % R \in Word /\ s = R * (s \div R) + (s % R) /\ s \div R \in Int
  BY <1>1, ModRange DEF Word
<1>3. s \div R \in Nat
  BY <1>1
<1>4. (s % R) + (s \div R) * R = s
  BY <1>1, <1>2, <1>3 DEF Word
<1> QED
  BY <1>2, <1>3, <1>4, CarryExact

\* gfpAdd of two elements is their sum modulo p, below p, although the sum may
\* exceed the words (gfp_generic.go:38).
THEOREM GfpAddExact ==
    ASSUME NEW a \in Fp, NEW b \in Fp
    PROVE  C!GfpAdd(a, b) \in Fp /\ C!GfpAdd(a, b) = (a + b) % P
<1>1. a + b \in Nat /\ a + b < 2 * P
  BY Params DEF Fp
<1> QED
  BY <1>1, SumExact, SameParams DEF C!GfpAdd

\* gfpSub of two elements is their difference modulo p, below p
\* (gfp_generic.go:49).
THEOREM GfpSubExact ==
    ASSUME NEW a \in Fp, NEW b \in Fp
    PROVE  C!GfpSub(a, b) \in Fp /\ C!GfpSub(a, b) = (a - b) % P
<1>1. P - b \in 0 .. R - 1
  BY Params DEF Fp
<1>2. (P - b) % R = P - b
  BY <1>1, Params, ModSmall
<1> DEFINE s == a + (P - b)
<1>3. s \in Nat /\ s < 2 * P
  BY Params DEF Fp
<1>4. C!GfpSub(a, b) = C!GfpCarry(s % R, s \div R)
  BY <1>2, SameParams DEF C!GfpSub
<1>5. s % P = (a - b) % P
  <2>1. a - b \in Int /\ s = P * 1 + (a - b)
    BY Params DEF Fp
  <2> QED
    BY <2>1, SameRemainder
<1> QED
  BY <1>3, <1>4, <1>5, SumExact

\* gfpNeg of an element, or of p, is its negative modulo p: that of 0 is 0, and
\* not p (gfp_generic.go:27).
THEOREM GfpNegExact ==
    ASSUME NEW a \in 0 .. P
    PROVE  C!GfpNeg(a) \in Fp /\ C!GfpNeg(a) = (-a) % P
<1>1. P - a \in Word
  BY Params DEF Word
<1>2. (P - a) % R = P - a
  <2>1. R \in Nat \ {0} /\ P - a \in 0 .. R - 1
    BY <1>1, Params DEF Word
  <2> QED
    BY <2>1, ModSmall
<1>3. C!GfpNeg(a) = C!GfpCarry(P - a, 0)
  BY <1>2, SameParams DEF C!GfpNeg
<1>4. (P - a) + 0 * R = P - a /\ P - a < 2 * P
  BY Params
<1>5. (P - a) % P = (-a) % P
  <2>1. -a \in Int /\ P - a = P * 1 + (-a)
    BY Params
  <2> QED
    BY <2>1, SameRemainder
<1> QED
  BY <1>1, <1>3, <1>4, <1>5, CarryExact

\* The constant of Montgomery's reduction, as cloudflare's package computes it.
np == C!np

\* np is the negative inverse of p modulo R.
LEMMA NpInverse == np \in 1 .. R - 1 /\ \E k \in Int : np * P + 1 = R * k
<1> DEFINE inv == CHOOSE n \in 1 .. R - 1 : (n * P) % R = 1
<1>1. inv \in 1 .. R - 1 /\ (inv * P) % R = 1
  BY ParamsAssumption
<1>2. np = R - inv
  BY SameParams DEF np, C!np
<1> HIDE DEF inv
<1>3. R \in Nat \ {0} /\ P \in Nat /\ inv \in Int
  BY <1>1, Params
<1>4. inv * P \in Int
  BY <1>3
<1>5. (inv * P) \div R \in Int /\ inv * P = R * ((inv * P) \div R) + 1
  BY <1>1, <1>3, <1>4, ModRange
<1> DEFINE k == P - (inv * P) \div R
<1>6. k \in Int
  BY <1>3, <1>5
<1>7. np * P + 1 = R * k
  <2>1. \A r, p, i, q \in Int : i * p = r * q + 1 => (r - i) * p + 1 = r * (p - q)
    OBVIOUS
  <2> QED
    BY <1>2, <1>3, <1>5, <2>1
<1>8. \E x \in Int : np * P + 1 = R * x
  <2> HIDE DEF k
  <2> QED
    BY <1>6, <1>7
<1>9. np \in 1 .. R - 1
  BY <1>1, <1>2, <1>3
<1> QED
  BY <1>8, <1>9

\* What the reduction adds makes the product divisible by R.
LEMMA HalfMul ==
    ASSUME NEW T \in Nat
    PROVE  /\ C!halfMul(T % R, np) \in Word
           /\ \E q \in Int : T + C!halfMul(T % R, np) * P = R * q
<1>1. R \in Nat \ {0} /\ P \in Nat /\ np \in Int
  BY Params, NpInverse
<1> DEFINE t == T % R
           tq == T \div R
           s == t * np
           m == s % R
           mq == s \div R
<1>2. t \in Int /\ tq \in Int /\ T = R * tq + t
  BY <1>1, ModRange
<1>3. C!halfMul(t, np) = m
  BY SameParams DEF C!halfMul
<1> HIDE DEF t, tq
<1>4. s \in Int
  BY <1>1, <1>2
<1>5. m \in 0 .. R - 1 /\ mq \in Int /\ s = R * mq + m
  BY <1>1, <1>4, ModRange
<1>6. PICK k \in Int : np * P + 1 = R * k
  BY NpInverse
<1> HIDE DEF m, mq
<1>7. T + m * P = R * (tq + t * k - mq * P)
  <2>1. m = t * np - R * mq
    BY <1>1, <1>2, <1>4, <1>5
  <2>2. m * P = (t * np) * P - (R * mq) * P
    <3>1. \A x, y, p \in Int : (x - y) * p = x * p - y * p
      OBVIOUS
    <3>2. t * np \in Int /\ R * mq \in Int
      BY <1>1, <1>2, <1>5
    <3> QED
      BY <1>1, <2>1, <3>1, <3>2
  <2>3. (t * np) * P = t * (R * k) - t
    <3>1. \A x, y, p, z \in Int : y * p + 1 = z => (x * y) * p = x * z - x
      OBVIOUS
    <3>2. R * k \in Int
      BY <1>1
    <3> QED
      BY <1>1, <1>2, <1>6, <3>1, <3>2
  <2>4. (R * mq) * P = R * (mq * P) /\ t * (R * k) = R * (t * k)
    BY <1>1, <1>2, <1>5
  <2>5. mq * P \in Int /\ t * k \in Int
    BY <1>1, <1>2, <1>5
  <2>6. \A r, a, b, c \in Int : r * (a + b - c) = r * a + r * b - r * c
    OBVIOUS
  <2>7. R * (tq + t * k - mq * P) = R * tq + R * (t * k) - R * (mq * P)
    BY <1>1, <1>2, <2>5, <2>6
  <2>8. R * tq \in Int /\ R * (t * k) \in Int /\ R * (mq * P) \in Int
    BY <1>1, <1>2, <2>5
  <2> QED
    BY <1>2, <2>2, <2>3, <2>4, <2>7, <2>8
<1>8. tq + t * k - mq * P \in Int
  BY <1>1, <1>2, <1>5
<1> QED
  BY <1>3, <1>5, <1>7, <1>8 DEF t, Word

\* gfpMul is Montgomery's reduction: the product of two words, of which one is
\* below p and the other may be any, comes out divided by R modulo p, and below
\* p (gfp_generic.go:159).
THEOREM GfpMulExact ==
    ASSUME NEW a \in Word, NEW b \in Word, a \in Fp \/ b \in Fp
    PROVE  /\ C!GfpMul(a, b) \in Fp
           /\ (C!GfpMul(a, b) * R) % P = (a * b) % P
<1>1. R \in Nat \ {0} /\ P \in Nat /\ 2 < P /\ P < R /\ a \in Nat /\ b \in Nat
  BY Params DEF Word
<1> DEFINE T == a * b
           m == C!halfMul(T % R, np)
           sum == T + m * P
<1>2. T \in Nat
  BY <1>1
<1>3. T <= R * P - P
  <2>1. \A r, p, x, y \in Nat : x <= r - 1 /\ y <= p /\ 0 < r => x * y <= r * p - p
    OBVIOUS
  <2>2. \A r, p, x, y \in Nat : x <= r - 1 /\ y <= p /\ 0 < r => y * x <= r * p - p
    OBVIOUS
  <2> QED
    BY <1>1, <2>1, <2>2 DEF Fp, Word
<1> HIDE DEF T
<1>4. m \in Word
  BY <1>2, HalfMul
<1>5. PICK q \in Int : sum = R * q
  BY <1>2, HalfMul
<1>6. C!GfpMul(a, b) = C!HighHalf(sum)
  BY SameParams DEF C!GfpMul, C!mul, T, np
<1> HIDE DEF m
<1>7. m * P \in Nat /\ m * P <= R * P - P
  <2>1. \A r, p, x \in Nat : x <= r - 1 /\ 0 < r => x * p \in Nat /\ x * p <= r * p - p
    OBVIOUS
  <2> QED
    BY <1>1, <1>4, <2>1 DEF Word
<1>8. sum \in Nat /\ sum < R * (2 * P)
  <2>1. R * P \in Nat /\ R * (2 * P) = R * P + R * P
    BY <1>1
  <2> QED
    BY <1>1, <1>2, <1>3, <1>7, <2>1
<1> HIDE DEF sum
<1>9. q \in Nat /\ q < 2 * P
  <2>1. \A r, y, p \in Int : r > 0 /\ r * y >= 0 /\ r * y < r * p => 0 <= y /\ y < p
    OBVIOUS
  <2>2. 2 * P \in Int
    BY <1>1
  <2> QED
    BY <1>1, <1>5, <1>8, <2>1, <2>2
<1>10. sum \div R = q
  <2>1. 0 \in 0 .. R - 1 /\ R * q = R * q + 0
    BY <1>1
  <2> QED
    BY <1>1, <1>5, <2>1, ModIs
<1>11. sum \div (R * R) = q \div R
  <2>1. q % R \in 0 .. R - 1 /\ q \div R \in Int /\ q = R * (q \div R) + (q % R)
    BY <1>1, ModRange
  <2> DEFINE h == q \div R
             l == q % R
  <2>2. R * q = (R * R) * h + R * l
    <3> HIDE DEF h, l
    <3>0. h \in Int /\ l \in Int /\ q = R * h + l
      BY <1>1, <2>1 DEF h, l
    <3>1. \A r, x, y, z \in Int : x = r * y + z => r * x = (r * r) * y + r * z
      OBVIOUS
    <3> QED
      BY <1>1, <1>9, <3>0, <3>1
  <2>3. R * l \in 0 .. R * R - 1 /\ R * R \in Nat \ {0}
    <3>1. \A r, z \in Nat : r > 0 /\ z <= r - 1 => r * z \in Nat /\ r * z <= r * r - r
      OBVIOUS
    <3>2. R * R \in Nat /\ R * R > 0
      BY <1>1
    <3> QED
      BY <1>1, <2>1, <3>1, <3>2
  <2> HIDE DEF h, l
  <2>4. \A n \in Nat \ {0} : \A x \in Int : \A r \in 0 .. n - 1 : (n * x + r) \div n = x
    BY ModIs
  <2>5. h \in Int
    BY <2>1 DEF h
  <2>6. ((R * R) * h + R * l) \div (R * R) = h
    BY <2>3, <2>4, <2>5
  <2> QED
    BY <1>5, <2>2, <2>6 DEF h
<1>12. C!GfpMul(a, b) = C!GfpCarry(q % R, q \div R)
  BY <1>6, <1>10, <1>11, SameParams DEF C!HighHalf
<1>13. C!GfpMul(a, b) \in Fp /\ C!GfpMul(a, b) = q % P
  BY <1>9, <1>12, SumExact
<1>14. ((q % P) * R) % P = (a * b) % P
  <2>1. q % P \in 0 .. P - 1 /\ q \div P \in Int /\ q = P * (q \div P) + (q % P)
    BY <1>1, ModRange
  <2> DEFINE h == q \div P
             l == q % P
  <2>2. R * q = P * (R * h) + l * R
    <3>1. \A r, p, x, y, z \in Int : x = p * y + z => r * x = p * (r * y) + z * r
      OBVIOUS
    <3> QED
      BY <1>1, <2>1, <3>1
  <2>3. R * q = P * m + T
    BY <1>1, <1>2, <1>4, <1>5 DEF Word, sum
  <2>4. R * h \in Int /\ l * R \in Int /\ m \in Int /\ T \in Int
    BY <1>1, <1>2, <1>4, <2>1 DEF Word
  <2> HIDE DEF h, l
  <2>5. (P * (R * h) + l * R) % P = (l * R) % P
    BY <2>4, SameRemainder
  <2>6. (P * m + T) % P = T % P
    BY <2>4, SameRemainder
  <2> QED
    BY <2>2, <2>3, <2>5, <2>6 DEF l, T
<1> QED
  BY <1>13, <1>14

----------------------------------------------------------------------------
(* The constants of the curve, and the inverse in GF(p).                    *)

\* A number has finitely many bits.
LEMMA BitsIs == ASSUME NEW n \in Nat PROVE \E len \in Nat : C!Bits(n) \in [1 .. len -> {0, 1}]
<1> DEFINE len == BitLen(n)
<1>1. C!Bits(n) = [i \in 1 .. len |-> Shr(n)[len - i] % 2]
  BY DEF C!Bits, C!BitLen, BitLen, C!Shr, Shr
<1>2. len \in Nat
  BY BitLenIs
<1> HIDE DEF len
<1>3. \A i \in 1 .. len : Shr(n)[len - i] % 2 \in {0, 1}
  <2>1. ASSUME NEW i \in 1 .. len PROVE Shr(n)[len - i] % 2 \in {0, 1}
    <3>1. len - i \in Nat
      BY <1>2
    <3>2. Shr(n)[len - i] \in Nat
      BY <3>1, ShrUnfolds
    <3> QED
      BY <3>2
  <2> QED
    BY <2>1
<1> QED
  BY <1>1, <1>2, <1>3

\* The remainder of any number.
LEMMA Residue == \A x \in Int : x % P \in Fp
<1>1. P \in Nat \ {0}
  BY Params
<1> QED
  BY <1>1, ModRange DEF Fp

\* Products are integers (to be cited where products are opaque).
LEMMA ProductInt == \A x, y \in Int : x * y \in Int
  OBVIOUS

PowStep(x, b, acc) == IF b = 1 THEN (((acc * acc) % P) * (x % P)) % P ELSE (acc * acc) % P
PowLoop == INSTANCE NatRecursion WITH Step <- PowStep

\* A modular inverse, by Fermat, is an element.
LEMMA ModInverseIn == ASSUME NEW x \in Int PROVE C!ModInverse(x) \in Fp
<1> DEFINE bits == C!Bits(P - 2)
<1>1. C!ModInverse(x) = PowLoop!FoldValues(x, 1, bits)[DOMAIN bits]
  BY SameParams DEF C!ModInverse, C!PowMod, C!FoldLeft, C!MapThenFoldSet, C!Max,
     PowLoop!FoldValues, PowStep
<1>2. P - 2 \in Nat /\ 1 \in Fp
  BY Params DEF Fp
<1>3. PICK len \in Nat : bits \in [1 .. len -> {0, 1}]
  BY <1>2, BitsIs
<1> HIDE DEF bits
<1>4. \A b \in {0, 1}, acc \in Fp : PowStep(x, b, acc) \in Fp
  <2>1. ASSUME NEW b \in {0, 1}, NEW acc \in Fp PROVE PowStep(x, b, acc) \in Fp
    <3>1. acc \in Int /\ x % P \in Int
      BY Residue DEF Fp
    <3>2. acc * acc \in Int
      BY <3>1, ProductInt
    <3>3. (acc * acc) % P \in Fp /\ (acc * acc) % P \in Int
      BY <3>2, Residue DEF Fp
    <3>4. ((acc * acc) % P) * (x % P) \in Int
      BY <3>1, <3>3, ProductInt
    <3> QED
      BY <3>3, <3>4, Residue DEF PowStep
  <2> QED
    BY <2>1
<1>5. \A seq \in [1 .. len -> {0, 1}] : PowLoop!FoldValues(x, 1, seq)[DOMAIN seq] \in Fp
  BY <1>2, <1>4, PowLoop!FoldClosed
<1> QED
  BY <1>1, <1>3, <1>5

\* In particular the product is an element.
LEMMA GfpMulIn ==
    ASSUME NEW a \in Word, NEW b \in Word, a \in Fp \/ b \in Fp PROVE C!GfpMul(a, b) \in Fp
  BY GfpMulExact

\* Elements are below the modulus, words may exceed it.
LEMMA ElementIsWord == ASSUME NEW a \in Fp PROVE a \in Word /\ a \in Int /\ a \in 0 .. P
  BY Params DEF Fp, Word

\* The constants of Montgomery's form are elements.
LEMMA FieldConstants == C!r2 \in Fp /\ C!rN1 \in Fp /\ C!r3 \in Fp /\ 0 \in Fp /\ 1 \in Fp
<1>0. R \in Int
  BY Params
<1>1. R \in Int /\ R % P \in Fp
  BY <1>0, Residue
<1>2. (R % P) * (R % P) \in Int
  BY <1>1, ElementIsWord, ProductInt
<1>3. C!r2 = ((R % P) * (R % P)) % P
  BY SameParams DEF C!r2
<1>4. C!r2 \in Fp
  BY <1>2, <1>3, Residue
<1>5. C!r2 * (R % P) \in Int
  BY <1>1, <1>4, ElementIsWord, ProductInt
<1>6. C!r3 = (C!r2 * (R % P)) % P
  BY SameParams DEF C!r3
<1>7. C!r3 \in Fp
  BY <1>5, <1>6, Residue
<1>8. C!rN1 \in Fp
  BY <1>1, SameParams, ModInverseIn DEF C!rN1
<1> QED
  BY <1>4, <1>7, <1>8, Params DEF Fp

\* newGFp takes small negative numbers as well,
LEMMA NewGFpIn == ASSUME NEW x \in -P .. R - 1 PROVE C!NewGFp(x) \in Fp
<1>1. CASE x >= 0
  <2>1. x \in Word
    BY <1>1 DEF Word
  <2>2. C!NewGFp(x) = C!GfpMul(x, C!r2)
    BY <1>1 DEF C!NewGFp, C!MontEncode
  <2> QED
    BY <2>1, <2>2, FieldConstants, ElementIsWord, GfpMulIn
<1>2. CASE ~(x >= 0)
  <2>1. -x \in 0 .. P
    BY <1>2, Params
  <2>2. C!GfpNeg(-x) \in Fp
    BY <2>1, GfpNegExact
  <2>3. C!NewGFp(x) = C!GfpMul(C!GfpNeg(-x), C!r2)
    BY <1>2 DEF C!NewGFp, C!MontEncode
  <2> QED
    BY <2>2, <2>3, FieldConstants, ElementIsWord, GfpMulIn
<1> QED
  BY <1>1, <1>2

\* and elements in particular.
LEMMA NewGFpOfElement == \A x \in Fp : C!NewGFp(x) \in Fp
<1>1. \A x \in Fp : x \in -P .. R - 1
  BY Params DEF Fp
<1> QED
  BY <1>1, NewGFpIn

InvertStep(p, bit, s) ==
    [sum   |-> IF bit = 1 THEN C!GfpMul(s.sum, s.power) ELSE s.sum,
     power |-> C!GfpMul(s.power, s.power)]
InvertLoop == INSTANCE NatRecursion WITH Step <- InvertStep

\* The digits from the other end.
LEMMA ReverseIs ==
    ASSUME NEW n \in Nat, NEW D, NEW seq \in [1 .. n -> D]
    PROVE  C!Reverse(seq) \in [1 .. n -> D]
<1>1. Len(seq) = n
  <2>1. seq \in Seq(D) /\ DOMAIN seq = 1 .. n
    OBVIOUS
  <2> QED
    BY <2>1
<1> QED
  BY <1>1 DEF C!Reverse

\* An inverse, by repeated squaring, is an element.
LEMMA GfpInvertIn == ASSUME NEW f \in Fp PROVE C!GfpInvert(f) \in Fp
<1> DEFINE bits == C!Reverse(C!Bits(P - 2))
           base == [sum |-> C!rN1, power |-> f]
           S == [sum : Fp, power : Fp]
           final == InvertLoop!FoldValues(0, base, bits)[DOMAIN bits]
<1>1. C!GfpInvert(f) = C!GfpMul(final.sum, C!r3)
  BY SameParams DEF C!GfpInvert, C!FoldLeft, C!MapThenFoldSet, C!Max,
     InvertLoop!FoldValues, InvertStep
<1>2. P - 2 \in Nat
  BY Params
<1>3. PICK len \in Nat : C!Bits(P - 2) \in [1 .. len -> {0, 1}]
  BY <1>2, BitsIs
<1>4. bits \in [1 .. len -> {0, 1}]
  BY <1>3, ReverseIs
<1>5. base \in S
  BY FieldConstants
<1>6. \A b \in {0, 1}, s \in S : InvertStep(0, b, s) \in S
  BY GfpMulIn, ElementIsWord DEF InvertStep
<1> HIDE DEF bits, base, S
<1>7. \A seq \in [1 .. len -> {0, 1}] : InvertLoop!FoldValues(0, base, seq)[DOMAIN seq] \in S
  BY <1>5, <1>6, InvertLoop!FoldClosed
<1>8. final \in S
  BY <1>4, <1>7
<1> QED
  BY <1>1, <1>8, FieldConstants, GfpMulIn, ElementIsWord DEF S

----------------------------------------------------------------------------
(* What every field of the tower has in common: its operations stay in it.  *)
(* The operations of a field are a record of functions, and the algorithms  *)
(* of the curves and of the tower take one as a parameter.                  *)

Closed(F, S) ==
    /\ \A a, b \in S : F.add[a][b] \in S /\ F.sub[a][b] \in S /\ F.mult[a][b] \in S
    /\ \A a \in S : F.inv[a] \in S
    /\ F.zero \in S /\ F.one \in S

\* GF(p) as a value has closed operations.
LEMMA GFpClosed == Closed(C!GFp, Fp)
<1>1. \A a \in Fp : a \in C!gfP
  BY ElementIsWord, SameParams DEF C!gfP, Word
<1>2. \A a, b \in Fp : /\ C!GFp.add[a][b] = C!GfpAdd(a, b)
                       /\ C!GFp.sub[a][b] = C!GfpSub(a, b)
                       /\ C!GFp.mult[a][b] = C!GfpMul(a, b)
  BY <1>1 DEF C!GFp
<1>3. \A a \in Fp : C!GFp.inv[a] = C!GfpInvert(a)
  BY <1>1 DEF C!GFp
<1>4. C!GFp.zero = 0 /\ C!GFp.one = C!NewGFp(1)
  BY DEF C!GFp
<1>5. \A a, b \in Fp : C!GfpAdd(a, b) \in Fp /\ C!GfpSub(a, b) \in Fp /\ C!GfpMul(a, b) \in Fp
  BY GfpAddExact, GfpSubExact, GfpMulIn, ElementIsWord
<1>6. \A a \in Fp : C!GfpInvert(a) \in Fp
  BY GfpInvertIn
<1> QED
  BY <1>2, <1>3, <1>4, <1>5, <1>6, FieldConstants, NewGFpOfElement DEF Closed

\* The operations on pairs of reduced numbers.
LEMMA Ops1 ==
    /\ \A a, b \in Fp : C!GfpAdd(a, b) \in Fp /\ C!GfpSub(a, b) \in Fp /\ C!GfpMul(a, b) \in Fp
    /\ \A a \in Fp : C!GfpNeg(a) \in Fp /\ C!GfpInvert(a) \in Fp /\ C!NewGFp(a) \in Fp
    /\ 0 \in Fp /\ 1 \in Fp
  BY GfpAddExact, GfpSubExact, GfpNegExact, GfpMulIn, GfpInvertIn, NewGFpOfElement,
     ElementIsWord, FieldConstants

\* The operations of GF(p^2) keep both coordinates reduced.
LEMMA Ops2 ==
    /\ \A a, b \in Fp2 : C!Add2(a, b) \in Fp2 /\ C!Sub2(a, b) \in Fp2 /\ C!Mul2(a, b) \in Fp2
    /\ \A a \in Fp2 : /\ C!Conj2(a) \in Fp2 /\ C!Neg2(a) \in Fp2 /\ C!Square2(a) \in Fp2
                      /\ C!MulXi(a) \in Fp2 /\ C!Invert2(a) \in Fp2 /\ C!Encode2(a) \in Fp2
    /\ \A a \in Fp2, b \in Fp : C!MulScalar2(a, b) \in Fp2
    /\ C!Zero2 \in Fp2 /\ C!One2 \in Fp2
<1>1. ASSUME NEW a \in Fp2, NEW b \in Fp2
      PROVE  C!Add2(a, b) \in Fp2 /\ C!Sub2(a, b) \in Fp2 /\ C!Mul2(a, b) \in Fp2
  BY Ops1 DEF Fp2, C!Add2, C!Sub2, C!Mul2
<1>2. ASSUME NEW a \in Fp2
      PROVE  C!Conj2(a) \in Fp2 /\ C!Neg2(a) \in Fp2 /\ C!Square2(a) \in Fp2 /\ C!Encode2(a) \in Fp2
  BY Ops1 DEF Fp2, C!Conj2, C!Neg2, C!Square2, C!Encode2
<1>3. ASSUME NEW a \in Fp2 PROVE C!MulXi(a) \in Fp2
  <2>1. XiRe \in Fp
    BY FieldAssumption DEF Fp
  <2> QED
    BY <2>1, Ops1 DEF Fp2, C!MulXi
<1>4. ASSUME NEW a \in Fp2 PROVE C!Invert2(a) \in Fp2
  BY Ops1 DEF Fp2, C!Invert2
<1>5. ASSUME NEW a \in Fp2, NEW b \in Fp PROVE C!MulScalar2(a, b) \in Fp2
  BY Ops1 DEF Fp2, C!MulScalar2
<1>6. C!Zero2 \in Fp2 /\ C!One2 \in Fp2
  BY Ops1 DEF Fp2, C!Zero2, C!One2
<1> QED
  BY <1>1, <1>2, <1>3, <1>4, <1>5, <1>6

\* What the curves, the tower and the pairing ask of GF(p^2).
Closed2(F) ==
    /\ Closed(F, Fp2)
    /\ \A a \in Fp2 : F.sqr[a] \in Fp2 /\ F.neg[a] \in Fp2 /\ F.mulXi[a] \in Fp2
    /\ \A a \in Fp2, b \in Fp : F.scale[a][b] \in Fp2

\* GF(p^2) as a value has closed operations.
LEMMA GFp2Closed == Closed2(C!GFp2)
<1>1. \A a \in Fp : a \in C!gfP
  BY ElementIsWord, SameParams DEF C!gfP, Word
<1>2. \A a \in Fp2 : a \in C!gfP2
  BY <1>1 DEF C!gfP2, Fp2
<1>3. \A a, b \in Fp2 : /\ C!GFp2.add[a][b] = C!Add2(a, b)
                        /\ C!GFp2.sub[a][b] = C!Sub2(a, b)
                        /\ C!GFp2.mult[a][b] = C!Mul2(a, b)
  BY <1>2 DEF C!GFp2
<1>4. \A a \in Fp2 : /\ C!GFp2.inv[a] = C!Invert2(a)
                     /\ C!GFp2.sqr[a] = C!Square2(a)
                     /\ C!GFp2.neg[a] = C!Neg2(a)
                     /\ C!GFp2.mulXi[a] = C!MulXi(a)
  BY <1>2 DEF C!GFp2
<1>5. \A a \in Fp2, b \in Fp : C!GFp2.scale[a][b] = C!MulScalar2(a, b)
  BY <1>1, <1>2 DEF C!GFp2
<1>6. C!GFp2.zero = C!Zero2 /\ C!GFp2.one = C!One2
  BY DEF C!GFp2
<1> QED
  BY <1>3, <1>4, <1>5, <1>6, Ops2 DEF Closed, Closed2

\* The powers of xi that constants.go lists.
XiStep(p, b, acc) ==
    IF b = 1 THEN C!Times(C!Times(acc, acc), C!Xi) ELSE C!Times(acc, acc)
XiLoop == INSTANCE NatRecursion WITH Step <- XiStep

\* A product in GF(p^2) by definition is reduced,
LEMMA TimesIn ==
    ASSUME NEW a, NEW b, a.x \in Int, a.y \in Int, b.x \in Int, b.y \in Int
    PROVE  C!Times(a, b) \in Fp2
<1>1. /\ a.x * b.y \in Int /\ a.y * b.x \in Int
      /\ a.y * b.y \in Int /\ a.x * b.x \in Int
  BY ProductInt
<1>2. a.x * b.y + a.y * b.x \in Int /\ a.y * b.y - a.x * b.x \in Int
  BY <1>1
<1>3. (a.x * b.y + a.y * b.x) % P \in Fp /\ (a.y * b.y - a.x * b.x) % P \in Fp
  BY <1>2, Residue
<1>4. C!Times(a, b) = [x |-> (a.x * b.y + a.y * b.x) % P, y |-> (a.y * b.y - a.x * b.x) % P]
  BY SameParams DEF C!Times
<1> QED
  BY <1>3, <1>4 DEF Fp2

\* and so is a power of xi,
LEMMA XiPowerIn == ASSUME NEW k \in Nat PROVE C!XiPower(k) \in Fp2
<1> DEFINE bits == C!Bits(k)
           base == C!Scalar(1)
<1>1. C!XiPower(k) = XiLoop!FoldValues(0, base, bits)[DOMAIN bits]
  BY DEF C!XiPower, C!FoldLeft, C!MapThenFoldSet, C!Max, XiLoop!FoldValues, XiStep
<1>2. PICK len \in Nat : bits \in [1 .. len -> {0, 1}]
  BY BitsIs
<1>3. base \in Fp2
  BY Ops1 DEF C!Scalar, Fp2
<1>4. \A b \in {0, 1}, acc \in Fp2 : XiStep(0, b, acc) \in Fp2
  <2>1. C!Xi.x \in Int /\ C!Xi.y \in Int
    BY FieldAssumption, Params DEF C!Xi
  <2>2. ASSUME NEW b \in {0, 1}, NEW acc \in Fp2 PROVE XiStep(0, b, acc) \in Fp2
    <3>1. acc.x \in Int /\ acc.y \in Int
      BY DEF Fp2, Fp
    <3>2. C!Times(acc, acc) \in Fp2
      BY <3>1, TimesIn
    <3>3. C!Times(acc, acc).x \in Int /\ C!Times(acc, acc).y \in Int
      BY <3>2 DEF Fp2, Fp
    <3>4. C!Times(C!Times(acc, acc), C!Xi) \in Fp2
      BY <2>1, <3>3, TimesIn
    <3> QED
      BY <3>2, <3>4 DEF XiStep
  <2> QED
    BY <2>2
<1> HIDE DEF bits, base
<1>5. \A seq \in [1 .. len -> {0, 1}] : XiLoop!FoldValues(0, base, seq)[DOMAIN seq] \in Fp2
  BY <1>3, <1>4, XiLoop!FoldClosed
<1> QED
  BY <1>1, <1>2, <1>5

\* so that the constants made of them are elements.
LEMMA XiConstants ==
    /\ C!xiToPMinus1Over6 \in Fp2 /\ C!xiToPMinus1Over3 \in Fp2 /\ C!xiToPMinus1Over2 \in Fp2
    /\ C!xiTo2PMinus2Over3 \in Fp2
    /\ C!xiToPSquaredMinus1Over3 \in Fp /\ C!xiTo2PSquaredMinus2Over3 \in Fp
    /\ C!xiToPSquaredMinus1Over6 \in Fp
<1>1. /\ (P - 1) \div 6 \in Nat /\ (P - 1) \div 3 \in Nat /\ (P - 1) \div 2 \in Nat
      /\ (2 * P - 2) \div 3 \in Nat
  BY Params
<1>2. (P * P - 1) \div 3 \in Nat /\ (2 * P * P - 2) \div 3 \in Nat /\ (P * P - 1) \div 6 \in Nat
  <2>1. P * P \in Nat /\ P * P > 1
    BY Params
  <2>2. 2 * P * P = 2 * (P * P)
    BY Params
  <2> QED
    BY <2>1, <2>2
<1>3. \A k \in Nat : C!Encode2(C!XiPower(k)) \in Fp2
  BY XiPowerIn, Ops2
<1>4. \A k \in Nat : C!NewGFp(C!XiPower(k).y) \in Fp
  BY XiPowerIn, Ops1 DEF Fp2
<1> QED
  BY <1>1, <1>2, <1>3, <1>4, SameParams
     DEF C!xiToPMinus1Over6, C!xiToPMinus1Over3, C!xiToPMinus1Over2, C!xiTo2PMinus2Over3,
         C!xiToPSquaredMinus1Over3, C!xiTo2PSquaredMinus2Over3, C!xiToPSquaredMinus1Over6

----------------------------------------------------------------------------
(* The tower over GF(p^2).                                                  *)

\* The operations of GF(p^6) that need no multiplication of GF(p^2).
LEMMA Ops6 ==
    /\ \A a, b \in Fp6 : C!Add6(a, b) \in Fp6 /\ C!Sub6(a, b) \in Fp6
    /\ \A a \in Fp6 : /\ C!Neg6(a) \in Fp6 /\ C!MulTau(a) \in Fp6
                      /\ C!Frobenius6(a) \in Fp6 /\ C!FrobeniusP2of6(a) \in Fp6
    /\ \A a \in Fp6, b \in Fp : C!MulGFP6(a, b) \in Fp6
    /\ C!Zero6 \in Fp6 /\ C!One6 \in Fp6
<1>1. ASSUME NEW a \in Fp6, NEW b \in Fp6 PROVE C!Add6(a, b) \in Fp6 /\ C!Sub6(a, b) \in Fp6
  BY Ops2 DEF Fp6, C!Add6, C!Sub6
<1>2. ASSUME NEW a \in Fp6 PROVE C!Neg6(a) \in Fp6 /\ C!MulTau(a) \in Fp6
  BY Ops2 DEF Fp6, C!Neg6, C!Each6, C!MulTau
<1>3. ASSUME NEW a \in Fp6 PROVE C!Frobenius6(a) \in Fp6 /\ C!FrobeniusP2of6(a) \in Fp6
  BY Ops2, XiConstants DEF Fp6, C!Frobenius6, C!FrobeniusP2of6
<1>4. ASSUME NEW a \in Fp6, NEW b \in Fp PROVE C!MulGFP6(a, b) \in Fp6
  BY Ops2 DEF Fp6, C!MulGFP6, C!Each6
<1>5. C!Zero6 \in Fp6 /\ C!One6 \in Fp6
  BY Ops2 DEF Fp6, C!Zero6, C!One6
<1> QED
  BY <1>1, <1>2, <1>3, <1>4, <1>5

\* Multiplication needs nothing of a product but that it is in the field.
Multiplies(F) ==
    /\ \A a, b \in Fp2 : F.add[a][b] \in Fp2 /\ F.sub[a][b] \in Fp2 /\ F.mult[a][b] \in Fp2
    /\ \A a \in Fp2 : F.mulXi[a] \in Fp2

\* Multiplication in GF(p^6),
LEMMA Mul6In ==
    ASSUME NEW F, Multiplies(F), NEW a \in Fp6, NEW b \in Fp6
    PROVE  C!Mul6(F, a, b) \in Fp6
<1>1. a.x \in Fp2 /\ a.y \in Fp2 /\ a.z \in Fp2 /\ b.x \in Fp2 /\ b.y \in Fp2 /\ b.z \in Fp2
  BY DEF Fp6
<1> DEFINE v0 == F.mult[a.z][b.z]
           v1 == F.mult[a.y][b.y]
           v2 == F.mult[a.x][b.x]
           xy == F.mult[F.add[a.x][a.y]][F.add[b.x][b.y]]
           yz == F.mult[F.add[a.y][a.z]][F.add[b.y][b.z]]
           xz == F.mult[F.add[a.x][a.z]][F.add[b.x][b.z]]
           x == F.sub[F.add[F.sub[xz][v0]][v1]][v2]
           y == F.add[F.sub[F.sub[yz][v0]][v1]][F.mulXi[v2]]
           z == F.add[F.mulXi[F.sub[F.sub[xy][v1]][v2]]][v0]
<1>2. v0 \in Fp2 /\ v1 \in Fp2 /\ v2 \in Fp2 /\ xy \in Fp2 /\ yz \in Fp2 /\ xz \in Fp2
  BY <1>1 DEF Multiplies
<1>3. C!Mul6(F, a, b) = [x |-> x, y |-> y, z |-> z]
  BY DEF C!Mul6
<1> HIDE DEF v0, v1, v2, xy, yz, xz
<1>4. x \in Fp2
  BY <1>2 DEF Multiplies
<1>5. y \in Fp2
  BY <1>2 DEF Multiplies
<1>6. z \in Fp2
  <2>1. F.sub[xy][v1] \in Fp2
    BY <1>2 DEF Multiplies
  <2>2. F.sub[F.sub[xy][v1]][v2] \in Fp2
    BY <1>2, <2>1 DEF Multiplies
  <2>3. F.mulXi[F.sub[F.sub[xy][v1]][v2]] \in Fp2
    BY <2>2 DEF Multiplies
  <2> QED
    BY <1>2, <2>3 DEF Multiplies
<1> HIDE DEF x, y, z
<1> QED
  BY <1>3, <1>4, <1>5, <1>6 DEF Fp6

\* squaring, which is multiplication with squares in place of products,
LEMMA Square6In ==
    ASSUME NEW F, Closed2(F), NEW a \in Fp6, "mult" \in DOMAIN F
    PROVE  C!Square6(F, a) \in Fp6
<1> DEFINE G2 == [F EXCEPT !.mult = [c \in C!gfP2 |-> [d \in C!gfP2 |-> F.sqr[c]]]]
<1>1. C!Square6(F, a) = C!Mul6(G2, a, a)
  BY DEF C!Square6
<1>2. \A c \in Fp2 : c \in C!gfP2
  BY ElementIsWord, SameParams DEF C!gfP2, C!gfP, Fp2, Word
<1>3. G2.add = F.add /\ G2.sub = F.sub /\ G2.mulXi = F.mulXi
      /\ G2.mult = [c \in C!gfP2 |-> [d \in C!gfP2 |-> F.sqr[c]]]
  OBVIOUS
<1> HIDE DEF G2
<1>4. \A c, d \in Fp2 : G2.mult[c][d] = F.sqr[c]
  BY <1>2, <1>3
<1>5. Multiplies(G2)
  <2>1. \A c, d \in Fp2 : F.add[c][d] \in Fp2 /\ F.sub[c][d] \in Fp2
    BY DEF Closed2, Closed
  <2>2. \A c, d \in Fp2 : G2.add[c][d] \in Fp2 /\ G2.sub[c][d] \in Fp2
    BY <1>3, <2>1
  <2>3. \A c \in Fp2 : F.sqr[c] \in Fp2 /\ F.mulXi[c] \in Fp2
    BY DEF Closed2
  <2>4. \A c, d \in Fp2 : G2.mult[c][d] \in Fp2
    BY <1>4, <2>3
  <2>5. \A c \in Fp2 : G2.mulXi[c] \in Fp2
    BY <1>3, <2>3
  <2> QED
    BY <2>2, <2>4, <2>5 DEF Multiplies
<1> QED
  BY <1>1, <1>5, Mul6In

\* and inversion keep the coefficients reduced.
LEMMA Invert6In ==
    ASSUME NEW F, Closed2(F), NEW a \in Fp6
    PROVE  C!Invert6(F, a) \in Fp6
<1>1. a.x \in Fp2 /\ a.y \in Fp2 /\ a.z \in Fp2
  BY DEF Fp6
<1> DEFINE adj == C!Adjoint6(F, a)
           norm == F.inv[F.add[F.add[F.mulXi[F.mult[adj.x][a.y]]]
                                    [F.mult[adj.z][a.z]]]
                              [F.mulXi[F.mult[adj.y][a.x]]]]
<1>2. adj \in Fp6
  BY <1>1 DEF C!Adjoint6, Fp6, Closed, Closed2
<1>3. C!Invert6(F, a) = [x |-> F.mult[adj.x][norm], y |-> F.mult[adj.y][norm],
                         z |-> F.mult[adj.z][norm]]
  BY DEF C!Invert6, C!MulScalar6, C!Each6
<1> HIDE DEF adj
<1>4. adj.x \in Fp2 /\ adj.y \in Fp2 /\ adj.z \in Fp2
  BY <1>2 DEF Fp6
<1>5. norm \in Fp2
  BY <1>1, <1>4 DEF Closed, Closed2
<1> HIDE DEF norm
<1> QED
  BY <1>3, <1>4, <1>5 DEF Fp6, Closed, Closed2

\* What the third layer of the tower and the pairing ask of GF(p^6).
Closed6(F) ==
    /\ \A a, b \in Fp6 : F.add[a][b] \in Fp6 /\ F.sub[a][b] \in Fp6 /\ F.mult[a][b] \in Fp6
    /\ \A a \in Fp6 : /\ F.sqr[a] \in Fp6 /\ F.neg[a] \in Fp6
                      /\ F.mulTau[a] \in Fp6 /\ F.inv[a] \in Fp6
    /\ \A a \in Fp6, b \in Fp2 : F.scale[a][b] \in Fp6
    /\ Closed2(F.base)

\* GF(p^6) as a value has closed operations.
LEMMA GFp6Closed == Closed6(C!GFp6Over(C!GFp2))
<1> DEFINE F == C!GFp6Over(C!GFp2)
<1>1. \A a \in Fp2 : a \in C!gfP2
  BY ElementIsWord, SameParams DEF C!gfP2, C!gfP, Fp2, Word
<1>2. \A a \in Fp6 : a \in C!gfP6
  BY <1>1 DEF C!gfP6, Fp6
<1>3. \A a, b \in Fp6 : /\ F.add[a][b] = C!Add6(a, b)
                        /\ F.sub[a][b] = C!Sub6(a, b)
                        /\ F.mult[a][b] = C!Mul6(C!GFp2, a, b)
  BY <1>2 DEF C!GFp6Over
<1>4. \A a \in Fp6 : /\ F.sqr[a] = C!Square6(C!GFp2, a)
                     /\ F.neg[a] = C!Neg6(a)
                     /\ F.mulTau[a] = C!MulTau(a)
                     /\ F.inv[a] = C!Invert6(C!GFp2, a)
  BY <1>2 DEF C!GFp6Over
<1>5. \A a \in Fp6, b \in Fp2 : F.scale[a][b] = C!MulScalar6(C!GFp2, a, b)
  BY <1>1, <1>2 DEF C!GFp6Over
<1>6. F.base = C!GFp2
  BY DEF C!GFp6Over
<1> HIDE DEF F
<1>7. \A a, b \in Fp6 : C!Mul6(C!GFp2, a, b) \in Fp6
  <2>1. Multiplies(C!GFp2)
    BY GFp2Closed DEF Closed, Closed2, Multiplies
  <2> QED
    BY <2>1, Mul6In
<1>8. \A a \in Fp6 : C!Square6(C!GFp2, a) \in Fp6 /\ C!Invert6(C!GFp2, a) \in Fp6
  <2>1. "mult" \in DOMAIN C!GFp2
    BY DEF C!GFp2
  <2> QED
    BY <2>1, GFp2Closed, Square6In, Invert6In
<1>9. \A a \in Fp6, b \in Fp2 : C!MulScalar6(C!GFp2, a, b) \in Fp6
  BY GFp2Closed DEF C!MulScalar6, C!Each6, Fp6, Closed, Closed2
<1>10. Closed6(F)
  BY <1>3, <1>4, <1>5, <1>6, <1>7, <1>8, <1>9, Ops6, GFp2Closed DEF Closed6
<1> QED
  BY <1>10 DEF F

\* Each operation of GF(p^12) over the operations of GF(p^6).
LEMMA Ops12 ==
    ASSUME NEW F, Closed6(F), NEW a \in Fp12, NEW b \in Fp12
    PROVE  /\ C!Mul12(F, a, b) \in Fp12 /\ C!Square12(F, a) \in Fp12
           /\ C!Invert12(F, a) \in Fp12 /\ C!Conj12(a) \in Fp12
           /\ C!Frobenius12(F, a) \in Fp12 /\ C!FrobeniusP2of12(a) \in Fp12
<1>1. a.x \in Fp6 /\ a.y \in Fp6 /\ b.x \in Fp6 /\ b.y \in Fp6
  BY DEF Fp12
<1>2. C!Mul12(F, a, b) \in Fp12 /\ C!Square12(F, a) \in Fp12
  BY <1>1 DEF C!Mul12, C!Square12, Fp12, Closed6
<1>3. C!Invert12(F, a) \in Fp12
  BY <1>1 DEF C!Invert12, Fp12, Closed6
<1>4. C!Conj12(a) \in Fp12
  BY Ops6 DEF C!Conj12, Fp12
<1>5. C!Frobenius12(F, a) \in Fp12 /\ C!FrobeniusP2of12(a) \in Fp12
  BY <1>1, Ops6, XiConstants DEF C!Frobenius12, C!FrobeniusP2of12, Fp12, Closed6
<1> QED
  BY <1>2, <1>3, <1>4, <1>5

Closed12(F) ==
    /\ \A a, b \in Fp12 : F.mult[a][b] \in Fp12
    /\ \A a \in Fp12 : /\ F.sqr[a] \in Fp12 /\ F.inv[a] \in Fp12 /\ F.conj[a] \in Fp12
                       /\ F.frobenius[a] \in Fp12 /\ F.frobeniusP2[a] \in Fp12
    /\ Closed6(F.base)

\* Every operation of the tower, up to GF(p^12), leaves reduced coefficients if
\* it is given such: they can be compared word by word, as
\* IsZero and IsOne do (gfp2.go:42).
THEOREM GFp12Closed == Closed12(C!GFp12)
<1> DEFINE B == C!GFp6Over(C!GFp2)
           F == C!GFp12Over(B)
<1>1. C!GFp12 = F
  BY DEF C!GFp12
<1>2. Closed6(B)
  BY GFp6Closed
<1> HIDE DEF B
<1>3. \A a \in Fp12 : a \in C!gfP12
  BY ElementIsWord, SameParams
     DEF C!gfP12, C!gfP6, C!gfP2, C!gfP, Fp12, Fp6, Fp2, Word
<1>4. \A a, b \in Fp12 : F.mult[a][b] = C!Mul12(B, a, b)
  BY <1>3 DEF C!GFp12Over
<1>5. \A a \in Fp12 : /\ F.sqr[a] = C!Square12(B, a) /\ F.inv[a] = C!Invert12(B, a)
                      /\ F.conj[a] = C!Conj12(a) /\ F.frobenius[a] = C!Frobenius12(B, a)
                      /\ F.frobeniusP2[a] = C!FrobeniusP2of12(a)
  BY <1>3 DEF C!GFp12Over
<1>6. F.base = B
  BY DEF C!GFp12Over
<1> HIDE DEF F
<1>7. Closed12(F)
  BY <1>2, <1>4, <1>5, <1>6, Ops12 DEF Closed12
<1> QED
  BY <1>1, <1>7

\* A power of an element of GF(p^12).
ExpStep(p, bit, sum) == IF bit = 1 THEN p.F.mult[p.F.sqr[sum]][p.a] ELSE p.F.sqr[sum]
ExpLoop == INSTANCE NatRecursion WITH Step <- ExpStep

\* The neutral element is reduced,
LEMMA One12In == C!One12 \in Fp12
  BY Ops6 DEF C!One12, Fp12

\* and so are the powers of an element.
LEMMA Exp12In ==
    ASSUME NEW F, Closed12(F), NEW a \in Fp12, NEW k \in Nat
    PROVE  C!Exp12(F, a, k) \in Fp12
<1> DEFINE p == [F |-> F, a |-> a]
           bits == C!Bits(k)
<1>1. C!Exp12(F, a, k) = ExpLoop!FoldValues(p, C!One12, bits)[DOMAIN bits]
  BY DEF C!Exp12, C!FoldLeft, C!MapThenFoldSet, C!Max, ExpLoop!FoldValues, ExpStep
<1>2. PICK len \in Nat : bits \in [1 .. len -> {0, 1}]
  BY BitsIs
<1>3. \A b \in {0, 1}, sum \in Fp12 : ExpStep(p, b, sum) \in Fp12
  BY DEF ExpStep, Closed12
<1> HIDE DEF p, bits
<1>4. \A seq \in [1 .. len -> {0, 1}] :
          ExpLoop!FoldValues(p, C!One12, seq)[DOMAIN seq] \in Fp12
  BY <1>3, One12In, ExpLoop!FoldClosed
<1> QED
  BY <1>1, <1>2, <1>4

----------------------------------------------------------------------------
(* The curve and its twist.                                                 *)

\* A receiver may hold any words in the coordinates that a call sets, but t is
\* left in it.
Receiver(W, S) == [x : W, y : W, z : S, t : S]

\* Doubling and adding points: the receiver's t is all that is left of it.
LEMMA JacobianDoubleIn ==
    ASSUME NEW F, NEW S, Closed(F, S), NEW W, NEW c \in Receiver(W, S), NEW a \in Point(S)
    PROVE  C!JacobianDouble(F, c, a) \in Point(S)
<1> DEFINE dbl(v) == F.add[v][v]
           sqr(v) == F.mult[v][v]
           A == sqr(a.x)
           B == sqr(a.y)
           CC == sqr(B)
           d == dbl(F.sub[F.sub[sqr(F.add[a.x][B])][A]][CC])
           e == F.add[dbl(A)][A]
           x == F.sub[sqr(e)][dbl(d)]
           y == F.sub[F.mult[e][F.sub[d][x]]][dbl(dbl(dbl(CC)))]
           z == dbl(F.mult[a.y][a.z])
<1>1. C!JacobianDouble(F, c, a) = [c EXCEPT !.x = x, !.y = y, !.z = z]
  BY DEF C!JacobianDouble
<1>2. a.x \in S /\ a.y \in S /\ a.z \in S
  BY DEF Point
<1>3. A \in S /\ B \in S
  BY <1>2 DEF Closed
<1> HIDE DEF A, B
<1>4. CC \in S /\ e \in S
  BY <1>3 DEF Closed
<1> HIDE DEF CC, e
<1>5. d \in S
  <2>1. F.add[a.x][B] \in S
    BY <1>2, <1>3 DEF Closed
  <2>2. sqr(F.add[a.x][B]) \in S
    BY <2>1 DEF Closed
  <2>3. F.sub[sqr(F.add[a.x][B])][A] \in S
    BY Zenon, <1>3, <2>2 DEF Closed
  <2>4. F.sub[F.sub[sqr(F.add[a.x][B])][A]][CC] \in S
    BY Zenon, <1>4, <2>3 DEF Closed
  <2> QED
    BY Zenon, <2>4 DEF Closed
<1> HIDE DEF d
<1>6. x \in S
  BY <1>4, <1>5 DEF Closed
<1> HIDE DEF x
<1>7. y \in S
  <2>1. F.mult[e][F.sub[d][x]] \in S
    BY <1>4, <1>5, <1>6 DEF Closed
  <2>2. dbl(dbl(dbl(CC))) \in S
    BY <1>4 DEF Closed
  <2> QED
    BY Zenon, <2>1, <2>2 DEF Closed
<1>8. z \in S
  BY <1>2 DEF Closed
<1> HIDE DEF y, z
<1> QED
  BY <1>1, <1>6, <1>7, <1>8 DEF Receiver, Point

\* The addition, in its four cases.
LEMMA JacobianAddIn ==
    ASSUME NEW F, NEW S, Closed(F, S), NEW W, NEW c \in Receiver(W, S),
           NEW a \in Point(S), NEW b \in Point(S)
    PROVE  C!JacobianAdd(F, c, a, b) \in Point(S)
<1> DEFINE dbl(v) == F.add[v][v]
           sqr(v) == F.mult[v][v]
           z12 == sqr(a.z)
           z22 == sqr(b.z)
           u1 == F.mult[a.x][z22]
           s1 == F.mult[a.y][F.mult[b.z][z22]]
           h == F.sub[F.mult[b.x][z12]][u1]
           s == F.sub[F.mult[b.y][F.mult[a.z][z12]]][s1]
           i == sqr(dbl(h))
           j == F.mult[h][i]
           r == dbl(s)
           v == F.mult[u1][i]
           x == F.sub[F.sub[sqr(r)][j]][dbl(v)]
           y == F.sub[F.mult[r][F.sub[v][x]]][dbl(F.mult[s1][j])]
           z == F.mult[F.sub[F.sub[sqr(F.add[a.z][b.z])][z12]][z22]][h]
<1>1. C!JacobianAdd(F, c, a, b) =
        IF a.z = F.zero THEN b
        ELSE IF b.z = F.zero THEN a
        ELSE IF h = F.zero /\ s = F.zero THEN C!JacobianDouble(F, c, a)
        ELSE [c EXCEPT !.x = x, !.y = y, !.z = z]
  BY DEF C!JacobianAdd
<1>2. a.x \in S /\ a.y \in S /\ a.z \in S /\ b.x \in S /\ b.y \in S /\ b.z \in S
  BY DEF Point
<1>3. z12 \in S /\ z22 \in S
  BY <1>2 DEF Closed
<1> HIDE DEF z12, z22
<1>4. u1 \in S /\ s1 \in S
  BY <1>2, <1>3 DEF Closed
<1> HIDE DEF u1, s1
<1>5. h \in S /\ s \in S
  BY <1>2, <1>3, <1>4 DEF Closed
<1> HIDE DEF h, s
<1>6. i \in S /\ r \in S
  BY <1>5 DEF Closed
<1> HIDE DEF i, r
<1>7. j \in S /\ v \in S
  BY <1>4, <1>5, <1>6 DEF Closed
<1> HIDE DEF j, v
<1>8. x \in S
  BY <1>6, <1>7 DEF Closed
<1> HIDE DEF x
<1>9. y \in S
  <2>1. F.mult[r][F.sub[v][x]] \in S
    BY <1>6, <1>7, <1>8 DEF Closed
  <2>2. dbl(F.mult[s1][j]) \in S
    BY <1>4, <1>7 DEF Closed
  <2> QED
    BY Zenon, <2>1, <2>2 DEF Closed
<1>10. z \in S
  <2>1. F.add[a.z][b.z] \in S
    BY <1>2 DEF Closed
  <2>2. F.sub[sqr(F.add[a.z][b.z])][z12] \in S
    BY Zenon, <1>3, <2>1 DEF Closed
  <2>3. F.sub[F.sub[sqr(F.add[a.z][b.z])][z12]][z22] \in S
    BY Zenon, <1>3, <2>2 DEF Closed
  <2> QED
    BY Zenon, <1>5, <2>3 DEF Closed
<1> HIDE DEF y, z
<1>11. [c EXCEPT !.x = x, !.y = y, !.z = z] \in Point(S)
  BY <1>8, <1>9, <1>10 DEF Receiver, Point
<1>12. C!JacobianDouble(F, c, a) \in Point(S)
  BY JacobianDoubleIn
<1> QED
  BY <1>1, <1>11, <1>12

\* Infinity without a valid x and y, an element as it came, or z = 1.
LEMMA JacobianAffineIn ==
    ASSUME NEW F, NEW S, Closed(F, S), NEW c \in Point(S)
    PROVE  C!JacobianAffine(F, c) \in Point(S)
<1> DEFINE zInv == F.inv[c.z]
           zInv2 == F.mult[zInv][zInv]
           x == F.mult[c.x][zInv2]
           y == F.mult[F.mult[c.y][zInv]][zInv2]
<1>1. C!JacobianAffine(F, c) =
        IF c.z = F.one THEN c
        ELSE IF c.z = F.zero THEN [c EXCEPT !.x = F.zero, !.y = F.one, !.t = F.zero]
        ELSE [x |-> x, y |-> y, z |-> F.one, t |-> F.one]
  BY DEF C!JacobianAffine
<1>2. c.x \in S /\ c.y \in S /\ c.z \in S /\ F.zero \in S /\ F.one \in S
  BY DEF Point, Closed
<1>3. zInv \in S
  BY <1>2 DEF Closed
<1> HIDE DEF zInv
<1>4. zInv2 \in S
  BY <1>3 DEF Closed
<1> HIDE DEF zInv2
<1>5. x \in S /\ y \in S
  BY <1>2, <1>3, <1>4 DEF Closed
<1> HIDE DEF x, y
<1>6. [c EXCEPT !.x = F.zero, !.y = F.one, !.t = F.zero] \in Point(S)
  BY <1>2 DEF Point
<1>7. [x |-> x, y |-> y, z |-> F.one, t |-> F.one] \in Point(S)
  BY <1>2, <1>5 DEF Point
<1> QED
  BY <1>1, <1>6, <1>7

\* The constants of the two groups.
LEMMA CurveConstants ==
    /\ C!One1 \in Fp /\ C!ZeroCurve \in Point(Fp) /\ C!CurveInfinity \in Point(Fp)
    /\ C!curveGen \in Point(Fp)
    /\ \A x, y \in Fp : C!AffineCurve(x, y) \in Point(Fp)
<1>1. C!One1 \in Fp
  BY Ops1 DEF C!One1
<1>2. C!ZeroCurve \in Point(Fp) /\ C!CurveInfinity \in Point(Fp)
  BY <1>1, Ops1 DEF C!ZeroCurve, C!CurveInfinity, Point
<1>3. \A x, y \in Fp : C!AffineCurve(x, y) \in Point(Fp)
  BY <1>1, Ops1 DEF C!AffineCurve, Point
<1>4. CurveGen[1] \in -P .. R - 1 /\ CurveGen[2] \in -P .. R - 1
  BY FieldAssumption, Params
<1>5. C!NewGFp(CurveGen[1]) \in Fp /\ C!NewGFp(CurveGen[2]) \in Fp
  BY <1>4, NewGFpIn
<1>6. C!curveGen \in Point(Fp)
  BY <1>1, <1>5 DEF C!curveGen, C!AffineCurve, Point
<1> QED
  BY <1>1, <1>2, <1>3, <1>6

\* The constants of the twist.
LEMMA TwistConstants ==
    /\ C!ZeroTwist \in Point(Fp2) /\ C!TwistInfinity \in Point(Fp2)
    /\ C!twistGen \in Point(Fp2)
    /\ \A x, y \in Fp2 : C!AffineTwist(x, y) \in Point(Fp2)
<1>1. C!ZeroTwist \in Point(Fp2) /\ C!TwistInfinity \in Point(Fp2)
  BY Ops2 DEF C!ZeroTwist, C!TwistInfinity, Point
<1>2. \A x, y \in Fp2 : C!AffineTwist(x, y) \in Point(Fp2)
  BY Ops2 DEF C!AffineTwist, Point
<1>3. TwistGen[1] \in Fp2 /\ TwistGen[2] \in Fp2
  BY FieldAssumption DEF Fp2, Fp
<1> QED
  BY <1>1, <1>2, <1>3 DEF C!twistGen

\* The digits of a scalar: each has a bit of both of its parts.
LEMMA MultiIs ==
    ASSUME NEW k \in Nat
    PROVE  \E len \in Nat : C!Multi(C!curveLattice, k) \in [1 .. len -> 0 .. 3]
<1> DEFINE l == C!curveLattice
           parts == C!decompose(l, k)
           length(n) == BitLen(IF n < 0 THEN -n ELSE n)
           len == IF length(parts[1]) < length(parts[2]) THEN length(parts[2])
                  ELSE length(parts[1])
           bit(j, i) == (parts[j] \div Power(2)[len - i]) % 2
<1>1. C!Multi(l, k) = [i \in 1 .. len |-> bit(1, i) + 2 * bit(2, i)]
  BY DEF C!Multi, C!BitLen, BitLen, C!Shr, Shr, C!Power, Power
<1>2. /\ l.vectors[1][1] \in Int /\ l.vectors[1][2] \in Int
      /\ l.vectors[2][1] \in Int /\ l.vectors[2][2] \in Int
      /\ l.inverse[1] \in Int /\ l.inverse[2] \in Int /\ l.det \in Nat \ {0}
  <2>1. U \in Nat
    BY ParamsAssumption
  <2>2. U * U \in Nat
    BY <2>1
  <2>3. 6 * U * U = 6 * (U * U)
    BY <2>1
  <2>4. 2 * Order \in Nat \ {0}
    BY Params
  <2> QED
    BY <2>1, <2>2, <2>3, <2>4, SameParams DEF C!curveLattice
<1> HIDE DEF l
<1> DEFINE c1 == C!round(k * l.inverse[1], l.det)
           c2 == C!round(k * l.inverse[2], l.det)
<1>3. c1 \in Int /\ c2 \in Int
  <2>1. ASSUME NEW x \in Int PROVE C!round(x, l.det) \in Int
    BY <1>2 DEF C!round
  <2>2. k * l.inverse[1] \in Int /\ k * l.inverse[2] \in Int
    BY <1>2
  <2> QED
    BY <2>1, <2>2
<1>4. parts[1] = 2 * l.vectors[1][1] - (c1 * l.vectors[1][1] + c2 * l.vectors[2][1]) + k
      /\ parts[2] = 2 * l.vectors[1][2] - (c1 * l.vectors[1][2] + c2 * l.vectors[2][2]) + 0
  BY DEF C!decompose
<1> HIDE DEF c1, c2
<1>5. parts[1] \in Int /\ parts[2] \in Int
  <2>1. /\ c1 * l.vectors[1][1] \in Int /\ c2 * l.vectors[2][1] \in Int
        /\ c1 * l.vectors[1][2] \in Int /\ c2 * l.vectors[2][2] \in Int
    BY <1>2, <1>3
  <2> HIDE DEF parts
  <2> QED
    BY <1>2, <1>4, <2>1
<1> HIDE DEF parts
<1>6. len \in Nat
  <2>1. \A n \in Int : length(n) \in Nat
    BY BitLenIs
  <2> HIDE DEF length
  <2> QED
    BY <1>5, <2>1
<1> HIDE DEF len
<1>7. ASSUME NEW i \in 1 .. len PROVE bit(1, i) + 2 * bit(2, i) \in 0 .. 3
  <2>1. Power(2)[len - i] \in Nat \ {0}
    <3>1. len - i \in Nat
      BY <1>6
    <3>2. Power(2)[len - i] > len - i /\ Power(2)[len - i] \in Nat
      BY <3>1, PowerGrows, PowerUnfolds
    <3> QED
      BY <3>1, <3>2
  <2>2. parts[1] \div Power(2)[len - i] \in Int /\ parts[2] \div Power(2)[len - i] \in Int
    BY <1>5, <2>1, ModRange
  <2> QED
    BY <2>2
<1> HIDE DEF bit
<1>8. C!Multi(l, k) \in [1 .. len -> 0 .. 3]
  BY <1>1, <1>7
<1> QED
  BY <1>6, <1>8 DEF l

\* One digit of the scalar: twice the sum, and what the digit stands for.
CurveMulStep(precomp, digit, s) ==
    LET t == C!CurveDouble(s.t, s.sum)
    IN  [t |-> t, sum |-> IF digit = 0 THEN t ELSE C!CurveAdd(s.sum, t, precomp[digit])]
CurveMulLoop == INSTANCE NatRecursion WITH Step <- CurveMulStep

\* The operations of curve.go keep coordinates reduced,
LEMMA CurveOps ==
    ASSUME NEW W, NEW c \in Receiver(W, Fp), NEW a \in Point(Fp), NEW b \in Point(Fp)
    PROVE  /\ C!CurveDouble(c, a) \in Point(Fp) /\ C!CurveAdd(c, a, b) \in Point(Fp)
           /\ C!CurveNeg(a) \in Point(Fp) /\ C!CurveAffine(a) \in Point(Fp)
<1>1. C!CurveDouble(c, a) \in Point(Fp)
  BY GFpClosed, JacobianDoubleIn DEF C!CurveDouble
<1>2. C!CurveAdd(c, a, b) \in Point(Fp)
  BY GFpClosed, JacobianAddIn DEF C!CurveAdd
<1>3. C!CurveAffine(a) \in Point(Fp)
  BY GFpClosed, JacobianAffineIn DEF C!CurveAffine
<1>4. C!CurveNeg(a) \in Point(Fp)
  BY Ops1 DEF C!CurveNeg, Point
<1> QED
  BY <1>1, <1>2, <1>3, <1>4

\* A reduced point may be a receiver.
LEMMA PointIsReceiver == ASSUME NEW S, NEW c \in Point(S) PROVE c \in Receiver(S, S)
  BY DEF Point, Receiver

\* Multiples of a reduced point are reduced, for every scalar, with both of its
\* parts and the endomorphism (curve.go:185).
LEMMA CurveMulIn ==
    ASSUME NEW a \in Point(Fp), NEW k \in Nat
    PROVE  C!CurveMul(a, k) \in Point(Fp)
<1> DEFINE phi == [a EXCEPT !.x = C!GfpMul(@, C!xiTo2PSquaredMinus2Over3)]
           precomp == <<a, phi, C!CurveAdd(C!ZeroCurve, a, phi)>>
           base == [t |-> C!ZeroCurve, sum |-> C!CurveInfinity]
           digits == C!Multi(C!curveLattice, k)
           S == [t : Point(Fp), sum : Point(Fp)]
<1>1. C!CurveMul(a, k) = CurveMulLoop!FoldValues(precomp, base, digits)[DOMAIN digits].sum
  BY DEF C!CurveMul, C!FoldLeft, C!MapThenFoldSet, C!Max, CurveMulLoop!FoldValues, CurveMulStep
<1>2. PICK len \in Nat : digits \in [1 .. len -> 0 .. 3]
  BY MultiIs
<1> HIDE DEF digits
<1>3. base \in S
  BY CurveConstants
<1> HIDE DEF base
<1>4. phi \in Point(Fp)
  BY Ops1, XiConstants DEF Point
<1> HIDE DEF phi
<1>5. \A d \in 1 .. 3 : precomp[d] \in Point(Fp)
  <2>1. C!CurveAdd(C!ZeroCurve, a, phi) \in Point(Fp)
    BY <1>4, CurveConstants, PointIsReceiver, CurveOps
  <2> QED
    BY <1>4, <2>1
<1> HIDE DEF precomp
<1>6. \A d \in 0 .. 3, s \in S : CurveMulStep(precomp, d, s) \in S
  <2>1. ASSUME NEW d \in 0 .. 3, NEW s \in S PROVE CurveMulStep(precomp, d, s) \in S
    <3> DEFINE t == C!CurveDouble(s.t, s.sum)
    <3>1. s.t \in Point(Fp) /\ s.sum \in Point(Fp)
      OBVIOUS
    <3>2. t \in Point(Fp)
      BY <3>1, PointIsReceiver, CurveOps
    <3> HIDE DEF t
    <3>3. d # 0 => C!CurveAdd(s.sum, t, precomp[d]) \in Point(Fp)
      BY <1>5, <3>1, <3>2, PointIsReceiver, CurveOps
    <3>4. CurveMulStep(precomp, d, s) =
            [t |-> t, sum |-> IF d = 0 THEN t ELSE C!CurveAdd(s.sum, t, precomp[d])]
      BY DEF CurveMulStep, t
    <3> QED
      BY <3>2, <3>3, <3>4
  <2> QED
    BY <2>1
<1> HIDE DEF S
<1> DEFINE D == 0 .. 3
<1>7. \A seq \in [1 .. len -> D] :
          CurveMulLoop!FoldValues(precomp, base, seq)[DOMAIN seq] \in S
  <2> HIDE DEF D
  <2>1. \A d \in D, s \in S : CurveMulStep(precomp, d, s) \in S
    BY <1>6 DEF D
  <2> QED
    BY <1>3, <2>1, CurveMulLoop!FoldClosed
<1> QED
  BY <1>1, <1>2, <1>7 DEF S

\* The operations of twist.go keep coordinates reduced.
LEMMA TwistOps ==
    ASSUME NEW W, NEW c \in Receiver(W, Fp2), NEW a \in Point(Fp2), NEW b \in Point(Fp2)
    PROVE  /\ C!TwistDouble(c, a) \in Point(Fp2) /\ C!TwistAdd(c, a, b) \in Point(Fp2)
           /\ C!TwistNeg(a) \in Point(Fp2) /\ C!TwistAffine(a) \in Point(Fp2)
<1>1. Closed(C!GFp2, Fp2)
  BY GFp2Closed DEF Closed2
<1>2. C!TwistDouble(c, a) \in Point(Fp2)
  BY <1>1, JacobianDoubleIn DEF C!TwistDouble
<1>3. C!TwistAdd(c, a, b) \in Point(Fp2)
  BY <1>1, JacobianAddIn DEF C!TwistAdd
<1>4. C!TwistAffine(a) \in Point(Fp2)
  BY <1>1, JacobianAffineIn DEF C!TwistAffine
<1>5. C!TwistNeg(a) \in Point(Fp2)
  BY Ops2 DEF C!TwistNeg, Point
<1> QED
  BY <1>2, <1>3, <1>4, <1>5

TwistMulStep(a, bit, s) ==
    LET t == C!TwistDouble(s.t, s.sum)
    IN  [t |-> t, sum |-> IF bit = 1 THEN C!TwistAdd(s.sum, t, a) ELSE t]
TwistMulLoop == INSTANCE NatRecursion WITH Step <- TwistMulStep

\* Multiples of a reduced point of the twist are reduced, for every scalar.
LEMMA TwistMulIn ==
    ASSUME NEW a \in Point(Fp2), NEW k \in Nat
    PROVE  C!TwistMul(a, k) \in Point(Fp2)
<1> DEFINE base == [t |-> C!ZeroTwist, sum |-> C!ZeroTwist]
           bits == <<0>> \o C!Bits(k)
           S == [t : Point(Fp2), sum : Point(Fp2)]
<1>1. C!TwistMul(a, k) = TwistMulLoop!FoldValues(a, base, bits)[DOMAIN bits].sum
  BY DEF C!TwistMul, C!FoldLeft, C!MapThenFoldSet, C!Max, TwistMulLoop!FoldValues, TwistMulStep
<1>2. PICK len \in Nat : bits \in [1 .. len -> {0, 1}]
  <2>1. C!Bits(k) \in Seq({0, 1})
    BY BitsIs
  <2>2. bits \in Seq({0, 1})
    BY <2>1
  <2> HIDE DEF bits
  <2> QED
    BY <2>2
<1> HIDE DEF bits
<1>3. base \in S
  BY TwistConstants
<1> HIDE DEF base
<1>4. \A b \in {0, 1}, s \in S : TwistMulStep(a, b, s) \in S
  <2>1. ASSUME NEW b \in {0, 1}, NEW s \in S PROVE TwistMulStep(a, b, s) \in S
    <3> DEFINE t == C!TwistDouble(s.t, s.sum)
    <3>1. s.t \in Point(Fp2) /\ s.sum \in Point(Fp2)
      OBVIOUS
    <3>2. t \in Point(Fp2)
      BY <3>1, PointIsReceiver, TwistOps
    <3> HIDE DEF t
    <3>3. C!TwistAdd(s.sum, t, a) \in Point(Fp2)
      BY <3>1, <3>2, PointIsReceiver, TwistOps
    <3>4. TwistMulStep(a, b, s) =
            [t |-> t, sum |-> IF b = 1 THEN C!TwistAdd(s.sum, t, a) ELSE t]
      BY DEF TwistMulStep, t
    <3> QED
      BY <3>2, <3>3, <3>4
  <2> QED
    BY <2>1
<1> HIDE DEF S
<1>5. \A seq \in [1 .. len -> {0, 1}] :
          TwistMulLoop!FoldValues(a, base, seq)[DOMAIN seq] \in S
  BY <1>3, <1>4, TwistMulLoop!FoldClosed
<1> QED
  BY <1>1, <1>2, <1>5 DEF S

----------------------------------------------------------------------------
(* The pairing.                                                             *)

\* The operations of GF(p^2) on its elements, and the scaling.
LEMMA Closed2Ops ==
    ASSUME NEW F, Closed2(F)
    PROVE  /\ \A a, b \in Fp2 : F.add[a][b] \in Fp2 /\ F.sub[a][b] \in Fp2 /\ F.mult[a][b] \in Fp2
           /\ \A a \in Fp2 : F.sqr[a] \in Fp2 /\ F.neg[a] \in Fp2
           /\ \A a \in Fp2, b \in Fp : F.scale[a][b] \in Fp2
  BY DEF Closed2, Closed

Line == [a : Fp2, b : Fp2, c : Fp2, r : Point(Fp2)]

\* The line through two points,
LEMMA LineAddIn ==
    ASSUME NEW F, Closed2(F), NEW r \in Point(Fp2), NEW p \in Point(Fp2),
           NEW q \in Point(Fp), NEW rsq \in Fp2
    PROVE  C!lineFunctionAdd(F, r, p, q, rsq) \in Line
<1> DEFINE dbl(v) == F.add[v][v]
           D == F.mult[F.sub[F.sub[F.sqr[F.add[p.y][r.z]]][rsq]][r.t]][r.t]
           H == F.sub[F.mult[p.x][r.t]][r.x]
           I == F.sqr[H]
           E == dbl(dbl(I))
           J == F.mult[H][E]
           L1 == F.sub[F.sub[D][r.y]][r.y]
           V == F.mult[r.x][E]
           x == F.sub[F.sub[F.sub[F.sqr[L1]][J]][V]][V]
           z == F.sub[F.sub[F.sqr[F.add[r.z][H]]][r.t]][I]
           y == F.sub[F.mult[F.sub[V][x]][L1]][dbl(F.mult[r.y][J])]
           t == F.sqr[z]
           e == F.sub[F.sub[F.sqr[F.add[p.y][z]]][rsq]][t]
           la == F.sub[dbl(F.mult[L1][p.x])][e]
           lb == dbl(F.scale[F.neg[L1]][q.x])
           lc == dbl(F.scale[z][q.y])
<1>1. C!lineFunctionAdd(F, r, p, q, rsq) =
        [a |-> la, b |-> lb, c |-> lc, r |-> [x |-> x, y |-> y, z |-> z, t |-> t]]
  BY DEF C!lineFunctionAdd
<1>2. /\ r.x \in Fp2 /\ r.y \in Fp2 /\ r.z \in Fp2 /\ r.t \in Fp2
      /\ p.x \in Fp2 /\ p.y \in Fp2 /\ q.x \in Fp /\ q.y \in Fp
  BY DEF Point
<1>3. D \in Fp2
  <2>1. F.add[p.y][r.z] \in Fp2
    BY <1>2, Closed2Ops
  <2>2. F.sqr[F.add[p.y][r.z]] \in Fp2
    BY <2>1, Closed2Ops
  <2>3. F.sub[F.sqr[F.add[p.y][r.z]]][rsq] \in Fp2
    BY <2>2, Closed2Ops
  <2>4. F.sub[F.sub[F.sqr[F.add[p.y][r.z]]][rsq]][r.t] \in Fp2
    BY Zenon, <1>2, <2>3, Closed2Ops
  <2> QED
    BY Zenon, <1>2, <2>4, Closed2Ops
<1> HIDE DEF D
<1>4. H \in Fp2
  BY <1>2, Closed2Ops
<1> HIDE DEF H
<1>5. I \in Fp2
  BY <1>4, Closed2Ops
<1> HIDE DEF I
<1>6. E \in Fp2
  BY <1>5, Closed2Ops
<1> HIDE DEF E
<1>7. J \in Fp2 /\ V \in Fp2
  BY <1>2, <1>4, <1>6, Closed2Ops
<1> HIDE DEF J, V
<1>8. L1 \in Fp2
  BY <1>2, <1>3, Closed2Ops
<1> HIDE DEF L1
<1>9. x \in Fp2
  BY <1>7, <1>8, Closed2Ops
<1> HIDE DEF x
<1>10. z \in Fp2
  <2>1. F.sqr[F.add[r.z][H]] \in Fp2
    BY <1>2, <1>4, Closed2Ops
  <2>2. F.sub[F.sqr[F.add[r.z][H]]][r.t] \in Fp2
    BY <1>2, <2>1, Closed2Ops
  <2> QED
    BY Zenon, <1>5, <2>2, Closed2Ops
<1> HIDE DEF z
<1>11. y \in Fp2
  <2>1. F.mult[F.sub[V][x]][L1] \in Fp2
    BY <1>7, <1>8, <1>9, Closed2Ops
  <2>2. dbl(F.mult[r.y][J]) \in Fp2
    BY <1>2, <1>7, Closed2Ops
  <2> QED
    BY Zenon, <2>1, <2>2, Closed2Ops
<1> HIDE DEF y
<1>12. t \in Fp2
  BY <1>10, Closed2Ops
<1> HIDE DEF t
<1>13. e \in Fp2
  <2>1. F.sqr[F.add[p.y][z]] \in Fp2
    BY <1>2, <1>10, Closed2Ops
  <2>2. F.sub[F.sqr[F.add[p.y][z]]][rsq] \in Fp2
    BY <2>1, Closed2Ops
  <2> QED
    BY Zenon, <1>12, <2>2, Closed2Ops
<1> HIDE DEF e
<1>14. la \in Fp2
  BY Zenon, <1>2, <1>8, <1>13, Closed2Ops
<1>15. lb \in Fp2
  <2>1. F.scale[F.neg[L1]][q.x] \in Fp2
    BY <1>2, <1>8, Closed2Ops
  <2> QED
    BY <2>1, Closed2Ops
<1>16. lc \in Fp2
  <2>1. F.scale[z][q.y] \in Fp2
    BY <1>2, <1>10, Closed2Ops
  <2> QED
    BY <2>1, Closed2Ops
<1> HIDE DEF la, lb, lc
<1>17. [x |-> x, y |-> y, z |-> z, t |-> t] \in Point(Fp2)
  BY <1>9, <1>10, <1>11, <1>12 DEF Point
<1> QED
  BY <1>1, <1>14, <1>15, <1>16, <1>17 DEF Line

\* the tangent in a point,
LEMMA LineDoubleIn ==
    ASSUME NEW F, Closed2(F), NEW r \in Point(Fp2), NEW q \in Point(Fp)
    PROVE  C!lineFunctionDouble(F, r, q) \in Line
<1> DEFINE dbl(v) == F.add[v][v]
           A == F.sqr[r.x]
           B == F.sqr[r.y]
           CC == F.sqr[B]
           D == dbl(F.sub[F.sub[F.sqr[F.add[r.x][B]]][A]][CC])
           E == F.add[dbl(A)][A]
           GG == F.sqr[E]
           x == F.sub[F.sub[GG][D]][D]
           z == F.sub[F.sub[F.sqr[F.add[r.y][r.z]]][B]][r.t]
           y == F.sub[F.mult[F.sub[D][x]][E]][dbl(dbl(dbl(CC)))]
           t == F.sqr[z]
           la == F.sub[F.sub[F.sub[F.sqr[F.add[r.x][E]]][A]][GG]][dbl(dbl(B))]
           lb == F.scale[F.neg[dbl(F.mult[E][r.t])]][q.x]
           lc == F.scale[dbl(F.mult[z][r.t])][q.y]
<1>1. C!lineFunctionDouble(F, r, q) =
        [a |-> la, b |-> lb, c |-> lc, r |-> [x |-> x, y |-> y, z |-> z, t |-> t]]
  BY DEF C!lineFunctionDouble
<1>2. /\ r.x \in Fp2 /\ r.y \in Fp2 /\ r.z \in Fp2 /\ r.t \in Fp2
      /\ q.x \in Fp /\ q.y \in Fp
  BY DEF Point
<1>3. A \in Fp2 /\ B \in Fp2
  BY <1>2, Closed2Ops
<1> HIDE DEF A, B
<1>4. CC \in Fp2 /\ E \in Fp2
  BY <1>3, Closed2Ops
<1> HIDE DEF CC, E
<1>5. D \in Fp2
  <2>1. F.sqr[F.add[r.x][B]] \in Fp2
    BY <1>2, <1>3, Closed2Ops
  <2>2. F.sub[F.sqr[F.add[r.x][B]]][A] \in Fp2
    BY <1>3, <2>1, Closed2Ops
  <2>3. F.sub[F.sub[F.sqr[F.add[r.x][B]]][A]][CC] \in Fp2
    BY Zenon, <1>4, <2>2, Closed2Ops
  <2> QED
    BY Zenon, <2>3, Closed2Ops
<1> HIDE DEF D
<1>6. GG \in Fp2
  BY <1>4, Closed2Ops
<1> HIDE DEF GG
<1>7. x \in Fp2
  BY <1>5, <1>6, Closed2Ops
<1> HIDE DEF x
<1>8. z \in Fp2
  <2>1. F.sqr[F.add[r.y][r.z]] \in Fp2
    BY <1>2, Closed2Ops
  <2>2. F.sub[F.sqr[F.add[r.y][r.z]]][B] \in Fp2
    BY <1>3, <2>1, Closed2Ops
  <2> QED
    BY Zenon, <1>2, <2>2, Closed2Ops
<1> HIDE DEF z
<1>9. y \in Fp2
  <2>1. F.mult[F.sub[D][x]][E] \in Fp2
    BY <1>4, <1>5, <1>7, Closed2Ops
  <2>2. dbl(CC) \in Fp2
    BY <1>4, Closed2Ops
  <2>3. dbl(dbl(CC)) \in Fp2
    BY <2>2, Closed2Ops
  <2>4. dbl(dbl(dbl(CC))) \in Fp2
    BY <2>3, Closed2Ops
  <2> QED
    BY Zenon, <2>1, <2>4, Closed2Ops
<1>10. t \in Fp2
  BY <1>8, Closed2Ops
<1> HIDE DEF y, t
<1>11. la \in Fp2
  <2>1. F.sqr[F.add[r.x][E]] \in Fp2
    BY <1>2, <1>4, Closed2Ops
  <2>2. F.sub[F.sqr[F.add[r.x][E]]][A] \in Fp2
    BY <1>3, <2>1, Closed2Ops
  <2>3. F.sub[F.sub[F.sqr[F.add[r.x][E]]][A]][GG] \in Fp2
    BY Zenon, <1>6, <2>2, Closed2Ops
  <2>4. dbl(dbl(B)) \in Fp2
    BY <1>3, Closed2Ops
  <2> QED
    BY Zenon, <2>3, <2>4, Closed2Ops
<1>12. lb \in Fp2
  <2>1. dbl(F.mult[E][r.t]) \in Fp2
    BY <1>2, <1>4, Closed2Ops
  <2>2. F.neg[dbl(F.mult[E][r.t])] \in Fp2
    BY <2>1, Closed2Ops
  <2> QED
    BY Zenon, <1>2, <2>2, Closed2Ops
<1>13. lc \in Fp2
  <2>1. dbl(F.mult[z][r.t]) \in Fp2
    BY <1>2, <1>8, Closed2Ops
  <2> QED
    BY Zenon, <1>2, <2>1, Closed2Ops
<1> HIDE DEF la, lb, lc
<1>14. [x |-> x, y |-> y, z |-> z, t |-> t] \in Point(Fp2)
  BY <1>7, <1>8, <1>9, <1>10 DEF Point
<1> QED
  BY <1>1, <1>11, <1>12, <1>13, <1>14 DEF Line

\* and the product with a line keep coefficients reduced.
LEMMA MulLineIn ==
    ASSUME NEW F, Closed6(F), NEW ret \in Fp12, NEW line \in Line
    PROVE  C!mulLine(F, ret, line) \in Fp12
<1> DEFINE sparse(z) == [x |-> C!Zero2, y |-> line.a, z |-> z]
           a2 == F.mult[sparse(line.b)][ret.x]
           t3 == F.scale[ret.y][line.c]
           xy == F.mult[F.add[ret.x][ret.y]][sparse(F.base.add[line.b][line.c])]
<1>1. C!mulLine(F, ret, line) =
        [x |-> F.sub[F.sub[xy][a2]][t3], y |-> F.add[t3][F.mulTau[a2]]]
  BY DEF C!mulLine
<1>2. ret.x \in Fp6 /\ ret.y \in Fp6 /\ line.a \in Fp2 /\ line.b \in Fp2 /\ line.c \in Fp2
  BY DEF Fp12, Line
<1>3. sparse(line.b) \in Fp6
  BY <1>2, Ops2 DEF Fp6
<1>4. sparse(F.base.add[line.b][line.c]) \in Fp6
  <2>1. F.base.add[line.b][line.c] \in Fp2
    BY <1>2, Closed2Ops DEF Closed6
  <2> QED
    BY <1>2, <2>1, Ops2 DEF Fp6
<1> HIDE DEF sparse
<1>5. a2 \in Fp6 /\ t3 \in Fp6
  BY <1>2, <1>3 DEF Closed6
<1>6. xy \in Fp6
  <2>1. F.add[ret.x][ret.y] \in Fp6
    BY <1>2 DEF Closed6
  <2> QED
    BY Zenon, <1>4, <2>1 DEF Closed6
<1> HIDE DEF a2, t3, xy
<1>7. F.sub[F.sub[xy][a2]][t3] \in Fp6
  BY <1>5, <1>6 DEF Closed6
<1>8. F.add[t3][F.mulTau[a2]] \in Fp6
  BY <1>5 DEF Closed6
<1> QED
  BY <1>1, <1>7, <1>8 DEF Fp12

\* One digit of the loop doubles the multiple, and a digit that is not zero
\* adds the point or its negative.
MillerState == [ret : Fp12, r : Point(Fp2)]

Along(F, s, line) == [ret |-> C!mulLine(F.base, s.ret, line), r |-> line.r]
LoopAdds(p, s, point, pointSq) ==
    Along(p.F, s, C!lineFunctionAdd(p.F.base.base, s.r, point, p.q, pointSq))
LoopDoubles(p, s) ==
    Along(p.F, [s EXCEPT !.ret = p.F.sqr[@]], C!lineFunctionDouble(p.F.base.base, s.r, p.q))

LoopStep(p, digit, s) ==
    IF digit = 0 THEN LoopDoubles(p, s)
    ELSE LoopAdds(p, LoopDoubles(p, s), IF digit = 1 THEN p.a ELSE p.minusA, p.rsq)
DigitLoop == INSTANCE NatRecursion WITH Step <- LoopStep

EndStep(p, point, s) == LoopAdds(p, s, point, p.F.base.base.sqr[point.y])
EndLoop == INSTANCE NatRecursion WITH Step <- EndStep

\* One step of the loop along a line,
LEMMA AlongIn ==
    ASSUME NEW F, Closed12(F), NEW s \in MillerState, NEW line \in Line
    PROVE  Along(F, s, line) \in MillerState
<1>1. C!mulLine(F.base, s.ret, line) \in Fp12
  BY MulLineIn DEF Closed12, MillerState
<1>2. line.r \in Point(Fp2)
  BY DEF Line
<1> QED
  BY <1>1, <1>2 DEF Along, MillerState

\* with an addition
LEMMA LoopAddsIn ==
    ASSUME NEW p, Closed12(p.F), p.q \in Point(Fp), NEW s \in MillerState,
           NEW point \in Point(Fp2), NEW pointSq \in Fp2
    PROVE  LoopAdds(p, s, point, pointSq) \in MillerState
<1>1. s.r \in Point(Fp2) /\ Closed2(p.F.base.base)
  BY DEF MillerState, Closed12, Closed6
<1>2. C!lineFunctionAdd(p.F.base.base, s.r, point, p.q, pointSq) \in Line
  BY <1>1, LineAddIn
<1> QED
  BY <1>2, AlongIn DEF LoopAdds

\* or with a doubling.
LEMMA LoopDoublesIn ==
    ASSUME NEW p, Closed12(p.F), p.q \in Point(Fp), NEW s \in MillerState
    PROVE  LoopDoubles(p, s) \in MillerState
<1>1. s.r \in Point(Fp2) /\ Closed2(p.F.base.base)
  BY DEF MillerState, Closed12, Closed6
<1>2. C!lineFunctionDouble(p.F.base.base, s.r, p.q) \in Line
  BY <1>1, LineDoubleIn
<1>3. [s EXCEPT !.ret = p.F.sqr[@]] \in MillerState
  BY DEF MillerState, Closed12
<1> QED
  BY <1>2, <1>3, AlongIn DEF LoopDoubles

\* The points of the last two lines.
Frobenius1(a) == [x |-> C!Mul2(C!Conj2(a.x), C!xiToPMinus1Over3),
                  y |-> C!Mul2(C!Conj2(a.y), C!xiToPMinus1Over2),
                  z |-> C!One2, t |-> C!One2]
MinusFrobenius2(a) == [x |-> C!MulScalar2(a.x, C!xiToPSquaredMinus1Over3),
                       y |-> a.y, z |-> C!One2, t |-> C!One2]
LoopDigits == Tail(C!Reverse(SixUPlus2NAF))
Looped(p) ==
    DigitLoop!FoldValues(p, [ret |-> C!One12, r |-> p.a], LoopDigits)[DOMAIN LoopDigits]
LoopEnds(a) == <<Frobenius1(a), MinusFrobenius2(a)>>

\* The loop of the model as a fold over digits, and over the last two points.
LEMMA LoopOfIs ==
    ASSUME NEW p
    PROVE  C!loopOf(p.F, p.a, p.minusA, p.rsq, p.q)
             = EndLoop!FoldValues(p, Looped(p), LoopEnds(p.a))[DOMAIN LoopEnds(p.a)].ret
  BY DEF C!loopOf, C!sixuPlus2NAF, C!FoldLeft, C!MapThenFoldSet, C!Max, EndLoop!FoldValues,
     DigitLoop!FoldValues, EndStep, LoopStep, LoopAdds, LoopDoubles, Along,
     Looped, LoopEnds, LoopDigits, Frobenius1, MinusFrobenius2

\* The Miller loop from reduced affine points is reduced,
LEMMA LoopOfIn ==
    ASSUME NEW F, Closed12(F), NEW a \in Point(Fp2), NEW minusA \in Point(Fp2),
           NEW rsq \in Fp2, NEW q \in Point(Fp)
    PROVE  C!loopOf(F, a, minusA, rsq, q) \in Fp12
<1> DEFINE p == [F |-> F, a |-> a, minusA |-> minusA, rsq |-> rsq, q |-> q]
           ends == LoopEnds(a)
           base == [ret |-> C!One12, r |-> a]
           D == {-1, 0, 1}
<1>1. /\ p.F = F /\ p.q = q /\ p.a = a /\ p.minusA = minusA /\ p.rsq = rsq
  OBVIOUS
<1> HIDE DEF p
<1>2. C!loopOf(F, a, minusA, rsq, q) = EndLoop!FoldValues(p, Looped(p), ends)[DOMAIN ends].ret
  BY <1>1, LoopOfIs
<1>3. PICK len \in Nat : LoopDigits \in [1 .. len -> D]
  <2>1. SixUPlus2NAF \in Seq({-1, 0, 1}) /\ SixUPlus2NAF # <<>>
    BY ParamsAssumption
  <2>2. C!Reverse(SixUPlus2NAF) \in Seq({-1, 0, 1}) /\ Len(C!Reverse(SixUPlus2NAF)) > 0
    <3>1. Len(SixUPlus2NAF) \in Nat \ {0}
          /\ SixUPlus2NAF \in [1 .. Len(SixUPlus2NAF) -> {-1, 0, 1}]
      BY <2>1
    <3>2. C!Reverse(SixUPlus2NAF) \in [1 .. Len(SixUPlus2NAF) -> {-1, 0, 1}]
      BY <3>1, ReverseIs
    <3> QED
      BY <3>1, <3>2
  <2>3. LoopDigits \in Seq({-1, 0, 1})
    BY <2>2 DEF LoopDigits
  <2> QED
    BY <2>3
<1>4. base \in MillerState
  BY One12In DEF MillerState
<1> HIDE DEF base
<1>5. \A d \in D, s \in MillerState : LoopStep(p, d, s) \in MillerState
  <2>1. ASSUME NEW d \in D, NEW s \in MillerState PROVE LoopStep(p, d, s) \in MillerState
    <3>1. LoopDoubles(p, s) \in MillerState
      BY <1>1, LoopDoublesIn
    <3>2. (IF d = 1 THEN p.a ELSE p.minusA) \in Point(Fp2)
      BY <1>1
    <3>3. LoopAdds(p, LoopDoubles(p, s), IF d = 1 THEN p.a ELSE p.minusA, p.rsq) \in MillerState
      BY <1>1, <3>1, <3>2, LoopAddsIn
    <3> QED
      BY <3>1, <3>3 DEF LoopStep
  <2> QED
    BY <2>1
<1> HIDE DEF D
<1>6. Looped(p) \in MillerState
  <2>1. \A seq \in [1 .. len -> D] :
            DigitLoop!FoldValues(p, base, seq)[DOMAIN seq] \in MillerState
    BY <1>4, <1>5, DigitLoop!FoldClosed
  <2>2. Looped(p) = DigitLoop!FoldValues(p, base, LoopDigits)[DOMAIN LoopDigits]
    BY <1>1 DEF Looped, base
  <2> QED
    BY <1>3, <2>1, <2>2
<1>7. \A point \in Point(Fp2), s \in MillerState : EndStep(p, point, s) \in MillerState
  <2>1. ASSUME NEW point \in Point(Fp2), NEW s \in MillerState
        PROVE  EndStep(p, point, s) \in MillerState
    <3>1. Closed2(p.F.base.base) /\ point.y \in Fp2
      BY <1>1 DEF Closed12, Closed6, Point
    <3>2. p.F.base.base.sqr[point.y] \in Fp2
      BY <3>1, Closed2Ops
    <3> QED
      BY <1>1, <3>2, LoopAddsIn DEF EndStep
  <2> QED
    BY <2>1
<1>8. PICK n \in Nat : ends \in [1 .. n -> Point(Fp2)]
  <2>1. Frobenius1(a) \in Point(Fp2) /\ MinusFrobenius2(a) \in Point(Fp2)
    BY Ops2, XiConstants DEF Point, Frobenius1, MinusFrobenius2
  <2>2. ends \in [1 .. 2 -> Point(Fp2)]
    BY <2>1 DEF LoopEnds
  <2> QED
    BY <2>2
<1> HIDE DEF ends
<1>9. EndLoop!FoldValues(p, Looped(p), ends)[DOMAIN ends] \in MillerState
  <2>1. \A seq \in [1 .. n -> Point(Fp2)] :
            EndLoop!FoldValues(p, Looped(p), seq)[DOMAIN seq] \in MillerState
    BY <1>6, <1>7, EndLoop!FoldClosed
  <2> QED
    BY <1>8, <2>1
<1> QED
  BY <1>2, <1>9 DEF MillerState

\* and so it is from any reduced points.
LEMMA MillerIn ==
    ASSUME NEW F, Closed12(F), NEW q \in Point(Fp2), NEW p \in Point(Fp)
    PROVE  C!miller(F, q, p) \in Fp12
<1> DEFINE a == C!TwistAffine(q)
           b == C!CurveAffine(p)
<1>1. a \in Point(Fp2) /\ b \in Point(Fp)
  BY PointIsReceiver, TwistOps, CurveOps
<1>2. C!miller(F, q, p) = C!loopOf(F, a, C!TwistNeg(a), C!Square2(a.y), b)
  BY DEF C!miller
<1> HIDE DEF a, b
<1>3. C!TwistNeg(a) \in Point(Fp2) /\ C!Square2(a.y) \in Fp2
  BY <1>1, PointIsReceiver, TwistOps, Ops2 DEF Point
<1> QED
  BY <1>1, <1>2, <1>3, LoopOfIn

PowerOfUStep(F, i, f) == Append(f, C!Exp12(F, C!Last(f), U))
PowerOfULoop == INSTANCE NatRecursion WITH Step <- PowerOfUStep

\* The three powers in the hard part of the exponent.
LEMMA PowersOfUIn ==
    ASSUME NEW F, Closed12(F), NEW t \in Fp12
    PROVE  \A i \in 1 .. 4 : C!powersOfU(F, t)[i] \in Fp12
<1> DEFINE seq == <<1, 2, 3>>
           L == PowerOfULoop!FoldValues(F, <<t>>, seq)
<1>1. C!powersOfU(F, t) = L[DOMAIN seq]
  BY DEF C!powersOfU, C!FoldLeft, C!MapThenFoldSet, C!Max, PowerOfULoop!FoldValues, PowerOfUStep
<1>2. PICK n \in Nat : n = 3
  OBVIOUS
<1>3. DOMAIN seq = 1 .. n
  BY <1>2
<1> DEFINE first == <<t>>
<1> HIDE DEF first
<1>4. /\ L[1 .. 0] = first
      /\ \A k \in 0 .. n - 1 : L[1 .. k + 1] = PowerOfUStep(F, seq[k + 1], L[1 .. k])
  <2>1. \A s : DOMAIN s = 1 .. n =>
          /\ PowerOfULoop!FoldValues(F, first, s)[1 .. 0] = first
          /\ \A k \in 0 .. n - 1 : PowerOfULoop!FoldValues(F, first, s)[1 .. k + 1]
                 = PowerOfUStep(F, s[k + 1], PowerOfULoop!FoldValues(F, first, s)[1 .. k])
    BY PowerOfULoop!FoldUnfolds
  <2>2. L = PowerOfULoop!FoldValues(F, first, seq)
    BY DEF first
  <2> HIDE DEF seq, L
  <2> QED
    BY <1>3, <2>1, <2>2
<1> DEFINE v(k) == L[1 .. k]
<1>5. /\ v(0) = <<t>>
      /\ v(1) = PowerOfUStep(F, 1, v(0))
      /\ v(2) = PowerOfUStep(F, 2, v(1))
      /\ v(3) = PowerOfUStep(F, 3, v(2))
  <2>1. 0 \in 0 .. n - 1 /\ 1 \in 0 .. n - 1 /\ 2 \in 0 .. n - 1
    BY <1>2
  <2>2. seq[1] = 1 /\ seq[2] = 2 /\ seq[3] = 3
    OBVIOUS
  <2>3. v(0) = first /\ \A k \in 0 .. n - 1 : v(k + 1) = PowerOfUStep(F, seq[k + 1], v(k))
    <3> HIDE DEF seq, L
    <3> QED
      BY <1>4
  <2> HIDE DEF seq, v
  <2>4. /\ v(0 + 1) = PowerOfUStep(F, seq[0 + 1], v(0))
        /\ v(1 + 1) = PowerOfUStep(F, seq[1 + 1], v(1))
        /\ v(2 + 1) = PowerOfUStep(F, seq[2 + 1], v(2))
    BY <2>1, <2>3
  <2>5. 0 + 1 = 1 /\ 1 + 1 = 2 /\ 2 + 1 = 3
    OBVIOUS
  <2> QED
    BY Zenon, <2>2, <2>3, <2>4, <2>5 DEF first
<1>6. C!powersOfU(F, t) = v(3)
  BY <1>1, <1>2, <1>3
<1> HIDE DEF v
<1>7. ASSUME NEW f \in Seq(Fp12), Len(f) > 0, NEW i
      PROVE  PowerOfUStep(F, i, f) \in Seq(Fp12) /\ Len(PowerOfUStep(F, i, f)) = Len(f) + 1
  <2>1. C!Last(f) \in Fp12 /\ U \in Nat
    BY <1>7, ParamsAssumption DEF C!Last
  <2>2. C!Exp12(F, C!Last(f), U) \in Fp12
    BY <2>1, Exp12In
  <2> QED
    BY <2>2 DEF PowerOfUStep
<1>8. v(0) \in Seq(Fp12) /\ Len(v(0)) = 1
  <2>1. <<t>> \in Seq(Fp12) /\ Len(<<t>>) = 1
    OBVIOUS
  <2> QED
    BY <1>5, <2>1
<1> DEFINE Is(f, k) == f \in Seq(Fp12) /\ Len(f) = k
<1>9. ASSUME NEW f, NEW i, NEW k \in Nat \ {0}, Is(f, k)
      PROVE  Is(PowerOfUStep(F, i, f), k + 1)
  BY <1>7, <1>9
<1>10. Is(v(0), 1)
  BY <1>8
<1> HIDE DEF Is
<1>11. \A f, i : Is(f, 1) => Is(PowerOfUStep(F, i, f), 1 + 1)
  BY <1>9
<1>12. \A f, i : Is(f, 2) => Is(PowerOfUStep(F, i, f), 2 + 1)
  BY <1>9
<1>13. \A f, i : Is(f, 3) => Is(PowerOfUStep(F, i, f), 3 + 1)
  BY <1>9
<1>14. Is(v(1), 2)
  BY <1>5, <1>10, <1>11
<1>15. Is(v(2), 3)
  BY <1>5, <1>12, <1>14
<1>16. Is(v(3), 4)
  BY <1>5, <1>13, <1>15
<1> QED
  BY <1>6, <1>16 DEF Is

\* The final exponentiation of an element is reduced.
LEMMA FinalExponentiationIn ==
    ASSUME NEW F, Closed12(F), NEW in \in Fp12
    PROVE  C!finalExponentiation(F, in) \in Fp12
<1> DEFINE t1 == C!easyPart(F, in)
           f == C!powersOfU(F, t1)
<1>1. t1 \in Fp12
  <2> DEFINE inv == F.mult[F.conj[in]][F.inv[in]]
  <2>1. inv \in Fp12
    BY DEF Closed12
  <2>2. t1 = F.mult[inv][F.frobeniusP2[inv]]
    BY DEF C!easyPart
  <2> HIDE DEF inv, t1
  <2> QED
    BY <2>1, <2>2 DEF Closed12
<1>2. C!finalExponentiation(F, in) = C!hardPart(F, f)
  BY DEF C!finalExponentiation
<1> HIDE DEF t1
<1>3. f[1] \in Fp12 /\ f[2] \in Fp12 /\ f[3] \in Fp12 /\ f[4] \in Fp12
  BY <1>1, PowersOfUIn
<1> HIDE DEF f
<1> DEFINE fp == F.frobenius[f[1]]
           fp2 == F.frobeniusP2[f[1]]
           y0 == F.mult[F.mult[fp][fp2]][F.frobenius[fp2]]
           y1 == F.conj[f[1]]
           y2 == F.frobeniusP2[f[3]]
           y3 == F.conj[F.frobenius[f[2]]]
           y4 == F.conj[F.mult[f[2]][F.frobenius[f[3]]]]
           y5 == F.conj[f[3]]
           y6 == F.conj[F.mult[f[4]][F.frobenius[f[4]]]]
           y456 == F.mult[F.mult[F.sqr[y6]][y4]][y5]
           y2456 == F.mult[y456][y2]
           y35 == F.mult[y3][y5]
           y3456 == F.sqr[F.mult[y35][y456]]
           t == F.sqr[F.mult[y3456][y2456]]
<1>4. C!hardPart(F, f) = F.mult[F.sqr[F.mult[t][y1]]][F.mult[t][y0]]
  BY DEF C!hardPart
<1>5. fp \in Fp12 /\ fp2 \in Fp12 /\ y1 \in Fp12 /\ y2 \in Fp12 /\ y5 \in Fp12
  BY <1>3 DEF Closed12
<1>6. y3 \in Fp12
  BY <1>3 DEF Closed12
<1>7. y4 \in Fp12
  BY Zenon, <1>3 DEF Closed12
<1>8. y6 \in Fp12
  BY Zenon, <1>3 DEF Closed12
<1> HIDE DEF fp, fp2, y1, y2, y3, y4, y5, y6
<1>9. y0 \in Fp12
  BY Zenon, <1>5 DEF Closed12
<1>10. y456 \in Fp12
  BY Zenon, <1>5, <1>7, <1>8 DEF Closed12
<1> HIDE DEF y0, y456
<1>11. y2456 \in Fp12 /\ y35 \in Fp12
  BY <1>5, <1>6, <1>10 DEF Closed12
<1> HIDE DEF y2456, y35
<1>12. y3456 \in Fp12
  BY <1>10, <1>11 DEF Closed12
<1> HIDE DEF y3456
<1>13. t \in Fp12
  BY <1>11, <1>12 DEF Closed12
<1> HIDE DEF t
<1>14. F.mult[F.sqr[F.mult[t][y1]]][F.mult[t][y0]] \in Fp12
  BY Zenon, <1>5, <1>9, <1>13 DEF Closed12
<1> QED
  BY <1>2, <1>4, <1>14

\* The pairing of reduced points, infinity among them, is reduced, for every
\* number of digits of 6u+2 (optate.go:263).
THEOREM OptimalAteIn ==
    ASSUME NEW F, Closed12(F), NEW a \in Point(Fp2), NEW b \in Point(Fp)
    PROVE  C!optimalAte(F, a, b) \in Fp12
  BY One12In, MillerIn, FinalExponentiationIn DEF C!optimalAte

----------------------------------------------------------------------------
(* The wire format.                                                         *)

Byte == 0 .. ByteBase - 1

\* A coordinate is sent as so many bytes,
LEMMA FixedBytesIs ==
    ASSUME NEW n \in Int
    PROVE  FixedBytes(n) \in Seq(Byte) /\ Len(FixedBytes(n)) = CoordBytes
<1>1. ByteBase \in Nat \ {0} /\ CoordBytes \in Nat
  BY ParamsAssumption
<1>2. ASSUME NEW i \in 1 .. CoordBytes
      PROVE  (n \div Power(ByteBase)[CoordBytes - i]) % ByteBase \in Byte
  <2>1. Power(ByteBase)[CoordBytes - i] \in Nat \ {0}
    <3>1. CoordBytes - i \in Nat
      BY <1>1
    <3> QED
      BY <3>1, Params
  <2>2. n \div Power(ByteBase)[CoordBytes - i] \in Int
    BY <2>1, ModRange
  <2> QED
    BY <1>1, <2>2, ModRange DEF Byte
<1>3. FixedBytes(n) \in [1 .. CoordBytes -> Byte]
  BY <1>2 DEF FixedBytes
<1> QED
  BY <1>1, <1>3

WireStep(p, n, m) == m \o FixedBytes(n)
WireLoop == INSTANCE NatRecursion WITH Step <- WireStep

\* and several of them one after the other.
LEMMA WireIs ==
    ASSUME NEW n \in Nat, NEW coords \in [1 .. n -> Int]
    PROVE  Wire(coords) \in Seq(Byte) /\ Len(Wire(coords)) = n * CoordBytes
<1> DEFINE F == WireLoop!FoldValues(0, << >>, coords)
           v(k) == F[1 .. k]
           Is(m, k) == m \in Seq(Byte) /\ Len(m) = k * CoordBytes
           S == {k \in Nat : k <= n => Is(v(k), k)}
<1>1. Wire(coords) = F[DOMAIN coords]
  BY DEF Wire, FoldLeft, MapThenFoldSet, Max, WireLoop!FoldValues, WireStep
<1>2. DOMAIN coords = 1 .. n
  OBVIOUS
<1>3. v(0) = << >> /\ \A k \in 0 .. n - 1 : v(k + 1) = WireStep(0, coords[k + 1], v(k))
  <2> DEFINE empty == << >>
  <2> HIDE DEF empty
  <2>1. /\ WireLoop!FoldValues(0, empty, coords)[1 .. 0] = empty
        /\ \A k \in 0 .. n - 1 : WireLoop!FoldValues(0, empty, coords)[1 .. k + 1]
              = WireStep(0, coords[k + 1], WireLoop!FoldValues(0, empty, coords)[1 .. k])
    BY <1>2, WireLoop!FoldUnfolds
  <2> QED
    BY <2>1 DEF empty
<1> HIDE DEF F, v
<1>4. CoordBytes \in Nat
  BY ParamsAssumption
<1>5. 0 \in S
  <2>1. << >> \in Seq(Byte) /\ Len(<< >>) = 0 * CoordBytes
    BY <1>4
  <2> QED
    BY <1>3, <2>1
<1>6. ASSUME NEW k \in Nat, k \in S PROVE k + 1 \in S
  <2>1. SUFFICES ASSUME k + 1 <= n PROVE Is(v(k + 1), k + 1)
    OBVIOUS
  <2>2. Is(v(k), k) /\ k \in 0 .. n - 1 /\ coords[k + 1] \in Int
    BY <1>6, <2>1
  <2>3. v(k + 1) = v(k) \o FixedBytes(coords[k + 1])
    BY <1>3, <2>2 DEF WireStep
  <2>4. FixedBytes(coords[k + 1]) \in Seq(Byte) /\ Len(FixedBytes(coords[k + 1])) = CoordBytes
    BY <2>2, FixedBytesIs
  <2>5. (k + 1) * CoordBytes = k * CoordBytes + CoordBytes
    BY <1>4
  <2>6. \A s, t \in Seq(Byte) : s \o t \in Seq(Byte) /\ Len(s \o t) = Len(s) + Len(t)
    OBVIOUS
  <2> QED
    BY <2>2, <2>3, <2>4, <2>5, <2>6
<1> HIDE DEF S, Is
<1>7. n \in S
  BY <1>5, <1>6, NatInduct
<1>8. Is(v(n), n)
  BY <1>7 DEF S
<1> QED
  BY <1>1, <1>2, <1>8 DEF Is, v

SetStep(p, b, n) == ByteBase * n + b
SetLoop == INSTANCE NatRecursion WITH Step <- SetStep

\* As many bytes hold as many numbers.
LEMMA SetBytesIs ==
    ASSUME NEW n \in Nat, NEW bytes \in [1 .. n -> Byte]
    PROVE  SetBytes(bytes) \in 0 .. Power(ByteBase)[n] - 1
<1> DEFINE F == SetLoop!FoldValues(0, 0, bytes)
           v(k) == F[1 .. k]
           S == {k \in Nat : k <= n => v(k) \in 0 .. Power(ByteBase)[k] - 1}
<1>1. SetBytes(bytes) = F[DOMAIN bytes]
  BY DEF SetBytes, FoldLeft, MapThenFoldSet, Max, SetLoop!FoldValues, SetStep
<1>2. DOMAIN bytes = 1 .. n
  OBVIOUS
<1>3. v(0) = 0 /\ \A k \in 0 .. n - 1 : v(k + 1) = SetStep(0, bytes[k + 1], v(k))
  BY <1>2, SetLoop!FoldUnfolds
<1> HIDE DEF F, v
<1>4. ByteBase \in Nat
  BY ParamsAssumption
<1>5. 0 \in S
  BY <1>3, <1>4, PowerUnfolds
<1>6. ASSUME NEW k \in Nat, k \in S PROVE k + 1 \in S
  <2>1. SUFFICES ASSUME k + 1 <= n PROVE v(k + 1) \in 0 .. Power(ByteBase)[k + 1] - 1
    OBVIOUS
  <2>2. v(k) \in 0 .. Power(ByteBase)[k] - 1 /\ k \in 0 .. n - 1 /\ bytes[k + 1] \in Byte
    BY <1>6, <2>1
  <2>3. v(k + 1) = ByteBase * v(k) + bytes[k + 1]
    BY <1>3, <2>2 DEF SetStep
  <2>4. Power(ByteBase)[k] \in Nat /\ Power(ByteBase)[k + 1] = ByteBase * Power(ByteBase)[k]
    BY <1>4, PowerUnfolds
  <2>5. \A base, x, y, b \in Nat :
            x <= y - 1 /\ b <= base - 1
            => base * x + b \in Nat /\ base * x + b <= base * y - 1
    OBVIOUS
  <2>6. /\ v(k) \in Nat /\ v(k) <= Power(ByteBase)[k] - 1
        /\ bytes[k + 1] \in Nat /\ bytes[k + 1] <= ByteBase - 1
    BY <1>4, <2>2, <2>4 DEF Byte
  <2>7. /\ ByteBase * v(k) + bytes[k + 1] \in Nat
        /\ ByteBase * v(k) + bytes[k + 1] <= ByteBase * Power(ByteBase)[k] - 1
    BY <1>4, <2>4, <2>5, <2>6
  <2>8. Power(ByteBase)[k + 1] \in Nat
    BY <1>4, PowerUnfolds
  <2> QED
    BY <2>3, <2>4, <2>7, <2>8
<1> HIDE DEF S
<1>7. n \in S
  BY <1>5, <1>6, NatInduct
<1> QED
  BY <1>1, <1>2, <1>7 DEF S, v

\* A coordinate of a long enough byte string is a word.
LEMMA CoordinateIs ==
    ASSUME NEW m \in Seq(Byte), NEW i \in Nat, (i + 1) * CoordBytes <= Len(m)
    PROVE  Coordinate(m, i) \in Word
<1> DEFINE first == i * CoordBytes + 1
           last == (i + 1) * CoordBytes
           s == SubSeq(m, first, last)
<1>1. CoordBytes \in Nat \ {0}
  BY ParamsAssumption
<1>2. i * CoordBytes \in Nat /\ last = i * CoordBytes + CoordBytes
  BY <1>1
<1>3. s \in [1 .. CoordBytes -> Byte]
  <2>1. first \in Nat \ {0} /\ last \in Nat /\ last <= Len(m) /\ last - first + 1 = CoordBytes
    BY <1>1, <1>2
  <2> HIDE DEF first, last
  <2>2. s = [j \in 1 .. (last - first + 1) |-> m[first + j - 1]]
    BY <2>1
  <2>3. \A j \in 1 .. CoordBytes : first + j - 1 \in 1 .. Len(m)
    BY <1>1, <2>1
  <2>4. \A j \in 1 .. CoordBytes : m[first + j - 1] \in Byte
    BY <2>3
  <2> QED
    BY <2>1, <2>2, <2>4
<1>4. Coordinate(m, i) = SetBytes(s)
  BY DEF Coordinate
<1> HIDE DEF s
<1>5. SetBytes(s) \in 0 .. Power(ByteBase)[CoordBytes] - 1
  BY <1>1, <1>3, SetBytesIs
<1> QED
  BY <1>4, <1>5 DEF Word, R

\* The wire format of the package is that of the program.
LEMMA SameWire ==
    /\ \A n : C!FixedBytes(n) = FixedBytes(n)
    /\ \A m, i : C!Coordinate(m, i) = Coordinate(m, i)
    /\ \A coords : C!Wire(coords) = Wire(coords)
<1>1. \A n : C!FixedBytes(n) = FixedBytes(n)
  BY DEF C!FixedBytes, FixedBytes, C!Power, Power
<1>2. \A s : C!SetBytes(s) = SetBytes(s)
  <2>1. ASSUME NEW s PROVE C!SetBytes(s) = SetBytes(s)
    <3>1. SetBytes(s) = SetLoop!FoldValues(0, 0, s)[DOMAIN s]
      BY DEF SetBytes, FoldLeft, MapThenFoldSet, Max, SetLoop!FoldValues, SetStep
    <3>2. C!SetBytes(s) = SetLoop!FoldValues(0, 0, s)[DOMAIN s]
      BY DEF C!SetBytes, C!FoldLeft, C!MapThenFoldSet, C!Max, SetLoop!FoldValues, SetStep
    <3> QED
      BY <3>1, <3>2
  <2> QED
    BY <2>1
<1>3. \A m, i : C!Coordinate(m, i) = Coordinate(m, i)
  BY <1>2 DEF C!Coordinate, Coordinate
<1>4. ASSUME NEW coords PROVE C!Wire(coords) = Wire(coords)
  <2>1. Wire(coords) = WireLoop!FoldValues(0, << >>, coords)[DOMAIN coords]
    BY DEF Wire, FoldLeft, MapThenFoldSet, Max, WireLoop!FoldValues, WireStep
  <2>2. C!Wire(coords) = WireLoop!FoldValues(0, << >>, coords)[DOMAIN coords]
    BY DEF C!Wire, C!FoldLeft, C!MapThenFoldSet, C!Max, WireLoop!FoldValues, WireStep,
       C!FixedBytes, FixedBytes, C!Power, Power
  <2> QED
    BY <2>1, <2>2
<1> QED
  BY <1>1, <1>3, <1>4

\* A set of natural numbers has a least element.
LEMMA LeastExists ==
    ASSUME NEW S, S \subseteq Nat, S # {}
    PROVE  \E x \in S : \A y \in S : x =< y
<1> DEFINE N == {n \in Nat : \A x \in S : ~(x <= n)}
<1>1. SUFFICES ASSUME \A x \in S : \E y \in S : ~(x =< y) PROVE FALSE
  OBVIOUS
<1>2. 0 \in N
  <2>1. 0 \notin S
    BY <1>1
  <2> QED
    BY <2>1
<1>3. ASSUME NEW n \in Nat, n \in N PROVE n + 1 \in N
  <2>1. n + 1 \notin S
    <3>1. SUFFICES ASSUME n + 1 \in S PROVE FALSE
      OBVIOUS
    <3>2. PICK y \in S : ~(n + 1 =< y)
      BY <1>1, <3>1
    <3>3. y <= n
      BY <3>2
    <3> QED
      BY <1>3, <3>3
  <2> QED
    BY <1>3, <2>1
<1> HIDE DEF N
<1>4. \A n \in Nat : n \in N
  BY <1>2, <1>3, NatInduct
<1>5. PICK x \in S : x \in Nat
  OBVIOUS
<1>6. \A z \in S : ~(z <= x)
  BY <1>4, <1>5 DEF N
<1>7. ~(x <= x)
  BY <1>6
<1> QED
  BY <1>5, <1>7

\* All coordinates are elements, or what was read of them are words.
LEMMA ReadIs ==
    ASSUME NEW m \in Seq(Byte), NEW n \in Nat, n * CoordBytes <= Len(m)
    PROVE  /\ C!Read(m, n).ok => C!Read(m, n).coords \in [1 .. n -> Fp]
           /\ \E l \in 0 .. n : C!Read(m, n).coords \in [1 .. l -> Word]
<1> DEFINE raw == [i \in 1 .. n |-> Coordinate(m, i - 1)]
           bad == {i \in 1 .. n : raw[i] >= P}
<1> DEFINE coords == IF bad = {} THEN raw ELSE SubSeq(raw, 1, C!Min(bad))
<1>1. (C!Read(m, n).ok <=> bad = {}) /\ C!Read(m, n).coords = coords
  <2>1. C!Read(m, n) = [ok |-> bad = {}, coords |-> coords]
    BY SameWire, SameParams DEF C!Read
  <2>2. C!Read(m, n).ok <=> bad = {}
    <3> DEFINE read == C!Read(m, n)
    <3>1. read = [ok |-> bad = {}, coords |-> coords]
      BY <2>1
    <3> HIDE DEF bad, coords, read
    <3>2. read.ok <=> bad = {}
      BY Zenon, <3>1
    <3> QED
      BY <3>2 DEF read
  <2>3. C!Read(m, n).coords = coords
    <3> HIDE DEF bad, coords
    <3> QED
      BY <2>1
  <2> QED
    BY <2>2, <2>3
<1>2. \A i \in 1 .. n : Coordinate(m, i - 1) \in Word
  <2>1. ASSUME NEW i \in 1 .. n PROVE Coordinate(m, i - 1) \in Word
    <3>1. i - 1 \in Nat /\ CoordBytes \in Nat /\ (i - 1) + 1 = i
      BY ParamsAssumption
    <3>2. \A x, y, c \in Nat : x <= y => x * c <= y * c
      OBVIOUS
    <3>3. i * CoordBytes <= n * CoordBytes /\ i * CoordBytes \in Nat /\ n * CoordBytes \in Nat
      BY <3>1, <3>2
    <3>4. ((i - 1) + 1) * CoordBytes <= Len(m)
      BY <3>1, <3>3
    <3> QED
      BY <3>1, <3>4, CoordinateIs
  <2> QED
    BY <2>1
<1>3. raw \in [1 .. n -> Word]
  BY <1>2
<1> HIDE DEF raw
<1>4. ASSUME bad = {} PROVE raw \in [1 .. n -> Fp]
  <2>1. ASSUME NEW i \in 1 .. n PROVE raw[i] \in Fp
    <3>1. raw[i] \in Word /\ ~(raw[i] >= P)
      BY <1>3, <1>4
    <3> QED
      BY <3>1, Params DEF Fp, Word
  <2> QED
    BY <1>3, <2>1
<1>5. ASSUME bad # {} PROVE \E l \in 0 .. n : SubSeq(raw, 1, C!Min(bad)) \in [1 .. l -> Word]
  <2>1. bad \subseteq 1 .. n /\ bad \subseteq Nat
    OBVIOUS
  <2> HIDE DEF bad
  <2>2. \E x \in bad : \A y \in bad : x =< y
    BY <1>5, <2>1, LeastExists
  <2>3. C!Min(bad) \in bad
    BY <2>2 DEF C!Min
  <2>4. PICK l \in 1 .. n : l = C!Min(bad)
    BY <2>1, <2>3
  <2>5. raw \in Seq(Word) /\ Len(raw) = n
    BY <1>3
  <2>6. SubSeq(raw, 1, l) = [i \in 1 .. l |-> raw[i]]
    BY <2>4, <2>5
  <2>7. SubSeq(raw, 1, l) \in [1 .. l -> Word]
    <3>1. \A i \in 1 .. l : raw[i] \in Word
      BY <1>3, <2>4
    <3> QED
      BY <2>6, <3>1
  <2> QED
    BY <2>4, <2>7
<1> HIDE DEF bad
<1>6. CASE bad = {}
  <2>1. C!Read(m, n).coords = raw
    BY <1>1, <1>6
  <2> QED
    BY <1>3, <1>4, <1>6, <2>1
<1>7. CASE bad # {}
  <2>1. ~C!Read(m, n).ok /\ C!Read(m, n).coords = SubSeq(raw, 1, C!Min(bad))
    BY <1>1, <1>7
  <2> QED
    BY <1>5, <1>7, <2>1
<1> QED
  BY <1>6, <1>7

\* What was read replaces the first of the old coordinates.
LEMMA OverwriteIs ==
    ASSUME NEW n \in Nat, NEW W, NEW l \in 0 .. n, NEW new \in [1 .. l -> W],
           NEW old \in [1 .. n -> W]
    PROVE  C!Overwrite(new, old) \in [1 .. n -> W]
  BY DEF C!Overwrite

\* All coordinates are replaced when all of them were read.
LEMMA OverwriteAll ==
    ASSUME NEW n \in Nat, NEW new, NEW old, DOMAIN old = 1 .. n, DOMAIN new = 1 .. n
    PROVE  C!Overwrite(new, old) = [i \in 1 .. n |-> new[i]]
  BY DEF C!Overwrite

----------------------------------------------------------------------------
(* The elements: reduced, or words that an Unmarshal without success left.  *)

Word2 == [x : Word, y : Word]
Word6 == [x : Word2, y : Word2, z : Word2]
Word12 == [x : Word6, y : Word6]

\* Reduced elements may be operands and receivers.
LEMMA ReducedIsLoose ==
    /\ Fp2 \subseteq Word2
    /\ Point(Fp) \subseteq Receiver(Word, Fp)
    /\ Point(Fp2) \subseteq Receiver(Word2, Fp2)
    /\ Fp12 \subseteq Word12
<1>1. Fp2 \subseteq Word2
  BY ElementIsWord DEF Fp2, Word2
<1>2. Fp12 \subseteq Word12
  BY <1>1 DEF Fp6, Fp12, Word6, Word12
<1> QED
  BY <1>1, <1>2, ElementIsWord DEF Point, Receiver

\* Montgomery's form of any word is an element.
LEMMA MontIn ==
    /\ \A a \in Word : C!MontEncode(a) \in Fp /\ C!MontDecode(a) \in Fp
    /\ \A a \in Fp2 : C!Decode2(a) \in Fp2
<1>1. \A a \in Word : C!MontEncode(a) \in Fp /\ C!MontDecode(a) \in Fp
  BY GfpMulIn, FieldConstants, ElementIsWord DEF C!MontEncode, C!MontDecode
<1> QED
  BY <1>1, ElementIsWord DEF C!Decode2, Fp2

\* Some bytes that hold at least one coordinate.
Sent(m) == m \in Seq(Byte) /\ Len(m) >= CoordBytes

\* What is sent holds a coordinate.
LEMMA WireSent ==
    ASSUME NEW n \in Nat \ {0}, NEW coords \in [1 .. n -> Int] PROVE Sent(C!Wire(coords))
<1>1. CoordBytes \in Nat
  BY ParamsAssumption
<1>2. n * CoordBytes >= CoordBytes
  BY <1>1
<1> QED
  BY <1>2, WireIs, SameWire DEF Sent

\* The coordinates of an element, in the order of the wire format.
LEMMA CoordsAre ==
    ASSUME NEW S
    PROVE  /\ \A a \in [x : S, y : S], b \in [x : S, y : S] :
                  C!Coords2(a) \o C!Coords2(b) \in [1 .. 4 -> S]
           /\ \A a : a.x \in [x : [x : S, y : S], y : [x : S, y : S], z : [x : S, y : S]]
                  /\ a.y \in [x : [x : S, y : S], y : [x : S, y : S], z : [x : S, y : S]]
                  => C!Coords12(a) \in [1 .. 12 -> S]
<1> DEFINE S2 == [x : S, y : S]
           S6 == [x : S2, y : S2, z : S2]
           Is(m, k) == m \in Seq(S) /\ Len(m) = k
<1>1. ASSUME NEW a \in S2 PROVE Is(C!Coords2(a), 2)
  BY DEF C!Coords2
<1>2. ASSUME NEW m, NEW w, NEW k \in Nat, NEW l \in Nat, Is(m, k), Is(w, l)
      PROVE  Is(m \o w, k + l)
  BY <1>2
<1>3. ASSUME NEW m, NEW k \in Nat, Is(m, k) PROVE m \in [1 .. k -> S]
  BY <1>3
<1> HIDE DEF Is, S2
<1>4. \A m, w : Is(m, 2) /\ Is(w, 2) => Is(m \o w, 2 + 2)
  BY <1>2
<1>5. \A m, w : Is(m, 4) /\ Is(w, 2) => Is(m \o w, 4 + 2)
  BY <1>2
<1>6. \A m, w : Is(m, 6) /\ Is(w, 6) => Is(m \o w, 6 + 6)
  BY <1>2
<1>7. \A a, b \in S2 : Is(C!Coords2(a) \o C!Coords2(b), 4)
  BY <1>1, <1>4
<1>8. \A a \in S6 : Is(C!Coords6(a), 6)
  BY <1>1, <1>5, <1>7 DEF C!Coords6
<1> HIDE DEF S6
<1>9. \A a : a.x \in S6 /\ a.y \in S6 => Is(C!Coords12(a), 12)
  BY <1>6, <1>8 DEF C!Coords12
<1>10. \A a, b \in S2 : C!Coords2(a) \o C!Coords2(b) \in [1 .. 4 -> S]
  BY <1>3, <1>7
<1>11. \A a : a.x \in S6 /\ a.y \in S6 => C!Coords12(a) \in [1 .. 12 -> S]
  BY <1>3, <1>9
<1> QED
  BY <1>10, <1>11 DEF S2, S6

\* Elements are put together of coordinates.
LEMMA FromCoords ==
    ASSUME NEW S
    PROVE  /\ \A c \in [1 .. 4 -> S] : C!From2(c, 0) \in [x : S, y : S] /\ C!From2(c, 2) \in [x : S, y : S]
           /\ \A c \in [1 .. 12 -> S] :
                  /\ C!From12(c).x \in [x : [x : S, y : S], y : [x : S, y : S], z : [x : S, y : S]]
                  /\ C!From12(c).y \in [x : [x : S, y : S], y : [x : S, y : S], z : [x : S, y : S]]
                  /\ C!From12(c) = [x |-> C!From12(c).x, y |-> C!From12(c).y]
<1> DEFINE S2 == [x : S, y : S]
<1>1. \A c \in [1 .. 4 -> S] : C!From2(c, 0) \in S2 /\ C!From2(c, 2) \in S2
  BY DEF C!From2
<1>2. ASSUME NEW c \in [1 .. 12 -> S], NEW i \in 0 .. 10 PROVE C!From2(c, i) \in S2
  BY DEF C!From2
<1> HIDE DEF S2
<1>3. ASSUME NEW c \in [1 .. 12 -> S], NEW i \in {0, 6}
      PROVE  C!From6(c, i) \in [x : S2, y : S2, z : S2]
  BY <1>2 DEF C!From6
<1>4. ASSUME NEW c \in [1 .. 12 -> S]
      PROVE  /\ C!From12(c).x = C!From6(c, 0) /\ C!From12(c).y = C!From6(c, 6)
             /\ C!From12(c) = [x |-> C!From12(c).x, y |-> C!From12(c).y]
  BY DEF C!From12
<1> QED
  BY <1>1, <1>3, <1>4 DEF S2

\* Marshal makes the element affine in place; it stays reduced.
LEMMA G1MarshalIn ==
    ASSUME NEW e \in Point(Fp)
    PROVE  C!G1Marshal(e).p \in Point(Fp) /\ Sent(C!G1Marshal(e).m)
<1> DEFINE p == C!CurveAffine(IF e = Nil THEN C!ZeroCurve ELSE e)
           coords == IF C!IsInfinity1(p) THEN <<0, 0>> ELSE <<C!MontDecode(p.x), C!MontDecode(p.y)>>
<1>1. p \in Point(Fp)
  BY CurveConstants, PointIsReceiver, CurveOps
<1>2. C!G1Marshal(e) = [p |-> p, m |-> C!Wire(coords)]
  BY DEF C!G1Marshal
<1> HIDE DEF p
<1>3. coords \in [1 .. 2 -> Int]
  <2>1. C!MontDecode(p.x) \in Int /\ C!MontDecode(p.y) \in Int
    BY <1>1, MontIn, ElementIsWord DEF Point
  <2> QED
    BY <2>1
<1> HIDE DEF coords
<1>4. Sent(C!Wire(coords))
  <2>1. PICK n \in Nat \ {0} : n = 2
    OBVIOUS
  <2>2. coords \in [1 .. n -> Int]
    BY <1>3, <2>1
  <2> QED
    BY <2>2, WireSent
<1> QED
  BY <1>1, <1>2, <1>4

\* The same of the twist,
LEMMA G2MarshalIn ==
    ASSUME NEW e \in Point(Fp2)
    PROVE  C!G2Marshal(e).p \in Point(Fp2) /\ Sent(C!G2Marshal(e).m)
<1> DEFINE p == C!TwistAffine(IF e = Nil THEN C!ZeroTwist ELSE e)
           coords == IF C!IsInfinity2(p) THEN <<0, 0, 0, 0>>
                     ELSE C!Coords2(C!Decode2(p.x)) \o C!Coords2(C!Decode2(p.y))
<1>1. p \in Point(Fp2)
  BY TwistConstants, PointIsReceiver, TwistOps
<1>2. C!G2Marshal(e) = [p |-> p, m |-> C!Wire(coords)]
  BY DEF C!G2Marshal
<1> HIDE DEF p
<1>3. coords \in [1 .. 4 -> Int]
  <2>1. C!Decode2(p.x) \in [x : Int, y : Int] /\ C!Decode2(p.y) \in [x : Int, y : Int]
    BY <1>1, MontIn, ElementIsWord DEF Point, Fp2
  <2>2. C!Coords2(C!Decode2(p.x)) \o C!Coords2(C!Decode2(p.y)) \in [1 .. 4 -> Int]
    BY <2>1, CoordsAre
  <2>3. <<0, 0, 0, 0>> \in [1 .. 4 -> Int]
    OBVIOUS
  <2> QED
    BY <2>2, <2>3
<1> HIDE DEF coords
<1>4. Sent(C!Wire(coords))
  <2>1. PICK n \in Nat \ {0} : n = 4
    OBVIOUS
  <2>2. coords \in [1 .. n -> Int]
    BY <1>3, <2>1
  <2> QED
    BY <2>2, WireSent
<1> QED
  BY <1>1, <1>2, <1>4

\* and of GF(p^12), which is sent as it is.
LEMMA GTMarshalIn ==
    ASSUME NEW e \in Fp12
    PROVE  C!GTMarshal(e).p \in Fp12 /\ Sent(C!GTMarshal(e).m)
<1> DEFINE p == IF e = Nil THEN C!One12 ELSE e
           coords == C!Coords12(p)
           sent == [i \in DOMAIN coords |-> C!MontDecode(coords[i])]
<1>1. p \in Fp12
  BY One12In
<1>2. C!GTMarshal(e) = [p |-> p, m |-> C!Wire(sent)]
  BY DEF C!GTMarshal
<1> HIDE DEF p
<1>3. coords \in [1 .. 12 -> Fp]
  BY <1>1, CoordsAre DEF Fp12, Fp6, Fp2
<1> HIDE DEF coords
<1>4. \A i \in 1 .. 12 : C!MontDecode(coords[i]) \in Int
  BY <1>3, MontIn, ElementIsWord
<1>5. sent \in [1 .. 12 -> Int]
  BY <1>3, <1>4
<1> HIDE DEF sent
<1>6. Sent(C!Wire(sent))
  <2>1. PICK n \in Nat \ {0} : n = 12
    OBVIOUS
  <2>2. sent \in [1 .. n -> Int]
    BY <1>5, <2>1
  <2> QED
    BY <2>2, WireSent
<1> QED
  BY <1>1, <1>2, <1>6

\* Unmarshal: the element that was sent, the old one, or a spoilt one.
LEMMA FailedRecord ==
    ASSUME NEW r, NEW p, r = [ok |-> FALSE, p |-> p] PROVE ~r.ok /\ r.p = p
  OBVIOUS

\* The element of a result.
LEMMA OkRecord ==
    ASSUME NEW r, NEW o, NEW p, r = [ok |-> o, p |-> p] PROVE r.p = p
  OBVIOUS

\* In G1 what is kept of the receiver after a failure has words for x and y,
LEMMA G1UnmarshalIn ==
    ASSUME NEW e, e = Nil \/ e \in Receiver(Word, Fp), NEW m \in Seq(Byte)
    PROVE  /\ C!G1Unmarshal(e, m).ok => C!G1Unmarshal(e, m).p \in Point(Fp)
           /\ C!G1Unmarshal(e, m).p = e \/ C!G1Unmarshal(e, m).p \in Receiver(Word, Fp)
<1> DEFINE read == C!Read(m, 2)
           old == IF e = Nil THEN C!ZeroCurve ELSE [e EXCEPT !.x = 0, !.y = 0]
           raw == C!Overwrite(read.coords, <<old.x, old.y>>)
           p == IF raw = <<0, 0>> THEN C!CurveInfinity ELSE C!AffineCurve(raw[1], raw[2])
           spoilt == [old EXCEPT !.x = raw[1], !.y = raw[2]]
           ok == raw = <<0, 0>> \/ C!IsOnCurve(p)
           r == C!G1Unmarshal(e, m)
<1>1. r = IF Len(m) < 2 * CoordBytes THEN [ok |-> FALSE, p |-> e]
          ELSE IF ~read.ok THEN [ok |-> FALSE, p |-> spoilt]
          ELSE [ok |-> ok, p |-> p]
  BY DEF C!G1Unmarshal
<1>2. old \in Point(Fp) \/ old \in Receiver(Word, Fp)
  BY CurveConstants, FieldConstants, ElementIsWord DEF Receiver
<1>3. old \in Receiver(Word, Fp)
  BY <1>2, ReducedIsLoose
<1> HIDE DEF old, ok, r
<1>4. CASE Len(m) < 2 * CoordBytes
  <2>1. r = [ok |-> FALSE, p |-> e]
    BY <1>1, <1>4
  <2> QED
    BY <2>1, FailedRecord DEF r
<1>5. CASE ~(Len(m) < 2 * CoordBytes)
  <2>1. 2 * CoordBytes <= Len(m)
    BY <1>5, ParamsAssumption
  <2>2. PICK n \in Nat : n = 2
    OBVIOUS
  <2>3. /\ read.ok => read.coords \in [1 .. n -> Fp]
        /\ \E l \in 0 .. n : read.coords \in [1 .. l -> Word]
    <3>1. n * CoordBytes <= Len(m)
      BY <2>1, <2>2
    <3>2. /\ C!Read(m, n).ok => C!Read(m, n).coords \in [1 .. n -> Fp]
          /\ \E l \in 0 .. n : C!Read(m, n).coords \in [1 .. l -> Word]
      BY <3>1, ReadIs
    <3> QED
      BY <2>2, <3>2
  <2>4. <<old.x, old.y>> \in [1 .. n -> Word]
    BY <1>3, <2>2 DEF Receiver
  <2> HIDE DEF read
  <2>5. raw \in [1 .. n -> Word]
    BY <2>3, <2>4, OverwriteIs
  <2>6. read.ok => raw \in [1 .. n -> Fp]
    <3>1. SUFFICES ASSUME read.ok PROVE raw \in [1 .. n -> Fp]
      OBVIOUS
    <3>2. DOMAIN read.coords = 1 .. n /\ DOMAIN <<old.x, old.y>> = 1 .. n
      BY <2>2, <2>3, <3>1
    <3>3. raw = [i \in 1 .. n |-> read.coords[i]]
      BY <3>2, OverwriteAll
    <3> HIDE DEF raw
    <3> QED
      BY <2>3, <3>1, <3>3
  <2> HIDE DEF raw
  <2>7. spoilt \in Receiver(Word, Fp)
    <3>1. raw[1] \in Word /\ raw[2] \in Word
      BY <2>2, <2>5
    <3> QED
      BY <1>3, <3>1 DEF Receiver
  <2>8. read.ok => p \in Point(Fp)
    BY <2>2, <2>6, CurveConstants
  <2> HIDE DEF spoilt, p
  <2>9. CASE ~read.ok
    <3>1. r = [ok |-> FALSE, p |-> spoilt]
      BY <1>1, <1>5, <2>9
    <3> QED
      BY <2>7, <3>1, FailedRecord DEF r
  <2>10. CASE read.ok
    <3>1. r = [ok |-> ok, p |-> p]
      BY <1>1, <1>5, <2>10
    <3>2. r.p = p
      BY <3>1, OkRecord
    <3> QED
      BY <2>8, <2>10, <3>2, ReducedIsLoose DEF r
  <2> QED
    BY <2>9, <2>10
<1> QED
  BY <1>4, <1>5

\* in G2 as well,
LEMMA G2UnmarshalIn ==
    ASSUME NEW e, e = Nil \/ e \in Receiver(Word2, Fp2), NEW m \in Seq(Byte)
    PROVE  /\ C!G2Unmarshal(e, m).ok => C!G2Unmarshal(e, m).p \in Point(Fp2)
           /\ C!G2Unmarshal(e, m).p = e \/ C!G2Unmarshal(e, m).p \in Receiver(Word2, Fp2)
<1> DEFINE read == C!Read(m, 4)
           old == IF e = Nil THEN C!ZeroTwist ELSE e
           raw == C!Overwrite(read.coords, C!Coords2(old.x) \o C!Coords2(old.y))
           zero == raw = <<0, 0, 0, 0>>
           x == C!From2(raw, 0)
           y == C!From2(raw, 2)
           p == IF zero THEN C!TwistInfinity ELSE C!AffineTwist(x, y)
           spoilt == [old EXCEPT !.x = x, !.y = y]
           ok == zero \/ C!IsOnTwist(p)
           r == C!G2Unmarshal(e, m)
<1>1. r = IF Len(m) < 4 * CoordBytes THEN [ok |-> FALSE, p |-> e]
          ELSE IF ~read.ok THEN [ok |-> FALSE, p |-> spoilt]
          ELSE [ok |-> ok, p |-> p]
  BY DEF C!G2Unmarshal
<1>2. old \in Receiver(Word2, Fp2)
  BY TwistConstants, ReducedIsLoose
<1> HIDE DEF old, ok, r, zero
<1>3. CASE Len(m) < 4 * CoordBytes
  <2>1. r = [ok |-> FALSE, p |-> e]
    BY <1>1, <1>3
  <2> QED
    BY <2>1, FailedRecord DEF r
<1>4. CASE ~(Len(m) < 4 * CoordBytes)
  <2>1. 4 * CoordBytes <= Len(m)
    BY <1>4, ParamsAssumption
  <2>2. PICK n \in Nat : n = 4
    OBVIOUS
  <2>3. /\ read.ok => read.coords \in [1 .. n -> Fp]
        /\ \E l \in 0 .. n : read.coords \in [1 .. l -> Word]
    <3>1. n * CoordBytes <= Len(m)
      BY <2>1, <2>2
    <3>2. /\ C!Read(m, n).ok => C!Read(m, n).coords \in [1 .. n -> Fp]
          /\ \E l \in 0 .. n : C!Read(m, n).coords \in [1 .. l -> Word]
      BY <3>1, ReadIs
    <3> QED
      BY <2>2, <3>2
  <2> DEFINE coords == C!Coords2(old.x) \o C!Coords2(old.y)
  <2>4. coords \in [1 .. n -> Word]
    <3>1. old.x \in [x : Word, y : Word] /\ old.y \in [x : Word, y : Word]
      BY <1>2 DEF Receiver, Word2
    <3> QED
      BY <2>2, <3>1, CoordsAre
  <2> HIDE DEF read, coords
  <2>5. raw \in [1 .. n -> Word]
    <3>1. C!Overwrite(read.coords, coords) \in [1 .. n -> Word]
      BY <2>3, <2>4, OverwriteIs
    <3> QED
      BY <3>1 DEF coords
  <2>6. read.ok => raw \in [1 .. n -> Fp]
    <3>1. SUFFICES ASSUME read.ok PROVE raw \in [1 .. n -> Fp]
      OBVIOUS
    <3>2. DOMAIN read.coords = 1 .. n /\ DOMAIN coords = 1 .. n
      BY <2>3, <2>4, <3>1
    <3>3. raw = [i \in 1 .. n |-> read.coords[i]]
      BY <3>2, OverwriteAll DEF coords
    <3> HIDE DEF raw
    <3> QED
      BY <2>3, <3>1, <3>3
  <2> HIDE DEF raw
  <2>7. x \in Word2 /\ y \in Word2
    BY <2>2, <2>5, FromCoords DEF Word2
  <2>8. read.ok => x \in Fp2 /\ y \in Fp2
    BY <2>2, <2>6, FromCoords DEF Fp2
  <2> HIDE DEF x, y
  <2>9. spoilt \in Receiver(Word2, Fp2)
    BY <1>2, <2>7 DEF Receiver
  <2>10. read.ok => p \in Point(Fp2)
    BY <2>8, TwistConstants
  <2> HIDE DEF spoilt, p
  <2>11. CASE ~read.ok
    <3>1. r = [ok |-> FALSE, p |-> spoilt]
      BY <1>1, <1>4, <2>11
    <3> QED
      BY <2>9, <3>1, FailedRecord DEF r
  <2>12. CASE read.ok
    <3>1. r = [ok |-> ok, p |-> p]
      BY <1>1, <1>4, <2>12
    <3>2. r.p = p
      BY <3>1, OkRecord
    <3> QED
      BY <2>10, <2>12, <3>2, ReducedIsLoose DEF r
  <2> QED
    BY <2>11, <2>12
<1> QED
  BY <1>3, <1>4

\* and in GT raw coordinates stand for coefficients.
LEMMA GTUnmarshalIn ==
    ASSUME NEW e, e = Nil \/ e \in Word12, NEW m \in Seq(Byte)
    PROVE  /\ C!GTUnmarshal(e, m).ok => C!GTUnmarshal(e, m).p \in Fp12
           /\ C!GTUnmarshal(e, m).p = e \/ C!GTUnmarshal(e, m).p \in Word12
<1> DEFINE read == C!Read(m, 12)
           old == IF e = Nil THEN [x |-> C!Zero6, y |-> C!Zero6] ELSE e
           encoded == [i \in DOMAIN read.coords |-> C!MontEncode(read.coords[i])]
           taken == IF read.ok THEN encoded ELSE read.coords
           raw == C!Overwrite(taken, C!Coords12(old))
           p == C!From12(raw)
           ok == read.ok
           r == C!GTUnmarshal(e, m)
<1>1. r = IF Len(m) < 12 * CoordBytes THEN [ok |-> FALSE, p |-> e]
          ELSE [ok |-> ok, p |-> p]
  BY DEF C!GTUnmarshal
<1>2. old \in Word12
  <2>1. [x |-> C!Zero6, y |-> C!Zero6] \in Fp12
    BY Ops6 DEF Fp12
  <2> QED
    BY <2>1, ReducedIsLoose
<1> HIDE DEF old, r
<1>3. CASE Len(m) < 12 * CoordBytes
  <2>1. r = [ok |-> FALSE, p |-> e]
    BY <1>1, <1>3
  <2> QED
    BY <2>1, FailedRecord DEF r
<1>4. CASE ~(Len(m) < 12 * CoordBytes)
  <2>1. 12 * CoordBytes <= Len(m)
    BY <1>4, ParamsAssumption
  <2>2. PICK n \in Nat : n = 12
    OBVIOUS
  <2>3. /\ read.ok => read.coords \in [1 .. n -> Fp]
        /\ \E l \in 0 .. n : read.coords \in [1 .. l -> Word]
    <3>1. n * CoordBytes <= Len(m)
      BY <2>1, <2>2
    <3>2. /\ C!Read(m, n).ok => C!Read(m, n).coords \in [1 .. n -> Fp]
          /\ \E l \in 0 .. n : C!Read(m, n).coords \in [1 .. l -> Word]
      BY <3>1, ReadIs
    <3> QED
      BY <2>2, <3>2
  <2> DEFINE coords == C!Coords12(old)
  <2>4. coords \in [1 .. n -> Word]
    BY <1>2, <2>2, CoordsAre DEF Word12, Word6, Word2
  <2> HIDE DEF read, coords
  <2>5. read.ok => encoded \in [1 .. n -> Fp]
    <3>1. SUFFICES ASSUME read.ok PROVE encoded \in [1 .. n -> Fp]
      OBVIOUS
    <3>2. \A i \in 1 .. n : C!MontEncode(read.coords[i]) \in Fp
      BY <2>3, <3>1, MontIn, ElementIsWord
    <3> QED
      BY <2>3, <3>1, <3>2
  <2> HIDE DEF encoded
  <2>6. read.ok => encoded \in [1 .. n -> Word]
    BY <2>5, ElementIsWord
  <2>7. \E l \in 0 .. n : taken \in [1 .. l -> Word]
    BY <2>3, <2>6
  <2>8. raw \in [1 .. n -> Word]
    <3> HIDE DEF taken
    <3>1. C!Overwrite(taken, coords) \in [1 .. n -> Word]
      BY <2>4, <2>7, OverwriteIs
    <3> QED
      BY <3>1 DEF coords
  <2>9. read.ok => raw \in [1 .. n -> Fp]
    <3>1. SUFFICES ASSUME read.ok PROVE raw \in [1 .. n -> Fp]
      OBVIOUS
    <3>2. taken = encoded
      BY <3>1
    <3>3. DOMAIN encoded = 1 .. n /\ DOMAIN coords = 1 .. n
      BY <2>4, <2>5, <3>1
    <3>4. C!Overwrite(encoded, coords) = [i \in 1 .. n |-> encoded[i]]
      BY <3>3, OverwriteAll
    <3>5. raw = [i \in 1 .. n |-> encoded[i]]
      <4> HIDE DEF taken
      <4> QED
        BY <3>2, <3>4 DEF coords
    <3> HIDE DEF raw
    <3> QED
      BY <2>5, <3>1, <3>5
  <2> HIDE DEF raw, taken
  <2>10. p \in Word12
    <3>1. p.x \in Word6 /\ p.y \in Word6 /\ p = [x |-> p.x, y |-> p.y]
      BY <2>2, <2>8, FromCoords DEF Word6, Word2
    <3> HIDE DEF p
    <3> QED
      BY <3>1 DEF Word12
  <2>11. read.ok => p \in Fp12
    <3>1. SUFFICES ASSUME read.ok PROVE p \in Fp12
      OBVIOUS
    <3>2. p.x \in Fp6 /\ p.y \in Fp6 /\ p = [x |-> p.x, y |-> p.y]
      BY <2>2, <2>9, <3>1, FromCoords DEF Fp6, Fp2
    <3> HIDE DEF p
    <3> QED
      BY <3>2 DEF Fp12
  <2> HIDE DEF p
  <2>12. r = [ok |-> ok, p |-> p]
    BY <1>1, <1>4
  <2>13. r.p = p
    <3> HIDE DEF ok
    <3> QED
      BY <2>12, OkRecord
  <2>14. r.ok => read.ok
    <3> HIDE DEF r
    <3>1. r.ok = ok
      BY Zenon, <2>12
    <3> QED
      BY <3>1
  <2> QED
    BY <2>10, <2>11, <2>13, <2>14 DEF r
<1> QED
  BY <1>3, <1>4

----------------------------------------------------------------------------
(* What the package exports keeps elements reduced.                         *)

Tight(g) == CASE g = "G1" -> Point(Fp) [] g = "G2" -> Point(Fp2) [] g = "GT" -> Fp12
Loose(g) ==
    CASE g = "G1" -> Receiver(Word, Fp) [] g = "G2" -> Receiver(Word2, Fp2) [] g = "GT" -> Word12

\* What may be an operand may be a receiver.
LEMMA TightIsLoose == ASSUME NEW g \in {"G1", "G2", "GT"} PROVE Tight(g) \subseteq Loose(g)
  BY ReducedIsLoose DEF Tight, Loose

\* Both are elements of the implementation.
LEMMA LooseIsElement ==
    /\ Receiver(Word, Fp) \subseteq C!curvePoint
    /\ Receiver(Word2, Fp2) \subseteq C!twistPoint
    /\ Word12 \subseteq C!gfP12
<1>1. C!gfP = Word
  BY SameParams DEF C!gfP, Word
<1>2. C!gfP2 = Word2 /\ Fp2 \subseteq Word2
  BY <1>1, ReducedIsLoose DEF C!gfP2, Word2
<1>3. Receiver(Word, Fp) \subseteq C!curvePoint
  BY <1>1, ElementIsWord DEF C!curvePoint, Receiver
<1>4. Receiver(Word2, Fp2) \subseteq C!twistPoint
  BY <1>2 DEF C!twistPoint, Receiver
<1>5. Word12 \subseteq C!gfP12
  BY <1>2 DEF C!gfP12, C!gfP6, Word12, Word6
<1> QED
  BY <1>3, <1>4, <1>5

\* A call with its operands.
LEMMA PackageMethods ==
    ASSUME NEW name \in C!methods
    PROVE  /\ \A c \in C!CallsOn(C!curvePoint) :
                  C!Package.G1.method[name][c] = C!G1Method(name, c.e, c.a, c.b, c.k)
           /\ \A c \in C!CallsOn(C!twistPoint) :
                  C!Package.G2.method[name][c] = C!G2Method(name, c.e, c.a, c.b, c.k)
           /\ \A c \in C!CallsOn(C!gfP12) :
                  C!Package.GT.method[name][c]
                      = C!GTMethod(C!GFp12, name, c.e, c.a, c.b, c.k)
<1>1. \A c \in C!CallsOn(C!curvePoint) :
          C!Package.G1.method[name][c] = C!G1Method(name, c.e, c.a, c.b, c.k)
  BY DEF C!Package
<1>2. \A c \in C!CallsOn(C!twistPoint) :
          C!Package.G2.method[name][c] = C!G2Method(name, c.e, c.a, c.b, c.k)
  BY DEF C!Package
<1>3. \A c \in C!CallsOn(C!gfP12) :
          C!Package.GT.method[name][c] = C!GTMethod(C!GFp12, name, c.e, c.a, c.b, c.k)
  BY DEF C!Package
<1> QED
  BY <1>1, <1>2, <1>3

\* The bytes of an element.
LEMMA PackageBytes ==
    /\ \A e \in C!curvePoint \cup {Nil} :
           /\ C!Package.G1.marshal[e] = C!G1Marshal(e)
           /\ \A m \in Seq(Nat) : C!Package.G1.unmarshal[e][m] = C!G1Unmarshal(e, m)
    /\ \A e \in C!twistPoint \cup {Nil} :
           /\ C!Package.G2.marshal[e] = C!G2Marshal(e)
           /\ \A m \in Seq(Nat) : C!Package.G2.unmarshal[e][m] = C!G2Unmarshal(e, m)
    /\ \A e \in C!gfP12 \cup {Nil} :
           /\ C!Package.GT.marshal[e] = C!GTMarshal(e)
           /\ \A m \in Seq(Nat) : C!Package.GT.unmarshal[e][m] = C!GTUnmarshal(e, m)
<1>1. \A e \in C!curvePoint \cup {Nil} :
          /\ C!Package.G1.marshal[e] = C!G1Marshal(e)
          /\ \A m \in Seq(Nat) : C!Package.G1.unmarshal[e][m] = C!G1Unmarshal(e, m)
  BY DEF C!Package
<1>2. \A e \in C!twistPoint \cup {Nil} :
          /\ C!Package.G2.marshal[e] = C!G2Marshal(e)
          /\ \A m \in Seq(Nat) : C!Package.G2.unmarshal[e][m] = C!G2Unmarshal(e, m)
  BY DEF C!Package
<1>3. \A e \in C!gfP12 \cup {Nil} :
          /\ C!Package.GT.marshal[e] = C!GTMarshal(e)
          /\ \A m \in Seq(Nat) : C!Package.GT.unmarshal[e][m] = C!GTUnmarshal(e, m)
  BY DEF C!Package
<1> QED
  BY <1>1, <1>2, <1>3

\* The pairing, as one call or two.
LEMMA PackagePairs ==
    /\ \A p \in C!curvePoint, q \in C!twistPoint :
           /\ C!Package.pair[p][q] = C!Pair(C!GFp12, p, q)
           /\ C!Package.miller[p][q] = C!Miller(C!GFp12, p, q)
    /\ \A e \in C!gfP12 : C!Package.finalize[e] = C!Finalize(C!GFp12, e)
  BY DEF C!Package

\* A result with an operand that has been set is reduced.
LEMMA MethodTight ==
    ASSUME NEW g \in {"G1", "G2", "GT"}, NEW e \in Loose(g) \cup {Nil},
           NEW a \in Tight(g), NEW b \in Tight(g) \cup {Nil}, NEW k \in Nat,
           NEW same \in BOOLEAN,
           NEW name \in {"ScalarMult", "Add", "Neg", "Set"}, name = "Add" => b \in Tight(g)
    PROVE  C!Package[g].method[name][[e |-> e, a |-> a, b |-> b, k |-> k, same |-> same]]
               \in Tight(g)
<1> DEFINE c == [e |-> e, a |-> a, b |-> b, k |-> k, same |-> same]
<1>1. name \in C!methods
  BY DEF C!methods
<1>2. a \in Loose(g) /\ b \in Loose(g) \cup {Nil}
  BY TightIsLoose
<1>3. c.e = e /\ c.a = a /\ c.b = b /\ c.k = k
  OBVIOUS
<1>4. CASE g = "G1"
  <2>1. e \in C!curvePoint \cup {Nil} /\ a \in C!curvePoint \cup {Nil}
        /\ b \in C!curvePoint \cup {Nil}
    BY <1>2, <1>4, LooseIsElement DEF Loose
  <2>2. c \in C!CallsOn(C!curvePoint)
    BY <2>1 DEF C!CallsOn
  <2> HIDE DEF c
  <2>3. C!Package.G1.method[name][c] = C!G1Method(name, c.e, c.a, c.b, c.k)
    BY <1>1, <2>2, PackageMethods
  <2>4. C!G1Method(name, e, a, b, k) \in Point(Fp)
    <3>1. a \in Point(Fp) /\ (name = "Add" => b \in Point(Fp))
      BY <1>4 DEF Tight
    <3>2. C!CurveMul(a, k) \in Point(Fp)
      BY <3>1, CurveMulIn
    <3>3. C!CurveNeg(a) \in Point(Fp)
      BY <3>1, CurveOps, PointIsReceiver
    <3>4. (IF e = Nil THEN C!ZeroCurve ELSE e) \in Receiver(Word, Fp)
      BY <1>4, CurveConstants, ReducedIsLoose DEF Loose
    <3>5. name = "Add" => C!CurveAdd(IF e = Nil THEN C!ZeroCurve ELSE e, a, b) \in Point(Fp)
      BY <3>1, <3>4, CurveOps
    <3> QED
      BY <3>1, <3>2, <3>3, <3>5 DEF C!G1Method
  <2> QED
    BY <1>3, <1>4, <2>3, <2>4 DEF Tight, c
<1>5. CASE g = "G2"
  <2>1. e \in C!twistPoint \cup {Nil} /\ a \in C!twistPoint \cup {Nil}
        /\ b \in C!twistPoint \cup {Nil}
    BY <1>2, <1>5, LooseIsElement DEF Loose
  <2>2. c \in C!CallsOn(C!twistPoint)
    BY <2>1 DEF C!CallsOn
  <2> HIDE DEF c
  <2>3. C!Package.G2.method[name][c] = C!G2Method(name, c.e, c.a, c.b, c.k)
    BY <1>1, <2>2, PackageMethods
  <2>4. C!G2Method(name, e, a, b, k) \in Point(Fp2)
    <3>1. a \in Point(Fp2) /\ (name = "Add" => b \in Point(Fp2))
      BY <1>5 DEF Tight
    <3>2. C!TwistMul(a, k) \in Point(Fp2)
      BY <3>1, TwistMulIn
    <3>3. C!TwistNeg(a) \in Point(Fp2)
      BY <3>1, TwistOps, PointIsReceiver
    <3>4. (IF e = Nil THEN C!ZeroTwist ELSE e) \in Receiver(Word2, Fp2)
      BY <1>5, TwistConstants, ReducedIsLoose DEF Loose
    <3>5. name = "Add" => C!TwistAdd(IF e = Nil THEN C!ZeroTwist ELSE e, a, b) \in Point(Fp2)
      BY <3>1, <3>4, TwistOps
    <3> QED
      BY <3>1, <3>2, <3>3, <3>5 DEF C!G2Method
  <2> QED
    BY <1>3, <1>5, <2>3, <2>4 DEF Tight, c
<1>6. CASE g = "GT"
  <2>1. e \in C!gfP12 \cup {Nil} /\ a \in C!gfP12 \cup {Nil} /\ b \in C!gfP12 \cup {Nil}
    BY <1>2, <1>6, LooseIsElement DEF Loose
  <2>2. c \in C!CallsOn(C!gfP12)
    BY <2>1 DEF C!CallsOn
  <2> HIDE DEF c
  <2>3. C!Package.GT.method[name][c] = C!GTMethod(C!GFp12, name, c.e, c.a, c.b, c.k)
    BY <1>1, <2>2, PackageMethods
  <2>4. C!GTMethod(C!GFp12, name, e, a, b, k) \in Fp12
    <3>1. a \in Fp12 /\ (name = "Add" => b \in Fp12)
      BY <1>6 DEF Tight
    <3>2. C!Exp12(C!GFp12, a, k) \in Fp12
      BY <3>1, GFp12Closed, Exp12In
    <3>3. C!Conj12(a) \in Fp12
      BY <3>1, GFp6Closed, Ops12
    <3>4. name = "Add" => C!GFp12.mult[a][b] \in Fp12
      BY <3>1, GFp12Closed DEF Closed12
    <3> QED
      BY <3>1, <3>2, <3>3, <3>4 DEF C!GTMethod
  <2> QED
    BY <1>3, <1>6, <2>3, <2>4 DEF Tight, c
<1> QED
  BY <1>4, <1>5, <1>6

\* The multiples of a generator, for which no register is read.
LEMMA BaseTight ==
    ASSUME NEW g \in {"G1", "G2"}, NEW e, e = Nil \/ e \in Loose(g), NEW k \in Nat,
           NEW same \in BOOLEAN
    PROVE  C!Package[g].method["ScalarBaseMult"]
               [[e |-> e, a |-> Nil, b |-> Nil, k |-> k, same |-> same]] \in Tight(g)
<1> DEFINE c == [e |-> e, a |-> Nil, b |-> Nil, k |-> k, same |-> same]
           name == "ScalarBaseMult"
<1>1. name \in C!methods
  BY DEF C!methods
<1>2. c.e = e /\ c.a = Nil /\ c.b = Nil /\ c.k = k
  OBVIOUS
<1>3. C!G1Method(name, e, Nil, Nil, k) \in Point(Fp)
  BY CurveConstants, CurveMulIn DEF C!G1Method
<1>4. C!G2Method(name, e, Nil, Nil, k) \in Point(Fp2)
  BY TwistConstants, TwistMulIn DEF C!G2Method
<1> HIDE DEF name
<1>5. CASE g = "G1"
  <2>1. e \in C!curvePoint \cup {Nil}
    BY <1>5, LooseIsElement DEF Loose
  <2>2. c \in C!CallsOn(C!curvePoint)
    BY <2>1 DEF C!CallsOn
  <2> HIDE DEF c
  <2>3. C!Package.G1.method[name][c] = C!G1Method(name, c.e, c.a, c.b, c.k)
    BY <1>1, <2>2, PackageMethods
  <2> QED
    BY <1>2, <1>3, <1>5, <2>3 DEF Tight, c, name
<1>6. CASE g = "G2"
  <2>1. e \in C!twistPoint \cup {Nil}
    BY <1>6, LooseIsElement DEF Loose
  <2>2. c \in C!CallsOn(C!twistPoint)
    BY <2>1 DEF C!CallsOn
  <2> HIDE DEF c
  <2>3. C!Package.G2.method[name][c] = C!G2Method(name, c.e, c.a, c.b, c.k)
    BY <1>1, <2>2, PackageMethods
  <2> QED
    BY <1>2, <1>4, <1>6, <2>3 DEF Tight, c, name
<1> QED
  BY <1>5, <1>6

\* Pair, Miller and Finalize return reduced elements.
LEMMA PairsTight ==
    ASSUME NEW p \in Point(Fp), NEW q \in Point(Fp2), NEW e \in Fp12
    PROVE  /\ C!Package.pair[p][q] \in Fp12 /\ C!Package.miller[p][q] \in Fp12
           /\ C!Package.finalize[e] \in Fp12
<1>1. p \in C!curvePoint /\ q \in C!twistPoint /\ e \in C!gfP12
  BY LooseIsElement, ReducedIsLoose
<1>2. C!Pair(C!GFp12, p, q) \in Fp12
  BY GFp12Closed, OptimalAteIn DEF C!Pair
<1>3. C!Miller(C!GFp12, p, q) \in Fp12
  BY GFp12Closed, MillerIn DEF C!Miller
<1>4. C!Finalize(C!GFp12, e) \in Fp12
  BY GFp12Closed, FinalExponentiationIn DEF C!Finalize
<1> QED
  BY <1>1, <1>2, <1>3, <1>4, PackagePairs

\* Marshal leaves a reduced element, and sends bytes.
LEMMA MarshalTight ==
    ASSUME NEW g \in {"G1", "G2", "GT"}, NEW e \in Tight(g)
    PROVE  C!Package[g].marshal[e].p \in Tight(g) /\ Sent(C!Package[g].marshal[e].m)
<1>1. CASE g = "G1"
  <2>1. e \in Point(Fp) /\ e \in C!curvePoint
    BY <1>1, LooseIsElement, ReducedIsLoose DEF Tight
  <2> QED
    BY <1>1, <2>1, PackageBytes, G1MarshalIn DEF Tight
<1>2. CASE g = "G2"
  <2>1. e \in Point(Fp2) /\ e \in C!twistPoint
    BY <1>2, LooseIsElement, ReducedIsLoose DEF Tight
  <2> QED
    BY <1>2, <2>1, PackageBytes, G2MarshalIn DEF Tight
<1>3. CASE g = "GT"
  <2>1. e \in Fp12 /\ e \in C!gfP12
    BY <1>3, LooseIsElement, ReducedIsLoose DEF Tight
  <2> QED
    BY <1>3, <2>1, PackageBytes, GTMarshalIn DEF Tight
<1> QED
  BY <1>1, <1>2, <1>3

\* For any bytes and whatever the receiver holds, an Unmarshal that succeeds
\* leaves a reduced element, and one that fails leaves what later calls can have
\* as a receiver (bn256.go:129, 265, 432).
THEOREM UnmarshalTight ==
    ASSUME NEW g \in {"G1", "G2", "GT"}, NEW e, e = Nil \/ e \in Loose(g),
           NEW m \in Seq(Byte)
    PROVE  /\ C!Package[g].unmarshal[e][m].ok => C!Package[g].unmarshal[e][m].p \in Tight(g)
           /\ C!Package[g].unmarshal[e][m].p = e
              \/ C!Package[g].unmarshal[e][m].p \in Loose(g)
<1>1. m \in Seq(Nat)
  BY ParamsAssumption DEF Byte
<1>2. CASE g = "G1"
  <2>1. e = Nil \/ e \in Receiver(Word, Fp)
    BY <1>2 DEF Loose
  <2>2. e \in C!curvePoint \cup {Nil}
    BY <2>1, LooseIsElement
  <2>3. C!Package.G1.unmarshal[e][m] = C!G1Unmarshal(e, m)
    BY <1>1, <2>2, PackageBytes
  <2>4. /\ C!G1Unmarshal(e, m).ok => C!G1Unmarshal(e, m).p \in Point(Fp)
        /\ C!G1Unmarshal(e, m).p = e \/ C!G1Unmarshal(e, m).p \in Receiver(Word, Fp)
    BY <2>1, G1UnmarshalIn
  <2> QED
    BY <1>2, <2>3, <2>4 DEF Tight, Loose
<1>3. CASE g = "G2"
  <2>1. e = Nil \/ e \in Receiver(Word2, Fp2)
    BY <1>3 DEF Loose
  <2>2. e \in C!twistPoint \cup {Nil}
    BY <2>1, LooseIsElement
  <2>3. C!Package.G2.unmarshal[e][m] = C!G2Unmarshal(e, m)
    BY <1>1, <2>2, PackageBytes
  <2>4. /\ C!G2Unmarshal(e, m).ok => C!G2Unmarshal(e, m).p \in Point(Fp2)
        /\ C!G2Unmarshal(e, m).p = e \/ C!G2Unmarshal(e, m).p \in Receiver(Word2, Fp2)
    BY <2>1, G2UnmarshalIn
  <2> QED
    BY <1>3, <2>3, <2>4 DEF Tight, Loose
<1>4. CASE g = "GT"
  <2>1. e = Nil \/ e \in Word12
    BY <1>4 DEF Loose
  <2>2. e \in C!gfP12 \cup {Nil}
    BY <2>1, LooseIsElement
  <2>3. C!Package.GT.unmarshal[e][m] = C!GTUnmarshal(e, m)
    BY <1>1, <2>2, PackageBytes
  <2>4. /\ C!GTUnmarshal(e, m).ok => C!GTUnmarshal(e, m).p \in Fp12
        /\ C!GTUnmarshal(e, m).p = e \/ C!GTUnmarshal(e, m).p \in Word12
    BY <2>1, GTUnmarshalIn
  <2> QED
    BY <1>4, <2>3, <2>4 DEF Tight, Loose
<1> QED
  BY <1>2, <1>3, <1>4

\* The coordinates of two values as one sequence.
LEMMA JoinIs ==
    ASSUME NEW S, NEW a \in Seq(S), NEW b \in Seq(S), NEW k \in Nat, NEW l \in Nat,
           Len(a) = k, Len(b) = l
    PROVE  a \o b \in [1 .. k + l -> S]
<1>1. a \o b \in Seq(S) /\ Len(a \o b) = k + l
  OBVIOUS
<1> DEFINE c == a \o b
<1>2. c \in Seq(S) /\ Len(c) = k + l
  BY <1>1
<1> HIDE DEF c
<1>3. c \in [1 .. k + l -> S]
  BY <1>2
<1> QED
  BY <1>3 DEF c

\* What a peer may send are bytes.
LEMMA ForgedIsBytes ==
    ASSUME wire # Nil, Sent(wire.m), NEW m \in Forged PROVE m \in Seq(Byte)
<1> DEFINE sent == wire.m
           first == Coordinate(sent, 0)
           last == Coordinate(sent, Len(sent) \div CoordBytes - 1)
           keep(n) == SubSeq(sent, 1, Len(sent) - n)
           large == FixedBytes(first + P) \o SubSeq(sent, CoordBytes + 1, Len(sent))
           zeros == [i \in DOMAIN sent |-> 0]
           stray == Wire(Coords2(Stray[1]) \o Coords2(Stray[2]))
<1>1. /\ sent \in Seq(Byte) /\ Len(sent) \in Nat /\ Len(sent) >= CoordBytes
      /\ CoordBytes \in Nat \ {0}
  BY ParamsAssumption DEF Sent
<1>2. m \in {Front(sent), large, sent \o <<0>>, zeros,
             keep(CoordBytes) \o FixedBytes((last + 1) % P),
             keep(CoordBytes) \o FixedBytes(P), stray}
  BY Zenon DEF Forged
<1>3. 0 \in Byte
  BY ParamsAssumption DEF Byte
<1>4. first \in Word
  <2>1. (0 + 1) * CoordBytes <= Len(sent)
    BY <1>1
  <2> QED
    BY <1>1, <2>1, CoordinateIs
<1>5. last \in Word
  <2> DEFINE q == Len(sent) \div CoordBytes
  <2>1. q \in Nat /\ q * CoordBytes <= Len(sent) /\ q >= 1
    <3>1. \A a \in Nat, d \in Nat \ {0} :
              a \div d \in Nat /\ (a \div d) * d <= a /\ (a >= d => a \div d >= 1)
      OBVIOUS
    <3> DEFINE a == Len(sent)
    <3>2. a \in Nat /\ a >= CoordBytes
      BY <1>1
    <3> HIDE DEF a
    <3>3. /\ a \div CoordBytes \in Nat /\ (a \div CoordBytes) * CoordBytes <= a
          /\ a \div CoordBytes >= 1
      BY <1>1, <3>1, <3>2
    <3> QED
      BY <3>3 DEF a
  <2> HIDE DEF q
  <2>2. q - 1 \in Nat /\ (q - 1) + 1 = q
    BY <2>1
  <2>3. ((q - 1) + 1) * CoordBytes <= Len(sent)
    BY <2>1, <2>2
  <2>4. Coordinate(sent, q - 1) \in Word
    BY <1>1, <2>2, <2>3, CoordinateIs
  <2> QED
    BY <2>4 DEF q
<1>6. first + P \in Int /\ (last + 1) % P \in Int /\ P \in Int
  <2>1. P \in Nat \ {0} /\ R \in Nat
    BY Params
  <2>2. first \in Int /\ last \in Int
    BY <1>4, <1>5, <2>1 DEF Word
  <2> HIDE DEF first, last
  <2>3. (last + 1) % P \in Fp
    BY <2>2, Residue
  <2> QED
    BY <2>1, <2>2, <2>3, ElementIsWord
<1> HIDE DEF first, last, sent
<1>7. \A n \in Int : FixedBytes(n) \in Seq(Byte)
  BY <1>1, FixedBytesIs
<1>8. \A i, j \in Int : i >= 1 /\ j <= Len(sent) => SubSeq(sent, i, j) \in Seq(Byte)
  BY <1>1
<1>9. CASE m = Front(sent)
  BY <1>1, <1>8, <1>9 DEF Front
<1>10. CASE m = large
  <2>1. FixedBytes(first + P) \in Seq(Byte)
    BY <1>6, <1>7
  <2>2. SubSeq(sent, CoordBytes + 1, Len(sent)) \in Seq(Byte)
    BY <1>1, <1>8
  <2> QED
    BY <1>10, <2>1, <2>2
<1>11. CASE m = sent \o <<0>>
  BY <1>1, <1>3, <1>11
<1>12. CASE m = zeros
  BY <1>1, <1>3, <1>12
<1>13. keep(CoordBytes) \in Seq(Byte)
  BY <1>1, <1>8
<1>14. CASE m = keep(CoordBytes) \o FixedBytes((last + 1) % P)
  <2>1. FixedBytes((last + 1) % P) \in Seq(Byte)
    BY <1>6, <1>7
  <2> HIDE DEF keep
  <2> QED
    BY <1>13, <1>14, <2>1
<1>15. CASE m = keep(CoordBytes) \o FixedBytes(P)
  <2>1. FixedBytes(P) \in Seq(Byte)
    BY <1>6, <1>7
  <2> HIDE DEF keep
  <2> QED
    BY <1>13, <1>15, <2>1
<1>16. CASE m = stray
  <2>1. Stray[1] \in Fp2 /\ Stray[2] \in Fp2
    BY CallsAssumption DEF Fp2, Fp
  <2>2. /\ Stray[1].x \in Int /\ Stray[1].y \in Int
        /\ Stray[2].x \in Int /\ Stray[2].y \in Int
    BY <2>1, ElementIsWord DEF Fp2
  <2> DEFINE s1 == Coords2(Stray[1])
             s2 == Coords2(Stray[2])
  <2>3. s1 \in Seq(Int) /\ Len(s1) = 2 /\ s2 \in Seq(Int) /\ Len(s2) = 2
    BY <2>2 DEF Coords2
  <2> HIDE DEF s1, s2
  <2>4. PICK k \in Nat \ {0} : k = 2
    OBVIOUS
  <2>5. s1 \o s2 \in [1 .. k + k -> Int]
    BY <2>3, <2>4, JoinIs
  <2>6. Wire(s1 \o s2) \in Seq(Byte)
    <3>1. k + k \in Nat
      OBVIOUS
    <3> DEFINE coords == s1 \o s2
    <3>2. coords \in [1 .. k + k -> Int]
      BY <2>5
    <3> HIDE DEF coords
    <3>3. Wire(coords) \in Seq(Byte)
      BY <3>1, <3>2, WireIs
    <3> QED
      BY <3>3 DEF coords
  <2> QED
    BY <1>16, <2>6 DEF s1, s2
<1> QED
  BY <1>2, <1>9, <1>10, <1>11, <1>12, <1>14, <1>15, <1>16

----------------------------------------------------------------------------
(* The program: with bn256/cloudflare, registers hold elements that the     *)
(* methods may read.                                                        *)

Stages == {"unset", "raw", "ready", "spoilt"}

\* What a call finds: an element that no method may be called with, after an
\* Unmarshal that failed, still has words in its coordinates and a t that can
\* be left in the result of Add.
ReducedInv ==
    /\ impl \in {"cloudflare", "google"}
    /\ group \in {"G1", "G2", "GT"}
    /\ fast => /\ reg \in [Registers -> Loose(group) \cup {Nil}]
               /\ stage \in [Registers -> Stages]
               /\ \A r \in Registers : /\ Usable(r) => reg[r] \in Tight(group)
                                       /\ stage[r] = "raw" => group = "GT"
               /\ wire = Nil \/ Sent(wire.m)

\* The build with bn256/cloudflare has that package,
LEMMA FastPackage == Fast.p = C!Package
  BY DEF Fast

\* by its name,
LEMMA PackageName == C!Package.name = "cloudflare"
  BY DEF C!Package

\* and the other build another one.
LEMMA SlowOnly == ASSUME MayCall(Slow) PROVE ~fast
<1>1. G!Package.name = "google"
  BY DEF G!Package
<1>2. Slow.p = G!Package
  BY DEF Slow
<1> QED
  BY <1>1, <1>2 DEF MayCall, fast

\* A register that becomes p, in stage s.
LEMMA BecomesKeeps ==
    ASSUME ReducedInv, fast, NEW e \in Registers, NEW p \in Loose(group) \cup {Nil},
           NEW s \in Stages, s \in {"raw", "ready"} => p \in Tight(group),
           s = "raw" => group = "GT",
           Becomes(Fast, e, p, s), UNCHANGED <<impl, group>>,
           wire' = Nil \/ Sent(wire'.m)
    PROVE  ReducedInv'
<1>1. /\ reg \in [Registers -> Loose(group) \cup {Nil}] /\ stage \in [Registers -> Stages]
      /\ \A r \in Registers : /\ Usable(r) => reg[r] \in Tight(group)
                              /\ stage[r] = "raw" => group = "GT"
  BY DEF ReducedInv
<1>2. reg' = [reg EXCEPT ![e] = p] /\ stage' = [stage EXCEPT ![e] = s]
  BY DEF Becomes
<1>3. reg' \in [Registers -> Loose(group) \cup {Nil}] /\ stage' \in [Registers -> Stages]
  BY <1>1, <1>2
<1>4. ASSUME NEW r \in Registers
      PROVE  /\ stage'[r] \in {"raw", "ready"} => reg'[r] \in Tight(group)
             /\ stage'[r] = "raw" => group = "GT"
  <2>1. CASE r = e
    <3>1. reg'[r] = p /\ stage'[r] = s
      BY <1>1, <1>2, <2>1
    <3> QED
      BY <3>1
  <2>2. CASE r # e
    <3>1. reg'[r] = reg[r] /\ stage'[r] = stage[r]
      BY <1>1, <1>2, <2>2
    <3> QED
      BY <1>1, <3>1 DEF Usable
  <2> QED
    BY <2>1, <2>2
<1> QED
  BY <1>3, <1>4 DEF ReducedInv, Usable, fast

\* A call that sets a reduced element.
LEMMA SetsKeeps ==
    ASSUME ReducedInv, fast, NEW e \in Registers, NEW p \in Tight(group), NEW s \in Stages,
           s = "raw" => group = "GT", Sets(Fast, e, p, s)
    PROVE  ReducedInv'
<1>1. p \in Loose(group) \cup {Nil}
  BY TightIsLoose DEF ReducedInv
<1>2. Becomes(Fast, e, p, s) /\ UNCHANGED <<impl, group>> /\ UNCHANGED wire
  BY DEF Sets, Call
<1>3. wire' = Nil \/ Sent(wire'.m)
  BY <1>2 DEF ReducedInv
<1> QED
  BY <1>1, <1>2, <1>3, BecomesKeeps

\* A method called with registers.
LEMMA MethodKeeps ==
    ASSUME ReducedInv, fast, NEW e \in Registers, NEW a \in Registers, Usable(a), NEW k \in Nat
    PROVE  /\ \A name \in {"ScalarMult", "Neg", "Set"} :
                  Method(Fast, name, e, a, Nil, k) \in Tight(group)
           /\ \A b \in Registers : Usable(b) => Method(Fast, "Add", e, a, b, k) \in Tight(group)
<1> DEFINE same == e = a
<1>1. same \in BOOLEAN
  OBVIOUS
<1>2. e # Nil /\ a # Nil
  BY CallsAssumption
<1>3. /\ group \in {"G1", "G2", "GT"} /\ reg[e] \in Loose(group) \cup {Nil}
      /\ reg[a] \in Tight(group)
  BY DEF ReducedInv
<1>4. \A name :
          Method(Fast, name, e, a, Nil, k)
              = C!Package[group].method[name]
                    [[e |-> reg[e], a |-> reg[a], b |-> Nil, k |-> k, same |-> same]]
  BY <1>2, FastPackage DEF Method
<1>5. \A b \in Registers :
          Method(Fast, "Add", e, a, b, k)
              = C!Package[group].method["Add"]
                    [[e |-> reg[e], a |-> reg[a], b |-> reg[b], k |-> k, same |-> same]]
  BY <1>2, FastPackage, CallsAssumption DEF Method
<1> HIDE DEF same
<1>6. ASSUME NEW name \in {"ScalarMult", "Neg", "Set"}
      PROVE  Method(Fast, name, e, a, Nil, k) \in Tight(group)
  <2>1. C!Package[group].method[name]
            [[e |-> reg[e], a |-> reg[a], b |-> Nil, k |-> k, same |-> same]] \in Tight(group)
    BY Zenon, <1>1, <1>3, MethodTight
  <2> QED
    BY <1>4, <2>1
<1>7. ASSUME NEW b \in Registers, Usable(b)
      PROVE  Method(Fast, "Add", e, a, b, k) \in Tight(group)
  <2>1. reg[b] \in Tight(group)
    BY <1>7 DEF ReducedInv
  <2>2. C!Package[group].method["Add"]
            [[e |-> reg[e], a |-> reg[a], b |-> reg[b], k |-> k, same |-> same]]
            \in Tight(group)
    BY <1>1, <1>3, <2>1, MethodTight
  <2> QED
    BY <1>5, <2>2
<1> QED
  BY <1>6, <1>7

\* The multiples of the generators.
LEMMA GeneratorsKeep ==
    ASSUME ReducedInv, fast, NEW k \in Scalars
    PROVE  /\ k \in Nat
           /\ \A e \in Registers : group # "GT" =>
                  Method(Fast, "ScalarBaseMult", e, Nil, Nil, k) \in Tight(group)
           /\ G1Times(Fast, k) \in Point(Fp) /\ G2Times(Fast, k) \in Point(Fp2)
<1>1. k \in Nat
  BY CallsAssumption, Params
<1>2. ASSUME NEW e \in Registers, group # "GT"
      PROVE  Method(Fast, "ScalarBaseMult", e, Nil, Nil, k) \in Tight(group)
  <2> DEFINE same == e = Nil
  <2>1. same \in BOOLEAN
    OBVIOUS
  <2>2. e # Nil /\ group \in {"G1", "G2"} /\ (reg[e] = Nil \/ reg[e] \in Loose(group))
    BY <1>2, CallsAssumption DEF ReducedInv
  <2>3. Method(Fast, "ScalarBaseMult", e, Nil, Nil, k)
            = C!Package[group].method["ScalarBaseMult"]
                  [[e |-> reg[e], a |-> Nil, b |-> Nil, k |-> k, same |-> same]]
    BY <2>2, FastPackage DEF Method
  <2> HIDE DEF same
  <2>4. C!Package[group].method["ScalarBaseMult"]
            [[e |-> reg[e], a |-> Nil, b |-> Nil, k |-> k, same |-> same]] \in Tight(group)
    BY <1>1, <2>1, <2>2, BaseTight
  <2> QED
    BY <2>3, <2>4
<1>3. ASSUME NEW g \in {"G1", "G2"}
      PROVE  C!Package[g].method["ScalarBaseMult"][Base(k)] \in Tight(g)
  <2>1. FALSE \in BOOLEAN
    OBVIOUS
  <2>2. C!Package[g].method["ScalarBaseMult"]
            [[e |-> Nil, a |-> Nil, b |-> Nil, k |-> k, same |-> FALSE]] \in Tight(g)
    BY <1>1, <2>1, BaseTight
  <2> QED
    BY <2>2 DEF Base
<1>4. G1Times(Fast, k) \in Point(Fp)
  <2>1. C!Package["G1"].method["ScalarBaseMult"][Base(k)] \in Tight("G1")
    BY <1>3
  <2> QED
    BY <2>1, FastPackage DEF G1Times, Tight
<1>5. G2Times(Fast, k) \in Point(Fp2)
  <2>1. C!Package["G2"].method["ScalarBaseMult"][Base(k)] \in Tight("G2")
    BY <1>3
  <2> QED
    BY <2>1, FastPackage DEF G2Times, Tight
<1> QED
  BY <1>1, <1>2, <1>4, <1>5

\* The calls that read or write bytes.
LEMMA MarshalKeeps ==
    ASSUME ReducedInv, fast, NEW e \in Registers, Marshal(Fast, e) PROVE ReducedInv'
<1> DEFINE result == MarshalOf(Fast, reg[e])
<1>1. /\ stage[e] = "ready" /\ Becomes(Fast, e, result.p, "ready")
      /\ wire' = [m |-> result.m, log |-> Log(Fast.wires[group], result.m)]
      /\ UNCHANGED <<impl, group>>
  BY DEF Marshal, Call
<1>2. group \in {"G1", "G2", "GT"} /\ reg[e] \in Tight(group)
  BY <1>1 DEF ReducedInv, Usable
<1>3. result = C!Package[group].marshal[reg[e]]
  BY FastPackage DEF MarshalOf
<1> HIDE DEF result
<1>4. result.p \in Tight(group) /\ Sent(result.m)
  BY <1>2, <1>3, MarshalTight
<1>5. wire'.m = result.m
  BY <1>1
<1>6. result.p \in Loose(group) \cup {Nil} /\ "ready" \in Stages
  BY <1>2, <1>4, TightIsLoose DEF Stages
<1> QED
  BY <1>1, <1>4, <1>5, <1>6, BecomesKeeps

\* Unmarshal, of any bytes.
LEMMA ReadsKeeps ==
    ASSUME ReducedInv, fast, NEW e \in Registers, NEW m \in Seq(Byte), Reads(Fast, e, m)
    PROVE  ReducedInv'
<1> DEFINE result == UnmarshalOf(Fast, reg[e], m)
           s == IF result.ok THEN "ready" ELSE IF result.p = reg[e] THEN stage[e] ELSE "spoilt"
<1>1. Becomes(Fast, e, result.p, s) /\ UNCHANGED <<impl, group>> /\ UNCHANGED wire
  BY DEF Reads, Call
<1>2. /\ group \in {"G1", "G2", "GT"} /\ reg[e] \in Loose(group) \cup {Nil}
      /\ stage[e] \in Stages /\ (Usable(e) => reg[e] \in Tight(group))
      /\ (stage[e] = "raw" => group = "GT")
  BY DEF ReducedInv
<1>3. result = C!Package[group].unmarshal[reg[e]][m]
  BY FastPackage DEF UnmarshalOf
<1> HIDE DEF result
<1>4. /\ result.ok => result.p \in Tight(group)
      /\ result.p = reg[e] \/ result.p \in Loose(group)
  BY <1>2, <1>3, UnmarshalTight
<1>5. result.p \in Loose(group) \cup {Nil}
  BY <1>2, <1>4
<1>6. s \in Stages
  BY <1>2 DEF Stages
<1>7. /\ s \in {"raw", "ready"} => result.p \in Tight(group)
      /\ s = "raw" => group = "GT"
  BY <1>2, <1>4 DEF Usable
<1> HIDE DEF s
<1>8. wire' = Nil \/ Sent(wire'.m)
  BY <1>1 DEF ReducedInv
<1> QED
  BY <1>1, <1>5, <1>6, <1>7, <1>8, BecomesKeeps

\* Pair and Miller.
LEMMA PairsKeep ==
    ASSUME ReducedInv, fast, NEW e \in Registers, NEW i \in Scalars, NEW j \in Scalars,
           Pair(Fast, e, i, j) \/ Miller(Fast, e, i, j)
    PROVE  ReducedInv'
<1> DEFINE p == G1Times(Fast, i)
           q == G2Times(Fast, j)
<1>1. /\ group = "GT"
      /\ Sets(Fast, e, C!Package.pair[p][q], "ready") \/ Sets(Fast, e, C!Package.miller[p][q], "raw")
  BY FastPackage DEF Pair, Miller
<1>2. p \in Point(Fp) /\ q \in Point(Fp2)
  BY GeneratorsKeep
<1> HIDE DEF p, q
<1>3. C!Package.pair[p][q] \in Fp12 /\ C!Package.miller[p][q] \in Fp12
  BY <1>2, One12In, PairsTight
<1>4. C!Package.pair[p][q] \in Tight(group) /\ C!Package.miller[p][q] \in Tight(group)
  BY <1>1, <1>3 DEF Tight
<1>5. "ready" \in Stages /\ "raw" \in Stages
  BY DEF Stages
<1> QED
  BY <1>1, <1>4, <1>5, SetsKeeps

\* Finalize, of what Miller has left.
LEMMA FinalizeKeeps ==
    ASSUME ReducedInv, fast, NEW e \in Registers, Finalize(Fast, e)
    PROVE  ReducedInv'
<1>1. stage[e] = "raw" /\ Sets(Fast, e, C!Package.finalize[reg[e]], "ready")
  BY FastPackage DEF Finalize
<1>2. group = "GT" /\ reg[e] \in Fp12
  BY <1>1 DEF ReducedInv, Usable, Tight
<1>3. C!Package.finalize[reg[e]] \in Fp12
  BY <1>2, CurveConstants, TwistConstants, PairsTight
<1>4. C!Package.finalize[reg[e]] \in Tight(group) /\ "ready" \in Stages
  BY <1>2, <1>3 DEF Tight, Stages
<1> QED
  BY <1>1, <1>4, SetsKeeps

\* Every call of the build with bn256/cloudflare.
LEMMA CallsKeep == ASSUME ReducedInv, fast, Calls(Fast) PROVE ReducedInv'
<1>1. ASSUME NEW e \in Registers, NEW k \in Scalars, ScalarBaseMult(Fast, e, k)
      PROVE  ReducedInv'
  <2> DEFINE p == Method(Fast, "ScalarBaseMult", e, Nil, Nil, k)
  <2>1. group # "GT" /\ Sets(Fast, e, p, "ready")
    BY <1>1 DEF ScalarBaseMult
  <2>2. p \in Tight(group)
    BY <2>1, GeneratorsKeep
  <2> HIDE DEF p
  <2> QED
    BY <2>1, <2>2, SetsKeeps DEF Stages
<1>2. ASSUME NEW e \in Registers, Random(Fast, e) PROVE ReducedInv'
  BY <1>1, <1>2 DEF Random, randomK
<1>3. ASSUME NEW a \in Registers, Usable(a)
      PROVE  stage[a] \in Stages /\ (stage[a] = "raw" => group = "GT")
  BY DEF ReducedInv
<1>4. ASSUME NEW e \in Registers, NEW a \in Registers, NEW k \in Scalars,
             ScalarMult(Fast, e, a, k)
      PROVE  ReducedInv'
  <2> DEFINE p == Method(Fast, "ScalarMult", e, a, Nil, k)
  <2>1. Usable(a) /\ Sets(Fast, e, p, stage[a])
    BY <1>4 DEF ScalarMult
  <2>2. p \in Tight(group)
    BY <2>1, GeneratorsKeep, MethodKeeps
  <2> HIDE DEF p
  <2> QED
    BY <1>3, <2>1, <2>2, SetsKeeps
<1>5. ASSUME NEW e \in Registers, NEW a \in Registers, NEW b \in Registers, Add(Fast, e, a, b)
      PROVE  ReducedInv'
  <2> DEFINE p == Method(Fast, "Add", e, a, b, 0)
  <2>1. Usable(a) /\ stage[b] = stage[a] /\ Sets(Fast, e, p, stage[a])
    BY <1>5 DEF Add
  <2>2. Usable(b)
    BY <2>1 DEF Usable
  <2>3. p \in Tight(group)
    BY <2>1, <2>2, MethodKeeps
  <2> HIDE DEF p
  <2> QED
    BY <1>3, <2>1, <2>3, SetsKeeps
<1>6. ASSUME NEW e \in Registers, NEW a \in Registers, Neg(Fast, e, a) PROVE ReducedInv'
  <2> DEFINE p == Method(Fast, "Neg", e, a, Nil, 0)
  <2>1. Usable(a) /\ Sets(Fast, e, p, stage[a])
    BY <1>6 DEF Neg
  <2>2. p \in Tight(group)
    BY <2>1, MethodKeeps
  <2> HIDE DEF p
  <2> QED
    BY <1>3, <2>1, <2>2, SetsKeeps
<1>7. ASSUME NEW e \in Registers, NEW a \in Registers, Set(Fast, e, a) PROVE ReducedInv'
  <2> DEFINE p == Method(Fast, "Set", e, a, Nil, 0)
  <2>1. Usable(a) /\ Sets(Fast, e, p, stage[a])
    BY <1>7 DEF Set
  <2>2. p \in Tight(group)
    BY <2>1, MethodKeeps
  <2> HIDE DEF p
  <2> QED
    BY <1>3, <2>1, <2>2, SetsKeeps
<1>8. ASSUME NEW e \in Registers, Unmarshal(Fast, e) \/ UnmarshalForged(Fast, e)
      PROVE  ReducedInv'
  <2>1. wire # Nil /\ Sent(wire.m)
    BY <1>8 DEF Unmarshal, UnmarshalForged, ReducedInv
  <2>2. \A m \in Forged : m \in Seq(Byte)
    BY <2>1, ForgedIsBytes
  <2>3. wire.m \in Seq(Byte)
    BY <2>1 DEF Sent
  <2> QED
    BY <1>8, <2>2, <2>3, ReadsKeeps DEF Unmarshal, UnmarshalForged
<1>9. ASSUME NEW a \in Registers, NEW b \in Registers, Same(Fast, a, b) PROVE ReducedInv'
  <2>1. UNCHANGED <<impl, group, reg, stage, wire>>
    BY <1>9 DEF Same, Call
  <2> QED
    BY <2>1 DEF ReducedInv, fast, Usable
<1> QED
  BY <1>1, <1>2, <1>4, <1>5, <1>6, <1>7, <1>8, <1>9, PairsKeep, FinalizeKeeps, MarshalKeeps
     DEF Calls

\* Every call asks for its build, and leaves it.
LEMMA CallsOfBuild == ASSUME NEW B, Calls(B) PROVE MayCall(B) /\ UNCHANGED <<impl, group>>
<1>1. ASSUME MayCall(B), \E result : Call(result) PROVE MayCall(B) /\ UNCHANGED <<impl, group>>
  BY <1>1 DEF Call
<1> QED
  BY <1>1
     DEF Calls, ScalarBaseMult, Random, ScalarMult, Add, Neg, Set, Pair, Miller, Finalize,
         Marshal, Unmarshal, UnmarshalForged, Reads, Sets, Same

\* With bn256/cloudflare, whatever the calls and their order, failed Unmarshals
\* and reused receivers included, the coordinates of every usable element are
\* reduced, so that comparing them word by word is comparing elements: for every
\* BN parameter, word size and number of registers.
THEOREM AlwaysReduced == Spec => []Reduced
<1>1. Init => ReducedInv
  BY DEF Init, ReducedInv, Usable, Stages
<1>2. ReducedInv /\ [Next]_vars => ReducedInv'
  <2> SUFFICES ASSUME ReducedInv, [Next]_vars PROVE ReducedInv'
    OBVIOUS
  <2>1. CASE Calls(Fast)
    <3>1. fast
      BY <2>1, CallsOfBuild, FastPackage, PackageName DEF MayCall, fast
    <3> QED
      BY <2>1, <3>1, CallsKeep
  <2>2. CASE Calls(Slow)
    <3>1. ~fast /\ impl' = impl /\ group' = group
      BY <2>2, CallsOfBuild, SlowOnly
    <3> QED
      BY <3>1 DEF ReducedInv, fast
  <2>3. CASE UNCHANGED vars
    BY <2>3 DEF ReducedInv, vars, fast, Usable
  <2> QED
    BY <2>1, <2>2, <2>3 DEF Next
<1>3. ReducedInv => Reduced
  BY DEF ReducedInv, Reduced, Tight
<1> QED
  BY <1>1, <1>2, <1>3, PTL DEF Spec

----------------------------------------------------------------------------
(* What the words stand for: congruence modulo p.                            *)

\* x and y differ by a multiple of p.
Cong(x, y) == \E k \in Int : x = y + P * k

\* A remainder is congruent to its number,
LEMMA CongResidue == ASSUME NEW x \in Int PROVE Cong(x, x % P) /\ Cong(x % P, x)
<1>1. P \in Nat \ {0}
  BY Params
<1>2. x % P \in Int /\ x \div P \in Int /\ x = P * (x \div P) + (x % P)
  BY <1>1, ModRange
<1>3. x = (x % P) + P * (x \div P) /\ x % P = x + P * (-(x \div P)) /\ -(x \div P) \in Int
  <2>1. \A p, q, r, y \in Int : y = p * q + r => y = r + p * q /\ r = y + p * (-q) /\ -q \in Int
    OBVIOUS
  <2> QED
    BY <1>1, <1>2, <2>1
<1> QED
  BY <1>2, <1>3 DEF Cong

\* congruence is transitive
LEMMA CongTrans ==
    ASSUME NEW x \in Int, NEW y \in Int, NEW z \in Int, Cong(x, y), Cong(y, z)
    PROVE  Cong(x, z)
<1>1. PICK k \in Int : x = y + P * k
  BY DEF Cong
<1>2. PICK l \in Int : y = z + P * l
  BY DEF Cong
<1>3. \A p, i, j, w \in Int : (w + p * j) + p * i = w + p * (i + j)
  OBVIOUS
<1>4. x = z + P * (k + l) /\ k + l \in Int
  BY <1>1, <1>2, <1>3, Params
<1> QED
  BY <1>4 DEF Cong

\* and kept by products,
LEMMA CongTimes ==
    ASSUME NEW x \in Int, NEW y \in Int, NEW z \in Int, Cong(x, y)
    PROVE  Cong(x * z, y * z)
<1>1. PICK k \in Int : x = y + P * k
  BY DEF Cong
<1>2. \A p, i, v, w \in Int : (v + p * i) * w = v * w + p * (i * w) /\ i * w \in Int
  OBVIOUS
<1>3. x * z = y * z + P * (k * z) /\ k * z \in Int
  BY <1>1, <1>2, Params
<1> QED
  BY <1>3 DEF Cong

\* and congruent elements are equal.
LEMMA CongEqual == ASSUME NEW x \in Fp, NEW y \in Fp, Cong(x, y) PROVE x = y
<1>1. PICK k \in Int : x = y + P * k
  BY DEF Cong
<1>2. x \in Int /\ y \in Int /\ P \in Int /\ 0 <= x /\ x < P /\ 0 <= y /\ y < P
  BY Params DEF Fp
<1>3. \A p, i, v, w \in Int :
          v = w + p * i /\ 0 <= v /\ v < p /\ 0 <= w /\ w < p => i = 0
  OBVIOUS
<1>4. k = 0
  BY <1>1, <1>2, <1>3
<1> QED
  BY <1>1, <1>2, <1>4

\* R has an inverse modulo p.
LEMMA RInverse == \E s \in Int : Cong(R * s, 1)
<1>1. R \in Nat \ {0} /\ P \in Nat
  BY Params
<1>2. PICK n \in 1 .. R - 1 : (n * P) % R = 1
  BY ParamsAssumption
<1>3. n * P \in Int /\ n \in Int
  BY <1>1
<1>4. (n * P) \div R \in Int /\ n * P = R * ((n * P) \div R) + 1
  BY <1>1, <1>2, <1>3, ModRange
<1>5. \A r, p, q, i \in Int : i * p = r * q + 1 => r * (-q) = 1 + p * (-i)
  OBVIOUS
<1>6. R * (-((n * P) \div R)) = 1 + P * (-n) /\ -((n * P) \div R) \in Int /\ -n \in Int
  BY <1>1, <1>3, <1>4, <1>5
<1> QED
  BY <1>6 DEF Cong

\* Factors R cancel.
LEMMA CancelR ==
    ASSUME NEW x \in Fp, NEW y \in Fp, Cong(x * R, y * R)
    PROVE  x = y
<1>1. PICK s \in Int : Cong(R * s, 1)
  BY RInverse
<1>2. x \in Int /\ y \in Int /\ R \in Int
  BY Params DEF Fp
<1>3. \A z \in Int : Cong((z * R) * s, z) /\ Cong(z, (z * R) * s) /\ (z * R) * s \in Int
  <2>1. ASSUME NEW z \in Int
        PROVE  Cong((z * R) * s, z) /\ Cong(z, (z * R) * s) /\ (z * R) * s \in Int
    <3>1. PICK k \in Int : R * s = 1 + P * k
      BY <1>1 DEF Cong
    <3>2. \A p, r, i, q, w \in Int :
              r * i = 1 + p * q => /\ (w * r) * i = w + p * (w * q)
                                   /\ w = (w * r) * i + p * (-(w * q))
                                   /\ w * q \in Int /\ -(w * q) \in Int /\ (w * r) * i \in Int
      <4>1. \A p, r, i, q, w \in Int : (w * r) * i = w * (r * i)
        OBVIOUS
      <4>2. \A p, q, w \in Int : w * (1 + p * q) = w + p * (w * q)
        OBVIOUS
      <4> QED
        BY <4>1, <4>2
    <3>3. /\ (z * R) * s = z + P * (z * k)
          /\ z = (z * R) * s + P * (-(z * k))
          /\ z * k \in Int /\ -(z * k) \in Int /\ (z * R) * s \in Int
      BY <1>2, <3>1, <3>2, Params
    <3> QED
      BY <3>3 DEF Cong
  <2> QED
    BY <2>1
<1>4. Cong((x * R) * s, (y * R) * s)
  BY <1>2, CongTimes, ProductInt
<1>5. Cong(x, (y * R) * s)
  BY <1>2, <1>3, <1>4, CongTrans
<1>6. Cong(x, y)
  BY <1>2, <1>3, <1>5, CongTrans
<1> QED
  BY <1>6, CongEqual

\* Two numbers with the same remainder are congruent.
LEMMA CongSame ==
    ASSUME NEW x \in Int, NEW y \in Int, x % P = y % P PROVE Cong(x, y)
<1>1. x % P \in Int
  BY Residue DEF Fp
<1>2. Cong(x, x % P) /\ Cong(x % P, y)
  BY CongResidue
<1> QED
  BY <1>1, <1>2, CongTrans

\* Montgomery form loses nothing: encoding what montDecode gave is the element
\* again (gfp.go, montEncode and montDecode, that Marshal and Unmarshal go through).
THEOREM MontExact == ASSUME NEW a \in Fp PROVE C!MontEncode(C!MontDecode(a)) = a
<1> DEFINE d == C!MontDecode(a)
           e == C!MontEncode(d)
<1>1. a \in Word /\ 1 \in Word /\ 1 \in Fp /\ C!r2 \in Fp /\ C!r2 \in Word /\ a \in Int /\ C!r2 \in Int
  BY FieldConstants, ElementIsWord
<1>2. d \in Fp /\ (d * R) % P = (a * 1) % P
  BY <1>1, GfpMulExact DEF C!MontDecode
<1>3. d \in Word /\ d \in Int
  BY <1>2, ElementIsWord
<1> HIDE DEF d
<1>4. e \in Fp /\ (e * R) % P = (d * C!r2) % P
  BY <1>1, <1>2, <1>3, GfpMulExact DEF C!MontEncode
<1>5. e \in Int
  BY <1>4, ElementIsWord
<1> HIDE DEF e
<1>6. R \in Int /\ R % P \in Int
  BY Params, Residue DEF Fp
<1> DEFINE rr == (R % P) * (R % P)
<1>7. C!r2 = rr % P /\ rr \in Int
  BY <1>6, SameParams, ProductInt DEF C!r2
<1> HIDE DEF rr
<1>8. Cong(R * R, rr) /\ Cong(rr, R * R) /\ R * R \in Int
  <2>1. Cong(R, R % P) /\ Cong(R % P, R)
    BY <1>6, CongResidue
  <2>2. Cong(R * R, (R % P) * R) /\ Cong((R % P) * R, R * R)
    BY <1>6, <2>1, CongTimes
  <2>3. Cong(R * (R % P), (R % P) * (R % P)) /\ Cong((R % P) * (R % P), R * (R % P))
    BY <1>6, <2>1, CongTimes
  <2>4. R * (R % P) = (R % P) * R
    BY <1>6
  <2>5. R * R \in Int /\ (R % P) * R \in Int /\ R * (R % P) \in Int /\ (R % P) * (R % P) \in Int
    BY <1>6, ProductInt
  <2>6. Cong(R * R, (R % P) * (R % P)) /\ Cong((R % P) * (R % P), R * R)
    BY <2>2, <2>3, <2>4, <2>5, CongTrans
  <2> QED
    BY <2>5, <2>6 DEF rr
<1>9. Cong(C!r2, R * R)
  BY <1>1, <1>7, <1>8, CongResidue, CongTrans
<1>10. Cong(d * C!r2, a * R)
  <2>1. Cong(C!r2 * d, (R * R) * d)
    BY <1>1, <1>3, <1>8, <1>9, CongTimes
  <2>2. Cong(d * R, a)
    <3>1. a * 1 = a /\ d * R \in Int
      BY <1>1, <1>3, <1>6, ProductInt
    <3> QED
      BY <1>1, <1>2, <3>1, CongSame
  <2>3. Cong((d * R) * R, a * R)
    BY <1>1, <1>3, <1>6, <2>2, CongTimes, ProductInt
  <2>4. C!r2 * d = d * C!r2 /\ (R * R) * d = (d * R) * R
    <3>1. \A x, y, z \in Int : x * y = y * x /\ (z * z) * y = (y * z) * z
      OBVIOUS
    <3> QED
      BY <1>1, <1>3, <1>6, <3>1
  <2>5. d * C!r2 \in Int /\ (d * R) * R \in Int /\ a * R \in Int
    BY <1>1, <1>3, <1>6, ProductInt
  <2> QED
    BY <2>1, <2>3, <2>4, <2>5, CongTrans
<1>11. Cong(e * R, d * C!r2)
  BY <1>1, <1>3, <1>4, <1>5, <1>6, CongSame, ProductInt
<1>12. Cong(e * R, a * R)
  BY <1>1, <1>3, <1>5, <1>6, <1>10, <1>11, CongTrans, ProductInt
<1>13. e = a
  BY <1>4, <1>12, CancelR
<1> QED
  BY <1>13 DEF e, d

----------------------------------------------------------------------------
(* What the bytes stand for.                                                 *)

\* Dividing twice is dividing by the product.
LEMMA DivDiv ==
    ASSUME NEW n \in Nat, NEW c \in Nat \ {0}, NEW b \in Nat \ {0}
    PROVE  n \div (b * c) = (n \div c) \div b
<1> DEFINE q == n \div c
           r == n % c
           h == q \div b
           l == q % b
<1>1. q \in Int /\ r \in 0 .. c - 1 /\ n = c * q + r
  BY ModRange
<1> HIDE DEF q, r
<1>2. h \in Int /\ l \in 0 .. b - 1 /\ q = b * h + l
  BY <1>1, ModRange
<1> HIDE DEF h, l
<1>3. n = (b * c) * h + (c * l + r)
  <2>1. \A x, y, z, w, v, u \in Int : w = y * z + v /\ x = u * w => x = (y * u) * z + u * v
    OBVIOUS
  <2>2. c * q = (b * c) * h + c * l
    BY <1>1, <1>2, <2>1
  <2>3. c * q \in Int /\ (b * c) * h \in Int /\ c * l \in Int
    BY <1>1, <1>2, ProductInt
  <2> QED
    BY <1>1, <2>2, <2>3
<1>4. c * l + r \in 0 .. b * c - 1 /\ b * c \in Nat \ {0}
  <2>1. \A x, y, z, w \in Nat :
            x <= y - 1 /\ z <= w - 1 => w * x + z \in Nat /\ w * x + z <= y * w - 1
    OBVIOUS
  <2>2. \A x, y \in Nat \ {0} : x * y \in Nat \ {0}
    OBVIOUS
  <2>3. l \in Nat /\ l <= b - 1 /\ r \in Nat /\ r <= c - 1
    BY <1>1, <1>2
  <2>4. c * l + r \in Nat /\ c * l + r <= b * c - 1
    BY <2>1, <2>3
  <2>5. b * c \in Nat \ {0}
    BY <2>2
  <2> QED
    BY <2>4, <2>5
<1>5. n \div (b * c) = h
  <2> DEFINE w == b * c
             x == c * l + r
  <2>1. w \in Nat \ {0} /\ x \in 0 .. w - 1 /\ n = w * h + x
    BY <1>3, <1>4
  <2> HIDE DEF w, x
  <2>2. n \div w = h
    BY <1>2, <2>1, ModIs
  <2> QED
    BY <2>2 DEF w
<1> QED
  BY <1>5 DEF h, q

\* Reading the bytes of a word gives the word.
LEMMA SetFixed == ASSUME NEW n \in Word PROVE SetBytes(FixedBytes(n)) = n
<1> DEFINE bytes == FixedBytes(n)
           F == SetLoop!FoldValues(0, 0, bytes)
           v(k) == F[1 .. k]
           S == {k \in Nat : k <= CoordBytes => v(k) = n \div Power(ByteBase)[CoordBytes - k]}
<1>1. SetBytes(bytes) = F[DOMAIN bytes]
  BY DEF SetBytes, FoldLeft, MapThenFoldSet, Max, SetLoop!FoldValues, SetStep
<1>2. DOMAIN bytes = 1 .. CoordBytes
  BY DEF FixedBytes
<1>3. \A i \in 1 .. CoordBytes : bytes[i] = (n \div Power(ByteBase)[CoordBytes - i]) % ByteBase
  BY DEF FixedBytes
<1>4. CoordBytes \in Nat /\ ByteBase \in Nat \ {0} /\ n \in Nat
  BY ParamsAssumption DEF Word
<1> HIDE DEF bytes
<1>5. v(0) = 0 /\ \A k \in 0 .. CoordBytes - 1 : v(k + 1) = SetStep(0, bytes[k + 1], v(k))
  BY <1>2, <1>4, SetLoop!FoldUnfolds
<1> HIDE DEF F, v
<1>6. 0 \in S
  <2>1. n \div R = 0
    <3>1. n \in 0 .. R - 1 /\ R \in Nat \ {0}
      BY Params DEF Word
    <3> QED
      BY <3>1, ModSmall
  <2>2. CoordBytes - 0 = CoordBytes
    BY <1>4
  <2> QED
    BY <1>5, <2>1, <2>2 DEF R
<1>7. ASSUME NEW k \in Nat, k \in S PROVE k + 1 \in S
  <2>1. SUFFICES ASSUME k + 1 <= CoordBytes
                 PROVE  v(k + 1) = n \div Power(ByteBase)[CoordBytes - (k + 1)]
    OBVIOUS
  <2> DEFINE c == Power(ByteBase)[CoordBytes - (k + 1)]
             q == n \div c
  <2>2. v(k) = n \div Power(ByteBase)[CoordBytes - k]
    BY <1>4, <1>7, <2>1
  <2>3. CoordBytes - (k + 1) \in Nat /\ CoordBytes - k = (CoordBytes - (k + 1)) + 1
    BY <1>4, <2>1
  <2>4. c \in Nat \ {0} /\ Power(ByteBase)[CoordBytes - k] = ByteBase * c
    BY <1>4, <2>3, PowerUnfolds, Params
  <2> HIDE DEF c
  <2>5. q \in Int
    BY <1>4, <2>4, ModRange
  <2>6. v(k) = q \div ByteBase
    BY <1>4, <2>2, <2>4, DivDiv
  <2>7. bytes[k + 1] = q % ByteBase
    <3>1. k + 1 \in 1 .. CoordBytes
      BY <1>4, <2>1
    <3> QED
      BY <1>3, <3>1 DEF c
  <2>8. v(k + 1) = ByteBase * v(k) + bytes[k + 1]
    <3>1. k \in 0 .. CoordBytes - 1
      BY <1>4, <2>1
    <3> QED
      BY <1>5, <3>1 DEF SetStep
  <2> HIDE DEF q
  <2>9. v(k + 1) = q
    BY <1>4, <2>5, <2>6, <2>7, <2>8, ModRange
  <2> QED
    BY <2>9 DEF q, c
<1> HIDE DEF S
<1>8. CoordBytes \in S
  BY <1>4, <1>6, <1>7, NatInduct
<1>9. v(CoordBytes) = n
  <2>1. CoordBytes - CoordBytes = 0 /\ Power(ByteBase)[0] = 1 /\ n \div 1 = n
    BY <1>4, PowerUnfolds
  <2> QED
    BY <1>4, <1>8, <2>1 DEF S
<1> QED
  BY <1>1, <1>2, <1>9 DEF v, bytes

\* Byte j of coordinate i of the first k is where Unmarshal looks for it.
Placed(m, coords, k) ==
    /\ m \in Seq(Byte) /\ Len(m) = k * CoordBytes
    /\ \A i \in 1 .. k, j \in 1 .. CoordBytes :
           m[(i - 1) * CoordBytes + j] = FixedBytes(coords[i])[j]

\* Marshal puts every byte in that place.
LEMMA WirePlaced ==
    ASSUME NEW n \in Nat, NEW coords \in [1 .. n -> Int]
    PROVE  Placed(Wire(coords), coords, n)
<1> DEFINE F == WireLoop!FoldValues(0, << >>, coords)
           v(k) == F[1 .. k]
           S == {k \in Nat : k <= n => Placed(v(k), coords, k)}
<1>1. Wire(coords) = F[DOMAIN coords]
  BY DEF Wire, FoldLeft, MapThenFoldSet, Max, WireLoop!FoldValues, WireStep
<1>2. DOMAIN coords = 1 .. n
  OBVIOUS
<1>3. v(0) = << >> /\ \A k \in 0 .. n - 1 : v(k + 1) = WireStep(0, coords[k + 1], v(k))
  <2> DEFINE empty == << >>
  <2> HIDE DEF empty
  <2>1. /\ WireLoop!FoldValues(0, empty, coords)[1 .. 0] = empty
        /\ \A k \in 0 .. n - 1 : WireLoop!FoldValues(0, empty, coords)[1 .. k + 1]
              = WireStep(0, coords[k + 1], WireLoop!FoldValues(0, empty, coords)[1 .. k])
    BY <1>2, WireLoop!FoldUnfolds
  <2> QED
    BY <2>1 DEF empty
<1> HIDE DEF F, v
<1>4. CoordBytes \in Nat
  BY ParamsAssumption
<1>5. 0 \in S
  <2> DEFINE empty == << >>
  <2>1. empty \in Seq(Byte) /\ Len(empty) = 0 * CoordBytes
    BY <1>4
  <2>2. v(0) = empty /\ 1 .. 0 = {}
    BY <1>3
  <2> HIDE DEF empty
  <2>3. Placed(empty, coords, 0)
    BY <2>1, <2>2 DEF Placed
  <2> QED
    BY <2>2, <2>3
<1>6. ASSUME NEW k \in Nat, k \in S PROVE k + 1 \in S
  <2>1. SUFFICES ASSUME k + 1 <= n PROVE Placed(v(k + 1), coords, k + 1)
    OBVIOUS
  <2> DEFINE m == v(k)
             w == FixedBytes(coords[k + 1])
  <2>2. Placed(m, coords, k) /\ k \in 0 .. n - 1 /\ coords[k + 1] \in Int
    BY <1>6, <2>1
  <2>3. v(k + 1) = m \o w
    BY <1>3, <2>2 DEF WireStep
  <2>4. w \in Seq(Byte) /\ Len(w) = CoordBytes
    BY <2>2, FixedBytesIs
  <2>5. m \in Seq(Byte) /\ Len(m) = k * CoordBytes
    BY <2>2 DEF Placed
  <2>6. ASSUME NEW i \in 1 .. k + 1, NEW j \in 1 .. CoordBytes
        PROVE  (m \o w)[(i - 1) * CoordBytes + j] = FixedBytes(coords[i])[j]
    <3> DEFINE at == (i - 1) * CoordBytes + j
    <3>1. CASE i <= k
      <4>1. at \in 1 .. Len(m)
        <5>1. \A x, y, c \in Nat : x <= y => x * c <= y * c
          OBVIOUS
        <5>2. i * CoordBytes <= k * CoordBytes /\ i * CoordBytes = (i - 1) * CoordBytes + CoordBytes
          BY <1>4, <3>1, <5>1
        <5>3. (i - 1) * CoordBytes \in Nat /\ i * CoordBytes \in Nat /\ k * CoordBytes \in Nat
          BY <1>4
        <5> QED
          BY <1>4, <2>5, <5>2, <5>3
      <4>2. m[at] = FixedBytes(coords[i])[j]
        BY <2>2, <3>1 DEF Placed
      <4> HIDE DEF m, w, at
      <4>3. (m \o w)[at] = m[at]
        BY <2>4, <2>5, <4>1
      <4> QED
        BY <4>2, <4>3 DEF at
    <3>2. CASE ~(i <= k)
      <4>1. i = k + 1 /\ (i - 1) * CoordBytes = Len(m)
        BY <1>4, <2>5, <3>2
      <4>2. at = Len(m) + j
        BY <4>1
      <4> HIDE DEF m, w, at
      <4>3. (m \o w)[Len(m) + j] = w[j]
        BY <1>4, <2>4, <2>5
      <4> QED
        BY <4>1, <4>2, <4>3 DEF at, w
    <3> QED
      BY <3>1, <3>2
  <2>7. (k + 1) * CoordBytes = k * CoordBytes + CoordBytes
    BY <1>4
  <2>8. \A s, t \in Seq(Byte) : s \o t \in Seq(Byte) /\ Len(s \o t) = Len(s) + Len(t)
    OBVIOUS
  <2> HIDE DEF m, w
  <2>9. m \o w \in Seq(Byte) /\ Len(m \o w) = (k + 1) * CoordBytes
    BY <2>4, <2>5, <2>7, <2>8
  <2> DEFINE joined == m \o w
  <2>10. /\ joined \in Seq(Byte) /\ Len(joined) = (k + 1) * CoordBytes
         /\ \A i \in 1 .. k + 1, j \in 1 .. CoordBytes :
                joined[(i - 1) * CoordBytes + j] = FixedBytes(coords[i])[j]
    BY <2>6, <2>9
  <2>11. v(k + 1) = joined
    BY <2>3
  <2> HIDE DEF joined
  <2> QED
    BY <2>10, <2>11 DEF Placed
<1> HIDE DEF S
<1>7. n \in S
  BY <1>5, <1>6, NatInduct
<1>8. Placed(v(n), coords, n)
  BY <1>7 DEF S
<1> QED
  BY <1>1, <1>2, <1>8 DEF v

\* A coordinate is read where it was written.
LEMMA CoordinateRead ==
    ASSUME NEW n \in Nat, NEW coords \in [1 .. n -> Word], NEW i \in 1 .. n
    PROVE  Coordinate(Wire(coords), i - 1) = coords[i]
<1> DEFINE m == Wire(coords)
           first == (i - 1) * CoordBytes + 1
           last == ((i - 1) + 1) * CoordBytes
           s == SubSeq(m, first, last)
<1>1. CoordBytes \in Nat \ {0} /\ coords[i] \in Word
  BY ParamsAssumption
<1>2. Placed(m, coords, n)
  <2>1. coords \in [1 .. n -> Int]
    BY Params DEF Word
  <2> QED
    BY <2>1, WirePlaced
<1> HIDE DEF m
<1>3. first \in Nat \ {0} /\ last \in Nat /\ last <= Len(m) /\ last - first + 1 = CoordBytes
  <2>1. \A x, y, c \in Nat : x <= y => x * c <= y * c
    OBVIOUS
  <2>2. (i - 1) + 1 = i /\ i * CoordBytes <= n * CoordBytes
    BY <1>1, <2>1
  <2>3. i * CoordBytes = (i - 1) * CoordBytes + CoordBytes
    BY <1>1
  <2>4. (i - 1) * CoordBytes \in Nat /\ i * CoordBytes \in Nat /\ n * CoordBytes \in Nat
    BY <1>1
  <2>5. Len(m) = n * CoordBytes
    BY <1>2 DEF Placed
  <2> QED
    BY <1>1, <2>2, <2>3, <2>4, <2>5
<1>4. \A j \in 1 .. CoordBytes : m[first + j - 1] = FixedBytes(coords[i])[j]
  <2>1. ASSUME NEW j \in 1 .. CoordBytes PROVE m[first + j - 1] = FixedBytes(coords[i])[j]
    <3>1. first + j - 1 = (i - 1) * CoordBytes + j
      <4>1. (i - 1) * CoordBytes \in Int
        BY <1>1
      <4> QED
        BY <4>1
    <3> QED
      BY <1>2, <3>1 DEF Placed
  <2> QED
    BY <2>1
<1>5. s = [j \in 1 .. CoordBytes |-> m[first + j - 1]]
  <2>1. m \in Seq(Byte)
    BY <1>2 DEF Placed
  <2> HIDE DEF first, last
  <2>2. s = [j \in 1 .. (last - first + 1) |-> m[first + j - 1]]
    BY <1>3, <2>1
  <2> QED
    BY <1>3, <2>2
<1>6. s = FixedBytes(coords[i])
  <2> HIDE DEF s, first
  <2>1. DOMAIN FixedBytes(coords[i]) = 1 .. CoordBytes
        /\ FixedBytes(coords[i]) = [j \in 1 .. CoordBytes |-> FixedBytes(coords[i])[j]]
    BY DEF FixedBytes
  <2> QED
    BY <1>4, <1>5, <2>1
<1>7. Coordinate(m, i - 1) = SetBytes(s)
  BY DEF Coordinate
<1> HIDE DEF s
<1> QED
  BY <1>1, <1>6, <1>7, SetFixed DEF m

\* Coordinates below p are read as they were sent, and are not refused.
THEOREM WireExact ==
    ASSUME NEW n \in Nat, NEW coords \in [1 .. n -> Fp]
    PROVE  C!Read(C!Wire(coords), n) = [ok |-> TRUE, coords |-> coords]
<1> DEFINE raw == [i \in 1 .. n |-> Coordinate(Wire(coords), i - 1)]
           bad == {i \in 1 .. n : raw[i] >= P}
<1>1. coords \in [1 .. n -> Word]
  BY ElementIsWord
<1>2. \A i \in 1 .. n : Coordinate(Wire(coords), i - 1) = coords[i]
  BY <1>1, CoordinateRead
<1>3. raw = coords
  BY <1>2
<1>4. bad = {}
  <2>1. \A i \in 1 .. n : ~(coords[i] >= P)
    BY Params DEF Fp
  <2> HIDE DEF raw
  <2> QED
    BY <1>3, <2>1
<1>5. C!Read(C!Wire(coords), n) =
          [ok |-> bad = {}, coords |-> IF bad = {} THEN raw ELSE SubSeq(raw, 1, C!Min(bad))]
  BY SameWire, SameParams DEF C!Read
<1> HIDE DEF raw, bad
<1> QED
  BY <1>3, <1>4, <1>5

\* The coordinates of an element make that element.
LEMMA CoordsBack ==
    ASSUME NEW a \in Fp12
    PROVE  C!From12(C!Coords12(a)) = a
<1> DEFINE Holds2(c, at, v) == c[at + 1] = v.x /\ c[at + 2] = v.y
           Holds6(c, at, v) == Holds2(c, at, v.x) /\ Holds2(c, at + 2, v.y) /\ Holds2(c, at + 4, v.z)
           Is(c, k) == c \in Seq(Fp) /\ Len(c) = k
<1>1. ASSUME NEW v \in Fp2 PROVE Is(C!Coords2(v), 2) /\ Holds2(C!Coords2(v), 0, v)
  BY DEF C!Coords2, Fp2
<1>2. ASSUME NEW s, NEW t, NEW k \in Nat, NEW l \in Nat, Is(s, k), Is(t, l)
      PROVE  /\ Is(s \o t, k + l)
             /\ \A v : \A at \in Nat : at + 2 <= k /\ Holds2(s, at, v) => Holds2(s \o t, at, v)
             /\ \A v : \A at \in Nat : at + 2 <= l /\ Holds2(t, at, v) => Holds2(s \o t, k + at, v)
  <2>1. /\ s \o t \in Seq(Fp) /\ Len(s \o t) = k + l
        /\ \A i \in 1 .. k : (s \o t)[i] = s[i]
        /\ \A i \in 1 .. l : (s \o t)[k + i] = t[i]
    <3>1. s \in Seq(Fp) /\ t \in Seq(Fp) /\ Len(s) = k /\ Len(t) = l
      BY <1>2
    <3> HIDE DEF Is, Holds2
    <3> QED
      BY ONLY <3>1
  <2> DEFINE c == s \o t
  <2> HIDE DEF c
  <2>2. ASSUME NEW v, NEW at \in Nat, at + 2 <= k, Holds2(s, at, v) PROVE Holds2(c, at, v)
    <3>1. at + 1 \in 1 .. k /\ at + 2 \in 1 .. k
      BY <2>2
    <3> QED
      BY <2>1, <2>2, <3>1 DEF c
  <2>3. ASSUME NEW v, NEW at \in Nat, at + 2 <= l, Holds2(t, at, v) PROVE Holds2(c, k + at, v)
    <3>1. at + 1 \in 1 .. l /\ at + 2 \in 1 .. l
      BY <2>3
    <3>2. k + (at + 1) = (k + at) + 1 /\ k + (at + 2) = (k + at) + 2
      OBVIOUS
    <3>3. c[k + (at + 1)] = t[at + 1] /\ c[k + (at + 2)] = t[at + 2]
      BY <2>1, <3>1 DEF c
    <3> QED
      BY <2>3, <3>2, <3>3
  <2> QED
    BY <2>1, <2>2, <2>3 DEF c
<1> HIDE DEF Is, Holds2
<1>3. ASSUME NEW v \in Fp6 PROVE Is(C!Coords6(v), 6) /\ Holds6(C!Coords6(v), 0, v)
  <2>1. v.x \in Fp2 /\ v.y \in Fp2 /\ v.z \in Fp2
    BY DEF Fp6
  <2> DEFINE x == C!Coords2(v.x)
             y == C!Coords2(v.y)
             z == C!Coords2(v.z)
             xy == x \o y
  <2>2. /\ Is(x, 2) /\ Is(y, 2) /\ Is(z, 2)
        /\ Holds2(x, 0, v.x) /\ Holds2(y, 0, v.y) /\ Holds2(z, 0, v.z)
    BY <1>1, <2>1
  <2>3. C!Coords6(v) = xy \o z
    BY DEF C!Coords6
  <2> HIDE DEF x, y, z
  <2>4. Is(xy, 4) /\ Holds2(xy, 0, v.x) /\ Holds2(xy, 2, v.y)
    <3>1. /\ Is(x \o y, 2 + 2)
          /\ \A w : \A at \in Nat : at + 2 <= 2 /\ Holds2(x, at, w) => Holds2(x \o y, at, w)
          /\ \A w : \A at \in Nat : at + 2 <= 2 /\ Holds2(y, at, w) => Holds2(x \o y, 2 + at, w)
      BY <1>2, <2>2
    <3> QED
      BY <2>2, <3>1
  <2> HIDE DEF xy
  <2>5. Is(xy \o z, 6) /\ Holds2(xy \o z, 0, v.x) /\ Holds2(xy \o z, 2, v.y) /\ Holds2(xy \o z, 4, v.z)
    <3>1. /\ Is(xy \o z, 4 + 2)
          /\ \A w : \A at \in Nat : at + 2 <= 4 /\ Holds2(xy, at, w) => Holds2(xy \o z, at, w)
          /\ \A w : \A at \in Nat : at + 2 <= 2 /\ Holds2(z, at, w) => Holds2(xy \o z, 4 + at, w)
      BY <1>2, <2>2, <2>4
    <3> QED
      BY <2>2, <2>4, <3>1
  <2> QED
    BY <2>3, <2>5
<1> DEFINE s == C!Coords6(a.x)
           t == C!Coords6(a.y)
           c == C!Coords12(a)
<1>4. a.x \in Fp6 /\ a.y \in Fp6 /\ a = [x |-> a.x, y |-> a.y]
  BY DEF Fp12
<1>5. Is(s, 6) /\ Is(t, 6) /\ Holds6(s, 0, a.x) /\ Holds6(t, 0, a.y) /\ c = s \o t
  BY <1>3, <1>4 DEF C!Coords12
<1> HIDE DEF s, t
<1>6. Holds6(c, 0, a.x) /\ Holds6(c, 6, a.y)
  <2>1. /\ \A w : \A at \in Nat : at + 2 <= 6 /\ Holds2(s, at, w) => Holds2(s \o t, at, w)
        /\ \A w : \A at \in Nat : at + 2 <= 6 /\ Holds2(t, at, w) => Holds2(s \o t, 6 + at, w)
    BY <1>2, <1>5
  <2> HIDE DEF c
  <2> QED
    BY <1>5, <2>1
<1> HIDE DEF c
<1>7. ASSUME NEW v \in Fp2, NEW at \in Nat, Holds2(c, at, v) PROVE C!From2(c, at) = v
  BY <1>7 DEF C!From2, Holds2, Fp2
<1>8. ASSUME NEW v \in Fp6, NEW at \in Nat, Holds6(c, at, v) PROVE C!From6(c, at) = v
  <2>1. v.x \in Fp2 /\ v.y \in Fp2 /\ v.z \in Fp2 /\ v = [x |-> v.x, y |-> v.y, z |-> v.z]
    BY DEF Fp6
  <2>2. C!From2(c, at) = v.x /\ C!From2(c, at + 2) = v.y /\ C!From2(c, at + 4) = v.z
    BY <1>7, <1>8, <2>1
  <2> QED
    BY <2>1, <2>2 DEF C!From6
<1> HIDE DEF Holds6
<1>9. C!From6(c, 0) = a.x /\ C!From6(c, 6) = a.y
  BY <1>4, <1>6, <1>8
<1> QED
  BY <1>4, <1>9 DEF C!From12, c

\* Unmarshal gives back the element that Marshal was given, whatever the receiver
\* held (bn256.go:391, 432).
THEOREM GTRoundTrip ==
    ASSUME NEW g \in Fp12, g # Nil, NEW e, e = Nil \/ e \in Word12
    PROVE  C!GTUnmarshal(e, C!GTMarshal(g).m) = [ok |-> TRUE, p |-> g]
<1> DEFINE coords == C!Coords12(g)
           sent == [i \in DOMAIN coords |-> C!MontDecode(coords[i])]
           m == C!Wire(sent)
           read == C!Read(m, 12)
           encoded == [i \in DOMAIN read.coords |-> C!MontEncode(read.coords[i])]
           old == IF e = Nil THEN [x |-> C!Zero6, y |-> C!Zero6] ELSE e
<1>0. PICK n \in Nat : n = 12
  OBVIOUS
<1>1. coords \in [1 .. n -> Fp]
  BY <1>0, CoordsAre DEF Fp12, Fp6, Fp2
<1>2. C!GTMarshal(g).m = m
  BY DEF C!GTMarshal
<1>3. C!GTUnmarshal(e, m) =
          IF Len(m) < 12 * CoordBytes THEN [ok |-> FALSE, p |-> e]
          ELSE [ok |-> read.ok,
                p  |-> C!From12(C!Overwrite(IF read.ok THEN encoded ELSE read.coords,
                                            C!Coords12(old)))]
  BY DEF C!GTUnmarshal
<1>4. C!From12(coords) = g
  BY CoordsBack
<1>5. DOMAIN C!Coords12(old) = 1 .. n
  <2>1. old \in Word12
    <3>1. [x |-> C!Zero6, y |-> C!Zero6] \in Fp12
      BY Ops6 DEF Fp12
    <3> QED
      BY <3>1, ReducedIsLoose
  <2> HIDE DEF old
  <2>2. C!Coords12(old) \in [1 .. 12 -> Word]
    BY <2>1, CoordsAre DEF Word12, Word6, Word2
  <2> QED
    BY <1>0, <2>2
<1> HIDE DEF coords, old
<1>6. sent \in [1 .. n -> Fp] /\ \A i \in 1 .. n : sent[i] = C!MontDecode(coords[i])
  BY <1>1, MontIn, ElementIsWord
<1> HIDE DEF sent
<1>7. m = Wire(sent)
  BY SameWire
<1>8. Len(m) = n * CoordBytes
  <2>1. sent \in [1 .. n -> Int]
    BY <1>6, ElementIsWord
  <2> QED
    BY <1>7, <2>1, WireIs
<1>9. read = [ok |-> TRUE, coords |-> sent]
  <2>1. C!Read(C!Wire(sent), n) = [ok |-> TRUE, coords |-> sent]
    BY <1>6, WireExact
  <2> QED
    BY <1>0, <2>1
<1> HIDE DEF m, read
<1>10. read.ok /\ read.coords = sent
  BY <1>9
<1>11. encoded = coords
  <2>1. \A i \in 1 .. n : C!MontEncode(sent[i]) = coords[i]
    BY <1>1, <1>6, MontExact
  <2>2. encoded = [i \in 1 .. n |-> C!MontEncode(sent[i])]
    BY <1>6, <1>10
  <2> HIDE DEF encoded
  <2> QED
    BY <1>1, <2>1, <2>2
<1> HIDE DEF encoded
<1>12. C!Overwrite(encoded, C!Coords12(old)) = coords
  <2>1. DOMAIN encoded = 1 .. n
    BY <1>1, <1>11
  <2>2. C!Overwrite(encoded, C!Coords12(old)) = [i \in 1 .. n |-> encoded[i]]
    BY <1>5, <2>1, OverwriteAll
  <2> QED
    BY <1>1, <1>11, <2>2
<1>13. ~(Len(m) < 12 * CoordBytes)
  BY <1>0, <1>8, ParamsAssumption
<1>14. C!GTUnmarshal(e, m) = [ok |-> TRUE, p |-> C!From12(coords)]
  BY <1>3, <1>10, <1>12, <1>13
<1> QED
  BY <1>2, <1>4, <1>14

----------------------------------------------------------------------------
(* The lattice: what the digits of a product by a scalar stand for.          *)

\* The entries of curveLattice's vectors and of their inverse, as polynomials in
\* the parameter.
V11 == 6 * U*U + 2 * U
V12 == 6 * U*U + 4 * U + 1
V21 == 6 * U*U + 6 * U + 2
W22 == 6 * U*U - 1

\* The factor of the endomorphism, modulo Order.
Lambda == 36 * U*U*U + 18 * U*U + 6 * U + 1

\* The vectors of the basis are 0 modulo Order, with their second component
\* counted Lambda times, and span twice Order.
LEMMA LatticeIs ==
    /\ V11 \in Nat /\ V12 \in Nat /\ V21 \in Nat /\ W22 \in Nat /\ Lambda \in Nat
    /\ W22 * V11 + V12 * V21 = 2 * Order
    /\ V11 + Lambda * V12 = Order * (6 * U + 1)
    /\ Lambda * W22 - V21 = Order * (6 * U - 3)
    /\ W22 <= V12 /\ V12 <= V21 /\ V11 <= V21 /\ 3 * V21 <= 5 * V11 + 2
<1>1. U \in Nat /\ 1 <= U
  BY ParamsAssumption
<1> DEFINE u2 == U * U
           u3 == u2 * U
           u4 == u3 * U
           u5 == u4 * U
<1>2. u2 \in Nat /\ U <= u2
  BY <1>1
<1>3. u3 \in Nat /\ u4 \in Nat /\ u5 \in Nat
  BY <1>1, <1>2
<1>4. u2 * u2 = u4 /\ u2 * u3 = u5 /\ u3 * u2 = u5 /\ U * u2 = u3 /\ U * u3 = u4 /\ U * u4 = u5
  <2>1. \A x \in Int : (x * x) * (x * x) = ((x * x) * x) * x
    OBVIOUS
  <2>2. \A x \in Int : /\ (x * x) * ((x * x) * x) = (((x * x) * x) * x) * x
                       /\ ((x * x) * x) * (x * x) = (((x * x) * x) * x) * x
    OBVIOUS
  <2>3. \A x, y \in Int : x * y = y * x
    OBVIOUS
  <2> QED
    BY <1>1, <1>2, <1>3, <2>1, <2>2, <2>3
<1>5. /\ V11 = 6 * u2 + 2 * U /\ V12 = 6 * u2 + 4 * U + 1 /\ V21 = 6 * u2 + 6 * U + 2
      /\ W22 = 6 * u2 - 1
      /\ Lambda = 36 * u3 + 18 * u2 + 6 * U + 1
      /\ Order = 36 * u4 + 36 * u3 + 18 * u2 + 6 * U + 1
  BY <1>1 DEF V11, V12, V21, W22, Lambda, Order
<1> HIDE DEF u2, u3, u4, u5
<1>6. /\ V11 \in Nat /\ V12 \in Nat /\ V21 \in Nat /\ W22 \in Nat /\ Lambda \in Nat
      /\ W22 <= V12 /\ V12 <= V21 /\ V11 <= V21 /\ 3 * V21 <= 5 * V11 + 2
  BY <1>1, <1>2, <1>3, <1>5
<1>7. W22 * V11 + V12 * V21 = 2 * Order
  <2>1. W22 * V11 = 36 * (u2 * u2) + 12 * (u2 * U) - 6 * u2 - 2 * U
    BY <1>1, <1>2, <1>5
  <2>2. V12 * V21 = 36 * (u2 * u2) + 60 * (u2 * U) + 18 * u2 + 24 * (U * U) + 14 * U + 2
    BY <1>1, <1>2, <1>5
  <2>3. u2 * U = u3 /\ U * U = u2
    BY DEF u2, u3
  <2> QED
    BY <1>1, <1>2, <1>3, <1>4, <1>5, <2>1, <2>2, <2>3
<1>8. V11 + Lambda * V12 = Order * (6 * U + 1)
  BY <1>1 DEF V11, V12, Lambda, Order
<1>9. Lambda * W22 - V21 = Order * (6 * U - 3)
  BY <1>1 DEF V21, W22, Lambda, Order
<1> QED
  BY <1>6, <1>7, <1>8, <1>9

\* Rounding compares with half of Order, a quarter of the denominator.
LEMMA RoundIs ==
    ASSUME NEW num \in Int
    PROVE  /\ C!round(num, 2 * Order) \in Int
           /\ 4 * (num - (2 * Order) * C!round(num, 2 * Order)) <= 2 * Order
           /\ 4 * ((2 * Order) * C!round(num, 2 * Order) - num) < 3 * (2 * Order)
<1> DEFINE D == 2 * Order
           q == num \div D
           r == num % D
<1>1. Order \in Nat /\ 2 < Order
  BY Params
<1>2. q \in Int /\ r \in 0 .. D - 1 /\ num = D * q + r
  <2>1. D \in Nat \ {0}
    BY <1>1
  <2> HIDE DEF D
  <2> QED
    BY <2>1, ModRange
<1>3. C!half \in Nat /\ 2 * C!half <= Order /\ Order <= 2 * C!half + 1
  BY <1>1, SameParams DEF C!half
<1>4. C!round(num, D) = IF r > C!half THEN q + 1 ELSE q
  BY DEF C!round
<1>5. D * (q + 1) = D * q + D
  <2>1. D \in Int
    BY <1>1
  <2> HIDE DEF D, q
  <2> QED
    BY <1>2, <2>1
<1>6. D \in Nat /\ D * q \in Int
  BY <1>1, <1>2
<1>7. D = 2 * Order
  OBVIOUS
<1> HIDE DEF D, q, r
<1>8. CASE r > C!half
  BY <1>1, <1>2, <1>3, <1>4, <1>5, <1>6, <1>7, <1>8
<1>9. CASE ~(r > C!half)
  BY <1>1, <1>2, <1>3, <1>4, <1>6, <1>7, <1>9
<1> QED
  BY <1>8, <1>9
\* A scalar is cut into two natural numbers, of half its length, that stand for
\* it modulo Order: "a short, positive decomposition" (lattice.go:49).
THEOREM DecomposeExact ==
    ASSUME NEW k \in Int
    PROVE  \E a, b \in 0 .. 3 * V21 :
               /\ C!decompose(C!curveLattice, k) = [i \in 1 .. 2 |-> IF i = 1 THEN a ELSE b]
               /\ \E q \in Int : a + Lambda * b = k + Order * q
<1> DEFINE D == 2 * Order
           c1 == C!round(k * W22, D)
           c2 == C!round(k * V12, D)
           a == 2 * V11 - (c1 * V11 + c2 * V21) + k
           b == 2 * V12 - (c1 * V12 + c2 * (-W22))
           E1 == k * W22 - D * c1
           E2 == k * V12 - D * c2
<1>1. C!decompose(C!curveLattice, k) = [i \in 1 .. 2 |-> IF i = 1 THEN a ELSE b]
  <2>1. -W22 = 1 - 6*U*U /\ W22 = 6*U*U - 1
    <3>1. 6*U*U \in Int
      BY ParamsAssumption
    <3> QED
      BY <3>1 DEF W22
  <2> DEFINE l == C!curveLattice
  <2>2. /\ l.vectors[1][1] = V11 /\ l.vectors[1][2] = V12
        /\ l.vectors[2][1] = V21 /\ l.vectors[2][2] = -W22
        /\ l.inverse[1] = W22 /\ l.inverse[2] = V12
        /\ l.det = D
    BY <2>1, SameParams DEF C!curveLattice, V11, V12, V21
  <2> HIDE DEF l
  <2> DEFINE c == [j \in 1 .. 2 |-> C!round(k * l.inverse[j], l.det)]
             sum(i) == c[1] * l.vectors[1][i] + c[2] * l.vectors[2][i]
  <2>3. C!decompose(l, k)
          = [i \in 1 .. 2 |-> 2 * l.vectors[1][i] - sum(i) + (IF i = 1 THEN k ELSE 0)]
    BY DEF C!decompose
  <2>4. c[1] = c1 /\ c[2] = c2
    BY <2>2
  <2> HIDE DEF c, c1, c2, D
  <2>5. 2 * l.vectors[1][1] - sum(1) + k = a /\ 2 * l.vectors[1][2] - sum(2) + 0 = b
    <3>1. c1 \in Int /\ c2 \in Int
      <4>1. k * W22 \in Int /\ k * V12 \in Int
        BY LatticeIs, ProductInt
      <4> QED
        BY <4>1, RoundIs DEF c1, c2, D
    <3>2. c1 * V12 + c2 * (-W22) \in Int
      BY <3>1, LatticeIs
    <3> QED
      BY <2>2, <2>4, <3>2, LatticeIs
  <2> HIDE DEF a, b, sum
  <2> QED
    BY <2>3, <2>5 DEF l
<1>2. /\ V11 \in Nat /\ V12 \in Nat /\ V21 \in Nat /\ W22 \in Nat /\ Lambda \in Nat
      /\ W22 <= V12 /\ V12 <= V21 /\ V11 <= V21 /\ 3 * V21 <= 5 * V11 + 2
  BY LatticeIs
<1>3. D \in Nat /\ 4 < D /\ Order \in Nat
  BY Params
<1>4. k * W22 \in Int /\ k * V12 \in Int
  BY <1>2, ProductInt
<1>5. /\ c1 \in Int /\ 4 * E1 <= D /\ 4 * (-E1) < 3 * D
      /\ c2 \in Int /\ 4 * E2 <= D /\ 4 * (-E2) < 3 * D
  <2>1. D = 2 * Order
    OBVIOUS
  <2> HIDE DEF D
  <2>2. /\ c1 \in Int /\ 4 * E1 <= D /\ 4 * (D * c1 - k * W22) < 3 * D
        /\ c2 \in Int /\ 4 * E2 <= D /\ 4 * (D * c2 - k * V12) < 3 * D
    BY <1>4, <2>1, RoundIs
  <2> HIDE DEF c1, c2
  <2>3. D * c1 \in Int /\ D * c2 \in Int
    BY <1>3, <2>2, ProductInt
  <2> QED
    BY <1>4, <2>2, <2>3
<1> HIDE DEF c1, c2
<1>6. a \in Int /\ b \in Int /\ E1 \in Int /\ E2 \in Int
  <2>1. c1 * V11 \in Int /\ c2 * V21 \in Int /\ c1 * V12 \in Int /\ c2 * (-W22) \in Int
    BY <1>2, <1>5, ProductInt
  <2>2. D * c1 \in Int /\ D * c2 \in Int
    BY <1>3, <1>5, ProductInt
  <2> QED
    BY <1>2, <1>4, <2>1, <2>2
<1>7. D * a = 2 * (D * V11) + E1 * V11 + E2 * V21
  <2>1. W22 * V11 + V12 * V21 = D
    BY LatticeIs
  <2>2. \A d, x, y, u, v, w, s, n \in Int :
            w * u + v * s = d
            => d * (2 * u - (x * u + y * s) + n)
                 = 2 * (d * u) + (n * w - d * x) * u + (n * v - d * y) * s
    <3>1. \A d, x, y, u, v, w, s, n \in Int :
            /\ d * (2 * u - (x * u + y * s) + n) = 2 * (d * u) - d * x * u - d * y * s + n * d
            /\ (n * w - d * x) * u + (n * v - d * y) * s
                 = n * (w * u + v * s) - d * x * u - d * y * s
      OBVIOUS
    <3> QED
      BY <3>1
  <2> QED
    BY <1>2, <1>3, <1>5, <2>1, <2>2
<1>8. D * b = 2 * (D * V12) + E1 * V12 - E2 * W22
  <2>1. \A d, x, y, v, w, n \in Int :
            d * (2 * v - (x * v + y * (-w)))
              = 2 * (d * v) + (n * w - d * x) * v - (n * v - d * y) * w
    OBVIOUS
  <2> QED
    BY <1>2, <1>3, <1>5, <2>1
<1>9. \E q \in Int : a + Lambda * b = k + Order * q
  <2>1. V11 + Lambda * V12 = Order * (6 * U + 1) /\ Lambda * W22 - V21 = Order * (6 * U - 3)
        /\ U \in Int
    BY LatticeIs, ParamsAssumption
  <2> DEFINE x == 6 * U + 1
             y == 6 * U - 3
  <2>2. \A l, x1, x2, v11, v12, v21, w, n, o, p, q \in Int :
            v11 + l * v12 = o * p /\ l * w - v21 = o * q
            => (2 * v11 - (x1 * v11 + x2 * v21) + n) + l * (2 * v12 - (x1 * v12 + x2 * (-w)))
                 = n + o * ((2 - x1) * p + x2 * q)
    <3>1. \A l, x1, x2, v11, v12, v21, w, n \in Int :
            (2 * v11 - (x1 * v11 + x2 * v21) + n) + l * (2 * v12 - (x1 * v12 + x2 * (-w)))
              = n + (2 - x1) * (v11 + l * v12) + x2 * (l * w - v21)
      OBVIOUS
    <3>2. \A x1, x2, o, p, q \in Int :
            (2 - x1) * (o * p) + x2 * (o * q) = o * ((2 - x1) * p + x2 * q)
      OBVIOUS
    <3>3. \A x1, x2, o, p, q, n \in Int :
            n + (2 - x1) * (o * p) + x2 * (o * q) = n + o * ((2 - x1) * p + x2 * q)
      OBVIOUS
    <3> QED
      BY <3>1, <3>3
  <2>3. x \in Int /\ y \in Int /\ V11 + Lambda * V12 = Order * x /\ Lambda * W22 - V21 = Order * y
    BY <2>1
  <2> HIDE DEF x, y
  <2>4. a + Lambda * b = k + Order * ((2 - c1) * x + c2 * y)
    BY <1>2, <1>3, <1>5, <2>2, <2>3
  <2>5. (2 - c1) * x + c2 * y \in Int
    BY <1>5, <2>3
  <2> QED
    BY <2>4, <2>5
<1> HIDE DEF a, b, E1, E2, D
\* Products with the errors are between those with their bounds.
<1>10. ASSUME NEW e \in Int, NEW v \in Nat, 4 * e <= D, 4 * (-e) < 3 * D
       PROVE  e * v \in Int /\ 4 * (e * v) <= D * v /\ 4 * (e * v) >= -(3 * (D * v))
  <2>1. \A x, y, z \in Int : 4 * x <= y /\ 0 <= z => 4 * (x * z) <= y * z
    OBVIOUS
  <2>2. \A x, y, z \in Int : 4 * (-x) <= 3 * y /\ 0 <= z => 4 * (x * z) >= -(3 * (y * z))
    OBVIOUS
  <2> QED
    BY <1>3, <1>10, <2>1, <2>2, ProductInt
<1>11. /\ D * V11 \in Int /\ D * V12 \in Int /\ D * V21 \in Int /\ D * W22 \in Int
       /\ D * W22 <= D * V12 /\ D * V11 <= D * V21 /\ D * V12 <= D * V21 /\ 0 <= D * V12
       /\ 3 * (D * V21) <= 5 * (D * V11) + 2 * D
  <2>1. \A d, x, y \in Nat : x <= y => d * x \in Nat /\ d * y \in Nat /\ d * x <= d * y
    OBVIOUS
  <2>2. D * (3 * V21) <= D * (5 * V11 + 2)
    BY <1>2, <1>3, <2>1
  <2>3. \A d, x, y \in Nat : d * (3 * x) = 3 * (d * x) /\ d * (5 * y + 2) = 5 * (d * y) + 2 * d
    OBVIOUS
  <2> QED
    BY <1>2, <1>3, <2>1, <2>2, <2>3
<1>12. E1 * V11 \in Int /\ 4 * (E1 * V11) <= D * V11 /\ 4 * (E1 * V11) >= -(3 * (D * V11))
  BY <1>2, <1>5, <1>6, <1>10
<1>13. E2 * V21 \in Int /\ 4 * (E2 * V21) <= D * V21 /\ 4 * (E2 * V21) >= -(3 * (D * V21))
  BY <1>2, <1>5, <1>6, <1>10
<1>14. E1 * V12 \in Int /\ 4 * (E1 * V12) <= D * V12 /\ 4 * (E1 * V12) >= -(3 * (D * V12))
  BY <1>2, <1>5, <1>6, <1>10
<1>15. E2 * W22 \in Int /\ 4 * (E2 * W22) <= D * W22 /\ 4 * (E2 * W22) >= -(3 * (D * W22))
  BY <1>2, <1>5, <1>6, <1>10
\* What a number times D is bounded by, it is bounded by.
<1>16. \A x, y \in Int : D * x <= D * y => x <= y
  <2>1. \A d, x, y \in Int : 0 < d /\ d * x <= d * y => x <= y
    OBVIOUS
  <2> QED
    BY <1>3, <2>1
<1>17. \A x \in Int : 2 * (D * x) >= -D => x >= 0
  <2>1. \A d, x \in Int : 0 < d /\ 2 * (d * x) >= -d => x >= 0
    <3>1. \A d, x \in Int : 0 < d /\ x <= -1 => d * x <= -d
      OBVIOUS
    <3> QED
      BY <3>1
  <2> QED
    BY <1>3, <2>1
<1>18. D * (3 * V21) = 3 * (D * V21)
  BY <1>2, <1>3
<1>19. a \in 0 .. 3 * V21
  <2>1. 2 * (D * a) >= -D /\ D * a <= 3 * (D * V21)
    BY <1>3, <1>7, <1>11, <1>12, <1>13
  <2>2. 3 * V21 \in Int
    BY <1>2
  <2>3. D * a <= D * (3 * V21)
    BY <1>18, <2>1
  <2>4. a <= 3 * V21
    BY <1>6, <1>16, <2>2, <2>3
  <2>5. a >= 0
    BY <1>6, <1>17, <2>1
  <2> QED
    BY <1>6, <2>2, <2>4, <2>5
<1>20. b \in 0 .. 3 * V21
  <2>1. 2 * (D * b) >= -D /\ D * b <= 3 * (D * V21)
    BY <1>3, <1>8, <1>11, <1>14, <1>15
  <2>2. 3 * V21 \in Int
    BY <1>2
  <2>3. D * b <= D * (3 * V21)
    BY <1>18, <2>1
  <2>4. b <= 3 * V21
    BY <1>6, <1>16, <2>2, <2>3
  <2>5. b >= 0
    BY <1>6, <1>17, <2>1
  <2> QED
    BY <1>6, <2>2, <2>4, <2>5
<1> QED
  BY <1>1, <1>9, <1>19, <1>20

\* A digit of two bits doubles what is there, and adds 1 and Lambda.
ValueStep(lambda, d, n) == 2 * n + (d % 2) + lambda * (d \div 2)
ValueLoop == INSTANCE NatRecursion WITH Step <- ValueStep

\* What the digits of CurveMul's loop add up to: bit 1 of a digit counts Lambda
\* times.
DigitsValue(digits) ==
    FoldLeft(LAMBDA n, d : 2 * n + (d % 2) + Lambda * (d \div 2), 0, digits)

\* A number is below the power of 2 of its length, and of any greater one.
LEMMA BelowPower ==
    ASSUME NEW n \in Nat, NEW len \in Nat, BitLen(n) <= len
    PROVE  n \div Power(2)[len] = 0
<1>1. BitLen(n) \in Nat /\ Shr(n)[BitLen(n)] = 0
  BY BitLenIs
<1>2. Shr(n)[len] = 0
  BY <1>1, ShrStaysZero
<1>3. n < Power(2)[len]
  BY <1>2, ShrIsZero
<1>4. Power(2)[len] \in Nat
  BY PowerUnfolds
<1> QED
  BY <1>3, <1>4

\* The fold takes a digit in each step.
LEMMA ValueLoopUnfolds ==
    ASSUME NEW lambda, NEW len \in Nat, NEW digits, DOMAIN digits = 1 .. len
    PROVE  /\ ValueLoop!FoldValues(lambda, 0, digits)[1 .. 0] = 0
           /\ \A i \in 0 .. len - 1 : ValueLoop!FoldValues(lambda, 0, digits)[1 .. i + 1]
                 = ValueStep(lambda, digits[i + 1],
                             ValueLoop!FoldValues(lambda, 0, digits)[1 .. i])
<1> DEFINE zero == 0
<1> HIDE DEF zero
<1>1. /\ ValueLoop!FoldValues(lambda, zero, digits)[1 .. 0] = zero
      /\ \A i \in 0 .. len - 1 : ValueLoop!FoldValues(lambda, zero, digits)[1 .. i + 1]
            = ValueStep(lambda, digits[i + 1],
                        ValueLoop!FoldValues(lambda, zero, digits)[1 .. i])
  BY ValueLoop!FoldUnfolds
<1> QED
  BY <1>1 DEF zero

\* Two numbers from their bits, taken together.
LEMMA TwoNumbers ==
    ASSUME NEW a \in Nat, NEW b \in Nat, NEW len \in Nat, BitLen(a) <= len, BitLen(b) <= len,
           NEW digits,
           digits = [i \in 1 .. len |-> ((a \div Power(2)[len - i]) % 2)
                                          + 2 * ((b \div Power(2)[len - i]) % 2)]
    PROVE  DigitsValue(digits) = a + Lambda * b
<1> DEFINE F == ValueLoop!FoldValues(Lambda, 0, digits)
           v(i) == F[1 .. i]
           at(n, i) == n \div Power(2)[len - i]
           S == {i \in Nat : i <= len => v(i) = at(a, i) + Lambda * at(b, i)}
<1>1. DigitsValue(digits) = F[DOMAIN digits]
  BY DEF DigitsValue, FoldLeft, MapThenFoldSet, Max, ValueLoop!FoldValues, ValueStep
<1>2. DOMAIN digits = 1 .. len
  OBVIOUS
<1>3. v(0) = 0 /\ \A i \in 0 .. len - 1 : v(i + 1) = ValueStep(Lambda, digits[i + 1], v(i))
  <2>1. len \in Nat
    OBVIOUS
  <2> QED
    BY ONLY <1>2, <2>1, ValueLoopUnfolds DEF v, F
<1>4. Lambda \in Nat
  BY LatticeIs
<1>5. \A i \in 1 .. len : digits[i] = (at(a, i) % 2) + 2 * (at(b, i) % 2)
  OBVIOUS
<1> HIDE DEF F, v
<1>6. \A h \in Nat : Power(2)[h] \in Nat \ {0} /\ Power(2)[h + 1] = 2 * Power(2)[h]
  <2> SUFFICES ASSUME NEW h \in Nat
               PROVE  Power(2)[h] \in Nat \ {0} /\ Power(2)[h + 1] = 2 * Power(2)[h]
    OBVIOUS
  <2>1. Power(2)[h] > h /\ 2 \in Nat
    BY PowerGrows
  <2>2. Power(2)[h] \in Nat
    BY <2>1, PowerUnfolds
  <2>3. Power(2)[h + 1] = 2 * Power(2)[h]
    BY <2>1, PowerUnfolds
  <2> QED
    BY <2>1, <2>2, <2>3
<1>7. ASSUME NEW n \in Nat, NEW i \in Nat, i + 1 <= len
      PROVE  at(n, i + 1) \in Int /\ at(n, i) = at(n, i + 1) \div 2
  <2>1. len - (i + 1) \in Nat /\ len - i = (len - (i + 1)) + 1
    BY <1>7
  <2> DEFINE c == Power(2)[len - (i + 1)]
  <2>2. c \in Nat \ {0} /\ Power(2)[len - i] = 2 * c
    BY <1>6, <2>1
  <2> HIDE DEF c
  <2>3. n \div (2 * c) = (n \div c) \div 2
    <3>1. PICK t \in Nat \ {0} : t = 2
      OBVIOUS
    <3>2. n \div (t * c) = (n \div c) \div t
      BY <2>2, DivDiv
    <3> QED
      BY <3>1, <3>2
  <2>4. n \div c \in Int
    BY <2>2, ModRange
  <2> QED
    BY <2>2, <2>3, <2>4 DEF c
<1>8. 0 \in S
  <2>1. len - 0 = len /\ a \div Power(2)[len] = 0 /\ b \div Power(2)[len] = 0
    BY BelowPower
  <2>2. at(a, 0) = 0 /\ at(b, 0) = 0
    BY <2>1
  <2>3. Lambda * 0 = 0
    BY <1>4
  <2> HIDE DEF at
  <2> QED
    BY <1>3, <2>2, <2>3
<1>9. ASSUME NEW i \in Nat, i \in S PROVE i + 1 \in S
  <2>1. SUFFICES ASSUME i + 1 <= len
                 PROVE  v(i + 1) = at(a, i + 1) + Lambda * at(b, i + 1)
    OBVIOUS
  <2> DEFINE x == at(a, i + 1)
             y == at(b, i + 1)
  <2>2. v(i) = at(a, i) + Lambda * at(b, i)
    BY <1>9, <2>1
  <2>3. x \in Int /\ y \in Int /\ at(a, i) = x \div 2 /\ at(b, i) = y \div 2
    BY <1>7, <2>1
  <2>4. digits[i + 1] = (x % 2) + 2 * (y % 2)
    BY <1>5, <2>1
  <2>5. v(i + 1) = 2 * v(i) + (digits[i + 1] % 2) + Lambda * (digits[i + 1] \div 2)
    BY <1>3, <2>1 DEF ValueStep
  <2> HIDE DEF at, x, y
  <2>6. digits[i + 1] % 2 = x % 2 /\ digits[i + 1] \div 2 = y % 2
    <3>1. x % 2 \in 0 .. 1 /\ y % 2 \in 0 .. 1
      BY <2>3, ModRange
    <3>2. \A r, s \in 0 .. 1 : (r + 2 * s) % 2 = r /\ (r + 2 * s) \div 2 = s
      OBVIOUS
    <3> QED
      BY <2>4, <3>1, <3>2
  <2>7. x = 2 * (x \div 2) + (x % 2) /\ y = 2 * (y \div 2) + (y % 2)
    BY <2>3
  <2>8. \A l, p, q, r, s \in Int :
            2 * (p + l * q) + r + l * s = (2 * p + r) + l * (2 * q + s)
    OBVIOUS
  <2>9. x \div 2 \in Int /\ y \div 2 \in Int /\ x % 2 \in Int /\ y % 2 \in Int
    BY <2>3
  <2>10. v(i + 1) = x + Lambda * y
    <3> DEFINE p == x \div 2
               q == y \div 2
               r == x % 2
               s == y % 2
    <3>1. p \in Int /\ q \in Int /\ r \in Int /\ s \in Int /\ Lambda \in Int
      BY <1>4, <2>9
    <3>2. v(i + 1) = 2 * (p + Lambda * q) + r + Lambda * s
      BY <2>2, <2>3, <2>5, <2>6
    <3>3. x = 2 * p + r /\ y = 2 * q + s
      BY <2>7
    <3> HIDE DEF p, q, r, s
    <3> QED
      BY <2>8, <3>1, <3>2, <3>3
  <2> QED
    BY <2>10 DEF x, y
<1> HIDE DEF S
<1>10. len \in S
  BY <1>8, <1>9, NatInduct
<1>11. v(len) = a + Lambda * b
  <2>1. len - len = 0 /\ Power(2)[0] = 1 /\ a \div 1 = a /\ b \div 1 = b
    BY PowerUnfolds
  <2>2. at(a, len) = a /\ at(b, len) = b
    BY <2>1
  <2>3. v(len) = at(a, len) + Lambda * at(b, len)
    BY <1>10 DEF S
  <2> QED
    BY <2>2, <2>3
<1> QED
  BY <1>1, <1>2, <1>11 DEF v

\* The digits that CurveMul goes through add up to the scalar, modulo Order: for
\* every scalar and every BN parameter.
THEOREM MultiExact ==
    ASSUME NEW k \in Int
    PROVE  (DigitsValue(C!Multi(C!curveLattice, k)) - k) % Order = 0
<1> DEFINE digits == C!Multi(C!curveLattice, k)
           parts == C!decompose(C!curveLattice, k)
<1>1. PICK a \in 0 .. 3 * V21, b \in 0 .. 3 * V21 :
          /\ parts = [i \in 1 .. 2 |-> IF i = 1 THEN a ELSE b]
          /\ \E q \in Int : a + Lambda * b = k + Order * q
  BY DecomposeExact
<1>2. a \in Nat /\ b \in Nat
  BY LatticeIs
<1> DEFINE length(n) == C!BitLen(IF n < 0 THEN -n ELSE n)
           len == IF length(parts[1]) < length(parts[2]) THEN length(parts[2])
                  ELSE length(parts[1])
           bit(j, i) == (parts[j] \div Power(2)[len - i]) % 2
<1>3. digits = [i \in 1 .. len |-> bit(1, i) + 2 * bit(2, i)]
  BY DEF C!Multi, C!Power, Power
<1> HIDE DEF digits, parts
<1>4. parts[1] = a /\ parts[2] = b
  BY <1>1
<1>5. length(a) = BitLen(a) /\ length(b) = BitLen(b)
  <2>1. \A n : C!BitLen(n) = BitLen(n)
    BY DEF C!BitLen, BitLen, C!Shr, Shr
  <2>2. ~(a < 0) /\ ~(b < 0)
    BY <1>2
  <2> QED
    BY <2>1, <2>2
<1>6. BitLen(a) \in Nat /\ BitLen(b) \in Nat
  BY <1>2, BitLenIs
<1>7. len \in Nat /\ BitLen(a) <= len /\ BitLen(b) <= len
  <2> HIDE DEF length
  <2> QED
    BY <1>4, <1>5, <1>6
<1> HIDE DEF len
<1>8. digits = [i \in 1 .. len |-> ((a \div Power(2)[len - i]) % 2)
                                     + 2 * ((b \div Power(2)[len - i]) % 2)]
  BY <1>3, <1>4
<1>9. DigitsValue(digits) = a + Lambda * b
  BY <1>2, <1>7, <1>8, TwoNumbers
<1>10. PICK q \in Int : a + Lambda * b = k + Order * q
  BY <1>1
<1>11. (k + Order * q) - k = Order * q + 0 /\ Order \in Nat \ {0} /\ 0 \in 0 .. Order - 1
  <2>1. Order \in Nat /\ 2 < Order
    BY Params
  <2>2. Order * q \in Int
    BY <2>1
  <2> QED
    BY <2>1, <2>2
<1>12. (Order * q + 0) % Order = 0
  BY <1>11, ModIs
<1> QED
  BY <1>9, <1>10, <1>11, <1>12 DEF digits
=============================================================================
