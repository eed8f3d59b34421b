------------------------------ MODULE GoBasics ------------------------------
(***************************************************************************)
(* What several of the modules use of Go itself: sort.Slice, and the binary*)
(* digits of an unsigned integer, with the facts about them that the proofs*)
(* rest on.  No number here is ever negative, and the integers of the      *)
(* modules stay below the width of their type: nothing wraps around.       *)
(***************************************************************************)
EXTENDS Integers, SequencesExt, FiniteSetTheorems, TLAPS

\* The members of the finite set S in the order of the comparison before.
InOrder(S, before(_, _)) ==
    CHOOSE order \in SetToSeqs(S) :
        \A i, j \in DOMAIN order : i < j => ~before(order[j], order[i])

\* index >> h, as a function of h.
Shr(index) ==
    LET s[h \in Nat] == IF h = 0 THEN index ELSE s[h - 1] \div 2 IN s

\* ((index >> h) & 1) == 1
BitSet(index, h) == Shr(index)[h] % 2 = 1

\* The length of n in bits, math/bits.Len64.
BitLen(n) == CHOOSE l \in 0 .. n : Shr(n)[l] = 0 /\ (l = 0 \/ Shr(n)[l - 1] # 0)

\* m | n
Or(m, n) ==
    CHOOSE o \in 0 .. m + n :
        \A k \in 0 .. m + n : BitSet(o, k) <=> BitSet(m, k) \/ BitSet(n, k)

\* The powers of b.
Power(b) == LET p[k \in Nat] == IF k = 0 THEN 1 ELSE b * p[k - 1] IN p

----------------------------------------------------------------------------
ShrStep(p, h, x) == x \div 2
ShrLoop == INSTANCE NatRecursion WITH Step <- ShrStep

PowerStep(p, h, x) == p * x
PowerLoop == INSTANCE NatRecursion WITH Step <- PowerStep

\* Induction, on a set of naturals.
LEMMA NatInduct ==
    ASSUME NEW S, 0 \in S, \A n \in Nat : n \in S => n + 1 \in S
    PROVE  \A n \in Nat : n \in S
  BY ShrLoop!SetInduction

----------------------------------------------------------------------------
(* Sets in order.                                                           *)

\* A sequence of the members of a finite set, each once, has all of them.
THEOREM SeqsOfSet ==
    ASSUME NEW S, IsFiniteSet(S), NEW order \in SetToSeqs(S)
    PROVE  /\ order \in Seq(S) /\ Len(order) = Cardinality(S)
           /\ IsInjective(order)
           /\ ToSet(order) = S
<1> DEFINE D == 1 .. Cardinality(S)
<1>1. Cardinality(S) \in Nat
  BY FS_CardinalityType
<1>2. order \in [D -> S] /\ \A i, j \in D : i # j => order[i] # order[j]
  BY DEF SetToSeqs
<1>3. order \in Seq(S) /\ Len(order) = Cardinality(S) /\ DOMAIN order = D
  BY <1>1, <1>2
<1>4. IsInjective(order)
  BY <1>2, <1>3 DEF IsInjective
<1>5. IsFiniteSet(D) /\ Cardinality(D) = Cardinality(S)
  BY <1>1, FS_Interval
<1>6. order \in Injection(D, S)
  BY <1>2, <1>4 DEF Injection
<1>7. order \in Surjection(D, S)
  BY <1>5, <1>6, FS_Injection
<1>8. ToSet(order) = S
  BY <1>3, <1>7 DEF Surjection, ToSet
<1> QED
  BY <1>3, <1>4, <1>8

\* A finite set has a member that no other precedes the other way round: every
\* member is before it or level with it.
LEMMA LastExists ==
    ASSUME NEW R
    PROVE  \A n \in Nat : \A S :
             /\ IsFiniteSet(S) /\ Cardinality(S) = n + 1
             /\ \A x, y \in S : <<x, y>> \in R \/ <<y, x>> \in R
             /\ \A x, y, z \in S :
                   <<x, y>> \in R /\ <<y, z>> \in R => <<x, z>> \in R
             => \E last \in S : \A x \in S : <<x, last>> \in R
<1> DEFINE Ordered(S) ==
             /\ \A x, y \in S : <<x, y>> \in R \/ <<y, x>> \in R
             /\ \A x, y, z \in S :
                   <<x, y>> \in R /\ <<y, z>> \in R => <<x, z>> \in R
           HasLast(S) == \E last \in S : \A x \in S : <<x, last>> \in R
           N == {n \in Nat : \A S :
                   IsFiniteSet(S) /\ Cardinality(S) = n + 1 /\ Ordered(S)
                   => HasLast(S)}
<1>1. 0 \in N
  <2> SUFFICES ASSUME NEW S, IsFiniteSet(S), Cardinality(S) = 1, Ordered(S)
               PROVE  HasLast(S)
    OBVIOUS
  <2>1. PICK x : S = {x}
    BY FS_Singleton
  <2> QED
    BY <2>1
<1>2. ASSUME NEW n \in Nat, n \in N PROVE n + 1 \in N
  <2> SUFFICES ASSUME NEW S, IsFiniteSet(S), Cardinality(S) = (n + 1) + 1,
                      Ordered(S)
               PROVE  HasLast(S)
    OBVIOUS
  <2>1. PICK x \in S : TRUE
    BY FS_EmptySet
  <2>2. IsFiniteSet(S \ {x}) /\ Cardinality(S \ {x}) = n + 1
    BY FS_RemoveElement
  <2>3. PICK last \in S \ {x} : \A y \in S \ {x} : <<y, last>> \in R
    BY <1>2, <2>2
  <2>4. CASE <<x, last>> \in R
    BY <2>3, <2>4
  <2>5. CASE <<last, x>> \in R
    <3>1. \A y \in S : <<y, x>> \in R
      BY <2>1, <2>3, <2>5
    <3> QED
      BY <3>1
  <2> QED
    BY <2>3, <2>4, <2>5
<1> HIDE DEF N
<1>3. \A n \in Nat : n \in N
  BY <1>1, <1>2, NatInduct
<1> QED
  BY <1>3 DEF N

\* What a total preorder R orders can be put in order.
THEOREM OrderExists ==
    ASSUME NEW R, NEW S, IsFiniteSet(S),
           \A x, y \in S : <<x, y>> \in R \/ <<y, x>> \in R,
           \A x, y, z \in S : <<x, y>> \in R /\ <<y, z>> \in R => <<x, z>> \in R
    PROVE  \E order \in SetToSeqs(S) :
              \A i, j \in DOMAIN order : i < j => <<order[i], order[j]>> \in R
<1> DEFINE Ordered(T) ==
             /\ \A x, y \in T : <<x, y>> \in R \/ <<y, x>> \in R
             /\ \A x, y, z \in T :
                   <<x, y>> \in R /\ <<y, z>> \in R => <<x, z>> \in R
           HasOrder(T) ==
             \E order \in SetToSeqs(T) :
                \A i, j \in DOMAIN order : i < j => <<order[i], order[j]>> \in R
           N == {n \in Nat : \A T :
                   IsFiniteSet(T) /\ Cardinality(T) = n /\ Ordered(T)
                   => HasOrder(T)}
<1>1. 0 \in N
  <2> SUFFICES ASSUME NEW T, IsFiniteSet(T), Cardinality(T) = 0 PROVE HasOrder(T)
    OBVIOUS
  <2>1. T = {}
    BY FS_EmptySet
  <2> DEFINE none == [i \in 1 .. 0 |-> i]
  <2>2. none \in SetToSeqs(T)
    BY <2>1 DEF SetToSeqs
  <2>3. DOMAIN none = {}
    OBVIOUS
  <2> QED
    BY <2>2, <2>3
<1>2. ASSUME NEW n \in Nat, n \in N PROVE n + 1 \in N
  <2> SUFFICES ASSUME NEW T, IsFiniteSet(T), Cardinality(T) = n + 1, Ordered(T)
               PROVE  HasOrder(T)
    OBVIOUS
  <2>1. PICK last \in T : \A x \in T : <<x, last>> \in R
    BY LastExists
  <2>2. IsFiniteSet(T \ {last}) /\ Cardinality(T \ {last}) = n
    <3>1. IsFiniteSet(T \ {last}) /\ Cardinality(T \ {last}) = (n + 1) - 1
      BY FS_RemoveElement
    <3> QED
      BY <3>1
  <2>3. PICK order \in SetToSeqs(T \ {last}) :
           \A i, j \in DOMAIN order : i < j => <<order[i], order[j]>> \in R
    BY <1>2, <2>2
  <2>4. /\ order \in [1 .. n -> T \ {last}]
        /\ \A i, j \in 1 .. n : i # j => order[i] # order[j]
    BY <2>2, <2>3 DEF SetToSeqs
  <2> DEFINE all == [i \in 1 .. n + 1 |-> IF i = n + 1 THEN last ELSE order[i]]
  <2>5. \A i \in 1 .. n + 1 : all[i] \in T
    BY <2>4
  <2>6. \A i, j \in 1 .. n + 1 : i # j => all[i] # all[j]
    BY <2>4
  <2>7. all \in SetToSeqs(T)
    <3>1. all \in [1 .. Cardinality(T) -> T]
      BY <2>5
    <3> QED
      BY <2>6, <3>1 DEF SetToSeqs
  <2>8. ASSUME NEW i \in 1 .. n + 1, NEW j \in 1 .. n + 1, i < j
        PROVE  <<all[i], all[j]>> \in R
    <3>1. i \in 1 .. n /\ all[i] = order[i] /\ order[i] \in T
      BY <2>4, <2>8
    <3>2. CASE j = n + 1
      BY <2>1, <3>1, <3>2
    <3>3. CASE j # n + 1
      <4>1. j \in 1 .. n /\ all[j] = order[j] /\ DOMAIN order = 1 .. n
        BY <2>4, <3>3
      <4> QED
        BY <2>3, <2>8, <3>1, <4>1
    <3> QED
      BY <3>2, <3>3
  <2>9. DOMAIN all = 1 .. n + 1
    OBVIOUS
  <2> HIDE DEF all
  <2> QED
    BY <2>7, <2>8, <2>9
<1> HIDE DEF N
<1>3. \A n \in Nat : n \in N
  BY <1>1, <1>2, NatInduct
<1>4. Cardinality(S) \in N
  BY <1>3, FS_CardinalityType
<1> QED
  BY <1>4 DEF N

----------------------------------------------------------------------------
(* Binary digits.                                                           *)

\* Shifting by one more place halves.
LEMMA ShrUnfolds ==
    ASSUME NEW n \in Nat
    PROVE  /\ Shr(n)[0] = n
           /\ \A h \in Nat : /\ Shr(n)[h] \in Nat
                             /\ Shr(n)[h + 1] = Shr(n)[h] \div 2
<1>1. \A p : ShrLoop!Loop(p, n) = Shr(n)
  BY DEF ShrLoop!Loop, ShrStep, Shr
<1>2. Shr(n)[0] = n
  BY <1>1, ShrLoop!LoopUnfolds
<1>3. \A h \in Nat : Shr(n)[h + 1] = Shr(n)[h] \div 2
  BY <1>1, ShrLoop!LoopUnfolds DEF ShrStep
<1> DEFINE S == {h \in Nat : Shr(n)[h] \in Nat}
<1>4. 0 \in S
  BY <1>2
<1>5. ASSUME NEW h \in Nat, h \in S PROVE h + 1 \in S
  BY <1>3, <1>5
<1> HIDE DEF S
<1>6. \A h \in Nat : h \in S
  BY <1>4, <1>5, NatInduct
<1> QED
  BY <1>2, <1>3, <1>6 DEF S

\* A number is its half and its last bit.
LEMMA ShrDigit ==
    ASSUME NEW n \in Nat, NEW h \in Nat
    PROVE  /\ Shr(n)[h] \in Nat
           /\ Shr(n)[h + 1] \in Nat
           /\ BitSet(n, h) => Shr(n)[h] = 2 * Shr(n)[h + 1] + 1
           /\ ~BitSet(n, h) => Shr(n)[h] = 2 * Shr(n)[h + 1]
<1>1. Shr(n)[h] \in Nat /\ Shr(n)[h + 1] = Shr(n)[h] \div 2
  BY ShrUnfolds
<1>2. \A s \in Nat : /\ s \div 2 \in Nat
                     /\ s % 2 = 1 => s = 2 * (s \div 2) + 1
                     /\ s % 2 # 1 => s = 2 * (s \div 2)
  OBVIOUS
<1> QED
  BY <1>1, <1>2 DEF BitSet

\* While the low digits of n + 1 are all zero, those of n are all one: shifting
\* them out leaves two consecutive numbers.
LEMMA ShrCarry ==
    ASSUME NEW n \in Nat
    PROVE  \A h \in Nat : (\A k \in 0 .. h - 1 : ~BitSet(n + 1, k))
                             => Shr(n + 1)[h] = Shr(n)[h] + 1
<1> DEFINE S == {h \in Nat : (\A k \in 0 .. h - 1 : ~BitSet(n + 1, k))
                               => Shr(n + 1)[h] = Shr(n)[h] + 1}
<1>1. 0 \in S
  BY ShrUnfolds
<1>2. ASSUME NEW h \in Nat, h \in S PROVE h + 1 \in S
  <2>1. SUFFICES ASSUME \A k \in 0 .. h : ~BitSet(n + 1, k)
                 PROVE  Shr(n + 1)[h + 1] = Shr(n)[h + 1] + 1
    OBVIOUS
  <2>2. Shr(n + 1)[h] = Shr(n)[h] + 1
    BY <1>2, <2>1
  <2>3. Shr(n + 1)[h] = 2 * Shr(n + 1)[h + 1] /\ Shr(n + 1)[h + 1] \in Nat
    BY <2>1, ShrDigit
  <2>4. Shr(n)[h] = 2 * Shr(n)[h + 1] \/ Shr(n)[h] = 2 * Shr(n)[h + 1] + 1
    BY ShrDigit
  <2>5. Shr(n)[h + 1] \in Nat
    BY ShrDigit
  <2> QED
    BY <2>2, <2>3, <2>4, <2>5
<1> HIDE DEF S
<1>3. \A h \in Nat : h \in S
  BY <1>1, <1>2, NatInduct
<1> QED
  BY <1>3 DEF S

\* Above the lowest set digit of n + 1, n and n + 1 have the same digits.
LEMMA ShrAboveCarry ==
    ASSUME NEW n \in Nat, NEW stop \in Nat, BitSet(n + 1, stop),
           \A k \in 0 .. stop - 1 : ~BitSet(n + 1, k)
    PROVE  \A h \in Nat : h > stop => Shr(n + 1)[h] = Shr(n)[h]
<1> DEFINE S == {h \in Nat : h > stop => Shr(n + 1)[h] = Shr(n)[h]}
<1>1. 0 \in S
  OBVIOUS
<1>2. ASSUME NEW h \in Nat, h \in S PROVE h + 1 \in S
  <2>1. CASE h > stop
    BY <1>2, <2>1, ShrUnfolds
  <2>2. CASE h = stop
    <3>1. Shr(n + 1)[h] = Shr(n)[h] + 1
      BY <2>2, ShrCarry
    <3>2. Shr(n + 1)[h] = 2 * Shr(n + 1)[h + 1] + 1 /\ Shr(n + 1)[h + 1] \in Nat
      BY <2>2, ShrDigit
    <3>3. Shr(n)[h] = 2 * Shr(n)[h + 1] \/ Shr(n)[h] = 2 * Shr(n)[h + 1] + 1
      BY ShrDigit
    <3>4. Shr(n)[h + 1] \in Nat
      BY ShrDigit
    <3> QED
      BY <3>1, <3>2, <3>3, <3>4
  <2>3. CASE h < stop
    BY <2>3
  <2> QED
    BY <2>1, <2>2, <2>3
<1> HIDE DEF S
<1>3. \A h \in Nat : h \in S
  BY <1>1, <1>2, NatInduct
<1> QED
  BY <1>3 DEF S

\* Shifting keeps the order.
LEMMA ShrMonotone ==
    ASSUME NEW m \in Nat, NEW n \in Nat, m <= n
    PROVE  \A h \in Nat : Shr(m)[h] <= Shr(n)[h]
<1> DEFINE S == {h \in Nat : Shr(m)[h] <= Shr(n)[h]}
<1>1. 0 \in S
  BY ShrUnfolds
<1>2. ASSUME NEW h \in Nat, h \in S PROVE h + 1 \in S
  <2>1. \A s, t \in Nat : s <= t => s \div 2 <= t \div 2
    OBVIOUS
  <2> QED
    BY <1>2, <2>1, ShrUnfolds
<1> HIDE DEF S
<1>3. \A h \in Nat : h \in S
  BY <1>1, <1>2, NatInduct
<1> QED
  BY <1>3 DEF S

\* The powers of a number, one after the other.
LEMMA PowerUnfolds ==
    ASSUME NEW b \in Nat
    PROVE  /\ Power(b)[0] = 1
           /\ \A h \in Nat : Power(b)[h] \in Nat /\ Power(b)[h + 1] = b * Power(b)[h]
<1>1. PowerLoop!Loop(b, 1) = Power(b)
  BY DEF PowerLoop!Loop, PowerStep, Power
<1>2. /\ Power(b)[0] = 1
      /\ \A h \in Nat : Power(b)[h + 1] = b * Power(b)[h]
  BY <1>1, PowerLoop!LoopUnfolds DEF PowerStep
<1> DEFINE S == {h \in Nat : Power(b)[h] \in Nat}
<1>3. 0 \in S
  BY <1>2
<1>4. ASSUME NEW h \in Nat, h \in S PROVE h + 1 \in S
  <2>1. \A x \in Nat : b * x \in Nat
    OBVIOUS
  <2> QED
    BY <1>2, <1>4, <2>1
<1> HIDE DEF S
<1>5. \A h \in Nat : h \in S
  BY <1>3, <1>4, NatInduct
<1> QED
  BY <1>2, <1>5 DEF S

\* A number whose last h digits are 0 is a multiple of 2 ^ h.
LEMMA ShrOfMultiple ==
    ASSUME NEW n \in Nat
    PROVE  \A h \in Nat : (\A k \in 0 .. h - 1 : ~BitSet(n, k))
                             => n = Shr(n)[h] * Power(2)[h]
<1> DEFINE S == {h \in Nat : (\A k \in 0 .. h - 1 : ~BitSet(n, k))
                               => n = Shr(n)[h] * Power(2)[h]}
<1>1. 0 \in S
  BY ShrUnfolds, PowerUnfolds
<1>2. ASSUME NEW h \in Nat, h \in S PROVE h + 1 \in S
  <2>1. SUFFICES ASSUME \A k \in 0 .. h : ~BitSet(n, k)
                 PROVE  n = Shr(n)[h + 1] * Power(2)[h + 1]
    OBVIOUS
  <2>2. ~BitSet(n, h) /\ n = Shr(n)[h] * Power(2)[h]
    BY <1>2, <2>1
  <2>3. Shr(n)[h] = 2 * Shr(n)[h + 1] /\ Shr(n)[h + 1] \in Nat
    BY <2>2, ShrDigit
  <2>4. Power(2)[h] \in Nat /\ Power(2)[h + 1] = 2 * Power(2)[h]
    BY PowerUnfolds
  <2>5. \A s, x \in Nat : (2 * s) * x = s * (2 * x)
    OBVIOUS
  <2> QED
    BY <2>2, <2>3, <2>4, <2>5
<1> HIDE DEF S
<1>3. \A h \in Nat : h \in S
  BY <1>1, <1>2, NatInduct
<1> QED
  BY <1>3 DEF S

\* A number lies between the powers of 2 that its digits from h on tell.
LEMMA ShrBetween ==
    ASSUME NEW n \in Nat
    PROVE  \A h \in Nat : /\ Shr(n)[h] * Power(2)[h] <= n
                          /\ n < (Shr(n)[h] + 1) * Power(2)[h]
<1> DEFINE s(h) == Shr(n)[h]
           q(h) == Power(2)[h]
           S == {h \in Nat : s(h) * q(h) <= n /\ n < (s(h) + 1) * q(h)}
<1>1. 0 \in S
  <2>1. s(0) = n /\ q(0) = 1
    BY ShrUnfolds, PowerUnfolds
  <2> QED
    BY <2>1
<1>2. ASSUME NEW h \in Nat, h \in S PROVE h + 1 \in S
  <2>1. s(h) \in Nat /\ s(h + 1) \in Nat /\ s(h) \in {2 * s(h + 1), 2 * s(h + 1) + 1}
    BY ShrDigit
  <2>2. q(h) \in Nat /\ q(h + 1) \in Nat /\ q(h + 1) = 2 * q(h)
    BY PowerUnfolds
  <2>3. s(h) * q(h) <= n /\ n < (s(h) + 1) * q(h)
    BY <1>2
  <2> HIDE DEF s, q
  <2>4. s(h + 1) * q(h + 1) = 2 * (s(h + 1) * q(h))
    BY <2>1, <2>2
  <2>5. (s(h + 1) + 1) * q(h + 1) = 2 * (s(h + 1) * q(h)) + 2 * q(h)
    <3>1. \A x, y \in Nat : (x + 1) * (2 * y) = 2 * (x * y) + 2 * y
      OBVIOUS
    <3> QED
      BY <2>1, <2>2, <3>1
  <2>6. CASE s(h) = 2 * s(h + 1)
    <3>1. s(h) * q(h) = 2 * (s(h + 1) * q(h))
      BY <2>1, <2>2, <2>6
    <3>2. (s(h) + 1) * q(h) = 2 * (s(h + 1) * q(h)) + q(h)
      BY <2>1, <2>2, <2>6
    <3> QED
      BY <2>1, <2>2, <2>3, <2>4, <2>5, <3>1, <3>2
  <2>7. CASE s(h) = 2 * s(h + 1) + 1
    <3>1. s(h) * q(h) = 2 * (s(h + 1) * q(h)) + q(h)
      BY <2>1, <2>2, <2>7
    <3>2. (s(h) + 1) * q(h) = 2 * (s(h + 1) * q(h)) + 2 * q(h)
      BY <2>1, <2>2, <2>7
    <3> QED
      BY <2>1, <2>2, <2>3, <2>4, <2>5, <3>1, <3>2
  <2> QED
    BY <2>1, <2>6, <2>7
<1> HIDE DEF S
<1>3. \A h \in Nat : h \in S
  BY <1>1, <1>2, NatInduct
<1> QED
  BY <1>3 DEF S, s, q

\* Nothing is left of a number exactly when it is below the power of 2.
LEMMA ShrIsZero ==
    ASSUME NEW n \in Nat, NEW h \in Nat
    PROVE  Shr(n)[h] = 0 <=> n < Power(2)[h]
<1> DEFINE s == Shr(n)[h]
           q == Power(2)[h]
<1>1. s \in Nat /\ q \in Nat /\ s * q <= n /\ n < (s + 1) * q
  BY ShrUnfolds, PowerUnfolds, ShrBetween
<1> HIDE DEF s, q
<1>2. s = 0 => n < q
  <2>1. (0 + 1) * q = q
    BY <1>1
  <2> QED
    BY <1>1, <2>1
<1>3. s # 0 => n >= q
  <2>1. \A x, y \in Nat : x # 0 => x * y >= y
    OBVIOUS
  <2>2. s # 0 => s * q >= q /\ s * q \in Nat
    BY <1>1, <2>1
  <2> QED
    BY <1>1, <2>2
<1>4. s = 0 <=> n < q
  BY <1>1, <1>2, <1>3
<1> QED
  BY <1>4 DEF s, q

\* Powers of 2 outgrow their exponents.
LEMMA PowerGrows == \A h \in Nat : Power(2)[h] > h
<1> DEFINE S == {h \in Nat : Power(2)[h] > h}
<1>1. 0 \in S
  BY PowerUnfolds
<1>2. ASSUME NEW h \in Nat, h \in S PROVE h + 1 \in S
  BY <1>2, PowerUnfolds
<1> HIDE DEF S
<1>3. \A h \in Nat : h \in S
  BY <1>1, <1>2, NatInduct
<1> QED
  BY <1>3 DEF S

\* Shifting twice is shifting by the sum.
LEMMA ShrTwice ==
    ASSUME NEW n \in Nat, NEW a \in Nat
    PROVE  \A h \in Nat : Shr(Shr(n)[a])[h] = Shr(n)[a + h]
<1> DEFINE S == {h \in Nat : Shr(Shr(n)[a])[h] = Shr(n)[a + h]}
<1>1. Shr(n)[a] \in Nat
  BY ShrUnfolds
<1>2. 0 \in S
  BY <1>1, ShrUnfolds
<1>3. ASSUME NEW h \in Nat, h \in S PROVE h + 1 \in S
  <2>1. Shr(Shr(n)[a])[h + 1] = Shr(Shr(n)[a])[h] \div 2
    BY <1>1, ShrUnfolds
  <2>2. a + h \in Nat /\ a + (h + 1) = (a + h) + 1
    OBVIOUS
  <2>3. Shr(n)[(a + h) + 1] = Shr(n)[a + h] \div 2
    BY <2>2, ShrUnfolds
  <2> QED
    BY <1>3, <2>1, <2>2, <2>3
<1> HIDE DEF S
<1>4. \A h \in Nat : h \in S
  BY <1>2, <1>3, NatInduct
<1> QED
  BY <1>4 DEF S

\* The half of a number has its other digits.
LEMMA HalfDigits ==
    ASSUME NEW n \in Nat
    PROVE  Shr(n)[1] \in Nat /\ \A h \in Nat : Shr(Shr(n)[1])[h] = Shr(n)[h + 1]
<1>1. 1 \in Nat /\ Shr(n)[1] \in Nat
  BY ShrUnfolds
<1>2. \A a \in Nat : \A h \in Nat : Shr(Shr(n)[a])[h] = Shr(n)[a + h]
  BY ShrTwice
<1>3. \A h \in Nat : Shr(Shr(n)[1])[h] = Shr(n)[1 + h]
  BY <1>1, <1>2
<1>4. \A h \in Nat : 1 + h = h + 1
  OBVIOUS
<1> QED
  BY <1>1, <1>3, <1>4

\* What is shifted out completely stays so.
LEMMA ShrStaysZero ==
    ASSUME NEW n \in Nat, NEW a \in Nat, Shr(n)[a] = 0
    PROVE  \A h \in Nat : h >= a => Shr(n)[h] = 0
<1> DEFINE S == {h \in Nat : h >= a => Shr(n)[h] = 0}
<1>1. 0 \in S
  OBVIOUS
<1>2. ASSUME NEW h \in Nat, h \in S PROVE h + 1 \in S
  <2>1. Shr(n)[h + 1] = Shr(n)[h] \div 2
    BY ShrUnfolds
  <2>2. CASE h >= a
    BY <1>2, <2>1, <2>2
  <2>3. CASE h < a
    BY <2>3
  <2> QED
    BY <2>2, <2>3
<1> HIDE DEF S
<1>3. \A h \in Nat : h \in S
  BY <1>1, <1>2, NatInduct
<1> QED
  BY <1>3 DEF S

\* Nothing is left of n after n places.
LEMMA ShrVanishes == ASSUME NEW n \in Nat PROVE Shr(n)[n] = 0
  BY PowerGrows, ShrIsZero

\* A number is determined by its digits.
LEMMA DigitsDetermine ==
    ASSUME NEW m \in Nat, NEW n \in Nat,
           \A k \in Nat : BitSet(m, k) <=> BitSet(n, k)
    PROVE  m = n
<1> DEFINE t == m + n
           S == {d \in Nat : d <= t => Shr(m)[t - d] = Shr(n)[t - d]}
<1>1. 0 \in S
  <2>1. /\ Shr(m)[m] = 0 /\ Shr(n)[n] = 0
        /\ t \in Nat /\ t >= m /\ t >= n /\ t - 0 = t
    BY ShrVanishes
  <2>2. Shr(m)[t] = 0 /\ Shr(n)[t] = 0
    BY <2>1, ShrStaysZero
  <2> QED
    BY <2>1, <2>2
<1>2. ASSUME NEW d \in Nat, d \in S PROVE d + 1 \in S
  <2>1. SUFFICES ASSUME d + 1 <= t PROVE Shr(m)[t - (d + 1)] = Shr(n)[t - (d + 1)]
    OBVIOUS
  <2> DEFINE k == t - (d + 1)
  <2>2. k \in Nat /\ k + 1 = t - d
    BY <2>1
  <2>3. Shr(m)[k + 1] = Shr(n)[k + 1]
    BY <1>2, <2>1, <2>2
  <2> HIDE DEF k
  <2>4. BitSet(m, k) <=> BitSet(n, k)
    BY <2>2
  <2>5. CASE BitSet(m, k)
    BY <2>2, <2>3, <2>4, <2>5, ShrDigit
  <2>6. CASE ~BitSet(m, k)
    BY <2>2, <2>3, <2>4, <2>6, ShrDigit
  <2> QED
    BY <2>5, <2>6 DEF k
<1> HIDE DEF S
<1>3. t \in S
  BY <1>1, <1>2, NatInduct
<1>4. t \in Nat /\ t - t = 0
  OBVIOUS
<1>5. Shr(m)[0] = Shr(n)[0]
  BY <1>3, <1>4 DEF S
<1> QED
  BY <1>5, ShrUnfolds

\* Two numbers have a bitwise or, which is at most their sum.
LEMMA OrExists ==
    \A l \in Nat : \A m, n \in Nat : Shr(m)[l] = 0 /\ Shr(n)[l] = 0 =>
        \E o \in 0 .. m + n :
            \A k \in Nat : BitSet(o, k) <=> BitSet(m, k) \/ BitSet(n, k)
<1> DEFINE Is(o, m, n) == \A k \in Nat : BitSet(o, k) <=> BitSet(m, k) \/ BitSet(n, k)
           S == {l \in Nat : \A m, n \in Nat : Shr(m)[l] = 0 /\ Shr(n)[l] = 0 =>
                    \E o \in 0 .. m + n : Is(o, m, n)}
<1>1. 0 \in S
  <2> SUFFICES ASSUME NEW m \in Nat, NEW n \in Nat, Shr(m)[0] = 0, Shr(n)[0] = 0
               PROVE  \E o \in 0 .. m + n : Is(o, m, n)
    OBVIOUS
  <2>1. m = 0 /\ n = 0
    BY ShrUnfolds
  <2> QED
    BY <2>1
<1>2. ASSUME NEW l \in Nat, l \in S PROVE l + 1 \in S
  <2> SUFFICES ASSUME NEW m \in Nat, NEW n \in Nat,
                      Shr(m)[l + 1] = 0, Shr(n)[l + 1] = 0
               PROVE  \E o \in 0 .. m + n : Is(o, m, n)
    OBVIOUS
  <2> DEFINE mm == Shr(m)[1]
             nn == Shr(n)[1]
  <2>1. mm \in Nat /\ nn \in Nat
    BY HalfDigits
  <2>2. \A h \in Nat : Shr(mm)[h] = Shr(m)[h + 1] /\ Shr(nn)[h] = Shr(n)[h + 1]
    BY HalfDigits
  <2>3. PICK oo \in 0 .. mm + nn : Is(oo, mm, nn)
    <3>1. Shr(mm)[l] = 0 /\ Shr(nn)[l] = 0
      BY <2>1, <2>2
    <3> HIDE DEF mm, nn, Is
    <3> QED
      BY <1>2, <2>1, <3>1
  <2>4. /\ BitSet(m, 0) => m = 2 * mm + 1
        /\ ~BitSet(m, 0) => m = 2 * mm
        /\ BitSet(n, 0) => n = 2 * nn + 1
        /\ ~BitSet(n, 0) => n = 2 * nn
    <3>1. Shr(m)[0] = m /\ Shr(n)[0] = n /\ 0 + 1 = 1
      BY ShrUnfolds
    <3> QED
      BY <3>1, ShrDigit
  <2> DEFINE o == IF BitSet(m, 0) \/ BitSet(n, 0) THEN 2 * oo + 1 ELSE 2 * oo
  <2>5. oo \in Nat /\ oo <= mm + nn
    BY <2>1, <2>3
  <2>6. o \in 0 .. m + n
    <3> HIDE DEF mm, nn
    <3> QED
      BY <2>1, <2>4, <2>5
  <2>7. o \in Nat /\ (o % 2 = 1 <=> BitSet(m, 0) \/ BitSet(n, 0)) /\ o \div 2 = oo
    <3>1. \A x \in Nat : /\ 2 * x \in Nat /\ (2 * x) % 2 = 0 /\ (2 * x) \div 2 = x
                         /\ 2 * x + 1 \in Nat /\ (2 * x + 1) % 2 = 1
                         /\ (2 * x + 1) \div 2 = x
      OBVIOUS
    <3>2. CASE BitSet(m, 0) \/ BitSet(n, 0)
      BY <2>5, <3>1, <3>2
    <3>3. CASE ~(BitSet(m, 0) \/ BitSet(n, 0))
      BY <2>5, <3>1, <3>3
    <3> QED
      BY <3>2, <3>3
  <2> HIDE DEF o
  <2>8. Shr(o)[0] = o /\ Shr(o)[1] = oo
    <3>1. Shr(o)[0] = o /\ \A h \in Nat : Shr(o)[h + 1] = Shr(o)[h] \div 2
      BY <2>7, ShrUnfolds
    <3>2. Shr(o)[0 + 1] = Shr(o)[0] \div 2
      BY <3>1
    <3> QED
      BY <2>7, <3>1, <3>2
  <2>9. ASSUME NEW k \in Nat PROVE BitSet(o, k) <=> BitSet(m, k) \/ BitSet(n, k)
    <3>1. CASE k = 0
      BY <2>7, <2>8, <3>1 DEF BitSet
    <3>2. CASE k # 0
      <4> DEFINE j == k - 1
      <4>1. j \in Nat /\ j + 1 = k
        BY <3>2
      <4> HIDE DEF j
      <4>2. Shr(o)[k] = Shr(oo)[j]
        <5>1. \A h \in Nat : Shr(Shr(o)[1])[h] = Shr(o)[h + 1]
          BY <2>7, HalfDigits
        <5> QED
          BY <2>8, <4>1, <5>1
      <4>4. Shr(m)[k] = Shr(mm)[j] /\ Shr(n)[k] = Shr(nn)[j]
        <5> HIDE DEF mm, nn
        <5> QED
          BY <2>2, <4>1
      <4>3. /\ BitSet(o, k) <=> BitSet(oo, j)
            /\ BitSet(m, k) <=> BitSet(mm, j)
            /\ BitSet(n, k) <=> BitSet(nn, j)
        BY <4>2, <4>4 DEF BitSet
      <4> HIDE DEF mm, nn
      <4> QED
        BY <2>3, <4>1, <4>3
    <3> QED
      BY <3>1, <3>2
  <2> QED
    BY <2>6, <2>9
<1> HIDE DEF S
<1>3. \A l \in Nat : l \in S
  BY <1>1, <1>2, NatInduct
<1> QED
  BY <1>3 DEF S

\* The digits of m | n are those of m and those of n.
LEMMA OrDigits ==
    ASSUME NEW m \in Nat, NEW n \in Nat
    PROVE  /\ Or(m, n) \in Nat
           /\ \A k \in Nat : BitSet(Or(m, n), k) <=> BitSet(m, k) \/ BitSet(n, k)
<1> DEFINE t == m + n
           Is(o) == \A k \in 0 .. t : BitSet(o, k) <=> BitSet(m, k) \/ BitSet(n, k)
<1>1. t \in Nat /\ t >= m /\ t >= n
  OBVIOUS
<1>2. Shr(m)[t] = 0 /\ Shr(n)[t] = 0
  BY <1>1, ShrVanishes, ShrStaysZero
<1>3. \E o \in 0 .. t : Is(o)
  <2>1. PICK o \in 0 .. m + n :
           \A k \in Nat : BitSet(o, k) <=> BitSet(m, k) \/ BitSet(n, k)
    BY <1>1, <1>2, OrExists
  <2> QED
    BY <2>1
<1>4. Or(m, n) \in 0 .. t /\ Is(Or(m, n))
  <2>1. Or(m, n) = CHOOSE o \in 0 .. t : Is(o)
    BY DEF Or
  <2> HIDE DEF Is, t
  <2> QED
    BY <1>3, <2>1
<1> DEFINE o == Or(m, n)
<1>5. o \in Nat /\ o <= t
  BY <1>4
<1> HIDE DEF o
<1>6. ASSUME NEW k \in Nat, k > t PROVE ~BitSet(o, k) /\ ~BitSet(m, k) /\ ~BitSet(n, k)
  <2>1. Shr(o)[k] = 0 /\ Shr(m)[k] = 0 /\ Shr(n)[k] = 0
    <3>1. Shr(o)[t] = 0
      <4>1. Shr(o)[o] = 0
        BY <1>5, ShrVanishes
      <4> QED
        BY <1>1, <1>5, <4>1, ShrStaysZero
    <3> HIDE DEF t
    <3> QED
      BY <1>1, <1>2, <1>5, <1>6, <3>1, ShrStaysZero
  <2> QED
    BY <2>1 DEF BitSet
<1>7. ASSUME NEW k \in Nat PROVE BitSet(o, k) <=> BitSet(m, k) \/ BitSet(n, k)
  <2>1. CASE k > t
    BY <1>6, <2>1
  <2>2. CASE k <= t
    BY <1>1, <1>4, <2>2 DEF o
  <2> QED
    BY <1>1, <2>1, <2>2
<1> QED
  BY <1>5, <1>7 DEF o

\* A number has no more digits than its length.
LEMMA BitLenIs ==
    ASSUME NEW n \in Nat
    PROVE  /\ BitLen(n) \in 0 .. n
           /\ Shr(n)[BitLen(n)] = 0
           /\ BitLen(n) # 0 => Shr(n)[BitLen(n) - 1] # 0
<1> DEFINE Is(l) == Shr(n)[l] = 0 /\ (l = 0 \/ Shr(n)[l - 1] # 0)
           S == {l \in Nat : (\A k \in 0 .. l : ~Is(k)) => Shr(n)[l] # 0}
<1>1. \E l \in 0 .. n : Is(l)
  <2>1. SUFFICES ASSUME \A l \in 0 .. n : ~Is(l) PROVE FALSE
    OBVIOUS
  <2>2. 0 \in S
    OBVIOUS
  <2>3. ASSUME NEW l \in Nat, l \in S PROVE l + 1 \in S
    <3>1. SUFFICES ASSUME \A k \in 0 .. l + 1 : ~Is(k), Shr(n)[l + 1] = 0 PROVE FALSE
      OBVIOUS
    <3>2. Shr(n)[l] # 0
      BY <2>3, <3>1
    <3>3. (l + 1) - 1 = l /\ l + 1 # 0
      OBVIOUS
    <3>4. Is(l + 1)
      BY <3>1, <3>2, <3>3
    <3> QED
      BY <3>1, <3>4
  <2> HIDE DEF S
  <2>4. n \in S
    BY <2>2, <2>3, NatInduct
  <2> QED
    BY <2>1, <2>4, ShrVanishes DEF S
<1>2. BitLen(n) = CHOOSE l \in 0 .. n : Is(l)
  BY DEF BitLen
<1>3. BitLen(n) \in 0 .. n /\ Is(BitLen(n))
  <2> HIDE DEF Is
  <2> QED
    BY <1>1, <1>2
<1> QED
  BY <1>3
=============================================================================
