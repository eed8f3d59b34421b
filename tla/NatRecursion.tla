---------------------------- MODULE NatRecursion ----------------------------
(***************************************************************************)
(* Induction over Nat and loops as recursive functions, in a form the      *)
(* proofs of this project can cite.  A recursive function is a CHOOSE; that*)
(* it satisfies its own equation has to be proved.  It is proved here once,*)
(* for an arbitrary loop body Step, and each loop of the model gets the    *)
(* fact by instantiating the module with its own body.                     *)
(*                                                                         *)
(* Step(p, n, x) is the value after pass number n of the loop, x being the *)
(* value before it and p whatever the loop does not change.                *)
(***************************************************************************)
EXTENDS Integers, TLAPS, WellFoundedInduction

CONSTANT Step(_, _, _)

Loop(p, base) ==
    LET r[n \in Nat] == IF n = 0 THEN base ELSE Step(p, n - 1, r[n - 1]) IN r

\* The first n + 1 values of the loop.
IsLoopUpTo(p, base, g, n) ==
    /\ g[0] = base
    /\ \A i \in 1 .. n : g[i] = Step(p, i - 1, g[i - 1])

----------------------------------------------------------------------------
\* A set that holds 0 and with each number the next one holds every number.
THEOREM SetInduction ==
    \A S : /\ 0 \in S
           /\ \A n \in Nat : n \in S => n + 1 \in S
           => Nat \subseteq S
<1> SUFFICES ASSUME NEW S, 0 \in S, \A n \in Nat : n \in S => n + 1 \in S
             PROVE  Nat \subseteq S
  OBVIOUS
<1> DEFINE R == OpToRel(<, Nat)
           T == Nat \ S
<1>1. IsWellFoundedOn(R, Nat)
  BY NatLessThanWellFounded
<1>2. \A x \in Nat, y \in Nat : x < y => <<x, y>> \in R
  BY DEF OpToRel
<1> HIDE DEF R
<1>3. SUFFICES ASSUME T # {} PROVE FALSE
  OBVIOUS
<1>4. PICK x \in T : \A y \in T : ~ (<<y, x>> \in R)
  BY <1>1, <1>3, WFMin
<1>5. x # 0
  OBVIOUS
<1>6. x - 1 \in Nat /\ x - 1 < x
  BY <1>4, <1>5
<1>7. x - 1 \notin T
  BY <1>2, <1>4, <1>6
<1>8. x \in S
  <2>1. x - 1 \in S
    BY <1>6, <1>7
  <2>2. (x - 1) + 1 = x
    OBVIOUS
  <2> QED
    BY <2>1, <2>2, <1>6
<1> QED
  BY <1>8

\* The loop runs for any number of passes.
LEMMA LoopExists ==
    ASSUME NEW p, NEW base
    PROVE  \A n \in Nat : \E g : IsLoopUpTo(p, base, g, n)
<1> DEFINE S == {n \in Nat : \E g : IsLoopUpTo(p, base, g, n)}
<1>1. 0 \in S
  <2>1. IsLoopUpTo(p, base, [i \in 0 .. 0 |-> base], 0)
    BY DEF IsLoopUpTo
  <2> QED
    BY <2>1
<1>2. ASSUME NEW n \in Nat, n \in S PROVE n + 1 \in S
  <2>1. PICK g : IsLoopUpTo(p, base, g, n)
    BY <1>2
  <2> DEFINE k == [i \in 0 .. n + 1 |->
                     IF i = n + 1 THEN Step(p, n, g[n]) ELSE g[i]]
  <2>2. k[0] = base
    BY <2>1 DEF IsLoopUpTo
  <2>3. ASSUME NEW i \in 1 .. n + 1 PROVE k[i] = Step(p, i - 1, k[i - 1])
    <3>1. CASE i = n + 1
      <4>1. i - 1 = n /\ k[i - 1] = g[n]
        BY <3>1
      <4>2. k[i] = Step(p, n, g[n])
        BY <3>1
      <4> QED
        BY <4>1, <4>2
    <3>2. CASE i # n + 1
      <4>1. i \in 1 .. n /\ i - 1 \in 0 .. n + 1 /\ i - 1 # n + 1
        BY <3>2
      <4>2. k[i] = g[i] /\ k[i - 1] = g[i - 1]
        BY <4>1, <3>2
      <4>3. g[i] = Step(p, i - 1, g[i - 1])
        BY <2>1, <4>1 DEF IsLoopUpTo
      <4> HIDE DEF k
      <4> QED
        BY <4>2, <4>3
    <3> QED
      BY <3>1, <3>2
  <2> HIDE DEF k
  <2>4. IsLoopUpTo(p, base, k, n + 1)
    BY <2>2, <2>3 DEF IsLoopUpTo
  <2> QED
    BY <2>4
<1> HIDE DEF S
<1>3. \A n \in Nat : n \in S
  BY <1>1, <1>2, SetInduction
<1> QED
  BY <1>3 DEF S

\* Two runs of the loop agree as far as both go.
LEMMA LoopAgrees ==
    ASSUME NEW p, NEW base, NEW m \in Nat, NEW n \in Nat, NEW g, NEW k,
           IsLoopUpTo(p, base, g, m), IsLoopUpTo(p, base, k, n)
    PROVE  \A i \in Nat : i <= m /\ i <= n => g[i] = k[i]
<1> DEFINE E == {i \in Nat : i <= m /\ i <= n => g[i] = k[i]}
<1>1. 0 \in E
  BY DEF IsLoopUpTo
<1>2. ASSUME NEW i \in Nat, i \in E PROVE i + 1 \in E
  <2>1. SUFFICES ASSUME i + 1 <= m, i + 1 <= n PROVE g[i + 1] = k[i + 1]
    OBVIOUS
  <2>2. g[i] = k[i]
    BY <1>2, <2>1
  <2>3. i + 1 \in 1 .. m /\ i + 1 \in 1 .. n /\ (i + 1) - 1 = i
    BY <2>1
  <2>4. g[i + 1] = Step(p, i, g[i]) /\ k[i + 1] = Step(p, i, k[i])
    BY <2>3 DEF IsLoopUpTo
  <2> QED
    BY <2>2, <2>4
<1> HIDE DEF E
<1>3. \A i \in Nat : i \in E
  BY <1>1, <1>2, SetInduction
<1> QED
  BY <1>3 DEF E

\* The recursive function satisfies its defining equation.
LEMMA LoopDef ==
    ASSUME NEW p, NEW base
    PROVE  Loop(p, base) =
             [n \in Nat |-> IF n = 0 THEN base
                            ELSE Step(p, n - 1, Loop(p, base)[n - 1])]
<1> DEFINE A(n) == CHOOSE g : IsLoopUpTo(p, base, g, n)
           G == [n \in Nat |-> A(n)[n]]
           H == [n \in Nat |-> IF n = 0 THEN base
                               ELSE Step(p, n - 1, G[n - 1])]
<1>1. \A n \in Nat : IsLoopUpTo(p, base, A(n), n)
  BY LoopExists
<1> HIDE DEF A
<1>2. ASSUME NEW n \in Nat PROVE G[n] = H[n]
  <2>1. CASE n = 0
    BY <1>1, <2>1 DEF IsLoopUpTo
  <2>2. CASE n # 0
    <3>1. n - 1 \in Nat /\ n \in 1 .. n /\ n - 1 <= n /\ n - 1 <= n - 1
      BY <2>2
    <3>2. A(n)[n] = Step(p, n - 1, A(n)[n - 1])
      BY <1>1, <3>1 DEF IsLoopUpTo
    <3>3. A(n)[n - 1] = A(n - 1)[n - 1]
      BY <1>1, <3>1, LoopAgrees
    <3>4. G[n] = A(n)[n] /\ G[n - 1] = A(n - 1)[n - 1]
      BY <3>1
    <3>5. H[n] = Step(p, n - 1, G[n - 1])
      BY <2>2
    <3> HIDE DEF G, H
    <3> QED
      BY <3>2, <3>3, <3>4, <3>5
  <2> QED
    BY <2>1, <2>2
<1>3. G = H
  BY <1>2
<1> HIDE DEF G
<1> QED
  BY <1>3 DEF Loop

\* The value before the first pass is base, and every pass applies Step.
THEOREM LoopUnfolds ==
    \A p, base :
        /\ Loop(p, base)[0] = base
        /\ \A n \in Nat : Loop(p, base)[n + 1] = Step(p, n, Loop(p, base)[n])
<1> SUFFICES ASSUME NEW p, NEW base
             PROVE  /\ Loop(p, base)[0] = base
                    /\ \A n \in Nat : Loop(p, base)[n + 1]
                                        = Step(p, n, Loop(p, base)[n])
  OBVIOUS
<1> DEFINE R == Loop(p, base)
<1> HIDE DEF R
<1>1. R = [n \in Nat |-> IF n = 0 THEN base ELSE Step(p, n - 1, R[n - 1])]
  BY LoopDef DEF R
<1>2. R[0] = base
  BY <1>1
<1>3. ASSUME NEW n \in Nat PROVE R[n + 1] = Step(p, n, R[n])
  <2>1. n + 1 \in Nat /\ n + 1 # 0 /\ (n + 1) - 1 = n
    OBVIOUS
  <2>2. R[n + 1] = Step(p, (n + 1) - 1, R[(n + 1) - 1])
    BY <1>1, <2>1
  <2> QED
    BY <2>1, <2>2
<1> QED
  BY <1>2, <1>3 DEF R

----------------------------------------------------------------------------
(* FoldLeft of SequencesExt, spelled out: Step(p, d, x) is what the         *)
(* operator of the fold makes of x and the next element d.                  *)

FoldValues(p, base, seq) ==
    LET iter[s \in SUBSET DOMAIN seq] ==
            IF s = {} THEN base
            ELSE LET last == CHOOSE i \in s : \A j \in s : i >= j
                 IN  Step(p, seq[last], iter[s \ {last}])
    IN  iter

\* The greatest number of a set that holds n and smaller ones.
LEMMA LastOf ==
    ASSUME NEW n \in Nat, NEW s, n \in s, \A j \in s : j \in Nat /\ j <= n
    PROVE  (CHOOSE i \in s : \A j \in s : i >= j) = n
<1> DEFINE last == CHOOSE i \in s : \A j \in s : i >= j
<1>1. \A j \in s : n >= j
  OBVIOUS
<1>2. last \in s /\ \A j \in s : last >= j
  BY <1>1
<1> HIDE DEF last
<1>3. last >= n /\ last <= n /\ last \in Nat
  BY <1>2
<1> QED
  BY <1>3 DEF last

\* The folds over the subsets of 1 .. n, if seq has that domain.
AreFolds(g, p, base, seq, n) ==
    g = [s \in SUBSET (1 .. n) |->
            IF s = {} THEN base
            ELSE LET last == CHOOSE i \in s : \A j \in s : i >= j
                 IN  Step(p, seq[last], g[s \ {last}])]

\* The folds over the initial segments are the values of a loop.
LEMMA FoldValuesExist ==
    ASSUME NEW p, NEW base, NEW seq
    PROVE  \A n \in Nat : \E g : AreFolds(g, p, base, seq, n)
<1> DEFINE last(s) == CHOOSE i \in s : \A j \in s : i >= j
           Value(g, s) == IF s = {} THEN base
                          ELSE Step(p, seq[last(s)], g[s \ {last(s)}])
           Is(g, n) == g = [s \in SUBSET (1 .. n) |-> Value(g, s)]
           S == {n \in Nat : \E g : Is(g, n)}
<1>1. 0 \in S
  <2> DEFINE g == [s \in SUBSET (1 .. 0) |-> base]
  <2>1. \A s \in SUBSET (1 .. 0) : s = {}
    OBVIOUS
  <2>2. Is(g, 0)
    BY <2>1
  <2> QED
    BY <2>2
<1>2. ASSUME NEW n \in Nat, n \in S PROVE n + 1 \in S
  <2>1. PICK g : Is(g, n)
    BY <1>2
  <2> DEFINE D == SUBSET (1 .. n + 1)
             k == [s \in D |-> IF n + 1 \in s THEN Step(p, seq[n + 1], g[s \ {n + 1}])
                               ELSE g[s]]
  <2>2. ASSUME NEW s \in D PROVE k[s] = Value(k, s)
    <3>1. CASE n + 1 \in s
      <4>1. last(s) = n + 1 /\ s # {}
        <5>1. \A j \in s : j \in Nat /\ j <= n + 1
          OBVIOUS
        <5> QED
          BY <3>1, <5>1, LastOf
      <4>2. s \ {n + 1} \in D /\ n + 1 \notin s \ {n + 1}
        OBVIOUS
      <4>3. k[s \ {n + 1}] = g[s \ {n + 1}]
        BY <4>2
      <4>4. k[s] = Step(p, seq[n + 1], g[s \ {n + 1}])
        BY <3>1
      <4> HIDE DEF k, last
      <4> QED
        BY <4>1, <4>3, <4>4
    <3>2. CASE n + 1 \notin s
      <4>1. s \in SUBSET (1 .. n)
        BY <3>2
      <4>2. k[s] = g[s]
        BY <3>2
      <4>3. g[s] = Value(g, s)
        <5> HIDE DEF Value
        <5> QED
          BY <2>1, <4>1
      <4>4. CASE s = {}
        BY <4>2, <4>3, <4>4
      <4>5. CASE s # {}
        <5>1. s \ {last(s)} \in D /\ n + 1 \notin s \ {last(s)}
          BY <3>2
        <5>2. k[s \ {last(s)}] = g[s \ {last(s)}]
          BY <5>1
        <5> HIDE DEF k, last
        <5> QED
          BY <4>2, <4>3, <4>5, <5>2
      <4> QED
        BY <4>4, <4>5
    <3> QED
      BY <3>1, <3>2
  <2>3. k = [s \in D |-> k[s]]
    OBVIOUS
  <2> HIDE DEF k, Value
  <2>4. Is(k, n + 1)
    BY <2>2, <2>3
  <2> QED
    BY <2>4
<1> HIDE DEF S
<1>3. \A n \in Nat : n \in S
  BY <1>1, <1>2, SetInduction
<1> QED
  BY <1>3 DEF S, AreFolds

\* A fold takes the elements of a sequence in turn.
THEOREM FoldUnfolds ==
    \A p, base : \A n \in Nat : \A seq : DOMAIN seq = 1 .. n =>
        /\ FoldValues(p, base, seq)[1 .. 0] = base
        /\ \A k \in 0 .. n - 1 : FoldValues(p, base, seq)[1 .. k + 1]
                = Step(p, seq[k + 1], FoldValues(p, base, seq)[1 .. k])
<1> SUFFICES ASSUME NEW p, NEW base, NEW n \in Nat, NEW seq, DOMAIN seq = 1 .. n
             PROVE  /\ FoldValues(p, base, seq)[1 .. 0] = base
                    /\ \A k \in 0 .. n - 1 : FoldValues(p, base, seq)[1 .. k + 1]
                          = Step(p, seq[k + 1], FoldValues(p, base, seq)[1 .. k])
  OBVIOUS
<1> DEFINE last(s) == CHOOSE i \in s : \A j \in s : i >= j
           Value(g, s) == IF s = {} THEN base
                          ELSE Step(p, seq[last(s)], g[s \ {last(s)}])
           F == FoldValues(p, base, seq)
<1>1. F = [s \in SUBSET (1 .. n) |-> Value(F, s)]
  <2>1. F = CHOOSE g : g = [s \in SUBSET (1 .. n) |-> Value(g, s)]
    BY DEF FoldValues
  <2>2. \E g : AreFolds(g, p, base, seq, n)
    BY FoldValuesExist
  <2>3. \E g : g = [s \in SUBSET (1 .. n) |-> Value(g, s)]
    BY <2>2 DEF AreFolds
  <2> HIDE DEF F, Value
  <2> QED
    BY <2>1, <2>3
<1> HIDE DEF F, Value
<1>2. \A s \in SUBSET (1 .. n) : F[s] = Value(F, s)
  BY <1>1
<1>3. F[1 .. 0] = base
  <2>1. (1 .. 0) \in SUBSET (1 .. n) /\ 1 .. 0 = {}
    OBVIOUS
  <2> QED
    BY <1>2, <2>1 DEF Value
<1>4. ASSUME NEW k \in 0 .. n - 1 PROVE F[1 .. k + 1] = Step(p, seq[k + 1], F[1 .. k])
  <2>1. /\ (1 .. k + 1) \in SUBSET (1 .. n)
        /\ 1 .. k + 1 # {}
        /\ (1 .. k + 1) \ {k + 1} = 1 .. k
    OBVIOUS
  <2>2. last(1 .. k + 1) = k + 1
    <3>1. k + 1 \in Nat /\ k + 1 \in 1 .. k + 1
      OBVIOUS
    <3>2. \A j \in 1 .. k + 1 : j \in Nat /\ j <= k + 1
      OBVIOUS
    <3> QED
      BY <3>1, <3>2, LastOf
  <2> HIDE DEF last
  <2> QED
    BY <1>2, <2>1, <2>2 DEF Value
<1> QED
  BY <1>3, <1>4 DEF F

\* What holds of base and is kept by each step holds of the fold.
THEOREM FoldClosed ==
    \A p, base, S, D : \A n \in Nat : \A seq \in [1 .. n -> D] :
        /\ base \in S
        /\ \A d \in D, x \in S : Step(p, d, x) \in S
        => FoldValues(p, base, seq)[DOMAIN seq] \in S
<1> SUFFICES ASSUME NEW p, NEW base, NEW S, NEW D, NEW n \in Nat, NEW seq \in [1 .. n -> D],
                    base \in S, \A d \in D, x \in S : Step(p, d, x) \in S
             PROVE  FoldValues(p, base, seq)[DOMAIN seq] \in S
  OBVIOUS
<1> DEFINE F == FoldValues(p, base, seq)
           N == {k \in Nat : k <= n => F[1 .. k] \in S}
<1> HIDE DEF F
<1>1. DOMAIN seq = 1 .. n
  OBVIOUS
<1>2. F[1 .. 0] = base /\ \A k \in 0 .. n - 1 : F[1 .. k + 1] = Step(p, seq[k + 1], F[1 .. k])
  BY <1>1, FoldUnfolds DEF F
<1>3. 0 \in N
  BY <1>2
<1>4. ASSUME NEW k \in Nat, k \in N PROVE k + 1 \in N
  <2>1. SUFFICES ASSUME k + 1 <= n PROVE F[1 .. k + 1] \in S
    OBVIOUS
  <2>2. k \in 0 .. n - 1 /\ seq[k + 1] \in D /\ F[1 .. k] \in S
    BY <1>4, <2>1
  <2> QED
    BY <1>2, <2>2
<1> HIDE DEF N
<1>5. n \in N
  BY <1>3, <1>4, SetInduction
<1> QED
  BY <1>1, <1>5 DEF N, F
=============================================================================
