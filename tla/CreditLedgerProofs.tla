-------------------------- MODULE CreditLedgerProofs --------------------------
(***************************************************************************)
(* The ledger on shared integers, for any finite sets of networks and      *)
(* tokens, any amounts and any order of the maps: references stay owned,   *)
(* nothing is understated, no overdraft is accepted, collating is exact.   *)
(* Between two networks it implements the ledger on amounts.               *)
(*                                                                         *)
(* In order: sums over a finite set; what merging tables does; the two     *)
(* loops of finalizeDepositProof; the inductive invariant; two networks.   *)
(***************************************************************************)
EXTENDS CreditLedger, GoBasics

\* The element a sum takes first.
Pick(s) == CHOOSE x \in s : TRUE

\* The partial sums from which SumFunctionOnSet takes the last.
Sums(f, S) ==
    LET sum[s \in SUBSET S] ==
            IF s = {} THEN 0 ELSE LET x == Pick(s) IN f[x] + sum[s \ {x}]
    IN  sum

\* SumFunctionOnSet takes the sum of the whole set.
LEMMA SumIsLast ==
    ASSUME NEW f, NEW S PROVE SumFunctionOnSet(f, S) = Sums(f, S)[S]
  BY DEF SumFunctionOnSet, FoldFunctionOnSet, MapThenFoldSet, Sums, Pick

\* The partial sums as a loop over cardinalities.
SumStep(p, n, g) ==
    [s \in SUBSET p.domain |->
       IF s = {} THEN 0 ELSE p.fun[Pick(s)] + g[s \ {Pick(s)}]]
SumLoop == INSTANCE NatRecursion WITH Step <- SumStep

\* Each partial sum takes one element more.
LEMMA SumsUnfold ==
    ASSUME NEW f, NEW S, IsFiniteSet(S)
    PROVE  /\ Sums(f, S)[{}] = 0
           /\ \A s \in SUBSET S :
                s # {} => Sums(f, S)[s] = f[Pick(s)] + Sums(f, S)[s \ {Pick(s)}]
<1> DEFINE p == [fun |-> f, domain |-> S]
           zero == [s \in SUBSET S |-> 0]
           L == SumLoop!Loop(p, zero)
           g == [s \in SUBSET S |-> L[Cardinality(s)][s]]
           F(h) == [s \in SUBSET S |->
                      IF s = {} THEN 0
                      ELSE LET x == Pick(s) IN f[x] + h[s \ {x}]]
<1>1. p.fun = f /\ p.domain = S
  OBVIOUS
<1> HIDE DEF p
<1>2. L[0] = zero /\ \A n \in Nat : L[n + 1] = SumStep(p, n, L[n])
  BY SumLoop!LoopUnfolds
<1> HIDE DEF L
<1>3. g = F(g)
  <2>1. ASSUME NEW s \in SUBSET S
        PROVE  g[s] = IF s = {} THEN 0 ELSE f[Pick(s)] + g[s \ {Pick(s)}]
    <3>1. CASE s = {}
      BY <3>1, <1>2, FS_EmptySet
    <3>2. CASE s # {}
      <4> DEFINE x == Pick(s)
                 n == Cardinality(s) - 1
      <4>1. x \in s
        BY <3>2 DEF Pick
      <4> HIDE DEF x
      <4>2. IsFiniteSet(s)
        BY FS_Subset
      <4>3. Cardinality(s) \in Nat /\ Cardinality(s \ {x}) = Cardinality(s) - 1
            /\ Cardinality(s \ {x}) \in Nat
        BY <4>1, <4>2, FS_CardinalityType, FS_RemoveElement, FS_Subset
      <4>4. n \in Nat /\ Cardinality(s) = n + 1 /\ Cardinality(s \ {x}) = n
        BY <4>3
      <4> HIDE DEF n
      <4>5. g[s] = L[n + 1][s] /\ g[s \ {x}] = L[n][s \ {x}]
        BY <4>4
      <4>6. L[n + 1][s] = f[x] + L[n][s \ {x}]
        <5>1. L[n + 1] = [u \in SUBSET S |->
                 IF u = {} THEN 0 ELSE f[Pick(u)] + L[n][u \ {Pick(u)}]]
          BY <4>4, <1>1, <1>2 DEF SumStep
        <5> QED
          BY <3>2, <5>1 DEF x
      <4> QED
        BY <3>2, <4>5, <4>6 DEF x
    <3> QED
      BY <3>1, <3>2
  <2> HIDE DEF g
  <2>2. g = [s \in SUBSET S |-> g[s]]
    BY DEF g
  <2> QED
    BY <2>1, <2>2
<1> HIDE DEF g
<1> DEFINE h == Sums(f, S)
<1>4. h = F(h)
  BY <1>3 DEF Sums
<1> HIDE DEF h
<1>5. h[{}] = 0
  BY <1>4
<1>6. ASSUME NEW s \in SUBSET S, s # {}
      PROVE  h[s] = f[Pick(s)] + h[s \ {Pick(s)}]
  BY <1>4, <1>6
<1> QED
  BY <1>5, <1>6 DEF h

\* Induction over the finite subsets of D: what holds of a set when it holds of
\* the set without any one of its elements.
LEMMA FiniteInduct ==
    ASSUME NEW D, NEW Z, {} \in Z,
           \A s \in SUBSET D :
              IsFiniteSet(s) /\ s # {} /\ (\A x \in s : s \ {x} \in Z) => s \in Z
    PROVE  \A s \in SUBSET D : IsFiniteSet(s) => s \in Z
<1> DEFINE N == {n \in Nat : \A s \in SUBSET D :
                   IsFiniteSet(s) /\ Cardinality(s) = n => s \in Z}
<1>1. 0 \in N
  BY FS_EmptySet
<1>2. ASSUME NEW n \in Nat, n \in N PROVE n + 1 \in N
  <2> SUFFICES ASSUME NEW s \in SUBSET D, IsFiniteSet(s), Cardinality(s) = n + 1
               PROVE  s \in Z
    OBVIOUS
  <2>1. s # {}
    BY FS_EmptySet
  <2>2. ASSUME NEW x \in s PROVE s \ {x} \in Z
    <3>1. IsFiniteSet(s \ {x}) /\ Cardinality(s \ {x}) = Cardinality(s) - 1
      BY FS_RemoveElement
    <3>2. Cardinality(s \ {x}) = n /\ s \ {x} \in SUBSET D
      BY <3>1
    <3> QED
      BY <1>2, <3>1, <3>2
  <2> QED
    BY <2>1, <2>2
<1> HIDE DEF N
<1>3. \A n \in Nat : n \in N
  BY <1>1, <1>2, SumLoop!SetInduction
<1> SUFFICES ASSUME NEW s \in SUBSET D, IsFiniteSet(s) PROVE s \in Z
  OBVIOUS
<1>4. Cardinality(s) \in N
  BY <1>3, FS_CardinalityType
<1> QED
  BY <1>4 DEF N

\* The partial sums do not depend on the set they are taken from.
LEMMA SumsAgree ==
    ASSUME NEW f, NEW S, IsFiniteSet(S), NEW T \in SUBSET S
    PROVE  Sums(f, T)[T] = Sums(f, S)[T]
<1>5. \A s \in SUBSET S :
         s # {} => Sums(f, S)[s] = f[Pick(s)] + Sums(f, S)[s \ {Pick(s)}]
  BY SumsUnfold, ZenonT(60)
<1> DEFINE Z == {s \in SUBSET T : Sums(f, T)[s] = Sums(f, S)[s]}
<1>1. IsFiniteSet(T)
  BY FS_Subset
<1>2. {} \in Z
  BY <1>1, SumsUnfold
<1>6. \A s \in SUBSET T :
         s # {} => Sums(f, T)[s] = f[Pick(s)] + Sums(f, T)[s \ {Pick(s)}]
  BY <1>1, SumsUnfold
<1>3. ASSUME NEW s \in SUBSET T, s # {}, \A x \in s : s \ {x} \in Z
      PROVE  s \in Z
  <2>1. Pick(s) \in s
    BY <1>3 DEF Pick
  <2>2. Sums(f, T)[s \ {Pick(s)}] = Sums(f, S)[s \ {Pick(s)}]
    BY <1>3, <2>1
  <2>3. Sums(f, T)[s] = f[Pick(s)] + Sums(f, T)[s \ {Pick(s)}]
    BY <1>3, <1>6
  <2>4. s \in SUBSET S
    OBVIOUS
  <2>5. Sums(f, S)[s] = f[Pick(s)] + Sums(f, S)[s \ {Pick(s)}]
    BY <1>3, <1>5, <2>4
  <2> QED
    BY <2>2, <2>3, <2>5
<1> HIDE DEF Z
<1>4. T \in Z
  BY <1>1, <1>2, <1>3, FiniteInduct
<1> QED
  BY <1>4 DEF Z

\* The sum over no element.
LEMMA SumEmpty == ASSUME NEW f PROVE SumFunctionOnSet(f, {}) = 0
  BY SumIsLast, SumsUnfold, FS_EmptySet

\* SumFunctionOnSet takes one element after the other.
LEMMA SumPicks ==
    ASSUME NEW f, NEW S, IsFiniteSet(S), S # {}
    PROVE  SumFunctionOnSet(f, S) = f[Pick(S)] + SumFunctionOnSet(f, S \ {Pick(S)})
<1>2. SumFunctionOnSet(f, S \ {Pick(S)}) = Sums(f, S)[S \ {Pick(S)}]
  BY SumIsLast, SumsAgree
<1>3. Sums(f, S)[S] = f[Pick(S)] + Sums(f, S)[S \ {Pick(S)}]
  BY SumsUnfold
<1> QED
  BY <1>2, <1>3, SumIsLast

\* Sums of integers are integers.
LEMMA SumType ==
    ASSUME NEW D, NEW f \in [D -> Int]
    PROVE  \A s \in SUBSET D : IsFiniteSet(s) => SumFunctionOnSet(f, s) \in Int
<1> DEFINE Z == {s \in SUBSET D : SumFunctionOnSet(f, s) \in Int}
<1>1. {} \in Z
  BY SumEmpty
<1>2. ASSUME NEW s \in SUBSET D, IsFiniteSet(s), s # {}, \A x \in s : s \ {x} \in Z
      PROVE  s \in Z
  <2>1. Pick(s) \in s
    BY <1>2 DEF Pick
  <2>2. SumFunctionOnSet(f, s) = f[Pick(s)] + SumFunctionOnSet(f, s \ {Pick(s)})
    BY <1>2, SumPicks
  <2>3. SumFunctionOnSet(f, s \ {Pick(s)}) \in Int /\ f[Pick(s)] \in Int
    BY <1>2, <2>1
  <2> QED
    BY <2>2, <2>3
<1> HIDE DEF Z
<1>3. \A s \in SUBSET D : IsFiniteSet(s) => s \in Z
  BY <1>1, <1>2, FiniteInduct
<1> QED
  BY <1>3 DEF Z

\* Any element may be taken first.
LEMMA SumRemoves ==
    ASSUME NEW D, NEW f \in [D -> Int]
    PROVE  \A s \in SUBSET D : IsFiniteSet(s) =>
              \A x \in s : SumFunctionOnSet(f, s)
                             = f[x] + SumFunctionOnSet(f, s \ {x})
<1> DEFINE Sum(s) == SumFunctionOnSet(f, s)
           Z == {s \in SUBSET D : \A x \in s : Sum(s) = f[x] + Sum(s \ {x})}
<1>0. \A s \in SUBSET D : IsFiniteSet(s) => Sum(s) \in Int
  BY SumType
<1>1. ASSUME NEW s \in SUBSET D, IsFiniteSet(s), s # {} 
      PROVE  Sum(s) = f[Pick(s)] + Sum(s \ {Pick(s)})
  BY <1>1, SumPicks
<1> HIDE DEF Sum
<1>2. {} \in Z
  OBVIOUS
<1>3. ASSUME NEW s \in SUBSET D, IsFiniteSet(s), s # {}, \A x \in s : s \ {x} \in Z
      PROVE  s \in Z
  <2> DEFINE c == Pick(s)
  <2>1. c \in s
    BY <1>3 DEF Pick
  <2>2. Sum(s) = f[c] + Sum(s \ {c})
    BY <1>1, <1>3
  <2> HIDE DEF c
  <2>3. ASSUME NEW x \in s, x # c PROVE Sum(s) = f[x] + Sum(s \ {x})
    <3>1. Sum(s \ {c}) = f[x] + Sum((s \ {c}) \ {x})
      BY <1>3, <2>1, <2>3
    <3>2. Sum(s \ {x}) = f[c] + Sum((s \ {x}) \ {c})
      BY <1>3, <2>1, <2>3
    <3>3. (s \ {c}) \ {x} = (s \ {x}) \ {c}
      OBVIOUS
    <3>6. Sum((s \ {c}) \ {x}) = Sum((s \ {x}) \ {c})
      BY <3>3
    <3>4. f[c] \in Int /\ f[x] \in Int
      BY <2>1
    <3>5. Sum((s \ {x}) \ {c}) \in Int
      <4>1. IsFiniteSet((s \ {x}) \ {c})
        BY <1>3, FS_Subset
      <4> QED
        BY <1>0, <4>1
    <3> HIDE DEF Z
    <3> QED
      BY <2>2, <3>1, <3>2, <3>6, <3>4, <3>5
  <2> QED
    BY <2>2, <2>3
<1> HIDE DEF Z
<1>4. \A s \in SUBSET D : IsFiniteSet(s) => s \in Z
  BY <1>2, <1>3, FiniteInduct
<1> QED
  BY <1>4 DEF Z, Sum

\* A sum of larger numbers is larger.
LEMMA SumMonotone ==
    ASSUME NEW D, NEW f \in [D -> Int], NEW g \in [D -> Int],
           \A x \in D : f[x] <= g[x]
    PROVE  \A s \in SUBSET D : IsFiniteSet(s) =>
              SumFunctionOnSet(f, s) <= SumFunctionOnSet(g, s)
<1> DEFINE Z == {s \in SUBSET D : SumFunctionOnSet(f, s) <= SumFunctionOnSet(g, s)}
<1>1. {} \in Z
  BY SumEmpty
<1>2. ASSUME NEW s \in SUBSET D, IsFiniteSet(s), s # {}, \A x \in s : s \ {x} \in Z
      PROVE  s \in Z
  <2> DEFINE x == Pick(s)
  <2>1. x \in s
    BY <1>2 DEF Pick
  <2>2. /\ SumFunctionOnSet(f, s) = f[x] + SumFunctionOnSet(f, s \ {x})
        /\ SumFunctionOnSet(g, s) = g[x] + SumFunctionOnSet(g, s \ {x})
    BY <1>2, SumPicks
  <2> HIDE DEF x
  <2>3. IsFiniteSet(s \ {x}) /\ s \ {x} \in SUBSET D
    BY <1>2, FS_Subset
  <2>4. /\ SumFunctionOnSet(f, s \ {x}) \in Int
        /\ SumFunctionOnSet(g, s \ {x}) \in Int
    BY <2>3, SumType
  <2>5. f[x] \in Int /\ g[x] \in Int /\ f[x] <= g[x]
    BY <2>1
  <2>6. SumFunctionOnSet(f, s \ {x}) <= SumFunctionOnSet(g, s \ {x})
    BY <1>2, <2>1
  <2> QED
    BY <2>2, <2>4, <2>5, <2>6
<1> HIDE DEF Z
<1>3. \A s \in SUBSET D : IsFiniteSet(s) => s \in Z
  BY <1>1, <1>2, FiniteInduct
<1> QED
  BY <1>3 DEF Z

\* One more element adds its value.
LEMMA SumAdds ==
    ASSUME NEW D, NEW f \in [D -> Int], NEW S \in SUBSET D, IsFiniteSet(S),
           NEW x \in D \ S
    PROVE  /\ SumFunctionOnSet(f, S) \in Int
           /\ SumFunctionOnSet(f, S \cup {x}) = SumFunctionOnSet(f, S) + f[x]
<1>1. IsFiniteSet(S \cup {x}) /\ S \cup {x} \in SUBSET D
  BY FS_AddElement
<1>2. SumFunctionOnSet(f, S \cup {x})
        = f[x] + SumFunctionOnSet(f, (S \cup {x}) \ {x})
  BY <1>1, SumRemoves
<1>3. (S \cup {x}) \ {x} = S
  OBVIOUS
<1>4. SumFunctionOnSet(f, (S \cup {x}) \ {x}) = SumFunctionOnSet(f, S)
  BY <1>3
<1>5. SumFunctionOnSet(f, S) \in Int /\ f[x] \in Int
  BY SumType
<1> QED
  BY <1>2, <1>4, <1>5

\* The sum over one element.
LEMMA SumSingle ==
    ASSUME NEW f, NEW x, f[x] \in Int, DOMAIN f = {x}
    PROVE  SumFunction(f) = f[x]
<1>1. SumFunction(f) = SumFunctionOnSet(f, {x})
  BY DEF SumFunction
<1>2. IsFiniteSet({x}) /\ Pick({x}) = x /\ {x} \ {x} = {}
  BY FS_Singleton DEF Pick
<1>3. SumFunctionOnSet(f, {x}) = f[Pick({x})] + SumFunctionOnSet(f, {x} \ {Pick({x})})
  BY <1>2, SumPicks
<1>4. SumFunctionOnSet(f, {x}) = f[x] + SumFunctionOnSet(f, {})
  BY <1>2, <1>3
<1> QED
  BY <1>1, <1>4, SumEmpty

----------------------------------------------------------------------------
(* Merging tables.                                                          *)

\* The tables after each merge, from which MergeAll takes the last.
Merges(keys, tables, order, amounts) ==
    LET merged[i \in Nat] ==
            IF i = 0 THEN [refs |-> NoRefs(keys), heap |-> amounts]
            ELSE MergeTransfers(merged[i - 1], tables[order[i]])
    IN  merged

\* MergeAll as a loop.
MergeStep(p, i, merged) == MergeTransfers(merged, p.tables[p.order[i + 1]])
MergeLoop == INSTANCE NatRecursion WITH Step <- MergeStep

\* Each merge starts from the one before.
LEMMA MergesUnfold ==
    ASSUME NEW keys, NEW tables, NEW order, NEW amounts
    PROVE  /\ Merges(keys, tables, order, amounts)[0]
                = [refs |-> NoRefs(keys), heap |-> amounts]
           /\ \A i \in Nat :
                Merges(keys, tables, order, amounts)[i + 1]
                  = MergeTransfers(Merges(keys, tables, order, amounts)[i],
                                   tables[order[i + 1]])
<1> DEFINE p == [tables |-> tables, order |-> order]
           base == [refs |-> NoRefs(keys), heap |-> amounts]
           g == MergeLoop!Loop(p, base)
           F(f) == [i \in Nat |-> IF i = 0 THEN base
                                  ELSE MergeTransfers(f[i - 1], tables[order[i]])]
           f0 == Merges(keys, tables, order, amounts)
<1>1. g = F(g)
  <2>1. p.tables = tables /\ p.order = order
    OBVIOUS
  <2> HIDE DEF p, base
  <2>2. g = [i \in Nat |-> IF i = 0 THEN base
                           ELSE MergeStep(p, i - 1, MergeLoop!Loop(p, base)[i - 1])]
    BY MergeLoop!LoopDef
  <2> HIDE DEF g
  <2>3. g = [i \in Nat |-> IF i = 0 THEN base ELSE MergeStep(p, i - 1, g[i - 1])]
    BY <2>2 DEF g
  <2>4. ASSUME NEW i \in Nat, i # 0
        PROVE  MergeStep(p, i - 1, g[i - 1])
                 = MergeTransfers(g[i - 1], tables[order[i]])
    <3>1. (i - 1) + 1 = i
      OBVIOUS
    <3>2. MergeStep(p, i - 1, g[i - 1])
            = MergeTransfers(g[i - 1], tables[order[(i - 1) + 1]])
      BY <2>1 DEF MergeStep
    <3> QED
      BY <3>1, <3>2
  <2> QED
    BY <2>3, <2>4
<1> HIDE DEF g
<1>2. f0 = F(f0)
  BY <1>1 DEF Merges
<1> HIDE DEF f0
<1>3. f0[0] = base
  BY <1>2
<1>4. ASSUME NEW i \in Nat
      PROVE  f0[i + 1] = MergeTransfers(f0[i], tables[order[i + 1]])
  <2>1. i + 1 \in Nat /\ i + 1 # 0 /\ (i + 1) - 1 = i
    OBVIOUS
  <2>2. f0[i + 1] = MergeTransfers(f0[(i + 1) - 1], tables[order[i + 1]])
    BY <1>2, <2>1
  <2> QED
    BY <2>1, <2>2
<1> QED
  BY <1>3, <1>4 DEF f0

\* No two entries of the tables refer to the same cell.
Apart(keys, S, tables, amounts) ==
    /\ tables \in [S -> [keys -> 0 .. Len(amounts)]]
    /\ \A x, y \in S, j, k \in keys :
          tables[x][j] # Nil /\ tables[x][j] = tables[y][k] => x = y /\ j = k

\* What the tables hold under a key.
Holdings(S, tables, amounts, k) ==
    [x \in S |-> IF tables[x][k] = Nil THEN 0 ELSE amounts[tables[x][k]]]

\* refs and heap after the tables of the sources done have been merged: under
\* each key the cell of one of them with the sum over all of them, and no other
\* cell has been written to.
Merged(keys, S, tables, amounts, done, refs, heap2) ==
    /\ refs \in [keys -> 0 .. Len(amounts)]
    /\ heap2 \in [1 .. Len(amounts) -> Int]
    /\ \A k \in keys : refs[k] = Nil => \A x \in done : tables[x][k] = Nil
    /\ \A k \in keys : refs[k] # Nil => \E x \in done : tables[x][k] = refs[k]
    /\ \A c \in 1 .. Len(amounts) :
          (\A k \in keys : refs[k] # c) => heap2[c] = amounts[c]
    /\ \A k \in keys :
          SumFunctionOnSet(Holdings(S, tables, amounts, k), done)
            = IF refs[k] = Nil THEN 0 ELSE heap2[refs[k]]

\* mergeTransfers adds one more table.
LEMMA MergeTransfersAdds ==
    ASSUME NEW keys, NEW S, NEW tables, NEW amounts \in Seq(Int),
           Apart(keys, S, tables, amounts),
           NEW done \in SUBSET S, IsFiniteSet(done), NEW x \in S \ done,
           NEW refs, NEW cells, Merged(keys, S, tables, amounts, done, refs, cells)
    PROVE  LET m == MergeTransfers([refs |-> refs, heap |-> cells], tables[x])
           IN  /\ m = [refs |-> m.refs, heap |-> m.heap]
               /\ Merged(keys, S, tables, amounts, done \cup {x}, m.refs, m.heap)
<1> DEFINE L == Len(amounts)
           T == tables[x]
           added(c) == {k \in keys : T[k] # Nil /\ refs[k] = c}
           f(c) == [k \in added(c) |-> cells[T[k]]]
           refs2 == [k \in keys |-> IF refs[k] = Nil THEN T[k] ELSE refs[k]]
           cells2 == [c \in 1 .. L |-> cells[c] + SumFunction(f(c))]
<1>1. /\ L \in Nat /\ amounts \in [1 .. L -> Int]
      /\ T \in [keys -> 0 .. L] /\ DOMAIN T = keys
      /\ refs \in [keys -> 0 .. L]
      /\ cells \in [1 .. L -> Int] /\ DOMAIN cells = 1 .. L
  BY DEF Apart, Merged
<1>2. MergeTransfers([refs |-> refs, heap |-> cells], T)
        = [refs |-> refs2, heap |-> cells2]
  BY <1>1 DEF MergeTransfers
<1> HIDE DEF T, L
<1>3. ASSUME NEW j \in keys, NEW k \in keys, refs[j] # Nil, refs[j] = refs[k]
      PROVE  j = k
  BY <1>3 DEF Merged, Apart
<1>4. ASSUME NEW j \in keys, NEW k \in keys, T[k] # Nil PROVE refs[j] # T[k]
  <2> SUFFICES ASSUME refs[j] = T[k] PROVE FALSE
    OBVIOUS
  <2>1. PICK y \in done : tables[y][j] = refs[j]
    BY <1>4 DEF Merged
  <2>2. y = x
    BY <1>4, <2>1 DEF Apart, T
  <2> QED
    BY <2>2
<1>5. ASSUME NEW k \in keys, T[k] # Nil
      PROVE  T[k] \in 1 .. L /\ cells[T[k]] = amounts[T[k]] /\ cells[T[k]] \in Int
  <2>1. T[k] \in 1 .. L
    BY <1>1, <1>5 DEF Nil
  <2>2. \A j \in keys : refs[j] # T[k]
    BY <1>4, <1>5
  <2> QED
    BY <1>1, <2>1, <2>2 DEF Merged, L
<1>6. ASSUME NEW c \in 1 .. L, \A k \in keys : T[k] = Nil \/ refs[k] # c
      PROVE  cells2[c] = cells[c]
  <2>1. added(c) = {}
    BY <1>6
  <2>2. DOMAIN f(c) = {}
    BY <2>1
  <2> DEFINE g == f(c)
  <2> HIDE DEF f, g
  <2>3. SumFunction(g) = 0
    BY <2>2, SumEmpty DEF SumFunction, g
  <2>4. cells2[c] = cells[c] + 0 /\ cells[c] \in Int
    BY <1>1, <2>3 DEF g
  <2> QED
    BY <2>4
<1>7. ASSUME NEW k \in keys, refs[k] # Nil, T[k] # Nil
      PROVE  refs[k] \in 1 .. L
             /\ cells2[refs[k]] = cells[refs[k]] + amounts[T[k]]
  <2> DEFINE c == refs[k]
             g == f(c)
  <2>1. c \in 1 .. L
    BY <1>1, <1>7 DEF Nil
  <2>2. added(c) = {k}
    BY <1>3, <1>7
  <2>3. DOMAIN g = {k} /\ g[k] = cells[T[k]]
    BY <2>2
  <2>4. cells2[c] = cells[c] + SumFunction(g)
    BY <2>1
  <2> HIDE DEF g, c
  <2>5. SumFunction(g) = amounts[T[k]]
    BY <1>5, <1>7, <2>3, SumSingle
  <2> QED
    BY <2>1, <2>4, <2>5 DEF c
<1> HIDE DEF f, added
<1>8. refs2 \in [keys -> 0 .. L]
  BY <1>1
<1>9. cells2 \in [1 .. L -> Int]
  <2> SUFFICES ASSUME NEW c \in 1 .. L PROVE cells2[c] \in Int
    OBVIOUS
  <2>1. CASE \E k \in keys : T[k] # Nil /\ refs[k] = c
    <3>1. PICK k \in keys : T[k] # Nil /\ refs[k] = c
      BY <2>1
    <3>2. refs[k] # Nil
      BY <1>1, <3>1 DEF Nil
    <3>3. cells2[c] = cells[c] + amounts[T[k]] /\ T[k] \in 1 .. L
      BY <1>5, <1>7, <3>1, <3>2
    <3> QED
      BY <1>1, <3>3
  <2>2. CASE ~\E k \in keys : T[k] # Nil /\ refs[k] = c
    BY <1>1, <1>6, <2>2
  <2> QED
    BY <2>1, <2>2
<1> HIDE DEF cells2
<1>10. \A k \in keys : refs2[k] = IF refs[k] = Nil THEN T[k] ELSE refs[k]
  OBVIOUS
<1> HIDE DEF refs2
<1>11. \A k \in keys :
          refs2[k] = Nil => \A y \in done \cup {x} : tables[y][k] = Nil
  BY <1>10 DEF Merged, T
<1>12. \A k \in keys :
          refs2[k] # Nil => \E y \in done \cup {x} : tables[y][k] = refs2[k]
  BY <1>10 DEF Merged, T
<1>13. \A c \in 1 .. L : (\A k \in keys : refs2[k] # c) => cells2[c] = amounts[c]
  <2> SUFFICES ASSUME NEW c \in 1 .. L, \A k \in keys : refs2[k] # c
               PROVE  cells2[c] = amounts[c]
    OBVIOUS
  <2>1. \A k \in keys : refs[k] # c
    BY <1>1, <1>10 DEF Nil
  <2>2. cells2[c] = cells[c]
    BY <1>6, <2>1
  <2> QED
    BY <2>1, <2>2 DEF Merged, L
<1>14. ASSUME NEW k \in keys
       PROVE  SumFunctionOnSet(Holdings(S, tables, amounts, k), done \cup {x})
                = IF refs2[k] = Nil THEN 0 ELSE cells2[refs2[k]]
  <2> DEFINE h == Holdings(S, tables, amounts, k)
             sum == SumFunctionOnSet(h, done)
  <2>1. h \in [S -> Int] /\ h[x] = IF T[k] = Nil THEN 0 ELSE amounts[T[k]]
    <3>1. ASSUME NEW y \in S, tables[y][k] # Nil PROVE amounts[tables[y][k]] \in Int
      <4>1. tables[y][k] \in 1 .. L
        BY <3>1 DEF Apart, Nil, L
      <4> QED
        BY <1>1, <4>1
    <3> QED
      BY <3>1 DEF Holdings, T
  <2>2. sum = IF refs[k] = Nil THEN 0 ELSE cells[refs[k]]
    BY DEF Merged
  <2> HIDE DEF h
  <2>3. sum \in Int /\ SumFunctionOnSet(h, done \cup {x}) = sum + h[x]
    <3>1. sum \in Int
      BY <2>1, SumType
    <3>2. SumFunctionOnSet(h, done \cup {x}) = sum + h[x]
      BY <2>1, SumAdds
    <3> QED
      BY <3>1, <3>2
  <2> HIDE DEF sum
  <2>4. CASE T[k] = Nil
    <3>1. refs2[k] = refs[k] /\ h[x] = 0
      BY <1>10, <2>1, <2>4
    <3>2. refs[k] # Nil => cells2[refs[k]] = cells[refs[k]]
      <4> SUFFICES ASSUME refs[k] # Nil PROVE cells2[refs[k]] = cells[refs[k]]
        OBVIOUS
      <4>1. refs[k] \in 1 .. L
        BY <1>1 DEF Nil
      <4>2. \A j \in keys : T[j] = Nil \/ refs[j] # refs[k]
        BY <1>3, <2>4
      <4> QED
        BY <1>6, <4>1, <4>2
    <3> QED
      BY <2>2, <2>3, <3>1, <3>2 DEF h
  <2>5. CASE T[k] # Nil /\ refs[k] = Nil
    <3>1. refs2[k] = T[k] /\ h[x] = amounts[T[k]] /\ sum = 0
      BY <1>10, <2>1, <2>2, <2>5
    <3>2. cells2[T[k]] = cells[T[k]] /\ cells[T[k]] = amounts[T[k]]
          /\ amounts[T[k]] \in Int
      BY <1>4, <1>5, <1>6, <2>5
    <3> QED
      BY <2>3, <2>5, <3>1, <3>2 DEF h
  <2>6. CASE T[k] # Nil /\ refs[k] # Nil
    <3>1. refs2[k] = refs[k] /\ h[x] = amounts[T[k]] /\ sum = cells[refs[k]]
      BY <1>10, <2>1, <2>2, <2>6
    <3>2. cells2[refs[k]] = cells[refs[k]] + amounts[T[k]]
      BY <1>7, <2>6
    <3> QED
      BY <2>3, <2>6, <3>1, <3>2 DEF h
  <2> QED
    BY <2>4, <2>5, <2>6
<1>15. Merged(keys, S, tables, amounts, done \cup {x}, refs2, cells2)
  BY <1>8, <1>9, <1>11, <1>12, <1>13, <1>14 DEF Merged, L
<1> QED
  BY <1>2, <1>15 DEF T

\* The members of a set that come first in an order of it.
FirstOf(order, i) == {order[j] : j \in 1 .. i}

\* Each pass of a loop over a set in some order brings a new member, and the
\* last pass has brought all.
LEMMA OrderPasses ==
    ASSUME NEW S, IsFiniteSet(S), NEW order \in SetToSeqs(S)
    PROVE  /\ Len(order) \in Nat
           /\ FirstOf(order, 0) = {}
           /\ FirstOf(order, Len(order)) = S
           /\ \A i \in Nat : i + 1 <= Len(order) =>
                /\ order[i + 1] \in S \ FirstOf(order, i)
                /\ FirstOf(order, i) \in SUBSET S
                /\ IsFiniteSet(FirstOf(order, i))
                /\ FirstOf(order, i + 1) = FirstOf(order, i) \cup {order[i + 1]}
<1>1. /\ order \in Seq(S) /\ Len(order) \in Nat /\ DOMAIN order = 1 .. Len(order)
      /\ IsInjective(order) /\ ToSet(order) = S
  BY SeqsOfSet
<1>2. FirstOf(order, 0) = {}
  BY DEF FirstOf
<1>3. FirstOf(order, Len(order)) = S
  BY <1>1 DEF FirstOf, ToSet
<1>4. ASSUME NEW i \in Nat, i + 1 <= Len(order)
      PROVE  /\ order[i + 1] \in S \ FirstOf(order, i)
             /\ FirstOf(order, i) \in SUBSET S
             /\ IsFiniteSet(FirstOf(order, i))
             /\ FirstOf(order, i + 1) = FirstOf(order, i) \cup {order[i + 1]}
  <2>1. i + 1 \in 1 .. Len(order) /\ \A j \in 1 .. i : j \in 1 .. Len(order) /\ j # i + 1
    BY <1>1, <1>4
  <2>2. order[i + 1] \in S /\ \A j \in 1 .. i : order[j] \in S
    BY <1>1, <2>1
  <2>3. order[i + 1] \notin FirstOf(order, i)
    BY <1>1, <2>1 DEF FirstOf, IsInjective
  <2>4. FirstOf(order, i) \in SUBSET S
    BY <2>2 DEF FirstOf
  <2>5. IsFiniteSet(FirstOf(order, i))
    BY <2>4, FS_Subset
  <2>6. FirstOf(order, i + 1) = FirstOf(order, i) \cup {order[i + 1]}
    <3>1. 1 .. (i + 1) = (1 .. i) \cup {i + 1}
      OBVIOUS
    <3> QED
      BY <3>1 DEF FirstOf
  <2> QED
    BY <2>2, <2>3, <2>4, <2>5, <2>6
<1> QED
  BY <1>1, <1>2, <1>3, <1>4

\* The tables of all sources merged, in whatever order.
LEMMA MergeAllAdds ==
    ASSUME NEW keys, NEW S, IsFiniteSet(S), NEW tables, NEW amounts \in Seq(Int),
           Apart(keys, S, tables, amounts), NEW order \in SetToSeqs(S)
    PROVE  LET m == MergeAll(keys, tables, order, amounts)
           IN  Merged(keys, S, tables, amounts, S, m.refs, m.heap)
<1> DEFINE M == Merges(keys, tables, order, amounts)
           I == {i \in Nat : i <= Len(order) =>
                   /\ M[i] = [refs |-> M[i].refs, heap |-> M[i].heap]
                   /\ Merged(keys, S, tables, amounts, FirstOf(order, i),
                             M[i].refs, M[i].heap)}
<1>1. /\ M[0] = [refs |-> NoRefs(keys), heap |-> amounts]
      /\ \A i \in Nat : M[i + 1] = MergeTransfers(M[i], tables[order[i + 1]])
  BY MergesUnfold
<1>2. MergeAll(keys, tables, order, amounts) = M[Len(order)]
  BY DEF MergeAll, Merges
<1> HIDE DEF M
<1>3. 0 \in I
  <2>1. FirstOf(order, 0) = {}
    BY OrderPasses
  <2>2. M[0].refs = NoRefs(keys) /\ M[0].heap = amounts
    BY <1>1
  <2>3. Len(amounts) \in Nat /\ amounts \in [1 .. Len(amounts) -> Int]
    OBVIOUS
  <2>4. NoRefs(keys) \in [keys -> 0 .. Len(amounts)]
        /\ \A k \in keys : NoRefs(keys)[k] = Nil
    BY <2>3 DEF NoRefs, Nil
  <2>5. \A k \in keys :
          SumFunctionOnSet(Holdings(S, tables, amounts, k), {}) = 0
    BY SumEmpty
  <2>6. Merged(keys, S, tables, amounts, {}, NoRefs(keys), amounts)
    BY <2>3, <2>4, <2>5 DEF Merged
  <2> QED
    BY <1>1, <2>1, <2>2, <2>6
<1>4. ASSUME NEW i \in Nat, i \in I PROVE i + 1 \in I
  <2> SUFFICES ASSUME i + 1 <= Len(order)
               PROVE  /\ M[i + 1] = [refs |-> M[i + 1].refs, heap |-> M[i + 1].heap]
                      /\ Merged(keys, S, tables, amounts, FirstOf(order, i + 1),
                                M[i + 1].refs, M[i + 1].heap)
    OBVIOUS
  <2> DEFINE x == order[i + 1]
             done == FirstOf(order, i)
             refs == M[i].refs
             cells == M[i].heap
  <2>1. /\ x \in S \ done /\ done \in SUBSET S /\ IsFiniteSet(done)
        /\ FirstOf(order, i + 1) = done \cup {x}
    BY OrderPasses
  <2>2. Len(order) \in Nat
    BY OrderPasses
  <2>3. /\ M[i] = [refs |-> refs, heap |-> cells]
        /\ Merged(keys, S, tables, amounts, done, refs, cells)
    BY <1>4, <2>2
  <2>4. M[i + 1] = MergeTransfers([refs |-> refs, heap |-> cells], tables[x])
    BY <1>1, <2>3
  <2> HIDE DEF x, done, refs, cells
  <2> DEFINE m == MergeTransfers([refs |-> refs, heap |-> cells], tables[x])
  <2>5. /\ m = [refs |-> m.refs, heap |-> m.heap]
        /\ Merged(keys, S, tables, amounts, done \cup {x}, m.refs, m.heap)
    BY <2>1, <2>3, MergeTransfersAdds
  <2> HIDE DEF m
  <2> QED
    BY <2>1, <2>4, <2>5 DEF m
<1> HIDE DEF I
<1>5. \A i \in Nat : i \in I
  BY <1>3, <1>4, SumLoop!SetInduction
<1>6. Len(order) \in I
  BY <1>5, OrderPasses
<1> QED
  BY <1>2, <1>6, OrderPasses DEF I

\* Sums of natural numbers are not negative.
LEMMA SumNonNegative ==
    ASSUME NEW D, NEW f \in [D -> Int], \A x \in D : f[x] >= 0
    PROVE  \A s \in SUBSET D : IsFiniteSet(s) => SumFunctionOnSet(f, s) >= 0
<1> DEFINE Z == {s \in SUBSET D : SumFunctionOnSet(f, s) >= 0}
<1>1. {} \in Z
  BY SumEmpty
<1>2. ASSUME NEW s \in SUBSET D, IsFiniteSet(s), s # {}, \A x \in s : s \ {x} \in Z
      PROVE  s \in Z
  <2>1. Pick(s) \in s
    BY <1>2 DEF Pick
  <2>2. SumFunctionOnSet(f, s) = f[Pick(s)] + SumFunctionOnSet(f, s \ {Pick(s)})
    BY <1>2, SumPicks
  <2>3. IsFiniteSet(s \ {Pick(s)}) /\ s \ {Pick(s)} \in SUBSET D
    BY <1>2, FS_Subset
  <2>4. SumFunctionOnSet(f, s \ {Pick(s)}) \in Int
    BY <2>3, SumType
  <2>5. SumFunctionOnSet(f, s \ {Pick(s)}) >= 0
    BY <1>2, <2>1
  <2>6. f[Pick(s)] \in Int /\ f[Pick(s)] >= 0
    BY <2>1
  <2> QED
    BY <2>2, <2>4, <2>5, <2>6
<1> HIDE DEF Z
<1>3. \A s \in SUBSET D : IsFiniteSet(s) => s \in Z
  BY <1>1, <1>2, FiniteInduct
<1> QED
  BY <1>3 DEF Z

\* If the tables hold no negative amount, merging them makes no cell smaller.
LEMMA MergedGrows ==
    ASSUME NEW keys, NEW S, IsFiniteSet(S), NEW tables, NEW amounts \in Seq(Int),
           Apart(keys, S, tables, amounts),
           \A x \in S, k \in keys :
              tables[x][k] # Nil => amounts[tables[x][k]] >= 0,
           NEW refs, NEW cells, Merged(keys, S, tables, amounts, S, refs, cells)
    PROVE  \A c \in 1 .. Len(amounts) : cells[c] >= amounts[c]
<1> SUFFICES ASSUME NEW c \in 1 .. Len(amounts) PROVE cells[c] >= amounts[c]
  OBVIOUS
<1>1. amounts[c] \in Int
  OBVIOUS
<1>2. CASE \A k \in keys : refs[k] # c
  BY <1>1, <1>2 DEF Merged
<1>3. CASE \E k \in keys : refs[k] = c
  <2>1. PICK k \in keys : refs[k] = c
    BY <1>3
  <2>2. refs[k] # Nil
    BY <2>1 DEF Nil
  <2>3. PICK x \in S : tables[x][k] = c
    BY <2>1, <2>2 DEF Merged
  <2> DEFINE h == Holdings(S, tables, amounts, k)
  <2>4. h \in [S -> Int] /\ h[x] = amounts[c] /\ \A y \in S : h[y] >= 0
    <3>1. ASSUME NEW y \in S, tables[y][k] # Nil
          PROVE  amounts[tables[y][k]] \in Int /\ amounts[tables[y][k]] >= 0
      <4>1. tables[y][k] \in 1 .. Len(amounts)
        BY <3>1 DEF Apart, Nil
      <4> QED
        BY <3>1, <4>1
    <3> QED
      BY <2>2, <2>1, <2>3, <3>1 DEF Holdings
  <2>5. cells[c] = SumFunctionOnSet(h, S)
    BY <2>1, <2>2 DEF Merged
  <2> HIDE DEF h
  <2>6. SumFunctionOnSet(h, S) = h[x] + SumFunctionOnSet(h, S \ {x})
    BY <2>4, SumRemoves
  <2>7. IsFiniteSet(S \ {x}) /\ S \ {x} \in SUBSET S
    BY FS_Subset
  <2>8. SumFunctionOnSet(h, S \ {x}) \in Int
    BY <2>4, <2>7, SumType
  <2>9. SumFunctionOnSet(h, S \ {x}) >= 0
    BY <2>4, <2>7, SumNonNegative
  <2> QED
    BY <1>1, <2>4, <2>5, <2>6, <2>8, <2>9
<1> QED
  BY <1>2, <1>3

----------------------------------------------------------------------------
(* The two loops of finalizeDepositProof.                                   *)

\* The balances have cells of their own, which the amounts other are not in.
Separate(bal, other, L) ==
    /\ bal \in [Tokens -> 0 .. L] /\ other \in [Tokens -> 0 .. L]
    /\ \A t, u \in Tokens : bal[t] # Nil /\ bal[t] = bal[u] => t = u
    /\ \A t, u \in Tokens : bal[t] # Nil => bal[t] # other[u]

\* The runs after each pass, from which Debits takes the last.
DebitRuns(bal, out, order, start) ==
    LET run[i \in Nat] ==
            IF i = 0 THEN start ELSE Debit(bal, out, run[i - 1], order[i])
    IN  run

\* Debits as a loop.
DebitStep(p, i, run) == Debit(p.bal, p.out, run, p.order[i + 1])
DebitLoop == INSTANCE NatRecursion WITH Step <- DebitStep

\* Each pass starts from the one before.
LEMMA DebitRunsUnfold ==
    ASSUME NEW bal, NEW out, NEW order, NEW start
    PROVE  /\ DebitRuns(bal, out, order, start)[0] = start
           /\ \A i \in Nat :
                DebitRuns(bal, out, order, start)[i + 1]
                  = Debit(bal, out, DebitRuns(bal, out, order, start)[i],
                          order[i + 1])
<1> DEFINE p == [bal |-> bal, out |-> out, order |-> order]
           g == DebitLoop!Loop(p, start)
           F(f) == [i \in Nat |-> IF i = 0 THEN start
                                  ELSE Debit(bal, out, f[i - 1], order[i])]
           f0 == DebitRuns(bal, out, order, start)
<1>1. g = F(g)
  <2>1. p.bal = bal /\ p.out = out /\ p.order = order
    OBVIOUS
  <2> HIDE DEF p
  <2>2. g = [i \in Nat |-> IF i = 0 THEN start
                           ELSE DebitStep(p, i - 1, DebitLoop!Loop(p, start)[i - 1])]
    BY DebitLoop!LoopDef
  <2> HIDE DEF g
  <2>3. g = [i \in Nat |-> IF i = 0 THEN start ELSE DebitStep(p, i - 1, g[i - 1])]
    BY <2>2 DEF g
  <2>4. ASSUME NEW i \in Nat, i # 0
        PROVE  DebitStep(p, i - 1, g[i - 1]) = Debit(bal, out, g[i - 1], order[i])
    <3>1. (i - 1) + 1 = i
      OBVIOUS
    <3>2. DebitStep(p, i - 1, g[i - 1])
            = Debit(bal, out, g[i - 1], order[(i - 1) + 1])
      BY <2>1 DEF DebitStep
    <3> QED
      BY <3>1, <3>2
  <2> QED
    BY <2>3, <2>4
<1> HIDE DEF g
<1>2. f0 = F(f0)
  BY <1>1 DEF DebitRuns
<1> HIDE DEF f0
<1>3. f0[0] = start
  BY <1>2
<1>4. ASSUME NEW i \in Nat
      PROVE  f0[i + 1] = Debit(bal, out, f0[i], order[i + 1])
  <2>1. i + 1 \in Nat /\ i + 1 # 0 /\ (i + 1) - 1 = i
    OBVIOUS
  <2>2. f0[i + 1] = Debit(bal, out, f0[(i + 1) - 1], order[i + 1])
    BY <1>2, <2>1
  <2> QED
    BY <2>1, <2>2
<1> QED
  BY <1>3, <1>4 DEF f0

\* heap and outcome when the first loop has taken the tokens done from the
\* amounts h: nothing but balances is written to, one is negative only at the
\* end of a refusal, and as long as the loop runs all amounts were covered.
Debited(bal, out, L, h, done, cells, outcome) ==
    /\ cells \in [1 .. L -> Int]
    /\ outcome \in {"ok", "false", "panic"}
    /\ \A c \in 1 .. L : (\A t \in done : bal[t] # c) => cells[c] = h[c]
    /\ \A c \in 1 .. L : cells[c] < 0 =>
          h[c] < 0 \/ (outcome = "false" /\ \E t \in Tokens : bal[t] = c)
    /\ outcome = "false" =>
          \E t \in Tokens : out[t] # Nil /\ bal[t] # Nil /\ h[out[t]] > h[bal[t]]
    /\ outcome = "ok" => \A t \in done :
          /\ out[t] # Nil => bal[t] # Nil /\ h[out[t]] <= h[bal[t]]
          /\ bal[t] # Nil =>
                cells[bal[t]] = h[bal[t]] - (IF out[t] = Nil THEN 0 ELSE h[out[t]])

\* One more pass of the first loop.
LEMMA DebitKeeps ==
    ASSUME NEW L \in Nat, NEW h \in [1 .. L -> Int], NEW bal, NEW out,
           Separate(bal, out, L), NEW done \in SUBSET Tokens, NEW t \in Tokens \ done,
           NEW cells, NEW outcome, Debited(bal, out, L, h, done, cells, outcome)
    PROVE  LET run == Debit(bal, out, [heap |-> cells, outcome |-> outcome], t)
           IN  run = [heap |-> run.heap, outcome |-> run.outcome]
               /\ Debited(bal, out, L, h, done \cup {t}, run.heap, run.outcome)
<1> DEFINE run0 == [heap |-> cells, outcome |-> outcome]
           run == Debit(bal, out, run0, t)
<1>1. /\ cells \in [1 .. L -> Int] /\ bal \in [Tokens -> 0 .. L]
      /\ out \in [Tokens -> 0 .. L] /\ t \in Tokens
  BY DEF Debited, Separate
<1>2. CASE outcome # "ok"
  <2>1. run = run0
    BY <1>2 DEF Debit
  <2>2. Debited(bal, out, L, h, done \cup {t}, cells, outcome)
    BY <1>2 DEF Debited
  <2> QED
    BY <2>1, <2>2
<1>3. CASE outcome = "ok" /\ out[t] = Nil
  <2>1. run = run0
    BY <1>3 DEF Debit
  <2>2. bal[t] # Nil => cells[bal[t]] = h[bal[t]] - 0
    <3> SUFFICES ASSUME bal[t] # Nil PROVE cells[bal[t]] = h[bal[t]] - 0
      OBVIOUS
    <3>1. bal[t] \in 1 .. L /\ \A u \in done : bal[u] # bal[t]
      BY <1>1 DEF Separate, Nil
    <3>2. cells[bal[t]] = h[bal[t]] /\ h[bal[t]] \in Int
      BY <3>1 DEF Debited
    <3> QED
      BY <3>2
  <2>3. Debited(bal, out, L, h, done \cup {t}, cells, outcome)
    BY <1>3, <2>2 DEF Debited
  <2> QED
    BY <2>1, <2>3
<1>4. CASE outcome = "ok" /\ out[t] # Nil /\ bal[t] = Nil
  <2>1. run = [heap |-> cells, outcome |-> "panic"]
    BY <1>4 DEF Debit
  <2>2. Debited(bal, out, L, h, done \cup {t}, cells, "panic")
    BY <1>4 DEF Debited
  <2> QED
    BY <2>1, <2>2
<1>5. CASE outcome = "ok" /\ out[t] # Nil /\ bal[t] # Nil
  <2> DEFINE b == bal[t]
             rest == cells[b] - cells[out[t]]
             cells2 == [cells EXCEPT ![b] = rest]
             outcome2 == IF rest < 0 THEN "false" ELSE "ok"
  <2>1. run = [heap |-> cells2, outcome |-> outcome2]
    BY <1>5 DEF Debit
  <2>2. /\ b \in 1 .. L /\ out[t] \in 1 .. L
        /\ \A u \in Tokens : bal[u] # out[t]
        /\ \A u \in done : bal[u] # b
    BY <1>1, <1>5 DEF Separate, Nil
  <2>3. cells[b] = h[b] /\ cells[out[t]] = h[out[t]]
        /\ h[b] \in Int /\ h[out[t]] \in Int
    BY <2>2 DEF Debited
  <2>4. rest = h[b] - h[out[t]] /\ rest \in Int
    BY <2>3
  <2> HIDE DEF rest
  <2>5. cells2 \in [1 .. L -> Int] /\ cells2[b] = rest
        /\ \A c \in 1 .. L : c # b => cells2[c] = cells[c]
    BY <1>1, <2>2, <2>4
  <2>6. outcome2 \in {"ok", "false"} /\ (outcome2 = "ok" <=> rest >= 0)
    BY <2>4
  <2> HIDE DEF cells2, outcome2
  <2>7. \A c \in 1 .. L : (\A u \in done \cup {t} : bal[u] # c) => cells2[c] = h[c]
    BY <2>5 DEF Debited
  <2>8. \A c \in 1 .. L : cells2[c] < 0 =>
          h[c] < 0 \/ (outcome2 = "false" /\ \E u \in Tokens : bal[u] = c)
    <3> SUFFICES ASSUME NEW c \in 1 .. L, cells2[c] < 0
                 PROVE  h[c] < 0 \/ (outcome2 = "false" /\ \E u \in Tokens : bal[u] = c)
      OBVIOUS
    <3>1. CASE c = b
      BY <2>4, <2>5, <2>6, <3>1
    <3>2. CASE c # b
      BY <1>5, <2>5, <3>2 DEF Debited
    <3> QED
      BY <3>1, <3>2
  <2>9. outcome2 = "false" =>
          \E u \in Tokens : out[u] # Nil /\ bal[u] # Nil /\ h[out[u]] > h[bal[u]]
    <3> SUFFICES ASSUME outcome2 = "false" PROVE h[out[t]] > h[bal[t]]
      BY <1>5
    <3>1. rest < 0
      BY <2>4, <2>6
    <3> QED
      BY <2>3, <2>4, <3>1
  <2>10. ASSUME outcome2 = "ok", NEW u \in done \cup {t}
         PROVE  /\ out[u] # Nil => bal[u] # Nil /\ h[out[u]] <= h[bal[u]]
                /\ bal[u] # Nil =>
                     cells2[bal[u]]
                       = h[bal[u]] - (IF out[u] = Nil THEN 0 ELSE h[out[u]])
    <3>1. CASE u = t
      <4>1. rest >= 0
        BY <2>6, <2>10
      <4> QED
        BY <1>5, <2>3, <2>4, <2>5, <3>1, <4>1
    <3>2. CASE u \in done
      <4>1. bal[u] # Nil => bal[u] \in 1 .. L /\ cells2[bal[u]] = cells[bal[u]]
        BY <1>1, <2>2, <2>5, <3>2 DEF Nil
      <4> QED
        BY <1>5, <3>2, <4>1 DEF Debited
    <3> QED
      BY <3>1, <3>2
  <2>11. Debited(bal, out, L, h, done \cup {t}, cells2, outcome2)
    BY <2>5, <2>6, <2>7, <2>8, <2>9, <2>10 DEF Debited
  <2> QED
    BY <2>1, <2>11
<1> QED
  BY <1>2, <1>3, <1>4, <1>5

\* The whole loop, in whatever order it takes the tokens.
LEMMA DebitsAll ==
    ASSUME NEW L \in Nat, NEW h \in [1 .. L -> Int], NEW bal, NEW out,
           IsFiniteSet(Tokens), Separate(bal, out, L),
           NEW order \in SetToSeqs(Tokens)
    PROVE  LET run == Debits(bal, out, order, [heap |-> h, outcome |-> "ok"])
           IN  run = [heap |-> run.heap, outcome |-> run.outcome]
               /\ Debited(bal, out, L, h, Tokens, run.heap, run.outcome)
<1> DEFINE R == DebitRuns(bal, out, order, [heap |-> h, outcome |-> "ok"])
           I == {i \in Nat : i <= Len(order) =>
                   /\ R[i] = [heap |-> R[i].heap, outcome |-> R[i].outcome]
                   /\ Debited(bal, out, L, h, FirstOf(order, i),
                              R[i].heap, R[i].outcome)}
<1>1. /\ R[0] = [heap |-> h, outcome |-> "ok"]
      /\ \A i \in Nat : R[i + 1] = Debit(bal, out, R[i], order[i + 1])
  <2> DEFINE start == [heap |-> h, outcome |-> "ok"]
  <2> HIDE DEF start
  <2>1. /\ DebitRuns(bal, out, order, start)[0] = start
        /\ \A i \in Nat : DebitRuns(bal, out, order, start)[i + 1]
                           = Debit(bal, out, DebitRuns(bal, out, order, start)[i],
                                   order[i + 1])
    BY DebitRunsUnfold
  <2> QED
    BY <2>1 DEF start
<1>2. Debits(bal, out, order, [heap |-> h, outcome |-> "ok"]) = R[Len(order)]
  BY DEF Debits, DebitRuns
<1> HIDE DEF R
<1>3. 0 \in I
  <2>1. FirstOf(order, 0) = {}
    BY OrderPasses
  <2>2. R[0].heap = h /\ R[0].outcome = "ok"
    BY <1>1
  <2>3. Debited(bal, out, L, h, {}, h, "ok")
    BY DEF Debited
  <2> QED
    BY <1>1, <2>1, <2>2, <2>3
<1>4. ASSUME NEW i \in Nat, i \in I PROVE i + 1 \in I
  <2> SUFFICES ASSUME i + 1 <= Len(order)
               PROVE  /\ R[i + 1] = [heap |-> R[i + 1].heap,
                                     outcome |-> R[i + 1].outcome]
                      /\ Debited(bal, out, L, h, FirstOf(order, i + 1),
                                 R[i + 1].heap, R[i + 1].outcome)
    OBVIOUS
  <2> DEFINE t == order[i + 1]
             done == FirstOf(order, i)
             cells == R[i].heap
             outcome == R[i].outcome
  <2>1. /\ t \in Tokens \ done /\ done \in SUBSET Tokens
        /\ FirstOf(order, i + 1) = done \cup {t}
    BY OrderPasses
  <2>2. Len(order) \in Nat
    BY OrderPasses
  <2>3. /\ R[i] = [heap |-> cells, outcome |-> outcome]
        /\ Debited(bal, out, L, h, done, cells, outcome)
    BY <1>4, <2>2
  <2>4. R[i + 1] = Debit(bal, out, [heap |-> cells, outcome |-> outcome], t)
    BY <1>1, <2>3
  <2> HIDE DEF t, done, cells, outcome
  <2> DEFINE m == Debit(bal, out, [heap |-> cells, outcome |-> outcome], t)
  <2>5. /\ m = [heap |-> m.heap, outcome |-> m.outcome]
        /\ Debited(bal, out, L, h, done \cup {t}, m.heap, m.outcome)
    BY <2>1, <2>3, DebitKeeps
  <2> HIDE DEF m
  <2> QED
    BY <2>1, <2>4, <2>5 DEF m
<1> HIDE DEF I
<1>5. \A i \in Nat : i \in I
  BY <1>3, <1>4, SumLoop!SetInduction
<1>6. Len(order) \in I
  BY <1>5, OrderPasses
<1> QED
  BY <1>2, <1>6, OrderPasses DEF I

\* The runs after each pass, from which Credits takes the last.
CreditRuns(bal, in, order, start) ==
    LET run[i \in Nat] ==
            IF i = 0 THEN start ELSE Credit(bal, in, run[i - 1], order[i])
    IN  run

\* Credits as a loop.
CreditStep(p, i, run) == Credit(p.bal, p.in, run, p.order[i + 1])
CreditLoop == INSTANCE NatRecursion WITH Step <- CreditStep

\* Each pass starts from the one before.
LEMMA CreditRunsUnfold ==
    ASSUME NEW bal, NEW in, NEW order, NEW start
    PROVE  /\ CreditRuns(bal, in, order, start)[0] = start
           /\ \A i \in Nat :
                CreditRuns(bal, in, order, start)[i + 1]
                  = Credit(bal, in, CreditRuns(bal, in, order, start)[i],
                          order[i + 1])
<1> DEFINE p == [bal |-> bal, in |-> in, order |-> order]
           g == CreditLoop!Loop(p, start)
           F(f) == [i \in Nat |-> IF i = 0 THEN start
                                  ELSE Credit(bal, in, f[i - 1], order[i])]
           f0 == CreditRuns(bal, in, order, start)
<1>1. g = F(g)
  <2>1. p.bal = bal /\ p.in = in /\ p.order = order
    OBVIOUS
  <2> HIDE DEF p
  <2>2. g = [i \in Nat |-> IF i = 0 THEN start
                           ELSE CreditStep(p, i - 1, CreditLoop!Loop(p, start)[i - 1])]
    BY CreditLoop!LoopDef
  <2> HIDE DEF g
  <2>3. g = [i \in Nat |-> IF i = 0 THEN start ELSE CreditStep(p, i - 1, g[i - 1])]
    BY <2>2 DEF g
  <2>4. ASSUME NEW i \in Nat, i # 0
        PROVE  CreditStep(p, i - 1, g[i - 1]) = Credit(bal, in, g[i - 1], order[i])
    <3>1. (i - 1) + 1 = i
      OBVIOUS
    <3>2. CreditStep(p, i - 1, g[i - 1])
            = Credit(bal, in, g[i - 1], order[(i - 1) + 1])
      BY <2>1 DEF CreditStep
    <3> QED
      BY <3>1, <3>2
  <2> QED
    BY <2>3, <2>4
<1> HIDE DEF g
<1>2. f0 = F(f0)
  BY <1>1 DEF CreditRuns
<1> HIDE DEF f0
<1>3. f0[0] = start
  BY <1>2
<1>4. ASSUME NEW i \in Nat
      PROVE  f0[i + 1] = Credit(bal, in, f0[i], order[i + 1])
  <2>1. i + 1 \in Nat /\ i + 1 # 0 /\ (i + 1) - 1 = i
    OBVIOUS
  <2>2. f0[i + 1] = Credit(bal, in, f0[(i + 1) - 1], order[i + 1])
    BY <1>2, <2>1
  <2> QED
    BY <2>1, <2>2
<1> QED
  BY <1>3, <1>4 DEF f0

\* The same for the second loop, which adds amounts that are not negative.
Credited(bal, in, L, h, done, cells, outcome) ==
    /\ cells \in [1 .. L -> Int]
    /\ outcome \in {"ok", "panic"}
    /\ \A c \in 1 .. L : (\A t \in done : bal[t] # c) => cells[c] = h[c]
    /\ \A c \in 1 .. L : cells[c] < 0 => h[c] < 0
    /\ outcome = "ok" => \A t \in done :
          /\ in[t] # Nil => bal[t] # Nil
          /\ bal[t] # Nil =>
                cells[bal[t]] = h[bal[t]] + (IF in[t] = Nil THEN 0 ELSE h[in[t]])

\* One more pass of the second loop.
LEMMA CreditKeeps ==
    ASSUME NEW L \in Nat, NEW h \in [1 .. L -> Int], NEW bal, NEW in,
           Separate(bal, in, L), \A t \in Tokens : in[t] # Nil => h[in[t]] >= 0,
           NEW done \in SUBSET Tokens, NEW t \in Tokens \ done,
           NEW cells, NEW outcome, Credited(bal, in, L, h, done, cells, outcome)
    PROVE  LET run == Credit(bal, in, [heap |-> cells, outcome |-> outcome], t)
           IN  run = [heap |-> run.heap, outcome |-> run.outcome]
               /\ Credited(bal, in, L, h, done \cup {t}, run.heap, run.outcome)
<1> DEFINE run0 == [heap |-> cells, outcome |-> outcome]
           run == Credit(bal, in, run0, t)
<1>1. /\ cells \in [1 .. L -> Int] /\ bal \in [Tokens -> 0 .. L]
      /\ in \in [Tokens -> 0 .. L] /\ t \in Tokens
  BY DEF Credited, Separate
<1>2. CASE outcome # "ok"
  <2>1. run = run0
    BY <1>2 DEF Credit
  <2>2. Credited(bal, in, L, h, done \cup {t}, cells, outcome)
    BY <1>2 DEF Credited
  <2> QED
    BY <2>1, <2>2
<1>3. CASE outcome = "ok" /\ in[t] = Nil
  <2>1. run = run0
    BY <1>3 DEF Credit
  <2>2. bal[t] # Nil => cells[bal[t]] = h[bal[t]] + 0
    <3> SUFFICES ASSUME bal[t] # Nil PROVE cells[bal[t]] = h[bal[t]] + 0
      OBVIOUS
    <3>1. bal[t] \in 1 .. L /\ \A u \in done : bal[u] # bal[t]
      BY <1>1 DEF Separate, Nil
    <3>2. cells[bal[t]] = h[bal[t]] /\ h[bal[t]] \in Int
      BY <3>1 DEF Credited
    <3> QED
      BY <3>2
  <2>3. Credited(bal, in, L, h, done \cup {t}, cells, outcome)
    BY <1>3, <2>2 DEF Credited
  <2> QED
    BY <2>1, <2>3
<1>4. CASE outcome = "ok" /\ in[t] # Nil /\ bal[t] = Nil
  <2>1. run = [heap |-> cells, outcome |-> "panic"]
    BY <1>4 DEF Credit
  <2>2. Credited(bal, in, L, h, done \cup {t}, cells, "panic")
    BY <1>4 DEF Credited
  <2> QED
    BY <2>1, <2>2
<1>5. CASE outcome = "ok" /\ in[t] # Nil /\ bal[t] # Nil
  <2> DEFINE b == bal[t]
             more == cells[b] + cells[in[t]]
             cells2 == [cells EXCEPT ![b] = more]
  <2>1. run = [heap |-> cells2, outcome |-> "ok"]
    BY <1>5 DEF Credit
  <2>2. /\ b \in 1 .. L /\ in[t] \in 1 .. L
        /\ \A u \in Tokens : bal[u] # in[t]
        /\ \A u \in done : bal[u] # b
    BY <1>1, <1>5 DEF Separate, Nil
  <2>3. cells[b] = h[b] /\ cells[in[t]] = h[in[t]]
        /\ h[b] \in Int /\ h[in[t]] \in Int /\ h[in[t]] >= 0
    BY <1>5, <2>2 DEF Credited
  <2>4. more = h[b] + h[in[t]] /\ more \in Int /\ more >= h[b]
    BY <2>3
  <2> HIDE DEF more
  <2>5. cells2 \in [1 .. L -> Int] /\ cells2[b] = more
        /\ \A c \in 1 .. L : c # b => cells2[c] = cells[c]
    BY <1>1, <2>2, <2>4
  <2> HIDE DEF cells2
  <2>7. \A c \in 1 .. L : (\A u \in done \cup {t} : bal[u] # c) => cells2[c] = h[c]
    BY <2>5 DEF Credited
  <2>8. ASSUME NEW c \in 1 .. L, cells2[c] < 0 PROVE h[c] < 0
    <3>1. CASE c = b
      BY <2>3, <2>4, <2>5, <2>8, <3>1
    <3>2. CASE c # b
      BY <2>5, <2>8, <3>2 DEF Credited
    <3> QED
      BY <3>1, <3>2
  <2>10. ASSUME NEW u \in done \cup {t}
         PROVE  /\ in[u] # Nil => bal[u] # Nil
                /\ bal[u] # Nil =>
                     cells2[bal[u]]
                       = h[bal[u]] + (IF in[u] = Nil THEN 0 ELSE h[in[u]])
    <3>1. CASE u = t
      BY <1>5, <2>3, <2>4, <2>5, <3>1
    <3>2. CASE u \in done
      <4>1. bal[u] # Nil => bal[u] \in 1 .. L
        BY <1>1, <3>2 DEF Nil
      <4>2. bal[u] # b
        BY <2>2, <3>2
      <4>3. bal[u] # Nil => cells2[bal[u]] = cells[bal[u]]
        BY <2>5, <4>1, <4>2
      <4> QED
        BY <1>5, <3>2, <4>1, <4>3 DEF Credited
    <3> QED
      BY <3>1, <3>2
  <2>11. Credited(bal, in, L, h, done \cup {t}, cells2, "ok")
    BY <2>5, <2>7, <2>8, <2>10 DEF Credited
  <2> QED
    BY <2>1, <2>11
<1> QED
  BY <1>2, <1>3, <1>4, <1>5

\* The whole loop, in whatever order it takes the tokens.
LEMMA CreditsAll ==
    ASSUME NEW L \in Nat, NEW h \in [1 .. L -> Int], NEW bal, NEW in,
           IsFiniteSet(Tokens), Separate(bal, in, L),
           \A t \in Tokens : in[t] # Nil => h[in[t]] >= 0,
           NEW order \in SetToSeqs(Tokens)
    PROVE  LET run == Credits(bal, in, order, [heap |-> h, outcome |-> "ok"])
           IN  run = [heap |-> run.heap, outcome |-> run.outcome]
               /\ Credited(bal, in, L, h, Tokens, run.heap, run.outcome)
<1> DEFINE R == CreditRuns(bal, in, order, [heap |-> h, outcome |-> "ok"])
           I == {i \in Nat : i <= Len(order) =>
                   /\ R[i] = [heap |-> R[i].heap, outcome |-> R[i].outcome]
                   /\ Credited(bal, in, L, h, FirstOf(order, i),
                              R[i].heap, R[i].outcome)}
<1>1. /\ R[0] = [heap |-> h, outcome |-> "ok"]
      /\ \A i \in Nat : R[i + 1] = Credit(bal, in, R[i], order[i + 1])
  <2> DEFINE start == [heap |-> h, outcome |-> "ok"]
  <2> HIDE DEF start
  <2>1. /\ CreditRuns(bal, in, order, start)[0] = start
        /\ \A i \in Nat : CreditRuns(bal, in, order, start)[i + 1]
                           = Credit(bal, in, CreditRuns(bal, in, order, start)[i],
                                   order[i + 1])
    BY CreditRunsUnfold
  <2> QED
    BY <2>1 DEF start
<1>2. Credits(bal, in, order, [heap |-> h, outcome |-> "ok"]) = R[Len(order)]
  BY DEF Credits, CreditRuns
<1> HIDE DEF R
<1>3. 0 \in I
  <2>1. FirstOf(order, 0) = {}
    BY OrderPasses
  <2>2. R[0].heap = h /\ R[0].outcome = "ok"
    BY <1>1
  <2>3. Credited(bal, in, L, h, {}, h, "ok")
    BY DEF Credited
  <2> QED
    BY <1>1, <2>1, <2>2, <2>3
<1>4. ASSUME NEW i \in Nat, i \in I PROVE i + 1 \in I
  <2> SUFFICES ASSUME i + 1 <= Len(order)
               PROVE  /\ R[i + 1] = [heap |-> R[i + 1].heap,
                                     outcome |-> R[i + 1].outcome]
                      /\ Credited(bal, in, L, h, FirstOf(order, i + 1),
                                 R[i + 1].heap, R[i + 1].outcome)
    OBVIOUS
  <2> DEFINE t == order[i + 1]
             done == FirstOf(order, i)
             cells == R[i].heap
             outcome == R[i].outcome
  <2>1. /\ t \in Tokens \ done /\ done \in SUBSET Tokens
        /\ FirstOf(order, i + 1) = done \cup {t}
    BY OrderPasses
  <2>2. Len(order) \in Nat
    BY OrderPasses
  <2>3. /\ R[i] = [heap |-> cells, outcome |-> outcome]
        /\ Credited(bal, in, L, h, done, cells, outcome)
    BY <1>4, <2>2
  <2>4. R[i + 1] = Credit(bal, in, [heap |-> cells, outcome |-> outcome], t)
    BY <1>1, <2>3
  <2> HIDE DEF t, done, cells, outcome
  <2> DEFINE m == Credit(bal, in, [heap |-> cells, outcome |-> outcome], t)
  <2>5. /\ m = [heap |-> m.heap, outcome |-> m.outcome]
        /\ Credited(bal, in, L, h, done \cup {t}, m.heap, m.outcome)
    BY <2>1, <2>3, CreditKeeps
  <2> HIDE DEF m
  <2> QED
    BY <2>1, <2>4, <2>5 DEF m
<1> HIDE DEF I
<1>5. \A i \in Nat : i \in I
  BY <1>3, <1>4, SumLoop!SetInduction
<1>6. Len(order) \in I
  BY <1>5, OrderPasses
<1> QED
  BY <1>2, <1>6, OrderPasses DEF I


\* The second loop does nothing when the first has not ended well.
LEMMA CreditsStop ==
    ASSUME NEW bal, NEW in, NEW order, Len(order) \in Nat,
           NEW start, start.outcome # "ok"
    PROVE  Credits(bal, in, order, start) = start
<1> DEFINE R == CreditRuns(bal, in, order, start)
           I == {i \in Nat : R[i] = start}
<1>1. /\ R[0] = start
      /\ \A i \in Nat : R[i + 1] = Credit(bal, in, R[i], order[i + 1])
  BY CreditRunsUnfold
<1>2. Credits(bal, in, order, start) = R[Len(order)]
  BY DEF Credits, CreditRuns
<1> HIDE DEF R
<1>3. ASSUME NEW i \in Nat, i \in I PROVE i + 1 \in I
  <2>1. \A t : Credit(bal, in, start, t) = start
    BY DEF Credit
  <2>2. R[i] = start
    BY <1>3
  <2>3. R[i + 1] = start
    BY <1>1, <2>1, <2>2
  <2> QED
    BY <2>3
<1> HIDE DEF I
<1>4. \A i \in Nat : i \in I
  <2>1. 0 \in I
    BY <1>1 DEF I
  <2> QED
    BY <1>3, <2>1, SumLoop!SetInduction
<1> QED
  BY <1>2, <1>4 DEF I

\* The end of the two loops, when the heap was h and became cells: refs and flat
\* are the flattened deposits and the heap with them.
Finalized(h, tables, bal, in, refs, flat, cells, outcome) ==
    /\ Merged(Tokens, Networks, tables, h, Networks, refs, flat)
    /\ \A c \in 1 .. Len(h) : flat[c] >= h[c]
    /\ cells \in [1 .. Len(h) -> Int]
    /\ outcome \in {"ok", "false", "panic"}
    /\ \A c \in 1 .. Len(h) : (\A t \in Tokens : bal[t] # c) => cells[c] = flat[c]
    /\ \A c \in 1 .. Len(h) : cells[c] < 0 =>
          h[c] < 0 \/ (outcome = "false" /\ \E t \in Tokens : bal[t] = c)
    /\ outcome = "false" =>
          \E t \in Tokens : refs[t] # Nil /\ bal[t] # Nil /\ flat[refs[t]] > h[bal[t]]
    /\ outcome = "ok" => \A t \in Tokens :
          /\ refs[t] # Nil => bal[t] # Nil /\ flat[refs[t]] <= h[bal[t]]
          /\ in[t] # Nil => bal[t] # Nil
          /\ bal[t] # Nil =>
                cells[bal[t]] = h[bal[t]]
                                  - (IF refs[t] = Nil THEN 0 ELSE flat[refs[t]])
                                  + (IF in[t] = Nil THEN 0 ELSE flat[in[t]])

\* finalizeDepositProof, in whatever order it meets the targets and the tokens;
\* entry says whether the collated table has an entry for the network.
LEMMA FinalizeRuns ==
    ASSUME NEW h \in Seq(Int), NEW tables, NEW bal, NEW in,
           IsFiniteSet(Networks), IsFiniteSet(Tokens),
           Apart(Tokens, Networks, tables, h), Separate(bal, in, Len(h)),
           \A d \in Networks : Separate(bal, tables[d], Len(h)),
           \A d \in Networks, t \in Tokens :
              tables[d][t] # Nil => h[tables[d][t]] >= 0,
           \A t \in Tokens : in[t] # Nil => h[in[t]] >= 0,
           NEW targets \in SetToSeqs(Networks), NEW outTokens \in SetToSeqs(Tokens),
           NEW inTokens \in SetToSeqs(Tokens), NEW entry \in BOOLEAN
    PROVE  LET flat == MergeAll(Tokens, tables, targets, h)
               afterDebit == Debits(bal, flat.refs, outTokens,
                                    [heap |-> flat.heap, outcome |-> "ok"])
               beforeCredit == IF afterDebit.outcome = "ok" /\ ~entry
                               THEN [afterDebit EXCEPT !.outcome = "panic"]
                               ELSE afterDebit
               end == Credits(bal, in, inTokens, beforeCredit)
           IN  Finalized(h, tables, bal, in, flat.refs, flat.heap,
                         end.heap, end.outcome)
<1> DEFINE m == MergeAll(Tokens, tables, targets, h)
           L == Len(h)
           refs == m.refs
           flat == m.heap
<1>1. /\ Merged(Tokens, Networks, tables, h, Networks, refs, flat)
      /\ L \in Nat /\ h \in [1 .. L -> Int]
  BY MergeAllAdds
<1> HIDE DEF m
<1>2. \A c \in 1 .. L : flat[c] >= h[c]
  BY <1>1, MergedGrows
<1> HIDE DEF refs, flat
<1>3. /\ flat \in [1 .. L -> Int] /\ refs \in [Tokens -> 0 .. L]
      /\ \A t \in Tokens : refs[t] # Nil => \E d \in Networks : tables[d][t] = refs[t]
      /\ \A c \in 1 .. L : (\A t \in Tokens : refs[t] # c) => flat[c] = h[c]
  BY <1>1 DEF Merged
<1>4. \A d \in Networks, t, u \in Tokens : bal[t] # Nil => bal[t] # tables[d][u]
  BY DEF Separate
<1>5. \A t, u \in Tokens : bal[t] # Nil => bal[t] # refs[u]
  BY <1>3, <1>4
<1>6. Separate(bal, refs, L)
  BY <1>3, <1>5 DEF Separate
<1>7. \A t \in Tokens : bal[t] # Nil =>
         bal[t] \in 1 .. L /\ flat[bal[t]] = h[bal[t]] /\ h[bal[t]] \in Int
  <2> SUFFICES ASSUME NEW t \in Tokens, bal[t] # Nil
               PROVE  bal[t] \in 1 .. L /\ flat[bal[t]] = h[bal[t]] /\ h[bal[t]] \in Int
    OBVIOUS
  <2>1. bal[t] \in 1 .. L
    BY <1>1 DEF Separate, Nil
  <2> QED
    BY <1>1, <1>3, <1>5, <2>1
<1>8. \A t \in Tokens : in[t] # Nil =>
         in[t] \in 1 .. L /\ flat[in[t]] \in Int /\ flat[in[t]] >= 0
         /\ \A u \in Tokens : bal[u] # in[t]
  <2> SUFFICES ASSUME NEW t \in Tokens, in[t] # Nil
               PROVE  in[t] \in 1 .. L /\ flat[in[t]] \in Int /\ flat[in[t]] >= 0
                      /\ \A u \in Tokens : bal[u] # in[t]
    OBVIOUS
  <2>1. in[t] \in 1 .. L
    BY <1>1 DEF Separate, Nil
  <2>2. \A u \in Tokens : bal[u] # in[t]
    BY DEF Separate
  <2>3. h[in[t]] >= 0 /\ h[in[t]] \in Int /\ flat[in[t]] \in Int /\ flat[in[t]] >= h[in[t]]
    BY <1>1, <1>2, <1>3, <2>1
  <2> QED
    BY <2>1, <2>2, <2>3
<1> DEFINE a == Debits(bal, refs, outTokens, [heap |-> flat, outcome |-> "ok"])
           ah == a.heap
<1>9. /\ a = [heap |-> ah, outcome |-> a.outcome]
      /\ Debited(bal, refs, L, flat, Tokens, ah, a.outcome)
  BY <1>1, <1>3, <1>6, DebitsAll
<1> HIDE DEF a, ah
<1>10. /\ ah \in [1 .. L -> Int]
       /\ a.outcome \in {"ok", "false", "panic"}
       /\ \A c \in 1 .. L : (\A t \in Tokens : bal[t] # c) => ah[c] = flat[c]
       /\ \A c \in 1 .. L : ah[c] < 0 =>
            h[c] < 0 \/ (a.outcome = "false" /\ \E t \in Tokens : bal[t] = c)
  <2>1. \A c \in 1 .. L : flat[c] < 0 => h[c] < 0
    <3> SUFFICES ASSUME NEW c \in 1 .. L, flat[c] < 0 PROVE h[c] < 0
      OBVIOUS
    <3>1. flat[c] \in Int /\ h[c] \in Int /\ flat[c] >= h[c]
      BY <1>1, <1>2, <1>3
    <3> QED
      BY <3>1
  <2> QED
    BY <1>9, <2>1 DEF Debited
<1>11. a.outcome = "false" =>
         \E t \in Tokens : refs[t] # Nil /\ bal[t] # Nil /\ flat[refs[t]] > h[bal[t]]
  BY <1>7, <1>9 DEF Debited
<1>12. a.outcome = "ok" => \A t \in Tokens :
         /\ refs[t] # Nil => bal[t] # Nil /\ flat[refs[t]] <= h[bal[t]]
         /\ bal[t] # Nil =>
              ah[bal[t]] = h[bal[t]] - (IF refs[t] = Nil THEN 0 ELSE flat[refs[t]])
  BY <1>7, <1>9 DEF Debited
<1> DEFINE b == IF a.outcome = "ok" /\ ~entry
                THEN [a EXCEPT !.outcome = "panic"] ELSE a
           e == Credits(bal, in, inTokens, b)
<1>13. CASE a.outcome # "ok" \/ ~entry
  <2> DEFINE o == IF a.outcome = "ok" THEN "panic" ELSE a.outcome
  <2>1. b = [heap |-> ah, outcome |-> o]
    BY <1>9, <1>13
  <2>2. o \in {"false", "panic"} /\ (o = "false" => a.outcome = "false")
        /\ (a.outcome = "false" => o = "false")
    BY <1>10
  <2>3. Len(inTokens) \in Nat
    BY OrderPasses
  <2> HIDE DEF o
  <2>4. b.outcome # "ok" /\ b.heap = ah /\ b.outcome = o
    BY <2>1, <2>2
  <2> HIDE DEF b
  <2>5. e = b
    BY <2>3, <2>4, CreditsStop
  <2>6. Finalized(h, tables, bal, in, refs, flat, ah, o)
    BY <1>1, <1>2, <1>10, <1>11, <2>2 DEF Finalized
  <2> HIDE DEF e
  <2>7. Finalized(h, tables, bal, in, refs, flat, e.heap, e.outcome)
    BY <2>4, <2>5, <2>6
  <2> QED
    BY <2>7 DEF e, b, a, refs, flat, m
<1>14. CASE a.outcome = "ok" /\ entry
  <2>1. b = [heap |-> ah, outcome |-> "ok"]
    BY <1>9, <1>14
  <2>2. \A t \in Tokens : in[t] # Nil => ah[in[t]] >= 0 /\ ah[in[t]] = flat[in[t]]
    BY <1>8, <1>10
  <2> HIDE DEF b
  <2> DEFINE e2 == Credits(bal, in, inTokens, [heap |-> ah, outcome |-> "ok"])
  <2>3. /\ e2 = [heap |-> e2.heap, outcome |-> e2.outcome]
        /\ Credited(bal, in, L, ah, Tokens, e2.heap, e2.outcome)
    BY <1>1, <1>10, <2>2, CreditsAll
  <2>4. e = e2
    BY <2>1
  <2> HIDE DEF e, e2
  <2>5. /\ e.heap \in [1 .. L -> Int]
        /\ e.outcome \in {"ok", "panic"}
        /\ \A c \in 1 .. L : (\A t \in Tokens : bal[t] # c) => e.heap[c] = flat[c]
        /\ \A c \in 1 .. L : e.heap[c] < 0 => h[c] < 0
    BY <1>10, <1>14, <2>3, <2>4 DEF Credited
  <2>6. ASSUME e.outcome = "ok", NEW t \in Tokens
        PROVE  /\ refs[t] # Nil => bal[t] # Nil /\ flat[refs[t]] <= h[bal[t]]
               /\ in[t] # Nil => bal[t] # Nil
               /\ bal[t] # Nil =>
                    e.heap[bal[t]] = h[bal[t]]
                                      - (IF refs[t] = Nil THEN 0 ELSE flat[refs[t]])
                                      + (IF in[t] = Nil THEN 0 ELSE flat[in[t]])
    <3>1. refs[t] # Nil => bal[t] # Nil /\ flat[refs[t]] <= h[bal[t]]
      BY <1>12, <1>14
    <3>2. in[t] # Nil => bal[t] # Nil
      BY <2>3, <2>4, <2>6 DEF Credited
    <3>3. bal[t] # Nil =>
            e.heap[bal[t]] = ah[bal[t]] + (IF in[t] = Nil THEN 0 ELSE ah[in[t]])
      BY <2>3, <2>4, <2>6 DEF Credited
    <3>4. bal[t] # Nil =>
            ah[bal[t]] = h[bal[t]] - (IF refs[t] = Nil THEN 0 ELSE flat[refs[t]])
      BY <1>12, <1>14
    <3>5. in[t] # Nil => ah[in[t]] = flat[in[t]]
      BY <2>2
    <3> QED
      BY <3>1, <3>2, <3>3, <3>4, <3>5
  <2>7. Finalized(h, tables, bal, in, refs, flat, e.heap, e.outcome)
    BY <1>1, <1>2, <2>5, <2>6 DEF Finalized
  <2> QED
    BY <2>7 DEF e, b, a, refs, flat, m
<1> QED
  BY <1>10, <1>13, <1>14

----------------------------------------------------------------------------
(* The inductive invariant.                                                 *)

History ==
    /\ sent \in [Networks -> [Routes -> Nat]]
    /\ granted \in [Networks -> [Tokens -> Nat]]

\* Ownership, table by table.
Own ==
    /\ \A s, u \in Networks, r, q \in Routes :
          deps[s][r] # Nil /\ deps[s][r] = deps[u][q] => s = u /\ r = q
    /\ \A n, m \in Networks, t, u \in Tokens :
          bals[n][t] # Nil /\ bals[n][t] = bals[m][u] => n = m /\ t = u
    /\ \A s, n \in Networks, r \in Routes, t \in Tokens :
          deps[s][r] # Nil => deps[s][r] # bals[n][t]
    /\ collated # NotCollated =>
          \A r \in Routes : collated[r] # Nil =>
              \E s \in Networks : collated[r] = deps[s][r]

\* What has no cell was never recorded, and before the collation a cell holds
\* exactly what was recorded.
Recorded ==
    \A s \in Networks, r \in Routes :
        /\ deps[s][r] = Nil => sent[s][r] = 0
        /\ collated = NotCollated /\ deps[s][r] # Nil =>
              heap[deps[s][r]] = sent[s][r]

\* Nobody touches the credits of a network before it is finalized.
Untouched ==
    \A n \in Networks : result[n] = "none" =>
        \A t \in Tokens :
            granted[n][t] = IF bals[n][t] = Nil THEN 0 ELSE heap[bals[n][t]]

CollatedFirst ==
    collated = NotCollated => \A n \in Networks : result[n] = "none"

Inv ==
    /\ TypeOK /\ History /\ Own /\ Recorded /\ NeverUnderstated
    /\ Untouched /\ CollatedFirst /\ NoOverdraft

----------------------------------------------------------------------------
\* The constants are finite, and a token is not a route.
LEMMA ConstantFacts ==
    /\ IsFiniteSet(Networks) /\ IsFiniteSet(Tokens)
    /\ \A t \in Tokens : t \notin Routes
    /\ Amounts \subseteq Nat \ {0}
  BY NetworksAssumption, TokensAssumption, AmountsAssumption

\* Ownership, of all the entries of the ledger.
LEMMA OwnOwnership == ASSUME Own PROVE Ownership
<1>1. ASSUME NEW e \in Entries, NEW f \in Entries, e # f, RefOf(e) # Nil
      PROVE  RefOf(e) # RefOf(f)
  <2>1. PICK n \in Networks, k \in Routes \cup Tokens : e = <<n, k>>
    BY DEF Entries
  <2>2. PICK m \in Networks, j \in Routes \cup Tokens : f = <<m, j>>
    BY DEF Entries
  <2>3. CASE k \in Routes /\ j \in Routes
    BY <1>1, <2>1, <2>2, <2>3 DEF RefOf, Own
  <2>4. CASE k \in Routes /\ j \in Tokens
    BY <1>1, <2>1, <2>2, <2>4, ConstantFacts DEF RefOf, Own
  <2>5. CASE k \in Tokens /\ j \in Routes
    BY <1>1, <2>1, <2>2, <2>5, ConstantFacts DEF RefOf, Own
  <2>6. CASE k \in Tokens /\ j \in Tokens
    BY <1>1, <2>1, <2>2, <2>6, ConstantFacts DEF RefOf, Own
  <2> QED
    BY <2>3, <2>4, <2>5, <2>6
<1> QED
  BY <1>1 DEF Ownership, Own

\* Nothing has been recorded.
LEMMA InitInv == Init => Inv
<1> SUFFICES ASSUME Init PROVE Inv
  OBVIOUS
<1>1. heap = <<>> /\ Len(heap) = 0 /\ heap \in Seq(Int)
  BY DEF Init
<1>2. \A s \in Networks, r \in Routes : deps[s][r] = Nil /\ sent[s][r] = 0
  BY DEF Init, NoRefs, NoAmounts
<1>3. \A n \in Networks, t \in Tokens : bals[n][t] = Nil /\ granted[n][t] = 0
  BY DEF Init, NoRefs, NoAmounts
<1>4. \A n \in Networks : result[n] = "none"
  BY DEF Init
<1>5. collated = NotCollated
  BY DEF Init
<1>6. TypeOK
  BY <1>1, <1>5 DEF Init, TypeOK, Refs, NoRefs, Nil
<1>7. History
  BY DEF Init, History, NoAmounts
<1>8. Own /\ Recorded /\ NeverUnderstated /\ Untouched /\ CollatedFirst /\ NoOverdraft
  BY <1>2, <1>3, <1>4, <1>5
     DEF Own, Recorded, NeverUnderstated, Untouched, CollatedFirst, NoOverdraft
<1> QED
  BY <1>6, <1>7, <1>8 DEF Inv

\* A new cell at the end of the heap.
LEMMA NewCellAdded ==
    ASSUME NEW h \in Seq(Int), NEW v \in Int
    PROVE  /\ Append(h, v) \in Seq(Int) /\ Len(Append(h, v)) = Len(h) + 1
           /\ Append(h, v)[Len(h) + 1] = v
           /\ \A c \in 1 .. Len(h) : Append(h, v)[c] = h[c]
           /\ Len(h) \in Nat
  OBVIOUS

\* A table of tables in which one entry is replaced.
LEMMA EntryReplaced ==
    ASSUME NEW A, NEW B, NEW V, NEW f \in [A -> [B -> V]],
           NEW a \in A, NEW b \in B, NEW v, NEW W, V \subseteq W, v \in W
    PROVE  LET g == [f EXCEPT ![a][b] = v]
           IN  /\ g \in [A -> [B -> W]] /\ g[a][b] = v
               /\ \A x \in A, y \in B : x # a \/ y # b => g[x][y] = f[x][y]
  OBVIOUS

\* A table of tables over a larger set.
LEMMA TablesWidened ==
    ASSUME NEW A, NEW B, NEW V, NEW f \in [A -> [B -> V]],
           NEW W, V \subseteq W
    PROVE  f \in [A -> [B -> W]]
  OBVIOUS

\* addDeposit: the new cell holds the old amount and the new one.
LEMMA AddDepositInv ==
    ASSUME Inv, NEW s \in Networks, NEW d \in Networks, NEW t \in Tokens,
           NEW amount \in Amounts, AddDeposit(s, d, t, amount)
    PROVE  Inv'
<1> DEFINE r0 == <<d, t>>
           L == Len(heap)
           v == IF deps[s][r0] = Nil THEN amount ELSE amount + heap[deps[s][r0]]
<1>1. /\ heap \in Seq(Int) /\ deps \in [Networks -> [Routes -> 0 .. L]]
      /\ bals \in [Networks -> [Tokens -> 0 .. L]]
      /\ L \in Nat /\ r0 \in Routes /\ amount \in Nat /\ amount > 0
      /\ sent \in [Networks -> [Routes -> Nat]]
  <2>1. /\ heap \in Seq(Int) /\ deps \in [Networks -> [Routes -> 0 .. L]]
        /\ bals \in [Networks -> [Tokens -> 0 .. L]]
        /\ sent \in [Networks -> [Routes -> Nat]]
    BY DEF Inv, TypeOK, Refs, History
  <2>2. L \in Nat /\ r0 \in Routes
    BY <2>1 DEF Routes
  <2>3. amount \in Nat /\ amount > 0
    BY ConstantFacts
  <2> QED
    BY <2>1, <2>2, <2>3
<1> HIDE DEF r0
<1>2. /\ collated = NotCollated /\ heap' = Append(heap, v)
      /\ deps' = [deps EXCEPT ![s][r0] = Len(heap')]
      /\ sent' = [sent EXCEPT ![s][r0] = @ + amount]
      /\ UNCHANGED <<collated, bals, result, granted, debited, credited>>
  BY DEF AddDeposit, NewCell, r0
<1>3. v \in Int /\ v = sent[s][r0] + amount
  <2>1. deps[s][r0] # Nil => deps[s][r0] \in 1 .. L
    BY <1>1 DEF Nil
  <2>2. deps[s][r0] # Nil => heap[deps[s][r0]] = sent[s][r0]
    BY <1>1, <1>2 DEF Inv, Recorded
  <2>3. deps[s][r0] = Nil => sent[s][r0] = 0
    BY <1>1 DEF Inv, Recorded
  <2>4. sent[s][r0] \in Nat
    BY <1>1
  <2> QED
    BY <1>1, <2>2, <2>3, <2>4
<1> HIDE DEF v
<1>4. /\ heap' \in Seq(Int) /\ Len(heap') = L + 1 /\ heap'[L + 1] = v
      /\ \A c \in 1 .. L : heap'[c] = heap[c]
  BY <1>1, <1>2, <1>3, NewCellAdded
<1> HIDE DEF L
<1>5. /\ deps'[s][r0] = L + 1
      /\ \A u \in Networks, r \in Routes :
           u # s \/ r # r0 => deps'[u][r] = deps[u][r]
      /\ deps' \in [Networks -> [Routes -> 0 .. (L + 1)]]
  <2>1. deps' = [deps EXCEPT ![s][r0] = L + 1]
    BY <1>2, <1>4
  <2>2. 0 .. L \subseteq 0 .. (L + 1) /\ L + 1 \in 0 .. (L + 1)
    BY <1>1
  <2>3. deps \in [Networks -> [Routes -> 0 .. L]] /\ r0 \in Routes
    BY <1>1
  <2> QED
    BY <2>1, <2>2, <2>3, EntryReplaced
<1>6. /\ sent'[s][r0] = sent[s][r0] + amount
      /\ \A u \in Networks, r \in Routes :
           u # s \/ r # r0 => sent'[u][r] = sent[u][r]
      /\ sent' \in [Networks -> [Routes -> Nat]]
  BY <1>1, <1>2
<1>7. /\ \A u \in Networks, r \in Routes : deps[u][r] \in 0 .. L
      /\ \A n \in Networks, u \in Tokens : bals[n][u] \in 0 .. L
  BY <1>1
<1>8. \A n \in Networks : result[n] = "none" /\ result'[n] = "none"
  BY <1>2 DEF Inv, CollatedFirst
<1>9. TypeOK'
  <2>1. bals' \in [Networks -> [Tokens -> 0 .. (L + 1)]]
    <3>1. 0 .. L \subseteq 0 .. (L + 1)
      BY <1>1
    <3>2. bals \in [Networks -> [Tokens -> 0 .. L]] /\ bals' = bals
      BY <1>1, <1>2
    <3> QED
      BY <3>1, <3>2, TablesWidened
  <2>2. \A c \in 1 .. L + 1 : heap'[c] >= 0
    <3> SUFFICES ASSUME NEW c \in 1 .. L + 1 PROVE heap'[c] >= 0
      OBVIOUS
    <3>1. CASE c = L + 1
      <4>1. sent[s][r0] \in Nat
        BY <1>1
      <4> QED
        BY <1>1, <1>3, <1>4, <3>1, <4>1
    <3>2. CASE c \in 1 .. L
      <4>1. heap[c] \in Int
        BY <1>1, <3>2 DEF L
      <4>2. ~(heap[c] < 0)
        <5>1. heap[c] < 0 => \E n \in Networks : result[n] = "false"
          BY <3>2 DEF Inv, TypeOK, L
        <5> QED
          BY <1>8, <5>1
      <4> QED
        BY <1>4, <3>2, <4>1, <4>2
    <3> QED
      BY <1>1, <3>1, <3>2
  <2>3. \A c \in 1 .. Len(heap') : ~(heap'[c] < 0)
    <3>1. \A c \in 1 .. L + 1 : heap'[c] \in Int
      BY <1>4
    <3> QED
      BY <1>4, <2>2, <3>1
  <2>4. result' \in [Networks -> {"none", "true", "false", "panic"}]
    BY <1>2 DEF Inv, TypeOK
  <2> QED
    BY <1>2, <1>4, <1>5, <2>1, <2>3, <2>4 DEF TypeOK, Refs
<1>10. History'
  BY <1>2, <1>6 DEF Inv, History
<1>11. Own'
  <2>0. /\ \A x \in Networks, r \in Routes : deps[x][r] # L + 1
        /\ \A n \in Networks, u \in Tokens : bals[n][u] # L + 1
    BY <1>1, <1>7
  <2>1. ASSUME NEW x \in Networks, NEW y \in Networks, NEW r \in Routes,
               NEW q \in Routes, deps'[x][r] # Nil, deps'[x][r] = deps'[y][q]
        PROVE  x = y /\ r = q
    <3>1. CASE (x # s \/ r # r0) /\ (y # s \/ q # r0)
      <4>1. deps'[x][r] = deps[x][r] /\ deps'[y][q] = deps[y][q]
        BY <1>5, <3>1
      <4>2. deps[x][r] # Nil /\ deps[x][r] = deps[y][q]
        BY <2>1, <4>1
      <4>3. \A x1, y1 \in Networks, r1, q1 \in Routes :
               deps[x1][r1] # Nil /\ deps[x1][r1] = deps[y1][q1]
               => x1 = y1 /\ r1 = q1
        BY DEF Inv, Own
      <4> QED
        BY <4>2, <4>3
    <3>2. CASE (x = s /\ r = r0) \/ (y = s /\ q = r0)
      BY <1>5, <2>0, <2>1, <3>2
    <3> QED
      BY <3>1, <3>2
  <2>2. ASSUME NEW x \in Networks, NEW n \in Networks, NEW r \in Routes,
               NEW u \in Tokens, deps'[x][r] # Nil
        PROVE  deps'[x][r] # bals'[n][u]
    <3>1. bals'[n][u] = bals[n][u]
      BY <1>2
    <3>2. CASE x # s \/ r # r0
      <4>1. deps'[x][r] = deps[x][r]
        BY <1>5, <3>2
      <4> QED
        BY <2>2, <3>1, <4>1 DEF Inv, Own
    <3>3. CASE x = s /\ r = r0
      BY <1>5, <2>0, <3>1, <3>3
    <3> QED
      BY <3>2, <3>3
  <2>3. collated' = NotCollated
    BY <1>2
  <2> QED
    BY <1>2, <2>1, <2>2, <2>3 DEF Inv, Own
<1>12. /\ \A x \in Networks, r \in Routes :
             /\ deps'[x][r] = Nil => sent'[x][r] = 0
             /\ deps'[x][r] # Nil => heap'[deps'[x][r]] = sent'[x][r]
  <2> SUFFICES ASSUME NEW x \in Networks, NEW r \in Routes
               PROVE  /\ deps'[x][r] = Nil => sent'[x][r] = 0
                      /\ deps'[x][r] # Nil => heap'[deps'[x][r]] = sent'[x][r]
    OBVIOUS
  <2>1. CASE x = s /\ r = r0
    <3>1. deps'[x][r] = L + 1 /\ L + 1 # Nil
      BY <1>1, <1>5, <2>1 DEF Nil
    <3>2. heap'[L + 1] = v /\ sent'[x][r] = v
      BY <1>3, <1>4, <1>6, <2>1
    <3> QED
      BY <3>1, <3>2
  <2>2. CASE x # s \/ r # r0
    <3>1. deps'[x][r] = deps[x][r] /\ sent'[x][r] = sent[x][r]
      BY <1>5, <1>6, <2>2
    <3>2. deps[x][r] # Nil => deps[x][r] \in 1 .. L
      <4>1. deps[x][r] \in 0 .. L /\ L \in Nat
        BY <1>1, <1>7
      <4> QED
        BY <4>1 DEF Nil
    <3> QED
      BY <1>2, <1>4, <3>1, <3>2 DEF Inv, Recorded
  <2> QED
    BY <2>1, <2>2
<1>13. Recorded'
  BY <1>12 DEF Recorded
<1>14. NeverUnderstated'
  <2>1. \A x \in Networks, r \in Routes : sent'[x][r] \in Nat
    BY <1>6
  <2> QED
    BY <1>12, <2>1 DEF NeverUnderstated
<1>15. Untouched'
  <2> SUFFICES ASSUME NEW n \in Networks, NEW u \in Tokens
               PROVE  granted'[n][u] = IF bals'[n][u] = Nil THEN 0
                                       ELSE heap'[bals'[n][u]]
    BY DEF Untouched
  <2>1. bals[n][u] # Nil => bals[n][u] \in 1 .. L
    BY <1>1, <1>7 DEF Nil
  <2> QED
    BY <1>2, <1>4, <1>8, <2>1 DEF Inv, Untouched
<1>16. CollatedFirst' /\ NoOverdraft'
  BY <1>8 DEF CollatedFirst, NoOverdraft
<1> QED
  BY <1>9, <1>10, <1>11, <1>13, <1>14, <1>15, <1>16 DEF Inv

\* addCredit, in the same way.
LEMMA AddCreditInv ==
    ASSUME Inv, NEW n0 \in Networks, NEW t0 \in Tokens,
           NEW amount \in Amounts, AddCredit(n0, t0, amount)
    PROVE  Inv'
<1> DEFINE L == Len(heap)
           v == IF bals[n0][t0] = Nil THEN amount ELSE amount + heap[bals[n0][t0]]
<1>1. /\ heap \in Seq(Int) /\ deps \in [Networks -> [Routes -> 0 .. L]]
      /\ bals \in [Networks -> [Tokens -> 0 .. L]]
      /\ L \in Nat /\ amount \in Nat /\ amount > 0
      /\ granted \in [Networks -> [Tokens -> Nat]]
  <2>1. /\ heap \in Seq(Int) /\ deps \in [Networks -> [Routes -> 0 .. L]]
        /\ bals \in [Networks -> [Tokens -> 0 .. L]]
        /\ granted \in [Networks -> [Tokens -> Nat]]
    BY DEF Inv, TypeOK, Refs, History
  <2>2. L \in Nat
    BY <2>1
  <2>3. amount \in Nat /\ amount > 0
    BY ConstantFacts
  <2> QED
    BY <2>1, <2>2, <2>3
<1>2. /\ collated = NotCollated /\ heap' = Append(heap, v)
      /\ bals' = [bals EXCEPT ![n0][t0] = Len(heap')]
      /\ granted' = [granted EXCEPT ![n0][t0] = @ + amount]
      /\ UNCHANGED <<deps, collated, result, sent, debited, credited>>
  BY DEF AddCredit, NewCell
<1>8. \A n \in Networks : result[n] = "none" /\ result'[n] = "none"
  BY <1>2 DEF Inv, CollatedFirst
<1>3. v \in Int /\ v = granted[n0][t0] + amount
  <2>1. bals[n0][t0] # Nil => heap[bals[n0][t0]] = granted[n0][t0]
    BY <1>8 DEF Inv, Untouched
  <2>2. bals[n0][t0] = Nil => granted[n0][t0] = 0
    BY <1>8 DEF Inv, Untouched
  <2>3. granted[n0][t0] \in Nat
    BY <1>1
  <2> QED
    BY <1>1, <2>1, <2>2, <2>3
<1> HIDE DEF v
<1>4. /\ heap' \in Seq(Int) /\ Len(heap') = L + 1 /\ heap'[L + 1] = v
      /\ \A c \in 1 .. L : heap'[c] = heap[c]
  BY <1>1, <1>2, <1>3, NewCellAdded
<1> HIDE DEF L
<1>5. /\ bals'[n0][t0] = L + 1
      /\ \A n \in Networks, t \in Tokens :
           n # n0 \/ t # t0 => bals'[n][t] = bals[n][t]
      /\ bals' \in [Networks -> [Tokens -> 0 .. (L + 1)]]
  BY <1>1, <1>2, <1>4
<1>6. /\ granted'[n0][t0] = granted[n0][t0] + amount
      /\ \A n \in Networks, t \in Tokens :
           n # n0 \/ t # t0 => granted'[n][t] = granted[n][t]
      /\ granted' \in [Networks -> [Tokens -> Nat]]
  BY <1>1, <1>2
<1>7. /\ \A u \in Networks, r \in Routes : deps[u][r] \in 0 .. L
      /\ \A n \in Networks, u \in Tokens : bals[n][u] \in 0 .. L
  BY <1>1
<1>9. TypeOK'
  <2>1. deps' \in [Networks -> [Routes -> 0 .. (L + 1)]]
    BY <1>1, <1>2
  <2>2. \A c \in 1 .. L + 1 : heap'[c] >= 0
    <3> SUFFICES ASSUME NEW c \in 1 .. L + 1 PROVE heap'[c] >= 0
      OBVIOUS
    <3>1. CASE c = L + 1
      <4>1. granted[n0][t0] \in Nat
        BY <1>1
      <4> QED
        BY <1>1, <1>3, <1>4, <3>1, <4>1
    <3>2. CASE c \in 1 .. L
      <4>1. heap[c] \in Int
        BY <1>1, <3>2 DEF L
      <4>2. ~(heap[c] < 0)
        <5>1. heap[c] < 0 => \E n \in Networks : result[n] = "false"
          BY <3>2 DEF Inv, TypeOK, L
        <5> QED
          BY <1>8, <5>1
      <4> QED
        BY <1>4, <3>2, <4>1, <4>2
    <3> QED
      BY <1>1, <3>1, <3>2
  <2>3. \A c \in 1 .. Len(heap') : ~(heap'[c] < 0)
    <3>1. \A c \in 1 .. L + 1 : heap'[c] \in Int
      BY <1>4
    <3> QED
      BY <1>4, <2>2, <3>1
  <2>4. result' \in [Networks -> {"none", "true", "false", "panic"}]
    BY <1>2 DEF Inv, TypeOK
  <2> QED
    BY <1>2, <1>4, <1>5, <2>1, <2>3, <2>4 DEF TypeOK, Refs
<1>10. History'
  BY <1>2, <1>6 DEF Inv, History
<1>11. Own'
  <2>0. /\ \A x \in Networks, r \in Routes : deps[x][r] # L + 1
        /\ \A n \in Networks, u \in Tokens : bals[n][u] # L + 1
    BY <1>1, <1>7
  <2>1. ASSUME NEW x \in Networks, NEW y \in Networks, NEW t \in Tokens,
               NEW u \in Tokens, bals'[x][t] # Nil, bals'[x][t] = bals'[y][u]
        PROVE  x = y /\ t = u
    <3>1. CASE (x # n0 \/ t # t0) /\ (y # n0 \/ u # t0)
      <4>1. bals'[x][t] = bals[x][t] /\ bals'[y][u] = bals[y][u]
        BY <1>5, <3>1
      <4>2. bals[x][t] # Nil /\ bals[x][t] = bals[y][u]
        BY <2>1, <4>1
      <4>3. \A x1, y1 \in Networks, t1, u1 \in Tokens :
               bals[x1][t1] # Nil /\ bals[x1][t1] = bals[y1][u1]
               => x1 = y1 /\ t1 = u1
        BY DEF Inv, Own
      <4> QED
        BY <4>2, <4>3
    <3>2. CASE (x = n0 /\ t = t0) \/ (y = n0 /\ u = t0)
      BY <1>5, <2>0, <2>1, <3>2
    <3> QED
      BY <3>1, <3>2
  <2>2. ASSUME NEW x \in Networks, NEW n \in Networks, NEW r \in Routes,
               NEW u \in Tokens, deps'[x][r] # Nil
        PROVE  deps'[x][r] # bals'[n][u]
    <3>1. deps'[x][r] = deps[x][r]
      BY <1>2
    <3>2. CASE n # n0 \/ u # t0
      <4>1. bals'[n][u] = bals[n][u]
        BY <1>5, <3>2
      <4> QED
        BY <2>2, <3>1, <4>1 DEF Inv, Own
    <3>3. CASE n = n0 /\ u = t0
      BY <1>5, <2>0, <3>1, <3>3
    <3> QED
      BY <3>2, <3>3
  <2>3. \A x, y \in Networks, r, q \in Routes :
          deps'[x][r] # Nil /\ deps'[x][r] = deps'[y][q] => x = y /\ r = q
    BY <1>2 DEF Inv, Own
  <2>4. collated' = NotCollated
    BY <1>2
  <2> QED
    BY <2>1, <2>2, <2>3, <2>4 DEF Own
<1>12. /\ \A x \in Networks, r \in Routes :
             /\ deps'[x][r] = Nil => sent'[x][r] = 0
             /\ deps'[x][r] # Nil => heap'[deps'[x][r]] = sent'[x][r]
  <2> SUFFICES ASSUME NEW x \in Networks, NEW r \in Routes
               PROVE  /\ deps'[x][r] = Nil => sent'[x][r] = 0
                      /\ deps'[x][r] # Nil => heap'[deps'[x][r]] = sent'[x][r]
    OBVIOUS
  <2>1. deps'[x][r] = deps[x][r] /\ sent'[x][r] = sent[x][r]
    BY <1>2
  <2>2. deps[x][r] # Nil => deps[x][r] \in 1 .. L
    BY <1>1, <1>7 DEF Nil
  <2> QED
    BY <1>2, <1>4, <2>1, <2>2 DEF Inv, Recorded
<1>13. Recorded'
  BY <1>12 DEF Recorded
<1>14. NeverUnderstated'
  <2>1. \A x \in Networks, r \in Routes : sent'[x][r] \in Nat
    BY <1>2 DEF Inv, History
  <2> QED
    BY <1>12, <2>1 DEF NeverUnderstated
<1>15. Untouched'
  <2> SUFFICES ASSUME NEW n \in Networks, NEW u \in Tokens
               PROVE  granted'[n][u] = IF bals'[n][u] = Nil THEN 0
                                       ELSE heap'[bals'[n][u]]
    BY DEF Untouched
  <2>1. CASE n = n0 /\ u = t0
    BY <1>1, <1>3, <1>4, <1>5, <1>6, <2>1 DEF Nil
  <2>2. CASE n # n0 \/ u # t0
    <3>1. bals[n][u] # Nil => bals[n][u] \in 1 .. L
      BY <1>1, <1>7 DEF Nil
    <3>2. bals'[n][u] = bals[n][u] /\ granted'[n][u] = granted[n][u]
      BY <1>5, <1>6, <2>2
    <3> QED
      BY <1>4, <1>8, <3>1, <3>2 DEF Inv, Untouched
  <2> QED
    BY <2>1, <2>2
<1>16. CollatedFirst' /\ NoOverdraft'
  BY <1>8 DEF CollatedFirst, NoOverdraft
<1> QED
  BY <1>9, <1>10, <1>11, <1>13, <1>14, <1>15, <1>16 DEF Inv

\* Cells under names of their own.
LEMMA SeqIsFunction ==
    ASSUME NEW h \in Seq(Int)
    PROVE  Len(h) \in Nat /\ h \in [1 .. Len(h) -> Int]
  OBVIOUS

\* And back.
LEMMA FunctionIsSeq ==
    ASSUME NEW L \in Nat, NEW h \in [1 .. L -> Int]
    PROVE  h \in Seq(Int) /\ Len(h) = L
  OBVIOUS

\* No entry of the deposits of all networks shares a cell with another.
LEMMA DepositsApart ==
    ASSUME Inv
    PROVE  /\ Apart(Routes, Networks, deps, heap)
           /\ \A s \in Networks, r \in Routes : deps[s][r] # Nil =>
                /\ deps[s][r] \in 1 .. Len(heap)
                /\ heap[deps[s][r]] \in Int /\ heap[deps[s][r]] >= 0
<1>1. /\ heap \in Seq(Int) /\ deps \in [Networks -> [Routes -> 0 .. Len(heap)]]
      /\ sent \in [Networks -> [Routes -> Nat]]
  BY DEF Inv, TypeOK, Refs, History
<1>2. Apart(Routes, Networks, deps, heap)
  BY <1>1 DEF Inv, Own, Apart
<1>3. ASSUME NEW s \in Networks, NEW r \in Routes, deps[s][r] # Nil
      PROVE  /\ deps[s][r] \in 1 .. Len(heap)
             /\ heap[deps[s][r]] \in Int /\ heap[deps[s][r]] >= 0
  <2>1. deps[s][r] \in 1 .. Len(heap)
    BY <1>1, <1>3 DEF Nil
  <2>2. heap[deps[s][r]] \in Int
    BY <1>1, <2>1
  <2>3. heap[deps[s][r]] >= sent[s][r] /\ sent[s][r] \in Nat
    BY <1>1, <1>3 DEF Inv, NeverUnderstated
  <2> QED
    BY <2>1, <2>2, <2>3
<1> QED
  BY <1>2, <1>3

\* What collateDeposits returns and leaves behind.
LEMMA Collates ==
    ASSUME Inv, NEW order \in SetToSeqs(Networks)
    PROVE  /\ Merged(Routes, Networks, deps, heap, Networks,
                     Collation(order).refs, Collation(order).heap)
           /\ \A c \in 1 .. Len(heap) : Collation(order).heap[c] >= heap[c]
<1> DEFINE m == MergeAll(Routes, deps, order, heap)
<1>1. heap \in Seq(Int) /\ IsFiniteSet(Networks)
  BY ConstantFacts DEF Inv, TypeOK
<1>2. /\ Apart(Routes, Networks, deps, heap)
      /\ \A s \in Networks, r \in Routes : deps[s][r] # Nil => heap[deps[s][r]] >= 0
  BY DepositsApart
<1>3. Merged(Routes, Networks, deps, heap, Networks, m.refs, m.heap)
  BY <1>1, <1>2, MergeAllAdds
<1> HIDE DEF m
<1>4. \A c \in 1 .. Len(heap) : m.heap[c] >= heap[c]
  BY <1>1, <1>2, <1>3, MergedGrows
<1> QED
  BY <1>3, <1>4 DEF m, Collation

\* collateDeposits changes deposits, which only grow, and nothing else.
LEMMA CollateInv == ASSUME Inv, Collate PROVE Inv'
<1> DEFINE L == Len(heap)
<1>1. PICK order \in SetToSeqs(Networks) :
         collated' = Collation(order).refs /\ heap' = Collation(order).heap
  BY DEF Collate
<1>2. /\ collated = NotCollated
      /\ UNCHANGED <<deps, bals, result, sent, granted, debited, credited>>
  BY DEF Collate, history
<1>3. /\ Merged(Routes, Networks, deps, heap, Networks, collated', heap')
      /\ \A c \in 1 .. L : heap'[c] >= heap[c]
  BY <1>1, Collates
<1>4. /\ heap \in Seq(Int) /\ L \in Nat
      /\ deps \in [Networks -> [Routes -> 0 .. L]]
      /\ bals \in [Networks -> [Tokens -> 0 .. L]]
      /\ sent \in [Networks -> [Routes -> Nat]]
  BY SeqIsFunction DEF Inv, TypeOK, Refs, History
<1>5. heap' \in Seq(Int) /\ Len(heap') = L
  BY <1>3, <1>4, FunctionIsSeq DEF Merged
<1>6. \A n \in Networks : result[n] = "none" /\ result'[n] = "none"
  BY <1>2 DEF Inv, CollatedFirst
<1>7. \A n \in Networks, t \in Tokens : bals[n][t] # Nil =>
         bals[n][t] \in 1 .. L /\ heap'[bals[n][t]] = heap[bals[n][t]]
  <2> SUFFICES ASSUME NEW n \in Networks, NEW t \in Tokens, bals[n][t] # Nil
               PROVE  bals[n][t] \in 1 .. L /\ heap'[bals[n][t]] = heap[bals[n][t]]
    OBVIOUS
  <2>1. bals[n][t] \in 1 .. L
    BY <1>4 DEF Nil
  <2>2. \A r \in Routes : collated'[r] # bals[n][t]
    <3>1. ASSUME NEW r \in Routes, collated'[r] # Nil PROVE collated'[r] # bals[n][t]
      <4>1. PICK s \in Networks : deps[s][r] = collated'[r]
        BY <1>3, <3>1 DEF Merged
      <4> QED
        BY <3>1, <4>1 DEF Inv, Own
    <3> QED
      BY <3>1
  <2> QED
    BY <1>3, <2>1, <2>2 DEF Merged
<1>8. TypeOK'
  <2>1. collated' \in [Routes -> 0 .. L]
    BY <1>3 DEF Merged
  <2>2. ASSUME NEW c \in 1 .. L PROVE ~(heap'[c] < 0)
    <3>1. heap[c] \in Int /\ heap'[c] \in Int /\ heap'[c] >= heap[c]
      BY <1>3, <1>4, <1>5
    <3>2. heap[c] < 0 => \E n \in Networks : result[n] = "false"
      BY DEF Inv, TypeOK
    <3> QED
      BY <1>6, <3>1, <3>2
  <2>3. \A c \in 1 .. Len(heap') : ~(heap'[c] < 0)
    BY <1>5, <2>2
  <2>4. /\ deps' \in [Networks -> [Routes -> 0 .. L]]
        /\ bals' \in [Networks -> [Tokens -> 0 .. L]]
        /\ result' \in [Networks -> {"none", "true", "false", "panic"}]
    BY <1>2, <1>4 DEF Inv, TypeOK
  <2> HIDE DEF L
  <2> QED
    BY <1>5, <2>1, <2>3, <2>4 DEF TypeOK, Refs
<1>9. History'
  BY <1>2 DEF Inv, History
<1>10. Own'
  <2>1. /\ \A s, u \in Networks, r, q \in Routes :
             deps'[s][r] # Nil /\ deps'[s][r] = deps'[u][q] => s = u /\ r = q
        /\ \A n, m \in Networks, t, u \in Tokens :
             bals'[n][t] # Nil /\ bals'[n][t] = bals'[m][u] => n = m /\ t = u
        /\ \A s, n \in Networks, r \in Routes, t \in Tokens :
             deps'[s][r] # Nil => deps'[s][r] # bals'[n][t]
    BY <1>2 DEF Inv, Own
  <2>2. \A r \in Routes : collated'[r] # Nil =>
          \E s \in Networks : collated'[r] = deps'[s][r]
    BY <1>2, <1>3 DEF Merged
  <2> QED
    BY <2>1, <2>2 DEF Own
<1>11. Recorded'
  <2>1. \A s \in Networks, r \in Routes : deps'[s][r] = Nil => sent'[s][r] = 0
    BY <1>2 DEF Inv, Recorded
  <2>2. ASSUME collated' = NotCollated, NEW r \in Routes PROVE FALSE
    <3>1. DOMAIN collated' = Routes
      BY <1>3 DEF Merged
    <3>2. DOMAIN NotCollated = {}
      BY DEF NotCollated
    <3> QED
      BY <2>2, <3>1, <3>2
  <2> QED
    BY <2>1, <2>2 DEF Recorded
<1>12. NeverUnderstated'
  <2> SUFFICES ASSUME NEW s \in Networks, NEW r \in Routes, deps[s][r] # Nil
               PROVE  heap'[deps[s][r]] >= sent[s][r]
    BY <1>2 DEF NeverUnderstated
  <2>1. deps[s][r] \in 1 .. L /\ heap[deps[s][r]] \in Int
    BY DepositsApart
  <2>2. heap'[deps[s][r]] \in Int /\ heap'[deps[s][r]] >= heap[deps[s][r]]
    BY <1>3, <1>5, <2>1
  <2>3. heap[deps[s][r]] >= sent[s][r] /\ sent[s][r] \in Nat
    BY <1>4 DEF Inv, NeverUnderstated
  <2> QED
    BY <2>1, <2>2, <2>3
<1>13. Untouched'
  BY <1>2, <1>7 DEF Inv, Untouched
<1>14. CollatedFirst' /\ NoOverdraft'
  BY <1>6 DEF CollatedFirst, NoOverdraft
<1> QED
  BY <1>8, <1>9, <1>10, <1>11, <1>12, <1>13, <1>14 DEF Inv

\* The deposits of n, by target, as flattenTokens reads them.
Outgoing(n) == [d \in Networks |-> [t \in Tokens |-> deps[n][d, t]]]

\* What finalizeDepositProof reads of the network n.
LEMMA FinalizeReads ==
    ASSUME Inv, collated # NotCollated, NEW n \in Networks
    PROVE  /\ Apart(Tokens, Networks, Outgoing(n), heap)
           /\ Separate(bals[n], Creditable(n), Len(heap))
           /\ \A d \in Networks : Separate(bals[n], Outgoing(n)[d], Len(heap))
           /\ \A d \in Networks, t \in Tokens :
                Outgoing(n)[d][t] # Nil => heap[Outgoing(n)[d][t]] >= 0
           /\ \A t \in Tokens :
                Creditable(n)[t] # Nil => heap[Creditable(n)[t]] >= 0
<1> DEFINE L == Len(heap)
<1>1. /\ heap \in Seq(Int) /\ L \in Nat
      /\ deps \in [Networks -> [Routes -> 0 .. L]]
      /\ bals \in [Networks -> [Tokens -> 0 .. L]]
      /\ collated \in [Routes -> 0 .. L]
  BY SeqIsFunction DEF Inv, TypeOK, Refs
<1> HIDE DEF L
<1>2. \A d \in Networks, t \in Tokens :
         <<d, t>> \in Routes /\ Outgoing(n)[d][t] = deps[n][<<d, t>>]
  BY DEF Routes, Outgoing
<1>3. Outgoing(n) \in [Networks -> [Tokens -> 0 .. L]]
  <2>1. ASSUME NEW d \in Networks
        PROVE  [t \in Tokens |-> deps[n][<<d, t>>]] \in [Tokens -> 0 .. L]
    <3>1. \A t \in Tokens : deps[n][<<d, t>>] \in 0 .. L
      BY <1>1, <1>2
    <3> QED
      BY <3>1
  <2> QED
    BY <2>1 DEF Outgoing
<1>4. bals[n] \in [Tokens -> 0 .. L]
  BY <1>1
<1>5. \A t, u \in Tokens : bals[n][t] # Nil /\ bals[n][t] = bals[n][u] => t = u
  BY DEF Inv, Own
<1>6. \A s \in Networks, r \in Routes, t \in Tokens :
         bals[n][t] # Nil => bals[n][t] # deps[s][r]
  BY DEF Inv, Own
<1>7. \A t \in Tokens : Creditable(n)[t] # Nil =>
         /\ <<n, t>> \in Routes
         /\ Creditable(n)[t] = collated[<<n, t>>]
         /\ \E s \in Networks : Creditable(n)[t] = deps[s][<<n, t>>]
  BY DEF Creditable, Routes, Inv, Own
<1>8. Creditable(n) \in [Tokens -> 0 .. L]
  <2>1. \A t \in Tokens : <<n, t>> \in Routes /\ collated[<<n, t>>] \in 0 .. L
    BY <1>1, <1>2
  <2>2. Nil \in 0 .. L
    BY <1>1 DEF Nil
  <2> QED
    BY <2>1, <2>2 DEF Creditable
<1>9. Separate(bals[n], Creditable(n), L)
  <2>1. ASSUME NEW t \in Tokens, NEW u \in Tokens, bals[n][t] # Nil
        PROVE  bals[n][t] # Creditable(n)[u]
    <3>1. CASE Creditable(n)[u] = Nil
      BY <2>1, <3>1
    <3>2. CASE Creditable(n)[u] # Nil
      <4>1. PICK s \in Networks : Creditable(n)[u] = deps[s][<<n, u>>]
        BY <1>7, <3>2
      <4>2. bals[n][t] # deps[s][<<n, u>>]
        BY <1>2, <1>6, <2>1
      <4> QED
        BY <4>1, <4>2
    <3> QED
      BY <3>1, <3>2
  <2> QED
    BY <1>4, <1>5, <1>8, <2>1 DEF Separate
<1>10. ASSUME NEW d \in Networks PROVE Separate(bals[n], Outgoing(n)[d], L)
  <2>1. \A t, u \in Tokens : bals[n][t] # Nil => bals[n][t] # Outgoing(n)[d][u]
    <3> SUFFICES ASSUME NEW t \in Tokens, NEW u \in Tokens, bals[n][t] # Nil
                 PROVE  bals[n][t] # Outgoing(n)[d][u]
      OBVIOUS
    <3>1. bals[n][t] # deps[n][<<d, u>>]
      BY <1>2, <1>6
    <3> QED
      BY <1>2, <3>1
  <2>2. Outgoing(n)[d] \in [Tokens -> 0 .. L]
    BY <1>3
  <2> QED
    BY <1>4, <1>5, <2>1, <2>2 DEF Separate
<1>11. Apart(Tokens, Networks, Outgoing(n), heap)
  <2>1. ASSUME NEW x \in Networks, NEW y \in Networks, NEW j \in Tokens,
               NEW k \in Tokens, Outgoing(n)[x][j] # Nil,
               Outgoing(n)[x][j] = Outgoing(n)[y][k]
        PROVE  x = y /\ j = k
    <3>1. deps[n][<<x, j>>] # Nil /\ deps[n][<<x, j>>] = deps[n][<<y, k>>]
      BY <1>2, <2>1
    <3>2. <<x, j>> \in Routes /\ <<y, k>> \in Routes
      BY <1>2
    <3>3. <<x, j>> = <<y, k>>
      BY <3>1, <3>2 DEF Inv, Own
    <3> QED
      BY <3>3
  <2> QED
    BY <1>3, <2>1 DEF Apart, L
<1>12. \A d \in Networks, t \in Tokens :
          Outgoing(n)[d][t] # Nil => heap[Outgoing(n)[d][t]] >= 0
  <2>1. \A d \in Networks, t \in Tokens :
           deps[n][<<d, t>>] # Nil => heap[deps[n][<<d, t>>]] >= 0
    BY <1>2, DepositsApart
  <2> QED
    BY <1>2, <2>1
<1>13. ASSUME NEW t \in Tokens, Creditable(n)[t] # Nil
       PROVE  heap[Creditable(n)[t]] >= 0
  <2>1. PICK s \in Networks : Creditable(n)[t] = deps[s][<<n, t>>]
    BY <1>7, <1>13
  <2>2. deps[s][<<n, t>>] # Nil => heap[deps[s][<<n, t>>]] >= 0
    BY <1>2, DepositsApart
  <2> QED
    BY <1>13, <2>1, <2>2
<1> QED
  BY <1>9, <1>10, <1>11, <1>12, <1>13 DEF L

\* What a call that is not refused at once does to the heap, and what its history
\* records.
Finalization(n, refs, flat, outcome) ==
    /\ Finalized(heap, Outgoing(n), bals[n], Creditable(n),
                 refs, flat, heap', outcome)
    /\ result' = [result EXCEPT ![n] = IF outcome = "ok" THEN "true" ELSE outcome]
    /\ debited' = [debited EXCEPT ![n] = [t \in Tokens |->
                     IF refs[t] = Nil THEN 0 ELSE flat[refs[t]]]]
    /\ credited' = [credited EXCEPT ![n] = [t \in Tokens |->
                      IF Creditable(n)[t] = Nil THEN 0
                      ELSE flat[Creditable(n)[t]]]]

\* finalizeDepositProof refuses at once, or runs to an outcome.
LEMMA FinalizeSteps ==
    ASSUME Inv, NEW n \in Networks, Finalize(n)
    PROVE  /\ collated # NotCollated /\ result[n] = "none"
           /\ UNCHANGED <<deps, collated, bals, sent, granted>>
           /\ \/ /\ HasOutbound(n) /\ ~HasCredits(n)
                 /\ result' = [result EXCEPT ![n] = "false"]
                 /\ UNCHANGED <<heap, debited, credited>>
              \/ \E refs, flat, outcome : Finalization(n, refs, flat, outcome)
<1>1. /\ collated # NotCollated /\ result[n] = "none"
      /\ UNCHANGED <<deps, collated, bals, sent, granted>>
  BY DEF Finalize
<1>2. CASE /\ HasOutbound(n) /\ ~HasCredits(n)
           /\ result' = [result EXCEPT ![n] = "false"]
           /\ UNCHANGED <<heap, debited, credited>>
  BY <1>1, <1>2
<1>3. CASE ~(/\ HasOutbound(n) /\ ~HasCredits(n)
             /\ result' = [result EXCEPT ![n] = "false"]
             /\ UNCHANGED <<heap, debited, credited>>)
  <2> DEFINE Flat(targets) == MergeAll(Tokens, Outgoing(n), targets, heap)
             After(targets, outTokens) ==
               Debits(bals[n], Flat(targets).refs, outTokens,
                      [heap |-> Flat(targets).heap, outcome |-> "ok"])
             Before(targets, outTokens) ==
               IF After(targets, outTokens).outcome = "ok" /\ ~HasInbound(n)
               THEN [After(targets, outTokens) EXCEPT !.outcome = "panic"]
               ELSE After(targets, outTokens)
             End(targets, outTokens, inTokens) ==
               Credits(bals[n], Creditable(n), inTokens, Before(targets, outTokens))
  <2>1. PICK targets \in SetToSeqs(Networks), outTokens \in SetToSeqs(Tokens),
             inTokens \in SetToSeqs(Tokens) :
          /\ heap' = End(targets, outTokens, inTokens).heap
          /\ result' = [result EXCEPT ![n] =
               IF End(targets, outTokens, inTokens).outcome = "ok" THEN "true"
               ELSE End(targets, outTokens, inTokens).outcome]
          /\ debited' = [debited EXCEPT ![n] = [t \in Tokens |->
               IF Flat(targets).refs[t] = Nil THEN 0
               ELSE Flat(targets).heap[Flat(targets).refs[t]]]]
          /\ credited' = [credited EXCEPT ![n] = [t \in Tokens |->
               IF Creditable(n)[t] = Nil THEN 0
               ELSE Flat(targets).heap[Creditable(n)[t]]]]
    BY <1>3 DEF Finalize, Flattened, Outgoing
  <2>2. heap \in Seq(Int) /\ IsFiniteSet(Networks) /\ IsFiniteSet(Tokens)
        /\ HasInbound(n) \in BOOLEAN
    BY ConstantFacts DEF Inv, TypeOK, HasInbound
  <2>3. Finalized(heap, Outgoing(n), bals[n], Creditable(n),
                  Flat(targets).refs, Flat(targets).heap,
                  End(targets, outTokens, inTokens).heap,
                  End(targets, outTokens, inTokens).outcome)
    BY <1>1, <2>2, FinalizeReads, FinalizeRuns
  <2> HIDE DEF Flat, End
  <2>4. Finalization(n, Flat(targets).refs, Flat(targets).heap,
                     End(targets, outTokens, inTokens).outcome)
    BY <2>1, <2>3 DEF Finalization
  <2> QED
    BY <1>1, <2>4
<1> QED
  BY <1>2, <1>3

\* Sums over networks, with the tuples written out.
LEMMA SumsOverNetworks ==
    ASSUME NEW n \in Networks, NEW t \in Tokens
    PROVE  /\ Outbound(n, t)
                = SumFunctionOnSet([d \in Networks |-> sent[n][<<d, t>>]], Networks)
           /\ Inbound(n, t)
                = SumFunctionOnSet([s \in Networks |-> sent[s][<<n, t>>]], Networks)
<1>1. [d \in Networks |-> sent[n][d, t]] = [d \in Networks |-> sent[n][<<d, t>>]]
  <2>1. \A d \in Networks : sent[n][d, t] = sent[n][<<d, t>>]
    OBVIOUS
  <2> QED
    BY <2>1
<1>2. [s \in Networks |-> sent[s][n, t]] = [s \in Networks |-> sent[s][<<n, t>>]]
  <2>1. \A s \in Networks : sent[s][n, t] = sent[s][<<n, t>>]
    OBVIOUS
  <2> QED
    BY <2>1
<1> QED
  BY <1>1, <1>2 DEF Outbound, Inbound, SumFunction

\* A network whose proof is accepted held the credits for what was taken off,
\* and no less is taken off than was recorded.
LEMMA AcceptedCovered ==
    ASSUME Inv, NEW n \in Networks, result[n] = "none", collated # NotCollated,
           NEW refs, NEW flat, Finalization(n, refs, flat, "ok")
    PROVE  Covered(n)
<1> SUFFICES ASSUME NEW t \in Tokens PROVE Outbound(n, t) <= granted[n][t]
  BY DEF Covered
<1> DEFINE f == [d \in Networks |-> sent[n][<<d, t>>]]
           g == Holdings(Networks, Outgoing(n), heap, t)
<1>1. /\ sent \in [Networks -> [Routes -> Nat]]
      /\ granted \in [Networks -> [Tokens -> Nat]]
      /\ IsFiniteSet(Networks)
  BY ConstantFacts DEF Inv, History
<1>2. \A d \in Networks :
         <<d, t>> \in Routes /\ Outgoing(n)[d][t] = deps[n][<<d, t>>]
  BY DEF Routes, Outgoing
<1>3. ASSUME NEW d \in Networks
      PROVE  f[d] \in Int /\ g[d] \in Int /\ f[d] <= g[d]
  <2>1. f[d] = sent[n][<<d, t>>] /\ f[d] \in Nat
    BY <1>1, <1>2
  <2>2. g[d] = IF deps[n][<<d, t>>] = Nil THEN 0 ELSE heap[deps[n][<<d, t>>]]
    BY <1>2 DEF Holdings
  <2>3. CASE deps[n][<<d, t>>] = Nil
    <3>1. sent[n][<<d, t>>] = 0
      BY <1>2, <2>3 DEF Inv, Recorded
    <3> QED
      BY <2>1, <2>2, <2>3, <3>1
  <2>4. CASE deps[n][<<d, t>>] # Nil
    <3>1. heap[deps[n][<<d, t>>]] >= sent[n][<<d, t>>]
      BY <1>2, <2>4 DEF Inv, NeverUnderstated
    <3>2. heap[deps[n][<<d, t>>]] \in Int
      BY <1>2, <2>4, DepositsApart
    <3> QED
      BY <2>1, <2>2, <2>4, <3>1, <3>2
  <2> QED
    BY <2>3, <2>4
<1>4. f \in [Networks -> Int] /\ g \in [Networks -> Int]
      /\ \A d \in Networks : f[d] <= g[d]
  <2>1. DOMAIN g = Networks
    BY DEF Holdings
  <2>2. g = [d \in Networks |-> g[d]]
    BY DEF Holdings
  <2> HIDE DEF g
  <2> QED
    BY <1>3, <2>2
<1>5. Outbound(n, t) = SumFunctionOnSet(f, Networks)
  BY SumsOverNetworks
<1> HIDE DEF f, g
<1>6. /\ SumFunctionOnSet(f, Networks) <= SumFunctionOnSet(g, Networks)
      /\ SumFunctionOnSet(f, Networks) \in Int
      /\ SumFunctionOnSet(g, Networks) \in Int
  BY <1>1, <1>4, SumMonotone, SumType
<1>7. SumFunctionOnSet(g, Networks) = IF refs[t] = Nil THEN 0 ELSE flat[refs[t]]
  BY DEF g, Finalization, Finalized, Merged
<1>8. refs[t] # Nil => bals[n][t] # Nil /\ flat[refs[t]] <= heap[bals[n][t]]
  BY DEF Finalization, Finalized
<1>9. granted[n][t] = IF bals[n][t] = Nil THEN 0 ELSE heap[bals[n][t]]
  BY DEF Inv, Untouched
<1>10. granted[n][t] \in Nat
  BY <1>1
<1>11. CASE refs[t] = Nil
  BY <1>5, <1>6, <1>7, <1>10, <1>11
<1>12. CASE refs[t] # Nil
  <2>1. granted[n][t] = heap[bals[n][t]] /\ flat[refs[t]] <= heap[bals[n][t]]
    BY <1>8, <1>9, <1>12
  <2> QED
    BY <1>5, <1>6, <1>7, <1>10, <1>12, <2>1
<1> QED
  BY <1>11, <1>12

\* A finalization writes to no credits but its own, and to deposits only what the
\* flattening wrote.
LEMMA FinalizeElsewhere ==
    ASSUME Inv, NEW n \in Networks, NEW refs, NEW flat, NEW outcome,
           Finalization(n, refs, flat, outcome)
    PROVE  /\ \A m \in Networks, t \in Tokens :
                m # n /\ bals[m][t] # Nil => heap'[bals[m][t]] = heap[bals[m][t]]
           /\ \A s \in Networks, r \in Routes :
                deps[s][r] # Nil => heap'[deps[s][r]] = flat[deps[s][r]]
<1> DEFINE L == Len(heap)
<1>1. /\ Merged(Tokens, Networks, Outgoing(n), heap, Networks, refs, flat)
      /\ \A c \in 1 .. L :
            (\A t \in Tokens : bals[n][t] # c) => heap'[c] = flat[c]
  BY DEF Finalization, Finalized
<1>2. bals \in [Networks -> [Tokens -> 0 .. L]]
  BY DEF Inv, TypeOK, Refs
<1>3. ASSUME NEW m \in Networks, NEW t \in Tokens, m # n, bals[m][t] # Nil
      PROVE  heap'[bals[m][t]] = heap[bals[m][t]]
  <2>1. bals[m][t] \in 1 .. L
    BY <1>2, <1>3 DEF Nil
  <2>2. \A u \in Tokens : bals[n][u] # bals[m][t]
    BY <1>3 DEF Inv, Own
  <2>3. ASSUME NEW u \in Tokens, refs[u] # Nil PROVE refs[u] # bals[m][t]
    <3>1. PICK d \in Networks : Outgoing(n)[d][u] = refs[u]
      BY <1>1, <2>3 DEF Merged
    <3>2. <<d, u>> \in Routes /\ refs[u] = deps[n][<<d, u>>]
      BY <3>1 DEF Outgoing, Routes
    <3> QED
      BY <2>3, <3>2 DEF Inv, Own
  <2>4. \A u \in Tokens : refs[u] # bals[m][t]
    BY <1>3, <2>3
  <2>5. flat[bals[m][t]] = heap[bals[m][t]]
    BY <1>1, <2>1, <2>4 DEF Merged
  <2> QED
    BY <1>1, <2>1, <2>2, <2>5
<1>4. ASSUME NEW s \in Networks, NEW r \in Routes, deps[s][r] # Nil
      PROVE  heap'[deps[s][r]] = flat[deps[s][r]]
  <2>1. deps[s][r] \in 1 .. L
    BY DepositsApart, <1>4
  <2>2. \A u \in Tokens : bals[n][u] # deps[s][r]
    BY <1>4 DEF Inv, Own
  <2> QED
    BY <1>1, <2>1, <2>2
<1> QED
  BY <1>3, <1>4

\* finalizeDepositProof: either refuses at once, or runs.
LEMMA FinalizeInv ==
    ASSUME Inv, NEW n \in Networks, Finalize(n)
    PROVE  Inv'
<1> DEFINE L == Len(heap)
<1>1. /\ heap \in Seq(Int) /\ L \in Nat
      /\ deps \in [Networks -> [Routes -> 0 .. L]]
      /\ bals \in [Networks -> [Tokens -> 0 .. L]]
      /\ collated # NotCollated /\ collated \in [Routes -> 0 .. L]
      /\ result \in [Networks -> {"none", "true", "false", "panic"}]
      /\ sent \in [Networks -> [Routes -> Nat]]
      /\ result[n] = "none"
      /\ UNCHANGED <<deps, collated, bals, sent, granted>>
  BY SeqIsFunction, FinalizeSteps DEF Inv, TypeOK, Refs, History
<1>2. ASSUME NEW res \in {"true", "false", "panic"},
             result' = [result EXCEPT ![n] = res],
             res = "true" => Covered(n),
             heap' \in Seq(Int), Len(heap') = L,
             \A m \in Networks, t \in Tokens :
               m # n /\ bals[m][t] # Nil => heap'[bals[m][t]] = heap[bals[m][t]],
             \A s \in Networks, r \in Routes :
               deps[s][r] # Nil => heap'[deps[s][r]] >= heap[deps[s][r]],
             \A c \in 1 .. L : heap'[c] < 0 =>
               heap[c] < 0 \/ (res = "false" /\ \E t \in Tokens : bals[n][t] = c)
      PROVE  Inv'
  <2>1. /\ result'[n] = res
        /\ \A m \in Networks : m # n => result'[m] = result[m]
        /\ result' \in [Networks -> {"none", "true", "false", "panic"}]
    BY <1>1, <1>2
  <2>2. TypeOK'
    <3>1. ASSUME NEW c \in 1 .. L, heap'[c] < 0
          PROVE  \E m \in Networks, t \in Tokens :
                    bals'[m][t] = c /\ result'[m] = "false"
      <4>1. CASE heap[c] < 0
        <5>1. PICK m \in Networks, t \in Tokens :
                 bals[m][t] = c /\ result[m] = "false"
          BY <4>1 DEF Inv, TypeOK
        <5>2. m # n
          BY <1>1, <5>1
        <5> QED
          BY <1>1, <2>1, <5>1, <5>2
      <4>2. CASE res = "false" /\ \E t \in Tokens : bals[n][t] = c
        BY <1>1, <2>1, <4>2
      <4> QED
        BY <1>2, <3>1, <4>1, <4>2
    <3> HIDE DEF L
    <3> QED
      BY <1>1, <1>2, <2>1, <3>1 DEF TypeOK, Refs
  <2>3. History' /\ Own'
    BY <1>1 DEF Inv, History, Own
  <2>4. Recorded'
    BY <1>1 DEF Inv, Recorded
  <2>5. NeverUnderstated'
    <3> SUFFICES ASSUME NEW s \in Networks, NEW r \in Routes, deps[s][r] # Nil
                 PROVE  heap'[deps[s][r]] >= sent[s][r]
      BY <1>1 DEF NeverUnderstated
    <3>1. deps[s][r] \in 1 .. L /\ heap[deps[s][r]] \in Int
      BY DepositsApart
    <3>2. heap'[deps[s][r]] \in Int /\ heap'[deps[s][r]] >= heap[deps[s][r]]
      BY <1>2, <3>1
    <3>3. heap[deps[s][r]] >= sent[s][r] /\ sent[s][r] \in Nat
      BY <1>1 DEF Inv, NeverUnderstated
    <3> QED
      BY <3>1, <3>2, <3>3
  <2>6. Untouched'
    <3> SUFFICES ASSUME NEW m \in Networks, result'[m] = "none", NEW t \in Tokens
                 PROVE  granted[m][t] = IF bals[m][t] = Nil THEN 0
                                        ELSE heap'[bals[m][t]]
      BY <1>1 DEF Untouched
    <3>1. m # n /\ result[m] = "none"
      BY <1>2, <2>1
    <3> QED
      BY <1>2, <3>1 DEF Inv, Untouched
  <2>7. CollatedFirst'
    BY <1>1 DEF CollatedFirst
  <2>8. NoOverdraft'
    <3> SUFFICES ASSUME NEW m \in Networks, result'[m] = "true" PROVE Covered(m)'
      BY DEF NoOverdraft
    <3>1. Covered(m)
      <4>1. CASE m = n
        BY <1>2, <2>1, <4>1
      <4>2. CASE m # n
        BY <2>1, <4>2 DEF Inv, NoOverdraft
      <4> QED
        BY <4>1, <4>2
    <3> QED
      BY <1>1, <3>1 DEF Covered, Outbound
  <2> QED
    BY <2>2, <2>3, <2>4, <2>5, <2>6, <2>7, <2>8 DEF Inv
<1>3. CASE result' = [result EXCEPT ![n] = "false"] /\ UNCHANGED heap
  <2>1. /\ heap' \in Seq(Int) /\ Len(heap') = L
        /\ \A c : heap'[c] = heap[c]
    BY <1>1, <1>3
  <2>2. \A s \in Networks, r \in Routes :
           deps[s][r] # Nil => heap'[deps[s][r]] >= heap[deps[s][r]]
    BY <2>1, DepositsApart
  <2> HIDE DEF L
  <2> QED
    BY <1>2, <1>3, <2>1, <2>2
<1>4. ASSUME NEW refs, NEW flat, NEW outcome, Finalization(n, refs, flat, outcome)
      PROVE  Inv'
  <2> DEFINE res == IF outcome = "ok" THEN "true" ELSE outcome
  <2>1. /\ Merged(Tokens, Networks, Outgoing(n), heap, Networks, refs, flat)
        /\ \A c \in 1 .. L : flat[c] >= heap[c]
        /\ heap' \in [1 .. L -> Int]
        /\ outcome \in {"ok", "false", "panic"}
        /\ \A c \in 1 .. L :
              (\A t \in Tokens : bals[n][t] # c) => heap'[c] = flat[c]
        /\ \A c \in 1 .. L : heap'[c] < 0 =>
              heap[c] < 0 \/ (outcome = "false" /\ \E t \in Tokens : bals[n][t] = c)
    BY <1>4 DEF Finalization, Finalized
  <2>2. result' = [result EXCEPT ![n] = res] /\ res \in {"true", "false", "panic"}
    BY <1>4, <2>1 DEF Finalization
  <2>3. res = "true" => Covered(n)
    <3>1. res = "true" => outcome = "ok"
      BY <2>1
    <3> QED
      BY <1>1, <1>4, <3>1, AcceptedCovered
  <2>4. heap' \in Seq(Int) /\ Len(heap') = L
    BY <1>1, <2>1, FunctionIsSeq
  <2>5. \A m \in Networks, t \in Tokens :
           m # n /\ bals[m][t] # Nil => heap'[bals[m][t]] = heap[bals[m][t]]
    BY <1>1, <1>4, FinalizeElsewhere
  <2>6. \A s \in Networks, r \in Routes :
           deps[s][r] # Nil => heap'[deps[s][r]] >= heap[deps[s][r]]
    <3>1. ASSUME NEW s \in Networks, NEW r \in Routes, deps[s][r] # Nil
          PROVE  heap'[deps[s][r]] >= heap[deps[s][r]]
      <4>1. deps[s][r] \in 1 .. L
        BY DepositsApart, <3>1
      <4>2. heap'[deps[s][r]] = flat[deps[s][r]]
        BY <1>1, <1>4, <3>1, FinalizeElsewhere
      <4> QED
        BY <2>1, <4>1, <4>2
    <3> QED
      BY <3>1
  <2>7. outcome = "false" => res = "false"
    OBVIOUS
  <2> HIDE DEF res, L
  <2> QED
    BY <1>2, <2>1, <2>2, <2>3, <2>4, <2>5, <2>6, <2>7
<1> QED
  BY <1>3, <1>4, FinalizeSteps

\* Every step keeps the invariant.
LEMMA NextInv == ASSUME Inv, [Next]_vars PROVE Inv'
<1>1. ASSUME NEW s \in Networks, NEW d \in Networks, NEW t \in Tokens,
             NEW amount \in Amounts, AddDeposit(s, d, t, amount)
      PROVE  Inv'
  BY <1>1, AddDepositInv
<1>2. ASSUME NEW n \in Networks, NEW t \in Tokens, NEW amount \in Amounts,
             AddCredit(n, t, amount)
      PROVE  Inv'
  BY <1>2, AddCreditInv
<1>3. CASE Collate
  BY <1>3, CollateInv
<1>4. ASSUME NEW n \in Networks, Finalize(n) PROVE Inv'
  BY <1>4, FinalizeInv
<1>5. CASE UNCHANGED vars
  <2>1. UNCHANGED <<heap, deps, collated, bals, result, sent, granted>>
    BY <1>5 DEF vars, history
  <2>2. TypeOK' /\ History'
    BY <2>1 DEF Inv, TypeOK, Refs, History
  <2>3. Own' /\ Recorded'
    BY <2>1 DEF Inv, Own, Recorded
  <2>4. NeverUnderstated' /\ Untouched' /\ CollatedFirst'
    BY <2>1 DEF Inv, NeverUnderstated, Untouched, CollatedFirst
  <2>5. NoOverdraft'
    BY <2>1 DEF Inv, NoOverdraft, Covered, Outbound
  <2> QED
    BY <2>2, <2>3, <2>4, <2>5 DEF Inv
<1> QED
  BY <1>1, <1>2, <1>3, <1>4, <1>5 DEF Next

\* The inductive invariant holds in every state.
THEOREM Invariance == Spec => []Inv
<1>1. Init => Inv
  BY InitInv
<1>2. Inv /\ [Next]_vars => Inv'
  BY NextInv
<1> QED
  BY <1>1, <1>2, PTL DEF Spec

\* Every reference is one to an integer that exists, and only the credits of a
\* network that was refused are left negative.
THEOREM Typing == Spec => []TypeOK
<1>1. Inv => TypeOK
  BY DEF Inv
<1> QED
  BY <1>1, Invariance, PTL

\* However the tables are merged, no two deposits, and no deposit and credit,
\* come to share an integer.
THEOREM OwnershipKept == Spec => []Ownership
<1>1. Inv => Ownership
  BY OwnOwnership DEF Inv
<1> QED
  BY <1>1, Invariance, PTL

\* No merge makes a deposit smaller than what addDeposit recorded.
THEOREM DepositsNeverUnderstated == Spec => []NeverUnderstated
<1>1. Inv => NeverUnderstated
  BY DEF Inv
<1> QED
  BY <1>1, Invariance, PTL

\* finalizeDepositProof accepts no network that sent more than its credits,
\* although the sharing may make it see larger amounts than were recorded.
THEOREM NoOverdraftAccepted == Spec => []NoOverdraft
<1>1. Inv => NoOverdraft
  BY DEF Inv
<1> QED
  BY <1>1, Invariance, PTL

\* collateDeposits sums exactly what was sent, since until then every integer
\* still holds what was recorded.
LEMMA CollateSums ==
    ASSUME Inv, Collate, NEW d \in Networks, NEW t \in Tokens
    PROVE  Inbound(d, t) = IF collated'[<<d, t>>] = Nil THEN 0
                           ELSE heap'[collated'[<<d, t>>]]
<1> DEFINE r == <<d, t>>
<1>1. PICK order \in SetToSeqs(Networks) :
         collated' = Collation(order).refs /\ heap' = Collation(order).heap
  BY DEF Collate
<1>2. collated = NotCollated /\ r \in Routes
  BY DEF Collate, Routes
<1>3. Merged(Routes, Networks, deps, heap, Networks, collated', heap')
  BY <1>1, Collates
<1>4. Holdings(Networks, deps, heap, r) = [s \in Networks |-> sent[s][r]]
  <2>1. \A s \in Networks :
           (IF deps[s][r] = Nil THEN 0 ELSE heap[deps[s][r]]) = sent[s][r]
    BY <1>2 DEF Inv, Recorded
  <2> HIDE DEF r
  <2> QED
    BY <2>1 DEF Holdings
<1>5. Inbound(d, t) = SumFunctionOnSet([s \in Networks |-> sent[s][r]], Networks)
  BY SumsOverNetworks
<1>6. SumFunctionOnSet(Holdings(Networks, deps, heap, r), Networks)
        = IF collated'[r] = Nil THEN 0 ELSE heap'[collated'[r]]
  BY <1>2, <1>3 DEF Merged
<1> QED
  BY <1>4, <1>5, <1>6

\* In whatever order the sources are merged, a network is told of exactly what
\* was sent to it.
THEOREM CollatesExactly == Spec => CollateExact
<1>1. ASSUME Inv, [Next]_vars
      PROVE  [Collate => \A d \in Networks, t \in Tokens :
                Inbound(d, t) = IF collated'[d, t] = Nil THEN 0
                                ELSE heap'[collated'[d, t]]]_vars
  <2> SUFFICES ASSUME Collate, NEW d \in Networks, NEW t \in Tokens
               PROVE  Inbound(d, t) = IF collated'[d, t] = Nil THEN 0
                                      ELSE heap'[collated'[d, t]]
    OBVIOUS
  <2>1. Inbound(d, t) = IF collated'[<<d, t>>] = Nil THEN 0
                        ELSE heap'[collated'[<<d, t>>]]
    BY <1>1, CollateSums
  <2> QED
    BY <2>1
<1> QED
  BY <1>1, Invariance, PTL DEF Spec, CollateExact

----------------------------------------------------------------------------
(* Two networks: no two deposits have the same source or the same target.   *)

\* Sums of zeros.
LEMMA SumZero ==
    ASSUME NEW D, NEW f \in [D -> Int]
    PROVE  \A s \in SUBSET D : IsFiniteSet(s) =>
              ((\A x \in s : f[x] = 0) => SumFunctionOnSet(f, s) = 0)
<1> DEFINE Z == {s \in SUBSET D :
                  (\A x \in s : f[x] = 0) => SumFunctionOnSet(f, s) = 0}
<1>1. {} \in Z
  BY SumEmpty
<1>2. ASSUME NEW s \in SUBSET D, IsFiniteSet(s), s # {}, \A x \in s : s \ {x} \in Z
      PROVE  s \in Z
  <2> SUFFICES ASSUME \A x \in s : f[x] = 0 PROVE SumFunctionOnSet(f, s) = 0
    OBVIOUS
  <2>1. Pick(s) \in s
    BY <1>2 DEF Pick
  <2>2. SumFunctionOnSet(f, s) = f[Pick(s)] + SumFunctionOnSet(f, s \ {Pick(s)})
    BY <1>2, SumPicks
  <2>3. SumFunctionOnSet(f, s \ {Pick(s)}) = 0 /\ f[Pick(s)] = 0
    BY <1>2, <2>1
  <2> QED
    BY <2>2, <2>3
<1> HIDE DEF Z
<1>3. \A s \in SUBSET D : IsFiniteSet(s) => s \in Z
  BY <1>1, <1>2, FiniteInduct
<1> QED
  BY <1>3 DEF Z

\* A sum with one summand.
LEMMA SumOne ==
    ASSUME NEW D, IsFiniteSet(D), NEW f \in [D -> Int], NEW x \in D,
           \A y \in D : y # x => f[y] = 0
    PROVE  SumFunctionOnSet(f, D) = f[x]
<1>1. SumFunctionOnSet(f, D) = f[x] + SumFunctionOnSet(f, D \ {x})
  BY SumRemoves
<1>2. IsFiniteSet(D \ {x}) /\ D \ {x} \in SUBSET D
  BY FS_Subset
<1>3. \A y \in D \ {x} : f[y] = 0
  OBVIOUS
<1>4. SumFunctionOnSet(f, D \ {x}) = 0
  BY <1>2, <1>3, SumZero
<1>5. f[x] \in Int
  OBVIOUS
<1> QED
  BY <1>1, <1>4, <1>5

\* No key has entries in two tables.
Alone(keys, S, tables) ==
    \A x, y \in S, k \in keys : tables[x][k] # Nil /\ tables[y][k] # Nil => x = y

\* Where no key has two entries, merging takes over references and writes
\* nothing.
LEMMA MergedAlone ==
    ASSUME NEW keys, NEW S, IsFiniteSet(S), NEW tables, NEW amounts \in Seq(Int),
           Apart(keys, S, tables, amounts),
           Alone(keys, S, tables),
           NEW refs, NEW cells, Merged(keys, S, tables, amounts, S, refs, cells)
    PROVE  \A c \in 1 .. Len(amounts) : cells[c] = amounts[c]
<1> SUFFICES ASSUME NEW c \in 1 .. Len(amounts) PROVE cells[c] = amounts[c]
  OBVIOUS
<1>1. CASE \A k \in keys : refs[k] # c
  BY <1>1 DEF Merged
<1>2. ASSUME NEW k \in keys, refs[k] = c PROVE cells[c] = amounts[c]
  <2> DEFINE f == Holdings(S, tables, amounts, k)
  <2>1. c # Nil
    BY DEF Nil
  <2>2. PICK x \in S : tables[x][k] = c
    BY <1>2, <2>1 DEF Merged
  <2>3. /\ \A y \in S : f[y] = IF tables[y][k] = Nil THEN 0 ELSE amounts[tables[y][k]]
        /\ f = [y \in S |-> f[y]]
    BY DEF Holdings
  <2>4. \A y \in S : tables[y][k] \in 0 .. Len(amounts)
    BY DEF Apart
  <2>5. ASSUME NEW y \in S PROVE f[y] \in Int
    <3>1. CASE tables[y][k] = Nil
      BY <2>3, <3>1
    <3>2. CASE tables[y][k] # Nil
      <4>1. tables[y][k] \in 1 .. Len(amounts)
        BY <2>4, <3>2 DEF Nil
      <4>2. amounts[tables[y][k]] \in Int
        BY <4>1
      <4> QED
        BY <2>3, <3>2, <4>2
    <3> QED
      BY <3>1, <3>2
  <2>6. f[x] = amounts[c]
    BY <2>1, <2>2, <2>3
  <2>7. ASSUME NEW y \in S, y # x PROVE f[y] = 0
    <3>1. tables[y][k] = Nil
      BY <2>1, <2>2, <2>7 DEF Alone
    <3> QED
      BY <2>3, <3>1
  <2>8. SumFunctionOnSet(f, S) = cells[c]
    BY <1>2, <2>1 DEF Merged
  <2> HIDE DEF f
  <2>9. f \in [S -> Int]
    BY <2>3, <2>5
  <2>10. SumFunctionOnSet(f, S) = f[x]
    BY <2>7, <2>9, SumOne
  <2> QED
    BY <2>6, <2>8, <2>10
<1> QED
  BY <1>1, <1>2

\* At most two networks.
TwoNetworks == \A a, b, c \in Networks : a = b \/ b = c \/ a = c

\* No network sends to itself.
Facing == \A s \in Networks, t \in Tokens : deps[s][<<s, t>>] = Nil

\* Every deposit is still what was recorded.
Plain ==
    \A s \in Networks, r \in Routes : deps[s][r] # Nil =>
        heap[deps[s][r]] = sent[s][r] /\ sent[s][r] > 0

\* The collated table holds the deposits themselves.
TakenOver ==
    collated # NotCollated =>
        \A s \in Networks, r \in Routes : deps[s][r] # Nil => collated[r] = deps[s][r]

Totals ==
    /\ debited \in [Networks -> [Tokens -> Int]]
    /\ credited \in [Networks -> [Tokens -> Int]]

PairInv ==
    /\ Inv /\ Facing /\ Plain /\ TakenOver /\ Totals /\ DebitExact /\ CreditExact

\* A deposit's route tells its source, and its source and token its target.
LEMMA OneSource ==
    ASSUME TwoNetworks, Facing
    PROVE  /\ \A s, u \in Networks, r \in Routes :
                deps[s][r] # Nil /\ deps[u][r] # Nil => s = u
           /\ \A n, d, e \in Networks, t \in Tokens :
                deps[n][<<d, t>>] # Nil /\ deps[n][<<e, t>>] # Nil => d = e
<1>1. ASSUME NEW s \in Networks, NEW u \in Networks, NEW r \in Routes,
             deps[s][r] # Nil, deps[u][r] # Nil
      PROVE  s = u
  <2>1. PICK d \in Networks, t \in Tokens : r = <<d, t>>
    BY DEF Routes
  <2>2. s # d /\ u # d
    BY <1>1, <2>1 DEF Facing
  <2> QED
    BY <2>2 DEF TwoNetworks
<1>2. ASSUME NEW n \in Networks, NEW d \in Networks, NEW e \in Networks,
             NEW t \in Tokens, deps[n][<<d, t>>] # Nil, deps[n][<<e, t>>] # Nil
      PROVE  d = e
  <2>1. n # d /\ n # e
    BY <1>2 DEF Facing
  <2> QED
    BY <2>1 DEF TwoNetworks
<1> QED
  BY <1>1, <1>2

\* What is flattened for n: the deposits of n, unchanged, which are what it sent.
LEMMA OutboundIs ==
    ASSUME TwoNetworks, Inv, Facing, Plain, collated # NotCollated,
           NEW n \in Networks, NEW refs, NEW flat,
           Merged(Tokens, Networks, Outgoing(n), heap, Networks, refs, flat)
    PROVE  /\ \A c \in 1 .. Len(heap) : flat[c] = heap[c]
           /\ \A t \in Tokens :
                Outbound(n, t) = IF refs[t] = Nil THEN 0 ELSE flat[refs[t]]
<1>1. /\ Apart(Tokens, Networks, Outgoing(n), heap)
      /\ heap \in Seq(Int) /\ IsFiniteSet(Networks)
  BY FinalizeReads, ConstantFacts DEF Inv, TypeOK
<1>2. \A d \in Networks, t \in Tokens :
         <<d, t>> \in Routes /\ Outgoing(n)[d][t] = deps[n][<<d, t>>]
  BY DEF Routes, Outgoing
<1>3. ASSUME NEW t \in Tokens, NEW d \in Networks, NEW e \in Networks,
             Outgoing(n)[d][t] # Nil, Outgoing(n)[e][t] # Nil
      PROVE  d = e
  <2>1. deps[n][<<d, t>>] # Nil /\ deps[n][<<e, t>>] # Nil
    BY <1>2, <1>3
  <2> QED
    BY <2>1, OneSource
<1>4. \A c \in 1 .. Len(heap) : flat[c] = heap[c]
  <2>1. \A t \in Tokens, d, e \in Networks :
           Outgoing(n)[d][t] # Nil /\ Outgoing(n)[e][t] # Nil => d = e
    BY <1>3
  <2>2. Alone(Tokens, Networks, Outgoing(n))
    BY <2>1 DEF Alone
  <2> QED
    BY <1>1, <2>2, MergedAlone
<1>5. ASSUME NEW t \in Tokens
      PROVE  Outbound(n, t) = IF refs[t] = Nil THEN 0 ELSE flat[refs[t]]
  <2>1. \A d \in Networks :
           (IF Outgoing(n)[d][t] = Nil THEN 0 ELSE heap[Outgoing(n)[d][t]])
             = sent[n][<<d, t>>]
    <3> SUFFICES ASSUME NEW d \in Networks
                 PROVE  (IF deps[n][<<d, t>>] = Nil THEN 0
                         ELSE heap[deps[n][<<d, t>>]]) = sent[n][<<d, t>>]
      BY <1>2
    <3>1. deps[n][<<d, t>>] = Nil => sent[n][<<d, t>>] = 0
      BY <1>2 DEF Inv, Recorded
    <3>2. deps[n][<<d, t>>] # Nil => heap[deps[n][<<d, t>>]] = sent[n][<<d, t>>]
      BY <1>2 DEF Plain
    <3> QED
      BY <3>1, <3>2
  <2>2. Holdings(Networks, Outgoing(n), heap, t)
          = [d \in Networks |-> sent[n][<<d, t>>]]
    BY <2>1 DEF Holdings
  <2>3. Outbound(n, t)
          = SumFunctionOnSet([d \in Networks |-> sent[n][<<d, t>>]], Networks)
    BY SumsOverNetworks
  <2>4. SumFunctionOnSet(Holdings(Networks, Outgoing(n), heap, t), Networks)
          = IF refs[t] = Nil THEN 0 ELSE flat[refs[t]]
    BY DEF Merged
  <2> QED
    BY <2>2, <2>3, <2>4
<1> QED
  BY <1>4, <1>5

\* What is collated for a route: the one deposit there is, which is what was sent.
LEMMA InboundIs ==
    ASSUME TwoNetworks, Inv, Facing, Plain, TakenOver, collated # NotCollated,
           NEW n \in Networks, NEW t \in Tokens
    PROVE  Inbound(n, t) = IF collated[<<n, t>>] = Nil THEN 0
                           ELSE heap[collated[<<n, t>>]]
<1> DEFINE r == <<n, t>>
           f == [s \in Networks |-> sent[s][r]]
<1>1. /\ r \in Routes /\ IsFiniteSet(Networks)
      /\ sent \in [Networks -> [Routes -> Nat]]
  BY ConstantFacts DEF Routes, Inv, History
<1>2. \A s \in Networks : deps[s][r] = Nil => f[s] = 0
  BY <1>1 DEF Inv, Recorded
<1>3. f \in [Networks -> Int] /\ \A s \in Networks : f[s] = sent[s][r]
  BY <1>1
<1>4. Inbound(n, t) = SumFunctionOnSet(f, Networks)
  BY SumsOverNetworks
<1> HIDE DEF r, f
<1>5. CASE collated[r] = Nil
  <2>1. \A s \in Networks : deps[s][r] = Nil
    BY <1>1, <1>5 DEF TakenOver
  <2>2. \A s \in Networks : f[s] = 0
    BY <1>2, <2>1
  <2>3. SumFunctionOnSet(f, Networks) = 0
    BY <1>1, <1>3, <2>2, SumZero
  <2> QED
    BY <1>4, <1>5, <2>3 DEF r
<1>6. CASE collated[r] # Nil
  <2>1. PICK s \in Networks : collated[r] = deps[s][r]
    BY <1>1, <1>6 DEF Inv, Own
  <2>2. \A u \in Networks : u # s => deps[u][r] = Nil
    BY <1>1, <1>6, <2>1, OneSource
  <2>3. \A u \in Networks : u # s => f[u] = 0
    BY <1>2, <2>2
  <2>4. SumFunctionOnSet(f, Networks) = f[s]
    BY <1>1, <1>3, <2>3, SumOne
  <2>5. heap[deps[s][r]] = sent[s][r]
    BY <1>1, <1>6, <2>1 DEF Plain
  <2> QED
    BY <1>3, <1>4, <1>6, <2>1, <2>4, <2>5 DEF r
<1> QED
  BY <1>5, <1>6

\* What the totals say only changes for a network that is finalized.
LEMMA TotalsKept ==
    ASSUME DebitExact, CreditExact,
           UNCHANGED <<sent, debited, credited>>,
           \A m \in Networks : result'[m] = "true" => result[m] = "true"
    PROVE  DebitExact' /\ CreditExact'
<1>1. \A m \in Networks, t \in Tokens :
         Outbound(m, t)' = Outbound(m, t) /\ Inbound(m, t)' = Inbound(m, t)
  BY DEF Outbound, Inbound
<1>2. DebitExact'
  BY <1>1 DEF DebitExact
<1>3. CreditExact'
  BY <1>1 DEF CreditExact
<1> QED
  BY <1>2, <1>3

\* Nothing has been recorded.
LEMMA InitPairInv == Init => PairInv
<1> SUFFICES ASSUME Init PROVE PairInv
  OBVIOUS
<1>1. Inv
  BY InitInv
<1>2. \A s \in Networks, r \in Routes : deps[s][r] = Nil
  BY DEF Init, NoRefs
<1>3. \A s \in Networks, t \in Tokens : <<s, t>> \in Routes
  BY DEF Routes
<1>4. \A n \in Networks : result[n] = "none"
  BY DEF Init
<1>5. Facing /\ Plain /\ TakenOver
  BY <1>2, <1>3 DEF Init, Facing, Plain, TakenOver
<1>6. Totals
  BY DEF Init, Totals, NoAmounts
<1>7. DebitExact /\ CreditExact
  BY <1>4 DEF DebitExact, CreditExact
<1> QED
  BY <1>1, <1>5, <1>6, <1>7 DEF PairInv

\* Before the collation a deposit is what was recorded, whatever else holds.
LEMMA PlainBefore ==
    ASSUME Inv, collated = NotCollated,
           \A s \in Networks, r \in Routes : deps[s][r] # Nil => sent[s][r] > 0
    PROVE  Plain /\ TakenOver
  BY DEF Plain, TakenOver, Inv, Recorded

\* A deposit of one network for the other.
LEMMA AddDepositPair ==
    ASSUME PairInv, NEW s \in Networks, NEW d \in Networks, NEW t \in Tokens,
           NEW amount \in Amounts, s # d, AddDeposit(s, d, t, amount)
    PROVE  PairInv'
<1> DEFINE r0 == <<d, t>>
<1>1. Inv'
  BY AddDepositInv DEF PairInv
<1>2. /\ deps \in [Networks -> [Routes -> Refs]]
      /\ sent \in [Networks -> [Routes -> Nat]]
      /\ amount \in Nat /\ amount > 0 /\ r0 \in Routes
  <2>1. amount \in Nat /\ amount > 0
    BY ConstantFacts
  <2>2. r0 \in Routes
    BY DEF Routes
  <2> HIDE DEF r0
  <2> QED
    BY <2>1, <2>2 DEF PairInv, Inv, TypeOK, History
<1> HIDE DEF r0
<1>3. /\ deps' = [deps EXCEPT ![s][r0] = Len(heap')]
      /\ sent' = [sent EXCEPT ![s][r0] = @ + amount]
      /\ collated = NotCollated
      /\ UNCHANGED <<collated, result, debited, credited>>
  BY DEF AddDeposit, r0
<1>4. /\ \A u \in Networks, r \in Routes : u # s \/ r # r0 =>
            deps'[u][r] = deps[u][r] /\ sent'[u][r] = sent[u][r]
      /\ sent'[s][r0] = sent[s][r0] + amount
  BY <1>2, <1>3
<1>5. Facing'
  <2>1. ASSUME NEW u \in Networks, NEW v \in Tokens PROVE deps'[u][<<u, v>>] = Nil
    <3>1. <<u, v>> \in Routes
      BY DEF Routes
    <3>2. u # s \/ <<u, v>> # r0
      BY DEF r0
    <3>3. deps[u][<<u, v>>] = Nil
      BY DEF PairInv, Facing
    <3> QED
      BY <1>4, <3>1, <3>2, <3>3
  <2> QED
    BY <2>1 DEF Facing
<1>6. ASSUME NEW u \in Networks, NEW r \in Routes, deps'[u][r] # Nil
      PROVE  /\ heap'[deps'[u][r]] = sent'[u][r]
             /\ sent'[u][r] > 0
  <2>1. heap'[deps'[u][r]] = sent'[u][r]
    BY <1>1, <1>3, <1>6 DEF Inv, Recorded
  <2>2. CASE u = s /\ r = r0
    <3>1. sent[s][r0] \in Nat
      BY <1>2
    <3> QED
      BY <1>2, <1>4, <2>1, <2>2, <3>1
  <2>3. CASE u # s \/ r # r0
    <3>1. deps[u][r] # Nil /\ sent'[u][r] = sent[u][r]
      BY <1>4, <1>6, <2>3
    <3>2. sent[u][r] > 0
      BY <3>1 DEF PairInv, Plain
    <3> QED
      BY <2>1, <3>1, <3>2
  <2> QED
    BY <2>2, <2>3
<1>7. Plain' /\ TakenOver'
  BY <1>3, <1>6 DEF Plain, TakenOver
<1>8. Totals'
  BY <1>3 DEF PairInv, Totals
<1>9. \A n \in Networks : result'[n] = "none"
  BY <1>3 DEF PairInv, Inv, CollatedFirst
<1>10. DebitExact' /\ CreditExact'
  BY <1>9 DEF DebitExact, CreditExact
<1> QED
  BY <1>1, <1>5, <1>7, <1>8, <1>10 DEF PairInv

\* A credit touches no deposit.
LEMMA AddCreditPair ==
    ASSUME PairInv, NEW n \in Networks, NEW t \in Tokens,
           NEW amount \in Amounts, AddCredit(n, t, amount)
    PROVE  PairInv'
<1>1. Inv'
  BY AddCreditInv DEF PairInv
<1>2. /\ collated = NotCollated
      /\ UNCHANGED <<deps, collated, result, sent, debited, credited>>
  BY DEF AddCredit
<1>3. Facing' /\ Totals'
  BY <1>2 DEF PairInv, Facing, Totals
<1>4. Plain' /\ TakenOver'
  <2>1. ASSUME NEW u \in Networks, NEW r \in Routes, deps'[u][r] # Nil
        PROVE  heap'[deps'[u][r]] = sent'[u][r] /\ sent'[u][r] > 0
    <3>1. heap'[deps'[u][r]] = sent'[u][r]
      BY <1>1, <1>2, <2>1 DEF Inv, Recorded
    <3>2. sent[u][r] > 0
      BY <1>2, <2>1 DEF PairInv, Plain
    <3> QED
      BY <1>2, <3>1, <3>2
  <2> QED
    BY <1>2, <2>1 DEF Plain, TakenOver
<1>5. DebitExact' /\ CreditExact'
  BY <1>2, TotalsKept DEF PairInv
<1> QED
  BY <1>1, <1>3, <1>4, <1>5 DEF PairInv

\* With one source for each route, collateDeposits writes no integer.
LEMMA CollatePair == ASSUME TwoNetworks, PairInv, Collate PROVE PairInv'
<1>1. PICK order \in SetToSeqs(Networks) :
         collated' = Collation(order).refs /\ heap' = Collation(order).heap
  BY DEF Collate
<1>2. UNCHANGED <<deps, bals, result, sent, granted, debited, credited>>
  BY DEF Collate, history
<1>3. Inv /\ Inv'
  BY CollateInv DEF PairInv
<1>4. Merged(Routes, Networks, deps, heap, Networks, collated', heap')
  BY <1>1, <1>3, Collates
<1>5. Alone(Routes, Networks, deps)
  BY OneSource DEF Alone, PairInv
<1>6. /\ heap \in Seq(Int) /\ IsFiniteSet(Networks)
      /\ Apart(Routes, Networks, deps, heap)
  BY <1>3, DepositsApart, ConstantFacts DEF Inv, TypeOK
<1>7. \A c \in 1 .. Len(heap) : heap'[c] = heap[c]
  <2> DEFINE refs == Collation(order).refs
             cells == Collation(order).heap
  <2>1. Merged(Routes, Networks, deps, heap, Networks, refs, cells)
    BY <1>3, Collates
  <2> HIDE DEF refs, cells
  <2>2. IsFiniteSet(Networks) /\ Apart(Routes, Networks, deps, heap)
    BY <1>6
  <2>3. heap \in Seq(Int)
    BY <1>6
  <2>4. \A c \in 1 .. Len(heap) : cells[c] = heap[c]
    BY <1>5, <2>1, <2>2, <2>3, MergedAlone
  <2> QED
    BY <1>1, <2>4 DEF cells
<1>8. Facing' /\ Totals'
  BY <1>2 DEF PairInv, Facing, Totals
<1>9. Plain'
  <2>1. ASSUME NEW s \in Networks, NEW r \in Routes, deps[s][r] # Nil
        PROVE  heap'[deps[s][r]] = sent[s][r] /\ sent[s][r] > 0
    <3>1. deps[s][r] \in 1 .. Len(heap)
      BY <1>3, <2>1, DepositsApart
    <3>2. heap[deps[s][r]] = sent[s][r] /\ sent[s][r] > 0
      BY <2>1 DEF PairInv, Plain
    <3> QED
      BY <1>7, <3>1, <3>2
  <2> QED
    BY <1>2, <2>1 DEF Plain
<1>10. TakenOver'
  <2>1. ASSUME NEW s \in Networks, NEW r \in Routes, deps[s][r] # Nil
        PROVE  collated'[r] = deps[s][r]
    <3>1. collated'[r] # Nil
      BY <1>4, <2>1 DEF Merged
    <3>2. PICK u \in Networks : deps[u][r] = collated'[r]
      BY <1>4, <3>1 DEF Merged
    <3>3. u = s
      BY <1>5, <2>1, <3>1, <3>2 DEF Alone
    <3> QED
      BY <3>2, <3>3
  <2> QED
    BY <1>2, <2>1 DEF TakenOver
<1>11. DebitExact' /\ CreditExact'
  BY <1>2, TotalsKept DEF PairInv
<1> QED
  BY <1>3, <1>8, <1>9, <1>10, <1>11 DEF PairInv

\* What a call that is accepted takes off and adds.
LEMMA FinalizeTotals ==
    ASSUME TwoNetworks, PairInv, collated # NotCollated, NEW n \in Networks,
           NEW refs, NEW flat, NEW outcome, Finalization(n, refs, flat, outcome)
    PROVE  /\ \A c \in 1 .. Len(heap) : flat[c] = heap[c]
           /\ \A t \in Tokens :
                /\ Outbound(n, t) = IF refs[t] = Nil THEN 0 ELSE flat[refs[t]]
                /\ Origin[t] # n =>
                     Inbound(n, t) = IF Creditable(n)[t] = Nil THEN 0
                                     ELSE flat[Creditable(n)[t]]
                /\ Origin[t] = n => Creditable(n)[t] = Nil
           /\ \A s \in Networks, r \in Routes :
                deps[s][r] # Nil => heap'[deps[s][r]] = heap[deps[s][r]]
<1>1. Inv /\ Facing /\ Plain /\ TakenOver
  BY DEF PairInv
<1>2. Merged(Tokens, Networks, Outgoing(n), heap, Networks, refs, flat)
  BY DEF Finalization, Finalized
<1>3. /\ \A c \in 1 .. Len(heap) : flat[c] = heap[c]
      /\ \A t \in Tokens :
           Outbound(n, t) = IF refs[t] = Nil THEN 0 ELSE flat[refs[t]]
  BY <1>1, <1>2, OutboundIs
<1>4. ASSUME NEW t \in Tokens
      PROVE  /\ Origin[t] # n =>
                  Inbound(n, t) = IF Creditable(n)[t] = Nil THEN 0
                                  ELSE flat[Creditable(n)[t]]
             /\ Origin[t] = n => Creditable(n)[t] = Nil
  <2>1. Origin[t] = n => Creditable(n)[t] = Nil
    BY DEF Creditable
  <2>2. Origin[t] # n => Creditable(n)[t] = collated[<<n, t>>]
    BY DEF Creditable
  <2>3. Inbound(n, t) = IF collated[<<n, t>>] = Nil THEN 0
                        ELSE heap[collated[<<n, t>>]]
    BY <1>1, InboundIs
  <2>4. collated[<<n, t>>] \in 0 .. Len(heap)
    <3>1. <<n, t>> \in Routes
      BY DEF Routes
    <3> QED
      BY <1>1, <3>1 DEF Inv, TypeOK, Refs
  <2>5. collated[<<n, t>>] # Nil => collated[<<n, t>>] \in 1 .. Len(heap)
    BY <2>4 DEF Nil
  <2>6. collated[<<n, t>>] # Nil =>
          flat[collated[<<n, t>>]] = heap[collated[<<n, t>>]]
    BY <1>3, <2>5
  <2> QED
    BY <2>1, <2>2, <2>3, <2>6
<1>5. ASSUME NEW s \in Networks, NEW r \in Routes, deps[s][r] # Nil
      PROVE  heap'[deps[s][r]] = heap[deps[s][r]]
  <2>1. heap'[deps[s][r]] = flat[deps[s][r]]
    BY <1>1, <1>5, FinalizeElsewhere
  <2>2. deps[s][r] \in 1 .. Len(heap)
    BY <1>1, <1>5, DepositsApart
  <2> QED
    BY <1>3, <2>1, <2>2
<1> QED
  BY <1>3, <1>4, <1>5

\* A finalization takes off and adds what was sent, and writes to no deposit.
LEMMA FinalizePair ==
    ASSUME TwoNetworks, PairInv, NEW n \in Networks, Finalize(n)
    PROVE  PairInv'
<1>1. Inv /\ Inv'
  BY FinalizeInv DEF PairInv
<1>2. /\ collated # NotCollated /\ result[n] = "none"
      /\ UNCHANGED <<deps, collated, bals, sent, granted>>
      /\ result \in [Networks -> {"none", "true", "false", "panic"}]
  BY <1>1, FinalizeSteps DEF Inv, TypeOK
<1>3. Facing' /\ TakenOver'
  BY <1>2 DEF PairInv, Facing, TakenOver
<1>4. CASE /\ result' = [result EXCEPT ![n] = "false"]
           /\ UNCHANGED <<heap, debited, credited>>
  <2>1. Plain' /\ Totals'
    BY <1>2, <1>4 DEF PairInv, Plain, Totals
  <2>2. \A m \in Networks : result'[m] = "true" => result[m] = "true"
    BY <1>2, <1>4
  <2>3. DebitExact' /\ CreditExact'
    BY <1>2, <1>4, <2>2, TotalsKept DEF PairInv
  <2> QED
    BY <1>1, <1>3, <2>1, <2>3 DEF PairInv
<1>5. ASSUME NEW refs, NEW flat, NEW outcome, Finalization(n, refs, flat, outcome)
      PROVE  PairInv'
  <2> DEFINE taken == [t \in Tokens |-> IF refs[t] = Nil THEN 0 ELSE flat[refs[t]]]
             added == [t \in Tokens |-> IF Creditable(n)[t] = Nil THEN 0
                                        ELSE flat[Creditable(n)[t]]]
  <2>1. /\ debited' = [debited EXCEPT ![n] = taken]
        /\ credited' = [credited EXCEPT ![n] = added]
        /\ \A m \in Networks : m # n => result'[m] = result[m]
    BY <1>2, <1>5 DEF Finalization
  <2>2. /\ \A t \in Tokens : Outbound(n, t) = taken[t]
        /\ \A t \in Tokens : Origin[t] # n => Inbound(n, t) = added[t]
        /\ \A s \in Networks, r \in Routes :
              deps[s][r] # Nil => heap'[deps[s][r]] = heap[deps[s][r]]
    BY <1>2, <1>5, FinalizeTotals
  <2>3. taken \in [Tokens -> Int] /\ added \in [Tokens -> Int]
    <3>1. /\ refs \in [Tokens -> 0 .. Len(heap)]
          /\ flat \in [1 .. Len(heap) -> Int]
      BY <1>5 DEF Finalization, Finalized, Merged
    <3>2. Creditable(n) \in [Tokens -> 0 .. Len(heap)]
      BY <1>1, <1>2, FinalizeReads DEF Separate
    <3>3. \A c \in 0 .. Len(heap) : c # Nil => flat[c] \in Int
      BY <3>1 DEF Nil
    <3>4. \A t \in Tokens : refs[t] # Nil => flat[refs[t]] \in Int
      BY <3>1, <3>3
    <3>5. \A t \in Tokens : Creditable(n)[t] # Nil => flat[Creditable(n)[t]] \in Int
      BY <3>2, <3>3
    <3> QED
      BY <3>4, <3>5
  <2> HIDE DEF taken, added
  <2>4. debited \in [Networks -> [Tokens -> Int]]
        /\ credited \in [Networks -> [Tokens -> Int]]
    BY DEF PairInv, Totals
  <2>5. Totals'
    BY <2>1, <2>3, <2>4 DEF Totals
  <2>6. Plain'
    BY <1>2, <2>2 DEF PairInv, Plain
  <2>7. /\ debited'[n] = taken /\ credited'[n] = added
        /\ \A m \in Networks : m # n =>
              debited'[m] = debited[m] /\ credited'[m] = credited[m]
    BY <2>1, <2>4
  <2>8. \A m \in Networks, t \in Tokens :
           Outbound(m, t)' = Outbound(m, t) /\ Inbound(m, t)' = Inbound(m, t)
    BY <1>2 DEF Outbound, Inbound
  <2>9. DebitExact'
    <3> SUFFICES ASSUME NEW m \in Networks, result'[m] = "true", NEW t \in Tokens
                 PROVE  debited'[m][t] = Outbound(m, t)
      BY <2>8 DEF DebitExact
    <3>1. CASE m = n
      BY <2>2, <2>7, <3>1
    <3>2. CASE m # n
      BY <2>1, <2>7, <3>2 DEF PairInv, DebitExact
    <3> QED
      BY <3>1, <3>2
  <2>10. CreditExact'
    <3> SUFFICES ASSUME NEW m \in Networks, result'[m] = "true", NEW t \in Tokens,
                        Origin[t] # m
                 PROVE  credited'[m][t] = Inbound(m, t)
      BY <2>8 DEF CreditExact
    <3>1. CASE m = n
      BY <2>2, <2>7, <3>1
    <3>2. CASE m # n
      BY <2>1, <2>7, <3>2 DEF PairInv, CreditExact
    <3> QED
      BY <3>1, <3>2
  <2> QED
    BY <1>1, <1>3, <2>5, <2>6, <2>9, <2>10 DEF PairInv
<1> QED
  BY <1>4, <1>5, FinalizeSteps, <1>1

\* Every step keeps the invariant of two networks.
LEMMA NextPairInv == ASSUME TwoNetworks, PairInv, [Next]_vars PROVE PairInv'
<1>1. ASSUME NEW s \in Networks, NEW d \in Networks, NEW t \in Tokens,
             NEW amount \in Amounts, s # d, AddDeposit(s, d, t, amount)
      PROVE  PairInv'
  BY <1>1, AddDepositPair
<1>2. ASSUME NEW n \in Networks, NEW t \in Tokens, NEW amount \in Amounts,
             AddCredit(n, t, amount)
      PROVE  PairInv'
  BY <1>2, AddCreditPair
<1>3. CASE Collate
  BY <1>3, CollatePair
<1>4. ASSUME NEW n \in Networks, Finalize(n) PROVE PairInv'
  BY <1>4, FinalizePair
<1>5. CASE UNCHANGED vars
  <2>1. UNCHANGED <<heap, deps, collated, bals, result, sent, debited, credited>>
    BY <1>5 DEF vars, history
  <2>2. Inv'
    BY NextInv DEF PairInv
  <2>3. Facing' /\ Plain' /\ TakenOver' /\ Totals'
    BY <2>1 DEF PairInv, Facing, Plain, TakenOver, Totals
  <2>4. DebitExact' /\ CreditExact'
    BY <2>1, TotalsKept DEF PairInv
  <2> QED
    BY <2>2, <2>3, <2>4 DEF PairInv
<1> QED
  BY <1>1, <1>2, <1>3, <1>4, <1>5 DEF Next

\* Between two networks the sharing is without consequence.
THEOREM PairInvariance == ASSUME TwoNetworks PROVE Spec => []PairInv
<1>1. Init => PairInv
  BY InitPairInv
<1>2. PairInv /\ [Next]_vars => PairInv'
  BY NextPairInv
<1> QED
  BY <1>1, <1>2, PTL DEF Spec

\* Between two networks finalizeDepositProof takes off what was sent from the
\* network.
THEOREM PairDebitsExactly == ASSUME TwoNetworks PROVE Spec => []DebitExact
<1>1. PairInv => DebitExact
  BY DEF PairInv
<1> QED
  BY <1>1, PairInvariance, PTL

\* Between two networks finalizeDepositProof adds what was sent to the network.
THEOREM PairCreditsExactly == ASSUME TwoNetworks PROVE Spec => []CreditExact
<1>1. PairInv => CreditExact
  BY DEF PairInv
<1> QED
  BY <1>1, PairInvariance, PTL

----------------------------------------------------------------------------
(* Two networks: the calls do to the amounts what CreditLedgerAbs does.     *)

\* What the abstract ledger sees is the history.
Shown ==
    /\ Sent = sent
    /\ collated # NotCollated =>
          Arrived = [r \in Routes |->
                       SumFunctionOnSet([s \in Networks |-> sent[s][r]], Networks)]
    /\ \A n \in Networks : result[n] = "none" => Held[n] = granted[n]

\* The amounts behind the references are the recorded ones.
LEMMA ShownIs == ASSUME TwoNetworks PROVE PairInv => Shown
<1> SUFFICES ASSUME PairInv PROVE Shown
  OBVIOUS
<1>1. /\ Inv /\ Facing /\ Plain /\ TakenOver
      /\ deps \in [Networks -> [Routes -> Refs]]
      /\ bals \in [Networks -> [Tokens -> Refs]]
      /\ sent \in [Networks -> [Routes -> Nat]]
      /\ granted \in [Networks -> [Tokens -> Nat]]
  BY DEF PairInv, Inv, TypeOK, History
<1>2. Sent = sent
  <2>1. ASSUME NEW s \in Networks PROVE AmountAt(deps[s]) = sent[s]
    <3>1. \A r \in Routes :
             (IF deps[s][r] = Nil THEN 0 ELSE heap[deps[s][r]]) = sent[s][r]
      BY <1>1 DEF Inv, Recorded, Plain
    <3>2. DOMAIN deps[s] = Routes /\ sent[s] \in [Routes -> Nat]
      BY <1>1
    <3> QED
      BY <3>1, <3>2 DEF AmountAt
  <2> QED
    BY <1>1, <2>1 DEF Sent
<1>3. ASSUME NEW n \in Networks, result[n] = "none" PROVE Held[n] = granted[n]
  <2>1. Held[n] = AmountAt(bals[n])
    BY <1>3 DEF Held
  <2>2. \A t \in Tokens :
           (IF bals[n][t] = Nil THEN 0 ELSE heap[bals[n][t]]) = granted[n][t]
    BY <1>1, <1>3 DEF Inv, Untouched
  <2>3. DOMAIN bals[n] = Tokens /\ granted[n] \in [Tokens -> Nat]
    BY <1>1
  <2>4. AmountAt(bals[n]) = granted[n]
    BY <2>2, <2>3 DEF AmountAt
  <2> QED
    BY <2>1, <2>4
<1>4. ASSUME collated # NotCollated
      PROVE  Arrived = [r \in Routes |->
               SumFunctionOnSet([s \in Networks |-> sent[s][r]], Networks)]
  <2>1. DOMAIN collated = Routes
    BY <1>1, <1>4 DEF Inv, TypeOK
  <2>2. ASSUME NEW r \in Routes
        PROVE  (IF collated[r] = Nil THEN 0 ELSE heap[collated[r]])
                 = SumFunctionOnSet([s \in Networks |-> sent[s][r]], Networks)
    <3>1. PICK n \in Networks, t \in Tokens : r = <<n, t>>
      BY DEF Routes
    <3>2. Inbound(n, t) = IF collated[<<n, t>>] = Nil THEN 0
                          ELSE heap[collated[<<n, t>>]]
      BY <1>1, <1>4, InboundIs
    <3>3. Inbound(n, t)
            = SumFunctionOnSet([s \in Networks |-> sent[s][<<n, t>>]], Networks)
      BY SumsOverNetworks
    <3> QED
      BY <3>1, <3>2, <3>3
  <2>3. Arrived = AmountAt(collated)
    BY <1>4 DEF Arrived
  <2> QED
    BY <2>1, <2>2, <2>3 DEF AmountAt
<1> QED
  BY <1>2, <1>3, <1>4 DEF Shown

\* And so they are after a step.
LEMMA ShownNext == ASSUME TwoNetworks PROVE PairInv' => Shown'
  BY ShownIs, PTL

\* The sums of the abstract ledger are those of this one.
LEMMA AbsSum == ASSUME NEW f PROVE Abs!SumFunction(f) = SumFunctionOnSet(f, DOMAIN f)
  BY DEF Abs!SumFunction, Abs!SumFunctionOnSet, SumFunctionOnSet,
         Abs!FoldFunctionOnSet, FoldFunctionOnSet, Abs!MapThenFoldSet, MapThenFoldSet

\* Both ledgers mean the same by what a network sent.
LEMMA AbsOutbound ==
    ASSUME Shown, NEW n \in Networks, NEW t \in Tokens
    PROVE  Abs!Outbound(n, t) = Outbound(n, t)
<1> DEFINE f == [d \in Networks |-> Sent[n][d, t]]
<1>1. Abs!Outbound(n, t) = Abs!SumFunction(f)
  BY DEF Abs!Outbound
<1>2. f = [d \in Networks |-> sent[n][<<d, t>>]]
  <2>1. \A d \in Networks : Sent[n][d, t] = sent[n][<<d, t>>]
    BY DEF Shown
  <2> QED
    BY <2>1
<1>3. DOMAIN f = Networks
  OBVIOUS
<1> HIDE DEF f
<1>4. Abs!SumFunction(f) = SumFunctionOnSet(f, Networks)
  BY <1>3, AbsSum
<1> QED
  BY <1>1, <1>2, <1>4, SumsOverNetworks

\* Until a network is finalized its credits are those it was given.
LEMMA AllHeld ==
    ASSUME Shown, \A n \in Networks : result[n] = "none",
           granted \in [Networks -> [Tokens -> Nat]]
    PROVE  Held = granted
<1>1. \A n \in Networks : Held[n] = granted[n]
  BY DEF Shown
<1>2. Held = [n \in Networks |-> Held[n]]
  BY DEF Held
<1> QED
  BY <1>1, <1>2

\* No network has been finalized.
AllOpen == \A n \in Networks : result[n] = "none"
HeldIsGranted == AllOpen /\ Inv /\ Shown => Held = granted

\* The same as one formula,
LEMMA HeldGranted == HeldIsGranted
  BY AllHeld DEF HeldIsGranted, AllOpen, Inv, History

\* and after a step.
LEMMA HeldGrantedNext == HeldIsGranted'
  BY HeldGranted, PTL

\* Both ledgers begin empty.
LEMMA InitRefines == ASSUME TwoNetworks, Init PROVE Abs!Init
<1>1. Shown /\ Inv
  BY InitPairInv, ShownIs DEF PairInv
<1>2. \A n \in Networks : result[n] = "none"
  BY DEF Init
<1>3. Held = granted
  BY <1>1, <1>2, HeldGranted DEF HeldIsGranted, AllOpen
<1>4. Sent = sent
  BY <1>1 DEF Shown
<1>5. Abs!Routes = Routes
  BY DEF Abs!Routes, Routes
<1>6. Sent = [s \in Networks |-> [r \in Abs!Routes |-> 0]]
  BY <1>4, <1>5 DEF Init, NoAmounts
<1>7. Arrived = [r \in Abs!Routes |-> 0]
  BY <1>5 DEF Arrived, Init, NoAmounts
<1>8. Held = [n \in Networks |-> [t \in Tokens |-> 0]]
  BY <1>3 DEF Init, NoAmounts
<1>9. Status = [n \in Networks |-> "open"]
  BY <1>2 DEF Status
<1>10. (collated # NotCollated) = FALSE
  BY DEF Init
<1> QED
  BY <1>6, <1>7, <1>8, <1>9, <1>10 DEF Abs!Init

\* addDeposit records.
LEMMA AddDepositRefines ==
    ASSUME TwoNetworks, PairInv, PairInv', NEW s \in Networks, NEW d \in Networks,
           NEW t \in Tokens, NEW amount \in Amounts, AddDeposit(s, d, t, amount)
    PROVE  Abs!Record(s, d, t, amount)
<1>1. Shown /\ Shown' /\ Inv /\ Inv'
  BY ShownIs, ShownNext DEF PairInv
<1>2. /\ collated = NotCollated
      /\ sent' = [sent EXCEPT ![s][<<d, t>>] = @ + amount]
      /\ UNCHANGED <<collated, result, granted>>
  BY DEF AddDeposit
<1>3. AllOpen /\ AllOpen'
  BY <1>1, <1>2 DEF Inv, CollatedFirst, AllOpen
<1>4. Held = granted /\ Held' = granted'
  BY <1>1, <1>3, HeldGranted, HeldGrantedNext DEF HeldIsGranted
<1>5. Sent = sent /\ Sent' = sent'
  BY <1>1 DEF Shown
<1>6. Arrived' = Arrived /\ Status' = Status
  BY <1>2 DEF Arrived, Status
<1> QED
  BY <1>2, <1>4, <1>5, <1>6 DEF Abs!Record

\* addCredit grants.
LEMMA AddCreditRefines ==
    ASSUME TwoNetworks, PairInv, PairInv', NEW n \in Networks, NEW t \in Tokens,
           NEW amount \in Amounts, AddCredit(n, t, amount)
    PROVE  Abs!Grant(n, t, amount)
<1>1. Shown /\ Shown' /\ Inv /\ Inv'
  BY ShownIs, ShownNext DEF PairInv
<1>2. /\ collated = NotCollated
      /\ granted' = [granted EXCEPT ![n][t] = @ + amount]
      /\ UNCHANGED <<collated, result, sent>>
  BY DEF AddCredit
<1>3. AllOpen /\ AllOpen'
  BY <1>1, <1>2 DEF Inv, CollatedFirst, AllOpen
<1>4. Held = granted /\ Held' = granted'
  BY <1>1, <1>3, HeldGranted, HeldGrantedNext DEF HeldIsGranted
<1>5. Sent = sent /\ Sent' = sent'
  BY <1>1 DEF Shown
<1>6. Arrived' = Arrived /\ Status' = Status
  BY <1>2 DEF Arrived, Status
<1> QED
  BY <1>2, <1>4, <1>5, <1>6 DEF Abs!Grant

\* Where there is no route at all, the table is as if it had not been collated.
LEMMA CollateRefines ==
    ASSUME TwoNetworks, PairInv, PairInv', Collate
    PROVE  Abs!Collate \/ UNCHANGED Abs!vars
<1>1. Shown /\ Shown' /\ Inv /\ Inv'
  BY ShownIs, ShownNext DEF PairInv
<1>2. /\ collated = NotCollated /\ Routes = Abs!Routes
      /\ UNCHANGED <<deps, bals, result, sent, granted>>
  BY DEF Collate, history, Routes, Abs!Routes
<1>3. AllOpen /\ AllOpen'
  BY <1>1, <1>2 DEF Inv, CollatedFirst, AllOpen
<1>4. Held' = Held /\ Sent = sent /\ Sent' = sent /\ Status' = Status
  <2>1. Held = granted /\ Held' = granted'
    BY <1>1, <1>3, HeldGranted, HeldGrantedNext DEF HeldIsGranted
  <2>2. Sent = sent /\ Sent' = sent'
    BY <1>1 DEF Shown
  <2>3. Status' = Status
    BY <1>2 DEF Status
  <2> QED
    BY <1>2, <2>1, <2>2, <2>3
<1>5. CASE collated' = NotCollated
  <2>1. Arrived' = Arrived
    BY <1>2, <1>5 DEF Arrived
  <2> QED
    BY <1>2, <1>4, <1>5, <2>1 DEF Abs!vars
<1>6. CASE collated' # NotCollated
  <2> DEFINE total == [r \in Routes |->
                 SumFunctionOnSet([s \in Networks |-> sent[s][r]], Networks)]
             absTotal == [r \in Abs!Routes |->
                 Abs!SumFunction([s \in Networks |-> Sent[s][r]])]
  <2>1. Arrived' = total
    BY <1>1, <1>2, <1>6 DEF Shown
  <2>2. absTotal = total
    <3>1. ASSUME NEW r \in Routes
          PROVE  Abs!SumFunction([s \in Networks |-> Sent[s][r]])
                   = SumFunctionOnSet([s \in Networks |-> sent[s][r]], Networks)
      <4> DEFINE f == [s \in Networks |-> sent[s][r]]
      <4>1. DOMAIN f = Networks
        OBVIOUS
      <4>2. [s \in Networks |-> Sent[s][r]] = f
        BY <1>4
      <4> HIDE DEF f
      <4>3. Abs!SumFunction(f) = SumFunctionOnSet(f, Networks)
        BY <4>1, AbsSum
      <4> QED
        BY <4>2, <4>3 DEF f
    <3> QED
      BY <1>2, <3>1
  <2>3. Arrived' = absTotal
    BY <2>1, <2>2
  <2> QED
    BY <1>2, <1>4, <1>6, <2>3 DEF Abs!Collate
<1> QED
  BY <1>5, <1>6

\* The credits of the other networks are left alone.
LEMMA FinalizeHeld ==
    ASSUME Inv, NEW n \in Networks, UNCHANGED bals,
           result' \in [Networks -> {"none", "true", "false", "panic"}],
           \A m \in Networks : m # n => result'[m] = result[m],
           \A m \in Networks, t \in Tokens :
              m # n /\ bals[m][t] # Nil => heap'[bals[m][t]] = heap[bals[m][t]]
    PROVE  Held' = [Held EXCEPT ![n] = Held'[n]]
<1>1. bals \in [Networks -> [Tokens -> Refs]]
  BY DEF Inv, TypeOK
<1>2. ASSUME NEW m \in Networks, m # n PROVE Held'[m] = Held[m]
  <2>1. DOMAIN bals[m] = Tokens
    BY <1>1
  <2>2. \A t \in Tokens :
           (IF bals[m][t] = Nil THEN 0 ELSE heap'[bals[m][t]])
             = (IF bals[m][t] = Nil THEN 0 ELSE heap[bals[m][t]])
    BY <1>2
  <2>3. AmountAt(bals[m])' = AmountAt(bals[m])
    BY <2>1, <2>2 DEF AmountAt
  <2> QED
    BY <1>2, <2>3 DEF Held
<1>3. /\ Held' = [m \in Networks |-> Held'[m]]
      /\ DOMAIN Held = Networks
  BY DEF Held
<1> QED
  BY <1>2, <1>3

\* What a finalization leaves to the other parts of the abstract ledger.
LEMMA FinalizeShown ==
    ASSUME TwoNetworks, PairInv, PairInv', NEW n \in Networks, Finalize(n)
    PROVE  /\ Shown /\ Shown' /\ collated # NotCollated
           /\ Sent' = Sent /\ Arrived' = Arrived /\ UNCHANGED collated
           /\ Status[n] = "open" /\ Held[n] = granted[n]
           /\ \A t \in Tokens : Abs!Outbound(n, t) = Outbound(n, t)
           /\ \A t \in Tokens : Arrived[<<n, t>>] = Inbound(n, t)
<1>1. Shown /\ Shown' /\ Inv
  BY ShownIs, ShownNext DEF PairInv
<1>2. /\ collated # NotCollated /\ result[n] = "none"
      /\ UNCHANGED <<deps, collated, bals, sent, granted>>
  BY <1>1, FinalizeSteps
<1>3. Sent' = Sent /\ Arrived' = Arrived
  BY <1>1, <1>2 DEF Shown
<1>4. Status[n] = "open" /\ Held[n] = granted[n]
  BY <1>1, <1>2 DEF Shown, Status
<1>5. \A t \in Tokens : Abs!Outbound(n, t) = Outbound(n, t)
  BY <1>1, AbsOutbound
<1>6. ASSUME NEW t \in Tokens PROVE Arrived[<<n, t>>] = Inbound(n, t)
  <2>1. <<n, t>> \in Routes
    BY DEF Routes
  <2>2. Inbound(n, t)
          = SumFunctionOnSet([s \in Networks |-> sent[s][<<n, t>>]], Networks)
    BY SumsOverNetworks
  <2> QED
    BY <1>1, <1>2, <2>1, <2>2 DEF Shown
<1> QED
  BY <1>1, <1>2, <1>3, <1>4, <1>5, <1>6

\* The answer of a finalization is the status of the abstract ledger.
LEMMA FinalizeStatus ==
    ASSUME NEW n \in Networks, NEW res \in {"true", "false", "panic"},
           result \in [Networks -> {"none", "true", "false", "panic"}],
           result' = [result EXCEPT ![n] = res]
    PROVE  /\ result'[n] = res /\ \A m \in Networks : m # n => result'[m] = result[m]
           /\ res = "true" => Status' = [Status EXCEPT ![n] = "settled"]
           /\ res = "false" => Status' = [Status EXCEPT ![n] = "refused"]
           /\ res = "panic" => Status' = [Status EXCEPT ![n] = "abandoned"]
           /\ res \in {"false", "panic"} => Held'[n] = Void
           /\ res = "true" => Held'[n] = AmountAt(bals[n])'
<1>1. result'[n] = res /\ \A m \in Networks : m # n => result'[m] = result[m]
  OBVIOUS
<1>2. \A m \in Networks : m # n => Status'[m] = Status[m]
  BY <1>1 DEF Status
<1>3. Status' = [m \in Networks |-> Status'[m]] /\ DOMAIN Status = Networks
  BY DEF Status
<1>4. Status' = [Status EXCEPT ![n] = Status'[n]]
  BY <1>2, <1>3
<1>5. /\ res = "true" => Status'[n] = "settled"
      /\ res = "false" => Status'[n] = "refused"
      /\ res = "panic" => Status'[n] = "abandoned"
  BY <1>1 DEF Status
<1>6. /\ res \in {"false", "panic"} => Held'[n] = Void
      /\ res = "true" => Held'[n] = AmountAt(bals[n])'
  BY <1>1 DEF Held
<1> QED
  BY <1>1, <1>4, <1>5, <1>6

\* A network that sent something and holds no credits at all sent more than it
\* holds.
LEMMA NothingHeld ==
    ASSUME TwoNetworks, PairInv, NEW n \in Networks, result[n] = "none",
           HasOutbound(n), ~HasCredits(n)
    PROVE  \E t \in Tokens : Outbound(n, t) > granted[n][t]
<1>1. PICK r \in Routes : deps[n][r] # Nil
  BY DEF HasOutbound
<1>2. PICK d \in Networks, t \in Tokens : r = <<d, t>>
  BY DEF Routes
<1> DEFINE f == [e \in Networks |-> sent[n][<<e, t>>]]
<1>3. /\ sent \in [Networks -> [Routes -> Nat]] /\ IsFiniteSet(Networks)
      /\ \A e \in Networks : <<e, t>> \in Routes
  BY ConstantFacts DEF PairInv, Inv, History, Routes
<1>4. f \in [Networks -> Int] /\ \A e \in Networks : f[e] = sent[n][<<e, t>>]
  BY <1>3
<1>5. Outbound(n, t) = SumFunctionOnSet(f, Networks)
  BY SumsOverNetworks
<1> HIDE DEF f
<1>6. ASSUME NEW e \in Networks, e # d PROVE f[e] = 0
  <2>1. deps[n][<<e, t>>] = Nil
    BY <1>1, <1>2, <1>6, OneSource DEF PairInv
  <2>2. sent[n][<<e, t>>] = 0
    BY <1>3, <2>1 DEF PairInv, Inv, Recorded
  <2> QED
    BY <1>4, <2>2
<1>7. SumFunctionOnSet(f, Networks) = f[d]
  BY <1>3, <1>4, <1>6, SumOne
<1>8. f[d] > 0
  BY <1>1, <1>2, <1>4 DEF PairInv, Plain
<1>9. granted[n][t] = 0
  BY DEF PairInv, Inv, Untouched, HasCredits
<1> QED
  BY <1>5, <1>7, <1>8, <1>9

\* finalizeDepositProof settles, refuses or, if it panics, abandons.
LEMMA FinalizeRefines ==
    ASSUME TwoNetworks, PairInv, PairInv', NEW n \in Networks, Finalize(n)
    PROVE  Abs!Settle(n) \/ Abs!Refuse(n) \/ Abs!Abandon(n)
<1>1. /\ Shown /\ collated # NotCollated
      /\ Sent' = Sent /\ Arrived' = Arrived /\ UNCHANGED collated
      /\ Status[n] = "open" /\ Held[n] = granted[n]
      /\ \A t \in Tokens : Abs!Outbound(n, t) = Outbound(n, t)
      /\ \A t \in Tokens : Arrived[<<n, t>>] = Inbound(n, t)
  BY FinalizeShown
<1>2. /\ Inv /\ result[n] = "none"
      /\ UNCHANGED <<deps, collated, bals, sent, granted>>
      /\ result \in [Networks -> {"none", "true", "false", "panic"}]
      /\ result' \in [Networks -> {"none", "true", "false", "panic"}]
      /\ bals[n] \in [Tokens -> Refs]
  BY FinalizeSteps DEF PairInv, Inv, TypeOK
<1>3. ASSUME result' = [result EXCEPT ![n] = "false"],
             Held' = [Held EXCEPT ![n] = Held'[n]],
             \E t \in Tokens : Outbound(n, t) > granted[n][t]
      PROVE  Abs!Refuse(n)
  <2>1. Held'[n] = Void /\ Status' = [Status EXCEPT ![n] = "refused"]
    BY <1>2, <1>3, FinalizeStatus
  <2>2. Held' = [Held EXCEPT ![n] = Void]
    BY <1>3, <2>1
  <2>3. \E t \in Tokens : Abs!Outbound(n, t) > Held[n][t]
    BY <1>1, <1>3
  <2> QED
    BY <1>1, <2>1, <2>2, <2>3 DEF Abs!Refuse
<1>4. CASE /\ HasOutbound(n) /\ ~HasCredits(n)
           /\ result' = [result EXCEPT ![n] = "false"]
           /\ UNCHANGED <<heap, debited, credited>>
  <2>1. \E t \in Tokens : Outbound(n, t) > granted[n][t]
    BY <1>2, <1>4, NothingHeld
  <2>2. \A m \in Networks : m # n => result'[m] = result[m]
    BY <1>2, <1>4
  <2>3. Held' = [Held EXCEPT ![n] = Held'[n]]
    BY <1>2, <1>4, <2>2, FinalizeHeld
  <2> QED
    BY <1>3, <1>4, <2>1, <2>3
<1>5. ASSUME NEW refs, NEW flat, NEW outcome, Finalization(n, refs, flat, outcome)
      PROVE  Abs!Settle(n) \/ Abs!Refuse(n) \/ Abs!Abandon(n)
  <2> DEFINE res == IF outcome = "ok" THEN "true" ELSE outcome
  <2>1. outcome \in {"ok", "false", "panic"}
    BY <1>5 DEF Finalization, Finalized
  <2>2. result' = [result EXCEPT ![n] = res] /\ res \in {"true", "false", "panic"}
        /\ (res = "true" <=> outcome = "ok") /\ (res = "false" <=> outcome = "false")
    BY <1>5, <2>1 DEF Finalization
  <2> HIDE DEF res
  <2>3. /\ result'[n] = res /\ \A m \in Networks : m # n => result'[m] = result[m]
        /\ res = "true" => Status' = [Status EXCEPT ![n] = "settled"]
        /\ res = "panic" => Status' = [Status EXCEPT ![n] = "abandoned"]
        /\ res = "panic" => Held'[n] = Void
        /\ res = "true" => Held'[n] = AmountAt(bals[n])'
    BY <1>2, <2>2, FinalizeStatus
  <2>4. Held' = [Held EXCEPT ![n] = Held'[n]]
    <3>1. \A m \in Networks, t \in Tokens :
             m # n /\ bals[m][t] # Nil => heap'[bals[m][t]] = heap[bals[m][t]]
      BY <1>2, <1>5, FinalizeElsewhere
    <3> QED
      BY <1>2, <2>3, <3>1, FinalizeHeld
  <2>5. \A t \in Tokens :
           /\ Outbound(n, t) = IF refs[t] = Nil THEN 0 ELSE flat[refs[t]]
           /\ Origin[t] # n =>
                Inbound(n, t) = IF Creditable(n)[t] = Nil THEN 0
                                ELSE flat[Creditable(n)[t]]
           /\ Origin[t] = n => Creditable(n)[t] = Nil
    BY <1>1, <1>5, FinalizeTotals
  <2>6. \A t \in Tokens :
           granted[n][t] = IF bals[n][t] = Nil THEN 0 ELSE heap[bals[n][t]]
    BY <1>2 DEF Inv, Untouched
  <2>7. CASE res = "true"
    <3> DEFINE settled == [t \in Tokens |->
                 Held[n][t] - Abs!Outbound(n, t)
                   + (IF Origin[t] = n THEN 0 ELSE Arrived[n, t])]
    <3>1. ASSUME NEW t \in Tokens
          PROVE  /\ refs[t] # Nil => bals[n][t] # Nil /\ flat[refs[t]] <= heap[bals[n][t]]
                 /\ Creditable(n)[t] # Nil => bals[n][t] # Nil
                 /\ bals[n][t] # Nil =>
                      heap'[bals[n][t]] = heap[bals[n][t]]
                        - (IF refs[t] = Nil THEN 0 ELSE flat[refs[t]])
                        + (IF Creditable(n)[t] = Nil THEN 0
                           ELSE flat[Creditable(n)[t]])
      BY <1>5, <2>2, <2>7 DEF Finalization, Finalized
    <3>2. \A t \in Tokens : Abs!Outbound(n, t) <= Held[n][t]
      <4>1. Covered(n)
        <5>1. outcome = "ok"
          BY <2>2, <2>7
        <5> QED
          BY <1>1, <1>2, <1>5, <5>1, AcceptedCovered
      <4> QED
        BY <1>1, <4>1 DEF Covered
    <3>3. \A t \in Tokens :
             (IF bals[n][t] = Nil THEN 0 ELSE heap'[bals[n][t]]) = settled[t]
      <4> SUFFICES ASSUME NEW t \in Tokens
                   PROVE  (IF bals[n][t] = Nil THEN 0 ELSE heap'[bals[n][t]])
                            = settled[t]
        OBVIOUS
      <4>1. Arrived[n, t] = Inbound(n, t)
        BY <1>1
      <4>2. settled[t] = granted[n][t] - Outbound(n, t)
                           + (IF Origin[t] = n THEN 0 ELSE Inbound(n, t))
        BY <1>1, <4>1
      <4> HIDE DEF settled
      <4> DEFINE in == IF Creditable(n)[t] = Nil THEN 0 ELSE flat[Creditable(n)[t]]
      <4>3. in = IF Origin[t] = n THEN 0 ELSE Inbound(n, t)
        BY <2>5
      <4>4. CASE bals[n][t] = Nil
        <5>1. refs[t] = Nil /\ Creditable(n)[t] = Nil
          BY <3>1, <4>4
        <5>2. Outbound(n, t) = 0 /\ in = 0 /\ granted[n][t] = 0
          BY <2>5, <2>6, <4>4, <5>1
        <5> QED
          BY <4>2, <4>3, <4>4, <5>2
      <4>5. CASE bals[n][t] # Nil
        <5>1. heap'[bals[n][t]] = granted[n][t] - Outbound(n, t) + in
          BY <2>5, <2>6, <3>1, <4>5
        <5> QED
          BY <4>2, <4>3, <4>5, <5>1
      <4> QED
        BY <4>4, <4>5
    <3>4. AmountAt(bals[n])' = settled
      <4>1. DOMAIN bals[n] = Tokens
        BY <1>2
      <4>2. AmountAt(bals[n])'
              = [t \in Tokens |-> IF bals[n][t] = Nil THEN 0 ELSE heap'[bals[n][t]]]
        BY <1>2, <4>1 DEF AmountAt
      <4> QED
        BY <3>3, <4>2
    <3>5. Held' = [Held EXCEPT ![n] = settled]
      BY <2>3, <2>4, <2>7, <3>4
    <3>6. Held' = [Held EXCEPT ![n] = [t \in Tokens |->
                     @[t] - Abs!Outbound(n, t)
                       + (IF Origin[t] = n THEN 0 ELSE Arrived[n, t])]]
      BY <3>5
    <3>7. Status' = [Status EXCEPT ![n] = "settled"]
      BY <2>3, <2>7
    <3> HIDE DEF settled
    <3> QED
      BY <1>1, <3>2, <3>6, <3>7 DEF Abs!Settle
  <2>8. CASE res = "false"
    <3>1. PICK t \in Tokens :
             refs[t] # Nil /\ bals[n][t] # Nil /\ flat[refs[t]] > heap[bals[n][t]]
      BY <1>5, <2>2, <2>8 DEF Finalization, Finalized
    <3>2. Outbound(n, t) > granted[n][t]
      BY <2>5, <2>6, <3>1
    <3> QED
      BY <1>3, <2>2, <2>4, <2>8, <3>2
  <2>9. CASE res = "panic"
    <3>1. Held' = [Held EXCEPT ![n] = Void]
      BY <2>3, <2>4, <2>9
    <3> QED
      BY <1>1, <2>3, <2>9, <3>1 DEF Abs!Abandon
  <2> QED
    BY <2>2, <2>7, <2>8, <2>9
<1> QED
  BY <1>4, <1>5, FinalizeSteps, <1>2

\* Every step is one of the abstract ledger, or none it sees.
LEMMA NextRefines ==
    ASSUME TwoNetworks, PairInv, PairInv', [Next]_vars PROVE [Abs!Next]_(Abs!vars)
<1>1. ASSUME NEW s \in Networks, NEW d \in Networks, NEW t \in Tokens,
             NEW amount \in Amounts, AddDeposit(s, d, t, amount)
      PROVE  Abs!Next
  <2>1. Abs!Record(s, d, t, amount)
    BY <1>1, AddDepositRefines
  <2> QED
    BY <2>1 DEF Abs!Next
<1>2. ASSUME NEW n \in Networks, NEW t \in Tokens, NEW amount \in Amounts,
             AddCredit(n, t, amount)
      PROVE  Abs!Next
  <2>1. Abs!Grant(n, t, amount)
    BY <1>2, AddCreditRefines
  <2> QED
    BY <2>1 DEF Abs!Next
<1>3. CASE Collate
  BY <1>3, CollateRefines DEF Abs!Next
<1>4. ASSUME NEW n \in Networks, Finalize(n) PROVE Abs!Next
  <2>1. Abs!Settle(n) \/ Abs!Refuse(n) \/ Abs!Abandon(n)
    BY <1>4, FinalizeRefines
  <2> QED
    BY <2>1 DEF Abs!Next
<1>5. CASE UNCHANGED vars
  <2>1. UNCHANGED <<heap, deps, collated, bals, result>>
    BY <1>5 DEF vars
  <2>2. Sent' = Sent
    BY <2>1 DEF Sent, AmountAt
  <2>3. Arrived' = Arrived
    BY <2>1 DEF Arrived, AmountAt
  <2>4. Held' = Held
    BY <2>1 DEF Held, AmountAt
  <2>5. Status' = Status
    BY <2>1 DEF Status
  <2> QED
    BY <2>1, <2>2, <2>3, <2>4, <2>5 DEF Abs!vars
<1> QED
  BY <1>1, <1>2, <1>3, <1>4, <1>5 DEF Next

\* Between two networks the calls on shared integers do what the abstract ledger
\* does on amounts, or leave its view alone.
THEOREM PairRefines == ASSUME TwoNetworks PROVE Spec => AbsSpec
<1>1. Init => Abs!Init
  BY InitRefines
<1>2. PairInv /\ PairInv' /\ [Next]_vars => [Abs!Next]_(Abs!vars)
  BY NextRefines
<1> QED
  BY <1>1, <1>2, PairInvariance, PTL DEF Spec, AbsSpec, Abs!Spec
=============================================================================
