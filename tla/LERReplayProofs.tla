--------------------------- MODULE LERReplayProofs ---------------------------
(***************************************************************************)
(* The algorithms of MerkleFrontier, for every height, hash function and   *)
(* sequence of leaves: addLeaf keeps the frontier that of the leaves       *)
(* inserted, and calculateRoot computes from it the root of the whole tree.*)
(* On them rest the invariants of LERReplay, for every height, hash        *)
(* function, set of leaves, batch size and number of deposits.             *)
(***************************************************************************)
EXTENDS LERReplay, TLAPS

(* The bodies of the loops, as instances of NatRecursion. *)

ZeroStep(p, h, x) == Hash(x, x)
ZeroLoop == INSTANCE NatRecursion WITH Step <- ZeroStep

ClimbStep(p, h, x) == Hash(p[h], x)
ClimbLoop == INSTANCE NatRecursion WITH Step <- ClimbStep

RootStep(p, h, x) ==
    IF BitSet(p.index, h) THEN Hash(p.front[h], x)
                          ELSE Hash(x, p.zero[h])
RootLoop == INSTANCE NatRecursion WITH Step <- RootStep

TreeStep(p, h, x) == [j \in Nat |-> Hash(x[2 * j], x[2 * j + 1])]
TreeLoop == INSTANCE NatRecursion WITH Step <- TreeStep

----------------------------------------------------------------------------
(* What the recursive functions of the model compute, one pass at a time.   *)

\* The zero hash of a level is made of two of the level below.
LEMMA ZeroUnfolds ==
    /\ ZeroHashes[0] = HashZero
    /\ \A h \in Nat : ZeroHashes[h + 1] = Hash(ZeroHashes[h], ZeroHashes[h])
<1>1. \A p : ZeroLoop!Loop(p, HashZero) = ZeroHashes
  BY DEF ZeroLoop!Loop, ZeroStep, ZeroHashes
<1> QED
  BY <1>1, ZeroLoop!LoopUnfolds DEF ZeroStep

\* addLeaf, level by level.
LEMMA ClimbUnfolds ==
    ASSUME NEW leaf, NEW front
    PROVE  /\ ClimbNode(leaf, front)[0] = leaf
           /\ \A h \in Nat : ClimbNode(leaf, front)[h + 1]
                               = Hash(front[h], ClimbNode(leaf, front)[h])
<1>1. ClimbLoop!Loop(front, leaf) = ClimbNode(leaf, front)
  BY DEF ClimbLoop!Loop, ClimbStep, ClimbNode
<1> QED
  BY <1>1, ClimbLoop!LoopUnfolds DEF ClimbStep

\* calculateRoot, level by level.
LEMMA RootUnfolds ==
    ASSUME NEW front, NEW index
    PROVE  /\ RootNode(front, index)[0] = HashZero
           /\ \A h \in Nat :
                RootNode(front, index)[h + 1] =
                  IF BitSet(index, h)
                  THEN Hash(front[h], RootNode(front, index)[h])
                  ELSE Hash(RootNode(front, index)[h], ZeroHashes[h])
<1> DEFINE p == [front |-> front, index |-> index, zero |-> ZeroHashes]
<1>1. p.front = front /\ p.index = index /\ p.zero = ZeroHashes
  OBVIOUS
<1> HIDE DEF p
<1>2. RootLoop!Loop(p, HashZero) = RootNode(front, index)
  BY <1>1 DEF RootLoop!Loop, RootStep, RootNode
<1>3. /\ RootLoop!Loop(p, HashZero)[0] = HashZero
      /\ \A h \in Nat : RootLoop!Loop(p, HashZero)[h + 1]
                          = RootStep(p, h, RootLoop!Loop(p, HashZero)[h])
  BY RootLoop!LoopUnfolds
<1> QED
  BY <1>1, <1>2, <1>3 DEF RootStep

\* The complete tree, level by level.
LEMMA TreeUnfolds ==
    ASSUME NEW leaf
    PROVE  /\ TreeNode(leaf)[0] = leaf
           /\ \A h \in Nat, j \in Nat :
                TreeNode(leaf)[h + 1][j] =
                  Hash(TreeNode(leaf)[h][2 * j], TreeNode(leaf)[h][2 * j + 1])
<1>1. \A p : TreeLoop!Loop(p, leaf) = TreeNode(leaf)
  BY DEF TreeLoop!Loop, TreeStep, TreeNode
<1>2. /\ TreeNode(leaf)[0] = leaf
      /\ \A h \in Nat : TreeNode(leaf)[h + 1] = TreeStep(0, h, TreeNode(leaf)[h])
  BY <1>1, TreeLoop!LoopUnfolds
<1> QED
  BY <1>2 DEF TreeStep

----------------------------------------------------------------------------
(* Binary digits.                                                           *)

----------------------------------------------------------------------------
(* The reference tree.                                                      *)

\* Nodes over the first n positions do not depend on what lies to the right.
LEMMA TreeAgrees ==
    ASSUME NEW f, NEW g, NEW n \in Nat,
           \A j \in Nat : j < n => f[j] = g[j]
    PROVE  \A h \in Nat, j \in Nat :
              j < Shr(n)[h] => TreeNode(f)[h][j] = TreeNode(g)[h][j]
<1> DEFINE S == {h \in Nat : \A j \in Nat : j < Shr(n)[h] =>
                               TreeNode(f)[h][j] = TreeNode(g)[h][j]}
<1>1. 0 \in S
  <2>1. Shr(n)[0] = n
    BY ShrUnfolds
  <2>2. TreeNode(f)[0] = f /\ TreeNode(g)[0] = g
    BY TreeUnfolds
  <2> QED
    BY <2>1, <2>2
<1>2. ASSUME NEW h \in Nat, h \in S PROVE h + 1 \in S
  <2>1. SUFFICES ASSUME NEW j \in Nat, j < Shr(n)[h + 1]
                 PROVE  TreeNode(f)[h + 1][j] = TreeNode(g)[h + 1][j]
    OBVIOUS
  <2>2. 2 * j \in Nat /\ 2 * j + 1 \in Nat
    OBVIOUS
  <2>3. 2 * j < Shr(n)[h] /\ 2 * j + 1 < Shr(n)[h]
    <3>1. /\ Shr(n)[h + 1] \in Nat
          /\ Shr(n)[h] = 2 * Shr(n)[h + 1] \/ Shr(n)[h] = 2 * Shr(n)[h + 1] + 1
      BY ShrDigit
    <3> QED
      BY <2>1, <3>1
  <2>4. /\ TreeNode(f)[h][2 * j] = TreeNode(g)[h][2 * j]
        /\ TreeNode(f)[h][2 * j + 1] = TreeNode(g)[h][2 * j + 1]
    BY <1>2, <2>2, <2>3
  <2>5. /\ TreeNode(f)[h + 1][j] =
             Hash(TreeNode(f)[h][2 * j], TreeNode(f)[h][2 * j + 1])
        /\ TreeNode(g)[h + 1][j] =
             Hash(TreeNode(g)[h][2 * j], TreeNode(g)[h][2 * j + 1])
    BY TreeUnfolds
  <2> QED
    BY <2>4, <2>5
<1> HIDE DEF S
<1>3. \A h \in Nat : h \in S
  BY <1>1, <1>2, NatInduct
<1> QED
  BY <1>3 DEF S

\* To the right of the last leaf every node is the root of an empty subtree.
LEMMA TreeEmpty ==
    ASSUME NEW f, NEW n \in Nat,
           \A j \in Nat : j > n => f[j] = HashZero
    PROVE  \A h \in Nat, j \in Nat :
              j > Shr(n)[h] => TreeNode(f)[h][j] = ZeroHashes[h]
<1> DEFINE S == {h \in Nat : \A j \in Nat : j > Shr(n)[h] =>
                               TreeNode(f)[h][j] = ZeroHashes[h]}
<1>1. 0 \in S
  <2>1. Shr(n)[0] = n
    BY ShrUnfolds
  <2>2. TreeNode(f)[0] = f /\ ZeroHashes[0] = HashZero
    BY TreeUnfolds, ZeroUnfolds
  <2> QED
    BY <2>1, <2>2
<1>2. ASSUME NEW h \in Nat, h \in S PROVE h + 1 \in S
  <2>1. SUFFICES ASSUME NEW j \in Nat, j > Shr(n)[h + 1]
                 PROVE  TreeNode(f)[h + 1][j] = ZeroHashes[h + 1]
    OBVIOUS
  <2>2. 2 * j \in Nat /\ 2 * j + 1 \in Nat
    OBVIOUS
  <2>3. 2 * j > Shr(n)[h] /\ 2 * j + 1 > Shr(n)[h]
    <3>1. /\ Shr(n)[h + 1] \in Nat
          /\ Shr(n)[h] = 2 * Shr(n)[h + 1] \/ Shr(n)[h] = 2 * Shr(n)[h + 1] + 1
      BY ShrDigit
    <3> QED
      BY <2>1, <3>1
  <2>4. /\ TreeNode(f)[h][2 * j] = ZeroHashes[h]
        /\ TreeNode(f)[h][2 * j + 1] = ZeroHashes[h]
    BY <1>2, <2>2, <2>3
  <2>5. TreeNode(f)[h + 1][j] =
          Hash(TreeNode(f)[h][2 * j], TreeNode(f)[h][2 * j + 1])
    BY TreeUnfolds
  <2>6. ZeroHashes[h + 1] = Hash(ZeroHashes[h], ZeroHashes[h])
    BY ZeroUnfolds
  <2> QED
    BY <2>4, <2>5, <2>6
<1> HIDE DEF S
<1>3. \A h \in Nat : h \in S
  BY <1>1, <1>2, NatInduct
<1> QED
  BY <1>3 DEF S

----------------------------------------------------------------------------
(* calculateRoot                                                            *)

\* The loop of calculateRoot climbs the path above the first empty place.
LEMMA RootClimbs ==
    ASSUME HeightAssumption, NEW front, NEW seq, NEW n \in Nat,
           IsFrontierOf(front, seq, n)
    PROVE  \A h \in Nat : h <= Height =>
              RootNode(front, n)[h]
                = TreeNode(LeavesOf(seq, n))[h][Shr(n)[h]]
<1> DEFINE T == TreeNode(LeavesOf(seq, n))
           R == RootNode(front, n)
           S == {h \in Nat : h <= Height => R[h] = T[h][Shr(n)[h]]}
<1>0. \A j \in Nat : j >= n => LeavesOf(seq, n)[j] = HashZero
  BY DEF LeavesOf
<1>1. 0 \in S
  <2>1. Shr(n)[0] = n
    BY ShrUnfolds
  <2>2. T[0] = LeavesOf(seq, n) /\ R[0] = HashZero
    BY TreeUnfolds, RootUnfolds
  <2>3. T[0][n] = HashZero
    BY <1>0, <2>2
  <2> QED
    BY <2>1, <2>2, <2>3
<1>2. ASSUME NEW h \in Nat, h \in S PROVE h + 1 \in S
  <2>1. SUFFICES ASSUME h + 1 <= Height
                 PROVE  R[h + 1] = T[h + 1][Shr(n)[h + 1]]
    OBVIOUS
  <2>2. R[h] = T[h][Shr(n)[h]] /\ h \in Levels
    BY <1>2, <2>1 DEF HeightAssumption, Levels
  <2>3. /\ Shr(n)[h] \in Nat /\ Shr(n)[h + 1] \in Nat
        /\ T[h + 1][Shr(n)[h + 1]] =
             Hash(T[h][2 * Shr(n)[h + 1]], T[h][2 * Shr(n)[h + 1] + 1])
    <3>1. Shr(n)[h] \in Nat /\ Shr(n)[h + 1] \in Nat
      BY ShrDigit
    <3>2. \A j \in Nat : T[h + 1][j] = Hash(T[h][2 * j], T[h][2 * j + 1])
      <4> DEFINE leaf == LeavesOf(seq, n)
      <4> HIDE DEF leaf
      <4>1. \A i \in Nat, j \in Nat :
               TreeNode(leaf)[i + 1][j]
                 = Hash(TreeNode(leaf)[i][2 * j], TreeNode(leaf)[i][2 * j + 1])
        BY TreeUnfolds
      <4> QED
        BY <4>1 DEF leaf
    <3> HIDE DEF T
    <3> QED
      BY <3>1, <3>2
  <2>4. CASE BitSet(n, h)
    <3>1. R[h + 1] = Hash(front[h], R[h])
      BY <2>4, RootUnfolds
    <3>2. front[h] = T[h][Shr(n)[h] - 1]
      BY <2>2, <2>4 DEF IsFrontierOf
    <3>3. /\ Shr(n)[h] = 2 * Shr(n)[h + 1] + 1
          /\ Shr(n)[h] - 1 = 2 * Shr(n)[h + 1]
      BY <2>3, <2>4, ShrDigit
    <3> QED
      BY <2>2, <2>3, <3>1, <3>2, <3>3
  <2>5. CASE ~BitSet(n, h)
    <3>1. R[h + 1] = Hash(R[h], ZeroHashes[h])
      BY <2>5, RootUnfolds
    <3>2. Shr(n)[h] = 2 * Shr(n)[h + 1]
      BY <2>5, ShrDigit
    <3>3. T[h][Shr(n)[h] + 1] = ZeroHashes[h]
      <4>1. Shr(n)[h] + 1 \in Nat /\ Shr(n)[h] + 1 > Shr(n)[h]
        BY <2>3
      <4> QED
        BY <4>1, <1>0, TreeEmpty
    <3> QED
      BY <2>2, <2>3, <3>1, <3>2, <3>3
  <2> QED
    BY <2>4, <2>5
<1> HIDE DEF S
<1>3. \A h \in Nat : h \in S
  BY <1>1, <1>2, NatInduct
<1> QED
  BY <1>3 DEF S

\* calculateRoot returns the root of the tree, whatever the number of leaves,
\* as long as they leave a place free.
THEOREM CalculateRootCorrect ==
    ASSUME HeightAssumption, NEW front, NEW seq, NEW n \in Nat,
           IsFrontierOf(front, seq, n), Shr(n)[Height] = 0
    PROVE  CalculateRoot(front, n) = TreeRoot(seq, n)
<1>1. Height \in Nat /\ Height <= Height
  BY DEF HeightAssumption
<1>2. RootNode(front, n)[Height]
        = TreeNode(LeavesOf(seq, n))[Height][Shr(n)[Height]]
  BY <1>1, RootClimbs
<1> QED
  BY <1>2 DEF CalculateRoot, TreeRoot

----------------------------------------------------------------------------
(* addLeaf                                                                  *)

\* The loop of addLeaf climbs complete subtrees that end with the new leaf.
LEMMA AddLeafClimbs ==
    ASSUME HeightAssumption, NEW front, NEW seq, NEW n \in Nat,
           IsFrontierOf(front, seq, n)
    PROVE  \A h \in Nat :
              (h <= Height /\ \A k \in 0 .. h - 1 : ~BitSet(n + 1, k)) =>
                ClimbNode(seq[n + 1], front)[h]
                  = TreeNode(LeavesOf(seq, n + 1))[h][Shr(n + 1)[h] - 1]
<1> DEFINE T == TreeNode(LeavesOf(seq, n + 1))
           T0 == TreeNode(LeavesOf(seq, n))
           C == ClimbNode(seq[n + 1], front)
           Low(h) == \A k \in 0 .. h - 1 : ~BitSet(n + 1, k)
           S == {h \in Nat : h <= Height /\ Low(h)
                               => C[h] = T[h][Shr(n + 1)[h] - 1]}
<1>1. 0 \in S
  <2>1. LeavesOf(seq, n + 1)[n] = seq[n + 1]
    BY DEF LeavesOf
  <2>2. Shr(n + 1)[0] - 1 = n
    BY ShrUnfolds
  <2>3. C[0] = seq[n + 1] /\ T[0] = LeavesOf(seq, n + 1)
    BY ClimbUnfolds, TreeUnfolds
  <2> QED
    BY <2>1, <2>2, <2>3
<1>2. ASSUME NEW h \in Nat, h \in S PROVE h + 1 \in S
  <2>1. SUFFICES ASSUME h + 1 <= Height, Low(h + 1)
                 PROVE  C[h + 1] = T[h + 1][Shr(n + 1)[h + 1] - 1]
    OBVIOUS
  <2>2. h <= Height /\ h \in Levels /\ Low(h) /\ ~BitSet(n + 1, h)
    BY <2>1 DEF HeightAssumption, Levels
  <2>3. C[h + 1] = Hash(front[h], C[h])
    BY ClimbUnfolds
  <2>4. C[h] = T[h][Shr(n + 1)[h] - 1]
    BY <1>2, <2>2
  <2>5. Shr(n + 1)[h] = Shr(n)[h] + 1
    BY <2>2, ShrCarry
  <2>6. Shr(n + 1)[h] = 2 * Shr(n + 1)[h + 1] /\ Shr(n + 1)[h + 1] \in Nat
    BY <2>2, ShrDigit
  <2> DEFINE q == Shr(n + 1)[h + 1] - 1
  <2>7. /\ BitSet(n, h) /\ Shr(n)[h] \in Nat
        /\ q \in Nat
        /\ Shr(n)[h] - 1 = 2 * q
        /\ Shr(n + 1)[h] - 1 = 2 * q + 1
    <3>1. Shr(n)[h] \in Nat /\ Shr(n)[h + 1] \in Nat
      BY ShrDigit
    <3>2. BitSet(n, h)
      <4>1. SUFFICES ASSUME ~BitSet(n, h) PROVE FALSE
        OBVIOUS
      <4>2. Shr(n)[h] = 2 * Shr(n)[h + 1]
        BY <4>1, ShrDigit
      <4> QED
        BY <2>5, <2>6, <3>1, <4>2
    <3> QED
      BY <2>5, <2>6, <3>1, <3>2
  <2>8. front[h] = T[h][2 * q]
    <3>1. front[h] = T0[h][2 * q]
      BY <2>2, <2>7 DEF IsFrontierOf
    <3>2. \A j \in Nat : j < n => LeavesOf(seq, n)[j] = LeavesOf(seq, n + 1)[j]
      BY DEF LeavesOf
    <3>3. 2 * q \in Nat /\ 2 * q < Shr(n)[h]
      BY <2>7
    <3>4. T0[h][2 * q] = T[h][2 * q]
      BY <3>2, <3>3, TreeAgrees
    <3> QED
      BY <3>1, <3>4
  <2>9. T[h + 1][q] = Hash(T[h][2 * q], T[h][2 * q + 1])
    BY <2>7, TreeUnfolds
  <2> HIDE DEF T, C, Low
  <2> QED
    BY <2>3, <2>4, <2>7, <2>8, <2>9
<1> HIDE DEF S
<1>3. \A h \in Nat : h \in S
  BY <1>1, <1>2, NatInduct
<1> QED
  BY <1>3 DEF S

\* Unless addLeaf panics, there is one level where its loop returns.
LEMMA StopLevelExists ==
    ASSUME HeightAssumption, NEW index, ~AddLeafPanics(index)
    PROVE  \E h \in Levels : IsStopLevel(index, h)
<1> DEFINE S == {h \in Nat : \A k \in 0 .. h - 1 : ~BitSet(index, k)}
<1>1. SUFFICES ASSUME \A h \in Levels : ~IsStopLevel(index, h) PROVE FALSE
  OBVIOUS
<1>2. 0 \in S
  OBVIOUS
<1>3. ASSUME NEW h \in Nat, h \in S, h < Height PROVE h + 1 \in S
  <2>1. h \in Levels
    BY <1>3 DEF Levels, HeightAssumption
  <2>2. ~BitSet(index, h)
    BY <1>1, <1>3, <2>1 DEF IsStopLevel
  <2> QED
    BY <1>3, <2>2
<1> DEFINE S2 == {h \in Nat : h <= Height => h \in S}
<1>4. 0 \in S2
  BY <1>2
<1>5. ASSUME NEW h \in Nat, h \in S2 PROVE h + 1 \in S2
  <2> HIDE DEF S
  <2> QED
    BY <1>3, <1>5 DEF HeightAssumption
<1> HIDE DEF S2
<1>6. \A h \in Nat : h \in S2
  BY <1>4, <1>5, NatInduct
<1>7. Height \in S
  BY <1>6 DEF S2, HeightAssumption
<1> QED
  BY <1>7 DEF AddLeafPanics, Levels

\* addLeaf takes the frontier of n leaves to the frontier of n + 1.
THEOREM AddLeafCorrect ==
    ASSUME HeightAssumption, NEW front, NEW seq, NEW n \in Nat,
           DOMAIN front = Levels, IsFrontierOf(front, seq, n),
           ~AddLeafPanics(n + 1)
    PROVE  /\ DOMAIN AddLeaf(seq[n + 1], front, n + 1) = Levels
           /\ IsFrontierOf(AddLeaf(seq[n + 1], front, n + 1), seq, n + 1)
<1> DEFINE T == TreeNode(LeavesOf(seq, n + 1))
           T0 == TreeNode(LeavesOf(seq, n))
           stop == CHOOSE h \in Levels : IsStopLevel(n + 1, h)
           fr == AddLeaf(seq[n + 1], front, n + 1)
<1>1. stop \in Levels /\ IsStopLevel(n + 1, stop)
  BY StopLevelExists
<1>2. fr = [front EXCEPT ![stop] = ClimbNode(seq[n + 1], front)[stop]]
  BY DEF AddLeaf
<1> HIDE DEF stop, fr
<1>3. stop \in Nat /\ stop <= Height
  BY <1>1 DEF Levels, HeightAssumption
<1>4. BitSet(n + 1, stop) /\ \A k \in 0 .. stop - 1 : ~BitSet(n + 1, k)
  BY <1>1 DEF IsStopLevel
<1>5. DOMAIN fr = Levels
  BY <1>2
<1>6. ASSUME NEW h \in Levels, BitSet(n + 1, h)
      PROVE  fr[h] = T[h][Shr(n + 1)[h] - 1]
  <2>1. h \in Nat
    BY DEF Levels, HeightAssumption
  <2>2. CASE h = stop
    <3>1. fr[h] = ClimbNode(seq[n + 1], front)[h]
      BY <1>1, <1>2, <2>2
    <3>2. ClimbNode(seq[n + 1], front)[h] = T[h][Shr(n + 1)[h] - 1]
      BY <1>3, <1>4, <2>2, AddLeafClimbs
    <3> QED
      BY <3>1, <3>2
  <2>3. CASE h < stop
    BY <1>4, <1>6, <2>1, <1>3, <2>3
  <2>4. CASE h > stop
    <3>1. fr[h] = front[h]
      BY <1>2, <2>4, <1>3, <2>1
    <3>2. Shr(n + 1)[h] = Shr(n)[h]
      BY <1>3, <1>4, <2>1, <2>4, ShrAboveCarry
    <3>3. BitSet(n, h)
      BY <1>6, <3>2 DEF BitSet
    <3>4. front[h] = T0[h][Shr(n)[h] - 1]
      BY <3>3 DEF IsFrontierOf
    <3>5. \A j \in Nat : j < n => LeavesOf(seq, n)[j] = LeavesOf(seq, n + 1)[j]
      BY DEF LeavesOf
    <3>6. Shr(n)[h] - 1 \in Nat /\ Shr(n)[h] - 1 < Shr(n)[h]
      <4>1. Shr(n)[h + 1] \in Nat /\ Shr(n)[h] = 2 * Shr(n)[h + 1] + 1
        BY <2>1, <3>3, ShrDigit
      <4> QED
        BY <4>1
    <3>7. T0[h][Shr(n)[h] - 1] = T[h][Shr(n)[h] - 1]
      BY <2>1, <3>5, <3>6, TreeAgrees
    <3> QED
      BY <3>1, <3>2, <3>4, <3>7
  <2> QED
    BY <1>3, <2>1, <2>2, <2>3, <2>4
<1>7. IsFrontierOf(fr, seq, n + 1)
  BY <1>6 DEF IsFrontierOf
<1> QED
  BY <1>5, <1>7 DEF fr

\* A tree that still fits after one more leaf does not make addLeaf panic.
LEMMA NoPanicWhileItFits ==
    ASSUME HeightAssumption, NEW n \in Nat, Shr(n + 1)[Height] = 0
    PROVE  ~AddLeafPanics(n + 1)
<1>1. SUFFICES ASSUME AddLeafPanics(n + 1) PROVE FALSE
  OBVIOUS
<1>2. Height \in Nat /\ \A k \in 0 .. Height - 1 : ~BitSet(n + 1, k)
  BY <1>1 DEF AddLeafPanics, Levels, HeightAssumption
<1>3. Shr(n + 1)[Height] = Shr(n)[Height] + 1 /\ Shr(n)[Height] \in Nat
  BY <1>2, ShrCarry, ShrUnfolds
<1> QED
  BY <1>3

----------------------------------------------------------------------------
(* The capacity of the tree.                                                *)

\* addLeaf panics for the number of leaves that fills the tree, and no other.
THEOREM PanicsWhenFull ==
    ASSUME HeightAssumption, NEW n \in Nat, Shr(n)[Height] = 0,
           AddLeafPanics(n + 1)
    PROVE  n + 1 = Power(2)[Height]
<1>1. Height \in Nat /\ \A k \in 0 .. Height - 1 : ~BitSet(n + 1, k)
  BY DEF AddLeafPanics, Levels, HeightAssumption
<1>2. Shr(n + 1)[Height] = 1
  BY <1>1, ShrCarry
<1>3. n + 1 = Shr(n + 1)[Height] * Power(2)[Height]
  BY <1>1, ShrOfMultiple
<1>4. Power(2)[Height] \in Nat
  BY <1>1, PowerUnfolds
<1> QED
  BY <1>2, <1>3, <1>4

----------------------------------------------------------------------------
(* What the root tells, if the hash function is free of collisions.         *)

CollisionFree ==
    \A a, b, c, d : Hash(a, b) = Hash(c, d) => a = c /\ b = d

\* Equal roots have equal nodes on the path to each leaf, and equal leaves.
LEMMA LeafBelowRoot ==
    ASSUME CollisionFree, NEW f, NEW g, NEW n \in Nat
    PROVE  \A h \in Nat : TreeNode(f)[h][Shr(n)[h]] = TreeNode(g)[h][Shr(n)[h]]
                             => f[n] = g[n]
<1> DEFINE Same(h) == TreeNode(f)[h][Shr(n)[h]] = TreeNode(g)[h][Shr(n)[h]]
           S == {h \in Nat : Same(h) => f[n] = g[n]}
<1>1. 0 \in S
  BY ShrUnfolds, TreeUnfolds
<1>2. ASSUME NEW h \in Nat, h \in S PROVE h + 1 \in S
  <2> DEFINE s == Shr(n)[h + 1]
  <2>1. s \in Nat /\ Shr(n)[h] \in {2 * s, 2 * s + 1}
    BY ShrDigit
  <2> HIDE DEF s
  <2>2. TreeNode(f)[h + 1][s]
          = Hash(TreeNode(f)[h][2 * s], TreeNode(f)[h][2 * s + 1])
    BY <2>1, TreeUnfolds
  <2>3. TreeNode(g)[h + 1][s]
          = Hash(TreeNode(g)[h][2 * s], TreeNode(g)[h][2 * s + 1])
    BY <2>1, TreeUnfolds
  <2>4. ASSUME TreeNode(f)[h + 1][s] = TreeNode(g)[h + 1][s] PROVE Same(h)
    <3>1. Hash(TreeNode(f)[h][2 * s], TreeNode(f)[h][2 * s + 1])
            = Hash(TreeNode(g)[h][2 * s], TreeNode(g)[h][2 * s + 1])
      BY <2>2, <2>3, <2>4
    <3>2. /\ TreeNode(f)[h][2 * s] = TreeNode(g)[h][2 * s]
          /\ TreeNode(f)[h][2 * s + 1] = TreeNode(g)[h][2 * s + 1]
      BY <3>1 DEF CollisionFree
    <3> QED
      BY <2>1, <3>2
  <2> QED
    BY <1>2, <2>4 DEF s
<1> HIDE DEF S
<1>3. \A h \in Nat : h \in S
  BY <1>1, <1>2, NatInduct
<1> QED
  BY <1>3 DEF S

\* No two roots of a tree that is filled from the left are the same.
THEOREM RootsDiffer ==
    ASSUME HeightAssumption, CollisionFree, NEW seq, NEW m \in Nat, NEW n \in Nat,
           m < n, seq[m + 1] # HashZero, Shr(m)[Height] = 0
    PROVE  TreeRoot(seq, m) # TreeRoot(seq, n)
<1>1. Height \in Nat
  BY DEF HeightAssumption
<1>2. LeavesOf(seq, m)[m] = HashZero /\ LeavesOf(seq, n)[m] = seq[m + 1]
  BY <1>1 DEF LeavesOf
<1>3. SUFFICES ASSUME TreeRoot(seq, m) = TreeRoot(seq, n) PROVE FALSE
  OBVIOUS
<1>4. TreeNode(LeavesOf(seq, m))[Height][Shr(m)[Height]]
        = TreeNode(LeavesOf(seq, n))[Height][Shr(m)[Height]]
  BY <1>3 DEF TreeRoot
<1>5. LeavesOf(seq, m)[m] = LeavesOf(seq, n)[m]
  BY <1>1, <1>4, LeafBelowRoot
<1> QED
  BY <1>2, <1>5

----------------------------------------------------------------------------
(* LERReplay.                                                               *)

\* A place of the tree is still free.
Fits == outcome # "panicked" => Shr(depositCount)[Height] = 0

\* The inductive invariant: RootCorrect follows from FrontierCorrect and Fits,
\* BatchWitness needs OpenBatch and RootCorrect at the verify event.
Inv ==
    /\ TypeOK
    /\ FrontierCorrect
    /\ Fits
    /\ OpenBatch
    /\ BatchWitness

----------------------------------------------------------------------------
\* Zero stays zero when it is shifted.
LEMMA ShrOfZero == \A h \in Nat : Shr(0)[h] = 0
<1> DEFINE S == {h \in Nat : Shr(0)[h] = 0}
<1>1. 0 \in S
  BY ShrUnfolds
<1>2. ASSUME NEW h \in Nat, h \in S PROVE h + 1 \in S
  <2>1. Shr(0)[h + 1] = Shr(0)[h] \div 2
    BY ShrUnfolds
  <2> QED
    BY <1>2, <2>1
<1> HIDE DEF S
<1>3. \A h \in Nat : h \in S
  BY <1>1, <1>2, NatInduct
<1> QED
  BY <1>3 DEF S

\* Any frontier stands for no leaves at all.
LEMMA FrontierOfNothing ==
    ASSUME HeightAssumption, NEW front, NEW seq
    PROVE  IsFrontierOf(front, seq, 0)
  BY ShrOfZero DEF IsFrontierOf, BitSet, Levels, HeightAssumption

\* addLeaf leaves a place free if it does not panic.
LEMMA FitsAfterAddLeaf ==
    ASSUME HeightAssumption, NEW n \in Nat, ~AddLeafPanics(n + 1),
           Shr(n)[Height] = 0
    PROVE  Shr(n + 1)[Height] = 0
<1>1. PICK stop \in Levels : IsStopLevel(n + 1, stop)
  BY StopLevelExists
<1>2. stop \in Nat /\ Height \in Nat /\ Height > stop
  BY DEF Levels, HeightAssumption
<1>3. Shr(n + 1)[Height] = Shr(n)[Height]
  BY <1>1, <1>2, ShrAboveCarry DEF IsStopLevel
<1> QED
  BY <1>3

\* Facts about the first n leaves survive the arrival of another one.
LEMMA LeavesOfAppend ==
    ASSUME NEW S, NEW seq \in Seq(S), NEW x \in S, NEW n \in 0 .. Len(seq)
    PROVE  LeavesOf(Append(seq, x), n) = LeavesOf(seq, n)
<1>1. ASSUME NEW j \in Nat, j < n PROVE Append(seq, x)[j + 1] = seq[j + 1]
  BY <1>1
<1> QED
  BY <1>1 DEF LeavesOf

\* What the contract appends does not change a frontier of what was there.
LEMMA FrontierAppend ==
    ASSUME NEW S, NEW seq \in Seq(S), NEW x \in S, NEW n \in 0 .. Len(seq),
           NEW front, IsFrontierOf(front, seq, n)
    PROVE  IsFrontierOf(front, Append(seq, x), n)
  BY LeavesOfAppend DEF IsFrontierOf

\* What the contract appends does not change a root over what was there.
LEMMA TreeRootAppend ==
    ASSUME NEW S, NEW seq \in Seq(S), NEW x \in S, NEW n \in 0 .. Len(seq)
    PROVE  TreeRoot(Append(seq, x), n) = TreeRoot(seq, n)
  BY LeavesOfAppend DEF TreeRoot

\* What is appended does not change what was cut out before.
LEMMA SubSeqAppend ==
    ASSUME NEW S, NEW seq \in Seq(S), NEW x \in S,
           NEW m \in Nat, NEW n \in 0 .. Len(seq), m <= n
    PROVE  SubSeq(Append(seq, x), m + 1, n) = SubSeq(seq, m + 1, n)
  OBVIOUS

\* What is cut out grows by one element at its end.
LEMMA SubSeqExtend ==
    ASSUME NEW S, NEW seq \in Seq(S), NEW m \in Nat, NEW n \in Nat,
           m <= n, n < Len(seq)
    PROVE  /\ Append(SubSeq(seq, m + 1, n), seq[n + 1]) = SubSeq(seq, m + 1, n + 1)
           /\ Len(SubSeq(seq, m + 1, n)) = n - m
  OBVIOUS

----------------------------------------------------------------------------
\* Nothing has been replayed.
LEMMA InitInv == ASSUME HeightAssumption PROVE Init => Inv
<1> SUFFICES ASSUME Init PROVE Inv
  OBVIOUS
<1> USE DEF Init
<1>1. TypeOK
  BY MaxDepositsAssumption DEF TypeOK, NoOutput, EmptyFrontier
<1>2. FrontierCorrect
  BY FrontierOfNothing DEF FrontierCorrect
<1>3. Fits
  BY ShrOfZero DEF Fits, HeightAssumption
<1>4. OpenBatch
  BY FrontierOfNothing DEF OpenBatch
<1>5. BatchWitness
  BY FrontierOfNothing DEF BatchWitness, NoOutput
<1> QED
  BY <1>1, <1>2, <1>3, <1>4, <1>5 DEF Inv

\* calculateRoot is right whenever the replay has not panicked.
LEMMA InvRoot ==
    ASSUME HeightAssumption, Inv PROVE RootCorrect
<1> SUFFICES ASSUME outcome # "panicked"
             PROVE  CalculateRoot(frontier, depositCount)
                      = TreeRoot(chain, depositCount)
  BY DEF RootCorrect
<1>1. depositCount \in Nat
  BY DEF Inv, TypeOK
<1>2. IsFrontierOf(frontier, chain, depositCount) /\ Shr(depositCount)[Height] = 0
  BY DEF Inv, FrontierCorrect, Fits
<1> QED
  BY <1>1, <1>2, CalculateRootCorrect

\* A deposit of the contract leaves the replay alone.
LEMMA BridgeDepositInv ==
    ASSUME HeightAssumption, Inv, NEW leaf \in Leaves, BridgeDeposit(leaf)
    PROVE  Inv'
<1> USE DEF Inv, BridgeDeposit, replayVars
<1>0. /\ chain \in Seq(Leaves) /\ chain' = Append(chain, leaf)
      /\ Len(chain') = Len(chain) + 1 /\ Len(chain) < MaxDeposits
      /\ depositCount \in 0 .. Len(chain)
  BY DEF TypeOK
<1>1. TypeOK'
  <2>1. chain' \in Seq(Leaves) /\ Len(chain') <= MaxDeposits
    BY <1>0, MaxDepositsAssumption
  <2>2. depositCount' \in 0 .. Len(chain')
    BY <1>0
  <2>3. checked' \subseteq 0 .. Len(chain')
    BY <1>0 DEF TypeOK
  <2> QED
    BY <2>1, <2>2, <2>3 DEF TypeOK
<1>2. FrontierCorrect'
  BY <1>0, FrontierAppend DEF FrontierCorrect
<1>3. Fits'
  BY DEF Fits
<1>4. OpenBatch'
  <2> DEFINE start == depositCount - Len(batchDeposits)
  <2>1. /\ start \in Nat /\ start \in 0 .. Len(chain)
        /\ start <= depositCount
    BY <1>0 DEF TypeOK
  <2>2. IsFrontierOf(batchFrontier, chain, start)
          => IsFrontierOf(batchFrontier, chain', start)
    BY <1>0, <2>1, FrontierAppend
  <2>3. SubSeq(chain', start + 1, depositCount)
          = SubSeq(chain, start + 1, depositCount)
    BY <1>0, <2>1, SubSeqAppend
  <2> HIDE DEF BridgeDeposit
  <2>4. UNCHANGED <<depositCount, batchDeposits, batchFrontier, outcome>>
    BY DEF BridgeDeposit
  <2> QED
    BY <2>2, <2>3, <2>4 DEF OpenBatch
<1>5. BatchWitness'
  <2> DEFINE total == output.total
             start == total - Len(output.deposits)
  <2>1. /\ start \in Nat /\ start \in 0 .. Len(chain)
        /\ start <= total /\ total \in 0 .. Len(chain)
    BY <1>0 DEF TypeOK
  <2>2. /\ IsFrontierOf(output.frontier, chain, start)
        /\ output.deposits = SubSeq(chain, start + 1, total)
        /\ output.root = TreeRoot(chain, total)
    BY DEF BatchWitness
  <2> HIDE DEF start, total, Inv, BridgeDeposit
  <2>3. IsFrontierOf(output.frontier, chain', start)
    BY <1>0, <2>1, <2>2, FrontierAppend
  <2>4. SubSeq(chain', start + 1, total) = SubSeq(chain, start + 1, total)
    BY <1>0, <2>1, SubSeqAppend
  <2>5. TreeRoot(chain', total) = TreeRoot(chain, total)
    BY <1>0, <2>1, TreeRootAppend
  <2>6. UNCHANGED output
    BY DEF BridgeDeposit
  <2> QED
    BY <2>2, <2>3, <2>4, <2>5, <2>6 DEF BatchWitness, start, total
<1> QED
  BY <1>1, <1>2, <1>3, <1>4, <1>5

\* A check that fails ends the replay and changes nothing else.
LEMMA FailInv ==
    ASSUME Inv, outcome = "running", Fail, UNCHANGED chain,
           checked' \subseteq 0 .. Len(chain)
    PROVE  Inv'
<1> USE DEF Inv, Fail
<1>1. TypeOK'
  BY DEF TypeOK
<1>2. FrontierCorrect' /\ Fits' /\ OpenBatch'
  BY DEF FrontierCorrect, Fits, OpenBatch
<1>3. BatchWitness'
  BY DEF BatchWitness
<1> QED
  BY <1>1, <1>2, <1>3

\* A deposit is inserted, or ends the replay.
LEMMA DepositEventInv ==
    ASSUME HeightAssumption, Inv, NEW count \in 0 .. Len(chain) - 1,
           DepositEvent(count)
    PROVE  Inv'
<1>1. CASE count # depositCount /\ Fail
  BY <1>1, FailInv DEF DepositEvent
<1>2. CASE count = depositCount /\ AddLeafPanics(count + 1)
  <2>1. /\ outcome' = "panicked" /\ depositCount' = count + 1 /\ checked' = {}
        /\ UNCHANGED <<chain, frontier, batchDeposits, batchFrontier, output>>
    BY <1>2 DEF DepositEvent, Fail
  <2>2. TypeOK'
    BY <1>2, <2>1 DEF Inv, TypeOK
  <2>3. FrontierCorrect' /\ Fits' /\ OpenBatch'
    BY <2>1 DEF FrontierCorrect, Fits, OpenBatch
  <2>4. BatchWitness'
    BY <2>1 DEF Inv, BatchWitness
  <2> QED
    BY <2>2, <2>3, <2>4 DEF Inv
<1>3. CASE count = depositCount /\ ~AddLeafPanics(count + 1)
  <2>1. /\ outcome = "running" /\ checked' = {}
        /\ depositCount' = count + 1
        /\ frontier' = AddLeaf(chain[count + 1], frontier, count + 1)
        /\ batchDeposits' = Append(batchDeposits, chain[count + 1])
        /\ UNCHANGED <<chain, batchFrontier, output, outcome>>
    BY <1>3 DEF DepositEvent, Fail
  <2>2. /\ chain \in Seq(Leaves) /\ count \in Nat /\ count < Len(chain)
        /\ chain[count + 1] \in Leaves /\ count + 1 \in 0 .. Len(chain)
    BY DEF Inv, TypeOK
  <2>3. /\ DOMAIN frontier = Levels /\ IsFrontierOf(frontier, chain, count)
        /\ Shr(count)[Height] = 0
    BY <1>3, <2>1 DEF Inv, TypeOK, FrontierCorrect, Fits
  <2>4. /\ DOMAIN frontier' = Levels
        /\ IsFrontierOf(frontier', chain, count + 1)
    BY <1>3, <2>1, <2>2, <2>3, AddLeafCorrect
  <2>5. TypeOK'
    <3>1. batchDeposits' \in Seq(Leaves) /\ Len(batchDeposits') <= depositCount'
      BY <1>3, <2>1, <2>2 DEF Inv, TypeOK
    <3> QED
      BY <1>3, <2>1, <2>2, <2>4, <3>1 DEF Inv, TypeOK
  <2>6. FrontierCorrect'
    BY <2>1, <2>4 DEF FrontierCorrect
  <2>7. Fits'
    BY <1>3, <2>1, <2>2, <2>3, FitsAfterAddLeaf DEF Fits
  <2>8. OpenBatch'
    <3> DEFINE start == depositCount - Len(batchDeposits)
    <3>1. /\ start \in Nat /\ start <= count
          /\ Len(batchDeposits') = Len(batchDeposits) + 1
      BY <1>3, <2>1, <2>2 DEF Inv, TypeOK
    <3>2. IsFrontierOf(batchFrontier, chain, start)
          /\ batchDeposits = SubSeq(chain, start + 1, count)
      BY <1>3, <2>1 DEF Inv, OpenBatch
    <3>3. depositCount' - Len(batchDeposits') = start
      BY <1>3, <2>1, <2>2, <3>1 DEF Inv, TypeOK
    <3>4. batchDeposits' = SubSeq(chain, start + 1, count + 1)
      <4> HIDE DEF start
      <4>1. Append(SubSeq(chain, start + 1, count), chain[count + 1])
              = SubSeq(chain, start + 1, count + 1)
        BY <2>2, <3>1, SubSeqExtend
      <4> QED
        BY <2>1, <3>2, <4>1
    <3> QED
      BY <2>1, <3>2, <3>3, <3>4 DEF OpenBatch
  <2>9. BatchWitness'
    BY <2>1 DEF Inv, BatchWitness
  <2> QED
    BY <2>5, <2>6, <2>7, <2>8, <2>9 DEF Inv
<1> QED
  BY <1>1, <1>2, <1>3 DEF DepositEvent

\* A batch that is large enough is written.
LEMMA VerifyTrustedSequencerEventInv ==
    ASSUME HeightAssumption, Inv, VerifyTrustedSequencerEvent
    PROVE  Inv'
<1>1. /\ outcome = "running" /\ batchDeposits' = <<>>
      /\ batchFrontier' = frontier /\ checked' = {}
      /\ UNCHANGED <<chain, frontier, depositCount, outcome>>
  BY DEF VerifyTrustedSequencerEvent
<1>2. /\ depositCount \in 0 .. Len(chain) /\ chain \in Seq(Leaves)
      /\ IsFrontierOf(frontier, chain, depositCount)
      /\ CalculateRoot(frontier, depositCount) = TreeRoot(chain, depositCount)
  BY <1>1, InvRoot DEF Inv, TypeOK, FrontierCorrect, RootCorrect
<1>3. CASE output' = output
  <2>1. TypeOK'
    BY <1>1, <1>2, <1>3 DEF Inv, TypeOK
  <2>2. BatchWitness'
    BY <1>1, <1>3 DEF Inv, BatchWitness
  <2> QED
    BY <1>1, <1>2, <2>1, <2>2 DEF Inv, FrontierCorrect, Fits, OpenBatch
<1>4. CASE output' = [total    |-> depositCount,
                      deposits |-> batchDeposits,
                      frontier |-> batchFrontier,
                      root     |-> CalculateRoot(frontier, depositCount)]
  <2>1. TypeOK'
    BY <1>1, <1>2, <1>4 DEF Inv, TypeOK
  <2>2. BatchWitness'
    BY <1>1, <1>2, <1>4 DEF Inv, OpenBatch, BatchWitness
  <2> QED
    BY <1>1, <1>2, <2>1, <2>2 DEF Inv, FrontierCorrect, Fits, OpenBatch
<1> QED
  BY <1>3, <1>4 DEF VerifyTrustedSequencerEvent, WriteBatch

\* Every step keeps the invariant.
LEMMA NextInv == ASSUME HeightAssumption, Inv, [Next]_vars PROVE Inv'
<1>1. ASSUME NEW leaf \in Leaves, BridgeDeposit(leaf) PROVE Inv'
  BY <1>1, BridgeDepositInv
<1>2. ASSUME NEW count \in 0 .. Len(chain) - 1, DepositEvent(count) PROVE Inv'
  BY <1>2, DepositEventInv
<1>3. ASSUME NEW n \in 0 .. Len(chain), V1GEREvent(n) PROVE Inv'
  <2>1. CASE Fail
    BY <1>3, <2>1, FailInv DEF V1GEREvent
  <2>2. CASE UNCHANGED replayVars
    BY <1>3, <2>2 DEF V1GEREvent, replayVars, Inv, TypeOK, FrontierCorrect,
                      Fits, OpenBatch, BatchWitness
  <2> QED
    BY <1>3, <2>1, <2>2 DEF V1GEREvent
<1>4. CASE VerifyTrustedSequencerEvent
  BY <1>4, VerifyTrustedSequencerEventInv
<1>5. CASE UNCHANGED vars
  BY <1>5 DEF vars, replayVars, Inv, TypeOK, FrontierCorrect, Fits, OpenBatch,
              BatchWitness
<1> QED
  BY <1>1, <1>2, <1>3, <1>4, <1>5 DEF Next

\* The inductive invariant holds in every state.
THEOREM Invariance == Spec => []Inv
<1>1. Init => Inv
  BY InitInv, HeightAssumption
<1>2. Inv /\ [Next]_vars => Inv'
  BY NextInv, HeightAssumption
<1> QED
  BY <1>1, <1>2, PTL DEF Spec

\* The types of LERReplay, and that no batch is longer than the deposits read.
THEOREM Typing == Spec => []TypeOK
<1>1. Inv => TypeOK
  BY DEF Inv
<1> QED
  BY <1>1, Invariance, PTL

\* The frontier of the replay is that of the deposits it has read.
THEOREM FrontierAlwaysCorrect == Spec => []FrontierCorrect
<1>1. Inv => FrontierCorrect
  BY DEF Inv
<1> QED
  BY <1>1, Invariance, PTL

\* The local exit root the replay computes is always that of the whole tree.
THEOREM RootAlwaysCorrect == Spec => []RootCorrect
<1>1. Inv => RootCorrect
  BY InvRoot, HeightAssumption
<1> QED
  BY <1>1, Invariance, PTL

\* The batch being collected stands at its place in the tree.
THEOREM OpenBatchAlwaysPlaced == Spec => []OpenBatch
<1>1. Inv => OpenBatch
  BY DEF Inv
<1> QED
  BY <1>1, Invariance, PTL

\* Every batch written out is a witness of its root.
THEOREM BatchesAreWitnesses == Spec => []BatchWitness
<1>1. Inv => BatchWitness
  BY DEF Inv
<1> QED
  BY <1>1, Invariance, PTL
----------------------------------------------------------------------------
\* The batch being collected starts where the last one written ended, or later.
Apart == output.total + Len(batchDeposits) <= depositCount

\* Every step keeps the open batch apart from the written one.
LEMMA NextApart == ASSUME Inv, Apart, [Next]_vars PROVE Apart'
<1>0. /\ output.total \in Nat /\ depositCount \in Nat
      /\ batchDeposits \in Seq(Leaves) /\ Len(batchDeposits) \in Nat
      /\ chain \in Seq(Leaves)
  BY DEF Inv, TypeOK
<1>1. ASSUME NEW leaf \in Leaves, BridgeDeposit(leaf) PROVE Apart'
  BY <1>1 DEF BridgeDeposit, replayVars, Apart
<1>2. ASSUME NEW count \in 0 .. Len(chain) - 1, DepositEvent(count)
      PROVE  Apart'
  <2>1. CASE Fail
    BY <1>2, <2>1 DEF Fail, Apart
  <2>2. CASE count = depositCount /\ AddLeafPanics(count + 1)
    BY <1>0, <1>2, <2>2 DEF DepositEvent, Fail, Apart
  <2>3. CASE count = depositCount /\ ~AddLeafPanics(count + 1)
    <3>1. /\ depositCount' = depositCount + 1 /\ UNCHANGED output
          /\ batchDeposits' = Append(batchDeposits, chain[count + 1])
      BY <1>2, <2>3 DEF DepositEvent, Fail
    <3>2. chain[count + 1] \in Leaves
      BY <1>0, <1>2
    <3>3. Len(batchDeposits') = Len(batchDeposits) + 1
      BY <1>0, <3>1, <3>2
    <3> QED
      BY <1>0, <3>1, <3>3 DEF Apart
  <2> QED
    BY <1>2, <2>1, <2>2, <2>3 DEF DepositEvent
<1>3. ASSUME NEW n \in 0 .. Len(chain), V1GEREvent(n) PROVE Apart'
  BY <1>3 DEF V1GEREvent, Fail, replayVars, Apart
<1>4. CASE VerifyTrustedSequencerEvent
  <2>1. batchDeposits' = <<>> /\ UNCHANGED depositCount
    BY <1>4 DEF VerifyTrustedSequencerEvent
  <2>2. output'.total \in {output.total, depositCount}
    BY <1>4 DEF VerifyTrustedSequencerEvent, WriteBatch
  <2> QED
    BY <1>0, <2>1, <2>2 DEF Apart
<1>5. CASE UNCHANGED vars
  BY <1>5 DEF vars, replayVars, Apart
<1> QED
  BY <1>1, <1>2, <1>3, <1>4, <1>5 DEF Next

\* A batch that is written follows the one written before it.
LEMMA NextDisjoint ==
    ASSUME Inv, Apart, [Next]_vars, output' # output
    PROVE  output'.total - Len(output'.deposits) >= output.total
<1>1. WriteBatch
  BY DEF Next, BridgeDeposit, DepositEvent, V1GEREvent, Fail, vars, replayVars,
         VerifyTrustedSequencerEvent
<1>2. /\ output'.total = depositCount
      /\ output'.deposits = batchDeposits
  BY <1>1 DEF WriteBatch
<1> QED
  BY <1>2 DEF Apart, Inv, TypeOK

\* No deposit is in two written batches.
THEOREM BatchesAreDisjoint == Spec => BatchesDisjoint
<1>1. Init => Apart
  BY DEF Init, Apart, NoOutput
<1>2. Inv /\ Apart /\ [Next]_vars => Apart'
  BY NextApart
<1>3. Inv /\ Apart /\ [Next]_vars
        => [output' # output =>
              output'.total - Len(output'.deposits) >= output.total]_vars
  BY NextDisjoint
<1> QED
  BY <1>1, <1>2, <1>3, Invariance, PTL DEF Spec, BatchesDisjoint
----------------------------------------------------------------------------
(* The panic, and the batches that are written before it.                   *)

\* Only the deposit that fills the tree panics, and no batch has it.
Bounds ==
    /\ outcome = "panicked" => depositCount = Power(2)[Height]
    /\ Shr(output.total)[Height] = 0

\* Every step keeps the deposits within the tree.
LEMMA NextBounds ==
    ASSUME HeightAssumption, Inv, Bounds, [Next]_vars PROVE Bounds'
<1>1. ASSUME NEW leaf \in Leaves, BridgeDeposit(leaf) PROVE Bounds'
  BY <1>1 DEF BridgeDeposit, replayVars, Bounds
<1>2. ASSUME NEW count \in 0 .. Len(chain) - 1, DepositEvent(count)
      PROVE  Bounds'
  <2>1. CASE Fail
    BY <1>2, <2>1 DEF Fail, Bounds
  <2>2. CASE count = depositCount /\ AddLeafPanics(count + 1)
    <3>1. depositCount' = count + 1 /\ UNCHANGED output
      BY <1>2, <2>2 DEF DepositEvent, Fail
    <3>2. depositCount \in Nat /\ Shr(depositCount)[Height] = 0
      BY <1>2 DEF DepositEvent, Inv, TypeOK, Fits
    <3>3. depositCount' = Power(2)[Height]
      BY <2>2, <3>1, <3>2, PanicsWhenFull
    <3> QED
      BY <3>1, <3>3 DEF Bounds
  <2>3. CASE count = depositCount /\ ~AddLeafPanics(count + 1)
    BY <1>2, <2>3 DEF DepositEvent, Fail, Bounds
  <2> QED
    BY <1>2, <2>1, <2>2, <2>3 DEF DepositEvent
<1>3. ASSUME NEW n \in 0 .. Len(chain), V1GEREvent(n) PROVE Bounds'
  BY <1>3 DEF V1GEREvent, Fail, replayVars, Bounds
<1>4. CASE VerifyTrustedSequencerEvent
  <2>1. outcome = "running" /\ UNCHANGED <<depositCount, outcome>>
    BY <1>4 DEF VerifyTrustedSequencerEvent
  <2>2. output'.total \in {output.total, depositCount}
    BY <1>4 DEF VerifyTrustedSequencerEvent, WriteBatch
  <2> QED
    BY <2>1, <2>2 DEF Bounds, Inv, Fits
<1>5. CASE UNCHANGED vars
  BY <1>5 DEF vars, replayVars, Bounds
<1> QED
  BY <1>1, <1>2, <1>3, <1>4, <1>5 DEF Next

\* A panic says that the tree is full, and no written batch has filled it.
THEOREM Bounded == Spec => [](Inv /\ Bounds)
<1>1. Init => Inv /\ Bounds
  BY InitInv, ShrOfZero, HeightAssumption DEF Init, Bounds, NoOutput, HeightAssumption
<1>2. Inv /\ Bounds /\ [Next]_vars => (Inv /\ Bounds)'
  BY NextInv, NextBounds, HeightAssumption
<1> QED
  BY <1>1, <1>2, PTL DEF Spec

\* addLeaf reaches its panic only with the deposit that fills the tree.
THEOREM PanicsOnlyWhenFull == Spec => []PanicOnlyWhenFull
<1>1. Inv /\ Bounds => PanicOnlyWhenFull
  BY DEF Bounds, PanicOnlyWhenFull
<1> QED
  BY <1>1, Bounded, PTL

----------------------------------------------------------------------------
(* The consumer of a written batch.                                         *)

\* The frontier of InsertAll after each number of deposits.
Inserts(front, n, deposits) ==
    LET f[i \in Nat] ==
            IF i = 0 THEN front ELSE AddLeaf(deposits[i], f[i - 1], n + i)
    IN  f

InsertStep(p, i, x) == AddLeaf(p.deposits[i + 1], x, p.n + (i + 1))
InsertLoop == INSTANCE NatRecursion WITH Step <- InsertStep

\* Inserting one leaf after the other, step by step.
LEMMA InsertsUnfolds ==
    ASSUME NEW front, NEW n, NEW deposits
    PROVE  /\ Inserts(front, n, deposits)[0] = front
           /\ \A i \in Nat :
                Inserts(front, n, deposits)[i + 1]
                  = AddLeaf(deposits[i + 1], Inserts(front, n, deposits)[i],
                            n + (i + 1))
<1> DEFINE p == [n |-> n, deposits |-> deposits]
           g == InsertLoop!Loop(p, front)
           F(f) == [i \in Nat |-> IF i = 0 THEN front
                                  ELSE AddLeaf(deposits[i], f[i - 1], n + i)]
           f0 == Inserts(front, n, deposits)
<1>1. g = F(g)
  <2>1. p.n = n /\ p.deposits = deposits
    OBVIOUS
  <2> HIDE DEF p
  <2>2. g = [i \in Nat |-> IF i = 0 THEN front
                           ELSE InsertStep(p, i - 1, InsertLoop!Loop(p, front)[i - 1])]
    BY InsertLoop!LoopDef
  <2> HIDE DEF g
  <2>3. g = [i \in Nat |-> IF i = 0 THEN front
                           ELSE InsertStep(p, i - 1, g[i - 1])]
    BY <2>2 DEF g
  <2>4. ASSUME NEW i \in Nat
        PROVE  (IF i = 0 THEN front ELSE InsertStep(p, i - 1, g[i - 1]))
                 = (IF i = 0 THEN front ELSE AddLeaf(deposits[i], g[i - 1], n + i))
    <3>1. CASE i = 0
      BY <3>1
    <3>2. CASE i # 0
      <4>1. (i - 1) + 1 = i
        OBVIOUS
      <4>2. InsertStep(p, i - 1, g[i - 1])
              = AddLeaf(deposits[(i - 1) + 1], g[i - 1], n + ((i - 1) + 1))
        BY <2>1 DEF InsertStep
      <4> QED
        BY <3>2, <4>1, <4>2
    <3> QED
      BY <3>1, <3>2
  <2> QED
    BY <2>3, <2>4
<1> HIDE DEF g
<1>2. f0 = F(f0)
  BY <1>1 DEF Inserts
<1> HIDE DEF f0
<1>3. f0[0] = front
  BY <1>2
<1>4. ASSUME NEW i \in Nat
      PROVE  f0[i + 1] = AddLeaf(deposits[i + 1], f0[i], n + (i + 1))
  <2>1. i + 1 \in Nat /\ i + 1 # 0 /\ (i + 1) - 1 = i
    OBVIOUS
  <2>2. f0[i + 1] = AddLeaf(deposits[i + 1], f0[(i + 1) - 1], n + (i + 1))
    BY <1>2, <2>1
  <2> QED
    BY <2>1, <2>2
<1> QED
  BY <1>3, <1>4 DEF f0

\* Inserting the leaves from n to total into the frontier of the first n gives
\* the frontier of all of them.
THEOREM InsertAllCorrect ==
    ASSUME HeightAssumption, NEW S, NEW seq \in Seq(S), NEW n \in Nat,
           NEW total \in 0 .. Len(seq), n <= total, Shr(total)[Height] = 0,
           NEW front, DOMAIN front = Levels, IsFrontierOf(front, seq, n)
    PROVE  IsFrontierOf(InsertAll(front, n, SubSeq(seq, n + 1, total)), seq, total)
<1> DEFINE d == SubSeq(seq, n + 1, total)
           f == Inserts(front, n, d)
           I == {i \in Nat : i <= total - n =>
                               /\ DOMAIN f[i] = Levels
                               /\ IsFrontierOf(f[i], seq, n + i)}
<1>0. Len(d) = total - n /\ \A i \in 1 .. total - n : d[i] = seq[n + i]
  OBVIOUS
<1> HIDE DEF d
<1>1. f[0] = front
  BY InsertsUnfolds
<1>2. \A i \in Nat : f[i + 1] = AddLeaf(d[i + 1], f[i], n + (i + 1))
  BY InsertsUnfolds
<1> HIDE DEF f
<1>3. 0 \in I
  BY <1>1
<1>4. ASSUME NEW i \in Nat, i \in I PROVE i + 1 \in I
  <2> SUFFICES ASSUME i + 1 <= total - n
               PROVE  /\ DOMAIN f[i + 1] = Levels
                      /\ IsFrontierOf(f[i + 1], seq, n + (i + 1))
    OBVIOUS
  <2> DEFINE m == n + i
  <2>1. m \in Nat /\ m + 1 = n + (i + 1) /\ m + 1 <= total /\ total \in Nat
    OBVIOUS
  <2>2. DOMAIN f[i] = Levels /\ IsFrontierOf(f[i], seq, m)
    BY <1>4
  <2>3. d[i + 1] = seq[m + 1]
    BY <1>0, <2>1
  <2> HIDE DEF m
  <2>4. Shr(m + 1)[Height] = 0
    <3>1. Shr(m + 1)[Height] <= Shr(total)[Height]
      BY <2>1, ShrMonotone DEF HeightAssumption
    <3>2. Shr(m + 1)[Height] \in Nat
      BY <2>1, ShrUnfolds DEF HeightAssumption
    <3> QED
      BY <3>1, <3>2
  <2>5. ~AddLeafPanics(m + 1)
    BY <2>1, <2>4, NoPanicWhileItFits
  <2>6. f[i + 1] = AddLeaf(seq[m + 1], f[i], m + 1)
    BY <1>2, <2>1, <2>3
  <2> HIDE DEF I
  <2>7. /\ DOMAIN AddLeaf(seq[m + 1], f[i], m + 1) = Levels
        /\ IsFrontierOf(AddLeaf(seq[m + 1], f[i], m + 1), seq, m + 1)
    BY <2>1, <2>2, <2>5, AddLeafCorrect
  <2> QED
    BY <2>1, <2>6, <2>7
<1> HIDE DEF I
<1>5. \A i \in Nat : i \in I
  BY <1>3, <1>4, NatInduct
<1>6. total - n \in Nat /\ n + (total - n) = total
  OBVIOUS
<1>7. IsFrontierOf(f[total - n], seq, n + (total - n))
  BY <1>5, <1>6 DEF I
<1>8. InsertAll(front, n, d) = f[total - n]
  BY <1>0 DEF InsertAll, Inserts, f
<1> QED
  BY <1>6, <1>7, <1>8 DEF d

\* A consumer that has only the written batch recomputes its expected root.
THEOREM BatchesReplay == Spec => []BatchReplays
<1>1. ASSUME Inv, Bounds PROVE BatchReplays
  <2> DEFINE total == output.total
             start == total - Len(output.deposits)
             front == output.frontier
  <2>1. /\ chain \in Seq(Leaves) /\ total \in 0 .. Len(chain) /\ total \in Nat
        /\ start \in Nat /\ start <= total /\ DOMAIN front = Levels
    BY <1>1 DEF Inv, TypeOK
  <2>2. /\ IsFrontierOf(front, chain, start)
        /\ output.deposits = SubSeq(chain, start + 1, total)
        /\ output.root = TreeRoot(chain, total)
    BY <1>1 DEF Inv, BatchWitness
  <2>3. Shr(total)[Height] = 0
    BY <1>1 DEF Bounds
  <2> HIDE DEF total, start, front
  <2>4. IsFrontierOf(InsertAll(front, start, output.deposits), chain, total)
    BY <2>1, <2>2, <2>3, InsertAllCorrect, HeightAssumption
  <2>5. CalculateRoot(InsertAll(front, start, output.deposits), total)
          = output.root
    BY <2>1, <2>2, <2>3, <2>4, CalculateRootCorrect, HeightAssumption
  <2> QED
    BY <2>5 DEF BatchReplays, total, start, front
<1> QED
  BY <1>1, Bounded, PTL

----------------------------------------------------------------------------
(* The root check.                                                          *)

\* A root check passes exactly for as many deposits as were read.
LEMMA V1GEREventExact ==
    ASSUME HeightAssumption, CollisionFree, HashZero \notin Leaves, Inv,
           NEW n \in 0 .. Len(chain), V1GEREvent(n)
    PROVE  outcome' = "failed" <=> n # depositCount
<1>1. /\ outcome = "running" /\ chain \in Seq(Leaves)
      /\ depositCount \in 0 .. Len(chain) /\ depositCount \in Nat /\ n \in Nat
      /\ Shr(depositCount)[Height] = 0
  BY DEF V1GEREvent, Inv, TypeOK, Fits
<1>2. CalculateRoot(frontier, depositCount) = TreeRoot(chain, depositCount)
  BY <1>1, InvRoot DEF RootCorrect
<1>3. CASE n = depositCount
  BY <1>1, <1>2, <1>3 DEF V1GEREvent, replayVars
<1>4. CASE n < depositCount
  <2>1. Shr(n)[Height] = 0
    <3>1. Shr(n)[Height] <= Shr(depositCount)[Height]
      BY <1>1, <1>4, ShrMonotone DEF HeightAssumption
    <3>2. Shr(n)[Height] \in Nat
      BY <1>1, ShrUnfolds DEF HeightAssumption
    <3> QED
      BY <1>1, <3>1, <3>2
  <2>2. chain[n + 1] # HashZero
    BY <1>1, <1>4
  <2>3. TreeRoot(chain, n) # TreeRoot(chain, depositCount)
    BY <1>1, <1>4, <2>1, <2>2, RootsDiffer
  <2> QED
    BY <1>2, <1>4, <1>1, <2>3 DEF V1GEREvent, Fail
<1>5. CASE n > depositCount
  <2>1. chain[depositCount + 1] # HashZero
    BY <1>1, <1>5
  <2>2. TreeRoot(chain, n) # TreeRoot(chain, depositCount)
    BY <1>1, <1>5, <2>1, RootsDiffer
  <2> QED
    BY <1>2, <1>5, <1>1, <2>2 DEF V1GEREvent, Fail
<1> QED
  BY <1>1, <1>3, <1>4, <1>5

\* If the hash function is free of collisions and no leaf is the empty hash, the
\* replay goes on after the V1GER event with the root over exactly the deposits it
\* has read, and ends at any other.
THEOREM RootChecksAreExact ==
    ASSUME CollisionFree, HashZero \notin Leaves
    PROVE  Spec => []RootCheckExact
<1>1. Init => RootCheckExact
  BY DEF Init, RootCheckExact
<1>2. ASSUME Inv, RootCheckExact, [Next]_vars PROVE RootCheckExact'
  <2>1. ASSUME NEW leaf \in Leaves, BridgeDeposit(leaf) PROVE RootCheckExact'
    BY <1>2, <2>1 DEF BridgeDeposit, replayVars, RootCheckExact
  <2>2. ASSUME NEW count \in 0 .. Len(chain) - 1, DepositEvent(count)
        PROVE  RootCheckExact'
    BY <2>2 DEF DepositEvent, RootCheckExact
  <2>3. ASSUME NEW n \in 0 .. Len(chain), V1GEREvent(n) PROVE RootCheckExact'
    <3>1. checked' = {n} /\ depositCount' = depositCount
      BY <2>3 DEF V1GEREvent, Fail, replayVars
    <3>2. outcome' = "failed" <=> n # depositCount
      BY <1>2, <2>3, V1GEREventExact, HeightAssumption
    <3> QED
      BY <3>1, <3>2 DEF RootCheckExact
  <2>4. CASE VerifyTrustedSequencerEvent
    BY <2>4 DEF VerifyTrustedSequencerEvent, RootCheckExact
  <2>5. CASE UNCHANGED vars
    BY <1>2, <2>5 DEF vars, replayVars, RootCheckExact
  <2> QED
    BY <1>2, <2>1, <2>2, <2>3, <2>4, <2>5 DEF Next
<1> QED
  BY <1>1, <1>2, Invariance, PTL DEF Spec
=============================================================================
