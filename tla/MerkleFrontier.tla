--------------------------- MODULE MerkleFrontier ---------------------------
(***************************************************************************)
(* The append-only Merkle tree of merkle.go.  The program never stores the *)
(* tree: it keeps a frontier, one node per level, from which the root of   *)
(* everything deposited so far is computed.  These are the pure functions  *)
(* of that file, followed by the tree they are meant to stand for.         *)
(*                                                                         *)
(* A 32-byte value is a member of an arbitrary domain: Hash is the         *)
(* two-argument use of the program's Hash and HashZero the 32 zero bytes.  *)
(* Loops are recursive functions of the loop counter h.                    *)
(*                                                                         *)
(* A definition named ..._Faulty... is a plausible bug of the definition   *)
(* after it.  No other definition uses it: it is put in the place of the   *)
(* correct one to see that a property does notice the bug.                 *)
(***************************************************************************)
EXTENDS GoBasics

CONSTANTS
    Height,     \* treeHeight; 32 in the program
    Hash(_, _), \* Hash(left, right)
    HashZero    \* the empty hash

ASSUME HeightAssumption == Height \in Nat

Levels == 0 .. Height - 1

----------------------------------------------------------------------------
\* currentZero is not hashed again at each level.
ZeroHashes_FaultyConstant == [h \in Nat |-> HashZero]

\* The root of an empty subtree, for each height.  calculateRoot recomputes
\* this list in its local currentZero.
ZeroHashes ==
    LET z[h \in Nat] == IF h = 0 THEN HashZero ELSE Hash(z[h - 1], z[h - 1])
    IN  z

\* The local variable node of addLeaf's loop on reaching level h.
ClimbNode(leaf, frontier) ==
    LET node[h \in Nat] ==
            IF h = 0 THEN leaf ELSE Hash(frontier[h - 1], node[h - 1])
    IN  node

\* The loop of addLeaf returns at the lowest set bit of index.
IsStopLevel(index, h) ==
    h \in Levels /\ BitSet(index, h) /\ \A k \in 0 .. h - 1 : ~BitSet(index, k)

\* The loop ends a level early.
AddLeafPanics_FaultyBound(index) ==
    \A h \in 0 .. Height - 2 : ~BitSet(index, h)

\* addLeaf falls out of its loop and panics.
AddLeafPanics(index) == \A h \in Levels : ~BitSet(index, h)

\* The leaf is stored instead of the node climbed to.
AddLeaf_FaultyStore(leaf, frontier, index) ==
    [frontier EXCEPT ![CHOOSE h \in Levels : IsStopLevel(index, h)] = leaf]

\* addLeaf(leaf, frontier, index, Height).  The index is the number of leaves
\* AFTER the insertion.
AddLeaf(leaf, frontier, index) ==
    LET stop == CHOOSE h \in Levels : IsStopLevel(index, h)
    IN  [frontier EXCEPT ![stop] = ClimbNode(leaf, frontier)[stop]]

\* The arguments of the first Hash are swapped.
RootNode_FaultyOrder(frontier, index) ==
    LET node[h \in Nat] ==
            IF h = 0 THEN HashZero
            ELSE IF BitSet(index, h - 1)
                 THEN Hash(node[h - 1], frontier[h - 1])
                 ELSE Hash(node[h - 1], ZeroHashes[h - 1])
    IN  node

\* The local variable node of calculateRoot's loop on reaching level h.
RootNode(frontier, index) ==
    LET node[h \in Nat] ==
            IF h = 0 THEN HashZero
            ELSE IF BitSet(index, h - 1)
                 THEN Hash(frontier[h - 1], node[h - 1])
                 ELSE Hash(node[h - 1], ZeroHashes[h - 1])
    IN  node

\* calculateRoot(frontier, index, Height)
CalculateRoot(frontier, index) == RootNode(frontier, index)[Height]

\* make([][KeyLen]byte, treeHeight)
EmptyFrontier == [h \in Levels |-> HashZero]

----------------------------------------------------------------------------
(* The reference: the complete binary tree over a function from positions   *)
(* to leaves.  TreeNode(leaf)[h][j] is the node number j of level h.        *)

TreeNode(leaf) ==
    LET node[h \in Nat] ==
            IF h = 0 THEN leaf
            ELSE [j \in Nat |-> Hash(node[h - 1][2 * j], node[h - 1][2 * j + 1])]
    IN  node

\* The first n members of a sequence at positions 0 .. n - 1, the rest empty.
LeavesOf(seq, n) == [j \in Nat |-> IF j < n THEN seq[j + 1] ELSE HashZero]

TreeRoot(seq, n) == TreeNode(LeavesOf(seq, n))[Height][0]

\* frontier is the frontier of the first n members of seq: at each set bit h
\* of n it holds the root of the last complete subtree of height h.
IsFrontierOf(frontier, seq, n) ==
    \A h \in Levels : BitSet(n, h) =>
        frontier[h] = TreeNode(LeavesOf(seq, n))[h][Shr(n)[h] - 1]
=============================================================================
