----------------------------- MODULE Checkpoint -----------------------------
(***************************************************************************)
(* heimdall/checkpoint.go: the root hash of a checkpoint, over the headers *)
(* of a range of blocks.                                                   *)
(*                                                                         *)
(* Keccak-256 is a parameter.  A block is its number: convertTo32 pads the *)
(* numbers and roots of a header to 32 bytes each, so that what is hashed  *)
(* determines them.                                                        *)
(*                                                                         *)
(* ..._Faulty... definitions are plausible bugs that test the properties.  *)
(***************************************************************************)
EXTENDS GoBasics

CONSTANTS
    Keccak(_), \* the hash of a sequence of byte strings
    NoHash     \* a hash that is nil

calcHeaderHash(block) == Keccak(<<block>>)

Shifts == <<1, 2, 4, 8, 16, 32>>

\* n |= n >> k for each shift in turn.
Smear(n) == FoldLeft(LAMBDA word, k : Or(word, Shr(word)[k]), n, Shifts)

\* Powers of two are doubled.
nextPowerOfTwo_FaultyDoubled(n) == Smear(n) + 1

\* The highest bit of n - 1 is copied to all bits below it.
nextPowerOfTwo(n) == IF n = 0 THEN 1 ELSE Smear(n - 1) + 1

\* The headers, and nil up to a power of two.
calcCheckpointFromBlocks(b) ==
    [i \in 1 .. nextPowerOfTwo(Len(b)) |->
        IF i \in DOMAIN b THEN calcHeaderHash(b[i]) ELSE NoHash]

\* go-merkle, without hashing of the leaves: level by level, until one hash
\* is left.
Generate(leaves) ==
    LET level[h \in Nat] ==
            IF h = 0 THEN leaves
            ELSE [i \in 1 .. Len(level[h - 1]) \div 2 |->
                     Keccak(<<level[h - 1][2 * i - 1], level[h - 1][2 * i]>>)]
    IN  level[CHOOSE h \in 0 .. Len(leaves) : Len(level[h]) = 1][1]

RootHash(blocks) == Generate(calcCheckpointFromBlocks(blocks))

----------------------------------------------------------------------------
\* The tree by definition, from the top: each subtree, of
\* height h, over the leaves from lo on, those that there are blocks for.
TreeOver(blocks, top) ==
    LET tree[h \in Nat] ==
            IF h = 0
            THEN [lo \in Nat \ {0} |->
                     IF lo <= Len(blocks) THEN Keccak(<<blocks[lo]>>) ELSE NoHash]
            ELSE [lo \in Nat \ {0} |->
                     Keccak(<<tree[h - 1][lo], tree[h - 1][lo + Power(2)[h - 1]]>>)]
    IN  tree[top][1]

HeightFor(n) ==
    CHOOSE h \in 0 .. n : Power(2)[h] >= n /\ (h = 0 \/ Power(2)[h - 1] < n)

\* The tree is the smallest that the headers fit in, each in its place.
IsRootOver(root, blocks) == root = TreeOver(blocks, HeightFor(Len(blocks)))
=============================================================================
