\* A tree of eight places, filled up and one place short of it: every
\* carry pattern of addLeaf, the empty and the full tree.
CONSTANTS
    Height = 3
    Hash <- MCHash
    HashZero = HashZero
    Leaves = {a, b}
    BatchMin = 1
    MaxDeposits = 8
SPECIFICATION Spec
SYMMETRY MCSymmetry
\* The replay ends when a check fails or addLeaf panics.
CHECK_DEADLOCK FALSE
INVARIANTS
    TypeOK
    FrontierCorrect
    RootCorrect
    BatchWitness
    BatchReplays
    OpenBatch
    PanicOnlyWhenFull
    RootCheckExact
PROPERTIES
    BatchesDisjoint
