\* Two calls of any kind, for the same height or not, while the node commits blocks 2 and 3;
\* a channel of one event is full after one block.
CONSTANTS
    Callers = {c1, c2}
    MaxHeight = 3
    ChanCap = 1
    MaxRange = 5
    Precommits <- MCPrecommits
    NoVote = NoVote
    Keccak <- MCKeccak
    NoHash = NoHash
    NoResult = NoResult
    Error = Error
SPECIFICATION Spec
\* Every call has returned and the node commits no more blocks.
CHECK_DEADLOCK FALSE
INVARIANTS
    TypeOK
    RightBlock
    SubscriptionKept
    LeakOnlyAfterDeadline
    VotesExact
    RootExact
PROPERTIES
    EveryCallReturns
