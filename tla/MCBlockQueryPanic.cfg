\* A call that times out.
CONSTANTS
    Callers = {c1, c2}
    MaxHeight = 3
    ChanCap = 1
    MaxRange = 5
    Precommits <- MCPrecommits
    NoVote = NoVote
    Keccak <- MCKeccak
    NoHash = NoHash
    NoResult = NoResult
    Error = Error
SPECIFICATION Spec
\* Every call has returned and the node commits no more blocks.
CHECK_DEADLOCK FALSE
INVARIANTS
    TimeoutIsAnError
