\* Three blocks of L1 in pages of two: the second page lies across its
\* head, the third past it.
CONSTANTS
    PageSize = 2
    StopAfter = 2
    MaxBlock = 3
    MaxLogs = 3
    MaxPages = 3
    Height = 2
    Hash <- MCHash
    HashZero = HashZero
    BatchMin = 0
    NotStarted = NotStarted
    Leaves = {leaf}
    MaxDeposits = 3
SPECIFICATION PipelineSpec
\* The replay has ended and L1 grows no further.
CHECK_DEADLOCK FALSE
INVARIANTS
    PipelineTypeOK
    NoDuplicates
    CompleteBehindHead
    FailsOnlyPastHead
    GapsOnlyByPaging
    CompleteUpToRoot
PROPERTIES
    ReplaySpec
