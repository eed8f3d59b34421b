\* The two networks and two tokens of TestAggregateDeposits: no two deposits
\* have the same source or the same target.
CONSTANTS
    Networks = {0, 1}
    Tokens = {eth, usdc}
    Origin <- MCOrigin
    Amounts = {1}
    MaxCells = 4
SPECIFICATION Spec
\* Every network has been finalized, or a nil dereference ended the program.
CHECK_DEADLOCK FALSE
INVARIANTS
    DebitExact
    CreditExact
PROPERTIES
    AbsSpec
