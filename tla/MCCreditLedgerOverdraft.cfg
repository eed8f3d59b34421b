\* TestAggregateDeposits: a network sends two tokens and has credits in one.
CONSTANTS
    Networks = {0, 1}
    Tokens = {eth, usdc}
    Origin <- MCOrigin
    Amounts = {1, 2}
    MaxCells = 3
SPECIFICATION Spec
\* Every network has been finalized, or a nil dereference ended the program.
CHECK_DEADLOCK FALSE
INVARIANTS
    OverdraftRefused
