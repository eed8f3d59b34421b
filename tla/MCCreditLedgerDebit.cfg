\* Three networks, of which two send to the third.
CONSTANTS
    Networks = {0, 1, 2}
    Tokens = {eth}
    Origin <- MCOrigin
    Amounts = {1, 2}
    MaxCells = 4
SPECIFICATION Spec
\* Every network has been finalized, or a nil dereference ended the program.
CHECK_DEADLOCK FALSE
INVARIANTS
    DebitExact
