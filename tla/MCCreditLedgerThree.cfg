\* Three networks: a network has two targets and two sources.
CONSTANTS
    Networks = {0, 1, 2}
    Tokens = {eth}
    Origin <- MCOrigin
    Amounts = {1}
    MaxCells = 4
SPECIFICATION Spec
\* Every network has been finalized, or a nil dereference ended the program.
CHECK_DEADLOCK FALSE
INVARIANTS
    TypeOK
    Ownership
    NeverUnderstated
    NoOverdraft
PROPERTIES
    CollateExact
