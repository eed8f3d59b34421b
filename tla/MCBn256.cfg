\* Two registers and every sequence of four calls, with both implementations.
CONSTANTS
    U = 1
    XiRe = 8
    CurveB = 40
    CurveGen <- MCCurveGen
    TwistGen <- MCTwistGen
    SixUPlus2NAF <- MCSixUPlus2NAF
    ByteBase = 16
    CoordBytes = 2
    Infinity = Infinity
    Registers = {r1, r2}
    Scalars <- MCScalars
    Stray <- MCStray
    MaxCalls = 4
    Negated = FALSE
    Nil = Nil
    Unset = Unset
    Spoilt = Spoilt
SPECIFICATION Spec
SYMMETRY MCSymmetry
\* The calls are used up.
CHECK_DEADLOCK FALSE
INVARIANTS
    TypeOK
    AcceptsExactly
    Reduced
    DigitsExact
PROPERTIES
    AbsSpec
