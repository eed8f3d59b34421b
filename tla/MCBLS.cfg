\* Every element of the small field is hashed to; the key 0 and another one.
CONSTANTS
    U = 1
    XiRe = 8
    CurveB = 40
    CurveGen <- MCCurveGen
    TwistGen <- MCTwistGen
    SixUPlus2NAF <- MCSixUPlus2NAF
    ByteBase = 16
    CoordBytes = 2
    Infinity = Infinity
    Nil = Nil
    Z0 = 10
    Signers = {s1}
    Messages = {m1}
    Keys <- MCKeys
    Expanded <- MCExpanded
SPECIFICATION Spec
\* A panic ends the program.
CHECK_DEADLOCK FALSE
INVARIANTS
    TypeOK
    SignatureExact
    SignFailsExactly
    NoPanic
