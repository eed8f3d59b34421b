\* One key: 5 * 5 is not -1 modulo the order.
CONSTANTS
    U = 1
    XiRe = 8
    CurveB = 40
    CurveGen <- MCCurveGen
    TwistGen <- MCTwistGen
    SixUPlus2NAF <- MCSixUPlus2NAF
    ByteBase = 16
    CoordBytes = 2
    Infinity = Infinity
    Nil = Nil
    Z0 = 10
    Signers = {s1}
    Messages = {m1}
    Keys = {5}
    Expanded <- MCExpanded
SPECIFICATION Spec
\* A panic ends the program.
CHECK_DEADLOCK FALSE
INVARIANTS
    VerifyTellsSigner
