SPECIFICATION Spec
CONSTANTS
    Senders = {a, b, c}
    Full = 4
    Partial = 2
    MaxFragments = 3
    Numbers = 3
    Frame = 1
    Timeout = 2
    Keep = 2
    Lengths = {3, 4, 7, 11}
    MaxMade = 4
    MaxTime = 7
INVARIANTS TypeOK PiecesFit JoinedIsOne
PROPERTY HeardIsJoined
CHECK_DEADLOCK FALSE
SYMMETRY Alike
