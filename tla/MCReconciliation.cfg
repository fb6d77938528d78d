SPECIFICATION Spec
CONSTANTS
    f1 = f1
    w1 = w1
    w2 = w2
    Feature = {f1}
    Worker = {w1, w2}
    FixThreshold = 1
    MaxCommits = 2
    Setting <- Settings
SYMMETRY Workers
INVARIANT
    CiVerdictIsOfTheHead
PROPERTY
    KnowsWhatItMoves
\* Nothing need happen any more.
CHECK_DEADLOCK FALSE
