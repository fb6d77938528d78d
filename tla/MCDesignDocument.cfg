\* Two runs, of one queue row or of two, through two generation cycles.
CONSTANTS
    r1 = r1
    r2 = r2
    q1 = q1
    q2 = q2
    h1 = h1
    None = None
    Run = {r1, r2}
    Row = {q1, q2}
    Hand = {h1}
    Sections = 2
    MaxDocs = 2
    MaxDrafts = 2
SPECIFICATION Spec
SYMMETRY Symmetry
INVARIANTS ProjectFollowsDocument JudgedIsWhole JudgedIsExported
PROPERTIES PublishedIsFrozen
CHECK_DEADLOCK FALSE
