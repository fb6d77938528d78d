\* A request, its retry and a call of the tool, through one fault, at a forge
\* that compares the head and rebases, or at one that does neither; or a request
\* and two reconciliations.
CONSTANTS
    r1 = r1
    r2 = r2
    k1 = k1
    c1 = c1
    c2 = c2
    Request = {r1, r2}
    Key = {k1}
    KeyOf <- Retried
    Tool = {"t1"}
    Reconciler = {c1, c2}
    Provider = {"gitlab", "gitea"}
    Nobody = Nobody
    MaxHead = 2
    MaxVersion = 4
    MaxFaults = 1
SYMMETRY Symmetry
SPECIFICATION MCSpec
INVARIANTS OneOwnerPerKey MergedAtTheForge PointOfNoReturn AnswersAreTrue
    
CHECK_DEADLOCK FALSE
