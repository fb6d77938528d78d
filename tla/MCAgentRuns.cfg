SPECIFICATION Spec
CONSTANTS
    w1 = w1
    w2 = w2
    f1 = f1
    Feature = {f1}
    Worker = {w1, w2}
    Estimate <- Estimates
    Hard <- Limits
    Windowed = {f1}
    MaxCost = 2
    Implementation = {"a", "b"}
    Offer <- Offers
    MaxSpend = 11
    MaxVersion = 4
    MaxRegistrations = 4
SYMMETRY Workers
INVARIANT
    OverspendIsBounded
    RevisionIsOfTheRun
PROPERTY
    BreachesStopAutomation
\* The bounds may leave nothing to do.
CHECK_DEADLOCK FALSE
