SPECIFICATION CompletionSpec
CONSTANTS
    a = a
    b = b
    c = c
    None = None
    Feature = {a, b, c}
    DependsOn <- PairDependsOn
    FixThreshold = 1
    Foreign = {c}
INVARIANTS StartedAfterDependencies ActiveIsOccupied NothingOutstandingAtMerge
    NoPendingBehindSkipped OnlyLateWorkViolates
