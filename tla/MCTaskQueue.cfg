\* Two workers and two jobs: of a task with limit 1, or of one that is not
\* registered.  One crash, failed call, delay or cancellation.
CONSTANTS
    w1 = w1
    w2 = w2
    coder = coder
    export = export
    None = None
    Job = {1, 2}
    Task = {coder, export}
    Limit <- CoderAlone
    Worker = {w1, w2}
    BatchSize = 2
    MaxAttempts = 1
    Stale = 2
    Backoff <- Backoffs
    MaxBackoff = 1
    DbFails = TRUE
    MaxFaults = 1
SPECIFICATION FairSpec
INVARIANTS ProcessingWithinLimit ExecutingWithinLimit
PROPERTIES DeliverySpec EventuallySettled
CHECK_DEADLOCK FALSE
