\* Two processes, two events of which the older has no handler, two faults.
CONSTANTS
    p1 = p1
    p2 = p2
    None = None
    Event = {1, 2}
    Known = {2}
    Processor = {p1, p2}
    BatchSize = 2
    MaxAttempts = 2
    Stale = 2
    Base = 1
    MaxBackoff = 2
    MaxFaults = 2
SPECIFICATION FairSpec
INVARIANTS NoDoubleHandling NothingIsStuck
PROPERTIES DeliverySpec EventuallySettled
CHECK_DEADLOCK FALSE
