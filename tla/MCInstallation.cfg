SPECIFICATION InstallationSpec
CONSTANTS
    w1 = w1
    w2 = w2
    w3 = w3
    startTask = startTask
    coderTask = coderTask
    pg = pg
    lite = lite
    p1 = p1
    p2 = p2
    c1 = c1
    c2 = c2
    t1 = t1
    i1 = i1
    Worker = {w1, w2, w3}
    Holder = {startTask, coderTask}
    HolderOf <- TaskOf
    Ttl = 2
    Serialized = TRUE
    MaxClock = 4
    MaxFence = 5
    Process = {p1, p2}
    Target = {pg, lite}
    Postgres = {pg}
    Table = {"projects", "github_links", "pull_requests", "scm_links"}
    Last = 3
    Creates <- CreatesOf
    Removes <- RemovesOf
    DropOrder <- Order
    MaxPreviews = 2
    Connector = {c1, c2}
    Repository = {"r1"}
    Branch = {"main", "dev"}
    ForgeBranch = "main"
    Connection <- Connections
    Poller = {i1}
    Tasks = {t1}
    Setting <- Settings
    MaxCommits = 2
    FixThreshold = 1
    MaxFailures = 1
INVARIANTS
    OneValidFence
    SchemaHolds
    ConnectionHolds
    MirrorCatchesUp
PROPERTIES
    NoZombieWrite
    NoStolenLease
    TokensSpec
    NoHopIsLost
CHECK_DEADLOCK FALSE
