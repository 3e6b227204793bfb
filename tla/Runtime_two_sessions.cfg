\* Two sessions work on one retry-safe task at the same time.
CONSTANTS
    Null = Null
    read = read
    write = write
    Sessions = {s1, s2}
    Order <- MCOneTask
    DependsOn <- MCNoDependency
    RetrySafe = {write}
    FailedTasks = {}
    Policies = {"RetryReady"}
    ProbeStatuses = {}
    Exclusive = FALSE
    TTL = 1
    MaxCalls = 2
    MaxTime = 2
SPECIFICATION Spec
SYMMETRY SessionSymmetry
CHECK_DEADLOCK FALSE
INVARIANTS
    LeaseExclusion
    LeasesAreKept
