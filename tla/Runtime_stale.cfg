\* Two sessions; the task is not retry-safe.
CONSTANTS
    Null = Null
    read = read
    write = write
    Sessions = {s1, s2}
    Order <- MCOneTask
    DependsOn <- MCNoDependency
    RetrySafe = {}
    FailedTasks = {}
    Policies = {"RequireInspection"}
    ProbeStatuses = {}
    Exclusive = FALSE
    TTL = 1
    MaxCalls = 2
    MaxTime = 2
SPECIFICATION Spec
CHECK_DEADLOCK FALSE
INVARIANTS
    UnsafeExecutesOnce
