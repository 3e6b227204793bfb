\* One session at a time, which fails, dies and is opened again anywhere; the graph is
\* new or imported with a failed task, and the provider may be probed.
CONSTANTS
    Null = Null
    read = read
    write = write
    Sessions = {s1}
    Order <- MCOrder
    DependsOn <- MCDependsOn
    RetrySafe <- MCRetrySafe
    FailedTasks = {read}
    Policies = {"RequireInspection", "RetryReady"}
    ProbeStatuses = {"Committed"}
    Exclusive = TRUE
    TTL = 1
    MaxCalls = 2
    MaxTime = 2
SPECIFICATION FairSpec
CHECK_DEADLOCK FALSE
INVARIANTS
    CheckpointsAgree
    DependencyOrder
    UnsafeExecutesOnce
PROPERTIES
    CompletionHolds
    StartsAreJustified
    CallReturns
