\* The child is free: it reads or not, writes more than the pipe holds, closes
\* its ends, leaves a process behind, exits or is killed.
CONSTANTS
    Null = Null
    PipeSize = 1
    Requests <- MCRequests
    Timeout = 2
    MaxOutput = 2
    MaxWriting = 1
SPECIFICATION FairSpec
CHECK_DEADLOCK FALSE
INVARIANTS
    ResultIsWhole
    EndedCallReaps
PROPERTIES
    ChildCannotHold
