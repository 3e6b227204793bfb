\* Does the timeout end every call?
CONSTANTS
    Null = Null
    PipeSize = 1
    Requests <- MCRequests
    Timeout = 1
    MaxOutput = 1
    MaxWriting = 1
SPECIFICATION FairSpec
CHECK_DEADLOCK FALSE
PROPERTIES
    TimeoutIsEnforced
