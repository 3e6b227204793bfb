CONSTANTS
    Null = Null
    Sessions = {s1, s2, s3}
    Operators = {o1, o2}
    StaleAge = 1
    MaxRecords = 3
    MaxTime = 1
SPECIFICATION Spec
SYMMETRY Symmetry
CHECK_DEADLOCK FALSE
INVARIANTS
    SingleWriter
    NothingIsLost
    ReplayFailsClosed
