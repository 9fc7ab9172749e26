\* The timeouts of the code, in seconds; 1.5 s counts as 2.
CONSTANTS
    TagsTimeout = 2
    ModelTimeout = 120
    StatusTimeout = 6
    PingTimeout = 15
    Horizon = 145
SPECIFICATION FairSpec
INVARIANTS EndsInTime AuthIsTold
PROPERTIES CallEnds
\* A call ends.
CHECK_DEADLOCK FALSE
