CONSTANTS
    TagsTimeout = 2
    ModelTimeout = 120
    StatusTimeout = 6
    PingTimeout = 15
    Horizon = 145
SPECIFICATION FairSpec
PROPERTIES NothingBilledAfterCancel
CHECK_DEADLOCK FALSE
