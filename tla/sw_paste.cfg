\* A token is pasted while a socket is up.
CONSTANTS
    Socket = {s1, s2}
    Request = {q1}
    None = None
    MaxDoubled = 1
    MaxWrites = 1
    FaultModels <- OnePaste
    StorageFails = FALSE
SPECIFICATION FairSpec
PROPERTY EventuallyUsable
CHECK_DEADLOCK FALSE
