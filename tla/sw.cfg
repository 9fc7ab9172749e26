\* Two sockets, two requests, one overlap of two callers or one paste.  Liveness is checked: no symmetry.
CONSTANTS
    Socket = {s1, s2}
    Request = {q1, q2}
    None = None
    MaxDoubled = 1
    MaxWrites = 1
    FaultModels <- AnyFault
    StorageFails = TRUE
SPECIFICATION FairSpec
INVARIANTS NoRequestForgotten SocketsCounted RetryCarriesNoToken ConnectedHasSocket
PROPERTIES OneFate NeverBeforeHello UsableUnlessDoubled NoRefusalLoop
CHECK_DEADLOCK FALSE
