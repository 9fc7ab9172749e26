\* One connection with a cap of one stream, three requests that share two ids:
\* an id is used again while an older stream unwinds.  Any number of
\* connections: StreamsProofs.  Liveness is checked: no symmetry.
CONSTANTS
    Conn = {c1}
    Request = {r1, r2, r3}
    Id = {i1, i2}
    None = None
    MaxConcurrentStreams = 1
    MaxChunks = 1
    ReuseInFlight = FALSE
    WriteFailures = TRUE
SPECIFICATION FairSpec
INVARIANTS StreamCap EveryStreamCancellable NoOrphanStream
PROPERTIES CancelIsFinal ImplementsContract AnsweredUnlessLost
\* Every connection may be over and every request answered.
CHECK_DEADLOCK FALSE
