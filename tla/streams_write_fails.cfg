\* prompts.json or config.json cannot be written.
CONSTANTS
    Conn = {c1}
    Request = {r1, r2}
    Id = {i1, i2}
    None = None
    MaxConcurrentStreams = 1
    MaxChunks = 0
    ReuseInFlight = FALSE
    WriteFailures = TRUE
SPECIFICATION FairSpec
PROPERTY EveryIdAnswered
CHECK_DEADLOCK FALSE
