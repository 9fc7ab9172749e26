\* Two sockets at a time, any number of times; two installs for one pin; two
\* tokens in a store of one.  Liveness is checked: no symmetry.
CONSTANTS
    Conn = {s1, s2}
    Chrome = {ch}
    Firefox = {ff1, ff2}
    Foreign = {web}
    Token = {t1, t2}
    TokenCap = 1
    PinCap = 1
    MaxClock = 2
    PinFileFails = TRUE
    None = None
SPECIFICATION FairSpec
INVARIANTS OnlyVouched TokenOfItsOrigin
PROPERTIES RevokedStaysOut KnownNeverRefused GrantIsKept HandshakeEnds
\* The clock and the tokens are bounded.
CHECK_DEADLOCK FALSE
