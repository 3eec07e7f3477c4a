SPECIFICATION Spec
CONSTANTS
    Key = {k1}
    Req = {r1, r2}
    Rpm <- MCRpm
    Tpm <- MCTpm
    RpmLimit = 2
    TpmLimit = 2
    Tokens = {0, 1}
    Window = 4
    TTL = 5
    Skew = 0
    Delay = 1
    MaxClock = 5
    NoTTL = nottl
    MaxFailures = 1
SYMMETRY HandlerSymmetry
INVARIANT TypeOK
INVARIANT WindowLimit
INVARIANT TokensCounted
INVARIANT TokenOvershoot
