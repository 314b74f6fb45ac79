\* The test on reconnecting against the code.
CONSTANTS
    Procs = {p1, p2, p3}
    Conns = {k1, k2, k3}
    None = None
    MaxAttempts = 2
    Malformed = FALSE
SPECIFICATION FairSpec
PROPERTY Reconnects
