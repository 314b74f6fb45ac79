\* Up to three goroutines; connections are lost and made again at will.
CONSTANTS
    Procs = {p1, p2, p3}
    Conns = {k1, k2, k3}
    None = None
    MaxAttempts = 2
    Malformed = TRUE
SPECIFICATION FairSpec
INVARIANT TypeOK
INVARIANT RunningTracksListener
INVARIANT RegisterAlone
PROPERTY CancelEndsAll
PROPERTY ReconnectingReleased
