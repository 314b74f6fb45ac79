\* The test on stopping during a reconnection against the code.
CONSTANTS
    Procs = {p1, p2, p3, p4}
    Conns = {k1, k2, k3, k4, k5}
    None = None
    MaxAttempts = 2
    Malformed = FALSE
SPECIFICATION Spec
PROPERTY StaysStopped
