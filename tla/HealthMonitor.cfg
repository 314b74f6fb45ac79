\* Device a is allocatable, x is foreign; publishing may fail.
CONSTANTS
    Addrs = {a, x}
    Allocatable = {a}
    States = {online, error}
    Online = online
    Absent = absent
    MaxInFlight = 2
SPECIFICATION FairSpec
INVARIANT TypeOK
INVARIANT NoLostUpdate
INVARIANT Converged
PROPERTY EventuallyPublished
PROPERTY StopEnds
