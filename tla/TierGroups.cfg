\* Every topology of four devices with at most three peers.
CONSTANTS
    Addrs <- MCAddrs
    Topologies <- MCTopologies
    MaxPeers = 3
    None = None
SPECIFICATION Spec
INVARIANT TypeOK
INVARIANT GroupsAreComponents
INVARIANT TiersNested
