\* Every topology of at most three cards as the operator's file, in each place.
CONSTANTS
    Cards <- MCCards
    Topologies <- MCTopologies
    Builtin <- MCBuiltin
    Absent = Absent
    Broken = Broken
SPECIFICATION Spec
INVARIANT TypeOK
INVARIANT NumaFollowsSwitches
PROPERTY RestartKeepsDevices
