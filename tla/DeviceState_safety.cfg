\* Two handlers, two claims, two devices; every file operation may fail.
CONSTANTS
    Claims = {c1, c2}
    Devices = {d1, d2}
    Uuids = {u1, u2}
    Workers = {w1, w2}
    None = None
    Faults = {"p_lock", "p_dir", "p_metrics", "p_spec", "p_save", "u_lock", "u_config", "u_metrics", "u_save", "u_spec", "scan", "clean"}
SPECIFICATION Spec
SYMMETRY Symmetry
INVARIANT TypeOK
INVARIANT CheckpointHasSpec
PROPERTY EntryRemovedOnlyByUnprepare
PROPERTY PreparedSpecStable
PROPERTY ImplementsClaimService
