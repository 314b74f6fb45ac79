\* Kubelet and driver; every file operation may fail except reading the spec
\* files at start-up.
CONSTANTS
    Claims = {c1, c2}
    Devices = {d1, d2}
    Uuids = {u1, u2, u3}
    Workers = {w1, w2}
    None = None
    Faults = {"p_lock", "p_dir", "p_metrics", "p_spec", "p_save", "u_lock", "u_config", "u_metrics", "u_save", "u_spec", "clean"}
SPECIFICATION KSpec
SYMMETRY Symmetry
INVARIANT KTypeOK
INVARIANT EntryMatchesPhase
INVARIANT PreparedExclusively
INVARIANT GrantIsMounted
PROPERTY FolderRemovedOnlyByUnprepare
