\* Liveness and cleaning: no symmetry, one device.  Every file operation may fail
\* except reading the checkpoint in Unprepare and those of the cleaning.
CONSTANTS
    Claims = {c1, c2}
    Devices = {d1}
    Uuids = {u1, u2}
    Workers = {w1, w2}
    None = None
    Faults = {"p_lock", "p_dir", "p_metrics", "p_spec", "p_save", "u_config", "u_metrics", "u_save", "u_spec"}
SPECIFICATION KFairSpec
PROPERTY ReleasesComplete
PROPERTY StartupLeavesNoZombie
PROPERTY CallsAnswered
