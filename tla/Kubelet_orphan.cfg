\* The comment of Unprepare on orphaned spec files against the code: a crash is
\* the only thing that goes wrong.
CONSTANTS
    Claims = {c1, c2}
    Devices = {d1}
    Uuids = {u1, u2}
    Workers = {w1}
    None = None
    Faults = {}
SPECIFICATION KSpec
INVARIANT OrphanHarmless
