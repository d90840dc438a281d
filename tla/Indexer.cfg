SPECIFICATION Spec
CONSTANTS
    Uris = {u1, u2}
    LastSeq = 2
    Calls = {c1, c2}
    Interval = 2
    MaxCount = 3
    Overlap = TRUE
    Replays = TRUE
    Failures = TRUE
SYMMETRY Symmetric
INVARIANTS
    TypeOK
    NothingSkipped
    IndexMatchesStream
