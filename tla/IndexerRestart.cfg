SPECIFICATION Spec
CONSTANTS
    Uris = {u1}
    LastSeq = 2
    Calls = {c1}
    Interval = 1
    MaxCount = 3
    Overlap = FALSE
    Replays = FALSE
    Failures = FALSE
SYMMETRY Symmetric
INVARIANTS
    IndexResumes
