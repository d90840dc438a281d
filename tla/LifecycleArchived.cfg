SPECIFICATION Spec
CONSTANTS
    Posts = {p1}
    Dids = {d1, d2}
    Roles = {"volunteer", "moderator"}
    Times = {0, 1}
    TimeoutMs = 1
    MaxTimeline = 5
    NULL = NULL
SYMMETRY DidSymmetry
PROPERTY ArchivedIsTerminal
