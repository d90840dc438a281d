SPECIFICATION Spec
CONSTANTS
    Subjects = {s1}
    Stamps = {t1}
    Keys = {}
    Consumable = {}
    Restarts = FALSE
    MaxAudit = 3
    MaxDepth = 2
    NULL = NULL
INVARIANTS
    DepthIsQueueLength
