SPECIFICATION Spec
CONSTANTS
    Subjects = {s1, s2}
    Stamps = {t1}
    Keys = {k1}
    Consumable = {}
    Restarts = TRUE
    MaxAudit = 2
    MaxDepth = 1
    NULL = NULL
SYMMETRY SubjectSymmetry
INVARIANTS
    TypeOK
    AuditTellsTheStory
    KeyActsOnce
PROPERTIES
    LedgerSpec
