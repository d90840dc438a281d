SPECIFICATION Spec
CONSTANTS
    Instances = {i1}
    Syncs = {s1, s2}
    MaxRetries = 2
    MaxChecks = 2
    NULL = NULL
INVARIANTS
    TypeOK
    HistoryMatchesAudit
    HealthIsLastEvidence
PROPERTIES
    EverySyncEnds
