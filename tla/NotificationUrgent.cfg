SPECIFICATION NotifySpec
CONSTANTS
    Users = {d1}
    Types = {y1}
    Contexts = {x1}
    External = {"email"}
    MaxAttempts = 2
    DedupeWindow = 2
    LastTime = 2
    MaxSent = 2
    MaxReports = 4
    NULL = NULL
INVARIANTS
    UrgentGoesInApp
CHECK_DEADLOCK FALSE
