SPECIFICATION Spec
CONSTANTS
    Instances = {i1}
    Syncs = {s1}
    MaxRetries = 1
    MaxChecks = 1
    NULL = NULL
PROPERTIES
    PausedMakesNoAttempt
