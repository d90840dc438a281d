SPECIFICATION MatchingSpec
CONSTANTS
    RequestUris = {r1}
    Candidates = {1, 2, 3}
    Scores = {1, 2}
    MaxResults = 3
    MaxRecs = 4
    MaxOverrides = 3
    MaxFeedback = 0
    NULL = NULL
PROPERTIES
    BoostRaises
CHECK_DEADLOCK FALSE
