SPECIFICATION TenancySpec
CONSTANTS
    Tenants = {n1}
    Regions = {g1, g2}
    Overrides = {}
    Residencies = {"region-preferred"}
    UnhealthyThreshold = 2
    HealthyThreshold = 2
    MaxListed = 3
    MaxChecks = 2
    MaxFailovers = 2
    NULL = NULL
INVARIANTS
    RecoveredRegionServes
CHECK_DEADLOCK FALSE
