SPECIFICATION Spec
CONSTANTS
    LeaseMaxAge = 2
    HealthMaxAge = 2
    CoverageMaxAge = 2
    MaxClock = 4
    MaxBad = 1
    MaxStarts = 2
    MaxRestarts = 1
    MaxNet = 2
INVARIANTS
    CoverageIsTrue
    ReceiptsAddUp
    ObservedIsAccounted
CHECK_DEADLOCK FALSE

CONSTRAINT Instances
