SPECIFICATION DriversSpec
CONSTANTS
    Workers = {c1, c2}
    ThresholdPercent = 50
    SuccessThreshold = 2
    Timeout = 2
    MinimumRequests = 3
    MaxRequests = 4
    MaxResets = 1
    Keys = {k1}
    TTL = 2
    MaxItems = 2
    Other = other
    Honest = TRUE
INVARIANT DriversTypeOK
INVARIANT ConfirmedHolds
INVARIANT MemoryKeeps
PROPERTY AutomatonSpec
PROPERTY Recovers
