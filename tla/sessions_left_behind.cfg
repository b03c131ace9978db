SPECIFICATION Spec
CONSTANTS
    Users = {u1}
    Workers = {w1}
    NoUser = NoUser
    MaxConcurrentSessions = 1
    MaxLogins = 2
    MaxPairs = 3
    AccessTTL = 1
    RefreshTTL = 2
    SessionTTL = 2
    AccessBlacklistTTL = 1
    RefreshBlacklistTTL = 2
    SameSecond = FALSE
    Failures = FALSE
    CacheLoss = FALSE
    Ops = {"login", "refresh"}
INVARIANT RevokedDeviceRejected
