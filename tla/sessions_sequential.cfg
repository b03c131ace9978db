SPECIFICATION Spec
CONSTANTS
    Users = {u1}
    Workers = {w1}
    NoUser = NoUser
    MaxConcurrentSessions = 1
    MaxLogins = 2
    MaxPairs = 3
    AccessTTL = 1
    RefreshTTL = 2
    SessionTTL = 2
    AccessBlacklistTTL = 1
    RefreshBlacklistTTL = 2
    SameSecond = TRUE
    Failures = TRUE
    CacheLoss = FALSE
    Ops = {"login", "refresh", "logout", "all", "one", "status"}
INVARIANT RevokedRowRejected
INVARIANT BlacklistOutlivesToken
