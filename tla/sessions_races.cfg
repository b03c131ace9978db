SPECIFICATION Spec
CONSTANTS
    Users = {u1}
    Workers = {w1, w2}
    NoUser = NoUser
    MaxConcurrentSessions = 1
    MaxLogins = 3
    MaxPairs = 3
    AccessTTL = 1
    RefreshTTL = 1
    SessionTTL = 1
    AccessBlacklistTTL = 1
    RefreshBlacklistTTL = 1
    SameSecond = FALSE
    Failures = FALSE
    CacheLoss = TRUE
    Ops = {"login", "refresh", "others", "all", "one"}
SYMMETRY Symmetry
INVARIANT SessionBound
INVARIANT DeadTokenNeverGranted
INVARIANT NoStrandedSession
INVARIANT RevokedWasBanned
PROPERTY LifecycleSpec
