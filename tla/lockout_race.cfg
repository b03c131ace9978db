SPECIFICATION FairSpec
CONSTANTS
    Workers = {w1, w2}
    Enabled = TRUE
    MaxAttempts <- TwoTiers
    LockDurations <- TwoTierLocks
    Buffer = 1
    MaxFailures = 1
    MaxCount = 7
    MaxGuesses = 12
INVARIANT NoOrphanCount
INVARIANT GuessBound
PROPERTY LockExpires
PROPERTY PolicySpec
