SPECIFICATION Spec
CONSTANTS
    Workers = {1, 2}
    Sampled <- TheSample
    Walked <- TheWalk
    Callers = {"admin"}
    CsrfEnabled = TRUE
    TokenSurvives = TRUE
    DbLog = TRUE
    PerMinute = 1
    PageSize = 2
    OldRows = 2
    Slow = {0, 2}
    MaxRetries = 1
    InitialDelay = 1
    Multiplier = 2
    Timeout = 3
    MaxBrowsed = 2
    MaxBeside = 1
    MaxSent = 6
INVARIANT AstrayHasCause
INVARIANT RefusedChangesNothing
INVARIANT LogTellsAnswer
INVARIANT FailureRecorded
INVARIANT RetryInTime
INVARIANT WalkSeesAll
PROPERTY WalkEnds
CHECK_DEADLOCK FALSE
