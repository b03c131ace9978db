SPECIFICATION TourSpec
CONSTANTS
    Workers = {1}
    Sampled <- OtherRoutes
    Walked <- TheWalk
    Callers = {"admin"}
    CsrfEnabled = TRUE
    TokenSurvives = TRUE
    DbLog = FALSE
    PerMinute = 12
    PageSize = 2
    OldRows = 1
    Slow = {0}
    MaxRetries = 1
    InitialDelay = 1
    Multiplier = 2
    Timeout = 3
    MaxBrowsed = 200
    MaxBeside = 200
    MaxSent = 201
INVARIANT AnswersAsDeclared
CHECK_DEADLOCK FALSE
