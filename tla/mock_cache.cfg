SPECIFICATION Spec
CONSTANTS
    Ids = {e1}
    static = static
    pattern = pattern
    Routes = {static, pattern}
    users = users
    Targets = {users}
    NoRoute = NoRoute
    NoTarget = NoTarget
    Matches <- TheMatches
    Covers <- TheCovers
    Clients = {c1, c2}
    Admins = {a1, a2}
    ListTTL = 1
    ExactTTL = 1
    Hold = 1
    MaxChanges = 2
    Honest = TRUE
    Failures = TRUE
INVARIANT StaleListBound
INVARIANT StaleAnswerBound
INVARIANT StaleHasCause
SYMMETRY Symmetry
