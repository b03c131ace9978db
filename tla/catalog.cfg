SPECIFICATION Spec
CONSTANTS
    RoleIds = {1, 2, 3}
    PermIds = {1, 2, 3}
    Sample <- TheSample
    RoleSample = {"admin", "user"}
    OwnCode = "own"
    OwnPermission <- TheOwnPermission
    Workers = {w1, w2}
    Failures = TRUE
    MaxOps = 2
SYMMETRY Symmetry
INVARIANT TypeOK
INVARIANT OrphansHaveCause
INVARIANT SeedCompletes
INVARIANT WalkComplete
PROPERTY UsedRoleKept
CHECK_DEADLOCK FALSE
