SPECIFICATION FairSpec
CONSTANTS
    Users = {u1}
    u1 = u1
    Roles = {r1}
    r1 = r1
    Perms = {p1}
    p1 = p1
    Requests = {q1, q2}
    q1 = q1
    q2 = q2
    NoUser = NoUser
    Ops = {"guard", "login", "refresh", "logout", "assignRoles", "removeRole", "createRole", "deleteRole", "assignPermissions", "updateRoleStatus", "updatePermissionStatus", "deletePermission"}
    PrefixedKeys = FALSE
    CacheFaults = TRUE
    MaxChanges = 2
INVARIANT StaleHasCause
PROPERTY StalenessEnds
