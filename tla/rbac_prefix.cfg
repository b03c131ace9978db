SPECIFICATION Spec
CONSTANTS
    Users = {u1}
    u1 = u1
    Roles = {r1}
    r1 = r1
    Perms = {p1}
    p1 = p1
    Requests = {q1}
    q1 = q1
    NoUser = NoUser
    Ops = {"guard", "assignPermissions", "deletePermission"}
    PrefixedKeys = TRUE
    CacheFaults = FALSE
    MaxChanges = 1
SYMMETRY Symmetry
INVARIANT FreshWhenQuiet
