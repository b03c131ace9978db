------------------------------ MODULE SeedData ------------------------------
(***************************************************************************)
(* The rows prisma/seed.ts writes: the permissions as pairs of a resource  *)
(* and an action (their code is "resource:action"), the default roles and  *)
(* what each of them is granted.  Names and descriptions are left out.     *)
(***************************************************************************)

UserActions == {"list", "statistics", "read", "create", "update", "delete",
                "session_list", "session_revoke"}
RoleActions == {"list", "statistics", "read", "create", "update", "delete",
                "assign_permissions"}
SystemActions == {"admin", "config"}
PermissionActions == {"read", "create", "update", "delete", "statistics"}
LogActions == {"api_list", "api_read", "error_list", "audit_list", "statistics"}

SeededPermissions ==
  UNION {{"user"} \X UserActions, {"role"} \X RoleActions,
         {"system"} \X SystemActions, {"permission"} \X PermissionActions,
         {"logs"} \X LogActions}

SeededRoles == {"admin", "user", "content_manager", "finance_manager", "auditor"}

UserGrants(P) == P \intersect ({"user"} \X {"read", "update"})
ContentGrants(P) == {p \in P : p[1] = "user" \/ p = <<"permission", "read">>}
FinanceGrants(P) == {p \in P : p[1] = "user" \/ p = <<"system", "config">>}
AuditGrants(P) == {p \in P : p[2] = "read" \/ p = <<"system", "admin">>}

\* What the script grants to a role out of the permissions P it has upserted.
DefaultGrants(role, P) ==
  CASE role = "admin" -> P
    [] role = "user" -> UserGrants(P)
    [] role = "content_manager" -> ContentGrants(P)
    [] role = "finance_manager" -> FinanceGrants(P)
    [] role = "auditor" -> AuditGrants(P)
=============================================================================
