----------------------------- MODULE RoleGrants -----------------------------
(* What an assignment of permissions to a role makes of the links between   *)
(* roles and permissions, which are pairs.                                  *)

\* removePermissions of the ids given, then assignPermissions of the same.
Regranted(links, role, perms) == (links \ ({role} \X perms)) \union ({role} \X perms)
=============================================================================
