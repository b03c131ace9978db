---------------------------- MODULE MCRbacCache ----------------------------
(* RbacCache for TLC: requests, users, roles and permissions are           *)
(* interchangeable.                                                        *)
EXTENDS RbacCache, TLC

Symmetry == Permutations(Requests) \union Permutations(Users)
              \union Permutations(Roles) \union Permutations(Perms)
=============================================================================
