---------------------------- MODULE MCRoleCatalog ----------------------------
(* RoleCatalog for TLC: two seeded permissions, of which the role "user"   *)
(* is granted one.                                                         *)
EXTENDS RoleCatalog, TLC

TheSample == {<<"user", "read">>, <<"role", "read">>}
TheOwnPermission == <<"own", "read">>
Symmetry == Permutations(Workers)
=============================================================================
