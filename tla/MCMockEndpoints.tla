-------------------------- MODULE MCMockEndpoints --------------------------
(* MockEndpoints for TLC: one static path and one pattern that matches it. *)
EXTENDS MockEndpoints, TLC

CONSTANTS static, pattern, users

TheMatches == (static :> {users}) @@ (pattern :> Targets)
TheCovers == (static :> {users}) @@ (pattern :> {})

Symmetry == Permutations(Clients) \union Permutations(Admins)
=============================================================================
