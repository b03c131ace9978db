-------------------------- MODULE MCAuthSessions --------------------------
(* AuthSessions for TLC: workers are interchangeable. *)
EXTENDS AuthSessions, TLC
Symmetry == Permutations(Workers)
=============================================================================
