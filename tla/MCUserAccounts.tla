--------------------------- MODULE MCUserAccounts ---------------------------
EXTENDS UserAccounts, TLC
Symmetry == Permutations(Users) \union Permutations(Workers)
=============================================================================
