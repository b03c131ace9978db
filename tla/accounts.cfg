SPECIFICATION Spec
CONSTANTS
    Users = {u1, u2}
    Names = {n1, n2}
    Passwords = {1, 2}
    Workers = {w1, w2}
    Failures = TRUE
    MaxOps = 3
SYMMETRY Symmetry
CHECK_DEADLOCK FALSE
INVARIANTS RowHasRecord ChainOfRecords OldPasswordSessionHasCause ActiveDeletedHasCause NamesUnique
PROPERTIES DeletedForGood
