------------------------- MODULE MCAccountLockout -------------------------
(* AccountLockout for TLC: short thresholds and locks. *)
EXTENDS AccountLockout
TwoTiers == <<3, 4>>
TwoTierLocks == <<2, 3>>
=============================================================================
