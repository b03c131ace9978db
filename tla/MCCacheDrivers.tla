--------------------------- MODULE MCCacheDrivers ---------------------------
(* CacheDrivers for TLC; the constants are given in cache_drivers.cfg. *)
EXTENDS CacheDrivers
=============================================================================
