----------------------------- MODULE MCCacheStore -----------------------------
(* CacheUse for TLC.                                                        *)
EXTENDS CacheUse, TLC
===============================================================================
