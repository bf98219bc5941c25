---------------------------- MODULE MCRequestCache ----------------------------
(* RequestCache for TLC.                                                   *)
EXTENDS RequestCache, TLC

MCVersions == 0 .. MaxVersion
===============================================================================
