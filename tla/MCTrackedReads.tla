----------------------------- MODULE MCTrackedReads ----------------------------
EXTENDS TrackedReads

CONSTANTS c1, c2
MCCalls == {c1, c2}
=============================================================================
