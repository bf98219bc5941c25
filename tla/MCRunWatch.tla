------------------------------ MODULE MCRunWatch ------------------------------
(* RunWatch for TLC.                                                        *)
EXTENDS RunWatch, TLC
===============================================================================
