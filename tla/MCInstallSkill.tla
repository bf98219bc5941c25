---------------------------- MODULE MCInstallSkill ----------------------------
(* InstallSkill for TLC.                                                    *)
EXTENDS InstallSkill, TLC
===============================================================================
