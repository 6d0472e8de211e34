-------------------------- MODULE MCScanRecoverGui --------------------------
(* Small disks and target lists for ScanRecoverGui. *)
EXTENDS ScanRecoverGui, TLC

CONSTANTS d1, d2

MCDirs == <<d1, d2>>
OneDir == <<d1>>
=============================================================================
