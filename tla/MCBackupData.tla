---------------------------- MODULE MCBackupData ----------------------------
(***************************************************************************)
(* BackupData on a small instance: the tables, workers and faults of its   *)
(* configuration.                                                          *)
(***************************************************************************)
EXTENDS BackupData

AllFaults  == FaultKinds
=============================================================================
