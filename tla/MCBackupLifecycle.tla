------------------------- MODULE MCBackupLifecycle -------------------------
(***************************************************************************)
(* BackupLifecycle with every kind of fault.                                *)
(***************************************************************************)
EXTENDS BackupLifecycle

AllFaults == FaultKinds
=============================================================================
