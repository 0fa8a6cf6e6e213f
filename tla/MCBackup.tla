------------------------------ MODULE MCBackup ------------------------------
(***************************************************************************)
(* Backup with the scheduler, a request for a backup and a list request.   *)
(***************************************************************************)
EXTENDS Backup
=============================================================================
