--------------------------- MODULE MCBackupStatus ---------------------------
(***************************************************************************)
(* An instance of Backup and its page for TLC: one file of two versions,   *)
(* for old against new contents and for what is written in the middle of a *)
(* run.                                                                    *)
(***************************************************************************)
EXTENDS BackupStatus

CONSTANT daily
=============================================================================
