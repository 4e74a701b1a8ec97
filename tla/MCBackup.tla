------------------------------ MODULE MCBackup ------------------------------
(***************************************************************************)
(* Instances of Backup for TLC.  Two files of one version each for what    *)
(* happens to files; a torn copy counts as modified, so both gates close   *)
(* with them.  The mass gate alone needs two files of two versions.        *)
(***************************************************************************)
EXTENDS Backup, TLC

CONSTANTS daily, monthly

Files == {daily, monthly}
Symmetry == Permutations(Files)
=============================================================================
