---------------------------- MODULE BackupStatus ----------------------------
(***************************************************************************)
(* The lines of the HISTORY page (ops_status.py, _print_history) about the *)
(* Backup: Company History that was written after the last successful      *)
(* Backup, by the clock of the files and of backup_state.json, and Company *)
(* History that is Gone from this machine (Backup).  The page's own        *)
(* listing is taken to find what is there.                                 *)
(***************************************************************************)
EXTENDS Backup

VARIABLES
    newer,  \* versions written after last_successful_backup; all, if there is none
    doubt   \* observability: files that a run did not find as they are, since it
            \* was past its listing or could not list them, and none has since

statusVars == <<vars, newer, doubt>>
Everything == File \X (1 .. MaxVersion)

\* _history_newer_than_the_last_backup: a file counts by when it was written.
Unbacked == { f \in Present(master) : <<f, master[f]>> \in newer }

Quiet == Unbacked = {} /\ Gone = {}

StatusInit == Init /\ newer = Everything /\ doubt = {}

\* What is written now is newer than any Backup so far, but a run that is at
\* work will call itself done later than this.
Write(f) ==
    /\ WriteHistory(f)
    /\ newer' = newer \cup { <<f, master'[f]>> }
    /\ doubt' = IF pc = "idle" THEN doubt ELSE doubt \cup {f}

\* A restored file has the time of its restoration, or the one it had.
Restore(f) ==
    /\ RestoreFile(f)
    /\ newer' \in { newer, newer \cup { <<f, master'[f]>> } }
    /\ UNCHANGED doubt

\* Without a state no Backup is known to have succeeded.
LoseState == StateLost /\ newer' = Everything /\ doubt' = {}

\* A sync leaves out what it did not find in the master.
Overlooked ==
    IF pc = "idle" /\ pc' = "copy"
    THEN { f \in File : master[f] \notin {0, listed'[f], working[f]} }
    ELSE {}

RecordIf(done) ==
    IF done THEN newer' = {} /\ doubt' = { f \in doubt : master[f] # listed[f] }
    ELSE UNCHANGED newer /\ doubt' = doubt \cup Overlooked

\* Fault: a run that fails counts as a Backup as well.
RecordAny == RecordIf(pc' = "idle")

\* last_successful_backup is the end of a run that has pushed; one that had
\* nothing to push leaves it as it was.
Record == RecordIf(pc' = "idle" /\ result' = "SUCCESS")

StatusNext ==
    \/ \E f \in File : Write(f) \/ Restore(f)
    \/ LoseState
    \/ (HandPush \/ \E f \in File : LoseFile(f) \/ ConfirmDeletion(f))
          /\ UNCHANGED <<newer, doubt>>
    \/ Run /\ Record

StatusSpec == StatusInit /\ [][StatusNext]_statusVars

FairStatusSpec == StatusSpec /\ Fairness
-----------------------------------------------------------------------------
\* A page without a complaint means that the remote has Company History as it
\* is on this machine ("is what is on this machine actually off it?"), except
\* what was written in the middle of a run that pushed -- the end of a run is
\* later than what it copied -- and what a run did not find in the master.
QuietMeansPushed ==
    pc = "idle" /\ Quiet => \A f \in Present(master) \ doubt : remote[f] = master[f]
=============================================================================
