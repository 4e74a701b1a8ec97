------------------------------- MODULE Backup -------------------------------
(***************************************************************************)
(* Backup of Company History (src/backup): the Runner copies the Daily and *)
(* Monthly files of the Local Master into a Working Copy, a Git clone, and *)
(* commits and pushes what changed.  One run at a time.                    *)
(*                                                                         *)
(*   master --copy--> working --commit--> head --push--> remote            *)
(*                                                                         *)
(* Two gates stop a run: files that are gone from the master, and too many *)
(* modified ones.  backup_state.json remembers whether a push is owed.     *)
(* Any operation may fail, the process may die between any two, a push may *)
(* arrive and yet be reported as failed, and people delete, restore, write *)
(* and push by hand.  A file is a version number; 0 means it is not there. *)
(***************************************************************************)
EXTENDS Naturals, FiniteSets

CONSTANTS
    File,           \* the files of daily/ and monthly/
    MaxVersion,     \* bound on the versions of a file
    MassThreshold,  \* _MASS_MODIFICATION_THRESHOLD
    Torn            \* the contents of a file whose copy was cut off

ASSUME MaxVersionAssumption == MaxVersion \in Nat \ {0}
ASSUME MassThresholdAssumption == MassThreshold \in Nat
ASSUME TornAssumption == Torn \notin Nat

VARIABLES
    master, working, head, remote,  \* the version of each file in each place
    ahead,      \* HEAD has commits that the upstream ref has not
    status,     \* backup_status in backup_state.json
    pc,         \* the step of the Backup
    toCopy,     \* files the sync has still to copy
    modified,   \* WorkingCopySyncResult.modified
    result,     \* how the last run ended
    listed,     \* observability: the files this run's sync found in the master
    confirmed,  \* observability: files whose deletion a person confirmed
    blocked,    \* observability: what tripped the mass gate, until people step in
    missed      \* observability: torn files that a sync did not get to compare

places == <<master, working, head, remote, ahead>>
seen == <<listed, confirmed, blocked, missed>>
vars == <<places, status, pc, toCopy, modified, result, seen>>

Version == 0 .. MaxVersion
Status == {"none", "PENDING", "SUCCESS", "FAILED", "NOT_REQUIRED"}
Green == {"SUCCESS", "NOT_REQUIRED"}  \* but not "NOT_COUNTED", see CountUnknown

TypeOK ==
    /\ master \in [File -> Version] /\ listed \in [File -> Version]
    /\ working \in [File -> Version \cup {Torn}]
    /\ head \in [File -> Version \cup {Torn}]
    /\ remote \in [File -> Version \cup {Torn}]
    /\ ahead \in BOOLEAN
    /\ status \in Status
    /\ pc \in {"idle", "copy", "commit", "push", "save", "count"}
    /\ toCopy \subseteq File /\ modified \subseteq File
    /\ confirmed \subseteq File /\ missed \subseteq File
    /\ result \in {"none", "running", "raised", "NOT_COUNTED"} \cup Status
    /\ blocked \subseteq File \X (Version \cup {Torn})
-----------------------------------------------------------------------------
Nowhere == [f \in File |-> 0]

Init ==
    /\ master = Nowhere /\ working = Nowhere /\ head = Nowhere /\ remote = Nowhere
    /\ ahead = FALSE
    /\ status = "none" /\ pc = "idle" /\ result = "none"
    /\ toCopy = {} /\ modified = {}
    /\ listed = Nowhere /\ confirmed = {} /\ blocked = {} /\ missed = {}

\* The newest whole version of f that there is, or was, to be told from.
Newest(f) ==
    CHOOSE v \in Version :
        /\ v \in {master[f], working[f], head[f]}
        /\ \A w \in {master[f], working[f], head[f]} \cap Version : w <= v

\* Daily Close, Late Update and Monthly of a later run write a new version, or
\* the COO's own edit does, at any time; a file that is gone is written anew
\* only by a run, before its Backup.
WriteHistory(f) ==
    /\ master[f] = 0 => pc = "idle"
    /\ Newest(f) < MaxVersion
    /\ master' = [master EXCEPT ![f] = Newest(f) + 1]
    /\ UNCHANGED <<working, head, remote, ahead, status, pc, toCopy, modified, result, seen>>

\* A file is gone from the master, whenever that happens.
LoseFile(f) ==
    /\ master[f] # 0
    /\ master' = [master EXCEPT ![f] = 0]
    /\ blocked' = {}
    /\ UNCHANGED <<working, head, remote, ahead, status, pc, toCopy, modified, result,
                   listed, confirmed, missed>>

\* A person copies it back from the Working Copy or its last commit.
RestoreFile(f) ==
    /\ pc = "idle"
    /\ master[f] = 0
    /\ \E v \in {working[f], head[f]} \cap Version :
        /\ v # 0
        /\ v = Newest(f)
        /\ master' = [master EXCEPT ![f] = v]
    /\ blocked' = {}
    /\ UNCHANGED <<working, head, remote, ahead, status, pc, toCopy, modified, result,
                   listed, confirmed, missed>>

\* Or confirms the deletion, by deleting it in the Working Copy, too.
ConfirmDeletion(f) ==
    /\ pc = "idle"
    /\ master[f] = 0 /\ working[f] # 0
    /\ working' = [working EXCEPT ![f] = 0]
    /\ confirmed' = confirmed \cup {f}
    /\ blocked' = {}
    /\ UNCHANGED <<master, head, remote, ahead, status, pc, toCopy, modified, result,
                   listed, missed>>

\* When a file is pushed that is in the Working Copy, its deletion is history;
\* so is a torn copy that was overwritten.
Arrives ==
    /\ remote' = head
    /\ confirmed' = { f \in confirmed : head[f] = 0 \/ working[f] = 0 }
    /\ missed' = { f \in missed : Torn \in {working[f], head[f]} }

\* git push by hand.
HandPush ==
    /\ pc = "idle"
    /\ ahead
    /\ Arrives
    /\ ahead' = FALSE
    /\ blocked' = {}
    /\ UNCHANGED <<master, working, head, status, pc, toCopy, modified, result, listed>>

\* backup_state.json is lost, or a corrupted one is removed.
StateLost ==
    /\ pc = "idle"
    /\ status' = "none"
    /\ blocked' = {}
    /\ UNCHANGED <<places, pc, toCopy, modified, result, listed, confirmed, missed>>
-----------------------------------------------------------------------------
Present(place) == { f \in File : place[f] # 0 }

\* Fault: files that went missing are looked for between the others only.
GoneBetween ==
    { f \in Present(working) : master[f] = 0 /\ Present(master) # {} }

\* The line of the HISTORY page on files that only the Working Copy has
\* (_history_gone_from_local_master).
Gone == Present(working) \ Present(master)

\* What a run held in memory is gone.
EndRun ==
    /\ pc' = "idle"
    /\ toCopy' = {} /\ modified' = {} /\ listed' = Nowhere

\* A gate closes: the run ends as BACKUP_FAILED and the state says so.
GateCloses ==
    /\ status' = "FAILED" /\ result' = "FAILED"
    /\ EndRun

\* A secret-like file name anywhere in the master.
SecretGate ==
    /\ pc = "idle"
    /\ GateCloses
    /\ UNCHANGED <<places, confirmed, blocked, missed>>

\* Fault: the deletion is applied to the Working Copy before the gate closes.
DeletionApplied(here, there) ==
    /\ pc = "idle"
    /\ ~(there \subseteq here)
    /\ GateCloses
    /\ working' = [f \in File |-> IF f \in there \ here THEN 0 ELSE working[f]]
    /\ UNCHANGED <<master, head, remote, ahead, confirmed, blocked, missed>>

\* Master and Working Copy are listed, and in both a directory that cannot be
\* listed counts as an empty one: here and there are what was found.  A file
\* of the Working Copy that was not found in the Master counts as deleted, and
\* nothing at all is copied.
DeletionGate(here, there) ==
    /\ pc = "idle"
    /\ ~(there \subseteq here)
    /\ GateCloses
    /\ UNCHANGED <<places, confirmed, blocked, missed>>

\* What the sync is about to copy, and what this run will be judged by.
Sync(here, there, copies) ==
    /\ pc = "idle"
    /\ there \subseteq here
    /\ pc' = "copy" /\ result' = "running"
    /\ toCopy' = copies /\ modified' = copies \cap there
    /\ listed' = [f \in File |-> IF f \in here THEN master[f] ELSE 0]
    /\ missed' = missed \cup { f \in File \ here : working[f] = Torn }
    /\ UNCHANGED <<places, status, confirmed, blocked>>

\* New files, and those whose contents differ, are copied; a new file that was
\* not found is left out, and nothing says so.
StartSync(here, there) ==
    Sync(here, there, { f \in here : f \in there => master[f] # working[f] })

CopyFile(f) ==
    /\ f \in toCopy
    /\ master[f] # 0
    /\ working' = [working EXCEPT ![f] = master[f]]
    /\ toCopy' = toCopy \ {f}
    /\ UNCHANGED <<master, head, remote, ahead, status, pc, modified, result, seen>>

MassModified == Cardinality(modified) > MassThreshold

\* Too many modified files: the run stops, but they are copied already.
MassGate ==
    /\ pc = "copy" /\ toCopy = {}
    /\ MassModified
    /\ GateCloses
    /\ blocked' = { <<f, working[f]>> : f \in modified }
    /\ UNCHANGED <<places, confirmed, missed>>

\* Fault: a Working Copy without changes is taken for one that was pushed.
ExamineBelievesGit ==
    /\ pc = "copy" /\ toCopy = {}
    /\ ~MassModified
    /\ pc' = IF working # head THEN "commit"
             ELSE IF status = "PENDING" THEN "push" ELSE "save"
    /\ UNCHANGED <<places, status, toCopy, modified, result, seen>>

\* git status: what changed is committed; an unchanged Working Copy may still
\* owe a push, by the state's word or by the repository's.
Examine ==
    /\ pc = "copy" /\ toCopy = {}
    /\ ~MassModified
    /\ pc' = IF working # head THEN "commit"
             ELSE IF status = "PENDING" THEN "push" ELSE "count"
    /\ UNCHANGED <<places, status, toCopy, modified, result, seen>>

\* git add -A, git commit.
Commit ==
    /\ pc = "commit"
    /\ head' = working
    /\ ahead' = TRUE
    /\ pc' = "push"
    /\ UNCHANGED <<master, working, remote, status, toCopy, modified, result, seen>>

Push ==
    /\ pc = "push"
    /\ Arrives
    /\ ahead' = FALSE
    /\ pc' = "save"
    /\ UNCHANGED <<master, working, head, status, toCopy, modified, result, listed, blocked>>

EndByException ==
    /\ EndRun
    /\ result' = "raised"

\* add, commit or push fails, for now or for good: the state says which, and
\* the exception goes on.  A push that timed out may have arrived.
GitFails ==
    /\ pc \in {"commit", "push"}
    /\ status' \in {"PENDING", "FAILED"}
    /\ \/ pc = "push" /\ Arrives
       \/ UNCHANGED <<remote, confirmed, missed>>
    /\ EndByException
    /\ UNCHANGED <<master, working, head, ahead, blocked>>

EndGreen(outcome) ==
    /\ EndRun
    /\ status' = outcome

\* BACKUP_SUCCESS.
Save ==
    /\ pc = "save"
    /\ EndGreen("SUCCESS") /\ result' = "SUCCESS"
    /\ UNCHANGED <<places, confirmed, blocked, missed>>

\* Fault: only a state of FAILED makes the repository worth asking.
CountTrustsState ==
    /\ pc = "count"
    /\ ahead => status # "FAILED"
    /\ EndGreen("NOT_REQUIRED") /\ result' = "NOT_REQUIRED"
    /\ UNCHANGED <<places, confirmed, blocked, missed>>

\* count_unpushed_commits is 0: BACKUP_NOT_REQUIRED.
CountNone ==
    /\ pc = "count"
    /\ ~ahead
    /\ EndGreen("NOT_REQUIRED") /\ result' = "NOT_REQUIRED"
    /\ UNCHANGED <<places, confirmed, blocked, missed>>

GoesOnFailing ==
    /\ EndRun
    /\ result' = "FAILED"
    /\ UNCHANGED status

\* Commits never reached the remote: reported as BACKUP_FAILED until a person
\* or a new commit pushes them, the state left as it is.
CountSome ==
    /\ pc = "count"
    /\ ahead
    /\ GoesOnFailing
    /\ UNCHANGED <<places, confirmed, blocked, missed>>

\* Git cannot tell: a failure on record stands, without one all is well.
CountUnknown ==
    /\ pc = "count"
    /\ \/ status = "FAILED" /\ GoesOnFailing
       \/ /\ status # "FAILED"
          /\ EndGreen("NOT_REQUIRED")
          /\ result' = IF ahead THEN "NOT_COUNTED" ELSE "NOT_REQUIRED"
    /\ UNCHANGED <<places, confirmed, blocked, missed>>

\* A copy is cut off in the middle, by an error or by the end of the process.
TearFile(f) ==
    /\ f \in toCopy
    /\ master[f] # 0
    /\ working' = [working EXCEPT ![f] = Torn]
    /\ EndByException
    /\ UNCHANGED <<master, head, remote, ahead, status, confirmed, blocked, missed>>

\* A missing master or repository, a file that is gone before it is copied, a
\* state that cannot be loaded or saved, a failing git status: an exception,
\* at any step of the run.  Or the process is killed.
Raise ==
    /\ EndByException
    /\ UNCHANGED <<places, status, confirmed, blocked, missed>>

People ==
    \/ \E f \in File : LoseFile(f) \/ RestoreFile(f) \/ ConfirmDeletion(f)
    \/ HandPush \/ StateLost

Run ==
    \/ SecretGate
    \/ \E here \in SUBSET Present(master), there \in SUBSET Present(working) :
          DeletionGate(here, there) \/ StartSync(here, there)
    \/ \E f \in File : CopyFile(f) \/ TearFile(f)
    \/ MassGate \/ Examine \/ Commit \/ Push \/ GitFails \/ Save
    \/ CountNone \/ CountSome \/ CountUnknown
    \/ Raise

Next == (\E f \in File : WriteHistory(f)) \/ People \/ Run

Spec == Init /\ [][Next]_vars

\* This run's sync found every file of the master.
FoundAll == Present(master) \subseteq Present(listed)

\* Runs are triggered and come to an end; now and then one can list everything,
\* and of those runs not every one fails at the same step.
Fairness ==
    /\ WF_vars(pc # "idle" /\ Run)
    /\ SF_vars(\E there \in SUBSET Present(working) : StartSync(Present(master), there))
    /\ WF_vars(DeletionGate(Present(master), Present(working)))
    /\ \A f \in File : SF_vars(FoundAll /\ CopyFile(f))
    /\ SF_vars(FoundAll /\ Examine) /\ SF_vars(FoundAll /\ Commit)
    /\ SF_vars(FoundAll /\ Push) /\ SF_vars(FoundAll /\ Save)
    /\ SF_vars(FoundAll /\ (CountNone \/ CountSome))

FairSpec == Spec /\ Fairness
-----------------------------------------------------------------------------
\* A file that was backed up disappears from the remote only after a person
\* confirmed its deletion: the gate holds over any number of runs, crashes
\* and restored or rewritten files (docs/08 sections 43 to 49).
DeletionNeedsAPerson ==
    [][\A f \in File : remote[f] # 0 /\ remote'[f] = 0 => f \in confirmed]_vars

\* A copy that was cut off is never pushed as a day of Company History, unless
\* its directory could not be listed when the next run compared.
NoTornBackup == \A f \in File : remote[f] = Torn => f \in missed

\* A run that calls itself done, with a push or without, leaves the remote with
\* every file its sync found, as it was then -- unless git could not count the
\* commits.
GreenMeansBackedUp ==
    [][pc # "idle" /\ result' \in Green =>
        \A f \in Present(listed) : remote'[f] # Torn /\ remote'[f] >= listed[f]]_vars

\* A file that reached the remote and is gone from this machine is on the page
\* until a person restores it or confirms that it is deleted, whatever the runs
\* do in the meantime ("a monotonic record of every Company History file").
GoneIsNoticed ==
    \A f \in File : remote[f] # 0 /\ master[f] = 0 => f \in Gone \cup confirmed

\* Versions that tripped the mass modification gate are not pushed: "abnormally
\* many modified files also blocks the run before any git command, same as the
\* deletion gate above" (backup/runner.py).
BlockedStaysBlocked == \A f \in File : <<f, remote[f]>> \notin blocked

\* What is written is pushed in the end, or gone, or a run reports that it failed.
NeverQuietlyBehind ==
    \A f \in File : \A v \in Version \ {0} :
        master[f] = v ~> \/ remote[f] # Torn /\ remote[f] >= v
                         \/ master[f] = 0
                         \/ result = "FAILED"
=============================================================================
