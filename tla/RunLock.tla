------------------------------ MODULE RunLock ------------------------------
(***************************************************************************)
(* The lock file that keeps two Company Ops runs apart                     *)
(* (src/scheduler/lock.py).  Every run of the Desktop 4 Runner, of the     *)
(* Desktop agent and of the stand-alone scheduler brackets its work with   *)
(* try_acquire_lock() and release_lock() on one path.                      *)
(*                                                                         *)
(* A process is named by its pid.  Each file-system call of the code is    *)
(* one atomic step; anything may happen between two of them, including the *)
(* death of the process.  A lock file is a record: `id' is the identity of *)
(* the file (one per O_EXCL creation; it also stands for the created_at    *)
(* stamp that makes two payloads of one pid differ), `owner' the recorded  *)
(* process_id, `written' whether the payload has reached the disk.  A file *)
(* that is not written yet does not parse, so it reads as None, exactly as *)
(* a missing one does (_read_lock).                                        *)
(*                                                                         *)
(* `raced', `misled' and `robbed' are observability variables, not state   *)
(* of the program.  `raced' records that some unlink removed a file other  *)
(* than the one the caller had just looked at (takeover) or had created    *)
(* itself (cleanup, release); `misled' the runs whose probe called a live  *)
(* holder gone; `robbed' that one of those unlinked a live run's lock.     *)
(***************************************************************************)
EXTENDS Naturals

CONSTANTS
    Proc,            \* pids a run can have
    Id,              \* identities of lock files
    NoId,            \* "this process created no file"
    NoLock,          \* no file; also what an unreadable one reads as (None)
    OpenUnlinkable,  \* TRUE: an open file can be unlinked (POSIX); FALSE: Windows
    PidReuse,        \* TRUE: a new run may get the pid a leftover lock records
    ProbeErrs        \* TRUE: the probe of a pid may fail and answer "gone"

ASSUME NoIdAssumption == NoId \notin Id
ASSUME PlatformAssumption ==
    OpenUnlinkable \in BOOLEAN /\ PidReuse \in BOOLEAN /\ ProbeErrs \in BOOLEAN
ASSUME NoLockAssumption ==
    NoLock \notin [id: Id, owner: Proc, written: BOOLEAN]

VARIABLES
    file,     \* what is at lock_path
    pc,       \* where each process is in try_acquire_lock / release_lock
    pass,     \* the loop index of try_acquire_lock, 1 or 2
    mine,     \* the file a process created through O_EXCL
    seen,     \* `observed': what the process read of another's lock
    checked,  \* the file the recheck of _take_over_stale compared
    raced,    \* observability: an unlink hit the wrong file
    misled,   \* observability: runs that took a live holder for a dead one
    robbed    \* observability: one of them unlinked a live run's lock

vars == <<file, pc, pass, mine, seen, checked, raced, misled, robbed>>

LockFile == [id: Id, owner: Proc, written: BOOLEAN]

Phase == {"off", "create", "observe", "probe", "recheck", "unlink",
          "write", "cleanup", "confirm", "held", "exit"}

TypeOK ==
    /\ file \in LockFile \cup {NoLock}
    /\ pc \in [Proc -> Phase]
    /\ pass \in [Proc -> {1, 2}]
    /\ mine \in [Proc -> Id \cup {NoId}]
    /\ seen \in [Proc -> LockFile \cup {NoLock}]
    /\ checked \in [Proc -> LockFile \cup {NoLock}]
    /\ raced \in BOOLEAN
    /\ misled \in SUBSET Proc
    /\ robbed \in BOOLEAN

Running(p) == pc[p] # "off"

\* _read_lock: the payload, or None for a missing or unparseable file.
Content(f) == IF f # NoLock /\ f.written THEN f ELSE NoLock

\* Identities that nothing refers to any more, and the one a creation gets.
Fresh == { i \in Id :
            /\ file # NoLock => file.id # i
            /\ \A p \in Proc : /\ mine[p] # i
                               /\ seen[p] # NoLock => seen[p].id # i
                               /\ checked[p] # NoLock => checked[p].id # i }

NextId == CHOOSE i \in Fresh : TRUE

\* Whether os.unlink() can remove the file at lock_path now: on Windows not
\* while the process that created it still has it open.
Unlinkable ==
    /\ file # NoLock
    /\ ~OpenUnlinkable => \A q \in Proc : ~(pc[q] = "write" /\ mine[q] = file.id)

-----------------------------------------------------------------------------
Init ==
    /\ file = NoLock
    /\ pc = [p \in Proc |-> "off"]
    /\ pass = [p \in Proc |-> 1]
    /\ mine = [p \in Proc |-> NoId]
    /\ seen = [p \in Proc |-> NoLock]
    /\ checked = [p \in Proc |-> NoLock]
    /\ raced = FALSE
    /\ misled = {}
    /\ robbed = FALSE

Goto(p, phase) == pc' = [pc EXCEPT ![p] = phase]

\* A trigger (Task Scheduler, logon, a person) starts a run.
Trigger(p) ==
    /\ pc[p] = "off"
    /\ file # NoLock /\ file.owner = p => PidReuse
    /\ Goto(p, "create")
    /\ pass' = [pass EXCEPT ![p] = 1]
    /\ UNCHANGED <<file, mine, seen, checked, raced, misled, robbed>>

\* os.open(O_CREAT | O_EXCL) succeeds: no file was there.
Create(p) ==
    /\ pc[p] = "create"
    /\ file = NoLock
    /\ Fresh # {}
    /\ file' = [id |-> NextId, owner |-> p, written |-> FALSE]
    /\ mine' = [mine EXCEPT ![p] = NextId]
    /\ Goto(p, "write")
    /\ UNCHANGED <<pass, seen, checked, raced, misled, robbed>>

\* FileExistsError.
Collide(p) ==
    /\ pc[p] = "create"
    /\ file # NoLock
    /\ Goto(p, "observe")
    /\ UNCHANGED <<file, pass, mine, seen, checked, raced, misled, robbed>>

\* Any other OSError of os.open: the caller is told False.
OpenRefused(p) ==
    /\ pc[p] = "create"
    /\ Goto(p, "exit")
    /\ UNCHANGED <<file, pass, mine, seen, checked, raced, misled, robbed>>

\* observed = _read_lock(lock_path)
Observe(p) ==
    /\ pc[p] = "observe"
    /\ seen' = [seen EXCEPT ![p] = Content(file)]
    /\ Goto(p, "probe")
    /\ UNCHANGED <<file, pass, mine, checked, raced, misled, robbed>>

\* _is_process_running() answers True: the recorded process lives, or the
\* probe could not tell, or its pid now belongs to the same executable.
ProbeRunning(p) ==
    /\ pc[p] = "probe"
    /\ seen[p] # NoLock
    /\ Goto(p, "exit")
    /\ UNCHANGED <<file, pass, mine, seen, checked, raced, misled, robbed>>

\* It answers False: no pid to ask about, or that process is gone.
ProbeStale(p) ==
    /\ pc[p] = "probe"
    /\ seen[p] # NoLock => ~Running(seen[p].owner)
    /\ Goto(p, "recheck")
    /\ UNCHANGED <<file, pass, mine, seen, checked, raced, misled, robbed>>

\* It answers False of a live holder: tasklist ends with a nonzero code, or
\* os.kill fails in a way the code does not tell from a missing process.
ProbeMisled(p) ==
    /\ ProbeErrs
    /\ pc[p] = "probe"
    /\ seen[p] # NoLock
    /\ Running(seen[p].owner)
    /\ Goto(p, "recheck")
    /\ misled' = misled \cup {p}
    /\ UNCHANGED <<file, pass, mine, seen, checked, raced, robbed>>

\* Fault: the file is not compared with what was observed.
RecheckUncompared(p) ==
    /\ pc[p] = "recheck"
    /\ checked' = [checked EXCEPT ![p] = file]
    /\ Goto(p, "unlink")
    /\ UNCHANGED <<file, pass, mine, seen, raced, misled, robbed>>

\* Fault: a lock that does not parse is left to its unknown owner.
RecheckSparesUnreadable(p) ==
    /\ pc[p] = "recheck"
    /\ IF seen[p] # NoLock /\ Content(file) = seen[p]
         THEN /\ checked' = [checked EXCEPT ![p] = file]
              /\ Goto(p, "unlink")
         ELSE /\ Goto(p, "exit")
              /\ UNCHANGED checked
    /\ UNCHANGED <<file, pass, mine, seen, raced, misled, robbed>>

\* _take_over_stale: read again and compare with what was observed.
Recheck(p) ==
    /\ pc[p] = "recheck"
    /\ IF Content(file) = seen[p]
         THEN /\ checked' = [checked EXCEPT ![p] = file]
              /\ Goto(p, "unlink")
         ELSE /\ Goto(p, "exit")
              /\ UNCHANGED checked
    /\ UNCHANGED <<file, pass, mine, seen, raced, misled, robbed>>

\* _take_over_stale: the unlink itself.  After the second pass the loop is
\* over and the caller is told False although it removed the file.
Unlink(p) ==
    /\ pc[p] = "unlink"
    /\ Unlinkable
    /\ file' = NoLock
    /\ raced' = (raced \/ file # checked[p])
    /\ Goto(p, IF pass[p] = 1 THEN "create" ELSE "exit")
    /\ pass' = [pass EXCEPT ![p] = 2]
    /\ seen' = [seen EXCEPT ![p] = NoLock]
    /\ checked' = [checked EXCEPT ![p] = NoLock]
    /\ misled' = misled \ {p}
    /\ robbed' = (robbed \/ (p \in misled /\ Running(file.owner)))
    /\ UNCHANGED mine

\* The file is gone already, still open, or the OS refuses.
UnlinkFails(p) ==
    /\ pc[p] = "unlink"
    /\ Goto(p, "exit")
    /\ UNCHANGED <<file, pass, mine, seen, checked, raced, misled, robbed>>

\* json.dump and close.  The payload goes to the file this process opened,
\* which may no longer be the one at lock_path.
Write(p) ==
    /\ pc[p] = "write"
    /\ file' = IF file # NoLock /\ file.id = mine[p]
                 THEN [file EXCEPT !.written = TRUE] ELSE file
    /\ Goto(p, "confirm")
    /\ UNCHANGED <<pass, mine, seen, checked, raced, misled, robbed>>

\* The write raises: the file is closed, then unlinked, and the run ends.
WriteFails(p) ==
    /\ pc[p] = "write"
    /\ Goto(p, "cleanup")
    /\ UNCHANGED <<file, pass, mine, seen, checked, raced, misled, robbed>>

\* os.unlink(lock_path) of whatever is there, succeeding or not; the caller
\* neither looks at the file nor at the outcome.
RemoveOwn(p) ==
    /\ \/ /\ Unlinkable
          /\ file' = NoLock
          /\ raced' = (raced \/ file.id # mine[p])
       \/ UNCHANGED <<file, raced>>
    /\ Goto(p, "exit")
    /\ UNCHANGED <<pass, mine, seen, checked, misled, robbed>>

Cleanup(p) == pc[p] = "cleanup" /\ RemoveOwn(p)

\* Is the lock on disk ours?  Only the recorded pid is compared.
Confirm(p) ==
    /\ pc[p] = "confirm"
    /\ Goto(p, IF Content(file) # NoLock /\ file.owner = p THEN "held" ELSE "exit")
    /\ UNCHANGED <<file, pass, mine, seen, checked, raced, misled, robbed>>

\* release_lock() at the end of the run, in a finally block.
Release(p) == pc[p] = "held" /\ RemoveOwn(p)

\* The process ends: on its own after the run, or killed at any point.
Forget(p) ==
    /\ Goto(p, "off")
    /\ mine' = [mine EXCEPT ![p] = NoId]
    /\ seen' = [seen EXCEPT ![p] = NoLock]
    /\ checked' = [checked EXCEPT ![p] = NoLock]
    /\ misled' = misled \ {p}
    /\ UNCHANGED <<file, pass, raced, robbed>>

Exit(p) == pc[p] = "exit" /\ Forget(p)

Crash(p) == pc[p] \notin {"off", "exit"} /\ Forget(p)

Step(p) ==
    \/ Trigger(p) \/ Create(p) \/ Collide(p) \/ OpenRefused(p)
    \/ Observe(p) \/ ProbeRunning(p) \/ ProbeStale(p) \/ ProbeMisled(p)
    \/ Recheck(p) \/ Unlink(p) \/ UnlinkFails(p)
    \/ Write(p) \/ WriteFails(p) \/ Cleanup(p) \/ Confirm(p)
    \/ Release(p) \/ Exit(p) \/ Crash(p)

Next == \E p \in Proc : Step(p)

Spec == Init /\ [][Next]_vars

\* Triggers keep coming, a run that is not killed moves on, and a takeover
\* that is attempted again and again is not refused or killed every time.
Fairness ==
    \A p \in Proc :
        /\ WF_vars(Trigger(p)) /\ WF_vars(Exit(p))
        /\ SF_vars(Collide(p)) /\ SF_vars(Observe(p)) /\ SF_vars(ProbeStale(p))
        /\ SF_vars(Recheck(p)) /\ SF_vars(Unlink(p)) /\ WF_vars(Write(p))
        /\ WF_vars(Cleanup(p)) /\ WF_vars(Confirm(p)) /\ WF_vars(Release(p))

FairSpec == Spec /\ Fairness
-----------------------------------------------------------------------------
Holds(p) == pc[p] = "held"

\* At most one run holds the lock: "exactly one caller can ever be told True
\* for a given lock" (the docstring of try_acquire_lock).
MutualExclusion == \A p, q \in Proc : Holds(p) /\ Holds(q) => p = q

\* An unlink took a lock it should have left alone: the file had changed
\* hands since it was looked at, or a failed probe gave its live holder up.
Astray == raced \/ robbed

\* The code's own guarantee: two runs hold the lock together only after an
\* unlink removed a file other than the one its caller had checked or made,
\* or the lock of a live run that a failed probe had called gone.
\* Recheck and confirmation close every other window, crashes included.
OneHolderUnlessAstray == Astray \/ MutualExclusion

\* While no unlink went astray, the file at lock_path is the holder's own,
\* written: nobody takes the lock of a live run and a release can only
\* remove the releasing run's lock.
HolderOwnsTheFile ==
    Astray \/ \A p \in Proc : Holds(p) =>
        file = [id |-> mine[p], owner |-> p, written |-> TRUE]

\* A payload that a working probe judged stale is never again the lock of a
\* live run, even when its pid is handed to a new one: the judgement cannot
\* go out of date between the probe and the unlink (docs/07 section 27).
StaleStaysStale ==
    \A p, q \in Proc :
        (/\ pc[p] \in {"recheck", "unlink"} /\ seen[p] # NoLock
         /\ p \notin misled /\ Running(q))
            => mine[q] # seen[p].id

\* A lock left by a dead run is eventually removed (docs/07 section 26: the
\* Runner must not stop forever because a lock exists).
Stale == file # NoLock /\ ~Running(file.owner)
StaleLockIsReclaimed == Stale ~> ~Stale
=============================================================================
