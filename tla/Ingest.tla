------------------------------- MODULE Ingest ------------------------------
(***************************************************************************)
(* Desktop 4 from the OneDrive folder to the History Candidate: the first  *)
(* half of the Runner (src/app/runner.py run_once, steps Transport to      *)
(* History Filter), one Runner at a time (RunLock).                        *)
(*                                                                         *)
(*   transport/ --run_intake--> incoming/ --Collector--> processed/        *)
(*                                              \------> rejected/         *)
(*   processed/ (ACCEPTED in this run) --History Filter--> candidates      *)
(*                                                                         *)
(* A file is known by its name; the files of one Event are the Event's own *)
(* file and the conflict copies a sync client makes of it.  The Collector  *)
(* remembers consumed event ids in memory and, through an atomic save, in  *)
(* collector_state.json; both sets are kept, because a save can fail.  The *)
(* process may die between any two file-system operations and any of them  *)
(* may fail.  The code visits the files of a directory in sorted order;    *)
(* here in any order.                                                      *)
(***************************************************************************)
EXTENDS Naturals, FiniteSets

CONSTANTS
    File,       \* file names
    Event,      \* event ids
    Invalid,    \* what a file holds that is JSON but no valid Event
    EventIn,    \* the Event each file holds, or Invalid
    Decision    \* what the History Filter answers for each Event

ASSUME InvalidAssumption == Invalid \notin Event
ASSUME EventInAssumption == EventIn \in [File -> Event \cup {Invalid}]
ASSUME DecisionAssumption == Decision \in [Event -> {"KEEP", "REVIEW", "DROP"}]

VARIABLES
    transport,   \* the OneDrive folder: absent, still syncing or complete
    incoming, processed, rejected,   \* the Runner's three directories
    seenDisk,    \* processed_event_ids in collector_state.json
    seenMem,     \* the same set in the running process
    candidates,  \* Events with a file in history_candidates/keep or review
    pc,          \* the Runner's step
    todo,        \* files the current step has still to visit
    moving,      \* the file marked as seen whose move comes next, if any
    accepted,    \* files the Collector accepted in this run
    fault        \* observability: what has gone wrong around a mark so far

dirs == <<transport, incoming, processed, rejected>>
seen == <<seenDisk, seenMem>>
vars == <<dirs, seen, candidates, pc, todo, moving, accepted, fault>>

Phase == {"idle", "intake", "collect", "notion", "filter"}
Fault == {"mark", "rollback", "crash"}

TypeOK ==
    /\ transport \in [File -> {"absent", "partial", "complete"}]
    /\ incoming \subseteq File
    /\ processed \subseteq File
    /\ rejected \subseteq File
    /\ seenDisk \subseteq Event
    /\ seenMem \subseteq Event
    /\ candidates \subseteq Event
    /\ pc \in Phase
    /\ todo \subseteq File
    /\ moving \subseteq File
    /\ accepted \subseteq File
    /\ fault \subseteq Fault

Wanted == { e \in Event : Decision[e] # "DROP" }   \* KEEP and REVIEW
Valid(f) == EventIn[f] \in Event

-----------------------------------------------------------------------------
Init ==
    /\ transport = [f \in File |-> "absent"]
    /\ incoming = {} /\ processed = {} /\ rejected = {}
    /\ seenDisk = {} /\ seenMem = {}
    /\ candidates = {}
    /\ pc = "idle"
    /\ todo = {} /\ moving = {} /\ accepted = {}
    /\ fault = {}

\* OneDrive creates the local copy of a sent file and fills it.  The sender
\* may send a name again after the Runner has taken the first copy away.
Arrive(f) ==
    /\ transport[f] # "complete"
    /\ transport' = [transport EXCEPT ![f] =
                        IF transport[f] = "absent" THEN "partial" ELSE "complete"]
    /\ UNCHANGED <<incoming, processed, rejected, seen, candidates, pc, todo,
                   moving, accepted, fault>>

\* A run begins and lists the transport folder.
StartRun ==
    /\ pc = "idle"
    /\ pc' = "intake"
    /\ todo' = { f \in File : transport[f] # "absent" }
    /\ UNCHANGED <<dirs, seen, candidates, moving, accepted, fault>>

Visit(f) == f \in todo /\ todo' = todo \ {f}

\* run_intake: a complete file whose name is nowhere downstream is moved.
IntakeMove(f) ==
    /\ pc = "intake"
    /\ Visit(f)
    /\ f \notin incoming \cup processed \cup rejected
    /\ transport[f] = "complete"
    /\ transport' = [transport EXCEPT ![f] = "absent"]
    /\ incoming' = incoming \cup {f}
    /\ UNCHANGED <<processed, rejected, seen, candidates, pc, moving, accepted, fault>>

\* Already present, not stable yet, not parseable, or the move failed.
IntakeSkip(f) ==
    /\ pc = "intake"
    /\ Visit(f)
    /\ UNCHANGED <<dirs, seen, candidates, pc, moving, accepted, fault>>

\* The Collector step: load collector_state.json, list incoming/.
StartCollect ==
    /\ pc = "intake"
    /\ todo = {}
    /\ pc' = "collect"
    /\ seenMem' = seenDisk
    /\ todo' = incoming
    /\ UNCHANGED <<dirs, seenDisk, candidates, moving, accepted, fault>>

\* The Collector takes up a file once the previous one is settled.
Collecting(f) == pc = "collect" /\ moving = {} /\ Visit(f)

\* os.replace of an incoming file into a directory without that name.
MoveTo(f, target) == f \in incoming /\ f \notin target /\ incoming' = incoming \ {f}

\* FAILED without a mark: the file cannot be read, or a REJECTED or DUPLICATE
\* one cannot be moved because of the OS or of a file of that name.
CollectFails(f) ==
    /\ Collecting(f)
    /\ UNCHANGED <<dirs, seen, candidates, pc, moving, accepted, fault>>

\* REJECTED: the content is not a valid Event.
Reject(f) ==
    /\ Collecting(f)
    /\ ~Valid(f)
    /\ MoveTo(f, rejected)
    /\ rejected' = rejected \cup {f}
    /\ UNCHANGED <<transport, processed, seen, candidates, pc, moving, accepted, fault>>

\* Fault: a duplicate is left where it is.
DuplicateLeft(f) ==
    /\ Collecting(f)
    /\ Valid(f) /\ EventIn[f] \in seenMem
    /\ UNCHANGED <<dirs, seen, candidates, pc, moving, accepted, fault>>

\* DUPLICATE: the event id was seen before.
Duplicate(f) ==
    /\ Collecting(f)
    /\ Valid(f) /\ EventIn[f] \in seenMem
    /\ MoveTo(f, processed)
    /\ processed' = processed \cup {f}
    /\ UNCHANGED <<transport, rejected, seen, candidates, pc, moving, accepted, fault>>

\* Fault: the id is not looked up first.
MarkSeenAgain(f) ==
    /\ Collecting(f)
    /\ Valid(f)
    /\ seenMem' = seenMem \cup {EventIn[f]}
    /\ seenDisk' = seenMem'
    /\ moving' = {f}
    /\ UNCHANGED <<dirs, candidates, pc, accepted, fault>>

\* A new event id: mark_seen adds it to the set and saves the set.
MarkSeen(f) ==
    /\ Collecting(f)
    /\ Valid(f) /\ EventIn[f] \notin seenMem
    /\ seenMem' = seenMem \cup {EventIn[f]}
    /\ seenDisk' = seenMem'
    /\ moving' = {f}
    /\ UNCHANGED <<dirs, candidates, pc, accepted, fault>>

\* The save fails: FAILED, the file stays, the id stays in memory.
MarkSeenFails(f) ==
    /\ Collecting(f)
    /\ Valid(f) /\ EventIn[f] \notin seenMem
    /\ seenMem' = seenMem \cup {EventIn[f]}
    /\ fault' = fault \cup {"mark"}
    /\ UNCHANGED <<dirs, seenDisk, candidates, pc, moving, accepted>>

\* ACCEPTED: the marked file leaves incoming/.
MoveAccepted(f) ==
    /\ f \in moving
    /\ MoveTo(f, processed)
    /\ processed' = processed \cup {f}
    /\ moving' = {}
    /\ accepted' = accepted \cup {f}
    /\ UNCHANGED <<transport, rejected, seen, candidates, pc, todo, fault>>

\* The run is over, by its end or by an exception nobody catches: what it
\* held in memory is gone.
EndRun ==
    /\ pc' = "idle"
    /\ seenMem' = {}
    /\ todo' = {} /\ moving' = {} /\ accepted' = {}

\* Fault: the mark of a file that could not be moved stays.
KeepMark(f) ==
    /\ f \in moving
    /\ moving' = {}
    /\ UNCHANGED <<dirs, seen, candidates, pc, todo, accepted, fault>>

\* The move fails (or the name is taken): _rollback_mark takes the id out of
\* the set and saves it.
RollbackMark(f) ==
    /\ f \in moving
    /\ seenMem' = seenMem \ {EventIn[f]}
    /\ seenDisk' = seenMem'
    /\ moving' = {}
    /\ UNCHANGED <<dirs, candidates, pc, todo, accepted, fault>>

\* That save fails: the exception leaves the Collector and ends the run.
RollbackFails(f) ==
    /\ f \in moving
    /\ EndRun
    /\ fault' = fault \cup {"rollback"}
    /\ UNCHANGED <<dirs, seenDisk, candidates>>

\* record_run() saves the set once more; Notion comes next.
FinishCollect ==
    /\ pc = "collect" /\ moving = {} /\ todo = {}
    /\ seenDisk' = seenMem
    /\ pc' = "notion"
    /\ UNCHANGED <<dirs, seenMem, candidates, todo, moving, accepted, fault>>

\* Fault: the filter goes through the files that stayed behind as well.
StartFilterOfAll ==
    /\ pc = "notion"
    /\ pc' = "filter"
    /\ todo' = accepted \cup incoming
    /\ UNCHANGED <<dirs, seen, candidates, moving, accepted, fault>>

\* The Notion step, whatever it did, reaches the History Filter, which goes
\* through the files the Collector accepted.
StartFilter ==
    /\ pc = "notion"
    /\ pc' = "filter"
    /\ todo' = accepted
    /\ UNCHANGED <<dirs, seen, candidates, moving, accepted, fault>>

\* evaluate() and save(): a KEEP or REVIEW gets a candidate file, a DROP none.
FilterFile(f) ==
    /\ pc = "filter"
    /\ Visit(f)
    /\ EventIn[f] \notin candidates
    /\ candidates' = candidates \cup ({EventIn[f]} \cap Wanted)
    /\ UNCHANGED <<dirs, seen, pc, moving, accepted, fault>>

\* The later steps (Daily to Dashboard) do not touch this state.
FinishRun ==
    /\ pc = "filter" /\ todo = {}
    /\ EndRun
    /\ UNCHANGED <<dirs, seenDisk, candidates, fault>>

\* An exception ends the run: corrupt collector_state.json or retry queue,
\* record_run() or a candidate that cannot be saved, a processed file that
\* cannot be read back; or FileExistsError from save().
AbortRun ==
    /\ pc \in {"collect", "notion", "filter"} /\ moving = {}
    /\ EndRun
    /\ UNCHANGED <<dirs, seenDisk, candidates, fault>>

\* The process is killed, or the machine stops.
Crash ==
    /\ pc # "idle"
    /\ EndRun
    /\ fault' = IF moving = {} THEN fault ELSE fault \cup {"crash"}
    /\ UNCHANGED <<dirs, seenDisk, candidates>>

CollectFile(f) ==
    \/ CollectFails(f) \/ Reject(f) \/ Duplicate(f)
    \/ MarkSeen(f) \/ MarkSeenFails(f)
    \/ MoveAccepted(f) \/ RollbackMark(f) \/ RollbackFails(f)

Next ==
    \/ \E f \in File : \/ Arrive(f) \/ IntakeMove(f) \/ IntakeSkip(f)
                       \/ CollectFile(f) \/ FilterFile(f)
    \/ StartRun \/ StartCollect \/ FinishCollect \/ StartFilter \/ FinishRun
    \/ AbortRun \/ Crash

Spec == Init /\ [][Next]_vars

\* A file that began to arrive completes, runs are triggered every day and
\* get through their steps, and an operation that is tried in run after run
\* does not fail in all of them.
Fairness ==
    /\ WF_vars(StartRun) /\ WF_vars(StartCollect) /\ WF_vars(FinishCollect)
    /\ WF_vars(StartFilter) /\ WF_vars(FinishRun)
    /\ WF_vars(\E f \in File : IntakeSkip(f)) /\ WF_vars(\E f \in File : FilterFile(f))
    /\ WF_vars(\E f \in File : transport[f] = "partial" /\ Arrive(f))
    /\ SF_vars(\E f \in File : IntakeMove(f))
    /\ SF_vars(\E f \in File : Reject(f) \/ Duplicate(f) \/ MarkSeen(f))
    /\ SF_vars(\E f \in File : MoveAccepted(f))

\* The machine is not killed for ever: from some time on a run ends as a run
\* does (a crash after the last file of the filter is no different).
Interrupted ==
    /\ Crash \/ AbortRun \/ \E f \in File : RollbackFails(f)
    /\ ~FinishRun

FinallyUninterrupted == <>[][~Interrupted]_vars

FairSpec == Spec /\ Fairness /\ FinallyUninterrupted
-----------------------------------------------------------------------------
\* find_orphaned_events: Events of processed files that the History Filter
\* wants in Company History and that have no candidate.
Orphaned == { e \in Wanted : /\ \E f \in processed : EventIn[f] = e
                             /\ e \notin candidates }

\* An Event is accepted at most once, whatever fails and however often its
\* files come: while the filter runs, the files it has still to visit hold
\* different Events and none has a candidate already.  A second acceptance
\* would meet FileExistsError and abort the run before later Events.
AcceptedOnce ==
    \A f \in accepted :
        /\ f \in todo \/ pc # "filter" => EventIn[f] \notin candidates
        /\ \A g \in accepted : EventIn[f] = EventIn[g] => f = g

\* No id is remembered as consumed without a file that still shows it, so
\* what is wanted and never recorded is still in incoming/ or is reported
\* by reconciliation (history/reconciliation.py).
NoSilentLoss ==
    \A e \in seenDisk \cap Wanted :
        \/ e \in candidates \cup Orphaned
        \/ \E f \in incoming : EventIn[f] = e

\* A file whose id is burned: its retry can only be judged DUPLICATE though
\* no file of its Event was consumed or is just being moved.
Burned(f) ==
    /\ f \in incoming
    /\ EventIn[f] \in seenDisk
    /\ \A g \in processed \cup moving : EventIn[g] # EventIn[f]

\* A failed move alone never burns an id: only a crash between mark and move
\* or a failed save of the seen set does (Audit BUG-9 in runtime.py).
BurnedOnlyByFault == (\E f \in File : Burned(f)) => fault # {}

\* Every file that arrives completely leaves the way to the Collector: it is
\* consumed or rejected, also after crashes and failed operations.
ArrivedIsConsumed ==
    \A f \in File : transport[f] = "complete" ~> f \in processed \cup rejected

\* The ledger this pipeline keeps for each Event, and that it keeps it:
\* see EventLedger.
LedgerStatus(e) ==
    IF e \in candidates THEN "recorded"
    ELSE IF \E f \in processed : EventIn[f] = e THEN "consumed"
    ELSE IF \E f \in File : EventIn[f] = e /\ (transport[f] = "complete" \/ f \in incoming)
         THEN "announced"
    ELSE "unknown"

Ledger == INSTANCE EventLedger WITH
    Recordable <- Wanted, status <- [e \in Event |-> LedgerStatus(e)]

KeepsLedger == Ledger!Spec
=============================================================================
