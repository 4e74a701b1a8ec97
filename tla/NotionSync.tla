----------------------------- MODULE NotionSync ----------------------------
(***************************************************************************)
(* The Notion step of the Runner (src/app/runner.py, step 4; sync.py and   *)
(* retry_queue.py of src/notion): Events accepted by the Collector become  *)
(* the row of their project in Notion, one Runner at a time.  A run loads  *)
(* the retry queue, tries its Events first, then the ones it accepted,     *)
(* oldest first, and saves the queue once.                                 *)
(*                                                                         *)
(* Each Event takes two requests, a query for the row and a write.  Either *)
(* may fail, and a write may take effect though its answer is lost; by the *)
(* next request it has done so or never will.  A row is known by the Event *)
(* it shows (Last Event ID), from which its other columns follow, but for  *)
(* Blocker, which many Events leave alone.  Notion cuts Last Updated to    *)
(* the minute, and a person may replace it by something the code cannot    *)
(* compare.                                                                *)
(***************************************************************************)
EXTENDS Naturals

CONSTANTS
    Event, Project,
    ProjectOf,  \* the project of each Event
    Time,       \* the timestamp of each Event
    Minute,     \* the same as Notion stores it, cut to the minute
    Blocker,    \* what each Event does to that column: "sets", "clears" or "leaves" it
    NoEvent     \* what the row of a project shows that has none

ASSUME EventAssumption ==
    /\ ProjectOf \in [Event -> Project]
    /\ Blocker \in [Event -> {"sets", "clears", "leaves"}]
    /\ NoEvent \notin Event
ASSUME TimeAssumption ==
    /\ Time \in [Event -> Nat] /\ Minute \in [Event -> Nat]
    /\ \A e \in Event : Minute[e] <= Time[e]
    /\ \A e, f \in Event : Minute[f] <= Time[e] => Minute[f] <= Minute[e]

VARIABLES
    shown,      \* the Event each project's row shows
    undated,    \* projects whose row has no comparable Last Updated
    blocked,    \* projects whose row has a Blocker
    queueDisk,  \* notion_retry_queue.json
    queueMem,   \* the queue in the running process
    running,    \* a run is between the Collector and the end of this step
    todo,       \* queued Events this run has still to try
    fresh,      \* Events this run accepted and has still to try
    hand,       \* the Event whose row was looked up, if any
    found,      \* what was found: the Event shown, and whether it is dated
    consumed,   \* observability: all Events ever accepted
    done,       \* observability: Events whose sync was answered with success
    lost,       \* observability: Events dropped by a run that ended early
    applied,    \* observability: Events written to a row
    edited      \* observability: projects whose Last Updated was replaced

row == <<shown, undated, blocked>>
queue == <<queueDisk, queueMem>>
past == <<consumed, done, lost, applied, edited>>
vars == <<row, queue, running, todo, fresh, hand, found, past>>

Found == [shown : Event \cup {NoEvent}, dated : BOOLEAN]

TypeOK ==
    /\ shown \in [Project -> Event \cup {NoEvent}]
    /\ undated \subseteq Project /\ blocked \subseteq Project
    /\ queueDisk \subseteq Event /\ queueMem \subseteq Event
    /\ running \in BOOLEAN
    /\ todo \subseteq Event /\ fresh \subseteq Event
    /\ hand \subseteq Event
    /\ found \in Found
    /\ consumed \subseteq Event /\ done \subseteq Event
    /\ lost \subseteq Event /\ applied \subseteq Event
    /\ edited \subseteq Project

NothingFound == [shown |-> NoEvent, dated |-> TRUE]

-----------------------------------------------------------------------------
Init ==
    /\ shown = [p \in Project |-> NoEvent]
    /\ undated = {} /\ blocked = {}
    /\ queueDisk = {} /\ queueMem = {}
    /\ running = FALSE
    /\ todo = {} /\ fresh = {} /\ hand = {}
    /\ found = NothingFound
    /\ consumed = {} /\ done = {} /\ lost = {} /\ applied = {} /\ edited = {}

\* A person picks a date without a time, or clears it (docs/04 section 43).
EditDate(p) ==
    /\ shown[p] # NoEvent
    /\ undated' = undated \cup {p}
    /\ edited' = edited \cup {p}
    /\ UNCHANGED <<shown, blocked, queue, running, todo, fresh, hand, found,
                   consumed, done, lost, applied>>

\* Fault: the step is passed over when the Collector accepted nothing.
StartRunWithNews(batch) ==
    /\ ~running
    /\ batch # {} /\ batch \cap consumed = {}
    /\ running' = TRUE
    /\ fresh' = batch
    /\ consumed' = consumed \cup batch
    /\ queueMem' = queueDisk
    /\ todo' = queueDisk
    /\ UNCHANGED <<row, queueDisk, hand, found, done, lost, applied, edited>>

\* A run whose Collector accepted these Events reaches the step and loads the
\* queue (shape-checked, each Event with one entry).
StartRun(batch) ==
    /\ ~running
    /\ batch \cap consumed = {}
    /\ running' = TRUE
    /\ fresh' = batch
    /\ consumed' = consumed \cup batch
    /\ queueMem' = queueDisk
    /\ todo' = queueDisk
    /\ UNCHANGED <<row, queueDisk, hand, found, done, lost, applied, edited>>

\* The run ends, and what it held in memory is gone.
EndRun ==
    /\ running' = FALSE
    /\ queueMem' = {}
    /\ todo' = {} /\ fresh' = {} /\ hand' = {}
    /\ found' = NothingFound

\* The queue cannot be read: the exception ends the run before any Event of it
\* was tried.
LoadFails(batch) ==
    /\ ~running
    /\ batch \cap consumed = {}
    /\ consumed' = consumed \cup batch
    /\ lost' = lost \cup batch
    /\ UNCHANGED <<row, queue, running, todo, fresh, hand, found, done, applied, edited>>

\* A file the Collector moved cannot be read back: counted, and left out (the
\* code reads all of them first; when makes no difference here).
ReadFails(e) ==
    /\ e \in fresh /\ todo = {} /\ hand = {}
    /\ fresh' = fresh \ {e}
    /\ lost' = lost \cup {e}
    /\ UNCHANGED <<row, queue, running, todo, hand, found, consumed, done, applied, edited>>

\* The queue comes first, in any order (its entries are swapped about when one
\* is removed), then the accepted Events, oldest first.
Turn(e) ==
    /\ running /\ hand = {}
    /\ IF todo # {} THEN e \in todo
                    ELSE e \in fresh /\ \A f \in fresh : Time[e] <= Time[f]

Taken(e) == todo' = todo \ {e} /\ fresh' = fresh \ {e}

\* find_project: the row of the Event's project as it is now, if there is one.
Find(e) ==
    /\ Turn(e) /\ Taken(e)
    /\ hand' = {e}
    /\ found' = [shown |-> shown[ProjectOf[e]], dated |-> ProjectOf[e] \notin undated]
    /\ UNCHANGED <<row, queue, running, past>>

\* NOTION_RETRY_REQUIRED or NOTION_FAILED: the Event has an entry in the queue.
Requeue(e) ==
    /\ queueMem' = queueMem \cup {e}
    /\ UNCHANGED done

\* Any other result takes it out.
Dequeue(e) ==
    /\ queueMem' = queueMem \ {e}
    /\ done' = done \cup {e}

FindFails(e) ==
    /\ Turn(e) /\ Taken(e)
    /\ Requeue(e)
    /\ UNCHANGED <<row, queueDisk, running, hand, found, consumed, lost, applied, edited>>

\* Fault: the Late Event guard is left out.
IsLateNever(e) == FALSE

\* The guards of _update: the row shows this Event already, or one that is not
\* older as far as Notion remembers its time.
IsShown(e) == found.shown = e
IsLate(e) == found.shown \in Event /\ found.dated /\ Time[e] <= Minute[found.shown]

LetGo == hand' = {} /\ found' = NothingFound

\* NOTION_SKIPPED_OLD_EVENT.
Skip(e) ==
    /\ e \in hand
    /\ IsShown(e) \/ IsLate(e)
    /\ LetGo
    /\ Dequeue(e)
    /\ UNCHANGED <<row, queueDisk, running, todo, fresh, consumed, lost, applied, edited>>

\* Fault: every Event writes the column.
NewBlockedAlways(e) ==
    IF Blocker[e] = "sets" THEN blocked \cup {ProjectOf[e]} ELSE blocked \ {ProjectOf[e]}

\* The Blocker column is sent by the Events that set or clear it only.
NewBlocked(e) ==
    IF Blocker[e] = "sets" THEN blocked \cup {ProjectOf[e]}
    ELSE IF Blocker[e] = "clears" THEN blocked \ {ProjectOf[e]}
    ELSE blocked

\* build_create_properties and build_update_properties, and Notion storing them.
Apply(e) ==
    LET p == ProjectOf[e] IN
    /\ e \in hand
    /\ ~IsShown(e) /\ ~IsLate(e)
    /\ LetGo
    /\ shown' = [shown EXCEPT ![p] = e]
    /\ undated' = undated \ {p}
    /\ blocked' = NewBlocked(e)
    /\ applied' = applied \cup {e}

\* NOTION_CREATED or NOTION_UPDATED.
Write(e) ==
    /\ Apply(e)
    /\ Dequeue(e)
    /\ UNCHANGED <<queueDisk, running, todo, fresh, consumed, lost, edited>>

\* The write took effect, but its answer did not arrive.
AnswerLost(e) ==
    /\ Apply(e)
    /\ Requeue(e)
    /\ UNCHANGED <<queueDisk, running, todo, fresh, consumed, lost, edited>>

\* The write was refused or never arrived.
WriteFails(e) ==
    /\ e \in hand
    /\ ~IsShown(e) /\ ~IsLate(e)
    /\ LetGo
    /\ Requeue(e)
    /\ UNCHANGED <<row, queueDisk, running, todo, fresh, consumed, lost, applied, edited>>

Through == running /\ todo = {} /\ fresh = {} /\ hand = {}

\* The single save (skipped by the code if nothing changed).
Save ==
    /\ Through
    /\ EndRun
    /\ queueDisk' = queueMem
    /\ UNCHANGED <<row, past>>

\* What this run would have forgotten if it ended now: Events it has in hand,
\* has not tried, or has queued in memory only.
Unsaved == (fresh \cup hand \cup queueMem) \ (queueDisk \cup done)

\* The save fails and its exception ends the run.
SaveFails ==
    /\ Through
    /\ EndRun
    /\ lost' = lost \cup Unsaved
    /\ UNCHANGED <<row, queueDisk, consumed, done, applied, edited>>

\* The process is killed (past the last Event this looks like a failing save).
Crash ==
    /\ running
    /\ EndRun
    /\ lost' = lost \cup Unsaved
    /\ UNCHANGED <<row, queueDisk, consumed, done, applied, edited>>

Sync(e) ==
    \/ ReadFails(e) \/ Find(e) \/ FindFails(e)
    \/ Skip(e) \/ Write(e) \/ AnswerLost(e) \/ WriteFails(e)

Next ==
    \/ \E batch \in SUBSET Event : StartRun(batch) \/ LoadFails(batch)
    \/ \E e \in Event : Sync(e)
    \/ Save \/ SaveFails \/ Crash
    \/ \E p \in Project : EditDate(p)

Spec == Init /\ [][Next]_vars

\* Runs are triggered every day and get through the step; Notion answers again
\* some day.
Fairness ==
    /\ WF_vars(\E batch \in SUBSET Event : StartRun(batch))
    /\ SF_vars(\E e \in Event : Find(e))
    /\ SF_vars(\E e \in Event : Skip(e)) /\ SF_vars(\E e \in Event : Write(e))
    /\ WF_vars(Save)

\* From some time on no run is cut short.
FairSpec == Spec /\ Fairness /\ <>[][~(Crash /\ ~Save)]_vars
-----------------------------------------------------------------------------
\* Whatever was accepted has been synced, is in the queue, is still with the
\* run, or was dropped by one that ended early: no failing request, lost answer
\* or restart loses an Event of its own.
Accounted ==
    consumed \subseteq done \cup lost \cup queueDisk \cup Unsaved

\* An Event that counts as synced is shown, or one that is not older to the
\* minute: late retries, lost answers and queues that lag behind never bring a
\* row back behind what it has shown (docs/04 section 29), except where a person
\* took the date away that the guard compares with.
DoneIsShown ==
    \A e \in done : LET p == ProjectOf[e] IN
        \/ p \in edited
        \/ shown[p] \in Event /\ Minute[e] <= Minute[shown[p]]

\* The Blocker column follows the newest Event that touches it among those that
\* reached the row, in whatever order and how often they did.
BlockerIsNewest ==
    \A e \in applied : LET p == ProjectOf[e] IN
        \/ p \in edited
        \/ Blocker[e] = "leaves"
        \/ \E f \in applied \ {e} : /\ ProjectOf[f] = p /\ Blocker[f] # "leaves"
                                    /\ Minute[e] <= Minute[f]
        \/ p \in blocked <=> Blocker[e] = "sets"

\* An Event is written to its row once: an entry that comes back after it was
\* applied is recognised, unless another Event of its minute took the row.
AppliedTwiceOnlyWithinAMinute ==
    [][\A e \in applied : LET p == ProjectOf[e] IN
        Apply(e) => /\ shown[p] # e
                    /\ p \in edited \/ Minute[shown[p]] = Minute[e]]_vars

\* Every accepted Event is synced in the end or was dropped by a run that ended
\* early, however long Notion was away.
AcceptedIsSynced == \A e \in Event : e \in consumed ~> e \in done \cup lost
=============================================================================
