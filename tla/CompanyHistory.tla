--------------------------- MODULE CompanyHistory ---------------------------
(***************************************************************************)
(* Company History proper: the second half of the Runner (src/app/runner.py *)
(* run_once, steps History Filter to Monthly), one run at a time.          *)
(*                                                                         *)
(*   KEEP Candidates --Daily Close--> daily/<date>.md --Monthly--> monthly/ *)
(*         \------------Late Update-------^      \--mark dirty, rebuild--^  *)
(*                                                                         *)
(* Daily Close writes every finished date that has no file yet, oldest     *)
(* first, and moves last_successful_daily_close along.  An Event that      *)
(* comes after the file of its date was written is merged into it by the   *)
(* Late Update of the run that accepted it; its month, if consolidated,    *)
(* is marked dirty and rebuilt.  Every file and each of the two state      *)
(* files is replaced by an operation of its own, between which the process *)
(* may die; most of them may fail.                                         *)
(*                                                                         *)
(* Day 1 is history_start_date and month 1 its month; day 0 stands for     *)
(* whatever was earlier.  Which Events a file shows is what matters here:  *)
(* an Event belongs to the file of its date and of its date's month, so a  *)
(* set of Events stands for the contents of all files of a kind.           *)
(*                                                                         *)
(* The Daily files are text that two readers take apart again, by rules of *)
(* their own.  An Event's words go into them as they are, and two kinds of *)
(* words get in the way.  An item without a summary has no bullet that the *)
(* Monthly's parser could take for one, and is dropped.  A line that opens *)
(* a section (a project_id or summary with a line break and "## ") cuts    *)
(* the item's own Event ID label off, so that no reader finds it, and puts *)
(* the items after it where the parser does not look.  A summary that      *)
(* forges the label of another Event (BUG-11/27) is left out.              *)
(***************************************************************************)
EXTENDS Naturals

CONSTANTS
    LastDay,    \* bound: the calendar ends here
    MonthOf,    \* the month of each day
    Event,      \* KEEP Events
    DayOf,      \* the date of each Event
    Bare,       \* Events without a summary
    Breaking    \* Events with a line that opens a section

Day == 1 .. LastDay
Month == 1 .. MonthOf[LastDay]
DaysOf(m) == { d \in Day : MonthOf[d] = m }

ASSUME LastDayAssumption == LastDay \in Nat \ {0}
ASSUME MonthOfAssumption ==
    /\ MonthOf \in [Day -> Nat \ {0}]
    /\ MonthOf[1] = 1
    /\ \A d, e \in Day : d <= e => MonthOf[d] <= MonthOf[e]
    /\ \A m \in Month : \E d \in Day : MonthOf[d] = m
ASSUME DayOfAssumption == DayOf \in [Event -> 0 .. LastDay]
ASSUME WordsAssumption == Bare \cup Breaking \subseteq Event

VARIABLES
    today,        \* the clock of Desktop 4
    now,          \* what it said when the run began
    kept,         \* Events with a file in history_candidates/keep
    dailyFile,    \* dates with a file in daily/
    inDaily,      \* Events whose Event ID label is in the file of their date
    unparsed,     \* those among them whose item the Monthly's parser drops
    dailyClose,   \* last_successful_daily_close, 0 for none
    monthlyFile,  \* months with a file in monthly/
    inMonthly,    \* Events shown by the file of their month
    monthlyClose, \* last_successful_monthly_close, 0 for none
    dirty,        \* dirty_months
    pc,           \* the Runner's step
    keptDates,    \* kept_dates the Late Update has still to visit
    updated,      \* late_updated_dates whose month has still to be marked
    saving,       \* the month just written, until the state file says so
    todo,         \* dirty months still to be rebuilt
    missed,       \* observability: dates whose merge failed or never came
    stale         \* observability: consolidated months that were not marked

daily == <<dailyFile, inDaily, unparsed>>
monthly == <<monthlyFile, inMonthly>>
vars == <<today, now, kept, daily, dailyClose, monthly, monthlyClose, dirty,
          pc, keptDates, updated, saving, todo, missed, stale>>

TypeOK ==
    /\ today \in Day /\ now \in Day
    /\ kept \subseteq Event
    /\ dailyFile \subseteq Day /\ inDaily \subseteq Event /\ unparsed \subseteq Event
    /\ dailyClose \in Nat
    /\ monthlyFile \subseteq Month /\ inMonthly \subseteq Event
    /\ monthlyClose \in Nat
    /\ dirty \subseteq Month
    /\ pc \in {"idle", "filter", "daily", "late", "mark", "months", "dirty"}
    /\ keptDates \subseteq 0 .. LastDay
    /\ updated \subseteq Day
    /\ saving \subseteq Month
    /\ todo \subseteq Month
    /\ missed \subseteq Day
    /\ stale \subseteq Month

OfDay(d) == { e \in Event : DayOf[e] = d }
OfMonth(m) == { e \in Event : DayOf[e] \in DaysOf(m) }
-----------------------------------------------------------------------------
Init ==
    /\ today = 1 /\ now = 1
    /\ kept = {}
    /\ dailyFile = {} /\ inDaily = {} /\ unparsed = {} /\ dailyClose = 0
    /\ monthlyFile = {} /\ inMonthly = {} /\ monthlyClose = 0
    /\ dirty = {}
    /\ pc = "idle"
    /\ keptDates = {} /\ updated = {} /\ saving = {} /\ todo = {}
    /\ missed = {} /\ stale = {}

\* Midnight, also in the middle of a run.
NewDay ==
    /\ today < LastDay
    /\ today' = today + 1
    /\ UNCHANGED <<now, kept, daily, dailyClose, monthly, monthlyClose, dirty, pc,
                   keptDates, updated, saving, todo, missed, stale>>

\* A run begins; what comes before the History Filter does not touch this state.
StartRun ==
    /\ pc = "idle"
    /\ pc' = "filter"
    /\ now' = today
    /\ UNCHANGED <<today, kept, daily, dailyClose, monthly, monthlyClose, dirty,
                   keptDates, updated, saving, todo, missed, stale>>

\* The History Filter saves the Candidate of a KEEP Event and notes its date,
\* which is past, present or, by a Desktop whose clock is ahead, future.
Keep(e) ==
    /\ pc = "filter"
    /\ e \notin kept
    /\ kept' = kept \cup {e}
    /\ keptDates' = keptDates \cup {DayOf[e]}
    /\ UNCHANGED <<today, now, daily, dailyClose, monthly, monthlyClose, dirty, pc,
                   updated, saving, todo, missed, stale>>

Step(from, to) ==
    /\ pc = from
    /\ pc' = to
    /\ UNCHANGED <<today, now, kept, daily, dailyClose, monthly, monthlyClose, dirty,
                   keptDates, updated, saving, missed, stale>>

-----------------------------------------------------------------------------
\* Daily Close.  The dates it goes through end with yesterday as the run saw it.
NextDate == dailyClose + 1
DatePending == NextDate < now

\* The state is loaded and the KEEP Candidates are listed, once for all dates:
\* nothing writes a Candidate until the run is over.
StartDaily == Step("filter", "daily") /\ UNCHANGED todo

\* That listing fails: no date is closed, the run goes on.
ListFails == DatePending /\ Step("filter", "late") /\ UNCHANGED todo

\* A batch of Candidates is rendered into a file.  Behind a line that opens a
\* section the parser drops some items of the batch, as their order and their
\* categories have it.
Render(batch) ==
    /\ inDaily' = inDaily \cup (batch \ Breaking)
    /\ \E lost \in SUBSET (batch \ Breaking) :
          /\ batch \cap Bare \subseteq lost \cup Breaking
          /\ batch \cap Breaking = {} => lost \subseteq Bare
          /\ unparsed' = unparsed \cup lost

\* generate_daily_history: the date's Candidates, or the sentence of an empty day.
Generate ==
    /\ pc = "daily"
    /\ DatePending
    /\ NextDate \notin dailyFile
    /\ dailyFile' = dailyFile \cup {NextDate}
    /\ Render(kept \cap OfDay(NextDate))
    /\ UNCHANGED <<today, now, kept, dailyClose, monthly, monthlyClose, dirty, pc,
                   keptDates, updated, saving, todo, missed, stale>>

\* It fails: later dates have to wait, the run goes on.
GenerateFails == DatePending /\ NextDate \notin dailyFile /\ Step("daily", "late")
                 /\ UNCHANGED todo

\* The file is there, from this run or an earlier one: the date is closed.
CloseDate ==
    /\ pc = "daily"
    /\ DatePending
    /\ NextDate \in dailyFile
    /\ dailyClose' = NextDate
    /\ UNCHANGED <<today, now, kept, daily, monthly, monthlyClose, dirty, pc,
                   keptDates, updated, saving, todo, missed, stale>>

FinishDaily == ~DatePending /\ Step("daily", "late") /\ UNCHANGED todo

-----------------------------------------------------------------------------
\* Late Update of the dates this run has kept Events of.
Visit(d) == pc = "late" /\ d \in keptDates /\ keptDates' = keptDates \ {d}

\* NO_EXISTING_FILE: Daily Close will see the Candidate when it gets there.
NoFile(d) ==
    /\ Visit(d)
    /\ d \notin dailyFile
    /\ UNCHANGED <<today, now, kept, daily, dailyClose, monthly, monthlyClose, dirty,
                   pc, updated, saving, todo, missed, stale>>

\* Candidates of the date whose label its file lacks, whichever run saved them.
\* One with a broken label is appended again each time.
Late(d) == (kept \cap OfDay(d)) \ inDaily

\* NO_LATE_EVENTS, or UPDATED_LATE_EVENT: what is late is appended.
Merge(d) ==
    /\ Visit(d)
    /\ d \in dailyFile
    /\ Render(Late(d))
    /\ updated' = IF Late(d) = {} THEN updated ELSE updated \cup {d}
    /\ missed' = missed \ {d}
    /\ UNCHANGED <<today, now, kept, dailyFile, dailyClose, monthly, monthlyClose, dirty,
                   pc, saving, todo, stale>>

\* FAILED: the file cannot be read, the Candidates cannot be listed or the new
\* file cannot be written.  No later run will come back to this date for it.
MergeFails(d) ==
    /\ Visit(d)
    /\ d \in dailyFile
    /\ missed' = missed \cup {d}
    /\ UNCHANGED <<today, now, kept, daily, dailyClose, monthly, monthlyClose, dirty,
                   pc, updated, saving, todo, stale>>

StartMonthly == keptDates = {} /\ Step("late", "mark") /\ UNCHANGED todo
-----------------------------------------------------------------------------
\* Fault: only the pointer is asked whether the month is consolidated.
MarkByPointer(d) ==
    /\ pc = "mark"
    /\ d \in updated
    /\ updated' = updated \ {d}
    /\ dirty' = IF MonthOf[d] <= monthlyClose THEN dirty \cup {MonthOf[d]} ELSE dirty
    /\ UNCHANGED <<today, now, kept, daily, dailyClose, monthly, monthlyClose, pc,
                   keptDates, saving, todo, missed, stale>>

\* mark_month_dirty: a month that the pointer or the file on disk says is
\* consolidated has to be rebuilt; any other will be read as it is.
Mark(d) ==
    /\ pc = "mark"
    /\ d \in updated
    /\ updated' = updated \ {d}
    /\ dirty' = IF MonthOf[d] <= monthlyClose \/ MonthOf[d] \in monthlyFile
                THEN dirty \cup {MonthOf[d]} ELSE dirty
    /\ UNCHANGED <<today, now, kept, daily, dailyClose, monthly, monthlyClose, pc,
                   keptDates, saving, todo, missed, stale>>

StartCatchup == updated = {} /\ Step("mark", "months") /\ UNCHANGED todo

\* Catch-up: the months before the current one, oldest first.
NextMonth == monthlyClose + 1
MonthPending == NextMonth < MonthOf[now]
Covered(m) == DaysOf(m) \subseteq dailyFile

\* What the parser finds in the Daily files of a month, each Event once.  That
\* it dropped something is a line of the log, on which nothing here depends.
Parsed(m) == (inDaily \ unparsed) \cap OfMonth(m)

\* consolidate_month reads the Daily files of m and replaces its document.
WriteMonth(m) ==
    /\ saving = {}
    /\ Covered(m)
    /\ monthlyFile' = monthlyFile \cup {m}
    /\ inMonthly' = (inMonthly \ OfMonth(m)) \cup Parsed(m)
    /\ saving' = {m}
    /\ stale' = stale \ {m}
    /\ UNCHANGED <<today, now, kept, daily, dailyClose, monthlyClose, dirty, pc,
                   keptDates, updated, todo, missed>>

Consolidate ==
    /\ pc = "months"
    /\ MonthPending
    /\ NextMonth \notin monthlyFile
    /\ WriteMonth(NextMonth)

\* MONTHLY_GENERATED: the pointer moves on and the flag goes.
CloseMonth ==
    /\ pc = "months"
    /\ saving = {NextMonth}
    /\ monthlyClose' = NextMonth
    /\ dirty' = dirty \ saving
    /\ saving' = {}
    /\ UNCHANGED <<today, now, kept, daily, dailyClose, monthly, pc, keptDates,
                   updated, todo, missed, stale>>

\* Fault: the flag of a month that was not rebuilt goes, too.
UnchangedClearsFlag ==
    /\ pc = "months"
    /\ saving = {}
    /\ MonthPending
    /\ Covered(NextMonth)
    /\ NextMonth \in monthlyFile
    /\ monthlyClose' = NextMonth
    /\ dirty' = dirty \ {NextMonth}
    /\ UNCHANGED <<today, now, kept, daily, dailyClose, monthly, pc,
                   keptDates, updated, saving, todo, missed, stale>>

\* MONTHLY_UNCHANGED: a document of a run that died before it could say so.
CloseUnchanged ==
    /\ pc = "months"
    /\ saving = {}
    /\ MonthPending
    /\ Covered(NextMonth)
    /\ NextMonth \in monthlyFile
    /\ monthlyClose' = NextMonth
    /\ UNCHANGED <<today, now, kept, daily, dailyClose, monthly, dirty, pc,
                   keptDates, updated, saving, todo, missed, stale>>

\* Nothing is due, or the next month is MONTHLY_PENDING or MONTHLY_FAILED:
\* later ones have to wait.  The dirty months come next.
StopCatchup ==
    /\ saving = {}
    /\ MonthPending => ~Covered(NextMonth) \/ NextMonth \notin monthlyFile
    /\ Step("months", "dirty")
    /\ todo' = dirty

Rebuild(m) == pc = "dirty" /\ m \in todo /\ WriteMonth(m)

\* MONTHLY_UPDATED.
ClearFlag(m) ==
    /\ pc = "dirty"
    /\ saving = {m}
    /\ dirty' = dirty \ {m}
    /\ todo' = todo \ {m}
    /\ saving' = {}
    /\ UNCHANGED <<today, now, kept, daily, dailyClose, monthly, monthlyClose, pc,
                   keptDates, updated, missed, stale>>

\* MONTHLY_FAILED, or MONTHLY_PENDING: the flag stays.
RebuildFails(m) ==
    /\ pc = "dirty"
    /\ saving = {}
    /\ m \in todo
    /\ todo' = todo \ {m}
    /\ UNCHANGED <<today, now, kept, daily, dailyClose, monthly, monthlyClose, dirty,
                   pc, keptDates, updated, saving, missed, stale>>
-----------------------------------------------------------------------------
\* The run leaves these steps.  What it still held in memory is gone: the dates
\* it did not merge and, of those it did merge, the months it did not mark.
EndRun ==
    /\ pc' = "idle"
    /\ missed' = missed \cup (keptDates \cap dailyFile)
    /\ stale' = stale \cup { m \in monthlyFile : \E d \in updated : MonthOf[d] = m }
    /\ keptDates' = {} /\ updated' = {} /\ saving' = {} /\ todo' = {}
    /\ UNCHANGED <<today, now, kept, daily, dailyClose, monthly, monthlyClose, dirty>>

\* Backup and what follows do not touch this state.
FinishRun == pc = "dirty" /\ saving = {} /\ todo = {} /\ EndRun

\* An exception of the History Filter, or of Daily Close when its state cannot
\* be read or saved, ends the run.
AbortRun == pc \in {"filter", "daily"} /\ EndRun

\* An exception of the Monthly step, when its state cannot be read or saved,
\* is caught around the step: the rest of it is skipped, the marks included.
MonthlyRaises == pc \in {"mark", "months", "dirty"} /\ EndRun

\* The process is killed, or the machine stops.
Crash == pc # "idle" /\ EndRun

Next ==
    \/ NewDay \/ StartRun \/ StartDaily \/ ListFails
    \/ \E e \in Event : Keep(e)
    \/ Generate \/ GenerateFails \/ CloseDate \/ FinishDaily
    \/ \E d \in keptDates : NoFile(d) \/ Merge(d) \/ MergeFails(d)
    \/ StartMonthly
    \/ \E d \in updated : Mark(d)
    \/ StartCatchup \/ Consolidate \/ CloseMonth \/ CloseUnchanged \/ StopCatchup
    \/ \E m \in Month : Rebuild(m) \/ ClearFlag(m) \/ RebuildFails(m)
    \/ FinishRun \/ AbortRun \/ MonthlyRaises \/ Crash

Spec == Init /\ [][Next]_vars

\* Days pass, runs are triggered every day and get through their steps, and a
\* file or state that every run tries to write is not refused by all of them.
Fairness ==
    /\ WF_vars(NewDay) /\ WF_vars(StartRun)
    /\ SF_vars(StartDaily) /\ SF_vars(Generate) /\ SF_vars(CloseDate)
    /\ WF_vars(FinishDaily)
    /\ WF_vars(\E d \in 0 .. LastDay : NoFile(d) \/ Merge(d))
    /\ WF_vars(\E d \in 0 .. LastDay : Mark(d))
    /\ WF_vars(StartMonthly) /\ WF_vars(StartCatchup)
    /\ SF_vars(Consolidate) /\ WF_vars(CloseMonth) /\ WF_vars(CloseUnchanged)
    /\ WF_vars(StopCatchup)
    /\ SF_vars(\E m \in Month : Rebuild(m)) /\ WF_vars(\E m \in Month : ClearFlag(m))
    /\ WF_vars(FinishRun)

\* From some time on no run is cut short.
Interrupted == (Crash \/ AbortRun \/ MonthlyRaises) /\ ~FinishRun

FairSpec == Spec /\ Fairness /\ <>[][~Interrupted]_vars
-----------------------------------------------------------------------------
\* No gap: a date up to the pointer has its file and was over when it was
\* written, a month up to the pointer has its document, and a document stands
\* on a file for every one of its days (docs/06 catch-up, docs/09 coverage).
NoGap ==
    /\ 1 .. dailyClose \subseteq dailyFile
    /\ 1 .. monthlyClose \subseteq monthlyFile
    /\ \A d \in dailyFile : d < today
    /\ \A m \in monthlyFile : Covered(m) /\ m < MonthOf[today]

\* A kept Event whose date has a file is shown by it, in whatever order the
\* Event, the file and the pointer came about -- unless its merge is still to
\* come in this run, or failed or was cut off, and nothing came of its date
\* since; or its own words break its label.
KeptIsInDaily ==
    \A e \in kept \ Breaking :
        DayOf[e] \in dailyFile \ (missed \cup keptDates) => e \in inDaily

\* Events whose words, or those of another of their date, may cost them their item.
Garbled == Bare \cup { e \in Event : \E f \in kept \cap Breaking : DayOf[f] = DayOf[e] }

\* A Monthly document shows what the Daily files of its month show, but for
\* garbled items, or the month is marked for rebuilding -- unless the mark is
\* still to come in this run, or the run that merged a late Event was cut off
\* before it.
MonthlyAgrees ==
    \A e \in inDaily \ Garbled : \A m \in monthlyFile \ (dirty \cup stale) :
        e \in OfMonth(m) => e \in inMonthly \/ DayOf[e] \in updated

\* Every kept Event reaches the Monthly document of its month, once that month
\* is over, whatever failed before -- but for a merge or a mark that a failure
\* took away and nothing has brought back, and for garbled items.
KeptReachesMonthly ==
    \A m \in Month \ {MonthOf[LastDay]} : \A e \in OfMonth(m) :
        e \in kept ~> e \in inMonthly \cup Garbled \/ DayOf[e] \in missed \/ m \in stale
=============================================================================
