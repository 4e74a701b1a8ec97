---------------------------- MODULE HistoryStatus ----------------------------
(***************************************************************************)
(* What people add to Company History and what they are told of it.        *)
(*                                                                         *)
(* review_cli.py writes a person's Decision Context into the stored        *)
(* Candidate at any time, also while the Runner works: it takes no lock.   *)
(* The text gets into the Daily file only with its Event, as the Candidate *)
(* was when the Runner listed it.                                          *)
(*                                                                         *)
(* The HISTORY section of ops_status.py compares what is on disk -- the    *)
(* KEEP Candidates, the Daily and Monthly files, the two state files -- and *)
(* says what was lost on the way and that no run will bring back.  Its     *)
(* lines are operators of the files here, so that they can also be asked   *)
(* of files a person has taken away.  A document that misses an Event of a *)
(* Daily file is older than that file, so the page's look at the two       *)
(* modification times, which only saves it work, is left out.  The page    *)
(* reads a Daily file as the Late Update and the Monthly do and shares     *)
(* their blindness: nothing on it tells of an item the parser drops.  Its  *)
(* lines on files that count more items than they carry are left out.      *)
(***************************************************************************)
EXTENDS CompanyHistory

CONSTANTS
    Reviewed,   \* bound: the Events people write about
    NoText,     \* the field is empty
    Text        \* bound: what a person may write; with NoText in it, also clear

VARIABLES
    context,    \* the Decision Context of each Candidate
    listed,     \* as it was when this step of the run listed the Candidates,
                \* of those still to be rendered
    shown,      \* as the Daily file shows it
    behind      \* observability: Events whose text came too late for a listing

review == <<context, listed, shown, behind>>
allVars == <<vars, review>>
-----------------------------------------------------------------------------
\* The lines of the page.  Fault: the last day of the span is not looked at.
HolesButLast(files) ==
    { n \in 1 .. LastDay :
        n \notin files /\ (\E f \in files : f < n) /\ (\E f \in files : n + 1 < f) }

\* _holes_in_the_daily_sequence, and its like for the months: what is missing
\* between the first and the last file.
Holes(files) ==
    { n \in 1 .. LastDay :
        n \notin files /\ (\E f \in files : f < n) /\ (\E f \in files : n < f) }
DailyHoles == Holes(dailyFile)
MonthlyHoles == Holes(monthlyFile)

\* check_state_consistency, and its like for the months: the last one closed,
\* if there is any, has its file.
NotThere(close, files) == {close} \ (files \cup {0})
DailyNotThere == NotThere(dailyClose, dailyFile)
MonthlyNotThere == NotThere(monthlyClose, monthlyFile)

\* A date or a month is recorded as closed that is still to come.
FutureDaily == dailyClose > today
FutureMonthly == monthlyClose > MonthOf[today]

\* There are documents and the state knows of none.
DocumentsWithoutState == IF monthlyClose = 0 THEN monthlyFile ELSE {}

\* _candidates_before: KEEP Candidates from before Company History.
BeforeStart == { e \in kept : DayOf[e] < 1 }

\* Fault: only the last closed date is compared.
UnrenderedOfLastClose == { e \in kept : DayOf[e] = dailyClose /\ e \notin inDaily }

\* _kept_but_not_rendered: the date has a file and the file lacks the Event.
Unrendered == { e \in kept : DayOf[e] \in dailyFile /\ e \notin inDaily }

\* _reviewed_but_not_rendered: the Candidate's text is not in its date's file.
Unshown ==
    { e \in kept : /\ context[e] # NoText
                   /\ DayOf[e] \in dailyFile
                   /\ e \in inDaily => shown[e] # context[e] }

\* Fault: months that wait for their rebuilding are reported, too.
LaggingOrDirty ==
    { m \in monthlyFile : ~(Parsed(m) \subseteq inMonthly) }

\* _monthly_lags_its_daily_source: the Monthly's own parser finds in a Daily file
\* what the month lacks, and no run has been told so.
Lagging == { m \in monthlyFile \ dirty : ~(Parsed(m) \subseteq inMonthly) }

\* The month before the current one is not consolidated.
LastMonthMissing == monthlyClose # 0 /\ monthlyClose + 1 < MonthOf[today]

\* None of the lines that ask for a person.
Quiet ==
    /\ Unrendered = {} /\ Unshown = {} /\ BeforeStart = {} /\ Lagging = {}
    /\ DailyHoles = {} /\ MonthlyHoles = {}
    /\ DailyNotThere = {} /\ MonthlyNotThere = {} /\ ~FutureDaily /\ ~FutureMonthly
    /\ DocumentsWithoutState = {} /\ ~LastMonthMissing
    /\ dirty = {}
-----------------------------------------------------------------------------
ReviewInit ==
    /\ Init
    /\ context = [e \in Event |-> NoText]
    /\ listed = [e \in Event |-> NoText] /\ shown = [e \in Event |-> NoText]
    /\ behind = {}

\* What the renderer is given: the listing of the step.  The Late Update lists
\* again for each date when its own listing fails.
Rendered == IF pc = "late" THEN {listed, context} ELSE {listed}

\* A step of the Runner or of the clock.
RunnerStep ==
    /\ Next
    /\ listed' = [e \in Event |->
                      IF pc' \notin {"daily", "late"} \/ e \in inDaily' THEN NoText
                      ELSE IF pc' = pc THEN listed[e] ELSE context[e]]
    /\ \E texts \in Rendered :
          shown' = [e \in Event |-> IF e \in inDaily' \ inDaily THEN texts[e] ELSE shown[e]]
    /\ UNCHANGED <<context, behind>>

\* A person writes, changes or clears ("-") the text of a stored Candidate:
\* _review_one, submit_review.  A skipped prompt or a failing save changes nothing.
Review(e, t) ==
    /\ e \in kept \cap Reviewed
    /\ t # context[e]
    /\ context' = [context EXCEPT ![e] = t]
    /\ behind' = IF pc \in {"daily", "late"} \/ e \in inDaily
                 THEN behind \cup {e} ELSE behind \ {e}
    /\ UNCHANGED <<vars, listed, shown>>

StatusNext == RunnerStep \/ \E e \in Event, t \in Text : Review(e, t)

\* People may write at any time and need not; the Runner is as fair as before.
StatusSpec ==
    /\ ReviewInit
    /\ [][StatusNext]_allVars
    /\ Fairness
    /\ <>[][~Interrupted]_vars
-----------------------------------------------------------------------------
\* A page at rest that asks for nobody means that nothing is lost: every kept
\* Event of a closed date is in its Daily file with its text as it is now, and
\* in the document of its month once that is closed -- unless it has no summary.
\* An Event that another's words keep out of the month is not lost quietly: the
\* other one's label is broken, too, and that is a line.
QuietMeansComplete ==
    Quiet /\ pc = "idle" =>
        \A e \in kept :
            /\ DayOf[e] <= dailyClose => e \in inDaily /\ context[e] \in {NoText, shown[e]}
            /\ \A m \in 1 .. monthlyClose : e \in OfMonth(m) => e \in inMonthly \cup Bare

\* What the page calls lost while no run is working is lost by something: a
\* merge or mark that failed or was cut off, a text that came too late, words
\* that break the label of their own item.  The lines on files that are not
\* there, and on a future date, never appear by the Runner's own doing.
LinesAreTrue ==
    /\ DailyHoles = {} /\ MonthlyHoles = {}
    /\ DailyNotThere = {} /\ MonthlyNotThere = {} /\ ~FutureDaily /\ ~FutureMonthly
    /\ pc = "idle" =>
        /\ \A e \in Unrendered \ Breaking : DayOf[e] \in missed
        /\ \A e \in Unshown \ Breaking : e \in behind \/ DayOf[e] \in missed
        /\ Lagging \subseteq stale
        /\ DocumentsWithoutState \subseteq {1}

\* A Daily file or a Monthly document that somebody takes away is noticed while
\* the Runner rests, unless it was the first of its kind or the next run makes
\* it again; and the dates called holes are closed ones, as the page says.
DeletionIsNoticed ==
    pc = "idle" =>
        /\ \A d \in dailyFile :
              LET left == dailyFile \ {d} IN
              /\ \/ d \in Holes(left) \cup NotThere(dailyClose, left)
                 \/ left = {} \/ \A f \in left : d < f
                 \/ d = NextDate
              /\ Holes(left) \subseteq 1 .. dailyClose
        /\ \A m \in monthlyFile :
              LET left == monthlyFile \ {m} IN
              /\ \/ m \in Holes(left) \cup NotThere(monthlyClose, left)
                 \/ left = {} \/ \A f \in left : m < f
                 \/ m = NextMonth
              /\ Holes(left) \subseteq 1 .. monthlyClose

=============================================================================
