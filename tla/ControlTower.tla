---------------------------- MODULE ControlTower ----------------------------
(***************************************************************************)
(* What a person is shown of the company: the panels, KPIs and cohorts of  *)
(* src/controltower/, the lines that ask for a person (ops_status.py,      *)
(* attention.py) and the page that dashboard_server.py puts together.  All *)
(* of it is derived at the moment of asking from processed/, the Daily     *)
(* History and git; the page reads them twice, the lines first and the     *)
(* panels after, and the Collector does not wait in between.               *)
(***************************************************************************)
EXTENDS Rollup

CONSTANTS
    Days,         \* the days a Daily may exist for
    Heading,      \* the title Company History gives each project
    Unsaid,       \* no window of days was asked for, or no page is up
    RiskLimit,    \* _RISKS_IN_ATTENTION
    ProjectLines, \* _CONTROL_TOWER_PROJECT_LINES
    RecentLimit,  \* RECENT_LIMIT
    SilentAfter,  \* SILENT_AFTER_DAYS
    CohortDays,   \* COHORT_WINDOWS
    MonthLength,  \* days in a month
    Commits,      \* what git may show: commits, files and authors, each counted
    DataRequired, \* nothing that is collected can answer this
    NotApplicable,\* there is nobody left to ask about
    LastInstant,  \* bound: the clock stops here
    Budget        \* bound: how much may have happened

ASSUME TowerAssumption ==
    /\ Days \subseteq Nat /\ CohortDays \subseteq Nat
    /\ {RiskLimit, ProjectLines, RecentLimit, SilentAfter, MonthLength} \subseteq Nat \ {0}
    /\ {LastInstant, Budget} \subseteq Nat
\* An author or a file is one of a commit; a commit may have none of either.
NoCommits == [commits |-> 0, files |-> 0, authors |-> 0]
Log == Commits \cup {NoCommits}
ASSUME CommitAssumption ==
    /\ \A log \in Commits : /\ {log.commits, log.files, log.authors} \subseteq Nat
                            /\ log.authors <= log.commits
                            /\ log.commits = 0 => log = NoCommits
    /\ {Unsaid, Unreadable} \cap Log = {} /\ Unsaid # Unreadable
ASSUME WordAssumption ==
    /\ {Unsaid, Unreadable, DataRequired, NotApplicable} \cap Nat = {}
    /\ DataRequired # NotApplicable

VARIABLES
    now,     \* the clock
    daily,   \* what the Daily of each day is
    listed,  \* the Daily directory can be listed
    git,     \* what git shows, or Unreadable
    screen   \* the page that is being put together, or the last one

tower == <<processed, now, daily, listed, git, screen>>

Today == now \div DayLength
WholeDays(n) == IF Today > Day(n) THEN Today - Day(n) ELSE 0
Greatest(S) == CHOOSE x \in S : \A y \in S : y <= x
Least(S) == CHOOSE x \in S : \A y \in S : x <= y

-----------------------------------------------------------------------------
(* Panels *)

State(p) ==
    IF IsBlocked(p) THEN "BLOCKED"
    ELSE IF IsAtRisk(p) THEN "AT_RISK"
    ELSE IF CompletionStands(p) THEN "COMPLETE"
    ELSE IF StatusOf(p) = "CANCELLED" THEN "CANCELLED" ELSE "ACTIVE"
Settled(state) == state \in {"COMPLETE", "CANCELLED"}

\* The order of the PROJECTS panel: what is blocked, then what runs, the
\* longest idle first, then what has ended, the latest first.
Above(p, q) ==
    LET band(r) == IF IsBlocked(r) THEN 0 ELSE IF Settled(State(r)) THEN 2 ELSE 1
        idle(r) == WholeDays(r.last)
    IN  \/ band(p) < band(q)
        \/ band(p) = band(q) /\ band(p) = 1 /\ idle(p) > idle(q)
        \/ band(p) = band(q) /\ band(p) = 2 /\ idle(p) < idle(q)

\* The screen has room for a few of them.
Shown(S) ==
    LET projects == RollProjects(S)
    IN  {p \in DOMAIN projects :
            Cardinality({q \in DOMAIN projects : Above(projects[q], projects[p])})
                < ProjectLines}

Conflicts(w) ==
    LET ignored == Duplicates(w)
    IN  {n \in DOMAIN ignored : processed[n] # processed[ignored[n]]}

RiskKind == {"OPEN_BLOCKER", "AT_RISK", "OPEN_ISSUE", "PENDING_DECISION",
             "UNEXECUTED_DECISION", "ROLE_MISMATCH", "EVENT_ID_CONFLICT"}
RiskOf(k) == [ISSUE |-> "OPEN_ISSUE", DECISION |-> "PENDING_DECISION",
              DECISION_EXECUTION |-> "UNEXECUTED_DECISION"][k]

\* How many rows of each kind the RISKS panel has.
ProjectRows(w, k) ==
    IF k = "OPEN_BLOCKER" THEN Cardinality(Risks(w))
    ELSE IF k = "AT_RISK" THEN Cardinality(AtRisk(w))
    ELSE Cardinality({i \in OpenItems(w) : RiskOf(i.kind) = k})
EventRows(w, k) ==
    IF k = "ROLE_MISMATCH" THEN Cardinality(Mismatches(w)) ELSE Cardinality(Conflicts(w))
RiskRows(w) ==
    [k \in RiskKind |-> IF k \in {"ROLE_MISMATCH", "EVENT_ID_CONFLICT"}
                        THEN EventRows(w, k) ELSE ProjectRows(w, k)]

\* The first and the last day of what moved in the window.
EvidenceDays(w) == {Day(n) : n \in InPeriod(w)}

\* The earliest Daily with work that no Event of the window is as old as, and
\* whether every Daily on the way to it could be read.
OlderHistory(w) ==
    LET days == {d \in Days : daily[d] # "none"}
        before == {d \in days : \A e \in EvidenceDays(w) : d < e}
        work == {d \in before : daily[d] = "work"}
        gap == IF work = {} THEN Unsaid ELSE Least(work)
        read == {d \in before : gap = Unsaid \/ d <= gap}
    IN  IF ~listed THEN [from |-> Unsaid, checked |-> FALSE]
        ELSE [from |-> gap, checked |-> \A d \in read : daily[d] # "unreadable"]

Complete(w) ==
    LET older == OlderHistory(w)
    IN  Broken = {} /\ older.from = Unsaid /\ older.checked

\* What the page says of its numbers: with nothing to count, that there is nothing.
Banner(w) == IF InPeriod(w) = {} THEN "empty" ELSE IF Complete(w) THEN "whole" ELSE "partial"

\* One end of the window was not asked for.
OpenEnded(w) == w.since = 0 \/ w.until = EndOfTime

\* Fault: a git that could not be read has no commits.
GitActivityAsZero(w) ==
    IF OpenEnded(w) /\ EvidenceDays(w) = {} THEN Unsaid
    ELSE IF git = Unreadable THEN NoCommits ELSE git

\* Git is asked about the window; an end that the window lacks is the evidence's,
\* and without evidence git is not asked.
GitActivity(w) ==
    IF OpenEnded(w) /\ EvidenceDays(w) = {} THEN Unsaid ELSE git
CodeChanges(w) ==
    LET log == GitActivity(w)
    IN  IF log \in Log
        THEN IF log.commits > RecentLimit THEN RecentLimit ELSE log.commits
        ELSE 0

-----------------------------------------------------------------------------
(* KPIs: a count of the rollup, an age, a rate, or the word that says that *)
(* nothing in the system can answer                                        *)

CeoKpi == {"north_star", "revenue", "mrr", "arr", "customers_active", "retention",
           "churn", "nrr", "conversion", "cash", "runway", "strategic_goal_progress"}
CtoKpi == {"deployment_frequency", "change_lead_time", "change_failure_rate",
           "failed_deployment_recovery_time", "deployment_rework_rate",
           "reliability_slo", "critical_technical_debt"}
GitKpi == {"code_commits", "code_files_changed", "code_contributors"}

GitKpis(w) ==
    LET log == GitActivity(w)
    IN  IF log \in Log
        THEN [code_commits |-> log.commits, code_files_changed |-> log.files,
              code_contributors |-> log.authors]
        ELSE [k \in GitKpi |-> DataRequired]

Aging(items) ==
    IF items = {} THEN 0 ELSE Greatest({WholeDays(i.item.since) : i \in items})

CompletionRate(moved) ==
    IF moved.projects_active > 0
    THEN (100 * moved.projects_completed) \div moved.projects_active
    ELSE DataRequired

KpiSet(w) ==
    LET state == StateMetrics(w)
        items == OpenItems(w)
        of(k) == {i \in items : i.kind = k}
    IN  [blocked_items        |-> state.open_blockers,
         critical_risk_count  |-> state.projects_at_risk,
         open_issues          |-> state.issues_open,
         unassigned_items     |-> state.items_unassigned,
         unexecuted_decisions |-> state.decisions_unexecuted,
         pending_decisions    |-> state.decisions_pending,
         issue_aging          |-> Aging(of("ISSUE")),
         decision_aging       |-> Aging(of("DECISION")),
         execution_aging      |-> Aging(of("DECISION_EXECUTION")),
         execution_completion_rate |-> CompletionRate(Metrics(w)),
         critical_project_on_time_rate |-> DataRequired,
         process_cycle_time            |-> DataRequired,
         operational_failure_sla       |-> DataRequired]

\* The screen says how many of all these can be answered.
Answered(kpis, code) ==
    {k \in DOMAIN kpis : kpis[k] # DataRequired} \cup {k \in DOMAIN code : code[k] # DataRequired}
AllKpis(kpis) == CeoKpi \cup DOMAIN kpis \cup CtoKpi \cup GitKpi

-----------------------------------------------------------------------------
(* Cohorts: the projects that began in one month, followed for some days *)

AsOfDay(w) == IF w.until < Today THEN w.until ELSE Today
MonthOf(p) == Day(p.first) \div MonthLength

\* Fault: a project that has ended, at whatever time, is settled in every window.
InCohortSettledEver(w, S, p, d) ==
    LET project == ProjectOf(OfProject(S, p))
        begin == Day(project.first)
    IN  IF begin + d > AsOfDay(w) THEN "waiting"
        ELSE IF SettledAt(project) # NoFile THEN "settled"
        ELSE IF \E n \in OfProject(S, p) : begin < Day(n) /\ Day(n) <= begin + d
        THEN "retained" ELSE "idle"

\* What a project is to the window of d days after its first.
InCohort(w, S, p, d) ==
    LET project == ProjectOf(OfProject(S, p))
        begin == Day(project.first)
        end == begin + d
        settled == SettledAt(project)
        days == {Day(n) : n \in OfProject(S, p)}
    IN  IF end > AsOfDay(w) THEN "waiting"
        ELSE IF settled # NoFile /\ Day(settled) <= end THEN "settled"
        ELSE IF \E day \in days : begin < day /\ day <= end /\ day <= AsOfDay(w)
        THEN "retained" ELSE "idle"

CohortWindow(kinds) ==
    LET many(what) == Cardinality({p \in DOMAIN kinds : kinds[p] \in what})
    IN  [base |-> many({"retained", "idle"}), retained |-> many({"retained"}),
         settled |-> many({"settled"})]

\* A rate, the word for too early, or the word for nothing left to ask about.
CohortReading(window) ==
    IF window.base > 0 THEN (100 * window.retained) \div window.base
    ELSE IF window.settled = 0 THEN DataRequired ELSE NotApplicable

CohortAnalysis(w) ==
    LET S == AsOf(w)
        month == [p \in Projects(S) |-> MonthOf(ProjectOf(OfProject(S, p)))]
        members(m) == {p \in Projects(S) : month[p] = m}
    IN  [m \in {month[p] : p \in Projects(S)} |->
           [size    |-> Cardinality(members(m)),
            windows |-> [d \in CohortDays |->
                           CohortWindow([p \in members(m) |-> InCohort(w, S, p, d)])]]]

-----------------------------------------------------------------------------
(* COMPANY: the same files, counted again by desktop_activity.py, which    *)
(* asks no more of one than a source and an instant, and keeps the first   *)
(* name of an Event ID and not the first instant                           *)

Read == {n \in Name : processed[n] \notin {Absent, Unreadable}}
Strays == Read \ Files
Torn == {n \in Name : processed[n] = Unreadable}

\* Fault: every file is counted.
SeenEvery == Read

\* What has no ID is like nothing else.
SeenFirst ==
    {n \in Read :
        ~ \E m \in Read : SameEvent(m, n) /\ m < n /\ processed[n].id # NoFile}

ActivityOf(s) == {n \in SeenFirst : processed[n].source = s}
LastDay(s) == Greatest({Day(n) : n \in ActivityOf(s)})
DaysSilent(s) == IF Today > LastDay(s) THEN Today - LastDay(s) ELSE 0

\* A Desktop that never reported is silent, and so is one with an instant that
\* is none, such as a word, which comes after every date.
SilentFor ==
    {s \in Source : \/ ActivityOf(s) = {}
                    \/ \E n \in ActivityOf(s) : processed[n].at = Unreadable
                    \/ DaysSilent(s) >= SilentAfter}

-----------------------------------------------------------------------------
(* ATTENTION: the lines that ask for a person *)

\* A kind is said row by row up to RiskLimit, and its total when there are more.
RowLines(rows) == {[kind |-> k, total |-> FALSE] : k \in {j \in RiskKind : rows[j] > 0}}
TotalLines(rows) ==
    {[kind |-> k, total |-> TRUE] : k \in {j \in RiskKind : rows[j] > RiskLimit}}

SharedHeadings(w) ==
    {p \in Projects(InPeriod(w)) :
        \E q \in Projects(InPeriod(w)) \ {p} : Heading[p] = Heading[q]}

ControlTowerLines ==
    RowLines(RiskRows(Forever)) \cup TotalLines(RiskRows(Forever)) \cup
    {[kind |-> "SHARED_HEADING", total |-> FALSE] : p \in SharedHeadings(Forever)}

CompanyLines ==
    {[kind |-> "SILENT", total |-> FALSE] : s \in SilentFor} \cup
    {[kind |-> "UNREADABLE", total |-> FALSE] : n \in Torn}

\* attention.RULES, by the kind of line: the total of most kinds is worded
\* with the kind's own name, which no rule knows.
Severity(line) ==
    IF line.kind = "EVENT_ID_CONFLICT" \/ line.kind = "OTHER_P1" THEN "P1"
    ELSE IF \/ line.total /\ line.kind \notin {"OPEN_BLOCKER", "ROLE_MISMATCH"}
            \/ line.kind = "OTHER_UNKNOWN"
    THEN "?" ELSE "P2"

ExitCode(lines) == IF lines = {} THEN 0 ELSE 3

\* company_verdict: what the whole page comes to.
CompanyVerdict(lines, model) ==
    IF model = Unsaid THEN IF lines = {} THEN "warn" ELSE "bad"
    ELSE IF \E l \in lines : Severity(l) \in {"P1", "?"} THEN "bad"
    ELSE IF lines # {} \/ model.events = 0 THEN "warn" ELSE "ok"

\* The tiles above the panels.  The DESKTOPS panel does not count a Desktop
\* without an Event in the window as silent.
QuietDesktops(w) ==
    {s \in Source : /\ DesktopEvents(w, s) # {}
                    /\ WholeDays(Last(DesktopEvents(w, s))) >= SilentAfter}
ProjectStates(w) ==
    LET S == InPeriod(w)
    IN  [p \in Projects(S) |-> State(ProjectOf(OfProject(S, p)))]

Tiles(w) ==
    LET states == ProjectStates(w)
        many(state) == Cardinality({p \in DOMAIN states : states[p] = state})
    IN  [blockers |-> Cardinality(Risks(w)), silent |-> Cardinality(QuietDesktops(w)),
         active |-> many("ACTIVE"), blocked |-> many("BLOCKED")]

Model(w) ==
    [events |-> Cardinality(InPeriod(w)), tiles |-> Tiles(w), commits |-> CodeChanges(w),
     banner |-> Banner(w)]

-----------------------------------------------------------------------------
(* The page, and what goes on while it is put together *)

NoPage == [phase |-> "none", lines |-> {}, needed |-> FALSE, tone |-> "warn",
           model |-> Unsaid]

\* History variable: somebody is waited for, as the files stood at this moment.
SomebodyIsNeeded ==
    \/ Risks(Forever) \cup AtRisk(Forever) # {} \/ OpenItems(Forever) # {}
    \/ Mismatches(Forever) \cup Conflicts(Forever) # {}

TowerInit ==
    /\ RollupInit
    /\ now = 0 /\ daily = [d \in Days |-> "none"] /\ listed = TRUE
    /\ git = NoCommits /\ screen = NoPage

\* Bounds.  Files and whatever else is out of the ordinary are counted
\* together, past the first of them things happen at the first and the last
\* instant only, past the last of them the clock jumps to its end, and at most one
\* of them happens between the two halves of a page.
Present == Cardinality({n \in Name : processed[n] # Absent})
Spent == Present + Cardinality({d \in Days : daily[d] # "none"})
         + (IF listed THEN 0 ELSE 1) + (IF git = NoCommits THEN 0 ELSE 1)
Room(cost) == Spent + cost <= Budget /\ (Spent = 0 \/ now \in {0, LastInstant})
Quiet == screen.phase = "none" \/ (screen.phase = "lines" /\ Spent = 0)

Tick ==
    /\ now < LastInstant /\ Quiet
    /\ now' = IF Spent < Budget THEN now + 1 ELSE LastInstant
    /\ UNCHANGED <<processed, daily, listed, git, screen>>

\* The Runner writes a Daily for a day that is over, with or without work in it.
CloseDay(d) ==
    /\ d < Today /\ daily[d] = "none" /\ Room(1) /\ Quiet
    /\ \E what \in {"empty", "work"} : daily' = [daily EXCEPT ![d] = what]
    /\ UNCHANGED <<processed, now, listed, git, screen>>

LoseDaily(d) ==
    /\ daily[d] \in {"empty", "work"} /\ Quiet
    /\ daily' = [daily EXCEPT ![d] = "unreadable"]
    /\ UNCHANGED <<processed, now, listed, git, screen>>

LoseListing ==
    /\ listed /\ Room(1) /\ Quiet
    /\ listed' = FALSE
    /\ UNCHANGED <<processed, now, daily, git, screen>>

GitChanges ==
    /\ Room(1) /\ Quiet
    /\ git' \in Log \cup {Unreadable}
    /\ UNCHANGED <<processed, now, daily, listed, screen>>

\* gather, first half: the seven blocks are printed and their lines kept.
\* The other blocks have lines of their own; a block that cannot be read
\* leaves one line in its place.
ReadBlocks ==
    \E others \in SUBSET {"OTHER_P1", "OTHER_UNKNOWN", "OTHER_P2"}, read \in BOOLEAN :
        /\ screen.phase # "lines" /\ Room(2 + Cardinality(others))
        /\ screen' = [NoPage EXCEPT
              !.phase = "lines", !.needed = SomebodyIsNeeded,
              !.lines = CompanyLines
                        \cup (IF read THEN ControlTowerLines
                              ELSE {[kind |-> "BLOCK_UNREAD", total |-> FALSE]})
                        \cup {[kind |-> k, total |-> FALSE] : k \in others}]
        /\ UNCHANGED <<processed, now, daily, listed, git>>

\* gather, second half: the panels are built from the files as they are now.
ReadModel(w) ==
    /\ screen.phase = "lines"
    /\ \E model \in {Model(w), Unsaid} :
          screen' = [screen EXCEPT !.phase = "shown", !.model = model,
                               !.tone = CompanyVerdict(screen.lines, model)]
    /\ UNCHANGED <<processed, now, daily, listed, git>>

FilesChange ==
    /\ Quiet
    /\ \/ Room(1) /\ \E e \in Event : Collect(e)
       \/ Room(1) /\ \E n \in Name, e \in Event : Restore(n, e)
       \/ \E n \in Name : Damage(n) \/ Remove(n)
    /\ UNCHANGED <<now, daily, listed, git, screen>>

TowerNext ==
    \/ FilesChange \/ Tick \/ LoseListing \/ GitChanges \/ ReadBlocks
    \/ \E d \in Days : CloseDay(d) \/ LoseDaily(d)
    \/ \E w \in Window : ReadModel(w)

TowerSpec == TowerInit /\ [][TowerNext]_tower

-----------------------------------------------------------------------------
(* Properties *)

\* A page that says all is well had nothing to ask for when it read the
\* lines, and counts at least one Event (company_verdict, gather).
OkNeedsNobody ==
    screen.phase = "shown" /\ screen.tone = "ok" =>
        /\ ~screen.needed /\ ExitCode(screen.lines) = 0
        /\ screen.model # Unsaid /\ screen.model.events > 0

\* What does not fit on the screen never hides a project that is blocked, or
\* lives, behind one that has ended (_projects_panel, _print_control_tower).
CutHidesTheSettled ==
    LET S == InPeriod(Forever)
        shown == Shown(S)
        ended(p) == processed[Last(OfProject(S, p))].type \in {"COMPLETED", "CANCELLED"}
    IN  \A p \in shown, q \in Projects(S) \ shown :
            ended(p) => processed[Last(OfProject(S, q))].status \in {"COMPLETED", "CANCELLED"}

\* No age is shown as zero while something older waits for an answer, and no
\* rate is made up: it is a share of the projects that moved (build_kpi_set).  A
\* KPI of git has no number where git was not asked or could not be read; where
\* commits are shown, they are no more than are counted, nor are their authors.
\* Blocked Items and At-Risk Projects add up to the projects that need hands
\* now, whatever window the KPIs are asked for (kpi.py:503-508).
KpisAreHonest ==
    \A w \in Window :
        LET kpi == KpiSet(w)
            code == GitKpis(w)
            S == AsOf(w)
            waits(n) == \E m \in S : /\ processed[m].project = processed[n].project
                                     /\ processed[m].type \in Closes("ISSUE")
                                     /\ Before(n, m)
            raised == {n \in EventsOf(S, "ISSUE_RAISED") : ~waits(n)}
            hands == {p \in Projects(S) :
                        State(ProjectOf(OfProject(S, p))) \in {"BLOCKED", "AT_RISK"}}
        IN  /\ kpi.blocked_items + kpi.critical_risk_count = Cardinality(hands)
            /\ kpi.open_issues > 0 <=> raised # {}
            /\ \A n \in raised : \E m \in raised :
                  processed[m].project = processed[n].project /\ kpi.issue_aging >= WholeDays(m)
            /\ kpi.execution_completion_rate = DataRequired <=> InPeriod(w) = {}
            /\ Cardinality(AllKpis(kpi) \ Answered(kpi, code)) =
                  22 + (IF InPeriod(w) = {} THEN 1 ELSE 0)
                     + (IF git = Unreadable \/ GitActivity(w) = Unsaid THEN 3 ELSE 0)
            /\ kpi.execution_completion_rate # DataRequired =>
                  kpi.execution_completion_rate \in 0..100
            /\ CodeChanges(w) > 0 =>
                  /\ \A k \in GitKpi : code[k] # DataRequired
                  /\ code.code_commits >= CodeChanges(w)
                  /\ code.code_commits >= code.code_contributors

\* Every project is in one cohort, and a window of a cohort speaks of exactly
\* those of its projects whose window is over; it says that it is too early
\* only if there are none (build_cohort_analysis, CohortWindow).
CohortsDivideTheProjects ==
    \A w \in Window :
        LET cohorts == CohortAnalysis(w)
            S == AsOf(w)
        IN  /\ \A m \in DOMAIN cohorts, d \in CohortDays :
                  LET c == cohorts[m]  v == c.windows[d]
                      over == {p \in Projects(S) :
                                  /\ MonthOf(ProjectOf(OfProject(S, p))) = m
                                  /\ \E n \in OfProject(S, p) :
                                        Day(n) + d <= Today /\ Day(n) + d <= w.until}
                  IN  /\ v.base + v.settled = Cardinality(over) /\ v.retained <= v.base
                      /\ CohortReading(v) = DataRequired <=> over = {}
            /\ \A p \in Projects(S) :
                  Cardinality({m \in DOMAIN cohorts :
                     MonthOf(ProjectOf(OfProject(S, p))) = m}) = 1

\* The numbers of a page are called complete only if there is something to
\* count, every file could be read, and Company History knows of no work from
\* before the evidence (Coverage, _coverage_html).
CompleteIsHonest ==
    \A w \in Window :
        Banner(w) = "whole" <=>
            /\ \E n \in Files : w.since <= Day(n) /\ Day(n) <= w.until
            /\ listed /\ \A n \in Name : processed[n] \in Event \cup {Absent}
            /\ \A d \in Days :
                  daily[d] \in {"work", "unreadable"} =>
                      \E n \in Files : Day(n) <= d /\ w.since <= Day(n) /\ Day(n) <= w.until

\* Unless two files say different things under one ID, the two blocks of the
\* one screen count the same Events for every Desktop; what COMPANY counts
\* besides are files that are no Events, and but for those no tile counts a
\* Desktop as silent that no line asks about.
ScreensAgree ==
    Conflicts(Forever) = {} /\ (\A n \in Strays, m \in Files : ~SameEvent(m, n)) =>
        \A s \in Source :
            /\ Cardinality(ActivityOf(s) \ Strays) = Cardinality(DesktopEvents(Forever, s))
            /\ s \in QuietDesktops(Forever) /\ ActivityOf(s) \cap Strays = {} => s \in SilentFor

\* A silent team is a silent Desktop or a mismatch that is on the RISKS panel
\* (dashboard.py:1142-1146).
SilentTeamIsExplained ==
    \A w \in Window : \A r \in SilentTeams(w) : \A s \in Source :
        RoleOf[s] = r => s \in SilentDesktops(w) \/ \E n \in Mismatches(w) : processed[n].source = s

\* What happens after a window of a cohort is over moves no project between
\* retained and idle, and makes one settled in it only that was completed in the
\* window, went on, and is now reported as COMPLETED by whatever Event: its
\* completion stands again, at its old date (_event_days, settled_at).
ElapsedWindowIsClosed ==
    \A w \in Window :
        LET S == AsOf(w)
        IN  \A p \in Projects(S), d \in CohortDays :
            LET begin == Day(Last({n \in OfProject(S, p) : ~ \E m \in OfProject(S, p) : Before(m, n)}))
                early == {n \in S : Day(n) <= begin + d}
                then == InCohort(w, early, p, d)
                again == /\ EventsOf(OfProject(early, p), "COMPLETED") # {}
                         /\ processed[Last(OfProject(S, p))].status = "COMPLETED"
            IN  then # "settled" =>
                    InCohort(w, S, p, d) \in {then} \cup (IF again THEN {"settled"} ELSE {})

\* Whatever asks for an answer is shown, and shown until it has one: Blockers,
\* Issues and Decisions follow the last word on them, in every window, and are
\* not cut off the screen.
WhatStandsIsShown ==
    /\ BlockerFollowsTheLastWord /\ OpenItemIsUnanswered
    /\ SettledNeedsNobody /\ StateHasNoSince
    /\ CutHidesTheSettled

\* Two counts of one thing are one number.
CountsAgree == EveryIdCountsOnce /\ ScreensAgree /\ SilentTeamIsExplained

\* No number is made up, doubled, or called complete when it is of a part.
NumbersAreHonest == KpisAreHonest /\ CompleteIsHonest

\* Cohorts divide the projects, and a window that is over stays as it was.
CohortsAreHonest == CohortsDivideTheProjects /\ ElapsedWindowIsClosed
=============================================================================
