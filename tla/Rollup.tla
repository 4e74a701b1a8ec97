------------------------------- MODULE Rollup -------------------------------
(***************************************************************************)
(* The company as its collected Events tell it (src/controltower/rollup.py *)
(* and the Event rules of src/events/schema.py).  Nothing is stored: each  *)
(* look at the company reads the files of processed/ again, puts the       *)
(* Events in the order of their instants, keeps one file per Event ID, and *)
(* folds them into projects, teams, Desktops, risks and open items.  Files *)
(* arrive in any order, are copied or broken by hand, and may say          *)
(* different things under one ID; a person may ask for a window of days.   *)
(***************************************************************************)
EXTENDS Naturals, FiniteSets, Functions

CONSTANTS
    Name,        \* file names, in directory order
    Event,       \* what a readable file may say
    Project, Role, Source,
    RoleOf,      \* the role docs/02 section 8 gives each Desktop
    DayLength,   \* instants in a business day
    Window,      \* the windows of days that are asked for
    EndOfTime,   \* the last day of an Event: where no window ends earlier
    Loose,       \* what a file may say that names a source and an instant, and is no Event
    Absent,      \* there is no such file
    Unreadable   \* the file cannot be read, nor an instant that is none

Type == {"STARTED", "AT_RISK", "BLOCKED", "RESUMED", "MILESTONE_COMPLETED",
         "COMPLETED", "CANCELLED", "ISSUE_RAISED", "ASSIGNED",
         "ISSUE_RESOLVED", "DECISION_REQUIRED", "DECISION_APPROVED",
         "DECISION_REJECTED", "EXECUTED"}
Status == {"NOT_STARTED", "IN_PROGRESS", "AT_RISK", "BLOCKED", "COMPLETED",
           "CANCELLED"}

\* What validate_event asks of the fields this model keeps.  Type and status
\* are free of each other but for the three types that name a status.
Valid(e) ==
    /\ e.type \in Type /\ e.status \in Status
    /\ e.role \in Role /\ e.source \in Source
    /\ e.type \in {"AT_RISK", "COMPLETED", "CANCELLED"} => e.status = e.type

ASSUME NameAssumption == Name \subseteq Nat \ {0} /\ IsFiniteSet(Name)
ASSUME EventAssumption ==
    \A e \in Event : Valid(e) /\ e.project \in Project /\ e.id \in Name /\ e.at \in Nat
ASSUME FileAssumption ==
    /\ Event \cap (Loose \cup {Absent, Unreadable}) = {}
    /\ Loose \cap {Absent, Unreadable} = {} /\ Absent # Unreadable
    /\ \A e \in Loose : e.id \in Name \cup {0} /\ e.at \in Nat \cup {Unreadable}
ASSUME TeamAssumption == IsFiniteSet(Role) /\ IsFiniteSet(Source)
ASSUME WindowAssumption ==
    /\ DayLength \in Nat \ {0}
    /\ \A w \in Window : w.since \in Nat /\ w.until \in Nat

VARIABLE processed   \* what each name of processed/ holds

-----------------------------------------------------------------------------
(* The files of a window, as a sequence of Events *)

Day(n) == processed[n].at \div DayLength

\* What validate_event refuses is not read, like what cannot be read at all.
Files == {n \in Name : processed[n] \notin Loose \cup {Absent, Unreadable}}
Broken == {n \in Name : processed[n] \in Loose \cup {Unreadable}}

Before(m, n) ==
    LET e == processed[m]  f == processed[n]
    IN  \/ e.at < f.at
        \/ e.at = f.at /\ e.id < f.id
        \/ e.at = f.at /\ e.id = f.id /\ m < n

SameEvent(m, n) == processed[m].id = processed[n].id

Kept(S) == {n \in S : ~ \E m \in S : SameEvent(m, n) /\ Before(m, n)}

Ignored(S) == [n \in S \ Kept(S) |-> CHOOSE m \in Kept(S) : SameEvent(m, n)]

Last(S) == CHOOSE n \in S : \A m \in S : ~Before(n, m)

UntilOf(w) == {n \in Files : Day(n) <= w.until}
SinceOf(w) == {n \in UntilOf(w) : Day(n) >= w.since}

\* Two corpora: what is open as of the window's end, and what moved in it.
AsOf(w) == Kept(UntilOf(w))
InPeriod(w) == Kept(SinceOf(w))
Duplicates(w) == Ignored(SinceOf(w))

\* No window was asked for.
Forever == [since |-> 0, until |-> EndOfTime]
ASSUME ForeverAssumption ==
    EndOfTime \in Nat /\ \A e \in Event : e.at \div DayLength <= EndOfTime

-----------------------------------------------------------------------------
(* A project: its Events folded in order.  Files stand for what they say. *)

NoFile == 0

Blocks(e) == e.type = "BLOCKED"
Unblocks(e) ==
    \/ e.type \in {"RESUMED", "COMPLETED"}
    \/ e.type = "ISSUE_RESOLVED" /\ e.status # "BLOCKED"

NewProject == [count |-> 0, first |-> NoFile, last |-> NoFile, teams |-> {},
               blocker |-> NoFile, atRisk |-> NoFile, cancelled |-> NoFile,
               completed |-> NoFile]

\* The first file of an unbroken run of Events with this status.
RunOf(held, status, n) ==
    IF processed[n].status # status THEN NoFile
    ELSE IF held = NoFile THEN n ELSE held

Rolled(p, n) ==
    LET e == processed[n]
    IN  [count     |-> p.count + 1,
         first     |-> IF p.count = 0 THEN n ELSE p.first,
         last      |-> n,
         teams     |-> p.teams \cup {e.role},
         blocker   |-> IF Blocks(e) THEN n ELSE IF Unblocks(e) THEN NoFile ELSE p.blocker,
         atRisk    |-> RunOf(p.atRisk, "AT_RISK", n),
         cancelled |-> RunOf(p.cancelled, "CANCELLED", n),
         completed |-> IF e.type = "COMPLETED" THEN n ELSE p.completed]

OfProject(S, p) == {n \in S : processed[n].project = p}

\* The fold of a project's Events, oldest first.
ProjectRoll[S \in SUBSET Files] ==
    IF S = {} THEN NewProject
    ELSE LET n == Last(S) IN Rolled(ProjectRoll[S \ {n}], n)
ProjectOf(S) == ProjectRoll[S]

Projects(S) == {processed[n].project : n \in S}
RollProjects(S) == [p \in Projects(S) |-> ProjectOf(OfProject(S, p))]

StatusOf(p) == processed[p.last].status

CompletionStands(p) == p.completed # NoFile /\ StatusOf(p) = "COMPLETED"
SettledAt(p) == IF CompletionStands(p) THEN p.completed ELSE p.cancelled
\* Fault: a Blocker outlives the project.
IsBlockedForGood(p) == p.blocker # NoFile

IsBlocked(p) == p.blocker # NoFile /\ SettledAt(p) = NoFile
IsAtRisk(p) == StatusOf(p) = "AT_RISK"

-----------------------------------------------------------------------------
(* Issues and Decisions that are open *)

Kind == {"ISSUE", "DECISION", "DECISION_EXECUTION"}

Opens(k) ==
    [ISSUE |-> {"ISSUE_RAISED"}, DECISION |-> {"DECISION_REQUIRED"},
     DECISION_EXECUTION |-> {"DECISION_APPROVED"}][k]
Assigns(k) ==
    [ISSUE |-> {"ASSIGNED"}, DECISION |-> {}, DECISION_EXECUTION |-> {"ASSIGNED"}][k]
Closes(k) ==
    {"COMPLETED", "CANCELLED"} \cup
    [ISSUE |-> {"ISSUE_RESOLVED"},
     DECISION |-> {"DECISION_APPROVED", "DECISION_REJECTED"},
     DECISION_EXECUTION |-> {"EXECUTED"}][k]

NoItem == [since |-> NoFile, times |-> 0, assigned |-> NoFile]

Item(item, k, n) ==
    LET t == processed[n].type
    IN  IF t \in Assigns(k)
        THEN IF item = NoItem THEN item ELSE [item EXCEPT !.assigned = n]
        ELSE IF t \in Opens(k)
        THEN [since |-> n, times |-> item.times + 1, assigned |-> NoFile]
        ELSE IF t \in Closes(k) THEN NoItem ELSE item

\* All kinds at once, oldest first.
ItemRoll[S \in SUBSET Files] ==
    IF S = {} THEN [k \in Kind |-> NoItem]
    ELSE LET n == Last(S)
             items == ItemRoll[S \ {n}]
         IN  [k \in Kind |-> Item(items[k], k, n)]
OpenItem(S, k) == ItemRoll[S][k]

RollOpenItems(S) ==
    {[kind |-> k, project |-> p, item |-> OpenItem(OfProject(S, p), k)] :
        k \in Kind, p \in Projects(S)}

-----------------------------------------------------------------------------
(* The company *)

EventsOf(S, t) == {n \in S : processed[n].type = t}

\* What moved in the window.
MovedProjects(w) == RollProjects(InPeriod(w))

Risks(w) ==
    LET S == AsOf(w) IN {p \in Projects(S) : IsBlocked(ProjectOf(OfProject(S, p)))}
NeedsCare(p) == IsAtRisk(p) /\ ~IsBlocked(p) /\ ~CompletionStands(p)
AtRisk(w) ==
    LET S == AsOf(w) IN {p \in Projects(S) : NeedsCare(ProjectOf(OfProject(S, p)))}
OpenItems(w) == {i \in RollOpenItems(AsOf(w)) : i.item # NoItem}

\* A team counts what moved in the window and the blocked projects as of its end.
TeamEvents(w, r) == {n \in InPeriod(w) : processed[n].role = r}
TeamBlocked(w, r) ==
    LET S == AsOf(w) IN {p \in Risks(w) : \E n \in OfProject(S, p) : processed[n].role = r}

DesktopEvents(w, s) == {n \in InPeriod(w) : processed[n].source = s}
Mismatched(n) == processed[n].role # RoleOf[processed[n].source]
Mismatches(w) == {n \in InPeriod(w) : Mismatched(n)}
SilentTeams(w) == {r \in Role : TeamEvents(w, r) = {}}
SilentDesktops(w) == {s \in Source : DesktopEvents(w, s) = {}}

Metrics(w) ==
    LET S == InPeriod(w)
        many(t) == Cardinality(EventsOf(S, t))
        completed == {p \in Projects(S) : ProjectOf(OfProject(S, p)).completed # NoFile}
    IN  [events               |-> Cardinality(S),
         projects_active      |-> Cardinality(Projects(S)),
         projects_completed   |-> Cardinality(completed),
         milestones_completed |-> many("MILESTONE_COMPLETED"),
         decisions_approved   |-> many("DECISION_APPROVED"),
         decisions_rejected   |-> many("DECISION_REJECTED"),
         decisions_executed   |-> many("EXECUTED"),
         issues_raised        |-> many("ISSUE_RAISED"),
         issues_resolved      |-> many("ISSUE_RESOLVED")]

StateMetrics(w) ==
    LET items == OpenItems(w)
        many(k) == Cardinality({i \in items : i.kind = k})
    IN  [issues_open          |-> many("ISSUE"),
         decisions_pending    |-> many("DECISION"),
         decisions_unexecuted |-> many("DECISION_EXECUTION"),
         items_unassigned     |->
            Cardinality({i \in items : i.item.assigned = NoFile}),
         projects_at_risk     |-> Cardinality(AtRisk(w)),
         open_blockers        |-> Cardinality(Risks(w)),
         teams_silent         |-> Cardinality(SilentTeams(w)),
         desktop_role_mismatches |-> Cardinality(Mismatches(w))]

\* The recent feeds: the newest Events, and the newest that finish something.
Finishing == {"COMPLETED", "MILESTONE_COMPLETED"}
Newest(S, limit) ==
    {n \in S : Cardinality({m \in S : Before(n, m)}) < limit}
Recent(w, limit) == Newest(InPeriod(w), limit)
Completions(w, limit) ==
    Newest({n \in InPeriod(w) : processed[n].type \in Finishing}, limit)

-----------------------------------------------------------------------------
(* Files come and go *)

\* The Collector moves an Event of a new ID to processed/, under its ID.
Collect(e) ==
    /\ processed[e.id] = Absent
    /\ \A m \in Files : processed[m].id # e.id
    /\ processed' = [processed EXCEPT ![e.id] = e]

\* A second file with an ID that is there already: sent again under another
\* name, copied by hand, or back from a backup.
Restore(n, e) ==
    /\ processed[n] = Absent
    /\ \E m \in Files : processed[m].id = e.id
    /\ processed' = [processed EXCEPT ![n] = e]

\* A file is cut off, or edited by hand until it is no Event.
Damage(n) ==
    /\ n \in Files
    /\ \E what \in Loose \cup {Unreadable} : processed' = [processed EXCEPT ![n] = what]

Remove(n) ==
    /\ processed[n] # Absent
    /\ processed' = [processed EXCEPT ![n] = Absent]

RollupInit == processed = [n \in Name |-> Absent]

-----------------------------------------------------------------------------
(* What the folds have to mean.  None of these mentions a fold. *)

\* A project is reported as blocked exactly if the last of its Events that
\* says anything about a Blocker sets one, and its last Event does not leave
\* it cancelled or, once it was completed, completed (is_blocked).
BlockerFollowsTheLastWord ==
    \A w \in Window :
        LET risks == Risks(w)
            asOf == AsOf(w)
        IN  \A p \in Projects(asOf) :
            LET S == OfProject(asOf, p)
                speaks == {n \in S : Blocks(processed[n]) \/ Unblocks(processed[n])}
                ended == \/ processed[Last(S)].status = "CANCELLED"
                         \/ /\ processed[Last(S)].status = "COMPLETED"
                            /\ EventsOf(S, "COMPLETED") # {}
            IN  p \in risks <=>
                    speaks # {} /\ Blocks(processed[Last(speaks)]) /\ ~ended

\* An Issue or Decision is open exactly if it was raised and nothing that
\* closes it came later; it dates from the last time it was raised, counts
\* the times since it was last closed, and is the work of whoever was
\* assigned last after that (_roll_open_items).
OpenItemIsUnanswered ==
    \A w \in Window :
        LET items == OpenItems(w)
            asOf == AsOf(w)
        IN  \A k \in Kind, p \in Projects(asOf) :
            LET S == OfProject(asOf, p)
                opens == {n \in S : processed[n].type \in Opens(k)}
                closes == {n \in S : processed[n].type \in Closes(k)}
                open == {n \in opens : \A m \in closes : Before(m, n)}
                taken == {n \in S : /\ processed[n].type \in Assigns(k)
                                    /\ Before(Last(open), n)}
                found == {i.item : i \in {j \in items : j.kind = k /\ j.project = p}}
            IN  found =
                  IF open = {} THEN {}
                  ELSE {[since |-> Last(open), times |-> Cardinality(open),
                         assigned |-> IF taken = {} THEN NoFile ELSE Last(taken)]}

\* A project whose last Event completes or cancels it asks for nobody: no
\* Blocker, no risk, no Issue and no Decision of it is shown as open.
SettledNeedsNobody ==
    \A w \in Window :
        LET S == AsOf(w)
            ends(p) == processed[Last(OfProject(S, p))].type \in {"COMPLETED", "CANCELLED"}
            settled == {p \in Projects(S) : ends(p)}
        IN  /\ settled \cap (Risks(w) \cup AtRisk(w)) = {}
            /\ \A i \in OpenItems(w) : i.project \notin settled

\* What is open depends on the day it is asked for and not on where the
\* window begins (build_company_rollup: "a state has no how far back").
StateHasNoSince ==
    \A v, w \in Window : v.until = w.until /\ v.since < w.since =>
        /\ Risks(v) = Risks(w) /\ AtRisk(v) = AtRisk(w)
        /\ OpenItems(v) = OpenItems(w)
        /\ \A r \in Role : TeamBlocked(v, r) = TeamBlocked(w, r)

\* Whatever way the Events of a window are added up - by project, by team, by
\* Desktop, by day - the sums agree, and count an Event ID once however many
\* files carry it (_fold_duplicates, _roll_teams, _roll_desktops).
EveryIdCountsOnce ==
    \A w \in Window :
        LET S == InPeriod(w)
            ids == Cardinality({processed[n].id : n \in SinceOf(w)})
            moved == MovedProjects(w)
        IN  /\ Metrics(w).events = ids
            /\ SumFunction([p \in DOMAIN moved |-> moved[p].count]) = ids
            /\ SumFunction([r \in Role |-> Cardinality(TeamEvents(w, r))]) = ids
            /\ SumFunction([s \in Source |-> Cardinality(DesktopEvents(w, s))]) = ids
            /\ SumFunction([d \in {Day(n) : n \in S} |-> Cardinality({n \in S : Day(n) = d})]) = ids
=============================================================================
