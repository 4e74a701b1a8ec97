---------------------------- MODULE NotionPages ----------------------------
(***************************************************************************)
(* What src/controltower/notion_page.py says in Notion of the look that    *)
(* dashboard_server.py gathers for the browser: the first line of the      *)
(* Control Tower page, the description of the PROJECTS database, and the   *)
(* note and the body of each project's row.  Publication models how these  *)
(* are written; here is what they tell, next to what the browser tells.    *)
(* They are published without a window of days.                            *)
(***************************************************************************)
EXTENDS ControlTower

Rank(tone) == CHOOSE r \in 0..2 : tone = <<"ok", "warn", "bad">>[r + 1]

\* Fault: a line that no rule knows does not count as severe.
ToneOfTheKnown(lines, model) ==
    IF model = Unsaid \/ \E l \in lines : Severity(l) = "P1" THEN "bad"
    ELSE IF lines # {} \/ model.events = 0 THEN "warn" ELSE "ok"

\* The first line of the page; without a model it is bad, whatever the lines.
NotionTone(lines, model) ==
    IF model = Unsaid \/ \E l \in lines : Severity(l) \in {"P1", "?"} THEN "bad"
    ELSE IF lines # {} \/ model.events = 0 THEN "warn" ELSE "ok"

\* The first line of the description.
DescriptionHead(lines, model) ==
    IF model = Unsaid THEN "no model" ELSE IF lines # {} THEN "attention" ELSE "clear"

\* What the description and the page say of the evidence: nobody looked whether
\* Company History goes further back, there is a gap, or nothing.
Caveat(w) ==
    IF ~OlderHistory(w).checked THEN "unchecked"
    ELSE IF ~Complete(w) THEN "gap" ELSE "none"

\* Why a table has no rows.
AbsenceNote(w, rows) ==
    IF rows # {} THEN "none"
    ELSE IF w # Forever THEN "outside the window"
    ELSE IF InPeriod(w) = {} THEN "nothing yet" ELSE "nothing of the kind"

\* Fault: idleness is asked about before the end.
NoteIdleFirst(p) ==
    IF p.blocker # NoFile THEN "blocker"
    ELSE IF WholeDays(p.last) >= SilentAfter THEN "quiet"
    ELSE IF Settled(State(p)) THEN "done" ELSE "plain"

\* The sign in the Notes column: a Blocker on record comes first, whether or
\* not the project is still running.
Note(p) ==
    IF p.blocker # NoFile THEN "blocker"
    ELSE IF Settled(State(p)) THEN "done"
    ELSE IF WholeDays(p.last) >= SilentAfter THEN "quiet" ELSE "plain"

\* The body of a row: its Events are those on the panel of recent activity.
RowBody(w, p, project) ==
    LET recent == Recent(w, RecentLimit)
        events == OfProject(recent, p)
    IN  [blocker |-> project.blocker # NoFile,
         idle    |-> IF Settled(State(project)) THEN "ended" ELSE "quiet",
         events  |-> events,
         absence |-> IF events # {} THEN "none"
                     ELSE IF recent = {} THEN AbsenceNote(w, recent)
                     ELSE "no event of this project"]

-----------------------------------------------------------------------------
(* Properties *)

\* Whoever reads Notion is told no better than whoever reads the browser, and
\* the same unless the model could not be built; the description is clear of
\* lines only then, and names what the browser's banner calls partial
\* (controltower/verdict.py: "cannot describe one company in two languages").
NotionIsNeverMilder ==
    /\ screen.phase = "shown" =>
          LET tone == NotionTone(screen.lines, screen.model)
              head == DescriptionHead(screen.lines, screen.model)
          IN  /\ Rank(tone) >= Rank(screen.tone)
              /\ screen.model # Unsaid => tone = screen.tone
              /\ head = "clear" => tone # "bad" /\ ExitCode(screen.lines) = 0
    /\ Banner(Forever) = "partial" => Caveat(Forever) # "none"
    /\ AbsenceNote(Forever, InPeriod(Forever)) = "nothing yet" => Files = {}

\* A note calls for somebody exactly if the project needs hands: it shows every
\* Blocker that is open, warns of idleness only where work could go on, and
\* calls ended nothing that is on a list of what is wrong.  A Blocker is left
\* standing only over a project whose last Event says that it has ended: one
\* cancelled with it, or completed before it and not heard of as running since
\* (build_project_note).
NotesAreTrue ==
    LET S == InPeriod(Forever)
        risks == Risks(Forever)
        care == AtRisk(Forever)
    IN  \A p \in Projects(S) :
        LET project == ProjectOf(OfProject(S, p))
            note == Note(project)
            body == RowBody(Forever, p, project)
            last == Last(OfProject(S, p))
        IN  /\ p \in risks => note = "blocker" /\ body.blocker
            /\ note = "blocker" => p \in risks \/ processed[last].status \in {"CANCELLED", "COMPLETED"}
            /\ note = "done" => p \notin risks \cup care
            /\ note = "quiet" =>
                  /\ processed[last].type \notin {"COMPLETED", "CANCELLED"}
                  /\ Today >= Day(last) + SilentAfter
            /\ body.idle = "ended" => p \notin risks \cup care
            /\ body.events = {} => \E n \in Recent(Forever, RecentLimit) : Before(last, n)

\* One company, one verdict: all is well only where nothing is asked for, and
\* in Notion never more so than in the browser.
VerdictsAgree == OkNeedsNobody /\ NotionIsNeverMilder
=============================================================================
