---------------------------- MODULE Publication ----------------------------
(***************************************************************************)
(* publish_control_tower.py: a person runs it, it takes one look at the    *)
(* company and writes it to Notion four times over (controltower/          *)
(* notion_page.py): as the page "Control Tower", into the page of every    *)
(* project's row, into the Notes column of these rows, and as the          *)
(* description of the database.  Notion takes one block at a time away,    *)
(* any call may fail with or without effect, the process may die between   *)
(* two calls, and people write into the same rows and notes meanwhile.     *)
(*                                                                         *)
(* A look at the company is a version number.  Each body that is written   *)
(* is two blocks, the first of which says who wrote it; the code writes    *)
(* some dozens, in one call.  Runs do not overlap.                         *)
(***************************************************************************)
EXTENDS Naturals, Sequences, Functions

CONSTANTS
    Row,        \* the rows of PROJECTS, one per project
    Sourced,    \* the projects that each version knows of
    None,       \* no page, no row, no exit code
    Person,     \* a note that somebody typed
    MaxVersion, \* bound on the looks that differ
    MaxFaults,  \* bound on failing calls, unusable port numbers and crashes
    MaxWrites   \* bound on what people do

Version == 1 .. MaxVersion

ASSUME BoundsAssumption ==
    MaxVersion \in Nat \ {0} /\ MaxFaults \in Nat /\ MaxWrites \in Nat
ASSUME SourcedAssumption == Sourced \in [Version -> SUBSET Row]
ASSUME NamesAssumption == None \notin Row \cup Nat /\ Person \notin Nat

VARIABLES
    company,     \* what a look at the company would show
    page,        \* the blocks of the Control Tower page, None before there is one
    body,        \* the blocks in the page of each row
    note,        \* the Notes column: the version it tells of, 0 if empty, or Person
    description, \* the version the database description tells of
    pc, payload, \* the step of the run and the one look it publishes
    todo,        \* blocks that are listed and not yet deleted
    rows,        \* rows that the step has still to visit
    current,     \* the row whose body is being replaced
    seen,        \* the Notes column as it was listed
    skipped,     \* RowPageResult.skipped_hand_written
    failed,      \* rows_error, notes_error, summary_error, port_error
    exit,        \* exit code of the last run, None if it has none
    faults, writes, \* what has happened of the bounded
    warned,      \* history: rows whose person typed below the tool's first line
    late,        \* history: notes typed since the Notes column was listed
    torn         \* history: rows left with a part of the tool's own blocks

shown == <<page, body, note, description>>
run == <<pc, payload, todo, rows, current, seen, skipped, failed, exit>>
history == <<warned, late, torn>>
vars == <<company, shown, run, faults, writes, history>>

\* A block by what it is, and the look it shows; one of a person's shows none.
Typed == <<"person", 0>>
Block == ({"mark", "text"} \X Version) \cup {Typed}

Init ==
    /\ company = 1 /\ page = None /\ body = [r \in Row |-> <<>>]
    /\ note = [r \in Row |-> 0] /\ description = 0
    /\ pc = "idle" /\ payload = 1 /\ todo = <<>> /\ rows = {} /\ current = None
    /\ seen = [r \in Row |-> 0] /\ skipped = {} /\ failed = {} /\ exit = None
    /\ faults = 0 /\ writes = 0
    /\ warned = {} /\ late = {} /\ torn = {}

Rendered(v) == <<<<"mark", v>>, <<"text", v>>>>

\* Fault: an empty body is not known to be the tool's.
OursIfMarked(blocks) == blocks # <<>> /\ Head(blocks)[1] = "mark"

\* _is_ours: the body is empty or begins with the tool's line.
Ours(blocks) == blocks # <<>> => Head(blocks)[1] = "mark"

\* delete_block: one block is taken away, by its id.
Without(blocks, block) ==
    LET i == CHOOSE i \in DOMAIN blocks : blocks[i] = block
    IN  [j \in 1 .. Len(blocks) - 1 |-> blocks[IF j < i THEN j ELSE j + 1]]

Shows(r, v) == \A b \in Range(Rendered(v)) : b \in Range(body[r])

-----------------------------------------------------------------------------
(* One run *)

Fault == faults < MaxFaults /\ faults' = faults + 1

\* The page is to say where the Dashboard server is found; when the number that
\* the environment gives is no port, it is written without.
Begin ==
    /\ pc = "idle"
    /\ payload' = company /\ pc' = "find"
    /\ todo' = <<>> /\ rows' = {} /\ current' = None
    /\ \/ failed' = {} /\ UNCHANGED faults
       \/ failed' = {"port"} /\ Fault
    /\ skipped' = {} /\ exit' = None /\ late' = {}
    /\ UNCHANGED <<company, shown, seen, writes, warned, torn>>

\* What is left of a run that ends.
End(code) ==
    /\ pc' = "idle" /\ exit' = code
    /\ todo' = <<>> /\ rows' = {} /\ current' = None

\* The database cannot be read or the row of COMPANY_OPS is not there.
BeginFails ==
    /\ pc = "idle" /\ Fault
    /\ End(1) /\ failed' = {} /\ skipped' = {}
    /\ UNCHANGED <<company, shown, payload, seen, writes, history>>

\* The page: created if there is none, else emptied and written again.
Create ==
    /\ pc = "find" /\ page = None
    /\ page' = Rendered(payload) /\ pc' = "rows"
    /\ UNCHANGED <<company, body, note, description, payload, todo, rows, current, seen,
                   skipped, failed, exit, faults, writes, history>>

ListPage ==
    /\ pc = "find" /\ page # None
    /\ todo' = page /\ pc' = "page"
    /\ UNCHANGED <<company, shown, payload, rows, current, seen, skipped, failed, exit,
                   faults, writes, history>>

DeletePageBlock ==
    /\ pc = "page" /\ todo # <<>>
    /\ page' = Without(page, Head(todo)) /\ todo' = Tail(todo)
    /\ UNCHANGED <<company, body, note, description, pc, payload, rows, current, seen,
                   skipped, failed, exit, faults, writes, history>>

WritePage ==
    /\ pc = "page" /\ todo = <<>>
    /\ page' = page \o Rendered(payload) /\ pc' = "rows"
    /\ UNCHANGED <<company, body, note, description, payload, todo, rows, current, seen,
                   skipped, failed, exit, faults, writes, history>>

\* A call for the page fails, before or after it had its effect, or the listing
\* is cut off: the run ends there.
PageFails ==
    /\ pc \in {"find", "page"} /\ Fault
    /\ \/ page = None /\ page' = Rendered(payload)
       \/ pc = "page" /\ todo # <<>> /\ page' = Without(page, Head(todo))
       \/ pc = "page" /\ todo = <<>> /\ page' = page \o Rendered(payload)
       \/ page' = page
    /\ End(1)
    /\ UNCHANGED <<company, body, note, description, payload, seen, skipped, failed, writes, history>>

\* The rows of the projects in the model, in whatever order Notion lists them.
ListRows ==
    /\ pc = "rows"
    /\ rows' = Sourced[payload] /\ pc' = "row"
    /\ UNCHANGED <<company, shown, payload, todo, current, seen, skipped, failed, exit,
                   faults, writes, history>>

SkipRow(r) ==
    /\ pc = "row" /\ r \in rows /\ ~Ours(body[r])
    /\ rows' = rows \ {r} /\ skipped' = skipped \cup {r}
    /\ UNCHANGED <<company, shown, pc, payload, todo, current, seen, failed, exit, faults,
                   writes, history>>

OpenRow(r) ==
    /\ pc = "row" /\ r \in rows /\ Ours(body[r])
    /\ current' = r /\ todo' = body[r] /\ pc' = "body"
    /\ UNCHANGED <<company, shown, payload, rows, seen, skipped, failed, exit, faults,
                   writes, history>>

Deleted(r) == [body EXCEPT ![r] = Without(@, Head(todo))]
Written(r) == [body EXCEPT ![r] = @ \o Rendered(payload)]

DeleteRowBlock ==
    /\ pc = "body" /\ todo # <<>>
    /\ body' = Deleted(current) /\ todo' = Tail(todo)
    /\ UNCHANGED <<company, page, note, description, pc, payload, rows, current, seen,
                   skipped, failed, exit, faults, writes, history>>

WriteRow ==
    /\ pc = "body" /\ todo = <<>>
    /\ body' = Written(current)
    /\ rows' = rows \ {current} /\ current' = None /\ pc' = "row"
    /\ UNCHANGED <<company, page, note, description, payload, todo, seen, skipped, failed, exit,
                   faults, writes, history>>

RowsDone ==
    /\ pc = "row" /\ rows = {}
    /\ pc' = "notes"
    /\ UNCHANGED <<company, shown, payload, todo, rows, current, seen, skipped, failed, exit,
                   faults, writes, history>>

\* A body that keeps blocks of the tool without its first one.
Tears == torn' = torn \cup {r \in Row : body'[r] # <<>> /\ ~Ours(body'[r]) /\ r = current}

RowCallFails ==
    /\ pc \in {"rows", "row", "body"} /\ Fault
    /\ \/ pc = "body" /\ todo # <<>> /\ body' = Deleted(current)
       \/ pc = "body" /\ todo = <<>> /\ body' = Written(current)
       \/ body' = body
    /\ Tears

\* Fault: what went wrong with the rows is printed and forgotten.
RowsFailQuietly ==
    /\ RowCallFails
    /\ pc' = "notes" /\ todo' = <<>> /\ rows' = {} /\ current' = None
    /\ UNCHANGED <<company, page, note, description, payload, seen, skipped, failed, exit, writes,
                   warned, late>>

\* A call for the rows fails: the rows after it are not visited, the run goes on.
RowsFail ==
    /\ RowCallFails
    /\ failed' = failed \cup {"rows"}
    /\ pc' = "notes" /\ todo' = <<>> /\ rows' = {} /\ current' = None
    /\ UNCHANGED <<company, page, note, description, payload, seen, skipped, exit, writes,
                   warned, late>>

ListNotes ==
    /\ pc = "notes"
    /\ seen' = note /\ rows' = Sourced[payload] /\ late' = {} /\ pc' = "note"
    /\ UNCHANGED <<company, shown, payload, todo, current, skipped, failed, exit, faults,
                   writes, warned, torn>>

\* Fault: the Notes column is the tool's.
NoteAlways(r) ==
    /\ pc = "note" /\ r \in rows
    /\ note' = [note EXCEPT ![r] = payload]
    /\ rows' = rows \ {r}
    /\ UNCHANGED <<company, page, body, description, pc, payload, todo, current, seen, skipped,
                   failed, exit, faults, writes, history>>

\* A note is written unless somebody's own was listed.
SetNote(r) ==
    /\ pc = "note" /\ r \in rows
    /\ note' = IF seen[r] = Person THEN note ELSE [note EXCEPT ![r] = payload]
    /\ rows' = rows \ {r}
    /\ UNCHANGED <<company, page, body, description, pc, payload, todo, current, seen, skipped,
                   failed, exit, faults, writes, history>>

NotesDone ==
    /\ pc = "note" /\ rows = {}
    /\ pc' = "describe"
    /\ UNCHANGED <<company, shown, payload, todo, rows, current, seen, skipped, failed, exit,
                   faults, writes, history>>

NoteCallFails ==
    /\ pc \in {"notes", "note"} /\ Fault
    /\ \/ \E r \in rows : seen[r] # Person /\ note' = [note EXCEPT ![r] = payload]
       \/ note' = note

NotesFail ==
    /\ NoteCallFails
    /\ failed' = failed \cup {"notes"}
    /\ rows' = {} /\ pc' = "describe"
    /\ UNCHANGED <<company, page, body, description, payload, todo, current, seen, skipped, exit,
                   writes, history>>

\* 0, or DEGRADED_EXIT when something besides the page was not written, or the
\* page was written without the address.
ExitOf(errors) == IF errors = {} THEN 0 ELSE 3

Describe ==
    /\ pc = "describe"
    /\ description' = payload
    /\ End(ExitOf(failed))
    /\ UNCHANGED <<company, page, body, note, payload, seen, skipped, failed, faults, writes, history>>

DescriptionCallFails ==
    /\ pc = "describe" /\ Fault
    /\ description' \in {description, payload}

DescribeFails ==
    /\ DescriptionCallFails
    /\ failed' = failed \cup {"description"}
    /\ End(ExitOf(failed'))
    /\ UNCHANGED <<company, page, body, note, payload, seen, skipped, writes, history>>

\* An exception that main does not expect, such as an answer that is cut off,
\* ends the program with a 1 wherever it is.
Raises ==
    /\ \/ RowCallFails /\ UNCHANGED <<note, description>>
       \/ NoteCallFails /\ UNCHANGED <<body, description, torn>>
       \/ DescriptionCallFails /\ UNCHANGED <<body, note, torn>>
    /\ End(1)
    /\ UNCHANGED <<company, page, payload, seen, skipped, failed, writes, warned, late>>

Crash ==
    /\ pc # "idle" /\ Fault
    /\ End(None)
    /\ body' = body /\ Tears
    /\ UNCHANGED <<company, page, note, description, payload, seen, skipped, failed, writes,
                   warned, late>>

-----------------------------------------------------------------------------
(* The company, and people in Notion *)

Work ==
    /\ company < MaxVersion
    /\ company' = company + 1
    /\ UNCHANGED <<shown, run, faults, writes, history>>

Writes == writes < MaxWrites /\ writes' = writes + 1

\* Somebody types into the page of a row, below or above what is there.
TypeText(r) ==
    /\ Writes /\ Typed \notin Range(body[r])
    /\ \/ /\ body' = [body EXCEPT ![r] = Append(@, Typed)]
          /\ warned' = IF body[r] # <<>> /\ Ours(body[r]) THEN warned \cup {r}
                       ELSE warned \ {r}
       \/ /\ body[r] # <<>>
          /\ body' = [body EXCEPT ![r] = <<Typed>> \o @]
          /\ warned' = warned \ {r}
    /\ UNCHANGED <<company, page, note, description, run, faults, late, torn>>

\* Somebody clears the page of a row, which makes room for the tool again.
EmptyRow(r) ==
    /\ pc = "idle" /\ Writes /\ body[r] # <<>>
    /\ body' = [body EXCEPT ![r] = <<>>]
    /\ torn' = torn \ {r}
    /\ UNCHANGED <<company, page, note, description, run, faults, warned, late>>

TypeNote(r) ==
    /\ Writes /\ note[r] # Person
    /\ note' = [note EXCEPT ![r] = Person]
    /\ late' = late \cup {r}
    /\ UNCHANGED <<company, page, body, description, run, faults, warned, torn>>

Step ==
    \/ Create \/ ListPage \/ DeletePageBlock \/ WritePage
    \/ ListRows \/ DeleteRowBlock \/ WriteRow \/ RowsDone
    \/ \E r \in Row : SkipRow(r) \/ OpenRow(r) \/ SetNote(r)
    \/ ListNotes \/ NotesDone \/ Describe

Failure == BeginFails \/ PageFails \/ RowsFail \/ NotesFail \/ DescribeFails \/ Raises \/ Crash

People == \E r \in Row : TypeText(r) \/ EmptyRow(r) \/ TypeNote(r)

Next == Begin \/ Step \/ Failure \/ Work \/ People

Spec == Init /\ [][Next]_vars

\* Somebody runs it again, and a run that nothing stops goes on.
FairSpec == Spec /\ WF_vars(Begin) /\ WF_vars(Step)

-----------------------------------------------------------------------------
\* What somebody typed into a row's page is never on the list of blocks that
\* are taken away, but where it was typed below the line that says so: not after
\* a torn or failed rewrite, and not when it came while the body was replaced
\* (ROW_PAGE_MARKER, "it rewrites a body only when the body is empty or begins
\* with this exact sentence").
PeopleKeepTheirText ==
    [](pc = "body" /\ Typed \in Range(todo) => current \in warned)

\* A person's note is overwritten only in the time between the listing of the
\* Notes column and the visit of its row (publish_project_notes reads them all
\* before it writes the first).
PeopleKeepTheirNotes ==
    [][\A r \in Row : note[r] = Person /\ note'[r] # Person => r \in late]_vars

\* A row is reported as left to a person only if somebody typed in it, or an
\* earlier run lost its connection after it deleted the first block: such a
\* body is the tool's own, and no run touches it again until somebody clears it.
LeftAloneHasAReason ==
    pc \in {"row", "body"} =>
        \A r \in skipped : Typed \in Range(body[r]) \/ r \in torn

\* The exit code tells what is in Notion ("the exit code, from what actually got
\* written").  After 0 and 3 the page shows the one look that was published, and
\* so does every surface that the run did not name as failed, but for what is a
\* person's or torn; 0 names none.  A 1 tells nothing: the program may have ended
\* anywhere.
ExitTellsWhatIsShown ==
    [][pc # "idle" /\ pc' = "idle" /\ exit' \in {0, 3} =>
        /\ page' = Rendered(payload)
        /\ "description" \notin failed' => description' = payload
        /\ "rows" \notin failed' => \A r \in Sourced[payload] \ skipped : Shows(r, payload)'
        /\ "notes" \notin failed' => \A r \in Sourced[payload] : note'[r] \in {payload, Person}
        /\ exit' = 0 <=> failed' = {}]_vars

\* Whatever fails on the way, the page is whole again in the end and shows the
\* company as it was or later, and so do the rows, notes and description that
\* are not a person's or torn.
NotionCatchesUp ==
    \A v \in Version :
        company = v ~>
            \E w \in v .. MaxVersion :
                /\ page = Rendered(w) /\ description = w
                /\ \A r \in Sourced[v] :
                      /\ \/ Shows(r, w) \/ r \in torn
                         \/ Typed \in Range(body[r])
                      /\ note[r] \in {w, Person}

\* Nobody loses what was typed into Notion in a place of one's own.
PeopleKeepTheirWords == PeopleKeepTheirText /\ PeopleKeepTheirNotes
=============================================================================
