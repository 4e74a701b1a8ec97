------------------------------- MODULE Runner -------------------------------
(***************************************************************************)
(* A Company Ops run seen from outside (run_company_ops.py,                *)
(* src/app/runner.py, src/runsummary.py, src/notion/dashboard.py and       *)
(* dashboard_pending.py): the order of its nine steps, which failures stop *)
(* it, and the four places that tell how it went: the exit code that Task  *)
(* Scheduler keeps, the Run Manifest last_run.json, the row of OPS_RUNS    *)
(* with the file of rows that are still to be sent, and the LAST RUN block *)
(* of ops_status.py.                                                       *)
(*                                                                         *)
(* What a step does to Events, files and repositories is the business of   *)
(* Ingest, CompanyHistory, NotionSync and Backup; here it has an outcome.  *)
(* Runs start at any time, in any number up to MaxAlive, and share the     *)
(* lock, the manifest and the pending file.  The lock is taken and         *)
(* released in one step each (RunLock has its steps); the manifest is      *)
(* written after it was released, so another run may be in between.  A run *)
(* may die at any point; what it had in memory is then gone.               *)
(*                                                                         *)
(* A run id is used again once nothing refers to it; its row in OPS_RUNS   *)
(* is archived by then.                                                    *)
(***************************************************************************)
EXTENDS Naturals, Sequences, FiniteSets

CONSTANTS
    Configurations, \* what the environment may ask for, see `configured'
    MayFail,    \* bound: steps that may fail, of those before the Dashboard
    LastRun,    \* bound: run ids are 1 .. LastRun
    MaxAlive,   \* bound: processes at one time
    Faults      \* bound: things that go wrong

Run == 1 .. LastRun
NoRun == 0
DeadRun == LastRun + 1   \* the lock names a process that is gone

ASSUME ConfigurationsAssumption ==
    Configurations \subseteq {"nothing", "sync", "sync and dashboard"}
ASSUME BoundsAssumption == LastRun \in Nat /\ MaxAlive \in Nat /\ Faults \in Nat

VARIABLES
    configured, \* the Notion clients the environment asks for
    proc,       \* the processes: what each run has in memory
    holder,     \* the run that company_ops.lock names
    manifest,   \* last_run.json
    pending,    \* runs with a row in dashboard_pending.json
    legible,    \* whether that file can be read
    overall,    \* the column Overall of the row that a run built
    rows,       \* runs with a row in OPS_RUNS
    faults      \* how much went wrong so far

disk == <<holder, manifest, pending, legible>>
notion == <<overall, rows>>
vars == <<configured, proc, disk, notion, faults>>

\* PIPELINE_COMPONENTS, in the order the run reaches them.
Pipeline == <<"transport", "collector", "notion_sync", "history_filter", "daily",
              "late_update", "monthly", "backup", "dashboard">>
Component == { Pipeline[i] : i \in DOMAIN Pipeline }
NoComponent == "none"

ASSUME MayFailAssumption == MayFail \subseteq Component

\* _SEVERITY: what records or protects Company History is CRITICAL.
Severity == [c \in Component |->
                IF c \in {"transport", "collector", "history_filter", "daily", "backup"}
                THEN "CRITICAL" ELSE "DEGRADED"]

\* ComponentResult: only a failure has a severity and a retryability.
Result == [status: {"NONE", "SUCCESS", "SKIPPED", "FAILED"},
           severity: {"-", "CRITICAL", "DEGRADED"},
           retry: {"-", "RETRYABLE", "PERMANENT", "UNKNOWN"}]
Plain(status) == [status |-> status, severity |-> "-", retry |-> "-"]
Failure(severity, retry) == [status |-> "FAILED", severity |-> severity, retry |-> retry]
Nothing == [c \in Component |-> Plain("NONE")]

Failed(res) == { c \in Component : res[c].status = "FAILED" }
Recorded(res) == { c \in Component : res[c].status # "NONE" }

\* overall_status: the verdict over the components of a run.
Verdict(res) ==
    IF \E c \in Failed(res) : res[c].severity = "CRITICAL" THEN "FAILED"
    ELSE IF Failed(res) # {} THEN "DEGRADED" ELSE "SUCCESS"

\* _EXIT_CODES; 1 is a configuration error.
ExitCode == [SUCCESS |-> 0, FAILED |-> 2, DEGRADED |-> 3]
NoExit == 9

\* last_run.json as a reader finds it: missing, unreadable, or of one run.
NoManifest == [run |-> NoRun, results |-> Nothing]
Unreadable == [run |-> LastRun + 1, results |-> Nothing]
Readable == manifest.run \in Run

Phase == {"off", "lock", "drained", "record", "queue", "release", "write",
          "report", "exited"} \cup Component

\* The memory of a process.
Process == [pc: Phase,
            before: Run \cup {NoRun},                  \* manifest_before of main
            current: Component \cup {NoComponent},     \* _Recorder.current
            results: [Component -> Result],            \* _Recorder.components
            raised: BOOLEAN,                           \* an exception leaves run_once
            exit: {0, 2, 3, NoExit},                   \* what main returned
            drained: SUBSET Run]                       \* rows sent and still listed
NoProcess == [pc |-> "off", before |-> NoRun, current |-> NoComponent,
              results |-> Nothing, raised |-> FALSE, exit |-> NoExit,
              drained |-> {}]

At(r, phase) == proc[r].pc = phase
Alive == { r \in Run : ~At(r, "off") }

-----------------------------------------------------------------------------
Init ==
    /\ configured \in Configurations
    /\ proc = [r \in Run |-> NoProcess]
    /\ holder = NoRun
    /\ manifest = NoManifest
    /\ pending = {}
    /\ legible = TRUE
    /\ overall = [r \in Run |-> "-"]
    /\ rows = {}
    /\ faults = 0


\* Run ids that nothing refers to; the lowest one is next.
Referenced == Alive \cup pending \cup ({manifest.run} \cap Run)
Fresh == { r \in Run \ Referenced : \A q \in Alive : proc[q].before # r }
IsNext(r) == r \in Fresh /\ \A q \in Fresh : r <= q

\* The row of a run that nothing refers to any more is put away.
Archive ==
    /\ rows' = rows \cap Referenced'
    /\ overall' = [r \in Run |-> IF r \in Referenced' THEN overall[r] ELSE "-"]

\* Something goes wrong, or nothing does.
GoesWrong == faults < Faults /\ faults' = faults + 1
GoesWell == UNCHANGED faults

\* Where the run goes after step c.
After(c) == LET i == CHOOSE i \in DOMAIN Pipeline : Pipeline[i] = c
            IN  IF i = Len(Pipeline) THEN "release" ELSE Pipeline[i + 1]

Goto(r, phase) == proc' = [proc EXCEPT ![r].pc = phase]

\* Task Scheduler or a person starts the program, which notes the manifest
\* that is there (_manifest_run_id) and calls run_once.  When the arguments, the
\* runtime root or HISTORY_START_DATE are wrong it returns 1 before that.
Start ==
    /\ Cardinality(Alive) < MaxAlive
    /\ \E r \in Run : IsNext(r) /\
          proc' = [proc EXCEPT ![r].pc = "lock",
                               ![r].before = IF Readable THEN manifest.run ELSE NoRun]
    /\ GoesWell
    /\ UNCHANGED <<configured, disk, notion>>

-----------------------------------------------------------------------------
\* try_acquire_lock; the lock of a process that is gone is taken over.
Locked == holder \in Alive

Acquire(r) ==
    /\ At(r, "lock") /\ ~Locked
    /\ holder' = r
    /\ proc' = [proc EXCEPT ![r].pc = Pipeline[1], ![r].current = Pipeline[1]]
    /\ GoesWell
    /\ UNCHANGED <<configured, manifest, pending, legible, notion>>

\* Another run has the lock, or the lock file cannot be made: run_once returns
\* None, which is printed as [SKIPPED] and is no failure (exit code 0).
Skip(r) ==
    /\ At(r, "lock")
    /\ IF Locked THEN GoesWell ELSE GoesWrong
    /\ proc' = [proc EXCEPT ![r] = NoProcess]
    /\ UNCHANGED <<configured, disk, notion>>

\* The directory of the lock cannot be made: run_once raises before the try
\* whose finally writes the manifest.
FailsEarly(r) ==
    /\ At(r, "lock")
    /\ GoesWrong
    /\ proc' = [proc EXCEPT ![r].pc = "report", ![r].raised = TRUE]
    /\ UNCHANGED <<configured, disk, notion>>

-----------------------------------------------------------------------------
\* The recorder takes down the outcome of step c, and the next step begins.
Conclude(r, c, result) ==
    proc' = [proc EXCEPT ![r].results[c] = result,
                         ![r].pc = After(c),
                         ![r].current = IF After(c) \in Component THEN After(c) ELSE NoComponent,
                         ![r].drained = {}]

\* The eight steps before the Dashboard.
InPipeline(r) == proc[r].pc \in Component \ {"dashboard"}
Optional(c) == c = "notion_sync" /\ configured = "nothing"

Succeed(r) ==
    /\ InPipeline(r)
    /\ Conclude(r, proc[r].pc, Plain(IF Optional(proc[r].pc) THEN "SKIPPED" ELSE "SUCCESS"))
    /\ GoesWell
    /\ UNCHANGED <<configured, disk, notion>>

\* What a step may record as failed without an exception: Events that Notion
\* did not take, a date that the Daily Close could not write, a late Event
\* that could not be merged, a month that could not be rebuilt, a push that
\* failed or a Backup that a gate stopped.
GoesOnWith(c) ==
    CASE c = "notion_sync" -> {Failure("DEGRADED", retry) :
                                  retry \in {"RETRYABLE", "PERMANENT", "UNKNOWN"}}
      [] c = "daily"       -> {Failure("CRITICAL", "RETRYABLE")}
      [] c = "late_update" -> {Failure("DEGRADED", "PERMANENT")}
      [] c = "monthly"     -> {Failure("DEGRADED", "RETRYABLE")}
      [] c = "backup"      -> {Failure("DEGRADED", "RETRYABLE"), Failure("CRITICAL", "PERMANENT")}
      [] OTHER             -> {}

Fail(r) ==
    /\ InPipeline(r) /\ ~Optional(proc[r].pc)
    /\ proc[r].pc \in MayFail
    /\ GoesWrong
    /\ \E failure \in GoesOnWith(proc[r].pc) : Conclude(r, proc[r].pc, failure)
    /\ UNCHANGED <<configured, disk, notion>>

\* A git operation of the Backup fails: taken down, and raised again.
BackupRaises(r) ==
    /\ At(r, "backup")
    /\ GoesWrong
    /\ \E failure \in GoesOnWith("backup") :
          proc' = [proc EXCEPT ![r].results["backup"] = failure,
                               ![r].current = NoComponent,
                               ![r].raised = TRUE,
                               ![r].pc = "release"]
    /\ UNCHANGED <<configured, disk, notion>>

\* Fault: a late Event that cannot be merged ends the run.
CatchesNothing == {}

\* Any other exception.  Late Update and Monthly catch everything; Notion Sync
\* catches what an Event does, but not a retry queue that cannot be read or
\* written.
CatchesAll == {"late_update", "monthly"}

Abort(r) ==
    /\ InPipeline(r) /\ proc[r].pc \notin CatchesAll /\ ~Optional(proc[r].pc)
    /\ proc[r].pc \in MayFail
    /\ GoesWrong
    /\ proc' = [proc EXCEPT ![r].raised = TRUE, ![r].pc = "release"]
    /\ UNCHANGED <<configured, disk, notion>>

-----------------------------------------------------------------------------
\* The Dashboard step.  Without a client it is skipped.
SkipDashboard(r) ==
    /\ At(r, "dashboard") /\ configured # "sync and dashboard"
    /\ Conclude(r, "dashboard", Plain("SKIPPED"))
    /\ GoesWell
    /\ UNCHANGED <<configured, disk, notion>>

\* An exception that nobody expected.
DashboardBreaks(r) ==
    /\ proc[r].pc \in {"dashboard", "drained", "record"}
    /\ configured = "sync and dashboard"
    /\ GoesWrong
    /\ Conclude(r, "dashboard", Failure("DEGRADED", "UNKNOWN"))
    /\ UNCHANGED <<configured, disk, notion>>

\* drain_pending: one request per waiting row, and a row that is refused is
\* kept.  `sent' took effect, the answer to `lost' did not come.
Drain(r) ==
    /\ At(r, "dashboard") /\ configured = "sync and dashboard"
    /\ legible /\ pending # {}
    /\ \E sent \in SUBSET pending : \E lost \in SUBSET sent :
          /\ IF sent \ lost # pending THEN GoesWrong ELSE GoesWell
          /\ rows' = rows \cup sent
          /\ proc' = [proc EXCEPT ![r].drained = sent \ lost, ![r].pc = "drained"]
    /\ UNCHANGED <<configured, disk, overall>>

\* No row waits, or their file cannot be read and is left alone.
NothingToDrain(r) ==
    /\ At(r, "dashboard") /\ configured = "sync and dashboard"
    /\ ~legible \/ pending = {}
    /\ Goto(r, "record")
    /\ GoesWell
    /\ UNCHANGED <<configured, disk, notion>>

\* Fault: the file is emptied, although some rows were refused.
SaveDrainedEmpty(r) ==
    /\ At(r, "drained")
    /\ GoesWell /\ pending' = {}
    /\ proc' = [proc EXCEPT ![r].drained = {}, ![r].pc = "record"]
    /\ UNCHANGED <<configured, holder, manifest, legible, notion>>

\* save_all of what is left; an OSError is swallowed.
SaveDrained(r) ==
    /\ At(r, "drained")
    /\ \/ GoesWell /\ pending' = pending \ proc[r].drained
       \/ GoesWrong /\ UNCHANGED pending
    /\ proc' = [proc EXCEPT ![r].drained = {}, ![r].pc = "record"]
    /\ UNCHANGED <<configured, holder, manifest, legible>>
    /\ Archive

\* _overall_status.  `flawed': some file was rejected, failed or held back.
Overall(res, flawed) ==
    IF \/ \E c \in Failed(res) : res[c].severity = "CRITICAL"
       \/ "daily" \in Failed(res)
       \/ "backup" \in Failed(res) /\ res["backup"].retry = "PERMANENT"
    THEN "FAIL"
    ELSE IF flawed \/ Failed(res) # {} THEN "WARN" ELSE "OK"

\* record_run builds the row and sends it; find_or_create_by_title makes one
\* row of a run id, however often it is sent.
Build(r, flawed) == overall' = [overall EXCEPT ![r] = Overall(proc[r].results, flawed)]

Record(r) ==
    /\ At(r, "record")
    /\ \E flawed \in BOOLEAN :
          /\ IF flawed THEN GoesWrong ELSE GoesWell
          /\ Build(r, flawed)
    /\ rows' = rows \cup {r}
    /\ Conclude(r, "dashboard", Plain("SUCCESS"))
    /\ UNCHANGED <<configured, disk>>

\* The row cannot be built.  There is nothing to send, now or later, although
\* the step is taken down as one that will be tried again.
BuildFails(r) ==
    /\ At(r, "record")
    /\ GoesWrong
    /\ Conclude(r, "dashboard", Failure("DEGRADED", "RETRYABLE"))
    /\ UNCHANGED <<configured, disk, notion>>

\* The request fails; the row may be there all the same.
RecordFails(r) ==
    /\ At(r, "record")
    /\ GoesWrong
    /\ \E flawed \in BOOLEAN : Build(r, flawed)
    /\ rows' \in {rows, rows \cup {r}}
    /\ Goto(r, "queue")
    /\ UNCHANGED <<configured, disk>>

\* save_pending, which reads the file before it replaces it.
Queue(r) ==
    /\ At(r, "queue") /\ legible
    /\ pending' = pending \cup {r}
    /\ Conclude(r, "dashboard", Failure("DEGRADED", "RETRYABLE"))
    /\ GoesWell
    /\ UNCHANGED <<configured, holder, manifest, legible, notion>>

\* Fault: the step says that it will be tried again whether it was queued or not.
QueueFailsUnsaid(r) ==
    /\ At(r, "queue")
    /\ IF legible THEN GoesWrong ELSE GoesWell
    /\ Conclude(r, "dashboard", Failure("DEGRADED", "RETRYABLE"))
    /\ UNCHANGED <<configured, disk, notion>>

QueueFails(r) ==
    /\ At(r, "queue")
    /\ IF legible THEN GoesWrong ELSE GoesWell
    /\ Conclude(r, "dashboard", Failure("DEGRADED", "UNKNOWN"))
    /\ UNCHANGED <<configured, disk, notion>>

-----------------------------------------------------------------------------
\* The finally of run_once: the lock first (release_lock leaves a lock alone
\* that is not the run's own), then the manifest.
Release(r) ==
    /\ At(r, "release")
    /\ holder' = IF holder = r THEN NoRun ELSE holder
    /\ Goto(r, "write")
    /\ GoesWell
    /\ UNCHANGED <<configured, manifest, pending, legible, notion>>

\* The step in flight is the one that was aborted.
Attributed(r) ==
    LET c == proc[r].current
    IN  IF proc[r].raised /\ c # NoComponent
        THEN [proc[r].results EXCEPT ![c] = Failure(Severity[c], "UNKNOWN")]
        ELSE proc[r].results

\* write_summary; an OSError is swallowed.
Write(r) ==
    /\ At(r, "write")
    /\ manifest' = [run |-> r, results |-> Attributed(r)]
    /\ proc' = [proc EXCEPT ![r].results = Attributed(r), ![r].pc = "report"]
    /\ GoesWell
    /\ UNCHANGED <<configured, holder, pending, legible>>
    /\ Archive

WriteFails(r) ==
    /\ At(r, "write")
    /\ GoesWrong
    /\ proc' = [proc EXCEPT ![r].results = Attributed(r), ![r].pc = "report"]
    /\ UNCHANGED <<configured, disk, notion>>

\* Fault: whatever manifest is there is this run's.
FromManifestOfAny(r) == IF ~Readable THEN 2 ELSE ExitCode[Verdict(manifest.results)]

\* _exit_code_from_manifest: for a run that raised, the manifest says it,
\* unless it is still the one from before.
FromManifest(r) ==
    IF ~Readable \/ manifest.run = proc[r].before THEN 2
    ELSE ExitCode[Verdict(manifest.results)]

\* _print_result, or the report of an exception.
Report(r) ==
    /\ At(r, "report")
    /\ proc' = [proc EXCEPT ![r].pc = "exited",
                            ![r].exit = IF proc[r].raised THEN FromManifest(r)
                                        ELSE ExitCode[Verdict(proc[r].results)]]
    /\ GoesWell
    /\ UNCHANGED <<configured, disk, notion>>

\* The process is gone, and with it what only it knew.
Leave(r) ==
    /\ At(r, "exited")
    /\ proc' = [proc EXCEPT ![r] = NoProcess]
    /\ GoesWell
    /\ UNCHANGED <<configured, disk>>
    /\ Archive

\* The machine is turned off, the task is ended.
Die(r) ==
    /\ r \in Alive
    /\ proc' = [proc EXCEPT ![r] = NoProcess]
    /\ holder' = IF holder = r THEN DeadRun ELSE holder
    /\ GoesWrong
    /\ UNCHANGED <<configured, manifest, pending, legible>>
    /\ Archive

-----------------------------------------------------------------------------
\* A file is damaged by a restore or an edit; a person repairs the one that
\* nothing replaces.
DamageManifest ==
    /\ Readable /\ GoesWrong
    /\ manifest' = Unreadable
    /\ UNCHANGED <<configured, proc, holder, pending, legible>>
    /\ Archive

DamagePending ==
    /\ legible /\ GoesWrong
    /\ legible' = FALSE
    /\ UNCHANGED <<configured, proc, holder, manifest, pending, notion>>

RepairPending ==
    /\ ~legible /\ GoesWell
    /\ legible' = TRUE
    /\ UNCHANGED <<configured, proc, holder, manifest, pending, notion>>

Work(r) ==
    \/ Acquire(r) \/ Skip(r) \/ Succeed(r)
    \/ SkipDashboard(r) \/ Drain(r) \/ NothingToDrain(r) \/ SaveDrained(r)
    \/ Record(r) \/ Queue(r) \/ QueueFails(r)
    \/ Release(r) \/ Write(r) \/ Report(r) \/ Leave(r)

Trouble(r) ==
    \/ FailsEarly(r) \/ Fail(r) \/ BackupRaises(r) \/ Abort(r) \/ DashboardBreaks(r)
    \/ BuildFails(r) \/ RecordFails(r) \/ WriteFails(r) \/ Die(r)

Next ==
    \/ Start
    \/ \E r \in Run : Work(r) \/ Trouble(r)
    \/ DamageManifest \/ DamagePending \/ RepairPending

Spec == Init /\ [][Next]_vars

\* What a run does when nothing goes wrong.
GoesOn(r) == Work(r) /\ GoesWell

\* The task is triggered for ever, the run that has the lock goes on, and so
\* does some run whenever there is one; a damaged file is repaired in the end.
\* That not everything goes wrong for ever is the bound Faults.
FairSpec ==
    /\ Spec
    /\ WF_vars(Start)
    /\ WF_vars(\E r \in Run : GoesOn(r))
    /\ WF_vars(holder \in Run /\ GoesOn(holder))
    /\ WF_vars(RepairPending)

-----------------------------------------------------------------------------
(* Properties *)

\* Two answers to "how bad was this run" is one too many (run_company_ops.py
\* 526): a run returns the verdict over its own steps, or 2 when it cannot
\* tell, and 0 never covers a failure.  The exception is a run that raised and
\* found neither its own manifest nor the one from before it: another run
\* wrote in between, and it returns that one's.
ExitTellsTheRun ==
    \A r \in Run : At(r, "exited") =>
        LET others == proc[r].raised /\ manifest.run \notin {r, proc[r].before}
        IN  ~others => /\ proc[r].exit \in {ExitCode[Verdict(proc[r].results)], 2}
                       /\ proc[r].exit = 0 => ~proc[r].raised /\ Failed(proc[r].results) = {}

\* Every manifest accounts for the whole run: the steps it lists are the first
\* ones of the pipeline, and when some are missing the last one listed failed.
ManifestAccountsForAll ==
    LET listed == { i \in DOMAIN Pipeline : manifest.results[Pipeline[i]].status # "NONE" }
    IN  Readable =>
            /\ \A i \in listed : 1 .. i \subseteq listed
            /\ listed # DOMAIN Pipeline =>
                  \E i \in listed : i + 1 \notin listed /\ Pipeline[i] \in Failed(manifest.results)

\* A mirror that is down stops neither History nor Backup (README RULE 5): a
\* run leaves out the Daily Close or the Backup only over a step that guards
\* History, or over a retry queue that cannot be read or written.
MirrorsStopNothing ==
    Readable => \A c \in {"daily", "backup"} :
        manifest.results[c].status = "NONE" =>
            \E d \in Failed(manifest.results) :
                \/ manifest.results[d].severity = "CRITICAL"
                \/ d = "notion_sync" /\ manifest.results[d].retry = "UNKNOWN"

\* The row of a run and its manifest never contradict each other
\* (notion/dashboard.py 937-944), whatever becomes of the row itself.
RowAgreesWithManifest ==
    LET verdict == Verdict([manifest.results EXCEPT !["dashboard"] = Plain("NONE")])
        row == overall[manifest.run]
    IN  Readable /\ row # "-" =>
            /\ row = "FAIL" <=> verdict = "FAILED"
            /\ row = "OK" => verdict = "SUCCESS"

\* A run whose manifest calls the Dashboard step a success has its row; one
\* whose row was built and is to be sent again has it there or in the pending
\* file, and the screen says of every other one that its Dashboard failed or was
\* not reached.
EveryRunHasItsRow ==
    LET dashboard == manifest.results["dashboard"]
        built == overall[manifest.run] # "-"
    IN  Readable =>
            /\ dashboard.status = "SUCCESS" => manifest.run \in rows
            /\ dashboard.retry = "RETRYABLE" /\ built => manifest.run \in rows \cup pending

\* Fault: only steps that failed ask for a person.
AttentionOfFailures ==
    IF ~Readable THEN {}
    ELSE { c \in Failed(manifest.results) : manifest.results[c].retry = "PERMANENT" } \cup
         (IF Verdict(manifest.results) = "FAILED" THEN {"failed"} ELSE {})

\* The LAST RUN block: lines that ask for a person.
Attention ==
    IF manifest = NoManifest THEN {}
    ELSE IF ~Readable THEN {"unreadable"}
    ELSE LET res == manifest.results
             lines == (IF Recorded(res) # Component THEN {"never started"} ELSE {}) \cup
                      { c \in Failed(res) : res[c].retry = "PERMANENT" }
         IN  IF Verdict(res) = "FAILED" /\ lines = {} THEN {"failed"} ELSE lines

\* When the block asks for nobody, the last run closed its day, and its Backup
\* is done or will be tried again by the next run.
QuietScreenIsHonest ==
    Attention = {} /\ manifest # NoManifest =>
        /\ manifest.results["daily"].status = "SUCCESS"
        /\ \/ manifest.results["backup"].status = "SUCCESS"
           \/ manifest.results["backup"].retry = "RETRYABLE"

\* A row leaves the pending file, which is read before the requests and written
\* after them, only once it is in OPS_RUNS (drain_pending).
ForgottenOnceSent == [][\A r \in pending \ pending' : r \in rows]_vars

\* Every row that waits is sent in the end, however often Notion was away, and
\* is not forgotten before.
PendingRowsAreSent == ForgottenOnceSent /\ []<>(pending = {})

\* A step that the manifest lacks is explained by it.
MissingStepsAreExplained == ManifestAccountsForAll /\ MirrorsStopNothing

\* What OPS_RUNS has of a run and what the manifest says of it go together.
RowsAgreeWithManifest == RowAgreesWithManifest /\ EveryRunHasItsRow
=============================================================================
