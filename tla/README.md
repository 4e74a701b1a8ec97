# A TLA+ development of DOJOONPASS Company Ops

Company Ops turns the work of four Desktops into a company history.  Each
Desktop runs an *agent* once a day, which makes Events of the day's Signals
and drops them into a OneDrive folder.  Desktop 4 runs the *Runner*, which
collects the Events, mirrors them to Notion, keeps the ones that matter as
History Candidates, renders a Daily and a Monthly History of every finished
day and month, and backs the result up into a Git repository.  Two read-only
programs tell people how things stand: `ops_status.py` on the console and
`dashboard_server.py` in a browser; `publish_control_tower.py` puts the same
look at the company into Notion.

This directory holds TLA+ modules of the parts of that system that are hard to
test, TLC configurations that check them on small instances, and TLAPS proofs
of the main results for every value of the constants.  Paths below are
relative to the repository.

## 1. Inventory

Everything is a batch program over files: nothing stays resident and no thread
shares memory with another.  What makes it hard is that each program may die
between any two file operations, any of those may fail, several runs may be
triggered at once, files arrive late, twice or half written from a sync
client, and people edit, delete, review and push in between.  And most of the
code is there to *report*: about half of it compares directories, state files and
Events with each other and tells a person what was lost, what is late and what
needs hands.  A report that is quiet when something is lost, or that calls lost
what the next run will handle, is as wrong as the loss itself.

| Component | Code | State it keeps | Operations | Hard behaviour | What makes it correct |
|---|---|---|---|---|---|
| Run lock | `src/scheduler/lock.py` | one lock file per program | acquire, take over a stale lock, release | contenders interleave between file operations, crashes, reused pids, a probe of a pid that fails | one holder; a release removes only its own lock; a dead run's lock goes away |
| Agent | `src/agent/` | `signals/`, `outbox/`, `sent/`, `rejected/`, `agent_state.json` | drain leftovers, catch up date by date, stage, send, file, reject, advance | a crash between publishing, filing and advancing; Signals filed late; an outbox that cannot be listed; a name taken in the folder | the watermark never passes work that was not delivered; order; no resending; the AGENT page names what is not out |
| Reporter, Event schema | `src/reporter/`, `src/events/` | none | build and validate one Event | boundary values of a pure function | what one side writes the other accepts |
| Transport | `src/transport/` | the OneDrive folder, `incoming/` | send (atomic), intake | late, partial, duplicated files | every complete file reaches the Collector |
| Collector | `src/collector/` | `incoming/`, `processed/`, `rejected/`, `collector_state.json` | validate, mark as seen, move, roll back | mark and move are two operations, the seen set lives in memory and on disk | accepted once; an id is not burned without its Event |
| History Filter, Candidates, reconciliation | `src/history/` | `history_candidates/` | KEEP, REVIEW or DROP; save; report orphans | runs after the files were moved | what is wanted and lost is reported |
| Desktop activity | `src/app/desktop_activity.py` | none | classify every file that is not collected, count by Desktop | asked in the middle of a run; resends and conflict copies | a quiet COMPANY section means everything is recorded, and what it says of later runs holds |
| Review | `src/history/review.py`, `src/review_cli.py` | a text in each Candidate | write, change, clear | takes no lock; the Runner has listed the Candidates a moment before | what was written is shown, or said to be not shown |
| Daily Close, Late Update | `src/daily/`, `src/scheduler/scheduler.py`, `state.py` | `daily/`, the Daily pointer | generate pending dates; merge late Events | file and pointer are two operations, Events come in any order | no gap; a kept Event is in the file of its date |
| Monthly History | `src/monthly/` | `monthly/`, pointer and dirty months | consolidate, mark dirty, rebuild | as above, with flags; items are read back from Markdown | a document agrees with its Daily files or is marked |
| Consistency check, HISTORY page | `src/scheduler/consistency.py`, `ops_status.py` | none | compare Candidates, files and pointers | many lines, each from another pair of places | quiet means complete; what is called lost is lost; a file taken away is noticed |
| Backup | `src/backup/` | Working Copy, HEAD, remote, `backup_state.json` | sync, gates, commit, push, retry | partial listings and copies, pushes that half succeed, state and repository that disagree | no deletion unasked, success means pushed, a quiet page means pushed |
| Runner, run records | `src/app/runner.py`, `src/runsummary.py`, `run_company_ops.py` | `last_run.json` | nine steps in order, exit code, LAST RUN block | which failure aborts what; an abort that is written down as a success; a row that cannot be built; overlapping runs | exit code, manifest, row and block tell one story |
| Notion sync | `src/notion/sync.py`, `retry_queue.py` | Notion rows, `notion_retry_queue.json` | find, create, update; enqueue, drain | requests that fail after they succeeded, old Events retried after newer ones | the row shows the newest Event; what failed is retried |
| Notion dashboard | `src/notion/dashboard.py`, `dashboard_pending.py` | OPS_RUNS rows, `dashboard_pending.json` | drain, record, queue | a file read before the requests and written after them | a row is sent twice rather than not at all |
| Control Tower | `src/controltower/`, `dashboard_server.py` | none | fold Events into projects, teams, risks, open items, KPIs, cohorts; verdict | order of instants, one id in several files, windows of days, unreadable parts, two rules of what can be read | numbers agree with each other and are not called complete when they are of a part |
| Control Tower publishing | `src/controltower/notion_page.py`, `publish_control_tower.py` | page, row bodies, notes, description in Notion | empty, append, update | block by block, people type in the same places, calls that time out after their effect, exceptions out of any step | people's words are kept; the exit code tells what is shown |
| Set-up, scheduled task, logs, clock | `init_notion.py`, `src/schedtask.py`, `src/oplog.py`, `src/businessdate.py`, `src/cli.py` | append-only logs | people's commands | mostly pure | |

How they interact: the agent and the Runner share only the OneDrive folder
(messages are files).  Within the Runner the steps run in a fixed order and
hand results on in memory (`collector_summary`, `kept_dates`,
`late_updated_dates`), which is exactly what is lost when a run dies; what
lasts are directories and one small JSON state file per component, each
replaced atomically.  Every program that writes is bracketed by the run lock, so the
modules of its steps have one run at a time; `Runner` has several, since
the manifest is read before the lock is taken and written after it is given
back.  The reporting programs take no lock and look at any moment.

`PROJECT.json` lists under "hazards" what can go wrong in this code that a test
would hardly reach, each at its line and with the properties that would notice.

## 2. Modules

| Module | Models | Proofs |
|---|---|---|
| `RunLock` | `scheduler/lock.py`: contenders for one lock file | `RunLockProofs` |
| `Ingest` | `app/runner.py` from Transport to History Filter, `transport/intake.py`, `collector/`, `history/`: from the OneDrive folder to the Candidate | `IngestProofs` |
| `EventLedger` | abstract: what `Ingest` promises about one Event | `IngestProofs!ImplementsLedger` |
| `IngestStatus` | the COMPANY section and the Candidate check (`app/desktop_activity.py`, `history/reconciliation.py`), over `Ingest` | `IngestProofs` |
| `DesktopAgent` | `agent/`, `transport/onedrive.py`: from Signals to the OneDrive folder | `DesktopAgentProofs` |
| `AgentStatus` | the AGENT section (`agent/status.py`, `agent/delivery.py`), over `DesktopAgent` | `DesktopAgentProofs` |
| `CompanyHistory` | `app/runner.py` from History Filter to Monthly, `scheduler/`, `daily/`, `monthly/`: from Candidates to Daily and Monthly | `CompanyHistoryProofs` |
| `HistoryStatus` | people's review, the HISTORY page and `scheduler/consistency.py`, over `CompanyHistory` | `CompanyHistoryProofs` |
| `Backup` | `backup/`: one Backup at a time, and people | `BackupProofs` |
| `BackupStatus` | the HISTORY page on what was written since the last Backup, over `Backup` | `BackupProofs` |
| `NotionSync` | Notion step of `app/runner.py`, `notion/sync.py`, `retry_queue.py`, `properties.py`: from accepted Events to rows | `NotionSyncProofs` |
| `Runner` | `app/runner.py` as a whole, `run_company_ops.py`, `runsummary.py`, `notion/dashboard.py`, `dashboard_pending.py`, the LAST RUN block | `RunnerProofs` |
| `Rollup` | `controltower/rollup.py`, the Event rules of `events/schema.py`: files come, go and break; folds are functions of sets of files | `ControlTowerProofs` |
| `ControlTower` | `controltower/dashboard.py`, `kpi.py`, `cohort.py`, `attention.py`, `verdict.py`, `gather` of `dashboard_server.py`, the CONTROL TOWER block, over `Rollup` | `ControlTowerProofs` |
| `NotionPages` | what `controltower/notion_page.py` says, over `ControlTower` | `ControlTowerProofs` |
| `Publication` | how `publish_control_tower.py` and `notion_page.py` write it, call by call | `ControlTowerProofs` |
| `MC...` | instances of the above for TLC | |

Conventions.  An action is one operation of the code on the disk (or on state
in memory that a later step depends on) with the guard under which the code
reaches it; a crash may come between any two.  Variables marked
*observability* in their declaration are not state of the program: they record
what happened, for properties to talk about, and no guard reads them.
A page that only reads is no action: its lines are operators of the files, so a
property about a line holds at every moment somebody may look.
Definitions marked `Fault:` are broken variants of the definition that follows
them; no specification uses them.  They exist to show that a property notices
the bug they describe.

### RunLock

`try_acquire_lock` becomes the phases `create`, `observe`, `probe`, `recheck`,
`unlink`, `write`, `cleanup`, `confirm`, two passes of its loop included.  A lock
file is a record of its identity, its owner and whether its payload is written:
a lock that exists and is empty reads as None, and so does one that is not
there, and that is the heart of the matter.  `OpenUnlinkable`, `PidReuse` and `ProbeErrs`
select the platform, whether the system hands out old pids again, and whether the probe of a
pid may fail: `tasklist` that ends with an error makes `_is_process_running` answer False
(`lock.py:197`), as an unexpected `OSError` of `os.kill` does on POSIX, so a live holder can be
judged gone (`ProbeMisled`).  `misled` remembers the runs that were told so until they unlink or
end, `robbed` that one of them took a live run's lock.

*Bounds.*  A creation takes an identity nothing refers to; the creator refers
to no file, every other process to at most three, so 3·(processes − 1) + 1
identities never refuse one.  The run `lock` has two processes on Windows, where the
programs run, with a probe that may fail; POSIX (where an open file can be unlinked), reused pids and any number of
processes are left to the proofs, which hold for every value of the constants.
`lock_mutex` allows reused pids: they make no difference to what it shows.  Liveness
does not hold with them, as a run that happens to have the dead run's pid makes its
lock look alive for as long as it lasts.

*Fairness.*  Runs are triggered for ever; single steps are weakly fair, those
that another contender can disable (and a file that is just open elsewhere)
strongly.

### Ingest, EventLedger and IngestStatus

A file is a name; `EventIn` says which Event it holds, so a conflict copy is
a second file of one Event and a file that is no valid Event holds `Invalid`.
The actions follow `run_intake`, `collector/runtime.py run_once` and the History
Filter loop: mark as seen (in memory, then by an atomic save), move, roll the mark
back if the move fails, save the Candidate.  The set in memory and the one on disk
are two variables, because a save that fails leaves them different.

`EventLedger` is what a caller may rely on for each Event: unknown, announced,
consumed, recorded, and never backwards.  `Ingest` implements it (`KeepsLedger`,
checked and proved).  `IngestStatus` classifies the files of the four directories the
way the COMPANY section does; `QuietMeansRecorded` is what a reader takes from its
silence and `LinesStay` what its wording promises of later runs.

*Bounds.*  Two files of one Event and a third without one: enough for duplicates
within a run, across runs, and for one file's failure to meet another's save.  The
proofs cover any files and Events.

*Fairness.*  Steps a failure can replace are strongly fair (an operation that is
tried in every run does not fail in every run), and from some time on runs are not
cut off.  The code has no retry within a run: progress is the next run's,
so nothing less would do.

### DesktopAgent and AgentStatus

Dates are numbered from `agent_start_date`; a Signal stands for its file and the
Event made of it, since event ids are derived from date and file name.  The
actions are those of `run_once`: drain what an earlier run left, then for each
pending date load the Signals, stage each, drain the outbox and save the
watermark, stopping at the first date that is not clear.  The OneDrive client may hold
something else under the name of an Event (`foreign`): `send` then reports success, and if it
is valid JSON the intake moves it away (`TakeForeign`, `swallowed`), after which the name looks
like that of an Event that was consumed.  An outbox that cannot be listed reads as an empty
one (`pending()`, `outbox.py:141`), so a drain may be clear without having seen anything
(`StartBlind` at the beginning of a run, `DrainBlind` in it); `missed` remembers what it
overlooked until a later drain files it.

*Bounds.*  Two Signals on two dates, for order and for an outbox that keeps an earlier
date's Event; the name of one may be spoiled.  Unusable Signals and larger sets are left
to the proofs.

*Fairness.*  As for Ingest; Task Scheduler starts the agent every day.

### CompanyHistory and HistoryStatus

A set of Events stands for the contents of all Daily files (`inDaily`) and another
for all Monthly ones (`inMonthly`), for an Event belongs to the file of its date and
its date's month and nowhere else.  The actions are those of the Runner's steps:
Daily Close (file, then pointer), Late Update of this run's KEEP dates, marks of the
months of updated dates, catch-up of pending months (file, then state), rebuild of
dirty months (file, then flag).  `HistoryStatus` adds the text a person may write into a
Candidate at any moment and the listing a step of the Runner works from, and the lines of
the HISTORY page as operators of files and pointers, so that they can also be asked of
files somebody took away (`DeletionIsNoticed`).

The Monthly does not read Events: it parses the Daily files, and Markdown is no identity.  An
Event with an empty summary is valid (`schema.py:235`) and rendered as "- ", which the parser
drops (`Bare`, `parser.py:352`).  An Event with a line that opens a section (a project id with
"##", say) loses its own label and may take items around it out of the parser's sight
(`Breaking`).  `Render` therefore records two things of a batch: what the Daily file shows with
its label whole (`inDaily`) and what of it the parser will not find (`unparsed`: every bare item,
and any others of the batch if it has a breaking one); `Parsed` is the difference.  `Garbled`
are the Events this can happen to, from their words alone.

*Bounds.*  Four days in three months: two months can be over, one with two days, so
a document can be written, marked and rebuilt while the next is pending.  Four Events: a plain
one, one without a summary (the one that is reviewed), one whose words break its section, and
one of before history began.

*Fairness.*  As for Ingest.  People may write and need not.

### Backup and BackupStatus

Four places hold a version of every file: the Local Master, the Working Copy, HEAD
and the remote.  A version is a number, 0 for "not there", `Torn` for a copy that
was cut off.  A directory that cannot be listed counts as empty
(`_relative_files`), on both sides: the sync compares any subset `here` of the files of the
Local Master with any subset `there` of those of the Working Copy, and `listed` is what it
found.  So a new file can be left out of a run that ends green.  People lose files, restore them,
confirm a deletion, push by hand, remove the state.  `Gone` is the page's comparison of the two directories.
`BackupStatus` adds the two times the page compares (that of a file, and the last successful
Backup on record); `doubt` remembers the files that a recorded run did not find as they are.

*Bounds.*  Two files of one version for what can happen to files (a torn file counts
as modified, so the mass gate closes as well); one file of two versions for old
against new contents and for a file written in the middle of a run; two of two versions
and a threshold of one for the mass gate.  With two files a person could lose and restore one
in every run for ever, so liveness is asked of one.

*Fairness.*  Each git operation and each copy succeeds infinitely often if tried
infinitely often, in runs that listed the whole Local Master (`FoundAll`): a directory that
can never be listed is never backed up.

### NotionSync

One record per project stands for its row: the Event it shows (Last Event ID), from
which Status, Last Updated and Last Event Type follow; whether Last Updated can still be
compared; and the Blocker, the one column that some Events leave alone.  A sync is two
requests, `Find` and the write, and a person may edit the row between them.  A write has
three outcomes: `Write`, `AnswerLost` (it took effect, the answer did not arrive) and
`WriteFails`.  The queue exists twice, in the file and in the process, and is saved once
per run; `lost` collects what a run forgets that dies before, for nothing but the
queue is ever tried again.

Assumed of Notion: a request that timed out has taken effect by the next request or never
will, and a query finds what was created before.  A person replaces a date by one
without a time, or none; a full date typed in by hand would move the guard's boundary and
is not modelled.  Entries of the queue are readable (an unreadable one is skipped and kept
by the code; a file that cannot be read is in `Runner`).

*Bounds.*  Three Events of one project: two within a minute, of which the first sets the
Blocker and the second clears it, and a later one that leaves it alone.  Projects do not
interact but for the queue and the order of a run; any number of them is left to the
proofs.

*Fairness.*  The Runner is triggered for ever, with or without new Events; requests
that are tried again and again succeed again and again; from some time on runs
are not killed.

### Runner

A process is a record: its phase, the manifest it saw before it took the lock, the step
in flight, the results so far, whether an exception left `run_once`, its exit code.  A
step either succeeds, fails and lets the run go on (with the severity and the
retryability that its `except` clause writes down), or ends the run; which of these a step
can do is read off `app/runner.py`.  Taking and giving back the lock are single steps
here; the manifest is written after the lock was given back, and `main` reads it again
to find its exit code when something was raised.  A row that cannot be built (`BuildFails`) is taken
down as a failure that will be tried again, although there is nothing to save for later.  `pending` is the file of rows that are
still to be sent, read before the requests and written after them.

*Bounds.*  Three run ids and two processes at a time: two runs that overlap, and the one
that the manifest or the pending file speaks of.  Two things go wrong in all, enough for
a failure and the failure to report it.  Notion Sync, Daily Close and Late Update may fail
in every way they can, the Backup by a git operation, the Dashboard by a request or a file;
the other steps end a run in the same two ways as these.

*Fairness.*  The task is triggered for ever, the run that has the lock goes on, some
run goes on whenever there is one, and a damaged file is repaired in the end.  That not everything fails
for ever is the bound on failures.

### Rollup, ControlTower and NotionPages

Nothing is stored but the files of `processed/`; every look folds them anew.  The state is
therefore small (what each file name holds, the clock, the Daily files, whether a directory
and the git log can be read) and the code is in operators: the order of instants, one file
per id, the fold of a project (Blocker, At Risk, settled), of an open item, of teams and
Desktops, the panels with their limits, the KPIs, the cohorts, the coverage banner, the
severities, the verdict, the notes and bodies of project rows.  `gather` is two steps,
since the code reads the lines before it builds the panels.

The COMPANY block and the CONTROL TOWER read the same directory by two rules:
`rollup.py:1052` takes valid Events only, `desktop_activity.py:769` any JSON object with a source
and a timestamp.  A file of the second kind that is not of the first is one of `Loose`; to the
CONTROL TOWER it is broken, COMPANY counts it, and nothing on the page says so.  Git's answer is
three numbers (commits, files, authors), one for each of its KPIs; git is not asked about a window
that lacks an end when there is no evidence to take it from (`OpenEnded`).  The properties state what the
folds have to mean without folding: by the last Event that says something, by counting.

*Bounds.*  Three file names over fifteen Events and two files that are none (one with an Event's id,
one with neither an id nor an instant), one answer of git besides none, two projects, two Desktops and
roles, days of two instants, four windows (all, since a day, up to a day, one day), and a budget of
three out-of-the-ordinary things, so that three files, or two and a Daily file, or one and a
page meet; after the first of them they happen at the first and the last instant only, after
the last the clock goes straight to its end, and between the two halves of a page at most one
of them happens.  Three Events of one project are enough for set, clear and set again, for an
assignment between two questions, and for one id in two files; the proofs are for any number of
files, Events and windows.  `EndOfTime` stands for the end of the window when none is asked
for: no Event is of a later day.  The specification has no fairness and may stop at its bounds.

### Publication

One action per call to Notion: find or create the page, list and delete its blocks one at a
time, append the new body in one call, then each row's body in the same way, the Notes
column, the description.  A call fails with or without effect, the process dies between two
calls, and people type above or below a body, clear it, or write a note.  An address that cannot be
written, because the port is none, makes a run DEGRADED from its beginning (`"port"` in `failed`); an
exception that `main` does not expect ends the program with a 1 out of any later step (`Raises`).  A look at the
company is a version number; a body is two blocks, of which the first says that the tool
wrote it, which is all that `_is_ours` looks at.

*Bounds.*  Two projects, the second of which exists from the second version on; two failures
and two interventions of people, enough for one to meet the other in one row.

*Fairness.*  Somebody runs it again, and a run that nothing stops goes on.

## 3. Runs

| Run | Question | Answer |
|---|---|---|
| `lock` | Is the lock exclusive, and does a dead run's lock go away? | Yes, the first as long as no unlink removed a file it had not looked at (`raced`) or that of a live run a failed probe had called gone (`robbed`) |
| `lock_mutex` | "exactly one caller can ever be told True for a given lock" | **Violated**, see findings |
| `ingest` | Is the pipeline a ledger, are ids burned only by named faults, is every complete file consumed or rejected?  Does a quiet COMPANY section mean that all is recorded, and does what it says of later runs hold? | Yes |
| `agent` | Are dates in order, is anything filed sent again, is every Signal that was filed in time delivered or refused?  Does an AGENT page without a line mean that all is out, and is its line on collected dates true? | Yes, no, yes, but for what a drain overlooked (`missed`) and names the client spoiled (`foreign`, `swallowed`); yes, but for `swallowed`; yes |
| `history` | Do documents agree with their Daily files and does every kept Event reach its Monthly document?  Is the HISTORY page quiet only when nothing is lost, does it call lost only what is, does it notice a file taken away? | Yes, but for what `missed` and `stale` name and for items the parser does not find (`Garbled`); yes |
| `backup_safe` | Can a deletion reach the remote unasked, can success be reported without it, can a file that is gone leave the page? | No |
| `backup_live` | Can the remote stay behind with every run calling itself fine?  Can the page be quiet while it is behind? | No; only for what a run did not find as it is: written in the middle of it, or not listed (`doubt`) |
| `backup_mass` | Does the mass modification gate stop a push? | **Violated**: for one run only |
| `notion` | Does a row or its Blocker go back behind what it has shown?  Is every accepted Event synced in the end? | No; yes, but for what a run forgot that died (`lost`) |
| `runner` | Do exit code, manifest, row and LAST RUN block tell one story of a run?  Does a mirror stop History or Backup?  Is every row sent? | Yes; only through a retry queue that cannot be read or written; yes, if it could be built |
| `tower` | Does what stands open follow the last word on it and stay on the screen?  Do two counts of one thing agree, is a part ever called the whole, do windows that are over stay, is Notion ever told better than the browser, are the notes true? | Yes; yes, but for files that are no Event and ids in conflict; no, yes, no, yes |
| `publish` | Does anybody lose what was typed into Notion, is a row left alone without a reason, does the exit code tell what is shown, is Notion right in the end? | Only between two calls (`late`, `warned`); no but for torn bodies; a 0 and a 3 do, a 1 does not; yes, but for torn bodies |

The properties with an exception name it in the formula: `raced`, `robbed`,
`fault`, `foreign`, `swallowed`, `missed`, `stale`, `Garbled`, `Breaking`, `doubt`, `lost`, `edited`, `built`,
`Strays`, `torn`, `late`, `warned`.  The exceptions
are the code's own weak spots; what the properties say is that there is no other.

A run that checks liveness has no symmetry and a smaller instance than safety alone
would allow, as the graph is searched once more for each property and fairness
condition.  Where the small instance would leave the interesting cases out, safety has a
run of its own (`backup_safe`); for the rest the proofs of section 5
cover every size.  The runs check what a reader of the system would ask; invariants that these
rest on (types, `HolderOwnsTheFile`, `StaleStaysStale`, `AcceptedOnce`, `NoSilentLoss`,
`HistoryAgreesWithCount`, `NoCollisionOfItsOwn`, `CollectedIsDelivered`, `LinesNeedAPerson`,
`NoGap`, `KeptIsInDaily`, `NoTornBackup`, `Accounted`, `AppliedTwiceOnlyWithinAMinute`) are
theorems instead.

## 4. Findings

1. **Two runs can hold the lock** (`lock_mutex`, `src/scheduler/lock.py:218`).  A
   lock that is created and not written yet reads as None and is judged stale;
   comparison and unlink are two steps, so a takeover can remove the lock of a
   run that has just been told True.
2. **The mass modification gate opens by itself** (`backup_mass`,
   `src/backup/runner.py:157`): it closes after the files were copied into the
   Working Copy, so the next run sees nothing modified and pushes them.

### Other observations

Met while translating the code.  They are exceptions in the properties above or lie
outside the model; no run of its own shows them.

* *Run lock.*  "Could not tell" becomes "gone" when `tasklist` ends with an error (`lock.py:197`), or
  `os.kill` fails in an unexpected way on POSIX (`lock.py:204`), against the comment at `lock.py:160-184`: a second
  run then takes the lock of one that works (`robbed`).
* *Collector.*  `mark_seen` adds the id in memory before it saves
  (`collector/state.py:126`); if that save fails, a later save of the same run persists it, and
  the file, FAILED and left in `incoming/`, is a DUPLICATE for ever (`fault`).
* *Agent.*  A rejected Signal whose move fails is not judged again, since its date is closed
  (`agent/agent.py:217`, against the docstring of `_reject_signal`), and the page then says of it
  what is not so (`ops_status.py:4249`).  What sits under an Event's name in the folder is
  taken for the Event (`foreign`), and once the intake has moved it away the page is quiet although the Event never
  was delivered (`swallowed`, `agent/delivery.py:203`).  An outbox that cannot be listed drains as clear, the date
  is closed, and later dates go out before the Event left behind (`missed`).
* *History.*  The list of months to mark dies with the run (`app/runner.py:1281`), so a document can stay
  behind its Daily files (`stale`); the page does call it lagging.  A text that a person clears after
  it was rendered stays in the Daily file, and no line tells.  An Event without a summary is in its Daily and never in a
  Monthly (`Bare`); only the log knows (`MONTHLY_UNCONSOLIDATED`).  An Event that breaks its own label counts as not
  merged, so every Late Update of its date appends it again (`Breaking`).
* *COMPANY section.*  A resent file that is still syncing is called suppressed and "다음 실행에서도
  그대로다", which stops being so when the sync ends (the exception in `LinesStay`); an orphan is said
  not to be recoverable by another run, which is not so if a save of the seen set failed and a copy of its file comes.
* *Backup.*  A directory of the Local Master that cannot be listed counts as empty (`working_copy.py:219`): its new files
  are left out, the run ends green and is recorded, and the page is quiet from then on (`doubt`).
* *HISTORY page on the Backup.*  "이 파일들은 이 머신에만 있다" is also said of files that are on the
  remote after a push by hand, a lost state or a push that timed out and arrived, and stays until the
  next run that has something to push (a run with nothing to push leaves `last_successful_backup` as it
  was, against `ops_status.py:543`).  The other way round a file written while a pushing run worked
  is not reported (`doubt`).
* *NOTION block.*  A skipped Event with the row's own instant is counted as one that was late.
* *Runner.*  A retry queue that cannot be read or saved ends the run in Notion Sync, DEGRADED and
  exit code 3, though Daily Close and Backup were never reached (against docs/14 section 5 and
  `app/runner.py:147-151`); the LAST RUN block does not ask for anybody about a failure of unknown
  retryability.  A run that finds its predecessor's manifest replaced returns that other run's exit
  code.  An aborted run has no row, nor has one whose
  row cannot be built, though the manifest calls that RETRYABLE (`notion/dashboard.py:1186`, `app/runner.py:1677`).  A row can say OK while its manifest is DEGRADED by the
  Dashboard step itself.  Run ids have a resolution of a second.
* *Control Tower.*  A file that is no valid Event but has a source and a timestamp is counted by COMPANY and called
  unreadable by the CONTROL TOWER on the same page (`desktop_activity.py:769`, `rollup.py:1052`).  `gather` reads the lines and the panels apart, so a page may count a Blocker no line
  asks about.  The PROJECTS panel is of the window, RISKS of its end.  The comment at
  `attention.py:187-191` on what has no severity differs from the else branch at
  `ops_status.py:5154-5158`; `ops_status.py:5053` orders by file name where the rollup orders by instant.
  A project that was completed, goes on, and is then reported with status COMPLETED by another type of Event
  is settled as of its old completion (`settled_at`, `rollup.py:392-421`): a cohort whose window is over
  changes, and a Blocker reported in between stays in the note of a COMPLETE project.
* *Notes in Notion.*  `build_project_note` asks for the Blocker before the state
  (`notion_page.py:1338`), so a project that was cancelled with a Blocker keeps "⛔ Blocker", where the
  rollup (`rollup.py:300-339`) calls it settled.  A row's body says that a project has no Events when they
  are merely older than the newest twenty of the company.
* *Publication.*  When a deletion fails after the first block is gone, the rest of the body no longer begins
  with the tool's line, is taken for a person's and is never written again (`notion_page.py:1456`,
  `publish_control_tower.py:367`; `torn`).  A note typed after the notes were listed is overwritten (`late`).
  What people type on the Control Tower page itself is deleted by design, and so is what they append to a
  note of the tool's own: it begins with `[CT]`, and a note that does is not a person's.  Nothing excludes two publishers.
  A 3 may mean that all was written but the address (`port_error`, `publish_control_tower.py:396`), a 1 that an exception
  came out of a step after the page was written.

## 5. Proofs

All theorems are about `Spec` (`StatusSpec` for the HISTORY page and for its quiet on the Backup, `TowerSpec`
for the Control Tower) for every value of the
constants under the named assumptions of their module (types of the constants, that file names, teams and
Desktops are finite in number, that the words a screen puts in place of a number are none and, for
CompanyHistory, that months follow days without a gap).  TLC evaluates those assumptions in
every run.  The type invariant of each component that has proofs is proved first (`TypeCorrect`).

* **RunLockProofs.**  `OneHolder`, `HolderOwnsItsLock`, `StaleJudgementIsStable`.
  None is inductive.  `LockInv` adds that identities lead to their creator, that
  the file which names a process is its latest one, and that a payload judged stale
  belongs to no live process; with these, neither a takeover nor a release can hit a
  holder's file unless an unlink went astray (`raced` or `robbed`).  The judgement is stable for runs that are not
  `misled`; of those that are, only the unlink does harm, and `robbed` records it.
* **IngestProofs.**  `NeverAcceptedTwice`, `LossIsVisible`, `OnlyFaultsBurn` and the refinement
  `ImplementsLedger`.  `IngestInv` relates the two seen sets, the Candidates, the file
  between mark and move and the files accepted in this run.  The refinement maps each
  step to one ledger step of one Event, or a stutter.  `OnlyFaultsBurn` needs that, as
  long as nothing went wrong around a mark, every marked id has a consumed file or one that is
  being moved.
  Of the COMPANY section, `QuietPageIsTrue` follows from `LossIsVisible`: an Event remembered
  and not recorded is an orphan or waits in `incoming/`, and a quiet page has neither.
  `LinesHold` needs that what was consumed is remembered on disk (`ConsumedIsSeen`),
  `CountAgrees` that what the filter has been through needs nothing more (`FilterInv`);
  `NoOwnCollision` is inductive.
* **DesktopAgentProofs.**  `WatermarkIsSafe`, `DeliveryInOrder`, `NoLateResend`,
  `ClosedLineTrue`, `QuietIsDelivered`, `LinesStand`.
  `AgentInv` follows an Event on its way: the outbox holds Events of the date after the
  watermark only, a drain that is still clear has visited whatever left the outbox,
  each due Signal of the date in progress is listed, in the outbox or sent.
* **CompanyHistoryProofs.**  `NoGapInHistory` from `FilesInv` (files, pointers and
  clock), then `KeptIsShown` and `HistoryAgrees` from `HistoryInv`: what a run remembers is
  empty outside the steps that need it, and the document just written agrees with its Daily files.
  Of the HISTORY page, `QuietIsComplete`, `LinesTellTheTruth` and `DeletionIsSeen` from `StatusInv`, which
  adds that files are written in the order of their pointers and that a text that is rendered or listed is
  the one in the Candidate unless the person was too late.  That a deletion is seen in the middle of
  a backlog needs that there are no more months than days (`MonthsAreDays`, by counting).
* **BackupProofs.**  `NoDeletionUnasked`, `TornStaysHome`, `GreenIsTrue`, each with its
  own strengthening: a deletion is confirmed before it can travel from place to place;
  past the copying a torn file is one no sync could see; what was listed is carried from
  place to place up to the step that calls the run done.
  Of the page, `QuietPageIsTrue`: a file that is not newer than the last
  recorded success and was not written during that run had its version carried to the remote by it, and
  nothing has taken it back since.  `GoneStaysOnThePage`: what reached the remote stays in the Working
  Copy until a deletion was confirmed.
* **NotionSyncProofs.**  `NothingGoesMissing`, `RowNeverGoesBack`, `WrittenOnce`,
  `BlockerFollowsTheNewest`.  `HandInv` says that what `find_project` returned still
  holds when the write is sent, but for the date; `AppliedIsShown` that a row shows
  whatever was written or answered, or something not older.  The only fact about time they
  need is that minutes follow times (`TimeAssumption`).
* **RunnerProofs.**  `ExitIsOfTheRun`, `Explained`, `RowsAgree`, `QuietIsHonest`, for any number of
  overlapping runs.  `IInv` says what a process has in memory at each phase (`ShapeInv`), what
  OPS_RUNS and the pending file have of its run by then (`RowsInv`), what outlives it in the
  manifest (`ManifestInv`), and that the manifest a run found at its start is of a run that is over
  (`KnowsInv`), without which a run that raised could take another's exit code for its own.
  `RowsAreNotForgotten` is the safety half of `PendingRowsAreSent`: a row leaves the pending
  file only when it was sent.
* **ControlTowerProofs, the screens.**  `WhatStandsStaysShown`, `CountsAlwaysAgree`, `NumbersStayHonest`,
  `CohortsStayHonest`, `VerdictsAlwaysAgree`, `NotesAreAlwaysTrue`: all that the run `tower` checks, for any
  number of files, in any order of arrival, broken, copied or in conflict, and any windows.  What is shown is a
  function of the files, so the invariant `TowerInv` has little to say: what can be read (`FilesOK`, `PlaceOK`), and
  that a page has a line wherever somebody was needed when its lines were read, and the tone its lines and its
  model come to (`PageOK`).  The work is in the folds.  `SmallestMember` (a family of subsets of a finite set
  has a smallest member) takes the place of induction; with it `FoldExists` and `FoldIsUnique` show that a recursive function over
  sets of files is defined, and `OneMore` and `OneMoreItem` that one Event more keeps the meaning of what was folded.
  `Sheets` and `Items` say that meaning in terms of the Events (the last Event that speaks of a Blocker, the first
  of an unbroken run of cancellations, what was raised since the last answer), and the proofs after them never
  mention a fold.  Sums over teams, Desktops, days and projects are unions of disjoint parts
  (`SumOfParts`).  The two Desktop blocks keep different files of one Event ID (the first by
  instant, the first by name); without conflict these say the same, and a bijection between them makes the counts equal (`Screens`).
  The closed windows of cohorts rest on `SettledInWindow`: what settled a project within a window had settled it
  when the window closed, or it is a completion that stands again.
* **ControlTowerProofs, the publication.**  `WordsAreKept`, `LeftAlone`, `ExitTells`.  `Inv` is a catalogue of what the
  blocks of a body can be: whole, or left for a reason when no run is at it (`BodiesInv`), and while it is replaced what
  is still to be taken away with at most one block of a person's beside it (`ReplacedInv`); then
  what the run has done of rows and notes and says of it.  The lemmas before it say what appending,
  filtering and taking the head do to such short lists.

Every safety property of the passing runs is a theorem.  Only model-checked are the liveness properties
(`StaleLockIsReclaimed`, `ArrivedIsConsumed`, `OnTimeIsDelivered`, `KeptReachesMonthly`, `NeverQuietlyBehind`,
`AcceptedIsSynced`, `PendingRowsAreSent`, `NotionCatchesUp`), which rest on fairness and so on ENABLED,
out of the prover's reach; and the two violations.

## 6. Plan

1. `CompanyOps`: `DesktopAgent`, `Ingest`, `CompanyHistory` and `Backup` composed over the
   directories they share, against an abstract specification of the life of a Signal up
   to the remote.
2. The table of decisions of the History Filter and the coverage of a month
   against reference definitions.
3. The SCHEDULE block and the registration of the task.

## 7. Not modelled, and why

* Markdown but for what the Monthly's parser does not find again (`Bare`, `Breaking`); HTML, wording of
  reports and logs, the manifest's counters: no property here depends on them.
* A summary that imitates the label of another Event's id, and the two lines of the HISTORY page on documents
  that count more than they show (`_daily_counts_more_than_it_shows`, `_monthly_counts_more_than_it_shows`).
* The page's own listing of Local Master and Working Copy is taken to work; the Backup's is not.
* The instant of a file that is no Event and has no date in it is taken to come after every date, as a word does;
  an earlier one would be dropped from the last date of its Desktop.  Git's answer does not depend on the window.
* `init_notion.py`, `notion/bootstrap.py`, `schedtask.py`, `review_cli.py`'s prompts: interactive, run
  once or by hand.
* `notion_projection.sync_control_tower`: called by tests only.
* The git command line, HTTP and its limits on text: taken as calls that succeed, fail, or
  fail after their effect.
* Time zones and wall-clock jumps: every component reads the
  clock once per run, and the modules let the date turn over during a run.
* Two reviewers at once (the later one takes the other's fields with it, `history/review.py:78`), two publishers at
  once, more than a thousand projects (`list_truncated` is not asked, `notion_page.py:1639`): left out
  of the model, since nothing in the code is there to handle them.
* An Event that reports a Blocker and is retried after a newer one that leaves the column alone is skipped as
  late, so its Blocker is not shown (`notion/sync.py:319`).  docs/04 sections 29 and 30 ask for this.
* Loss of whole disks, rows a person deletes or fills with other Events' ids, and hand edits of
  state files other than their removal.
