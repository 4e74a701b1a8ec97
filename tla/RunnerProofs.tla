----------------------------- MODULE RunnerProofs -----------------------------
(***************************************************************************)
(* What holds of every number of runs, of processes and of failures.       *)
(*                                                                         *)
(* IInv is inductive.  The exit code, the manifest and the rows that the   *)
(* properties speak of are the end of a run, so IInv says what a run has   *)
(* in memory at each of its phases (Shape), what OPS_RUNS and the pending  *)
(* file have of it by then (RowOf), and what outlives it in the manifest   *)
(* (ManifestInv).  KnowsInv is what makes the exit code of a run that      *)
(* raised its own: the manifest it found at its start is of a run that is  *)
(* over, and no run writes twice.                                          *)
(*                                                                         *)
(* The effect of an assignment to proc is stated once, as a record (the    *)
(* lemmas up to Fails).  Alone, AtWork and Tidied then carry IInv over a   *)
(* step of one process: one that leaves files and Notion alone, one of the *)
(* run that has the lock, and one after which old rows are put away.       *)
(***************************************************************************)
EXTENDS Runner, TLAPS

TypeOK ==
    /\ configured \in {"nothing", "sync", "sync and dashboard"}
    /\ proc \in [Run -> Process]
    /\ holder \in 0 .. LastRun + 1
    /\ manifest \in [run: 0 .. LastRun + 1, results: [Component -> Result]]
    /\ pending \subseteq Run
    /\ legible \in BOOLEAN
    /\ overall \in [Run -> {"-", "OK", "WARN", "FAIL"}]
    /\ rows \subseteq Run

\* Only the memory of r changes, and p is what it has then.
Touches(r, p) ==
    /\ p \in Process /\ proc' \in [Run -> Process] /\ proc'[r] = p
    /\ \A q \in Run : q # r => proc'[q] = proc[q]

\* The steps of a run that has the lock, and those after its manifest.
Working == Component \cup {"drained", "record", "queue", "release"}
Over == {"off", "report", "exited"}

\* The first k steps are recorded and no other.
Reached(res, k) == \A i \in 1 .. 9 : res[Pipeline[i]].status # "NONE" <=> i <= k

\* How the two steps that guard History end, and that only a failed Dashboard
\* step is to be tried again.
Guarded(res) ==
    /\ res["dashboard"].retry = "RETRYABLE" => res["dashboard"].status = "FAILED"
    /\ res["daily"].status # "SKIPPED" /\ res["backup"].status # "SKIPPED"
    /\ res["daily"].status = "FAILED" => res["daily"].severity = "CRITICAL"
    /\ res["backup"].status = "FAILED" =>
          res["backup"].severity = "CRITICAL" \/ res["backup"].retry = "RETRYABLE"

\* A list of all steps, or of those up to the one whose failure ended the run.
EndedAt(res, k) ==
    /\ Reached(res, k)
    /\ \/ k = 9
       \/ k = 8 /\ res["backup"].status = "FAILED"
       \/ /\ Pipeline[k] \notin CatchesAll
          /\ res[Pipeline[k]] = Failure(Severity[Pipeline[k]], "UNKNOWN")
Accounts(res) == \E k \in 1 .. 9 : EndedAt(res, k)

\* The row of a run and the list of its steps do not contradict each other.
Fits(row, res) ==
    LET verdict == Verdict([res EXCEPT !["dashboard"] = Plain("NONE")])
    IN  row # "-" => (row = "FAIL" <=> verdict = "FAILED") /\ (row = "OK" => verdict = "SUCCESS")

\* A row that the list counts on, if there is one, is in OPS_RUNS, or waits.
Sent(r, res) ==
    /\ res["dashboard"].status = "SUCCESS" => r \in rows
    /\ res["dashboard"].retry = "RETRYABLE" /\ overall[r] # "-" => r \in rows \cup pending

\* Only the run that has the lock works.
MutexInv == \A r \in Run : proc[r].pc \in Working => holder = r

\* What a process has in memory, by the step it is at.
Shape(p) ==
    /\ p.pc = "off" => p = NoProcess
    /\ p.pc = "lock" => p.results = Nothing
    /\ p.raised => p.pc \in {"release", "write", "report", "exited"}
    /\ \A i \in 1 .. 9 :
          p.pc = Pipeline[i] => p.current = p.pc /\ Reached(p.results, i - 1)
    /\ p.pc \in {"drained", "record", "queue"} =>
          p.current = "dashboard" /\ Reached(p.results, 8)
    /\ p.pc \in {"release", "write"} =>
          \/ ~p.raised /\ Reached(p.results, 9)
          \/ /\ p.raised /\ p.current = NoComponent
             /\ Reached(p.results, 8) /\ p.results["backup"].status = "FAILED"
          \/ p.raised /\ \E i \in 1 .. 8 :
                /\ p.current = Pipeline[i] /\ Pipeline[i] \notin CatchesAll
                /\ Reached(p.results, i - 1)
    /\ Guarded(p.results)
ShapeInv == \A r \in Run : Shape(proc[r])

\* What Notion and the pending file have of a run, by what it has in memory.
RowOf(r, p) ==
    /\ p.pc # "drained" => p.drained = {}
    /\ p.drained \subseteq pending \cap rows
    /\ Sent(r, p.results)
    /\ p.pc \in {"lock", "drained", "record"} \cup Component \/ p.raised => overall[r] = "-"
    /\ p.pc = "lock" => r \notin rows \cup pending
    /\ p.pc # "off" => Fits(overall[r], p.results)
RowsInv ==
    /\ rows \subseteq Referenced
    /\ \A r \in Run : overall[r] # "-" => r \in Referenced
    /\ \A r \in Run : RowOf(r, proc[r])

\* What a manifest that can be read says of its run, which is over.
ManifestInv ==
    Readable =>
        /\ Guarded(manifest.results) /\ Accounts(manifest.results)
        /\ Fits(overall[manifest.run], manifest.results)
        /\ Sent(manifest.run, manifest.results)
        /\ proc[manifest.run].pc \in Over

\* A run knows the manifest that was there before it, and has written its own.
KnowsOwn(r, p) ==
    p.pc \in {"report", "exited"} /\ manifest.run = r =>
        manifest.results = p.results /\ (p.raised => Failed(p.results) # {})
KnowsInv ==
    \A r \in Run :
        /\ KnowsOwn(r, proc[r])
        /\ proc[r].pc # "off" /\ proc[r].before \in Run =>
              proc[r].before # r /\ proc[proc[r].before].pc \in Over

\* ExitTellsTheRun of one run.
Tells(r, p) ==
    LET others == p.raised /\ manifest.run \notin {r, p.before}
    IN  p.pc = "exited" /\ ~others =>
            /\ p.exit \in {ExitCode[Verdict(p.results)], 2}
            /\ p.exit = 0 => ~p.raised /\ Failed(p.results) = {}

\* The inductive invariant.
IInv == TypeOK /\ MutexInv /\ ShapeInv /\ RowsInv /\ ManifestInv /\ KnowsInv /\ ExitTellsTheRun

-----------------------------------------------------------------------------
\* The nine steps in their order.
LEMMA Order ==
    /\ Len(Pipeline) = 9 /\ DOMAIN Pipeline = 1 .. 9
    /\ Component = {"transport", "collector", "notion_sync", "history_filter", "daily",
                    "late_update", "monthly", "backup", "dashboard"}
    /\ Pipeline[1] = "transport" /\ Pipeline[2] = "collector" /\ Pipeline[3] = "notion_sync"
    /\ Pipeline[4] = "history_filter" /\ Pipeline[5] = "daily" /\ Pipeline[6] = "late_update"
    /\ Pipeline[7] = "monthly" /\ Pipeline[8] = "backup" /\ Pipeline[9] = "dashboard"
<1>1. /\ Len(Pipeline) = 9 /\ DOMAIN Pipeline = 1 .. 9
      /\ Pipeline[1] = "transport" /\ Pipeline[2] = "collector" /\ Pipeline[3] = "notion_sync"
      /\ Pipeline[4] = "history_filter" /\ Pipeline[5] = "daily" /\ Pipeline[6] = "late_update"
      /\ Pipeline[7] = "monthly" /\ Pipeline[8] = "backup" /\ Pipeline[9] = "dashboard"
  BY DEF Pipeline
<1>2. \A i \in 1 .. 9 : i = 1 \/ i = 2 \/ i = 3 \/ i = 4 \/ i = 5 \/ i = 6 \/ i = 7 \/ i = 8 \/ i = 9
  OBVIOUS
<1>3. Component = {"transport", "collector", "notion_sync", "history_filter", "daily",
                    "late_update", "monthly", "backup", "dashboard"}
  BY <1>1, <1>2 DEF Component
<1> QED
  BY <1>1, <1>3

\* No step comes twice, and none is a phase of its own kind.
LEMMA Distinct ==
    /\ \A i, j \in 1 .. 9 : Pipeline[i] = Pipeline[j] => i = j
    /\ \A i \in 1 .. 9 : Pipeline[i] \in Component
<1>1. \A i \in 1 .. 9 : i = 1 \/ i = 2 \/ i = 3 \/ i = 4 \/ i = 5 \/ i = 6 \/ i = 7 \/ i = 8 \/ i = 9
  OBVIOUS
<1> QED
  BY <1>1, Order

\* Every component has its place.
LEMMA Place == \A c \in Component : \E i \in 1 .. 9 : Pipeline[i] = c
BY Order DEF Component

\* After is the next step, and the release after the last one.
LEMMA Follows == \A i \in 1 .. 9 :
    After(Pipeline[i]) = IF i = 9 THEN "release" ELSE Pipeline[i + 1]
<1> SUFFICES ASSUME NEW i \in 1 .. 9
             PROVE  After(Pipeline[i]) = IF i = 9 THEN "release" ELSE Pipeline[i + 1]
  OBVIOUS
<1> DEFINE j == CHOOSE j \in DOMAIN Pipeline : Pipeline[j] = Pipeline[i]
<1>1. j \in DOMAIN Pipeline /\ Pipeline[j] = Pipeline[i]
  BY Order
<1>2. j = i
  BY <1>1, Order, Distinct
<1> QED
  BY <1>2, Order DEF After

\* No step is followed by the first one.
LEMMA AfterIsPhase == \A c \in Component : After(c) \in (Component \ {"transport"}) \cup {"release"}
<1> SUFFICES ASSUME NEW c \in Component
             PROVE  After(c) \in (Component \ {"transport"}) \cup {"release"}
  OBVIOUS
<1>1. PICK i \in 1 .. 9 : Pipeline[i] = c
  BY Place
<1>2. i # 9 => i + 1 \in 1 .. 9 /\ Pipeline[i + 1] # Pipeline[1]
  BY Distinct
<1> QED
  BY <1>1, <1>2, Follows, Distinct, Order

\* What the steps record has the type of a ComponentResult.
LEMMA Outcomes ==
    /\ \A s \in {"NONE", "SUCCESS", "SKIPPED"} : Plain(s) \in Result
    /\ \A s \in {"CRITICAL", "DEGRADED"}, t \in {"RETRYABLE", "PERMANENT", "UNKNOWN"} :
          Failure(s, t) \in Result
    /\ Severity \in [Component -> {"CRITICAL", "DEGRADED"}]
    /\ Nothing \in [Component -> Result]
    /\ \A c \in Component : \A f \in GoesOnWith(c) : f \in Result
BY DEF Plain, Failure, Result, Severity, Nothing, GoesOnWith

\* The names for no run, a run that died and no component are taken by none.
LEMMA Names == /\ Run \subseteq Nat /\ NoRun \notin Run /\ DeadRun \notin Run /\ LastRun + 1 \notin Run
               /\ Run \cup {NoRun, DeadRun} = 0 .. LastRun + 1
               /\ NoComponent \notin Component
BY BoundsAssumption, Order DEF Run, NoRun, DeadRun, NoComponent

\* A run that raised fails the step in flight, and leaves the others.
LEMMA Attribution ==
    ASSUME TypeOK, NEW r \in Run
    PROVE  /\ Attributed(r) \in [Component -> Result]
           /\ \A c \in Component : Attributed(r)[c] =
                 IF proc[r].raised /\ proc[r].current = c
                 THEN Failure(Severity[c], "UNKNOWN") ELSE proc[r].results[c]
<1>1. proc[r] \in Process
  BY DEF TypeOK
<1>2. proc[r].results \in [Component -> Result] /\ proc[r].current \in Component \cup {NoComponent}
  BY <1>1 DEF Process
<1>3. \A c \in Component : Failure(Severity[c], "UNKNOWN") \in Result
  BY Outcomes
<1> QED
  BY <1>2, <1>3, Names DEF Attributed

\* What the actions make of the memory of a process.  It moves on.
LEMMA Moves ==
    ASSUME TypeOK, NEW r \in Run, NEW phase \in Phase,
           proc' = [proc EXCEPT ![r].pc = phase]
    PROVE  Touches(r,
           [pc |-> phase,
            before |-> proc[r].before,
            current |-> proc[r].current,
            results |-> proc[r].results,
            raised |-> proc[r].raised,
            exit |-> proc[r].exit,
            drained |-> proc[r].drained])
<1>1. proc[r] \in Process /\ DOMAIN proc = Run
  BY DEF TypeOK
<1>2. proc' = [proc EXCEPT ![r] = [proc[r] EXCEPT !.pc = phase]]
  BY <1>1
<1>3. proc'[r] = [proc[r] EXCEPT !.pc = phase]
  BY <1>1, <1>2
<1> DEFINE p == [pc |-> phase,
            before |-> proc[r].before,
            current |-> proc[r].current,
            results |-> proc[r].results,
            raised |-> proc[r].raised,
            exit |-> proc[r].exit,
            drained |-> proc[r].drained]
<1>4. p \in Process
  BY <1>1 DEF Process, Phase
<1>5. proc'[r] = p
  BY <1>1, <1>3 DEF Process
<1> HIDE DEF p
<1>6. proc' \in [Run -> Process] /\ \A q \in Run : q # r => proc'[q] = proc[q]
  BY <1>1, <1>2, <1>3, <1>4, <1>5 DEF TypeOK
<1> QED
  BY <1>4, <1>5, <1>6 DEF Touches, p

\* It begins.
LEMMA Begins ==
    ASSUME TypeOK, NEW r \in Run, NEW b \in Run \cup {NoRun},
           proc' = [proc EXCEPT ![r].pc = "lock", ![r].before = b]
    PROVE  Touches(r,
           [pc |-> "lock",
            before |-> b,
            current |-> proc[r].current,
            results |-> proc[r].results,
            raised |-> proc[r].raised,
            exit |-> proc[r].exit,
            drained |-> proc[r].drained])
<1>1. proc[r] \in Process /\ DOMAIN proc = Run
  BY DEF TypeOK
<1>2. proc' = [proc EXCEPT ![r] = [proc[r] EXCEPT !.pc = "lock", !.before = b]]
  BY <1>1
<1>3. proc'[r] = [proc[r] EXCEPT !.pc = "lock", !.before = b]
  BY <1>1, <1>2
<1> DEFINE p == [pc |-> "lock",
            before |-> b,
            current |-> proc[r].current,
            results |-> proc[r].results,
            raised |-> proc[r].raised,
            exit |-> proc[r].exit,
            drained |-> proc[r].drained]
<1>4. p \in Process
  BY <1>1 DEF Process, Phase
<1>5. proc'[r] = p
  BY <1>1, <1>3 DEF Process
<1> HIDE DEF p
<1>6. proc' \in [Run -> Process] /\ \A q \in Run : q # r => proc'[q] = proc[q]
  BY <1>1, <1>2, <1>3, <1>4, <1>5 DEF TypeOK
<1> QED
  BY <1>4, <1>5, <1>6 DEF Touches, p

\* It has the lock.
LEMMA Enters ==
    ASSUME TypeOK, NEW r \in Run,
           proc' = [proc EXCEPT ![r].pc = Pipeline[1], ![r].current = Pipeline[1]]
    PROVE  Touches(r,
           [pc |-> Pipeline[1],
            before |-> proc[r].before,
            current |-> Pipeline[1],
            results |-> proc[r].results,
            raised |-> proc[r].raised,
            exit |-> proc[r].exit,
            drained |-> proc[r].drained])
<1>1. proc[r] \in Process /\ DOMAIN proc = Run
  BY DEF TypeOK
<1>2. proc' = [proc EXCEPT ![r] = [proc[r] EXCEPT !.pc = Pipeline[1], !.current = Pipeline[1]]]
  BY <1>1
<1>3. proc'[r] = [proc[r] EXCEPT !.pc = Pipeline[1], !.current = Pipeline[1]]
  BY <1>1, <1>2
<1> DEFINE p == [pc |-> Pipeline[1],
            before |-> proc[r].before,
            current |-> Pipeline[1],
            results |-> proc[r].results,
            raised |-> proc[r].raised,
            exit |-> proc[r].exit,
            drained |-> proc[r].drained]
<1>4. p \in Process
  BY <1>1, Order DEF Process, Phase
<1>5. proc'[r] = p
  BY <1>1, <1>3 DEF Process
<1> HIDE DEF p
<1>6. proc' \in [Run -> Process] /\ \A q \in Run : q # r => proc'[q] = proc[q]
  BY <1>1, <1>2, <1>3, <1>4, <1>5 DEF TypeOK
<1> QED
  BY <1>4, <1>5, <1>6 DEF Touches, p

\* It raises.
LEMMA Breaks ==
    ASSUME TypeOK, NEW r \in Run, NEW phase \in Phase,
           proc' = [proc EXCEPT ![r].raised = TRUE, ![r].pc = phase]
    PROVE  Touches(r,
           [pc |-> phase,
            before |-> proc[r].before,
            current |-> proc[r].current,
            results |-> proc[r].results,
            raised |-> TRUE,
            exit |-> proc[r].exit,
            drained |-> proc[r].drained])
<1>1. proc[r] \in Process /\ DOMAIN proc = Run
  BY DEF TypeOK
<1>2. proc' = [proc EXCEPT ![r] = [proc[r] EXCEPT !.raised = TRUE, !.pc = phase]]
  BY <1>1
<1>3. proc'[r] = [proc[r] EXCEPT !.raised = TRUE, !.pc = phase]
  BY <1>1, <1>2
<1> DEFINE p == [pc |-> phase,
            before |-> proc[r].before,
            current |-> proc[r].current,
            results |-> proc[r].results,
            raised |-> TRUE,
            exit |-> proc[r].exit,
            drained |-> proc[r].drained]
<1>4. p \in Process
  BY <1>1 DEF Process, Phase
<1>5. proc'[r] = p
  BY <1>1, <1>3 DEF Process
<1> HIDE DEF p
<1>6. proc' \in [Run -> Process] /\ \A q \in Run : q # r => proc'[q] = proc[q]
  BY <1>1, <1>2, <1>3, <1>4, <1>5 DEF TypeOK
<1> QED
  BY <1>4, <1>5, <1>6 DEF Touches, p

\* It has sent the rows that wait.
LEMMA Drains ==
    ASSUME TypeOK, NEW r \in Run, NEW D \in SUBSET Run, NEW phase \in Phase,
           proc' = [proc EXCEPT ![r].drained = D, ![r].pc = phase]
    PROVE  Touches(r,
           [pc |-> phase,
            before |-> proc[r].before,
            current |-> proc[r].current,
            results |-> proc[r].results,
            raised |-> proc[r].raised,
            exit |-> proc[r].exit,
            drained |-> D])
<1>1. proc[r] \in Process /\ DOMAIN proc = Run
  BY DEF TypeOK
<1>2. proc' = [proc EXCEPT ![r] = [proc[r] EXCEPT !.drained = D, !.pc = phase]]
  BY <1>1
<1>3. proc'[r] = [proc[r] EXCEPT !.drained = D, !.pc = phase]
  BY <1>1, <1>2
<1> DEFINE p == [pc |-> phase,
            before |-> proc[r].before,
            current |-> proc[r].current,
            results |-> proc[r].results,
            raised |-> proc[r].raised,
            exit |-> proc[r].exit,
            drained |-> D]
<1>4. p \in Process
  BY <1>1 DEF Process, Phase
<1>5. proc'[r] = p
  BY <1>1, <1>3 DEF Process
<1> HIDE DEF p
<1>6. proc' \in [Run -> Process] /\ \A q \in Run : q # r => proc'[q] = proc[q]
  BY <1>1, <1>2, <1>3, <1>4, <1>5 DEF TypeOK
<1> QED
  BY <1>4, <1>5, <1>6 DEF Touches, p

\* It takes down what its manifest says.
LEMMA TakesDown ==
    ASSUME TypeOK, NEW r \in Run, NEW res \in [Component -> Result], NEW phase \in Phase,
           proc' = [proc EXCEPT ![r].results = res, ![r].pc = phase]
    PROVE  Touches(r,
           [pc |-> phase,
            before |-> proc[r].before,
            current |-> proc[r].current,
            results |-> res,
            raised |-> proc[r].raised,
            exit |-> proc[r].exit,
            drained |-> proc[r].drained])
<1>1. proc[r] \in Process /\ DOMAIN proc = Run
  BY DEF TypeOK
<1>2. proc' = [proc EXCEPT ![r] = [proc[r] EXCEPT !.results = res, !.pc = phase]]
  BY <1>1
<1>3. proc'[r] = [proc[r] EXCEPT !.results = res, !.pc = phase]
  BY <1>1, <1>2
<1> DEFINE p == [pc |-> phase,
            before |-> proc[r].before,
            current |-> proc[r].current,
            results |-> res,
            raised |-> proc[r].raised,
            exit |-> proc[r].exit,
            drained |-> proc[r].drained]
<1>4. p \in Process
  BY <1>1 DEF Process, Phase
<1>5. proc'[r] = p
  BY <1>1, <1>3 DEF Process
<1> HIDE DEF p
<1>6. proc' \in [Run -> Process] /\ \A q \in Run : q # r => proc'[q] = proc[q]
  BY <1>1, <1>2, <1>3, <1>4, <1>5 DEF TypeOK
<1> QED
  BY <1>4, <1>5, <1>6 DEF Touches, p

\* It returns.
LEMMA Returns ==
    ASSUME TypeOK, NEW r \in Run, NEW e \in {0, 2, 3},
           proc' = [proc EXCEPT ![r].pc = "exited", ![r].exit = e]
    PROVE  Touches(r,
           [pc |-> "exited",
            before |-> proc[r].before,
            current |-> proc[r].current,
            results |-> proc[r].results,
            raised |-> proc[r].raised,
            exit |-> e,
            drained |-> proc[r].drained])
<1>1. proc[r] \in Process /\ DOMAIN proc = Run
  BY DEF TypeOK
<1>2. proc' = [proc EXCEPT ![r] = [proc[r] EXCEPT !.pc = "exited", !.exit = e]]
  BY <1>1
<1>3. proc'[r] = [proc[r] EXCEPT !.pc = "exited", !.exit = e]
  BY <1>1, <1>2
<1> DEFINE p == [pc |-> "exited",
            before |-> proc[r].before,
            current |-> proc[r].current,
            results |-> proc[r].results,
            raised |-> proc[r].raised,
            exit |-> e,
            drained |-> proc[r].drained]
<1>4. p \in Process
  BY <1>1 DEF Process, Phase
<1>5. proc'[r] = p
  BY <1>1, <1>3 DEF Process
<1> HIDE DEF p
<1>6. proc' \in [Run -> Process] /\ \A q \in Run : q # r => proc'[q] = proc[q]
  BY <1>1, <1>2, <1>3, <1>4, <1>5 DEF TypeOK
<1> QED
  BY <1>4, <1>5, <1>6 DEF Touches, p

\* What the recorder makes of the memory of its process.
Noted(r, c, result) ==
    [pc |-> After(c), before |-> proc[r].before,
     current |-> IF After(c) \in Component THEN After(c) ELSE NoComponent,
     results |-> [proc[r].results EXCEPT ![c] = result],
     raised |-> proc[r].raised, exit |-> proc[r].exit, drained |-> {}]

\* It takes down the outcome of a step.
LEMMA Concludes ==
    ASSUME TypeOK, NEW r \in Run, NEW c \in Component, NEW result \in Result,
           Conclude(r, c, result)
    PROVE  Touches(r, Noted(r, c, result))
<1>1. After(c) \in Phase
  BY AfterIsPhase DEF Phase
<1>2. proc[r] \in Process /\ DOMAIN proc = Run
  BY DEF TypeOK
<1> DEFINE res == [proc[r].results EXCEPT ![c] = result]
           step == IF After(c) \in Component THEN After(c) ELSE NoComponent
<1>3. proc' = [proc EXCEPT ![r] = [proc[r] EXCEPT
                  !.results = res, !.pc = After(c), !.current = step, !.drained = {}]]
  BY <1>2 DEF Conclude
<1>4. res \in [Component -> Result] /\ step \in Component \cup {NoComponent}
  BY <1>2 DEF Process
<1> HIDE DEF res, step
<1>5. proc'[r] = [proc[r] EXCEPT !.results = res, !.pc = After(c), !.current = step, !.drained = {}]
  BY <1>2, <1>3
<1>6. proc'[r] = [pc |-> After(c), before |-> proc[r].before, current |-> step, results |-> res,
                  raised |-> proc[r].raised, exit |-> proc[r].exit, drained |-> {}]
  BY <1>2, <1>5 DEF Process
<1>7. proc'[r] \in Process
  BY <1>1, <1>2, <1>4, <1>6 DEF Process
<1>8. proc' \in [Run -> Process] /\ \A q \in Run : q # r => proc'[q] = proc[q]
  BY <1>2, <1>3, <1>5, <1>7 DEF TypeOK
<1> QED
  BY <1>6, <1>7, <1>8 DEF Touches, Noted, res, step

\* It is gone.
LEMMA Forgets ==
    ASSUME TypeOK, NEW r \in Run, proc' = [proc EXCEPT ![r] = NoProcess]
    PROVE  Touches(r, NoProcess)
<1>1. NoProcess \in Process
  BY Outcomes DEF NoProcess, Process, Phase, NoExit
<1> QED
  BY <1>1 DEF Touches, TypeOK

\* The Backup took its failure down before it raised.
LEMMA Fails ==
    ASSUME TypeOK, NEW r \in Run, NEW failure \in Result,
           proc' = [proc EXCEPT ![r].results["backup"] = failure, ![r].current = NoComponent,
                                ![r].raised = TRUE, ![r].pc = "release"]
    PROVE  Touches(r,
           [pc |-> "release", before |-> proc[r].before, current |-> NoComponent,
            results |-> [proc[r].results EXCEPT !["backup"] = failure],
            raised |-> TRUE, exit |-> proc[r].exit, drained |-> proc[r].drained])
<1>1. proc[r] \in Process /\ DOMAIN proc = Run
  BY DEF TypeOK
<1> DEFINE res == [proc[r].results EXCEPT !["backup"] = failure]
<1>2. proc' = [proc EXCEPT ![r] = [proc[r] EXCEPT !.results = res, !.current = NoComponent,
                                                  !.raised = TRUE, !.pc = "release"]]
  BY <1>1
<1>3. res \in [Component -> Result]
  BY <1>1 DEF Process
<1> HIDE DEF res
<1> DEFINE p == [pc |-> "release", before |-> proc[r].before, current |-> NoComponent,
                 results |-> res, raised |-> TRUE, exit |-> proc[r].exit,
                 drained |-> proc[r].drained]
<1>4. p \in Process
  BY <1>1, <1>3 DEF Process, Phase
<1>5. proc'[r] = p
  BY <1>1, <1>2 DEF Process
<1> HIDE DEF p
<1>6. proc' \in [Run -> Process] /\ \A q \in Run : q # r => proc'[q] = proc[q]
  BY <1>1, <1>2, <1>4, <1>5 DEF TypeOK
<1> QED
  BY <1>4, <1>5, <1>6 DEF Touches, p, res

-----------------------------------------------------------------------------
\* The verdict over the steps of a run.
LEMMA Verdicts ==
    ASSUME NEW res \in [Component -> Result]
    PROVE  /\ Verdict(res) \in {"SUCCESS", "DEGRADED", "FAILED"}
           /\ Verdict(res) = "SUCCESS" <=> Failed(res) = {}
           /\ Verdict(res) = "FAILED" <=> \E c \in Failed(res) : res[c].severity = "CRITICAL"
           /\ ExitCode[Verdict(res)] \in {0, 2, 3}
           /\ ExitCode[Verdict(res)] = 0 <=> Failed(res) = {}
<1>1. /\ Verdict(res) \in {"SUCCESS", "DEGRADED", "FAILED"}
      /\ Verdict(res) = "SUCCESS" <=> Failed(res) = {}
      /\ Verdict(res) = "FAILED" <=> \E c \in Failed(res) : res[c].severity = "CRITICAL"
  BY DEF Verdict
<1> QED
  BY <1>1 DEF ExitCode

\* The next step is recorded.
LEMMA Advances ==
    ASSUME NEW res \in [Component -> Result], NEW i \in 1 .. 9, Reached(res, i - 1),
           NEW result \in Result, result.status # "NONE"
    PROVE  Reached([res EXCEPT ![Pipeline[i]] = result], i)
BY Distinct DEF Reached

\* The outcome of the Dashboard step does not count in its own row.
LEMMA FitsWithout ==
    ASSUME NEW res \in [Component -> Result], NEW result \in Result, NEW row
    PROVE  Fits(row, [res EXCEPT !["dashboard"] = result]) <=> Fits(row, res)
<1>1. [[res EXCEPT !["dashboard"] = result] EXCEPT !["dashboard"] = Plain("NONE")]
         = [res EXCEPT !["dashboard"] = Plain("NONE")]
  OBVIOUS
<1> QED
  BY <1>1 DEF Fits

\* A row that is built fits the steps it is built from.
LEMMA BuiltFits ==
    ASSUME NEW res \in [Component -> Result], Guarded(res), Reached(res, 8), NEW flawed \in BOOLEAN
    PROVE  Fits(Overall(res, flawed), res)
<1> DEFINE rest == [res EXCEPT !["dashboard"] = Plain("NONE")]
<1>1. rest \in [Component -> Result]
  BY Outcomes
<1>2. res["dashboard"].status = "NONE" /\ "daily" \in Component /\ "backup" \in Component
  BY Order DEF Reached
<1>3. Failed(rest) = Failed(res) /\ \A c \in Failed(res) : rest[c] = res[c]
  BY <1>2 DEF Failed, Plain
<1>4. /\ "daily" \in Failed(res) => res["daily"].severity = "CRITICAL"
      /\ "backup" \in Failed(res) /\ res["backup"].retry = "PERMANENT"
            => res["backup"].severity = "CRITICAL"
  BY DEF Failed, Guarded
<1> HIDE DEF rest
<1>5. /\ Verdict(rest) = "FAILED" <=> \E c \in Failed(res) : res[c].severity = "CRITICAL"
      /\ Verdict(rest) = "SUCCESS" <=> Failed(res) = {}
  BY <1>1, <1>3, Verdicts
<1>6. /\ Overall(res, flawed) = "FAIL" <=> \E c \in Failed(res) : res[c].severity = "CRITICAL"
      /\ Overall(res, flawed) = "OK" => Failed(res) = {}
  BY <1>4 DEF Overall
<1> QED
  BY <1>5, <1>6 DEF Fits, rest

\* A run that takes down an outcome is where its list says.
LEMMA NotedShape ==
    ASSUME TypeOK, NEW r \in Run, Shape(proc[r]), NEW i \in 1 .. 9, NEW result \in Result,
           proc[r].pc = Pipeline[i] \/ (i = 9 /\ proc[r].pc \in {"drained", "record", "queue"}),
           result.status # "NONE",
           Guarded([proc[r].results EXCEPT ![Pipeline[i]] = result])
    PROVE  Shape(Noted(r, Pipeline[i], result))
<1> DEFINE p == Noted(r, Pipeline[i], result)
<1>1. proc[r].results \in [Component -> Result]
  BY DEF TypeOK, Process
<1>2. Reached(proc[r].results, i - 1) /\ ~proc[r].raised
  BY Order, Distinct DEF Shape
<1>3. Reached(p.results, i)
  BY <1>1, <1>2, Advances DEF Noted
<1>4. /\ p.pc = IF i = 9 THEN "release" ELSE Pipeline[i + 1]
      /\ p.current = IF i = 9 THEN NoComponent ELSE Pipeline[i + 1]
  BY Follows, Distinct, Order DEF Noted
<1>5. ~p.raised /\ Guarded(p.results)
  BY <1>2 DEF Noted
<1> SUFFICES Shape(p)
  OBVIOUS
<1> HIDE DEF p
<1>6. CASE i = 9
  BY <1>3, <1>4, <1>5, <1>6, Distinct, Order DEF Shape
<1>7. CASE i # 9
  <2>1. i + 1 \in 1 .. 9 /\ p.pc = Pipeline[i + 1] /\ p.current = Pipeline[i + 1] /\ i + 1 - 1 = i
    BY <1>4, <1>7
  <2>2. p.pc \in Component
    BY <2>1, Distinct
  <2>3. p.pc \notin {"off", "lock", "drained", "record", "queue", "release", "write"}
    BY <2>2, Order
  <2>4. \A j \in 1 .. 9 : p.pc = Pipeline[j] => j = i + 1
    BY <2>1, Distinct
  <2> QED
    BY <1>3, <1>5, <2>1, <2>3, <2>4 DEF Shape
<1> QED
  BY <1>6, <1>7

-----------------------------------------------------------------------------
\* A step of one process that leaves the files and Notion alone.
LEMMA Alone ==
    ASSUME IInv, NEW r \in Run, NEW p, Touches(r, p),
           UNCHANGED <<configured, manifest, pending, legible, overall, rows>>,
           holder' \in 0 .. LastRun + 1, MutexInv',
           proc[r].pc # "off", p.pc # "off", p.before = proc[r].before,
           proc[r].pc \in Over => p.pc \in Over,
           Shape(p), RowOf(r, p), KnowsOwn(r, p), Tells(r, p)
    PROVE  IInv'
<1> USE DEF IInv, Touches
<1>1. TypeOK'
  BY DEF TypeOK
<1>2. ShapeInv'
  BY DEF ShapeInv
<1>3. Referenced' = Referenced
  BY DEF Referenced, Alive, At
<1>4. \A q \in Run : RowOf(q, proc[q])'
  BY DEF RowsInv, RowOf, Sent
<1>5. RowsInv'
  BY <1>3, <1>4 DEF RowsInv
<1>6. ManifestInv'
  BY DEF ManifestInv, Readable, Sent
<1>7. KnowsInv'
  BY DEF KnowsInv, KnowsOwn
<1>8. ExitTellsTheRun'
  BY DEF ExitTellsTheRun, Tells, At
<1> QED
  BY <1>1, <1>2, <1>5, <1>6, <1>7, <1>8

\* A step that is taken down, and leaves the files and Notion alone.
LEMMA NotedAlone ==
    ASSUME IInv, NEW r \in Run, NEW i \in 1 .. 9, NEW result \in Result,
           Conclude(r, Pipeline[i], result),
           UNCHANGED <<configured, holder, manifest, pending, legible, overall, rows>>,
           proc[r].pc = Pipeline[i] \/ (i = 9 /\ proc[r].pc \in {"drained", "record", "queue"}),
           result.status # "NONE",
           Pipeline[i] = "dashboard" =>
              result.status # "SUCCESS" /\ (result.retry = "RETRYABLE" => overall[r] = "-"),
           Guarded([proc[r].results EXCEPT ![Pipeline[i]] = result])
    PROVE  IInv'
<1> DEFINE p == Noted(r, Pipeline[i], result)
<1>1. TypeOK /\ Shape(proc[r]) /\ RowOf(r, proc[r])
  BY DEF IInv, ShapeInv, RowsInv
<1>2. Pipeline[i] \in Component
  BY Distinct
<1>3. Touches(r, p)
  BY <1>1, <1>2, Concludes
<1>4. Shape(p)
  BY <1>1, NotedShape
<1>5. p.pc \notin {"off", "lock", "drained", "record", "queue", "write", "report", "exited"}
  BY <1>2, AfterIsPhase, Order DEF Noted
<1>6. proc[r].pc \in Working /\ proc[r].pc \notin Over
  BY <1>2, Order DEF Working, Over
<1>7. proc[r].results \in [Component -> Result]
  BY <1>1 DEF TypeOK, Process
<1>8. Fits(overall[r], p.results)
  <2>1. CASE i = 9
    <3>1. Fits(overall[r], proc[r].results)
      BY <1>1, <1>6 DEF RowOf, Over
    <3> QED
      BY <1>7, <2>1, <3>1, FitsWithout, Order DEF Noted
  <2>2. CASE i # 9
    BY <1>1, <1>2, <2>2 DEF RowOf, Fits
  <2> QED
    BY <2>1, <2>2
<1>9. Sent(r, p.results)
  BY <1>1, <1>7, Order DEF RowOf, Sent, Noted
<1>10. p.pc \in Component \/ p.raised => overall[r] = "-"
  <2>1. i # 9 \/ proc[r].raised => overall[r] = "-"
    BY <1>1, <1>2 DEF RowOf
  <2>2. i = 9 => p.pc = "release"
    BY Follows, Order DEF Noted
  <2>3. "release" \notin Component /\ p.raised = proc[r].raised
    BY Order DEF Noted
  <2> QED
    BY <2>1, <2>2, <2>3
<1>11. RowOf(r, p)
  BY <1>5, <1>8, <1>9, <1>10 DEF RowOf, Noted
<1>12. KnowsOwn(r, p) /\ Tells(r, p)
  BY <1>5 DEF KnowsOwn, Tells
<1>13. MutexInv'
  BY <1>3, <1>6 DEF IInv, MutexInv, Touches
<1>14. holder' \in 0 .. LastRun + 1 /\ p.before = proc[r].before
  BY <1>1 DEF TypeOK, Noted
<1> HIDE DEF p
<1> QED
  BY <1>3, <1>4, <1>5, <1>6, <1>11, <1>12, <1>13, <1>14, Alone DEF Over

-----------------------------------------------------------------------------
\* The steps before the Dashboard.
LEMMA PipelineStep ==
    ASSUME IInv, NEW r \in Run, Succeed(r) \/ Fail(r)
    PROVE  IInv'
<1>1. InPipeline(r) /\ UNCHANGED <<configured, holder, manifest, pending, legible, overall, rows>>
  BY DEF Succeed, Fail, disk, notion
<1>2. PICK i \in 1 .. 9 : Pipeline[i] = proc[r].pc
  BY <1>1, Place DEF InPipeline
<1>3. i # 9
  BY <1>1, <1>2, Order DEF InPipeline
<1>4. Guarded(proc[r].results) /\ proc[r].results \in [Component -> Result]
  BY DEF IInv, ShapeInv, Shape, TypeOK, Process
<1>5. CASE Succeed(r)
  <2> DEFINE result == Plain(IF Optional(proc[r].pc) THEN "SKIPPED" ELSE "SUCCESS")
  <2>1. Conclude(r, Pipeline[i], result)
    BY <1>2, <1>5 DEF Succeed
  <2>2. result \in Result /\ result.status # "NONE"
    BY Outcomes DEF Plain
  <2>3. Guarded([proc[r].results EXCEPT ![Pipeline[i]] = result])
    BY <1>2, <1>4, Order, Distinct DEF Guarded, Plain, Optional
  <2>4. Pipeline[i] # "dashboard"
    BY <1>3, Order, Distinct
  <2> HIDE DEF result
  <2> QED
    BY <1>1, <1>2, <2>1, <2>2, <2>3, <2>4, NotedAlone
<1>6. CASE Fail(r)
  <2>1. PICK failure \in GoesOnWith(proc[r].pc) : Conclude(r, proc[r].pc, failure)
    BY <1>6 DEF Fail
  <2>2. failure \in Result
    BY <1>2, <2>1, Outcomes, Distinct
  <2>3. failure.status # "NONE"
    BY <2>1 DEF GoesOnWith, Failure
  <2>4. Guarded([proc[r].results EXCEPT ![Pipeline[i]] = failure])
    BY <1>2, <1>4, <2>1, Order, Distinct DEF Guarded, Failure, GoesOnWith
  <2>5. Pipeline[i] # "dashboard"
    BY <1>3, Order, Distinct
  <2> QED
    BY <1>1, <1>2, <2>1, <2>2, <2>3, <2>4, <2>5, NotedAlone
<1> QED
  BY <1>5, <1>6

\* A run that raises in a step.
LEMMA RaiseStep ==
    ASSUME IInv, NEW r \in Run, Abort(r) \/ BackupRaises(r)
    PROVE  IInv'
<1>1. UNCHANGED <<configured, holder, manifest, pending, legible, overall, rows>>
  BY DEF Abort, BackupRaises, disk, notion
<1>2. InPipeline(r)
  BY Order DEF Abort, BackupRaises, InPipeline, At
<1>3. TypeOK /\ Shape(proc[r]) /\ RowOf(r, proc[r])
  BY DEF IInv, ShapeInv, RowsInv
<1>4. proc[r].results \in [Component -> Result]
  BY <1>3 DEF TypeOK, Process
<1>5. PICK i \in 1 .. 9 : Pipeline[i] = proc[r].pc
  BY <1>2, Place DEF InPipeline
<1>6. i \in 1 .. 8
  BY <1>2, <1>5, Order DEF InPipeline
<1>7. proc[r].current = Pipeline[i] /\ Reached(proc[r].results, i - 1)
  BY <1>3, <1>5 DEF Shape
<1>8. overall[r] = "-" /\ proc[r].drained = {}
  BY <1>2, <1>3, Order DEF RowOf, InPipeline
<1>9. "release" \in Phase /\ "release" \notin Component /\ holder' \in 0 .. LastRun + 1
  BY <1>1, <1>3, Order DEF Phase, TypeOK
<1>10. proc[r].pc \in Working \ (Over \cup {"off"})
  BY <1>2, Order DEF InPipeline, Working, Over
<1>11. ASSUME NEW p, Touches(r, p), p.pc = "release" PROVE MutexInv'
  BY <1>1, <1>10, <1>11 DEF IInv, MutexInv, Touches
<1>12. CASE Abort(r)
  <2> DEFINE p == [pc |-> "release", before |-> proc[r].before, current |-> proc[r].current,
                   results |-> proc[r].results, raised |-> TRUE, exit |-> proc[r].exit,
                   drained |-> proc[r].drained]
  <2>1. Touches(r, p)
    BY <1>3, <1>9, <1>12, Breaks DEF Abort
  <2>2. Pipeline[i] \notin CatchesAll
    BY <1>5, <1>12 DEF Abort
  <2>3. Shape(p)
    BY <1>3, <1>6, <1>7, <1>9, <2>2, Distinct DEF Shape
  <2>4. RowOf(r, p)
    BY <1>3, <1>8 DEF RowOf, Fits, Sent
  <2>5. KnowsOwn(r, p) /\ Tells(r, p)
    BY DEF KnowsOwn, Tells
  <2> QED
    BY <1>1, <1>9, <1>10, <1>11, <2>1, <2>3, <2>4, <2>5, Alone DEF Over
<1>13. CASE BackupRaises(r)
  <2>1. PICK failure \in GoesOnWith("backup") :
          proc' = [proc EXCEPT ![r].results["backup"] = failure,
                               ![r].current = NoComponent,
                               ![r].raised = TRUE,
                               ![r].pc = "release"]
    BY <1>13 DEF BackupRaises
  <2>2. failure \in Result /\ "backup" \in Component
    BY <2>1, Outcomes, Order
  <2>3. /\ failure.status = "FAILED"
        /\ failure.severity = "CRITICAL" \/ failure.retry = "RETRYABLE"
    BY <2>1 DEF GoesOnWith, Failure
  <2> DEFINE res == [proc[r].results EXCEPT !["backup"] = failure]
             p == [pc |-> "release", before |-> proc[r].before, current |-> NoComponent,
                   results |-> res, raised |-> TRUE, exit |-> proc[r].exit,
                   drained |-> proc[r].drained]
  <2>4. Touches(r, p)
    BY <1>3, <2>1, <2>2, Fails
  <2>5. i = 8
    <3>1. proc[r].pc = "backup"
      BY <1>13 DEF BackupRaises, At
    <3>2. Pipeline[i] = Pipeline[8] /\ 8 \in 1 .. 9
      BY <1>5, <3>1, Order
    <3> QED
      BY <3>2, Distinct
  <2>6. Reached(res, 8)
    BY <1>4, <1>7, <2>2, <2>3, <2>5, Advances, Order
  <2>7. Guarded(res) /\ res["backup"].status = "FAILED" /\ res["dashboard"] = proc[r].results["dashboard"]
    BY <1>3, <1>4, <2>2, <2>3, Order DEF Guarded, Shape
  <2> HIDE DEF res
  <2>8. Shape(p)
    BY <1>9, <2>6, <2>7, Distinct DEF Shape
  <2>9. RowOf(r, p)
    BY <1>3, <1>8, <2>7 DEF RowOf, Fits, Sent
  <2>10. KnowsOwn(r, p) /\ Tells(r, p)
    BY DEF KnowsOwn, Tells
  <2> QED
    BY <1>1, <1>9, <1>10, <1>11, <2>4, <2>8, <2>9, <2>10, Alone DEF Over, res
<1> QED
  BY <1>12, <1>13

\* The steps around the lock, and those that only move a process on.
LEMMA MoveStep ==
    ASSUME IInv, NEW r \in Run,
           Acquire(r) \/ FailsEarly(r) \/ NothingToDrain(r) \/ Release(r)
    PROVE  IInv'
<1>1. UNCHANGED <<configured, manifest, pending, legible, overall, rows>>
  BY DEF Acquire, FailsEarly, NothingToDrain, Release, disk, notion
<1>2. TypeOK /\ Shape(proc[r]) /\ RowOf(r, proc[r]) /\ KnowsOwn(r, proc[r])
  BY DEF IInv, ShapeInv, RowsInv, KnowsInv
<1>3. proc[r] \in Process
  BY <1>2 DEF TypeOK
<1>4. {"record", "write", "report"} \subseteq Phase /\ {"record", "write", "report"} \cap Component = {}
  BY Order DEF Phase
<1>5. holder' \in 0 .. LastRun + 1
  <2>1. holder' \in {holder, r, NoRun}
    BY DEF Acquire, FailsEarly, NothingToDrain, Release, disk
  <2> QED
    BY <1>2, <2>1, Names DEF TypeOK
<1>6. CASE Acquire(r)
  <2> DEFINE p == [pc |-> Pipeline[1], before |-> proc[r].before, current |-> Pipeline[1],
                   results |-> proc[r].results, raised |-> proc[r].raised,
                   exit |-> proc[r].exit, drained |-> proc[r].drained]
  <2>1. Touches(r, p)
    BY <1>2, <1>6, Enters DEF Acquire
  <2>2. proc[r].results = Nothing /\ ~proc[r].raised
    BY <1>2, <1>6 DEF Shape, Acquire, At
  <2>3. Reached(Nothing, 0)
    BY Distinct DEF Reached, Nothing, Plain
  <2>4. Shape(p)
    BY <1>2, <2>2, <2>3, Distinct, Order DEF Shape
  <2>5. RowOf(r, p) /\ KnowsOwn(r, p) /\ Tells(r, p)
    BY <1>2, <1>6, Order DEF RowOf, KnowsOwn, Tells, Acquire, At
  <2>6. MutexInv'
    <3>1. holder' = r /\ \A q \in Run : holder = q => proc[q].pc = "off"
      BY <1>6 DEF Acquire, Locked, Alive, At
    <3>2. "off" \notin Working
      BY Order DEF Working
    <3> QED
      BY <2>1, <3>1, <3>2 DEF IInv, MutexInv, Touches
  <2>7. proc[r].pc = "lock" /\ p.pc \notin {"off", "lock"}
    BY <1>6, Order DEF Acquire, At
  <2> QED
    BY <1>1, <1>5, <2>1, <2>4, <2>5, <2>6, <2>7, Alone DEF Over
<1>7. CASE FailsEarly(r)
  <2> DEFINE p == [pc |-> "report", before |-> proc[r].before, current |-> proc[r].current,
                   results |-> proc[r].results, raised |-> TRUE,
                   exit |-> proc[r].exit, drained |-> proc[r].drained]
  <2>1. Touches(r, p)
    BY <1>2, <1>4, <1>7, Breaks DEF FailsEarly
  <2>2. proc[r].pc = "lock" /\ "lock" \notin Over
    BY <1>7 DEF FailsEarly, At, Over
  <2>3. manifest.run # r
    BY <2>2 DEF IInv, ManifestInv, Readable
  <2>4. Shape(p)
    BY <1>2, <1>4, Distinct DEF Shape
  <2>5. RowOf(r, p) /\ KnowsOwn(r, p) /\ Tells(r, p)
    BY <1>2, <2>2, <2>3 DEF RowOf, KnowsOwn, Tells
  <2>6. MutexInv'
    BY <1>4, <1>7, <2>1 DEF IInv, MutexInv, FailsEarly, disk, Touches, Working
  <2> QED
    BY <1>1, <1>5, <2>1, <2>2, <2>4, <2>5, <2>6, Alone
<1>8. CASE NothingToDrain(r)
  <2> DEFINE p == [pc |-> "record", before |-> proc[r].before, current |-> proc[r].current,
                   results |-> proc[r].results, raised |-> proc[r].raised,
                   exit |-> proc[r].exit, drained |-> proc[r].drained]
  <2>1. Touches(r, p)
    BY <1>2, <1>4, <1>8, Moves DEF NothingToDrain, Goto
  <2>2. proc[r].pc = "dashboard" /\ "dashboard" \notin Over
    BY <1>8 DEF NothingToDrain, At, Over
  <2>3. /\ ~proc[r].raised /\ proc[r].current = "dashboard"
        /\ Reached(proc[r].results, 8)
    BY <1>2, <2>2, Order DEF Shape
  <2>4. Shape(p)
    BY <1>2, <1>4, <2>3, Distinct DEF Shape
  <2>5. RowOf(r, p) /\ KnowsOwn(r, p) /\ Tells(r, p)
    BY <1>2, <2>2, Order DEF RowOf, KnowsOwn, Tells
  <2>6. MutexInv'
    BY <1>8, <2>1, <2>2, Order DEF IInv, MutexInv, NothingToDrain, disk, Touches, Working
  <2> QED
    BY <1>1, <1>5, <2>1, <2>2, <2>4, <2>5, <2>6, Alone
<1>9. CASE Release(r)
  <2> DEFINE p == [pc |-> "write", before |-> proc[r].before, current |-> proc[r].current,
                   results |-> proc[r].results, raised |-> proc[r].raised,
                   exit |-> proc[r].exit, drained |-> proc[r].drained]
  <2>1. Touches(r, p)
    BY <1>2, <1>4, <1>9, Moves DEF Release, Goto
  <2>2. proc[r].pc = "release" /\ "release" \notin Over
    BY <1>9 DEF Release, At, Over
  <2>3. Shape(p)
    BY <1>2, <1>4, <2>2, Distinct DEF Shape
  <2>4. RowOf(r, p) /\ KnowsOwn(r, p) /\ Tells(r, p)
    BY <1>2, <1>4, <2>2 DEF RowOf, KnowsOwn, Tells
  <2>5. MutexInv'
    BY <1>4, <1>9, <2>1, <2>2 DEF IInv, MutexInv, Release, Touches, Working
  <2> QED
    BY <1>1, <1>5, <2>1, <2>2, <2>3, <2>4, <2>5, Alone
<1> QED
  BY <1>6, <1>7, <1>8, <1>9

\* The Dashboard step comes to nothing.
LEMMA DashboardStep ==
    ASSUME IInv, NEW r \in Run,
           SkipDashboard(r) \/ DashboardBreaks(r) \/ BuildFails(r) \/ QueueFails(r)
    PROVE  IInv'
<1>1. UNCHANGED <<configured, holder, manifest, pending, legible, overall, rows>>
  BY DEF SkipDashboard, DashboardBreaks, BuildFails, QueueFails, disk, notion
<1>2. PICK result \in {Plain("SKIPPED"), Failure("DEGRADED", "UNKNOWN"),
                        Failure("DEGRADED", "RETRYABLE")} :
         /\ Conclude(r, "dashboard", result)
         /\ result = Failure("DEGRADED", "RETRYABLE") => At(r, "record")
  <2>1. CASE SkipDashboard(r)
    BY <2>1 DEF SkipDashboard, Plain, Failure
  <2>2. CASE DashboardBreaks(r) \/ QueueFails(r)
    <3>1. Conclude(r, "dashboard", Failure("DEGRADED", "UNKNOWN"))
      BY <2>2 DEF DashboardBreaks, QueueFails
    <3>2. Failure("DEGRADED", "UNKNOWN") # Failure("DEGRADED", "RETRYABLE")
      BY DEF Failure
    <3> QED
      BY <3>1, <3>2
  <2>3. CASE BuildFails(r)
    BY <2>3 DEF BuildFails
  <2> QED
    BY <2>1, <2>2, <2>3
<1>3. /\ result \in Result /\ result.status \notin {"NONE", "SUCCESS"}
      /\ result.retry = "RETRYABLE" => result.status = "FAILED" /\ overall[r] = "-"
  <2>1. proc[r].pc = "record" => overall[r] = "-"
    BY Order DEF IInv, RowsInv, RowOf
  <2> QED
    BY <1>2, <2>1, Outcomes DEF Plain, Failure, At
<1>4. proc[r].pc \in {"dashboard", "drained", "record", "queue"}
  BY DEF SkipDashboard, DashboardBreaks, BuildFails, QueueFails, At
<1>5. Guarded([proc[r].results EXCEPT !["dashboard"] = result])
  BY <1>3, Order DEF IInv, ShapeInv, Shape, Guarded, TypeOK, Process
<1>6. 9 \in 1 .. 9 /\ Pipeline[9] = "dashboard"
  BY Order
<1> QED
  BY <1>1, <1>2, <1>3, <1>4, <1>5, <1>6, NotedAlone

-----------------------------------------------------------------------------
\* A step of the run that has the lock, with the rows and the file of those that
\* wait: what others rely on stays.
LEMMA AtWork ==
    ASSUME IInv, NEW r \in Run, NEW p, Touches(r, p),
           UNCHANGED <<configured, holder, manifest, legible>>,
           proc[r].pc \in Working, p.pc \in Working, p.before = proc[r].before,
           pending' \subseteq pending \cup {r}, rows' \subseteq rows \cup pending \cup {r},
           rows' \subseteq Referenced',
           overall' \in [Run -> {"-", "OK", "WARN", "FAIL"}],
           \A q \in Run : q # r =>
               \/ /\ overall'[q] = overall[q] /\ q \in Referenced'
                  /\ q \in rows => q \in rows'
                  /\ q \in pending => q \in pending' \cup rows'
               \/ overall'[q] = "-" /\ q \notin Referenced',
           Shape(p), RowOf(r, proc[r])'
    PROVE  IInv'
<1> USE DEF IInv, Touches
<1>1. "off" \notin Working /\ {"report", "exited"} \cap Working = {}
  BY Order DEF Working
<1>2. pending' \subseteq Run /\ rows' \subseteq Run
  BY DEF TypeOK
<1>3. r \in Referenced' /\ Referenced' \subseteq Run /\ TypeOK'
  BY <1>1, <1>2 DEF TypeOK, Referenced, Alive, At
<1>4. MutexInv' /\ \A q \in Run : q # r => proc[q].pc \notin Working
  BY DEF MutexInv
<1>5. ShapeInv'
  BY DEF ShapeInv
<1>6. \A q \in Run : q # r => RowOf(q, proc[q])'
  <2>1. SUFFICES ASSUME NEW q \in Run, q # r PROVE RowOf(q, proc[q])'
    OBVIOUS
  <2>2. RowOf(q, proc[q]) /\ proc'[q] = proc[q] /\ Shape(proc[q])
    BY <2>1 DEF RowsInv, ShapeInv
  <2>3. proc[q].drained = {}
    BY <1>4, <2>1, <2>2 DEF RowOf, Working
  <2>4. CASE q \in Referenced'
    <3>1. /\ overall'[q] = overall[q]
          /\ q \in rows => q \in rows'
          /\ q \in pending => q \in pending' \cup rows'
      BY <2>1, <2>4
    <3> QED
      BY <2>2, <2>3, <3>1 DEF RowOf, Sent
  <2>5. CASE q \notin Referenced'
    <3>1. proc[q].pc = "off" /\ overall'[q] = "-"
      BY <2>1, <2>2, <2>5 DEF Referenced, Alive, At
    <3>2. proc[q].results = Nothing
      BY <2>2, <3>1 DEF Shape, NoProcess
    <3>3. Sent(q, Nothing)'
      BY Order DEF Sent, Nothing, Plain
    <3> QED
      BY <2>2, <2>3, <3>1, <3>2, <3>3 DEF RowOf, Fits
  <2> QED
    BY <2>4, <2>5
<1>7. RowsInv'
  BY <1>3, <1>6 DEF RowsInv
<1>8. Readable => manifest.run # r /\ proc'[manifest.run] = proc[manifest.run]
  BY <1>1 DEF ManifestInv, Readable, Over
<1>9. ManifestInv'
  <2> SUFFICES ASSUME Readable
               PROVE  ManifestInv'
    BY DEF ManifestInv, Readable
  <2>1. manifest.run \in Run /\ manifest.run \in Referenced'
    BY DEF Readable, Referenced
  <2>2. /\ overall'[manifest.run] = overall[manifest.run]
        /\ manifest.run \in rows => manifest.run \in rows'
        /\ manifest.run \in pending => manifest.run \in pending' \cup rows'
    BY <1>8, <2>1
  <2> QED
    BY <1>8, <2>2 DEF ManifestInv, Sent, Readable
<1>10. KnowsInv'
  BY <1>1, <1>8 DEF KnowsInv, KnowsOwn, Over, Readable
<1>11. ExitTellsTheRun'
  BY <1>1 DEF ExitTellsTheRun, At
<1> QED
  BY <1>3, <1>4, <1>5, <1>7, <1>9, <1>10, <1>11

\* The rows that wait are sent, and the file keeps those that were refused.
LEMMA DrainStep ==
    ASSUME IInv, NEW r \in Run, Drain(r) \/ SaveDrained(r)
    PROVE  IInv'
<1>1. TypeOK /\ Shape(proc[r]) /\ RowOf(r, proc[r]) /\ proc[r] \in Process
  BY DEF IInv, ShapeInv, RowsInv, TypeOK
<1>2. UNCHANGED <<configured, holder, manifest, legible>>
  BY DEF Drain, SaveDrained, disk
<1>3. {"drained", "record"} \subseteq Phase \cap Working /\ {"drained", "record"} \cap Component = {}
  BY Order DEF Phase, Working
<1>4. CASE Drain(r)
  <2>1. PICK sent \in SUBSET pending : \E lost \in SUBSET sent :
            /\ rows' = rows \cup sent
            /\ proc' = [proc EXCEPT ![r].drained = sent \ lost, ![r].pc = "drained"]
    BY <1>4 DEF Drain
  <2>2. PICK lost \in SUBSET sent :
            proc' = [proc EXCEPT ![r].drained = sent \ lost, ![r].pc = "drained"]
    BY <2>1
  <2> DEFINE D == sent \ lost
             p == [pc |-> "drained", before |-> proc[r].before, current |-> proc[r].current,
                   results |-> proc[r].results, raised |-> proc[r].raised,
                   exit |-> proc[r].exit, drained |-> D]
  <2>3. D \in SUBSET Run
    BY <1>1 DEF TypeOK
  <2>4. Touches(r, p)
    BY <1>1, <1>3, <2>2, <2>3, Drains
  <2>5. proc[r].pc = "dashboard" /\ "dashboard" \in Working /\ UNCHANGED <<pending, overall>>
    BY <1>4, Order DEF Drain, At, Working, disk
  <2>6. Shape(p)
    BY <1>1, <1>3, <2>5, Distinct, Order DEF Shape
  <2>7. D \subseteq pending' \cap rows'
    BY <2>1, <2>5
  <2>8. RowOf(r, proc[r])'
    BY <1>1, <1>3, <2>1, <2>4, <2>5, <2>7, Order DEF RowOf, Sent, Touches
  <2>9. Referenced' = Referenced
    BY <1>2, <2>4, <2>5 DEF Referenced, Alive, At, Touches
  <2>10. rows' \subseteq Referenced'
    BY <2>1, <2>9 DEF IInv, RowsInv, Referenced
  <2>11. \A q \in Run : overall[q] # "-" => q \in Referenced'
    BY <2>9 DEF IInv, RowsInv
  <2> HIDE DEF p
  <2> QED
    BY <1>1, <1>2, <1>3, <2>1, <2>4, <2>5, <2>6, <2>8, <2>10, <2>11, AtWork DEF TypeOK, p
<1>5. CASE SaveDrained(r)
  <2>1. /\ proc' = [proc EXCEPT ![r].drained = {}, ![r].pc = "record"]
        /\ pending' \in {pending, pending \ proc[r].drained}
        /\ Archive /\ proc[r].pc = "drained"
    BY <1>5 DEF SaveDrained, At
  <2> DEFINE p == [pc |-> "record", before |-> proc[r].before, current |-> proc[r].current,
                   results |-> proc[r].results, raised |-> proc[r].raised,
                   exit |-> proc[r].exit, drained |-> {}]
  <2>2. Touches(r, p)
    BY <1>1, <1>3, <2>1, Drains
  <2>3. Shape(p)
    BY <1>1, <1>3, <2>1, Distinct, Order DEF Shape
  <2>4. r \in Referenced'
    BY <2>2 DEF Touches, Referenced, Alive, At
  <2>5. /\ rows' = rows \cap Referenced'
        /\ overall' = [q \in Run |-> IF q \in Referenced' THEN overall[q] ELSE "-"]
    BY <2>1 DEF Archive
  <2>6. overall' \in [Run -> {"-", "OK", "WARN", "FAIL"}]
    BY <1>1, <2>5 DEF TypeOK
  <2>7. pending' \subseteq pending /\ rows' \subseteq rows \cap Referenced'
    BY <2>1, <2>5
  <2>8. \A q \in Run : q # r =>
               \/ /\ overall'[q] = overall[q] /\ q \in Referenced'
                  /\ q \in rows => q \in rows'
                  /\ q \in pending => q \in pending' \cup rows'
               \/ overall'[q] = "-" /\ q \notin Referenced'
    BY <1>1, <2>1, <2>5 DEF RowOf
  <2>9. RowOf(r, proc[r])'
    BY <1>1, <1>3, <2>1, <2>2, <2>4, <2>5 DEF RowOf, Sent, Touches
  <2> HIDE DEF p
  <2> QED
    BY <1>2, <1>3, <2>1, <2>2, <2>3, <2>6, <2>7, <2>8, <2>9, AtWork DEF p
<1> QED
  BY <1>4, <1>5

\* The row of a run is built, and goes to Notion or to the file of those that wait.
LEMMA RecordStep ==
    ASSUME IInv, NEW r \in Run, Record(r) \/ RecordFails(r) \/ Queue(r)
    PROVE  IInv'
<1>1. TypeOK /\ Shape(proc[r]) /\ RowOf(r, proc[r]) /\ proc[r] \in Process
  BY DEF IInv, ShapeInv, RowsInv, TypeOK
<1>2. UNCHANGED <<configured, holder, manifest, legible>>
  BY DEF Record, RecordFails, Queue, disk
<1>3. proc[r].pc \in {"record", "queue"} /\ {"record", "queue", "release"} \subseteq Phase \cap Working
  BY Order DEF Record, RecordFails, Queue, At, Phase, Working
<1>4. /\ Reached(proc[r].results, 8) /\ Guarded(proc[r].results) /\ ~proc[r].raised
      /\ proc[r].current = "dashboard" /\ proc[r].drained = {}
      /\ proc[r].results \in [Component -> Result]
  BY <1>1, <1>3, Order DEF Shape, RowOf, Process
<1>5. \A flawed \in BOOLEAN :
        /\ Overall(proc[r].results, flawed) \in {"OK", "WARN", "FAIL"}
        /\ Fits(Overall(proc[r].results, flawed), proc[r].results)
  BY <1>4, BuiltFits DEF Overall
<1>6. 9 \in 1 .. 9 /\ Pipeline[9] = "dashboard" /\ "dashboard" \in Component
  BY Order
<1>7. ASSUME NEW p, Touches(r, p), p.pc # "off"
      PROVE  /\ r \in Referenced'
             /\ pending' \subseteq pending \cup {r} => Referenced \ pending \subseteq Referenced'
             /\ pending \subseteq pending' => Referenced \subseteq Referenced'
  BY <1>2, <1>7 DEF Referenced, Alive, At, Touches
<1>8. ASSUME NEW result \in Result, Conclude(r, "dashboard", result), result.status # "NONE",
             result.retry = "RETRYABLE" => result.status = "FAILED"
      PROVE  /\ Touches(r, Noted(r, "dashboard", result)) /\ Shape(Noted(r, "dashboard", result))
             /\ Noted(r, "dashboard", result).pc = "release"
             /\ Noted(r, "dashboard", result).before = proc[r].before
             /\ ~Noted(r, "dashboard", result).raised
             /\ Noted(r, "dashboard", result).drained = {}
             /\ Noted(r, "dashboard", result).results["dashboard"] = result
             /\ \A row : Fits(row, proc[r].results) =>
                            Fits(row, Noted(r, "dashboard", result).results)
  <2>1. Touches(r, Noted(r, "dashboard", result))
    BY <1>1, <1>6, <1>8, Concludes
  <2>2. Guarded([proc[r].results EXCEPT !["dashboard"] = result])
    BY <1>4, <1>8, Order DEF Guarded
  <2>3. Shape(Noted(r, "dashboard", result))
    BY <1>1, <1>3, <1>6, <1>8, <2>2, NotedShape
  <2>4. After("dashboard") = "release"
    BY <1>6, Follows
  <2>5. \A row : Fits(row, proc[r].results) =>
                            Fits(row, [proc[r].results EXCEPT !["dashboard"] = result])
    BY <1>4, FitsWithout
  <2> QED
    BY <1>4, <1>6, <2>1, <2>3, <2>4, <2>5 DEF Noted
<1>9. "release" \notin Component /\ "queue" \notin Component /\ "-" \notin {"OK", "WARN", "FAIL"}
  BY Order
<1>10. CASE Record(r)
  <2>1. PICK flawed \in BOOLEAN : Build(r, flawed)
    BY <1>10 DEF Record
  <2> DEFINE result == Plain("SUCCESS")
             p == Noted(r, "dashboard", result)
             row == Overall(proc[r].results, flawed)
  <2>2. /\ Conclude(r, "dashboard", result) /\ rows' = rows \cup {r} /\ UNCHANGED pending
        /\ result \in Result /\ result.status = "SUCCESS" /\ result.retry = "-"
    BY <1>10, Outcomes DEF Record, disk, Plain
  <2> HIDE DEF result
  <2>3. overall' = [overall EXCEPT ![r] = row]
    BY <2>1 DEF Build
  <2>4. /\ Touches(r, p) /\ Shape(p) /\ p.pc = "release" /\ p.before = proc[r].before
        /\ ~p.raised /\ p.drained = {} /\ p.results["dashboard"] = result /\ Fits(row, p.results)
    BY <1>5, <1>8, <2>2
  <2> HIDE DEF p, row
  <2>5. Referenced \subseteq Referenced' /\ r \in Referenced'
    BY <1>7, <2>2, <2>4
  <2>6. row \in {"OK", "WARN", "FAIL"}
    BY <1>5 DEF row
  <2>7. /\ overall' \in [Run -> {"-", "OK", "WARN", "FAIL"}] /\ overall'[r] = row
        /\ \A q \in Run : q # r => overall'[q] = overall[q]
    BY <1>1, <2>3, <2>6 DEF TypeOK
  <2>8. RowOf(r, proc[r])'
    BY <1>9, <2>2, <2>4, <2>7 DEF RowOf, Sent, Touches
  <2>9. rows' \subseteq Referenced' /\ \A q \in Run : overall[q] # "-" => q \in Referenced'
    BY <2>2, <2>5 DEF IInv, RowsInv
  <2> QED
    BY <1>2, <1>3, <2>2, <2>4, <2>7, <2>8, <2>9, AtWork
<1>11. CASE RecordFails(r)
  <2>1. PICK flawed \in BOOLEAN : Build(r, flawed)
    BY <1>11 DEF RecordFails
  <2> DEFINE p == [pc |-> "queue", before |-> proc[r].before, current |-> proc[r].current,
                   results |-> proc[r].results, raised |-> proc[r].raised,
                   exit |-> proc[r].exit, drained |-> proc[r].drained]
             row == Overall(proc[r].results, flawed)
  <2>2. rows' \in {rows, rows \cup {r}} /\ UNCHANGED pending
    BY <1>11 DEF RecordFails, disk
  <2>3. overall' = [overall EXCEPT ![r] = row]
    BY <2>1 DEF Build
  <2>4. Touches(r, p)
    BY <1>1, <1>3, <1>11, Moves DEF RecordFails, Goto
  <2>5. Shape(p)
    BY <1>1, <1>4, <1>9, Distinct DEF Shape
  <2>6. Referenced \subseteq Referenced' /\ r \in Referenced'
    BY <1>7, <2>2, <2>4
  <2>7. row \in {"OK", "WARN", "FAIL"} /\ Fits(row, p.results)
    BY <1>5
  <2> HIDE DEF row
  <2>8. /\ overall' \in [Run -> {"-", "OK", "WARN", "FAIL"}] /\ overall'[r] = row
        /\ \A q \in Run : q # r => overall'[q] = overall[q]
    BY <1>1, <2>3, <2>7 DEF TypeOK
  <2>9. RowOf(r, proc[r])'
    <3>1. p.results["dashboard"].status = "NONE" /\ p.results["dashboard"].retry # "RETRYABLE"
      BY <1>4, <1>6 DEF Reached, Guarded
    <3> QED
      BY <1>1, <1>4, <1>9, <2>2, <2>4, <2>7, <2>8, <3>1 DEF RowOf, Sent, Touches
  <2>10. rows' \subseteq Referenced' /\ \A q \in Run : overall[q] # "-" => q \in Referenced'
    BY <2>2, <2>6 DEF IInv, RowsInv
  <2> QED
    BY <1>2, <1>3, <2>2, <2>4, <2>5, <2>8, <2>9, <2>10, AtWork
<1>12. CASE Queue(r)
  <2> DEFINE result == Failure("DEGRADED", "RETRYABLE")
             p == Noted(r, "dashboard", result)
  <2>1. /\ Conclude(r, "dashboard", result) /\ pending' = pending \cup {r}
        /\ UNCHANGED <<overall, rows>>
        /\ result \in Result /\ result.status = "FAILED" /\ result.retry = "RETRYABLE"
    BY <1>12, Outcomes DEF Queue, notion, Failure
  <2> HIDE DEF result
  <2>2. Fits(overall[r], proc[r].results)
    BY <1>1, <1>3 DEF RowOf
  <2>3. /\ Touches(r, p) /\ Shape(p) /\ p.pc = "release" /\ p.before = proc[r].before
        /\ ~p.raised /\ p.drained = {} /\ p.results["dashboard"] = result
        /\ Fits(overall[r], p.results)
    BY <1>8, <2>1, <2>2
  <2> HIDE DEF p
  <2>4. Referenced \subseteq Referenced' /\ r \in Referenced'
    BY <1>7, <2>1, <2>3
  <2>5. RowOf(r, proc[r])'
    BY <1>9, <2>1, <2>3 DEF RowOf, Sent, Touches
  <2>6. rows' \subseteq Referenced' /\ \A q \in Run : overall[q] # "-" => q \in Referenced'
    BY <2>1, <2>4 DEF IInv, RowsInv
  <2>7. overall' \in [Run -> {"-", "OK", "WARN", "FAIL"}]
    BY <1>1, <2>1 DEF TypeOK
  <2> QED
    BY <1>2, <1>3, <2>1, <2>3, <2>5, <2>6, <2>7, AtWork
<1> QED
  BY <1>10, <1>11, <1>12

-----------------------------------------------------------------------------
\* A process that stays as it is keeps its row when old rows are put away.
LEMMA Archived ==
    ASSUME IInv, NEW q \in Run, proc'[q] = proc[q], UNCHANGED pending, Archive
    PROVE  RowOf(q, proc[q])'
<1>1. RowOf(q, proc[q]) /\ Shape(proc[q]) /\ pending \subseteq Run
  BY DEF IInv, RowsInv, ShapeInv, TypeOK
<1>2. /\ rows' = rows \cap Referenced'
      /\ overall'[q] = IF q \in Referenced' THEN overall[q] ELSE "-"
  BY DEF Archive
<1>3. pending \subseteq Referenced'
  BY DEF Referenced
<1>4. CASE q \in Referenced'
  BY <1>1, <1>2, <1>3, <1>4 DEF RowOf, Sent
<1>5. CASE q \notin Referenced'
  <2>1. proc[q].pc = "off"
    BY <1>5 DEF Referenced, Alive, At
  <2>2. proc[q].results = Nothing /\ proc[q].drained = {}
    BY <1>1, <2>1 DEF Shape, NoProcess
  <2>3. Sent(q, Nothing)'
    BY Order DEF Sent, Nothing, Plain
  <2> QED
    BY <1>1, <1>2, <1>5, <2>1, <2>2, <2>3 DEF RowOf, Fits
<1> QED
  BY <1>4, <1>5

\* A step of one process after which old rows are put away.
LEMMA Tidied ==
    ASSUME IInv, NEW r \in Run, NEW p, Touches(r, p),
           UNCHANGED <<configured, pending, legible>>, Archive,
           manifest' \in [run: 0 .. LastRun + 1, results: [Component -> Result]],
           holder' \in 0 .. LastRun + 1, MutexInv',
           Shape(p), RowOf(r, proc[r])', ManifestInv', KnowsInv', ExitTellsTheRun'
    PROVE  IInv'
<1> USE DEF IInv, Touches
<1>1. /\ rows' = rows \cap Referenced'
      /\ overall' = [q \in Run |-> IF q \in Referenced' THEN overall[q] ELSE "-"]
  BY DEF Archive
<1>2. rows' \subseteq rows /\ overall' \in [Run -> {"-", "OK", "WARN", "FAIL"}]
  BY <1>1 DEF TypeOK
<1>3. TypeOK'
  BY <1>2 DEF TypeOK
<1>4. ShapeInv'
  BY DEF ShapeInv
<1>5. \A q \in Run : q # r => RowOf(q, proc[q])'
  BY Archived
<1>6. RowsInv'
  BY <1>1, <1>5 DEF RowsInv
<1> QED
  BY <1>3, <1>4, <1>6

\* The list that a run writes accounts for all of its steps.
LEMMA Written ==
    ASSUME IInv, NEW r \in Run, proc[r].pc = "write"
    PROVE  /\ Guarded(Attributed(r)) /\ Accounts(Attributed(r))
           /\ ~proc[r].raised => Attributed(r) = proc[r].results
           /\ proc[r].raised => Failed(Attributed(r)) # {}
           /\ Fits(overall[r], Attributed(r)) /\ Sent(r, Attributed(r))
<1> DEFINE res == Attributed(r)
           old == proc[r].results
<1>1. TypeOK /\ Shape(proc[r]) /\ RowOf(r, proc[r])
  BY DEF IInv, ShapeInv, RowsInv
<1>2. /\ \A c \in Component : res[c] = IF proc[r].raised /\ proc[r].current = c
                                       THEN Failure(Severity[c], "UNKNOWN") ELSE old[c]
      /\ res \in [Component -> Result]
  BY <1>1, Attribution
<1>3. Guarded(old) /\ Fits(overall[r], old) /\ Sent(r, old) /\ (proc[r].raised => overall[r] = "-")
  BY <1>1 DEF Shape, RowOf
<1>4. \/ ~proc[r].raised /\ Reached(old, 9)
      \/ /\ proc[r].raised /\ proc[r].current = NoComponent
         /\ Reached(old, 8) /\ old["backup"].status = "FAILED"
      \/ proc[r].raised /\ \E i \in 1 .. 8 :
            /\ proc[r].current = Pipeline[i] /\ Pipeline[i] \notin CatchesAll
            /\ Reached(old, i - 1)
  BY <1>1 DEF Shape
<1>5. ~proc[r].raised \/ proc[r].current = NoComponent => res = old
  BY Names DEF Attributed
<1> HIDE DEF res
<1>6. CASE ~proc[r].raised
  <2>1. res = old /\ Reached(res, 9) /\ 9 \in 1 .. 9
    BY <1>4, <1>5, <1>6
  <2>2. Accounts(res)
    BY <2>1 DEF Accounts, EndedAt
  <2> QED
    BY <1>3, <1>6, <2>1, <2>2 DEF res
<1>7. CASE proc[r].raised /\ proc[r].current = NoComponent
  <2>1. res = old /\ Reached(res, 8) /\ res["backup"].status = "FAILED"
    BY <1>4, <1>5, <1>7, Names, Order, Distinct
  <2>2. Accounts(res) /\ Failed(res) # {}
    BY <2>1, Order DEF Accounts, EndedAt, Failed
  <2> QED
    BY <1>3, <1>7, <2>1, <2>2 DEF res
<1>8. CASE proc[r].raised /\ proc[r].current # NoComponent
  <2>1. PICK i \in 1 .. 8 : /\ proc[r].current = Pipeline[i] /\ Pipeline[i] \notin CatchesAll
                            /\ Reached(old, i - 1)
    BY <1>4, <1>8
  <2>2. i \in 1 .. 9 /\ Pipeline[i] \in Component /\ Pipeline[i] # "dashboard"
    BY Distinct, Order
  <2>3. /\ res[Pipeline[i]] = Failure(Severity[Pipeline[i]], "UNKNOWN")
        /\ \A c \in Component : c # Pipeline[i] => res[c] = old[c]
    BY <1>2, <1>8, <2>1, <2>2
  <2>4. Failure(Severity[Pipeline[i]], "UNKNOWN").status = "FAILED"
        /\ Failure(Severity[Pipeline[i]], "UNKNOWN").severity = Severity[Pipeline[i]]
    BY DEF Failure
  <2>5. Reached(res, i)
    <3> SUFFICES ASSUME NEW j \in 1 .. 9
                 PROVE  res[Pipeline[j]].status # "NONE" <=> j <= i
      BY DEF Reached
    <3>1. CASE j = i
      BY <2>3, <2>4, <3>1
    <3>2. CASE j # i
      <4>1. res[Pipeline[j]] = old[Pipeline[j]]
        BY <2>2, <2>3, <3>2, Distinct
      <4>2. old[Pipeline[j]].status # "NONE" <=> j <= i - 1
        BY <2>1 DEF Reached
      <4> QED
        BY <3>2, <4>1, <4>2
    <3> QED
      BY <3>1, <3>2
  <2>6. Accounts(res) /\ Failed(res) # {}
    BY <2>1, <2>2, <2>3, <2>4, <2>5 DEF Accounts, EndedAt, Failed
  <2>7. Severity["daily"] = "CRITICAL" /\ Severity["backup"] = "CRITICAL"
    BY Order DEF Severity
  <2>8. Guarded(res)
    BY <1>3, <2>3, <2>4, <2>7, Order DEF Guarded
  <2>9. Fits(overall[r], res) /\ Sent(r, res)
    BY <1>3, <1>8, <2>2, <2>3, Order DEF Fits, Sent
  <2> QED
    BY <1>8, <2>6, <2>8, <2>9 DEF res
<1> QED
  BY <1>6, <1>7, <1>8

\* The manifest of a run takes the place of the one that is there.
LEMMA WriteStep ==
    ASSUME IInv, NEW r \in Run, Write(r)
    PROVE  IInv'
<1> DEFINE res == Attributed(r)
           p == [pc |-> "report", before |-> proc[r].before, current |-> proc[r].current,
                 results |-> res, raised |-> proc[r].raised, exit |-> proc[r].exit,
                 drained |-> proc[r].drained]
<1>1. /\ proc[r].pc = "write" /\ manifest' = [run |-> r, results |-> res]
      /\ proc' = [proc EXCEPT ![r].results = res, ![r].pc = "report"]
      /\ UNCHANGED <<configured, holder, pending, legible>> /\ Archive
  BY DEF Write, At
<1>2. TypeOK /\ Shape(proc[r]) /\ RowOf(r, proc[r]) /\ res \in [Component -> Result]
  BY Attribution DEF IInv, ShapeInv, RowsInv
<1>3. /\ Guarded(res) /\ Accounts(res)
      /\ proc[r].raised => Failed(res) # {}
      /\ Fits(overall[r], res) /\ Sent(r, res)
  BY <1>1, Written
<1> HIDE DEF res
<1>4. "report" \in Phase /\ "report" \notin Component \cup Working /\ "write" \notin Over
  BY Order DEF Phase, Working, Over
<1>5. Touches(r, p)
  BY <1>1, <1>2, <1>4, TakesDown
<1>6. Shape(p)
  BY <1>2, <1>3, <1>4, Distinct DEF Shape
<1>7. r \in Referenced'
  BY <1>5 DEF Touches, Referenced, Alive, At
<1>8. overall'[r] = overall[r] /\ rows' = rows \cap Referenced'
  BY <1>1, <1>7 DEF Archive
<1>9. pending \subseteq Referenced'
  BY <1>1, <1>2 DEF Referenced
<1>10. proc'[r].results = res /\ Sent(r, proc[r].results)'
  BY <1>1, <1>3, <1>5, <1>7, <1>8 DEF Sent, Touches
<1>11. RowOf(r, proc[r])'
  BY <1>1, <1>2, <1>3, <1>4, <1>5, <1>8, <1>9, <1>10 DEF RowOf, Touches
<1>12. ManifestInv'
  <2>1. manifest'.run = r /\ manifest'.results = proc'[r].results /\ proc'[r].pc \in Over
    BY <1>1, <1>5 DEF Touches, Over
  <2>2. Guarded(manifest'.results) /\ Accounts(manifest'.results) /\ Fits(overall'[r], manifest'.results)
    BY <1>3, <1>8, <1>10, <2>1
  <2> QED
    BY <1>10, <2>1, <2>2 DEF ManifestInv, Sent
<1>13. MutexInv'
  BY <1>1, <1>4, <1>5 DEF IInv, MutexInv, Touches
<1>14. \A q \in Run : proc[q].pc # "off" => proc[q].before # r
  BY <1>1, <1>4 DEF IInv, KnowsInv
<1>15. KnowsInv'
  <2>1. \A q \in Run : KnowsOwn(q, proc[q])'
    BY <1>1, <1>3, <1>5 DEF KnowsOwn, Touches
  <2>2. \A q \in Run : proc'[q].pc # "off" /\ proc'[q].before \in Run =>
              proc'[q].before # q /\ proc'[proc'[q].before].pc \in Over
    <3> SUFFICES ASSUME NEW q \in Run, proc'[q].pc # "off", proc'[q].before \in Run
                 PROVE  proc'[q].before # q /\ proc'[proc'[q].before].pc \in Over
      OBVIOUS
    <3>1. proc[q].pc # "off" /\ proc'[q].before = proc[q].before
      BY <1>1, <1>5 DEF Touches
    <3>2. proc[q].before # q /\ proc[proc[q].before].pc \in Over
      BY <3>1 DEF IInv, KnowsInv
    <3> QED
      BY <1>1, <1>4, <1>5, <3>1, <3>2 DEF Touches
  <2> QED
    BY <2>1, <2>2 DEF KnowsInv
<1>16. ExitTellsTheRun'
  <2> SUFFICES ASSUME NEW q \in Run PROVE Tells(q, proc[q])'
    BY DEF ExitTellsTheRun, Tells, At
  <2>1. CASE q = r
    BY <1>5, <2>1 DEF Tells, Touches
  <2>2. CASE q # r
    <3>1. proc'[q] = proc[q] /\ Tells(q, proc[q]) /\ manifest'.run = r
      BY <1>1, <1>5, <2>2 DEF Touches, IInv, ExitTellsTheRun, Tells, At
    <3> QED
      BY <1>14, <2>2, <3>1 DEF Tells
  <2> QED
    BY <2>1, <2>2
<1>17. manifest' \in [run: 0 .. LastRun + 1, results: [Component -> Result]]
  BY <1>1, <1>2, Names
<1>18. holder' \in 0 .. LastRun + 1
  BY <1>1, <1>2 DEF TypeOK
<1> HIDE DEF p
<1> QED
  BY <1>1, <1>5, <1>6, <1>11, <1>12, <1>13, <1>15, <1>16, <1>17, <1>18, Tidied

\* The manifest cannot be written; the run keeps its list all the same.
LEMMA WriteFailsStep ==
    ASSUME IInv, NEW r \in Run, WriteFails(r)
    PROVE  IInv'
<1> DEFINE res == Attributed(r)
           p == [pc |-> "report", before |-> proc[r].before, current |-> proc[r].current,
                 results |-> res, raised |-> proc[r].raised, exit |-> proc[r].exit,
                 drained |-> proc[r].drained]
<1>1. /\ proc[r].pc = "write"
      /\ proc' = [proc EXCEPT ![r].results = res, ![r].pc = "report"]
      /\ UNCHANGED <<configured, holder, manifest, pending, legible, overall, rows>>
  BY DEF WriteFails, At, disk, notion
<1>2. TypeOK /\ Shape(proc[r]) /\ RowOf(r, proc[r]) /\ res \in [Component -> Result]
  BY Attribution DEF IInv, ShapeInv, RowsInv
<1>3. Guarded(res) /\ Fits(overall[r], res) /\ Sent(r, res)
  BY <1>1, Written
<1> HIDE DEF res
<1>4. "report" \in Phase /\ "report" \notin Component \cup Working /\ "write" \notin Over
  BY Order DEF Phase, Working, Over
<1>5. Touches(r, p)
  BY <1>1, <1>2, <1>4, TakesDown
<1>6. Shape(p)
  BY <1>2, <1>3, <1>4, Distinct DEF Shape
<1>7. manifest.run # r
  BY <1>1, <1>4 DEF IInv, ManifestInv, Readable
<1>8. RowOf(r, p) /\ KnowsOwn(r, p) /\ Tells(r, p)
  BY <1>1, <1>2, <1>3, <1>4, <1>7 DEF RowOf, KnowsOwn, Tells
<1>9. MutexInv'
  BY <1>1, <1>4, <1>5 DEF IInv, MutexInv, Touches
<1>10. holder' \in 0 .. LastRun + 1
  BY <1>1, <1>2 DEF TypeOK
<1> QED
  BY <1>1, <1>4, <1>5, <1>6, <1>8, <1>9, <1>10, Alone

\* A run returns an exit code that tells of it, or of nobody.
LEMMA ReportStep ==
    ASSUME IInv, NEW r \in Run, Report(r)
    PROVE  IInv'
<1> DEFINE e == IF proc[r].raised THEN FromManifest(r) ELSE ExitCode[Verdict(proc[r].results)]
           p == [pc |-> "exited", before |-> proc[r].before, current |-> proc[r].current,
                 results |-> proc[r].results, raised |-> proc[r].raised, exit |-> e,
                 drained |-> proc[r].drained]
<1>1. /\ proc[r].pc = "report"
      /\ proc' = [proc EXCEPT ![r].pc = "exited", ![r].exit = e]
      /\ UNCHANGED <<configured, holder, manifest, pending, legible, overall, rows>>
  BY DEF Report, At, disk, notion
<1>2. /\ TypeOK /\ Shape(proc[r]) /\ RowOf(r, proc[r]) /\ KnowsOwn(r, proc[r])
      /\ proc[r].before \in Run => proc[r].before # r
  BY <1>1 DEF IInv, ShapeInv, RowsInv, KnowsInv
<1>3. /\ proc[r].results \in [Component -> Result] /\ manifest.results \in [Component -> Result]
      /\ proc[r].before \in Run \cup {NoRun} /\ proc[r].raised \in BOOLEAN
  BY <1>2 DEF TypeOK, Process
<1>4. /\ ExitCode[Verdict(proc[r].results)] \in {0, 2, 3}
      /\ ExitCode[Verdict(proc[r].results)] = 0 <=> Failed(proc[r].results) = {}
      /\ ExitCode[Verdict(manifest.results)] \in {0, 2, 3}
  BY <1>3, Verdicts
<1>5. FromManifest(r) \in {0, 2, 3}
  BY <1>4 DEF FromManifest
<1>6. e \in {0, 2, 3}
  BY <1>4, <1>5
<1>7. manifest.run = r => /\ FromManifest(r) = ExitCode[Verdict(proc[r].results)]
                          /\ proc[r].raised => Failed(proc[r].results) # {}
  BY <1>1, <1>2, <1>3, Names DEF FromManifest, KnowsOwn, Readable
<1>8. manifest.run = proc[r].before => FromManifest(r) = 2
  BY DEF FromManifest
<1>9. proc[r].raised /\ manifest.run \in {r, proc[r].before} =>
         e \in {ExitCode[Verdict(proc[r].results)], 2} /\ e # 0
  BY <1>4, <1>7, <1>8
<1>10. ~proc[r].raised => e = ExitCode[Verdict(proc[r].results)]
  OBVIOUS
<1> HIDE DEF e
<1>11. Touches(r, p)
  BY <1>1, <1>2, <1>6, Returns
<1>12. Tells(r, p)
  BY <1>4, <1>9, <1>10 DEF Tells
<1>13. "report" \notin Working /\ "exited" \notin Working \cup Component
  BY Order DEF Working
<1>14. Shape(p)
  BY <1>2, <1>13, Distinct DEF Shape
<1>15. RowOf(r, p) /\ KnowsOwn(r, p)
  BY <1>1, <1>2, <1>13 DEF RowOf, KnowsOwn
<1>16. MutexInv'
  BY <1>1, <1>11, <1>13 DEF IInv, MutexInv, Touches
<1>17. holder' \in 0 .. LastRun + 1
  BY <1>1, <1>2 DEF TypeOK
<1> QED
  BY <1>1, <1>11, <1>12, <1>14, <1>15, <1>16, <1>17, Alone DEF Over

\* A run begins under an id that nothing refers to.
LEMMA StartStep ==
    ASSUME IInv, Start
    PROVE  IInv'
<1> DEFINE b == IF Readable THEN manifest.run ELSE NoRun
<1>1. PICK r \in Run : IsNext(r) /\ proc' = [proc EXCEPT ![r].pc = "lock", ![r].before = b]
  BY DEF Start
<1>2. UNCHANGED <<configured, holder, manifest, pending, legible, overall, rows>>
  BY DEF Start, disk, notion
<1>3. r \notin Referenced /\ \A q \in Alive : proc[q].before # r
  BY <1>1 DEF IsNext, Fresh
<1>4. TypeOK /\ Shape(proc[r]) /\ proc[r].pc = "off" /\ r \notin pending /\ manifest.run # r
  BY <1>3 DEF IInv, ShapeInv, Referenced, Alive, At
<1>5. proc[r] = NoProcess
  BY <1>4 DEF Shape
<1>6. b \in Run \cup {NoRun} /\ (b \in Run => b # r /\ proc[b].pc \in Over)
  BY <1>4, Names DEF Readable, IInv, ManifestInv
<1> HIDE DEF b
<1> DEFINE p == [pc |-> "lock", before |-> b, current |-> proc[r].current,
                 results |-> proc[r].results, raised |-> proc[r].raised,
                 exit |-> proc[r].exit, drained |-> proc[r].drained]
<1>7. Touches(r, p)
  BY <1>1, <1>4, <1>6, Begins
<1>8. p.results = Nothing /\ ~p.raised /\ p.drained = {}
  BY <1>5 DEF NoProcess
<1>9. "lock" \notin Component \cup Working \cup Over
  BY Order DEF Working, Over
<1>10. Shape(p)
  <2>1. Guarded(Nothing)
    BY Order DEF Guarded, Nothing, Plain
  <2> QED
    BY <1>8, <1>9, <2>1, Distinct DEF Shape
<1>11. overall[r] = "-" /\ r \notin rows
  BY <1>3 DEF IInv, RowsInv
<1>12. RowOf(r, p)
  <2>1. Sent(r, Nothing)
    BY Order DEF Sent, Nothing, Plain
  <2> QED
    BY <1>4, <1>8, <1>11, <2>1 DEF RowOf, Fits
<1>13. p.pc = "lock" /\ p.before = b
  OBVIOUS
<1> HIDE DEF p
<1>14. TypeOK'
  BY <1>2, <1>4, <1>7 DEF TypeOK, Touches
<1>15. MutexInv'
  BY <1>2, <1>7, <1>9, <1>13 DEF IInv, MutexInv, Touches
<1>16. ShapeInv'
  BY <1>7, <1>10 DEF IInv, ShapeInv, Touches
<1>17. Referenced \subseteq Referenced'
  BY <1>2, <1>4, <1>7 DEF Referenced, Alive, At, Touches
<1>18. \A q \in Run : RowOf(q, proc[q])'
  BY <1>2, <1>7, <1>12 DEF IInv, RowsInv, RowOf, Sent, Touches
<1>19. RowsInv'
  BY <1>2, <1>17, <1>18 DEF IInv, RowsInv
<1>20. ManifestInv'
  BY <1>2, <1>4, <1>7 DEF IInv, ManifestInv, Readable, Sent, Touches
<1>21. KnowsInv'
  <2> SUFFICES ASSUME NEW q \in Run
               PROVE  /\ KnowsOwn(q, proc[q])'
                      /\ proc'[q].pc # "off" /\ proc'[q].before \in Run =>
                            proc'[q].before # q /\ proc'[proc'[q].before].pc \in Over
    BY DEF KnowsInv
  <2>1. CASE q = r
    <3>1. KnowsOwn(q, proc[q])'
      BY <1>7, <1>13, <2>1 DEF KnowsOwn, Touches
    <3>2. b \in Run => b # r /\ proc'[b] = proc[b]
      BY <1>6, <1>7 DEF Touches
    <3> QED
      BY <1>6, <1>7, <1>13, <2>1, <3>1, <3>2 DEF Touches
  <2>2. CASE q # r
    <3>1. proc'[q] = proc[q] /\ KnowsOwn(q, proc[q])
      BY <1>7, <2>2 DEF Touches, IInv, KnowsInv
    <3>2. KnowsOwn(q, proc[q])'
      BY <1>2, <3>1 DEF KnowsOwn
    <3>3. proc[q].pc # "off" => proc[q].before # r
      BY <1>3 DEF Alive, At
    <3>4. proc[q].pc # "off" /\ proc[q].before \in Run =>
             proc[q].before # q /\ proc[proc[q].before].pc \in Over
      BY DEF IInv, KnowsInv
    <3>5. \A m \in Run : m # r => proc'[m] = proc[m]
      BY <1>7 DEF Touches
    <3> QED
      BY <3>1, <3>2, <3>3, <3>4, <3>5
  <2> QED
    BY <2>1, <2>2
<1>22. ExitTellsTheRun'
  BY <1>2, <1>7, <1>13 DEF IInv, ExitTellsTheRun, At, Touches
<1> QED
  BY <1>14, <1>15, <1>16, <1>19, <1>20, <1>21, <1>22 DEF IInv

\* A process that is gone leaves nothing that a file does not have.
LEMMA Gone ==
    ASSUME IInv, NEW r \in Run, proc' = [proc EXCEPT ![r] = NoProcess],
           UNCHANGED <<configured, manifest, pending, legible>>, Archive,
           holder' = holder \/ (holder = r /\ holder' = DeadRun)
    PROVE  IInv'
<1>1. TypeOK
  BY DEF IInv
<1>2. Touches(r, NoProcess)
  BY <1>1, Forgets
<1>3. /\ NoProcess.pc = "off" /\ ~NoProcess.raised /\ NoProcess.drained = {}
      /\ NoProcess.results = Nothing /\ "off" \notin Component \cup Working
  BY Order DEF NoProcess, Working
<1>4. Shape(NoProcess)
  <2>1. Guarded(Nothing)
    BY Order DEF Guarded, Nothing, Plain
  <2> QED
    BY <1>3, <2>1, Distinct DEF Shape
<1>5. RowOf(r, proc[r])'
  <2>1. Sent(r, Nothing)'
    BY Order DEF Sent, Nothing, Plain
  <2> QED
    BY <1>2, <1>3, <2>1 DEF RowOf, Touches
<1>6. MutexInv'
  BY <1>2, <1>3 DEF IInv, MutexInv, Touches
<1>7. ManifestInv'
  <2> SUFFICES ASSUME Readable
               PROVE  ManifestInv'
    BY DEF ManifestInv, Readable
  <2>1. manifest.run \in Run /\ manifest.run \in Referenced'
    BY DEF Readable, Referenced
  <2>2. /\ overall'[manifest.run] = overall[manifest.run]
        /\ manifest.run \in rows => manifest.run \in rows'
    BY <2>1 DEF Archive
  <2>3. proc'[manifest.run].pc \in Over
    BY <1>2, <1>3, <2>1 DEF IInv, ManifestInv, Touches, Over
  <2> QED
    BY <2>2, <2>3 DEF IInv, ManifestInv, Sent, Readable
<1>8. KnowsInv'
  BY <1>2, <1>3 DEF IInv, KnowsInv, KnowsOwn, Touches, Over
<1>9. ExitTellsTheRun'
  BY <1>2, <1>3 DEF IInv, ExitTellsTheRun, At, Touches
<1>10. holder' \in 0 .. LastRun + 1
  BY <1>1, Names DEF TypeOK
<1>11. manifest' \in [run: 0 .. LastRun + 1, results: [Component -> Result]]
  BY <1>1 DEF TypeOK
<1> QED
  BY <1>2, <1>4, <1>5, <1>6, <1>7, <1>8, <1>9, <1>10, <1>11, Tidied

\* A run that is skipped, that leaves and that dies.
LEMMA GoneStep ==
    ASSUME IInv, NEW r \in Run, Skip(r) \/ Leave(r) \/ Die(r)
    PROVE  IInv'
<1>1. /\ proc' = [proc EXCEPT ![r] = NoProcess]
      /\ UNCHANGED <<configured, manifest, pending, legible>>
      /\ holder' = holder \/ (holder = r /\ holder' = DeadRun)
  BY DEF Skip, Leave, Die, disk
<1>2. CASE Skip(r)
  <2>1. proc[r].pc = "lock" /\ UNCHANGED <<overall, rows>>
    BY <1>2 DEF Skip, At, notion
  <2>2. r \notin rows \cup pending /\ overall[r] = "-"
    BY <2>1 DEF IInv, RowsInv, RowOf
  <2>3. Touches(r, NoProcess)
    BY <1>1, Forgets DEF IInv
  <2>4. Referenced \ {r} \subseteq Referenced'
    BY <1>1, <2>3 DEF Referenced, Alive, At, Touches
  <2>5. rows \subseteq Referenced' /\ \A q \in Run : overall[q] # "-" => q \in Referenced'
    BY <2>2, <2>4 DEF IInv, RowsInv
  <2>6. overall = [q \in Run |-> overall[q]]
    BY DEF IInv, TypeOK
  <2>7. rows' = rows \cap Referenced'
    BY <2>1, <2>5
  <2>8. overall' = [q \in Run |-> IF q \in Referenced' THEN overall[q] ELSE "-"]
    BY <2>1, <2>5, <2>6
  <2>9. Archive
    BY <2>7, <2>8 DEF Archive
  <2> QED
    BY <1>1, <2>9, Gone
<1>3. CASE Leave(r) \/ Die(r)
  <2>1. Archive
    BY <1>3 DEF Leave, Die
  <2> QED
    BY <1>1, <2>1, Gone
<1> QED
  BY <1>2, <1>3

\* Damage to the files, and what a person repairs.
LEMMA DamageStep ==
    ASSUME IInv, DamageManifest \/ DamagePending \/ RepairPending \/ UNCHANGED vars
    PROVE  IInv'
<1>1. CASE DamageManifest
  <2>1. /\ manifest' = Unreadable /\ Readable /\ Archive
        /\ UNCHANGED <<configured, proc, holder, pending, legible>>
    BY <1>1 DEF DamageManifest
  <2>2. PICK r \in Run : r = manifest.run
    BY <2>1 DEF Readable
  <2>3. TypeOK /\ Shape(proc[r])
    BY DEF IInv, ShapeInv
  <2>4. Touches(r, proc[r])
    BY <2>1, <2>3 DEF Touches, TypeOK
  <2>5. RowOf(r, proc[r])'
    BY <2>1, Archived
  <2>6. manifest' \in [run: 0 .. LastRun + 1, results: [Component -> Result]]
        /\ manifest'.run = LastRun + 1
    <3>1. LastRun + 1 \in 0 .. LastRun + 1
      BY BoundsAssumption
    <3>2. Nothing \in [Component -> Result]
      BY Outcomes
    <3> QED
      BY <2>1, <3>1, <3>2 DEF Unreadable
  <2>7. ManifestInv'
    BY <2>6, Names DEF ManifestInv, Readable
  <2>8. KnowsInv'
    BY <2>1, <2>6, Names DEF IInv, KnowsInv, KnowsOwn
  <2>9. \A q \in Run : proc[q].before \in Run \cup {NoRun}
    BY <2>3 DEF TypeOK, Process
  <2>10. \A q \in Run : LastRun + 1 \notin {q, proc[q].before}
    BY <2>9, Names, BoundsAssumption DEF NoRun
  <2>11. ExitTellsTheRun'
    BY <2>1, <2>6, <2>10 DEF IInv, ExitTellsTheRun, At
  <2>12. MutexInv' /\ holder' \in 0 .. LastRun + 1
    BY <2>1, <2>3 DEF IInv, MutexInv, TypeOK
  <2> QED
    BY <2>1, <2>3, <2>4, <2>5, <2>6, <2>7, <2>8, <2>11, <2>12, Tidied
<1>2. CASE DamagePending \/ RepairPending \/ UNCHANGED vars
  <2>1. UNCHANGED <<configured, proc, holder, manifest, pending, overall, rows>>
        /\ legible' \in BOOLEAN
    BY <1>2 DEF DamagePending, RepairPending, notion, vars, disk, IInv, TypeOK
  <2>2. Referenced' = Referenced
    BY <2>1 DEF Referenced, Alive, At
  <2>3. TypeOK' /\ MutexInv' /\ ShapeInv'
    BY <2>1 DEF IInv, TypeOK, MutexInv, ShapeInv
  <2>4. RowsInv' /\ ManifestInv'
    BY <2>1, <2>2 DEF IInv, RowsInv, RowOf, Sent, ManifestInv, Readable
  <2>5. KnowsInv' /\ ExitTellsTheRun'
    BY <2>1 DEF IInv, KnowsInv, KnowsOwn, ExitTellsTheRun, At
  <2> QED
    BY <2>3, <2>4, <2>5 DEF IInv
<1> QED
  BY <1>1, <1>2

-----------------------------------------------------------------------------
\* It holds before the first run.
LEMMA InitInv == Init => IInv
<1> SUFFICES ASSUME Init PROVE IInv
  OBVIOUS
<1> USE DEF Init
<1>1. NoProcess \in Process
  BY Outcomes DEF NoProcess, Process, Phase, NoExit
<1>2. /\ NoProcess.pc = "off" /\ ~NoProcess.raised /\ NoProcess.drained = {}
      /\ NoProcess.results = Nothing /\ "off" \notin Component \cup Working
  BY Order DEF NoProcess, Working
<1>3. Guarded(Nothing) /\ \A r \in Run : Sent(r, Nothing)
  BY Order DEF Guarded, Sent, Nothing, Plain
<1>4. TypeOK
  <2>1. manifest \in [run: 0 .. LastRun + 1, results: [Component -> Result]]
    BY Outcomes, Names DEF NoManifest
  <2> QED
    BY <1>1, <2>1, Names, ConfigurationsAssumption DEF TypeOK
<1>5. MutexInv /\ ShapeInv
  BY <1>2, <1>3, Distinct DEF MutexInv, ShapeInv, Shape
<1>6. RowsInv
  BY <1>2, <1>3 DEF RowsInv, RowOf
<1>7. ManifestInv
  BY Names DEF ManifestInv, Readable, NoManifest
<1>8. KnowsInv /\ ExitTellsTheRun
  BY <1>2 DEF KnowsInv, KnowsOwn, ExitTellsTheRun, At
<1> QED
  BY <1>4, <1>5, <1>6, <1>7, <1>8 DEF IInv

\* Every step keeps it.
LEMMA InvStep == IInv /\ [Next]_vars => IInv'
<1> SUFFICES ASSUME IInv, [Next]_vars PROVE IInv'
  OBVIOUS
<1>1. CASE Start
  BY <1>1, StartStep
<1>2. ASSUME NEW r \in Run, Work(r) PROVE IInv'
  <2>1. \/ Succeed(r) \/ Acquire(r) \/ NothingToDrain(r) \/ Release(r)
        \/ SkipDashboard(r) \/ QueueFails(r) \/ Drain(r) \/ SaveDrained(r)
        \/ Record(r) \/ Queue(r) \/ Write(r) \/ Report(r) \/ Skip(r) \/ Leave(r)
    BY <1>2 DEF Work
  <2> QED
    BY <2>1, PipelineStep, MoveStep, DashboardStep, DrainStep, RecordStep, WriteStep,
       ReportStep, GoneStep
<1>3. ASSUME NEW r \in Run, Trouble(r) PROVE IInv'
  <2>1. \/ Fail(r) \/ BackupRaises(r) \/ Abort(r) \/ FailsEarly(r) \/ DashboardBreaks(r)
        \/ BuildFails(r) \/ RecordFails(r) \/ WriteFails(r) \/ Die(r)
    BY <1>3 DEF Trouble
  <2> QED
    BY <2>1, PipelineStep, RaiseStep, MoveStep, DashboardStep, RecordStep, WriteFailsStep, GoneStep
<1>4. CASE DamageManifest \/ DamagePending \/ RepairPending \/ UNCHANGED vars
  BY <1>4, DamageStep
<1> QED
  BY <1>1, <1>2, <1>3, <1>4 DEF Next

\* In every behaviour the inductive invariant holds.
THEOREM RunnerInvariant == Spec => []IInv
<1> QED
  BY InitInv, InvStep, PTL DEF Spec

\* Whatever the number of runs and of failures, the memory of every run, the
\* manifest, the rows and the file of those that wait have their type.
THEOREM TypeCorrect == Spec => []TypeOK
<1>1. IInv => TypeOK
  BY DEF IInv
<1> QED
  BY <1>1, RunnerInvariant, PTL

\* The exit code that Task Scheduler keeps is the verdict over the run's own
\* steps, or 2, unless another run wrote its manifest in between; and 0 covers
\* no failure.
THEOREM ExitIsOfTheRun == Spec => []ExitTellsTheRun
<1>1. IInv => ExitTellsTheRun
  BY DEF IInv
<1> QED
  BY <1>1, RunnerInvariant, PTL

\* How the list of a manifest ends.
LEMMA Ends ==
    ASSUME IInv, Readable
    PROVE  \E k \in 1 .. 9 :
              /\ \A i \in 1 .. 9 : manifest.results[Pipeline[i]].status # "NONE" <=> i <= k
              /\ k # 9 => Pipeline[k] \in Failed(manifest.results)
              /\ k < 8 => /\ Pipeline[k] \notin CatchesAll
                          /\ manifest.results[Pipeline[k]].severity = Severity[Pipeline[k]]
                          /\ manifest.results[Pipeline[k]].retry = "UNKNOWN"
<1>1. PICK k \in 1 .. 9 : EndedAt(manifest.results, k)
  BY DEF IInv, ManifestInv, Accounts
<1>2. Pipeline[k] \in Component
  BY Distinct
<1>3. /\ Failure(Severity[Pipeline[k]], "UNKNOWN").status = "FAILED"
      /\ Failure(Severity[Pipeline[k]], "UNKNOWN").severity = Severity[Pipeline[k]]
      /\ Failure(Severity[Pipeline[k]], "UNKNOWN").retry = "UNKNOWN"
  BY DEF Failure
<1>4. \A i \in 1 .. 9 : manifest.results[Pipeline[i]].status # "NONE" <=> i <= k
  BY <1>1 DEF EndedAt, Reached
<1>5. k # 9 => manifest.results[Pipeline[k]].status = "FAILED"
  BY <1>1, <1>3, Order DEF EndedAt
<1>6. k < 8 => /\ Pipeline[k] \notin CatchesAll
               /\ manifest.results[Pipeline[k]] = Failure(Severity[Pipeline[k]], "UNKNOWN")
  BY <1>1 DEF EndedAt
<1> QED
  BY <1>2, <1>3, <1>4, <1>5, <1>6 DEF Failed

\* A step that a manifest lacks is explained by it: the steps it lists are the
\* first ones, the last one failed, and the Daily Close and the Backup are left
\* out only over a step that guards History, or a retry queue.
THEOREM Explained == Spec => []MissingStepsAreExplained
<1>1. IInv => ManifestAccountsForAll
  <2> SUFFICES ASSUME IInv, Readable PROVE ManifestAccountsForAll
    BY DEF ManifestAccountsForAll
  <2>1. PICK k \in 1 .. 9 :
              /\ \A i \in 1 .. 9 : manifest.results[Pipeline[i]].status # "NONE" <=> i <= k
              /\ k # 9 => Pipeline[k] \in Failed(manifest.results)
    BY Ends
  <2> DEFINE listed == { i \in DOMAIN Pipeline : manifest.results[Pipeline[i]].status # "NONE" }
  <2>2. DOMAIN Pipeline = 1 .. 9 /\ listed = 1 .. k
    BY <2>1, Order
  <2>3. \A i \in listed : 1 .. i \subseteq listed
    BY <2>2
  <2>4. listed # DOMAIN Pipeline =>
           \E i \in listed : i + 1 \notin listed /\ Pipeline[i] \in Failed(manifest.results)
    BY <2>1, <2>2
  <2> QED
    BY <2>3, <2>4 DEF ManifestAccountsForAll
<1>2. IInv => MirrorsStopNothing
  <2> SUFFICES ASSUME IInv, Readable, NEW c \in {"daily", "backup"},
                      manifest.results[c].status = "NONE"
               PROVE  \E d \in Failed(manifest.results) :
                         \/ manifest.results[d].severity = "CRITICAL"
                         \/ d = "notion_sync" /\ manifest.results[d].retry = "UNKNOWN"
    BY DEF MirrorsStopNothing
  <2>1. PICK k \in 1 .. 9 :
              /\ \A i \in 1 .. 9 : manifest.results[Pipeline[i]].status # "NONE" <=> i <= k
              /\ k # 9 => Pipeline[k] \in Failed(manifest.results)
              /\ k < 8 => /\ Pipeline[k] \notin CatchesAll
                          /\ manifest.results[Pipeline[k]].severity = Severity[Pipeline[k]]
                          /\ manifest.results[Pipeline[k]].retry = "UNKNOWN"
    BY Ends
  <2>2. 5 \in 1 .. 9 /\ 8 \in 1 .. 9 /\ c \in {Pipeline[5], Pipeline[8]}
    BY Order
  <2>3. k < 8
    BY <2>1, <2>2
  <2>4. k = 1 \/ k = 2 \/ k = 3 \/ k = 4 \/ k = 5 \/ k = 6 \/ k = 7
    BY <2>3
  <2>5. k # 6 /\ k # 7
    BY <2>1, <2>3, Order DEF CatchesAll
  <2>6. Severity[Pipeline[k]] = "CRITICAL" \/ Pipeline[k] = "notion_sync"
    BY <2>4, <2>5, Order DEF Severity
  <2> QED
    BY <2>1, <2>3, <2>6
<1> QED
  BY <1>1, <1>2, RunnerInvariant, PTL DEF MissingStepsAreExplained

\* The row of a run and its manifest never contradict each other, and a row
\* that was built and that the manifest counts on is in OPS_RUNS or waits in
\* the pending file.
THEOREM RowsAgree == Spec => []RowsAgreeWithManifest
<1>1. IInv => RowsAgreeWithManifest
  BY DEF IInv, ManifestInv, Fits, Sent, RowsAgreeWithManifest, RowAgreesWithManifest,
         EveryRunHasItsRow
<1> QED
  BY <1>1, RunnerInvariant, PTL

\* When the LAST RUN block asks for nobody, the last run closed its day, and
\* its Backup is done or will be tried again.
THEOREM QuietIsHonest == Spec => []QuietScreenIsHonest
<1>1. IInv => QuietScreenIsHonest
  <2> SUFFICES ASSUME IInv, Attention = {}, manifest # NoManifest
               PROVE  /\ manifest.results["daily"].status = "SUCCESS"
                      /\ \/ manifest.results["backup"].status = "SUCCESS"
                         \/ manifest.results["backup"].retry = "RETRYABLE"
    BY DEF QuietScreenIsHonest
  <2> DEFINE res == manifest.results
             lines == (IF Recorded(res) # Component THEN {"never started"} ELSE {}) \cup
                      { c \in Failed(res) : res[c].retry = "PERMANENT" }
  <2>1. Readable /\ lines = {} /\ Verdict(res) # "FAILED"
    BY DEF Attention
  <2>2. Recorded(res) = Component
    BY <2>1
  <2>3. res \in [Component -> Result] /\ Guarded(res)
    BY <2>1 DEF IInv, TypeOK, ManifestInv
  <2>4. \A c \in Failed(res) : res[c].severity # "CRITICAL"
    BY <2>1, <2>3, Verdicts
  <2>5. "daily" \in Component /\ "backup" \in Component
    BY Order
  <2>6. /\ res["daily"].status \in {"SUCCESS", "FAILED"}
        /\ res["backup"].status \in {"SUCCESS", "FAILED"}
    BY <2>2, <2>3, <2>5 DEF Recorded, Guarded, Result
  <2> QED
    BY <2>3, <2>4, <2>5, <2>6 DEF Failed, Guarded
<1> QED
  BY <1>1, RunnerInvariant, PTL

\* A row leaves the pending file only once it is in OPS_RUNS.
THEOREM RowsAreNotForgotten == Spec => ForgottenOnceSent
<1>1. IInv /\ [Next]_vars => [\A r \in pending \ pending' : r \in rows]_vars
  <2> SUFFICES ASSUME IInv, Next PROVE \A r \in pending \ pending' : r \in rows
    OBVIOUS
  <2>1. CASE Start \/ DamageManifest \/ DamagePending \/ RepairPending
    BY <2>1 DEF Start, DamageManifest, DamagePending, RepairPending, disk
  <2>2. ASSUME NEW r \in Run, Work(r) PROVE \A q \in pending \ pending' : q \in rows
    <3>1. CASE SaveDrained(r)
      BY <3>1 DEF SaveDrained, IInv, RowsInv, RowOf
    <3>2. CASE Queue(r)
      BY <3>2 DEF Queue
    <3>3. CASE ~SaveDrained(r) /\ ~Queue(r)
      <4>1. UNCHANGED pending
        BY <2>2, <3>3 DEF Work, Acquire, Skip, Succeed, SkipDashboard, Drain, NothingToDrain,
               Record, QueueFails, Release, Write, Report, Leave, disk
      <4> QED
        BY <4>1
    <3> QED
      BY <3>1, <3>2, <3>3
  <2>3. ASSUME NEW r \in Run, Trouble(r) PROVE UNCHANGED pending
    BY <2>3 DEF Trouble, FailsEarly, Fail, BackupRaises, Abort, DashboardBreaks,
           BuildFails, RecordFails, WriteFails, Die, disk
  <2> QED
    BY <2>1, <2>2, <2>3 DEF Next
<1> QED
  BY <1>1, RunnerInvariant, PTL DEF Spec, ForgottenOnceSent
=============================================================================
