---------------------------- MODULE DesktopAgent ---------------------------
(***************************************************************************)
(* The agent of one Desktop (src/agent/agent.py run_once): it turns the    *)
(* Signals of every finished date into Events and delivers them to the     *)
(* OneDrive folder, oldest date first, one agent run at a time (RunLock).  *)
(*                                                                         *)
(*   signals/<date>/ --stage--> outbox/ --send--> OneDrive folder          *)
(*                   \                   \-file--> sent/                   *)
(*                    \--> rejected/                                       *)
(*                                                                         *)
(* A Signal stands for its file and for the Event made of it: event ids    *)
(* are derived from date and file name, so a Signal makes the same Event   *)
(* in every run.  agent_state.json holds the watermark, the last date      *)
(* collected; the date a run works on is always the one after it.  Dates   *)
(* are numbered from agent_start_date on.  Any file operation may fail and *)
(* the process may die between any two.  The code visits files in sorted   *)
(* order; here in any order.                                               *)
(***************************************************************************)
EXTENDS Naturals

CONSTANTS
    Signal,     \* Signal files
    Usable,     \* those that parse and describe a valid Event
    DateOf,     \* the date directory each is filed under
    Exposed,    \* bound: Events whose name the OneDrive client may spoil
    LastDay     \* bound: the calendar stops the day after this one

ASSUME LastDayAssumption == LastDay \in Nat
ASSUME SignalAssumption ==
    /\ Exposed \subseteq Usable /\ Usable \subseteq Signal
    /\ DateOf \in [Signal -> 1..LastDay]

VARIABLES
    today,      \* the date on the Desktop's clock
    present,    \* files under signals/
    rejected,   \* files under rejected/
    outbox, sent,
    folder,     \* files of Events in the OneDrive folder
    taken,      \* Events the Runner's intake has moved away from there
    foreign,    \* Event names under which that folder holds something else:
                \* a placeholder, a torn transfer, the residue of a conflict
    swallowed,  \* Event names under which the intake moved such a file away
    watermark,  \* last_successful_collection_date; 0 before the first
    pc,         \* the step of the agent run
    horizon,    \* the last date this run collects: its yesterday
    todo,       \* files the current step has still to visit
    sending,    \* the Event published and not yet filed, if any
    clear,      \* DrainSummary.is_clear of the current drain
    staged,     \* whether the date staged an Event (event_ids)
    onTime,     \* observability: Signals written before their date was over
    refused,    \* observability: Signals once judged unusable
    missed      \* observability: Events of the outbox that a drain overlooked
                \* because it could not list the directory, not filed since

files == <<present, rejected, outbox, sent, folder, taken, foreign, swallowed>>
run == <<pc, horizon, todo, sending, clear, staged>>
world == <<today, onTime, refused, missed>>
vars == <<today, files, watermark, run, onTime, refused, missed>>

Phase == {"idle", "leftover", "next", "collect", "deliver", "advance"}

TypeOK ==
    /\ today \in 1..(LastDay + 1)
    /\ present \subseteq Signal /\ rejected \subseteq Signal
    /\ outbox \subseteq Signal /\ sent \subseteq Signal
    /\ folder \subseteq Signal /\ taken \subseteq Signal
    /\ foreign \subseteq Signal /\ swallowed \subseteq Signal
    /\ watermark \in 0..LastDay
    /\ pc \in Phase
    /\ horizon \in 0..LastDay
    /\ todo \subseteq Signal /\ sending \subseteq Signal
    /\ clear \in BOOLEAN /\ staged \in BOOLEAN
    /\ onTime \subseteq Signal /\ refused \subseteq Signal /\ missed \subseteq Signal

-----------------------------------------------------------------------------
Init ==
    /\ today = 1
    /\ present = {} /\ rejected = {}
    /\ outbox = {} /\ sent = {} /\ folder = {} /\ taken = {}
    /\ foreign = {} /\ swallowed = {}
    /\ watermark = 0
    /\ pc = "idle" /\ horizon = 0
    /\ todo = {} /\ sending = {} /\ clear = TRUE /\ staged = FALSE
    /\ onTime = {} /\ refused = {} /\ missed = {}

NewDay ==
    /\ today <= LastDay
    /\ today' = today + 1
    /\ UNCHANGED <<files, watermark, run, onTime, refused, missed>>

\* Somebody files a Signal, once, under any date: ahead, on the day or late.
WriteSignal(s) ==
    /\ s \notin present \cup rejected
    /\ present' = present \cup {s}
    /\ onTime' = IF today <= DateOf[s] THEN onTime \cup {s} ELSE onTime
    /\ UNCHANGED <<today, rejected, outbox, sent, folder, taken, foreign, swallowed,
                   watermark, run, refused, missed>>

\* run_intake on Desktop 4; a name it knows already stays in the folder.
TakeFromFolder(s) ==
    /\ s \in folder \ (taken \cup swallowed)
    /\ folder' = folder \ {s}
    /\ taken' = taken \cup {s}
    /\ UNCHANGED <<today, present, rejected, outbox, sent, foreign, swallowed,
                   watermark, run, onTime, refused, missed>>

\* The OneDrive client leaves something else under the name of an Event, before
\* or after the agent publishes it.  It does not heal by itself.
Spoil(s) ==
    /\ s \in Exposed \ (taken \cup foreign)
    /\ folder' = folder \ {s}
    /\ foreign' = foreign \cup {s}
    /\ UNCHANGED <<today, present, rejected, outbox, sent, taken, swallowed,
                   watermark, run, onTime, refused, missed>>

\* run_intake asks no more than whether a file is JSON: it may take away the
\* other thing, and the name is absent afterwards like a consumed Event's.
TakeForeign(s) ==
    /\ s \in foreign \ swallowed
    /\ foreign' = foreign \ {s}
    /\ swallowed' = swallowed \cup {s}
    /\ UNCHANGED <<today, present, rejected, outbox, sent, folder, taken,
                   watermark, run, onTime, refused, missed>>

\* drain() begins with the list of what is pending.
Drain(phase) ==
    /\ pc' = phase
    /\ todo' = outbox
    /\ clear' = TRUE
    /\ UNCHANGED missed

\* pending() takes an outbox that cannot be listed for an empty one.
DrainBlind(phase) ==
    /\ pc' = phase
    /\ todo' = {}
    /\ clear' = TRUE
    /\ missed' = missed \cup outbox

\* A trigger: `now' is read, agent_state.json loaded, and what a previous run
\* left in the outbox is drained before any date is considered.
Begin ==
    /\ pc = "idle"
    /\ horizon' = today - 1
    /\ UNCHANGED <<today, onTime, refused, files, watermark, sending, staged>>

StartRun == Begin /\ Drain("leftover")
StartBlind == Begin /\ DrainBlind("leftover")

EndRun ==
    /\ pc' = "idle"
    /\ todo' = {} /\ sending' = {}
    /\ clear' = TRUE /\ staged' = FALSE
    /\ UNCHANGED <<world, files, watermark, horizon>>

Draining == pc \in {"leftover", "deliver"} /\ sending = {}
Visit(s) == s \in todo /\ todo' = todo \ {s}

\* Unreadable, refused by the transport, or sent/ cannot be made.
SendFails(s) ==
    /\ Draining /\ Visit(s)
    /\ clear' = FALSE
    /\ UNCHANGED <<world, files, watermark, pc, horizon, sending, staged>>

\* OneDriveTransport.send writes the Event's file unless there is a file of that
\* name already, whatever it holds, and reports success in both cases.
Send(s) ==
    /\ Draining /\ Visit(s)
    /\ folder' = IF s \in foreign THEN folder ELSE folder \cup {s}
    /\ sending' = {s}
    /\ UNCHANGED <<world, present, rejected, outbox, sent, taken, foreign, swallowed,
                   watermark, pc, horizon, clear, staged>>

\* os.replace from outbox/ to sent/ ...
File(s) ==
    /\ s \in sending
    /\ outbox' = outbox \ {s}
    /\ sent' = sent \cup {s}
    /\ sending' = {}
    /\ missed' = missed \ {s}
    /\ UNCHANGED <<today, onTime, refused, present, rejected, folder, taken, foreign,
                   swallowed, watermark, pc, horizon, todo, clear, staged>>

\* Fault: the failure is not counted.
FileFailsQuietly(s) ==
    /\ s \in sending
    /\ sending' = {}
    /\ UNCHANGED <<world, files, watermark, pc, horizon, todo, clear, staged>>

\* ... which fails: delivered, and to be sent once more.
FileFails(s) ==
    /\ s \in sending
    /\ sending' = {}
    /\ clear' = FALSE
    /\ UNCHANGED <<world, files, watermark, pc, horizon, todo, staged>>

\* The outbox is empty: on to the dates, or the date just delivered closes.
DrainClear ==
    /\ Draining /\ todo = {} /\ clear
    /\ pc' = IF pc = "leftover" THEN "next" ELSE "advance"
    /\ UNCHANGED <<world, files, watermark, horizon, todo, sending, clear, staged>>

\* Fault: the run goes on with an outbox that is not clear.
DrainAnyway ==
    /\ Draining /\ todo = {} /\ ~clear
    /\ pc' = IF pc = "leftover" THEN "next" ELSE "advance"
    /\ UNCHANGED <<world, files, watermark, horizon, todo, sending, clear, staged>>

\* Otherwise the run is FAILED and stops here.
DrainNotClear ==
    /\ Draining /\ todo = {} /\ ~clear
    /\ EndRun

\* Fault: a directory that cannot be listed is a day without Signals.
LoadQuietly ==
    /\ pc = "next" /\ watermark < horizon
    /\ pc' = "collect"
    /\ todo' \in {{ s \in present : DateOf[s] = watermark + 1 }, {}}
    /\ staged' = FALSE
    /\ UNCHANGED <<world, files, watermark, horizon, sending, clear>>

\* The next date of pending_dates(), if there is one: load_signals lists its
\* directory; a missing directory is a day without Signals.
LoadSignals ==
    /\ pc = "next" /\ watermark < horizon
    /\ pc' = "collect"
    /\ todo' = { s \in present : DateOf[s] = watermark + 1 }
    /\ staged' = FALSE
    /\ UNCHANGED <<world, files, watermark, horizon, sending, clear>>

\* COMPLETED: no date is pending any more.
FinishRun ==
    /\ pc = "next" /\ watermark >= horizon
    /\ EndRun

\* _reject_signal: the content is unusable, or the file could not be read just
\* now.  The move may fail, and the date goes on without the Signal either way.
Reject(s) ==
    /\ pc = "collect" /\ Visit(s)
    /\ refused' = refused \cup {s}
    /\ \/ present' = present \ {s} /\ rejected' = rejected \cup {s}
       \/ UNCHANGED <<present, rejected>>
    /\ UNCHANGED <<today, outbox, sent, folder, taken, foreign, swallowed, watermark,
                   pc, horizon, sending, clear, staged, onTime, missed>>

\* is_sent: an earlier run of this date delivered it.
AlreadySent(s) ==
    /\ pc = "collect" /\ Visit(s)
    /\ s \in Usable \cap sent
    /\ UNCHANGED <<world, files, watermark, pc, horizon, sending, clear, staged>>

\* Fault: is_sent is not asked.
StageAgain(s) ==
    /\ pc = "collect" /\ Visit(s)
    /\ s \in Usable
    /\ outbox' = outbox \cup {s}
    /\ staged' = TRUE
    /\ UNCHANGED <<world, present, rejected, sent, folder, taken, foreign, swallowed,
                   watermark, pc, horizon, sending, clear>>

Stage(s) ==
    /\ pc = "collect" /\ Visit(s)
    /\ s \in Usable \ sent
    /\ outbox' = outbox \cup {s}
    /\ staged' = TRUE
    /\ UNCHANGED <<world, present, rejected, sent, folder, taken, foreign, swallowed,
                   watermark, pc, horizon, sending, clear>>

\* Every Signal is staged, skipped or rejected: deliver, or close the date if
\* nothing was staged.
CollectDone ==
    /\ pc = "collect" /\ todo = {}
    /\ IF staged THEN Drain("deliver") \/ DrainBlind("deliver")
                 ELSE pc' = "advance" /\ UNCHANGED <<todo, clear, missed>>
    /\ UNCHANGED <<today, onTime, refused, files, watermark, horizon, sending, staged>>

\* The date is saved as collected.
Advance ==
    /\ pc = "advance"
    /\ watermark' = watermark + 1
    /\ pc' = "next"
    /\ UNCHANGED <<world, files, horizon, todo, sending, clear, staged>>

\* The run stops short: the date's directory cannot be listed, an Event cannot
\* be staged, the watermark cannot be saved, sent/ cannot be made.
StopShort ==
    /\ \/ pc = "next" /\ watermark < horizon
       \/ pc = "collect" /\ todo \cap (Usable \ sent) # {}
       \/ pc = "advance"
       \/ Draining /\ todo = outbox
    /\ EndRun

Crash == pc # "idle" /\ EndRun

Deliver(s) == SendFails(s) \/ Send(s) \/ File(s) \/ FileFails(s)
Collect(s) == Reject(s) \/ AlreadySent(s) \/ Stage(s)

Next ==
    \/ NewDay
    \/ \E s \in Signal : WriteSignal(s) \/ TakeFromFolder(s) \/ Spoil(s)
                         \/ TakeForeign(s) \/ Deliver(s) \/ Collect(s)
    \/ StartRun \/ StartBlind \/ DrainClear \/ DrainNotClear \/ LoadSignals \/ FinishRun
    \/ CollectDone \/ Advance \/ StopShort \/ Crash

Spec == Init /\ [][Next]_vars

\* The days pass and the agent is triggered on them; a step that is tried in
\* run after run does not fail in all of them.
Fairness ==
    /\ WF_vars(NewDay) /\ SF_vars(StartRun)
    /\ SF_vars(DrainClear) /\ WF_vars(DrainNotClear) /\ SF_vars(LoadSignals)
    /\ WF_vars(FinishRun) /\ WF_vars(CollectDone) /\ SF_vars(Advance)
    /\ SF_vars(\E s \in Signal : Send(s)) /\ SF_vars(\E s \in Signal : File(s))
    /\ SF_vars(\E s \in Signal : Stage(s)) /\ WF_vars(\E s \in Signal : AlreadySent(s))
    /\ WF_vars(\E s \in Signal \ Usable : Reject(s))

\* The machine is not switched off in the middle of runs for ever (a crash
\* that is no different from a run's own end does not count).
Interrupted == Crash /\ ~(FinishRun \/ DrainNotClear \/ StopShort)

FinallyUninterrupted == <>[][~Interrupted]_vars

FairSpec == Spec /\ Fairness /\ FinallyUninterrupted
-----------------------------------------------------------------------------
Delivered == folder \cup taken
Due == { s \in onTime \cap Usable : s \notin refused }

\* What the OneDrive client did to the name of an Event: something else is
\* under it, or was until the intake took it away.
Spoiled == foreign \cup swallowed

\* The watermark never passes work that only this Desktop has: a Signal that
\* was filed before its date was over, was readable and describes an Event has
\* reached the OneDrive folder once its date counts as collected, unless the
\* client spoiled its name, and nothing of a collected date waits in the
\* outbox, but for what a drain overlooked that could not list it.
CollectedIsDelivered ==
    /\ \A s \in Due : DateOf[s] <= watermark => s \in Delivered \cup Spoiled \cup missed
    /\ \A s \in outbox \ missed : DateOf[s] > watermark

\* Dates close in order: an Event reaches Desktop 4 only after all due ones of
\* the earlier dates, through failures, restarts and catch-up, but for those
\* that a drain overlooked and that wait in the outbox since.
DeliveredInOrder ==
    \A s \in Delivered, t \in Due :
        DateOf[t] < DateOf[s] => t \in Delivered \cup Spoiled \cup missed

\* No run publishes an Event again that is filed in sent/ and that Desktop 4
\* took from the folder, however often its date is collected.
NeverResentOnceFiled ==
    [][\A s \in sent : s \notin folder => s \notin folder']_vars

\* Every Signal filed in time is delivered or refused in the end, what a drain
\* overlooked included, or the client spoiled its name.
OnTimeIsDelivered ==
    \A s \in Signal : s \in onTime ~> s \in Delivered \cup refused \cup Spoiled

=============================================================================
