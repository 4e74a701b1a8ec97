---------------------------- MODULE AgentStatus ----------------------------
(***************************************************************************)
(* What ops_status prints about the agent of this Desktop (AGENT section): *)
(* the counts of src/agent/status.py and the delivery check of             *)
(* src/agent/delivery.py, as functions of DesktopAgent's files.  It reads  *)
(* at any moment, also in the middle of a run, and changes nothing.  A     *)
(* state or a directory of Signals that cannot be read, and a Signal       *)
(* outside the date directories, have lines of their own that are not      *)
(* modelled; an outbox that cannot be listed counts as empty here, too.    *)
(***************************************************************************)
EXTENDS DesktopAgent

\* Dates over and not collected.
PendingDates == (watermark + 1)..(today - 1)

\* _count_undelivered_signals_in_closed_dates: Signals of a collected date of
\* which sent/ has no record.  No Signal is opened, so any file counts.
UndeliveredClosed ==
    { s \in present : DateOf[s] <= watermark /\ s \notin sent }

\* Fault: whatever is there under the name is the Event.
NameIsTaken == { s \in sent : s \notin Delivered \cup foreign }

\* find_undelivered_events: filed as sent, and the folder holds something else
\* under the name.  A name that is absent is what a consumed Event looks like.
Undelivered == sent \cap foreign

\* needs_attention, the lines about work: last_run has one of its own.
\* `listed' is what pending() makes of the outbox for the page.
NeedsAttention(listed) == listed # {} \/ rejected # {} \/ PendingDates # {}

\* _print_agent: a line in ATTENTION about this Desktop's work.
AgentLine(listed) ==
    NeedsAttention(listed) \/ UndeliveredClosed # {} \/ Undelivered # {}

-----------------------------------------------------------------------------
\* When no line is printed, every Signal of a day that is over has been
\* delivered, in time or late, usable or not at first sight, even when the page
\* could not list the outbox: but for a name that the client spoiled and the
\* intake then cleared, which looks like a consumed Event's.
QuietMeansDelivered ==
    \A listed \in {outbox, {}} :
        ~AgentLine(listed) =>
            \A s \in present : DateOf[s] < today => s \in Delivered \cup swallowed

\* What the line on collected dates says is true of each of its Signals: it
\* never was delivered.  And it is there because it came late or was refused.
\* One that a drain overlooked may be named although it is out.
ClosedLineIsTrue ==
    \A s \in UndeliveredClosed \ missed :
        s \notin Delivered /\ (s \in onTime => s \in refused)

\* "No run reads it again": a Signal on that line that no drain overlooked, and
\* an Event that sits unreadable in the folder until the intake takes the file,
\* stay on the page whatever the agent runs.
LinesNeedAPerson ==
    [][UndeliveredClosed \ missed \subseteq UndeliveredClosed'
       /\ Undelivered \subseteq Undelivered' \cup swallowed']_vars

=============================================================================
