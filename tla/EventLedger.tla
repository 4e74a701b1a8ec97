---------------------------- MODULE EventLedger ----------------------------
(***************************************************************************)
(* What Desktop 4 promises about an Event, whatever the files look like:   *)
(* it is announced once a complete file of it exists, then consumed, then  *)
(* recorded as a History Candidate if the History Filter wants one.  An    *)
(* Event is never recorded without having been consumed, is recorded at    *)
(* most once, and nothing ever moves backwards.  Company History is        *)
(* written after consumption, so the chain may stop at "consumed": such an *)
(* Event is what reconciliation has to report.                             *)
(***************************************************************************)

CONSTANTS
    Event,        \* event ids
    Recordable    \* those the History Filter answers KEEP or REVIEW for

VARIABLE status

Status == {"unknown", "announced", "consumed", "recorded"}

Init == status = [e \in Event |-> "unknown"]

Advance(e, from, to) ==
    /\ status[e] = from
    /\ status' = [status EXCEPT ![e] = to]

Announce(e) == Advance(e, "unknown", "announced")
Consume(e)  == Advance(e, "announced", "consumed")
Record(e)   == e \in Recordable /\ Advance(e, "consumed", "recorded")

Next == \E e \in Event : Announce(e) \/ Consume(e) \/ Record(e)

Spec == Init /\ [][Next]_status
=============================================================================
