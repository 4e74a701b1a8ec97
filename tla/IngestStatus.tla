---------------------------- MODULE IngestStatus ----------------------------
(***************************************************************************)
(* What the COMPANY section of ops_status.py and its Candidate check say    *)
(* of the way in: src/app/desktop_activity.py looks at the four directories *)
(* and src/history/reconciliation.py at what was consumed.  Nothing here   *)
(* changes anything; the page takes no lock and may be asked in the middle *)
(* of a run.  A file that is still being synced is one that cannot be      *)
(* parsed; staging files, clocks that run ahead and files nobody can read  *)
(* are left out, as in Ingest.                                             *)
(***************************************************************************)
EXTENDS Ingest

\* run_intake's test: a file of that name is further along.
Taken(f) == f \in incoming \cup processed \cup rejected

\* _event_id_of: what is no JSON yet has none; an invalid Event has one here.
HasId(f) == transport[f] = "complete"

\* _count_transport.  A resend of what is further along is nothing to do.
AlreadyCollected == { f \in File : HasId(f) /\ Taken(f) }

\* Anything else whose name is taken is said to be an Event held back by a
\* file that is not it.
Suppressed == { f \in File : transport[f] # "absent" /\ Taken(f) } \ AlreadyCollected

AwaitingIntake == { f \in File : transport[f] = "complete" /\ ~Taken(f) }
Unparseable == { f \in File : transport[f] = "partial" /\ ~Taken(f) }

\* Fault: what is remembered as seen does not wait any more.
AwaitingUnseen == { f \in incoming : EventIn[f] \notin seenDisk }

\* read_company_activity: the files of incoming/, and those of them whose move
\* will find its name taken.
AwaitingCollection == incoming
NameCollision == incoming \cap (processed \cup rejected)

\* The Events a Desktop's number is made of: each once, however many files.
Counted == { EventIn[f] : f \in { g \in processed : Valid(g) } }

IsClear == AwaitingIntake = {} /\ AwaitingCollection = {}

\* No line of the page asks for a person.
Quiet ==
    /\ IsClear
    /\ rejected = {} /\ Unparseable = {} /\ Suppressed = {}
    /\ Orphaned = {}
-----------------------------------------------------------------------------
\* A page at rest that asks for nobody means that nothing is on its way or
\* lost: every Event for Company History that is remembered as seen, or of
\* which a file is anywhere, has its Candidate.
QuietMeansRecorded ==
    Quiet /\ pc = "idle" =>
        \A e \in Wanted :
            \/ e \in candidates
            \/ /\ e \notin seenDisk
               /\ \A f \in File : EventIn[f] = e => transport[f] = "absent" /\ ~Taken(f)

\* The pipeline makes no name collision of its own, however often a name is
\* sent again; the line "매 실행 실패한다" (ops_status.py) is about others' files.
NoCollisionOfItsOwn == NameCollision = {}

\* Company History and the COMPANY section agree: a Candidate is of an Event that
\* is counted, and a run that gets through its files leaves none of them an
\* orphan.  So what is reported at rest is of a run that was cut off, and what
\* is reported during a run may be only until the filter comes to it.
HistoryAgreesWithCount ==
    /\ candidates \subseteq Counted
    /\ pc = "filter" => \A f \in accepted \ todo : EventIn[f] \notin Orphaned

\* What the page says of the future holds.  A resend it calls normal is never
\* promoted; a file it calls unreadable or held back gets out of that only
\* because its sender completes it; and an orphan is not accepted again ("no
\* later run reconsiders it") unless the saving of the seen set went wrong too.
LinesStay ==
    [][/\ AlreadyCollected \subseteq AlreadyCollected'
       /\ \A f \in (Suppressed \ Suppressed') \cup (Unparseable \ Unparseable') :
             transport[f] = "partial" /\ (transport'[f] = "complete" \/ f \in Suppressed')
       /\ \A f \in accepted' \ accepted : EventIn[f] \in Orphaned => fault # {}]_vars
=============================================================================
