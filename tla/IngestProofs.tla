---------------------------- MODULE IngestProofs ---------------------------
(***************************************************************************)
(* TLAPS proofs about Ingest for every set of files and Events, every      *)
(* assignment of Events to files and every filter decision.                *)
(*                                                                         *)
(* AcceptedOnce holds because the seen set never forgets an Event that was *)
(* recorded: IngestInv relates the two seen sets, the candidates, the file *)
(* between mark and move and the files accepted in the running pass.       *)
(***************************************************************************)
EXTENDS IngestStatus, TLAPS

\* What the memory of a run may hold in each step of it.
RunShape ==
    /\ pc \in {"idle", "intake"} => accepted = {} /\ moving = {}
    /\ pc = "collect" => todo \subseteq incoming
    /\ pc = "filter" => todo \subseteq accepted
    /\ pc # "collect" => moving = {}

\* The running process remembers at least what the state file does.
MemoryCoversDisk ==
    pc \in {"collect", "notion", "filter"} => seenDisk \subseteq seenMem

\* What has become a candidate is remembered for good.
RecordedIsSeen == candidates \subseteq seenDisk

\* Every remembered id still has a file that shows it.
SeenHasFile ==
    \A e \in seenDisk \cup seenMem :
        \E f \in incoming \cup processed : EventIn[f] = e

\* The file between its mark and its move.
MovingIsMarked ==
    /\ \A f, g \in moving : f = g
    /\ \A f \in moving :
         /\ f \in incoming /\ f \notin todo /\ Valid(f)
         /\ EventIn[f] \in seenMem /\ EventIn[f] \in seenDisk
         /\ EventIn[f] \notin candidates
         /\ \A g \in accepted : EventIn[g] # EventIn[f]

\* The files accepted in this run.
AcceptedIsConsumed ==
    \A f \in accepted : /\ f \in processed /\ Valid(f)
                        /\ EventIn[f] \in seenDisk /\ EventIn[f] \in seenMem

IngestInv ==
    /\ RunShape
    /\ MemoryCoversDisk
    /\ RecordedIsSeen
    /\ SeenHasFile
    /\ MovingIsMarked
    /\ AcceptedIsConsumed
    /\ AcceptedOnce

-----------------------------------------------------------------------------
\* Every variable keeps its type.
THEOREM TypeCorrect == Spec => []TypeOK
<1> USE EventInAssumption, DecisionAssumption
<1>1. Init => TypeOK
  BY DEF Init, TypeOK, Phase, Fault
<1>2. TypeOK /\ [Next]_vars => TypeOK'
  <2> SUFFICES ASSUME TypeOK, [Next]_vars PROVE TypeOK'
    OBVIOUS
  <2> USE DEF TypeOK, dirs, seen
  <2>1. ASSUME NEW f \in File, Arrive(f) \/ IntakeMove(f) \/ IntakeSkip(f)
        PROVE TypeOK'
    BY <2>1 DEF Arrive, IntakeMove, IntakeSkip, Visit
  <2>2. ASSUME NEW f \in File, CollectFails(f) \/ Reject(f) \/ Duplicate(f)
        PROVE TypeOK'
    BY <2>2 DEF CollectFails, Reject, Duplicate, Collecting, Visit, MoveTo
  <2>3. ASSUME NEW f \in File, MarkSeen(f) \/ MarkSeenFails(f) PROVE TypeOK'
    BY <2>3 DEF MarkSeen, MarkSeenFails, Collecting, Visit, Valid, Fault
  <2>4. ASSUME NEW f \in File, MoveAccepted(f) \/ RollbackMark(f) PROVE TypeOK'
    BY <2>4 DEF MoveAccepted, RollbackMark, MoveTo
  <2>5. ASSUME NEW f \in File, RollbackFails(f) PROVE TypeOK'
    BY <2>5 DEF RollbackFails, EndRun, Phase, Fault
  <2>6. ASSUME NEW f \in File, FilterFile(f) PROVE TypeOK'
    BY <2>6 DEF FilterFile, Visit, Wanted
  <2>7. CASE StartRun \/ StartCollect \/ FinishCollect \/ StartFilter
    BY <2>7 DEF StartRun, StartCollect, FinishCollect, StartFilter, Phase
  <2>8. CASE FinishRun \/ AbortRun \/ Crash
    BY <2>8 DEF FinishRun, AbortRun, Crash, EndRun, Phase, Fault
  <2>9. CASE UNCHANGED vars
    BY <2>9 DEF vars
  <2> QED
    BY <2>1, <2>2, <2>3, <2>4, <2>5, <2>6, <2>7, <2>8, <2>9
    DEF Next, CollectFile
<1> QED
  BY <1>1, <1>2, PTL DEF Spec

-----------------------------------------------------------------------------
\* A run that ends, in whatever way, leaves the invariant in place.
LEMMA EndRunKeepsInv ==
  ASSUME TypeOK, IngestInv, EndRun, UNCHANGED <<dirs, seenDisk, candidates>>
  PROVE IngestInv'
BY DEF IngestInv, EndRun, dirs, RunShape, MemoryCoversDisk, RecordedIsSeen,
   SeenHasFile, MovingIsMarked, AcceptedIsConsumed, AcceptedOnce

\* Every step of the pipeline preserves the invariant.
LEMMA IngestInvStep ==
  ASSUME TypeOK, IngestInv, [Next]_vars PROVE IngestInv'
<1> USE EventInAssumption, InvalidAssumption DEF dirs, seen, Valid
<1> USE DEF IngestInv
<1>1. ASSUME NEW f \in File, Arrive(f) \/ IntakeMove(f) \/ IntakeSkip(f)
      PROVE IngestInv'
  BY <1>1 DEF Arrive, IntakeMove, IntakeSkip, Visit, RunShape,
     MemoryCoversDisk, RecordedIsSeen, SeenHasFile, MovingIsMarked,
     AcceptedIsConsumed, AcceptedOnce
<1>2. ASSUME NEW f \in File, CollectFails(f) \/ Reject(f) \/ Duplicate(f)
      PROVE IngestInv'
  <2>1. /\ pc = "collect" /\ pc' = "collect"
        /\ moving = {} /\ todo' = todo \ {f}
        /\ UNCHANGED <<seen, candidates, moving, accepted>>
        /\ \/ UNCHANGED <<incoming, processed>>
           \/ /\ EventIn[f] \notin Event
              /\ incoming' = incoming \ {f} /\ processed' = processed
           \/ incoming' = incoming \ {f} /\ processed' = processed \cup {f}
    BY <1>2 DEF CollectFails, Reject, Duplicate, Collecting, Visit, MoveTo
  <2>2. SeenHasFile'
    BY <2>1 DEF SeenHasFile, TypeOK
  <2>3. (RunShape /\ MemoryCoversDisk /\ RecordedIsSeen)'
    BY <2>1 DEF RunShape, MemoryCoversDisk, RecordedIsSeen
  <2>4. (MovingIsMarked /\ AcceptedIsConsumed /\ AcceptedOnce)'
    BY <2>1 DEF MovingIsMarked, AcceptedIsConsumed, AcceptedOnce
  <2> QED
    BY <2>2, <2>3, <2>4
<1>3. ASSUME NEW f \in File, MarkSeen(f) PROVE IngestInv'
  <2>1. /\ pc = "collect" /\ pc' = "collect"
        /\ f \in todo /\ todo' = todo \ {f} /\ f \in incoming
        /\ EventIn[f] \in Event /\ EventIn[f] \notin seenMem
        /\ moving' = {f} /\ moving = {}
        /\ seenMem' = seenMem \cup {EventIn[f]} /\ seenDisk' = seenMem'
        /\ seenDisk \subseteq seenMem
        /\ UNCHANGED <<incoming, processed, candidates, accepted>>
    BY <1>3 DEF MarkSeen, Collecting, Visit, RunShape, MemoryCoversDisk
  <2>2. MovingIsMarked'
    BY <2>1 DEF MovingIsMarked, AcceptedIsConsumed, RecordedIsSeen
  <2>3. (RunShape /\ MemoryCoversDisk /\ RecordedIsSeen /\ SeenHasFile)'
    BY <2>1 DEF RunShape, MemoryCoversDisk, RecordedIsSeen, SeenHasFile
  <2>4. (AcceptedIsConsumed /\ AcceptedOnce)'
    BY <2>1 DEF AcceptedIsConsumed, AcceptedOnce
  <2> QED
    BY <2>2, <2>3, <2>4
<1>4. ASSUME NEW f \in File, MarkSeenFails(f) PROVE IngestInv'
  <2>1. /\ pc = "collect" /\ pc' = "collect"
        /\ f \in todo /\ todo' = todo \ {f} /\ f \in incoming
        /\ moving' = {} /\ moving = {}
        /\ seenMem' = seenMem \cup {EventIn[f]} /\ seenDisk' = seenDisk
        /\ UNCHANGED <<incoming, processed, candidates, accepted>>
    BY <1>4 DEF MarkSeenFails, Collecting, Visit, RunShape
  <2>2. (RunShape /\ MemoryCoversDisk /\ RecordedIsSeen /\ SeenHasFile)'
    BY <2>1 DEF RunShape, MemoryCoversDisk, RecordedIsSeen, SeenHasFile
  <2>3. (MovingIsMarked /\ AcceptedIsConsumed /\ AcceptedOnce)'
    BY <2>1 DEF MovingIsMarked, AcceptedIsConsumed, AcceptedOnce
  <2> QED
    BY <2>2, <2>3
<1>5. ASSUME NEW f \in File, MoveAccepted(f) PROVE IngestInv'
  <2>1. /\ pc = "collect" /\ pc' = "collect"
        /\ f \in moving /\ f \notin todo /\ todo' = todo
        /\ EventIn[f] \in Event
        /\ EventIn[f] \in seenMem /\ EventIn[f] \notin candidates
        /\ \A g \in accepted : EventIn[g] # EventIn[f]
        /\ incoming' = incoming \ {f} /\ processed' = processed \cup {f}
        /\ moving' = {} /\ accepted' = accepted \cup {f}
        /\ UNCHANGED <<seen, candidates>>
    BY <1>5 DEF MoveAccepted, MoveTo, RunShape, MovingIsMarked
  <2>2. EventIn[f] \in seenDisk
    BY <2>1 DEF MovingIsMarked
  <2>3. SeenHasFile'
    BY <2>1 DEF SeenHasFile, TypeOK
  <2>4. (RunShape /\ MemoryCoversDisk /\ RecordedIsSeen /\ MovingIsMarked)'
    BY <2>1 DEF RunShape, MemoryCoversDisk, RecordedIsSeen, MovingIsMarked
  <2>5. (AcceptedIsConsumed /\ AcceptedOnce)'
    BY <2>1, <2>2 DEF AcceptedIsConsumed, AcceptedOnce
  <2> QED
    BY <2>3, <2>4, <2>5
<1>6. ASSUME NEW f \in File, RollbackMark(f) PROVE IngestInv'
  <2>1. /\ pc = "collect" /\ pc' = "collect"
        /\ f \in moving /\ moving' = {}
        /\ EventIn[f] \notin candidates
        /\ \A g \in accepted : EventIn[g] # EventIn[f]
        /\ seenMem' = seenMem \ {EventIn[f]} /\ seenDisk' = seenMem'
        /\ seenDisk \subseteq seenMem
        /\ UNCHANGED <<incoming, processed, candidates, todo, accepted>>
    BY <1>6 DEF RollbackMark, RunShape, MovingIsMarked, MemoryCoversDisk
  <2>2. (RunShape /\ MemoryCoversDisk /\ RecordedIsSeen /\ SeenHasFile)'
    BY <2>1 DEF RunShape, MemoryCoversDisk, RecordedIsSeen, SeenHasFile
  <2>3. (MovingIsMarked /\ AcceptedIsConsumed /\ AcceptedOnce)'
    BY <2>1 DEF MovingIsMarked, AcceptedIsConsumed, AcceptedOnce
  <2> QED
    BY <2>2, <2>3
<1>7. ASSUME NEW f \in File, FilterFile(f) PROVE IngestInv'
  <2>1. /\ pc = "filter" /\ pc' = "filter"
        /\ f \in todo /\ todo' = todo \ {f} /\ f \in accepted
        /\ candidates \subseteq candidates'
        /\ candidates' \subseteq candidates \cup {EventIn[f]}
        /\ UNCHANGED <<dirs, seen, moving, accepted>>
    BY <1>7 DEF FilterFile, Visit, RunShape
  <2>2. (RunShape /\ MemoryCoversDisk /\ SeenHasFile /\ AcceptedIsConsumed)'
    BY <2>1 DEF RunShape, MemoryCoversDisk, SeenHasFile, AcceptedIsConsumed
  <2>3. RecordedIsSeen' /\ MovingIsMarked'
    BY <2>1 DEF RecordedIsSeen, AcceptedIsConsumed, MovingIsMarked, RunShape
  <2>4. AcceptedOnce'
    BY <2>1 DEF AcceptedOnce
  <2> QED
    BY <2>2, <2>3, <2>4
<1>8. CASE StartRun \/ StartCollect
  BY <1>8 DEF StartRun, StartCollect, RunShape, MemoryCoversDisk,
     RecordedIsSeen, SeenHasFile, MovingIsMarked, AcceptedIsConsumed,
     AcceptedOnce
<1>9. CASE FinishCollect \/ StartFilter
  BY <1>9 DEF FinishCollect, StartFilter, RunShape, MemoryCoversDisk,
     RecordedIsSeen, SeenHasFile, MovingIsMarked, AcceptedIsConsumed,
     AcceptedOnce
<1>10. CASE \/ FinishRun \/ AbortRun \/ Crash
            \/ \E f \in File : RollbackFails(f)
  BY <1>10, EndRunKeepsInv DEF FinishRun, AbortRun, Crash, RollbackFails
<1>11. CASE UNCHANGED vars
  BY <1>11 DEF vars, RunShape, MemoryCoversDisk, RecordedIsSeen, SeenHasFile,
     MovingIsMarked, AcceptedIsConsumed, AcceptedOnce
<1> QED
  BY <1>1, <1>2, <1>3, <1>4, <1>5, <1>6, <1>7, <1>8, <1>9, <1>10, <1>11
  DEF Next, CollectFile

\* The inductive invariant holds in every reachable state.
THEOREM IngestInvariant == Spec => []IngestInv
<1>1. Init => IngestInv
  BY DEF Init, IngestInv, RunShape, MemoryCoversDisk, RecordedIsSeen,
     SeenHasFile, MovingIsMarked, AcceptedIsConsumed, AcceptedOnce
<1>2. TypeOK /\ IngestInv /\ [Next]_vars => IngestInv'
  BY IngestInvStep
<1> QED
  BY <1>1, <1>2, TypeCorrect, PTL DEF Spec

\* An Event is accepted at most once, whatever fails or crashes: save() of
\* the candidate repository never meets an Event it has already stored.
THEOREM NeverAcceptedTwice == Spec => []AcceptedOnce
<1>1. IngestInv => AcceptedOnce
  BY DEF IngestInv
<1> QED
  BY <1>1, IngestInvariant, PTL

\* Whatever was consumed and never recorded can still be found: in incoming/
\* or in the report of find_orphaned_events.
THEOREM LossIsVisible == Spec => []NoSilentLoss
<1>1. IngestInv => NoSilentLoss
  <2> SUFFICES ASSUME IngestInv, NEW e \in seenDisk \cap Wanted,
                      e \notin candidates,
                      \A f \in incoming : EventIn[f] # e
               PROVE e \in Orphaned
    BY DEF NoSilentLoss
  <2>1. PICK f \in incoming \cup processed : EventIn[f] = e
    BY DEF IngestInv, SeenHasFile
  <2> QED
    BY <2>1 DEF Orphaned
<1> QED
  BY <1>1, IngestInvariant, PTL

-----------------------------------------------------------------------------
\* As long as nothing went wrong around a mark, a remembered id belongs to a
\* file that was consumed or is just being moved.
MarkedIsConsumed ==
    fault = {} => \A e \in seenDisk \cup seenMem :
                      \E g \in processed \cup moving : EventIn[g] = e

\* Every step preserves it: a mark and its rollback come with the one file
\* that is being moved, and what breaks that pairing is a fault.
LEMMA MarkedIsConsumedStep ==
  ASSUME TypeOK, IngestInv, MarkedIsConsumed, [Next]_vars
  PROVE  MarkedIsConsumed'
<1> SUFFICES ASSUME fault' = {}, NEW e \in (seenDisk \cup seenMem)'
             PROVE  \E g \in (processed \cup moving)' : EventIn[g] = e
  BY DEF MarkedIsConsumed
<1> USE DEF MarkedIsConsumed, dirs, seen
<1>1. ASSUME NEW f \in File, Arrive(f) \/ IntakeMove(f) \/ IntakeSkip(f)
      PROVE  \E g \in (processed \cup moving)' : EventIn[g] = e
  BY <1>1 DEF Arrive, IntakeMove, IntakeSkip
<1>2. ASSUME NEW f \in File,
             CollectFails(f) \/ Reject(f) \/ Duplicate(f) \/ FilterFile(f)
      PROVE  \E g \in (processed \cup moving)' : EventIn[g] = e
  BY <1>2 DEF CollectFails, Reject, Duplicate, FilterFile
<1>3. ASSUME NEW f \in File, MarkSeen(f)
      PROVE  \E g \in (processed \cup moving)' : EventIn[g] = e
  BY <1>3 DEF MarkSeen, Collecting
<1>4. ASSUME NEW f \in File, MarkSeenFails(f) \/ RollbackFails(f)
      PROVE  FALSE
  BY <1>4 DEF MarkSeenFails, RollbackFails
<1>5. ASSUME NEW f \in File, MoveAccepted(f) \/ RollbackMark(f)
      PROVE  \E g \in (processed \cup moving)' : EventIn[g] = e
  <2>1. f \in moving /\ \A g \in moving : g = f
    BY <1>5 DEF MoveAccepted, RollbackMark, IngestInv, MovingIsMarked
  <2> QED
    BY <1>5, <2>1 DEF MoveAccepted, RollbackMark
<1>6. CASE StartRun \/ StartCollect \/ FinishCollect \/ StartFilter
  BY <1>6 DEF StartRun, StartCollect, FinishCollect, StartFilter
<1>7. CASE FinishRun \/ AbortRun \/ Crash
  <2>1. moving = {}
    BY <1>7 DEF FinishRun, AbortRun, Crash, IngestInv, RunShape
  <2> QED
    BY <1>7, <2>1 DEF FinishRun, AbortRun, Crash, EndRun
<1>8. CASE UNCHANGED vars
  BY <1>8 DEF vars
<1> QED
  BY <1>1, <1>2, <1>3, <1>4, <1>5, <1>6, <1>7, <1>8 DEF Next, CollectFile

\* A failed move alone never burns an id: where one is burned, a crash came
\* between a mark and its move, or the seen set could not be saved.
THEOREM OnlyFaultsBurn == Spec => []BurnedOnlyByFault
<1>1. Init => MarkedIsConsumed
  BY DEF Init, MarkedIsConsumed
<1>2. TypeOK /\ IngestInv /\ MarkedIsConsumed /\ [Next]_vars => MarkedIsConsumed'
  BY MarkedIsConsumedStep
<1>3. MarkedIsConsumed => BurnedOnlyByFault
  BY DEF MarkedIsConsumed, BurnedOnlyByFault, Burned
<1> QED
  BY <1>1, <1>2, <1>3, TypeCorrect, IngestInvariant, PTL DEF Spec

-----------------------------------------------------------------------------
\* Two states in which no Event changes its place in the ledger.
LEMMA LedgerStutter ==
  ASSUME \A e \in Event : LedgerStatus(e)' = LedgerStatus(e)
  PROVE  [Ledger!Next]_([e \in Event |-> LedgerStatus(e)])
OBVIOUS

\* Two states in which one Event takes one step of the ledger.
LEMMA LedgerAdvance ==
  ASSUME NEW e \in Event,
         \A d \in Event \ {e} : LedgerStatus(d)' = LedgerStatus(d),
         \/ LedgerStatus(e)' = LedgerStatus(e)
         \/ LedgerStatus(e) = "unknown" /\ LedgerStatus(e)' = "announced"
         \/ LedgerStatus(e) = "announced" /\ LedgerStatus(e)' = "consumed"
         \/ /\ e \in Wanted
            /\ LedgerStatus(e) = "consumed" /\ LedgerStatus(e)' = "recorded"
  PROVE  [Ledger!Next]_([d \in Event |-> LedgerStatus(d)])
<1> DEFINE S == [d \in Event |-> LedgerStatus(d)]
<1>0. \A x : S' = [S EXCEPT ![e] = x] <=> LedgerStatus(e)' = x
  <2>1. S' = [d \in Event |-> LedgerStatus(d)']
    OBVIOUS
  <2>2. \A x : [S EXCEPT ![e] = x]
                 = [d \in Event |-> IF d = e THEN x ELSE LedgerStatus(d)]
    OBVIOUS
  <2> QED
    BY <2>1, <2>2
<1>1. CASE LedgerStatus(e)' = LedgerStatus(e)
  BY <1>1
<1>2. CASE LedgerStatus(e) = "unknown" /\ LedgerStatus(e)' = "announced"
  <2>1. S' = [S EXCEPT ![e] = "announced"]
    BY <1>0, <1>2
  <2>2. Ledger!Announce(e)
    BY <1>2, <2>1 DEF Ledger!Announce, Ledger!Advance
  <2> QED
    BY <2>2 DEF Ledger!Next
<1>3. CASE LedgerStatus(e) = "announced" /\ LedgerStatus(e)' = "consumed"
  <2>1. S' = [S EXCEPT ![e] = "consumed"]
    BY <1>0, <1>3
  <2>2. Ledger!Consume(e)
    BY <1>3, <2>1 DEF Ledger!Consume, Ledger!Advance
  <2> QED
    BY <2>2 DEF Ledger!Next
<1>4. CASE /\ e \in Wanted
           /\ LedgerStatus(e) = "consumed" /\ LedgerStatus(e)' = "recorded"
  <2>1. S' = [S EXCEPT ![e] = "recorded"]
    BY <1>0, <1>4
  <2>2. Ledger!Record(e)
    BY <1>4, <2>1 DEF Ledger!Record, Ledger!Advance
  <2> QED
    BY <2>2 DEF Ledger!Next
<1> QED
  BY <1>1, <1>2, <1>3, <1>4

\* Every step of the pipeline is a step of the ledger or leaves it alone.
LEMMA LedgerStep ==
  ASSUME TypeOK, IngestInv, [Next]_vars
  PROVE  [Ledger!Next]_([e \in Event |-> LedgerStatus(e)])
<1> USE EventInAssumption, InvalidAssumption DEF dirs, seen, Valid
\* A file that completes announces its Event, if it holds one.
<1>1. ASSUME NEW f \in File, Arrive(f)
      PROVE [Ledger!Next]_([e \in Event |-> LedgerStatus(e)])
  <2>1. /\ UNCHANGED <<incoming, processed, candidates>>
        /\ transport \in [File -> {"absent", "partial", "complete"}]
        /\ transport[f] # "complete"
        /\ \E t \in {"partial", "complete"} :
              transport' = [transport EXCEPT ![f] = t]
    BY <1>1 DEF Arrive, TypeOK
  <2>2. \A e \in Event : EventIn[f] # e => LedgerStatus(e)' = LedgerStatus(e)
    BY <2>1 DEF LedgerStatus
  <2>3. CASE EventIn[f] \in Event
    <3>1. \/ LedgerStatus(EventIn[f])' = LedgerStatus(EventIn[f])
          \/ /\ LedgerStatus(EventIn[f]) = "unknown"
             /\ LedgerStatus(EventIn[f])' = "announced"
      BY <2>1, <2>3 DEF LedgerStatus
    <3> QED
      BY <2>2, <2>3, <3>1, LedgerAdvance
  <2>4. CASE EventIn[f] \notin Event
    BY <2>2, <2>4, LedgerStutter
  <2> QED
    BY <2>3, <2>4
\* Intake keeps the file announced.
<1>2. ASSUME NEW f \in File, IntakeMove(f)
      PROVE [Ledger!Next]_([e \in Event |-> LedgerStatus(e)])
  <2>1. /\ UNCHANGED <<processed, candidates>>
        /\ transport[f] = "complete"
        /\ transport' = [transport EXCEPT ![f] = "absent"]
        /\ transport \in [File -> {"absent", "partial", "complete"}]
        /\ incoming' = incoming \cup {f}
    BY <1>2 DEF IntakeMove, TypeOK
  <2>2. \A g \in File : (transport[g] = "complete" \/ g \in incoming)'
                       <=> (transport[g] = "complete" \/ g \in incoming)
    BY <2>1
  <2>3. \A e \in Event : LedgerStatus(e)' = LedgerStatus(e)
    BY <2>1, <2>2 DEF LedgerStatus
  <2> QED
    BY <2>3, LedgerStutter
\* A file that goes to processed/ consumes its Event.
<1>3. ASSUME NEW f \in File, Duplicate(f) \/ MoveAccepted(f)
      PROVE [Ledger!Next]_([e \in Event |-> LedgerStatus(e)])
  <2>1. /\ UNCHANGED <<transport, candidates>>
        /\ f \in incoming /\ incoming' = incoming \ {f}
        /\ processed' = processed \cup {f}
        /\ EventIn[f] \in Event
    BY <1>3 DEF Duplicate, MoveAccepted, MoveTo, IngestInv, MovingIsMarked
  <2>2. \A e \in Event \ {EventIn[f]} : LedgerStatus(e)' = LedgerStatus(e)
    BY <2>1 DEF LedgerStatus
  <2>3. \/ LedgerStatus(EventIn[f])' = LedgerStatus(EventIn[f])
        \/ /\ LedgerStatus(EventIn[f]) = "announced"
           /\ LedgerStatus(EventIn[f])' = "consumed"
    BY <2>1 DEF LedgerStatus
  <2> QED
    BY <2>1, <2>2, <2>3, LedgerAdvance
\* A rejected file holds no Event.
<1>4. ASSUME NEW f \in File, Reject(f)
      PROVE [Ledger!Next]_([e \in Event |-> LedgerStatus(e)])
  <2>1. /\ UNCHANGED <<transport, processed, candidates>>
        /\ incoming' = incoming \ {f}
        /\ EventIn[f] \notin Event
    BY <1>4 DEF Reject, MoveTo
  <2>2. \A e \in Event : LedgerStatus(e)' = LedgerStatus(e)
    BY <2>1 DEF LedgerStatus
  <2> QED
    BY <2>2, LedgerStutter
\* The filter records an Event that was consumed.
<1>5. ASSUME NEW f \in File, FilterFile(f)
      PROVE [Ledger!Next]_([e \in Event |-> LedgerStatus(e)])
  <2>1. /\ UNCHANGED <<transport, incoming, processed>>
        /\ candidates' = candidates \cup ({EventIn[f]} \cap Wanted)
        /\ f \in processed /\ EventIn[f] \in Event
        /\ EventIn[f] \notin candidates
    BY <1>5 DEF FilterFile, Visit, IngestInv, RunShape, AcceptedIsConsumed
  <2>2. \A e \in Event \ {EventIn[f]} : LedgerStatus(e)' = LedgerStatus(e)
    BY <2>1 DEF LedgerStatus
  <2>3. \/ LedgerStatus(EventIn[f])' = LedgerStatus(EventIn[f])
        \/ /\ EventIn[f] \in Wanted
           /\ LedgerStatus(EventIn[f]) = "consumed"
           /\ LedgerStatus(EventIn[f])' = "recorded"
    BY <2>1 DEF LedgerStatus
  <2> QED
    BY <2>1, <2>2, <2>3, LedgerAdvance
\* Every other step leaves the directories and the candidates alone.
<1>6. ASSUME UNCHANGED <<dirs, candidates>>
      PROVE [Ledger!Next]_([e \in Event |-> LedgerStatus(e)])
  <2>1. \A e \in Event : LedgerStatus(e)' = LedgerStatus(e)
    BY <1>6 DEF LedgerStatus
  <2> QED
    BY <2>1, LedgerStutter
<1>7. ASSUME NEW f \in File,
             \/ IntakeSkip(f) \/ CollectFails(f) \/ MarkSeen(f)
             \/ MarkSeenFails(f) \/ RollbackMark(f) \/ RollbackFails(f)
      PROVE UNCHANGED <<dirs, candidates>>
  BY <1>7 DEF IntakeSkip, CollectFails, MarkSeen, MarkSeenFails,
     RollbackMark, RollbackFails
<1>8. ASSUME \/ StartRun \/ StartCollect \/ FinishCollect \/ StartFilter
             \/ FinishRun \/ AbortRun \/ Crash \/ UNCHANGED vars
      PROVE UNCHANGED <<dirs, candidates>>
  BY <1>8 DEF StartRun, StartCollect, FinishCollect, StartFilter, FinishRun,
     AbortRun, Crash, vars
<1> QED
  BY <1>1, <1>2, <1>3, <1>4, <1>5, <1>6, <1>7, <1>8 DEF Next, CollectFile

\* The pipeline implements the ledger: an Event is announced, consumed and
\* recorded in this order, each at most once, and recorded only if wanted.
THEOREM ImplementsLedger == Spec => KeepsLedger
<1>1. Init => Ledger!Init
  BY DEF Init, Ledger!Init, LedgerStatus
<1>2. TypeOK /\ IngestInv /\ [Next]_vars
        => [Ledger!Next]_([e \in Event |-> LedgerStatus(e)])
  BY LedgerStep
<1> QED
  BY <1>1, <1>2, TypeCorrect, IngestInvariant, PTL
  DEF Spec, KeepsLedger, Ledger!Spec

-----------------------------------------------------------------------------
(***************************************************************************)
(* The COMPANY section of the page.  It changes nothing, so these are      *)
(* invariants and steps of Ingest; IngestInv gives most of what they need, *)
(* the rest is that no name is in two places (NoCollisionOfItsOwn), that   *)
(* what is recorded was consumed, and that as long as nothing went wrong   *)
(* around a mark what was consumed is remembered on disk (ConsumedIsSeen). *)
(***************************************************************************)

\* The Event of a Candidate has a file that was consumed; a file the filter has
\* been through needs nothing more.
FilterInv ==
    /\ \A e \in candidates : \E f \in processed : Valid(f) /\ EventIn[f] = e
    /\ pc = "filter" =>
         \A f \in accepted \ todo : EventIn[f] \in Wanted => EventIn[f] \in candidates

\* Without a fault around a mark, the set on disk holds all that was consumed and
\* all that the process remembers, and what is being moved is new.
ConsumedIsSeen ==
    fault = {} =>
        /\ seenMem \subseteq seenDisk
        /\ \A g \in processed : Valid(g) => EventIn[g] \in seenDisk
        /\ \A f \in moving : \A g \in processed : EventIn[g] # EventIn[f]

-----------------------------------------------------------------------------
\* No step brings a file to a place where its name is taken.
LEMMA CollisionStep ==
    ASSUME TypeOK, NoCollisionOfItsOwn, [Next]_vars
    PROVE  NoCollisionOfItsOwn'
<1> USE DEF NoCollisionOfItsOwn, NameCollision, dirs
<1>1. ASSUME NEW f \in File, IntakeMove(f) PROVE NoCollisionOfItsOwn'
  BY <1>1 DEF IntakeMove
<1>2. ASSUME NEW f \in File, Reject(f) \/ Duplicate(f) \/ MoveAccepted(f)
      PROVE  NoCollisionOfItsOwn'
  BY <1>2 DEF Reject, Duplicate, MoveAccepted, MoveTo
<1>3. CASE UNCHANGED <<incoming, processed, rejected>>
  BY <1>3
<1>4. ASSUME NEW f \in File,
             \/ Arrive(f) \/ IntakeSkip(f) \/ CollectFails(f) \/ MarkSeen(f)
             \/ MarkSeenFails(f) \/ RollbackMark(f) \/ RollbackFails(f) \/ FilterFile(f)
      PROVE  UNCHANGED <<incoming, processed, rejected>>
  BY <1>4 DEF Arrive, IntakeSkip, CollectFails, MarkSeen, MarkSeenFails,
     RollbackMark, RollbackFails, FilterFile
<1>5. ASSUME \/ StartRun \/ StartCollect \/ FinishCollect \/ StartFilter
             \/ FinishRun \/ AbortRun \/ Crash \/ UNCHANGED vars
      PROVE  UNCHANGED <<incoming, processed, rejected>>
  BY <1>5 DEF StartRun, StartCollect, FinishCollect, StartFilter, FinishRun,
     AbortRun, Crash, vars
<1> QED
  BY <1>1, <1>2, <1>3, <1>4, <1>5 DEF Next, CollectFile

\* What is consumed stays consumed, and only the filter records.
LEMMA FilterStep ==
    ASSUME TypeOK, IngestInv, FilterInv, [Next]_vars PROVE FilterInv'
<1> USE EventInAssumption DEF FilterInv, dirs, seen, Valid
<1>1. ASSUME NEW f \in File, FilterFile(f) PROVE FilterInv'
  <2>1. /\ pc = "filter" /\ f \in accepted /\ f \in processed /\ Valid(f)
        /\ todo' = todo \ {f} /\ candidates' = candidates \cup ({EventIn[f]} \cap Wanted)
        /\ UNCHANGED <<processed, accepted, pc>>
    BY <1>1 DEF FilterFile, Visit, IngestInv, RunShape, AcceptedIsConsumed
  <2> QED
    BY <2>1
<1>2. CASE StartFilter
  BY <1>2 DEF StartFilter
<1>3. ASSUME pc' # "filter", processed \subseteq processed', candidates' = candidates
      PROVE  FilterInv'
  BY <1>3
<1>4. ASSUME NEW f \in File,
             \/ Arrive(f) \/ IntakeMove(f) \/ IntakeSkip(f) \/ CollectFails(f) \/ Reject(f)
             \/ Duplicate(f) \/ MarkSeen(f) \/ MarkSeenFails(f) \/ MoveAccepted(f)
             \/ RollbackMark(f) \/ RollbackFails(f)
      PROVE  FilterInv'
  <2>1. ASSUME Arrive(f) PROVE FilterInv'
    BY <2>1 DEF Arrive
  <2>2. ASSUME IntakeMove(f) \/ IntakeSkip(f) PROVE FilterInv'
    BY <2>2, <1>3 DEF IntakeMove, IntakeSkip
  <2>3. ASSUME CollectFails(f) \/ Reject(f) \/ Duplicate(f) \/ MarkSeen(f) \/ MarkSeenFails(f)
        PROVE  FilterInv'
    BY <2>3, <1>3 DEF CollectFails, Reject, Duplicate, MarkSeen, MarkSeenFails, Collecting
  <2>4. ASSUME MoveAccepted(f) \/ RollbackMark(f) \/ RollbackFails(f) PROVE FilterInv'
    <3>1. pc = "collect"
      BY <2>4 DEF MoveAccepted, RollbackMark, RollbackFails, IngestInv, RunShape
    <3> QED
      BY <2>4, <3>1, <1>3 DEF MoveAccepted, RollbackMark, RollbackFails, EndRun
  <2> QED
    BY <1>4, <2>1, <2>2, <2>3, <2>4
<1>5. CASE StartRun \/ StartCollect \/ FinishCollect
  BY <1>5, <1>3 DEF StartRun, StartCollect, FinishCollect
<1>6. CASE FinishRun \/ AbortRun \/ Crash
  BY <1>6, <1>3 DEF FinishRun, AbortRun, Crash, EndRun
<1>7. CASE UNCHANGED vars
  BY <1>7 DEF vars
<1> HIDE DEF FilterInv
<1> QED
  BY <1>1, <1>2, <1>4, <1>5, <1>6, <1>7 DEF Next, CollectFile

\* A mark is made before its file is moved and taken back only without one.
LEMMA ConsumedIsSeenStep ==
    ASSUME TypeOK, IngestInv, ConsumedIsSeen, [Next]_vars PROVE ConsumedIsSeen'
<1> SUFFICES ASSUME fault' = {}
             PROVE  (/\ seenMem \subseteq seenDisk
                     /\ \A g \in processed : Valid(g) => EventIn[g] \in seenDisk
                     /\ \A f \in moving : \A g \in processed : EventIn[g] # EventIn[f])'
  BY DEF ConsumedIsSeen
<1> DEFINE Goal == /\ seenMem \subseteq seenDisk
                   /\ \A g \in processed : Valid(g) => EventIn[g] \in seenDisk
                   /\ \A f \in moving : \A g \in processed : EventIn[g] # EventIn[f]
<1> USE EventInAssumption DEF ConsumedIsSeen, dirs, seen, Valid
<1>1. ASSUME NEW f \in File, Arrive(f) \/ IntakeMove(f) \/ IntakeSkip(f) \/ FilterFile(f)
      PROVE  Goal'
  BY <1>1 DEF Arrive, IntakeMove, IntakeSkip, FilterFile
<1>2. ASSUME NEW f \in File, CollectFails(f) \/ Reject(f) \/ Duplicate(f) PROVE Goal'
  BY <1>2 DEF CollectFails, Reject, Duplicate, Collecting
<1>3. ASSUME NEW f \in File, MarkSeen(f) PROVE Goal'
  <2>1. seenDisk \subseteq seenMem
    BY <1>3 DEF MarkSeen, Collecting, IngestInv, MemoryCoversDisk
  <2>2. \A g \in processed : EventIn[g] # EventIn[f]
    BY <1>3, <2>1 DEF MarkSeen, Collecting
  <2> QED
    BY <1>3, <2>1, <2>2 DEF MarkSeen, Collecting
<1>4. ASSUME NEW f \in File, MarkSeenFails(f) \/ RollbackFails(f) PROVE FALSE
  BY <1>4 DEF MarkSeenFails, RollbackFails
<1>5. ASSUME NEW f \in File, MoveAccepted(f) PROVE Goal'
  BY <1>5 DEF MoveAccepted, IngestInv, MovingIsMarked
<1>6. ASSUME NEW f \in File, RollbackMark(f) PROVE Goal'
  <2>1. seenDisk \subseteq seenMem /\ f \in moving
    BY <1>6 DEF RollbackMark, IngestInv, RunShape, MemoryCoversDisk
  <2> QED
    BY <1>6, <2>1 DEF RollbackMark
<1>7. CASE StartRun \/ StartCollect \/ StartFilter
  BY <1>7 DEF StartRun, StartCollect, StartFilter
<1>8. CASE FinishCollect
  <2>1. seenDisk \subseteq seenMem
    BY <1>8 DEF FinishCollect, IngestInv, MemoryCoversDisk
  <2> QED
    BY <1>8, <2>1 DEF FinishCollect
<1>9. CASE FinishRun \/ AbortRun \/ Crash
  BY <1>9 DEF FinishRun, AbortRun, Crash, EndRun
<1>10. CASE UNCHANGED vars
  BY <1>10 DEF vars
<1> QED
  BY <1>1, <1>2, <1>3, <1>4, <1>5, <1>6, <1>7, <1>8, <1>9, <1>10 DEF Next, CollectFile

-----------------------------------------------------------------------------
\* The pipeline makes no name collision of its own.
THEOREM NoOwnCollision == Spec => []NoCollisionOfItsOwn
<1>1. Init => NoCollisionOfItsOwn
  BY DEF Init, NoCollisionOfItsOwn, NameCollision
<1>2. TypeOK /\ NoCollisionOfItsOwn /\ [Next]_vars => NoCollisionOfItsOwn'
  BY CollisionStep
<1> QED
  BY <1>1, <1>2, TypeCorrect, PTL DEF Spec

\* A page at rest that asks for nobody: what came is recorded.
THEOREM QuietPageIsTrue == Spec => []QuietMeansRecorded
<1>1. TypeOK /\ NoSilentLoss => QuietMeansRecorded
  <2> SUFFICES ASSUME TypeOK, NoSilentLoss, Quiet, NEW e \in Wanted, e \notin candidates
               PROVE  /\ e \notin seenDisk
                      /\ \A f \in File : EventIn[f] = e => transport[f] = "absent" /\ ~Taken(f)
    BY DEF QuietMeansRecorded
  <2>1. /\ incoming = {} /\ rejected = {} /\ Orphaned = {}
        /\ Unparseable = {} /\ AwaitingIntake = {}
    BY DEF Quiet, IsClear, AwaitingCollection
  <2>2. ASSUME NEW f \in File, EventIn[f] = e PROVE transport[f] = "absent" /\ ~Taken(f)
    <3>1. f \notin processed
      BY <2>1, <2>2 DEF Orphaned
    <3>2. ~Taken(f)
      BY <2>1, <3>1 DEF Taken
    <3>3. transport[f] # "partial" /\ transport[f] # "complete"
      BY <2>1, <3>2 DEF Unparseable, AwaitingIntake
    <3> QED
      BY <3>2, <3>3 DEF TypeOK
  <2>3. e \notin seenDisk
    BY <2>1 DEF NoSilentLoss
  <2> QED
    BY <2>2, <2>3
<1> QED
  BY <1>1, TypeCorrect, LossIsVisible, PTL

\* Company History and the number of Events of the section agree.
THEOREM CountAgrees == Spec => []HistoryAgreesWithCount
<1>1. Init => FilterInv
  BY DEF Init, FilterInv
<1>2. TypeOK /\ IngestInv /\ FilterInv /\ [Next]_vars => FilterInv'
  BY FilterStep
<1>3. FilterInv => HistoryAgreesWithCount
  BY DEF FilterInv, HistoryAgreesWithCount, Counted, Orphaned
<1> QED
  BY <1>1, <1>2, <1>3, TypeCorrect, IngestInvariant, PTL DEF Spec

\* What the page says of later runs holds.
THEOREM LinesHold == Spec => LinesStay
<1>1. Init => ConsumedIsSeen
  BY DEF Init, ConsumedIsSeen
<1>2. TypeOK /\ IngestInv /\ ConsumedIsSeen /\ [Next]_vars => ConsumedIsSeen'
  BY ConsumedIsSeenStep
<1>3. ASSUME TypeOK, IngestInv, ConsumedIsSeen, Next
      PROVE  /\ AlreadyCollected \subseteq AlreadyCollected'
             /\ \A f \in (Suppressed \ Suppressed') \cup (Unparseable \ Unparseable') :
                   transport[f] = "partial" /\ (transport'[f] = "complete" \/ f \in Suppressed')
             /\ \A f \in accepted' \ accepted : EventIn[f] \in Orphaned => fault # {}
  <2>1. ASSUME NEW f \in File, MoveAccepted(f)
        PROVE  \A g \in accepted' \ accepted : EventIn[g] \in Orphaned => fault # {}
    <3>1. f \in moving /\ accepted' = accepted \cup {f}
      BY <2>1 DEF MoveAccepted
    <3>2. ASSUME EventIn[f] \in Orphaned PROVE \E h \in processed : EventIn[h] = EventIn[f]
      BY <3>2 DEF Orphaned
    <3>3. EventIn[f] \in Orphaned => fault # {}
      BY <1>3, <3>1, <3>2 DEF ConsumedIsSeen
    <3> QED
      BY <3>1, <3>3
  <2> USE DEF AlreadyCollected, Suppressed, Unparseable, HasId, Taken, dirs, seen
  <2>2. (\E f \in File : MoveAccepted(f)) \/ accepted' \subseteq accepted
    BY <1>3 DEF Next, CollectFile, Arrive, IntakeMove, IntakeSkip, CollectFails, Reject,
       Duplicate, MarkSeen, MarkSeenFails, RollbackMark, RollbackFails, FilterFile, StartRun,
       StartCollect, FinishCollect, StartFilter, FinishRun, AbortRun, Crash, EndRun
  <2>3. ASSUME NEW f \in File PROVE Taken(f) => Taken(f)'
    BY <1>3 DEF Next, CollectFile, Arrive, IntakeMove, IntakeSkip, CollectFails, Reject,
       Duplicate, MarkSeen, MarkSeenFails, MoveAccepted, RollbackMark, RollbackFails,
       FilterFile, StartRun, StartCollect, FinishCollect, StartFilter, FinishRun, AbortRun,
       Crash, MoveTo
  <2>4. ASSUME NEW f \in File
        PROVE  \/ transport'[f] = transport[f]
               \/ transport[f] = "absent" /\ transport'[f] = "partial"
               \/ transport[f] = "partial" /\ transport'[f] = "complete"
               \/ transport[f] = "complete" /\ ~Taken(f)
    BY <1>3 DEF Next, CollectFile, Arrive, IntakeMove, IntakeSkip, CollectFails, Reject,
       Duplicate, MarkSeen, MarkSeenFails, MoveAccepted, RollbackMark, RollbackFails,
       FilterFile, StartRun, StartCollect, FinishCollect, StartFilter, FinishRun, AbortRun,
       Crash, TypeOK
  <2>5. AlreadyCollected \subseteq AlreadyCollected'
    BY <2>3, <2>4
  <2>6. ASSUME NEW f \in (Suppressed \ Suppressed') \cup (Unparseable \ Unparseable')
        PROVE  transport[f] = "partial" /\ (transport'[f] = "complete" \/ f \in Suppressed')
    BY <2>3, <2>4, <2>6 DEF TypeOK
  <2> QED
    BY <2>1, <2>2, <2>5, <2>6
<1>4. ASSUME UNCHANGED vars
      PROVE  /\ AlreadyCollected \subseteq AlreadyCollected'
             /\ \A f \in (Suppressed \ Suppressed') \cup (Unparseable \ Unparseable') :
                   transport[f] = "partial" /\ (transport'[f] = "complete" \/ f \in Suppressed')
             /\ \A f \in accepted' \ accepted : EventIn[f] \in Orphaned => fault # {}
  BY <1>4 DEF vars, dirs, AlreadyCollected, Suppressed, Unparseable, HasId, Taken
<1> QED
  BY <1>1, <1>2, <1>3, <1>4, TypeCorrect, IngestInvariant, PTL DEF Spec, LinesStay
=============================================================================
