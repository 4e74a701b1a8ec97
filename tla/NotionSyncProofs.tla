-------------------------- MODULE NotionSyncProofs -------------------------
(***************************************************************************)
(* TLAPS proofs about NotionSync for all Events, projects and times.       *)
(*                                                                         *)
(* None of the invariants is inductive.  A save may replace the queue only *)
(* because whatever it leaves out was dequeued after a success (QueueInv), *)
(* and a write may only move a row forward because nothing but a person    *)
(* touches the row between the query and the write (HandInv): one run at a *)
(* time, one Event in hand.                                                *)
(***************************************************************************)
EXTENDS NotionSync, TLAPS

\* One Event is in hand, and what was found is still what its row shows.
HandInv ==
    /\ \A e, f \in hand : e = f
    /\ \A e \in hand : /\ found.shown = shown[ProjectOf[e]]
                       /\ found.dated \/ ProjectOf[e] \in edited
    /\ undated \subseteq edited

\* Outside a run nothing is in memory; within, the queue misses from the file
\* what was synced only.
QueueInv ==
    /\ ~running => fresh = {} /\ hand = {} /\ queueMem = {}
    /\ running => queueDisk \subseteq queueMem \cup done

\* Each accepted Event is somewhere.
Somewhere == consumed \subseteq done \cup lost \cup queueDisk \cup fresh \cup hand \cup queueMem

\* What was answered or written is shown, or something not older.
AppliedIsShown ==
    \A e \in done \cup applied : LET p == ProjectOf[e] IN
        \/ p \in edited
        \/ shown[p] \in Event /\ Minute[e] <= Minute[shown[p]]

-----------------------------------------------------------------------------
\* Each step keeps the types.
LEMMA TypeStep == TypeOK /\ [Next]_vars => TypeOK'
  <1> SUFFICES ASSUME TypeOK, [Next]_vars
               PROVE TypeOK'
    OBVIOUS
  <1> USE EventAssumption DEF TypeOK, Found, NothingFound, row, queue, past
  <1>1. ASSUME NEW batch \in SUBSET Event, StartRun(batch)
       PROVE TypeOK'
    BY <1>1 DEF StartRun
  <1>2. ASSUME NEW batch \in SUBSET Event, LoadFails(batch)
       PROVE TypeOK'
    BY <1>2 DEF LoadFails
  <1>3. ASSUME NEW e \in Event, ReadFails(e)
       PROVE TypeOK'
    BY <1>3 DEF ReadFails
  <1>4. ASSUME NEW e \in Event, Find(e)
       PROVE TypeOK'
    BY <1>4 DEF Find, Turn, Taken
  <1>5. ASSUME NEW e \in Event, FindFails(e)
       PROVE TypeOK'
    BY <1>5 DEF FindFails, Turn, Taken, Requeue
  <1>6. ASSUME NEW e \in Event, Skip(e)
       PROVE TypeOK'
    BY <1>6 DEF Skip, LetGo, Dequeue
  <1>7. ASSUME NEW e \in Event, Write(e)
       PROVE TypeOK'
    BY <1>7 DEF Write, Apply, LetGo, Dequeue, NewBlocked
  <1>8. ASSUME NEW e \in Event, AnswerLost(e)
       PROVE TypeOK'
    BY <1>8 DEF AnswerLost, Apply, LetGo, Requeue, NewBlocked
  <1>9. ASSUME NEW e \in Event, WriteFails(e)
       PROVE TypeOK'
    BY <1>9 DEF WriteFails, LetGo, Requeue
  <1>10. CASE Save
    BY <1>10 DEF Save, Through, EndRun
  <1>11. CASE SaveFails
    BY <1>11 DEF SaveFails, EndRun, Unsaved
  <1>12. CASE Crash
    BY <1>12 DEF Crash, EndRun, Unsaved
  <1>13. ASSUME NEW p \in Project, EditDate(p)
       PROVE TypeOK'
    BY <1>13 DEF EditDate
  <1>14. CASE UNCHANGED vars
    BY <1>14 DEF vars, row, queue, past
  <1> QED
    BY <1>1, <1>2, <1>3, <1>4, <1>5, <1>6, <1>7, <1>8, <1>9, <1>10, <1>11,
       <1>12, <1>13, <1>14 DEF Next, Sync

\* Type correctness: the row, the queue and what a run holds have their types.
THEOREM TypeCorrect == Spec => []TypeOK
  <1>1. ASSUME Init
        PROVE TypeOK
    <2>1. shown \in [Project -> Event \cup {NoEvent}]
      BY <1>1 DEF Init
    <2>2. found \in Found
      BY <1>1 DEF Init, Found, NothingFound
    <2> QED
      BY <1>1, <2>1, <2>2 DEF Init, TypeOK
  <1> QED
    BY <1>1, TypeStep, PTL DEF Spec

-----------------------------------------------------------------------------
\* Each step keeps track of the Events in memory and in the queue.
LEMMA QueueStep == TypeOK /\ HandInv /\ QueueInv /\ Somewhere /\ [Next]_vars => (QueueInv /\ Somewhere)'
  <1> SUFFICES ASSUME TypeOK, HandInv, QueueInv, Somewhere, [Next]_vars
               PROVE (QueueInv /\ Somewhere)'
    OBVIOUS
  <1> USE DEF TypeOK, HandInv, QueueInv, Somewhere, row, queue, past
  <1>1. ASSUME NEW batch \in SUBSET Event, StartRun(batch)
       PROVE (QueueInv /\ Somewhere)'
    BY <1>1 DEF StartRun
  <1>2. ASSUME NEW batch \in SUBSET Event, LoadFails(batch)
       PROVE (QueueInv /\ Somewhere)'
    BY <1>2 DEF LoadFails
  <1>3. ASSUME NEW e \in Event, ReadFails(e)
       PROVE (QueueInv /\ Somewhere)'
    BY <1>3 DEF ReadFails
  <1>4. ASSUME NEW e \in Event, Find(e)
       PROVE (QueueInv /\ Somewhere)'
    BY <1>4 DEF Find, Turn, Taken
  <1>5. ASSUME NEW e \in Event, FindFails(e)
       PROVE (QueueInv /\ Somewhere)'
    BY <1>5 DEF FindFails, Turn, Taken, Requeue
  <1>6. ASSUME NEW e \in Event, Skip(e)
       PROVE (QueueInv /\ Somewhere)'
    BY <1>6 DEF Skip, LetGo, Dequeue
  <1>7. ASSUME NEW e \in Event, Write(e)
       PROVE (QueueInv /\ Somewhere)'
    BY <1>7 DEF Write, Apply, LetGo, Dequeue
  <1>8. ASSUME NEW e \in Event, AnswerLost(e)
       PROVE (QueueInv /\ Somewhere)'
    BY <1>8 DEF AnswerLost, Apply, LetGo, Requeue
  <1>9. ASSUME NEW e \in Event, WriteFails(e)
       PROVE (QueueInv /\ Somewhere)'
    BY <1>9 DEF WriteFails, LetGo, Requeue
  <1>10. CASE Save
    BY <1>10 DEF Save, Through, EndRun
  <1>11. CASE SaveFails
    BY <1>11 DEF SaveFails, EndRun, Unsaved
  <1>12. CASE Crash
    BY <1>12 DEF Crash, EndRun, Unsaved
  <1>13. ASSUME NEW p \in Project, EditDate(p)
       PROVE (QueueInv /\ Somewhere)'
    BY <1>13 DEF EditDate
  <1>14. CASE UNCHANGED vars
    BY <1>14 DEF vars, row, queue, past
  <1> QED
    BY <1>1, <1>2, <1>3, <1>4, <1>5, <1>6, <1>7, <1>8, <1>9, <1>10, <1>11,
       <1>12, <1>13, <1>14 DEF Next, Sync

\* Each step keeps what was found valid for the Event in hand.
LEMMA HandStep == TypeOK /\ HandInv /\ QueueInv /\ [Next]_vars => HandInv'
  <1> SUFFICES ASSUME TypeOK, HandInv, QueueInv, [Next]_vars
               PROVE HandInv'
    OBVIOUS
  <1> USE EventAssumption DEF TypeOK, Found, HandInv, QueueInv, row, queue, past
  <1>1. ASSUME NEW batch \in SUBSET Event, StartRun(batch)
       PROVE HandInv'
    BY <1>1 DEF StartRun
  <1>2. ASSUME NEW batch \in SUBSET Event, LoadFails(batch)
       PROVE HandInv'
    BY <1>2 DEF LoadFails
  <1>3. ASSUME NEW e \in Event, ReadFails(e)
       PROVE HandInv'
    BY <1>3 DEF ReadFails
  <1>4. ASSUME NEW e \in Event, Find(e)
       PROVE HandInv'
    BY <1>4 DEF Find, Turn, Taken
  <1>5. ASSUME NEW e \in Event, FindFails(e)
       PROVE HandInv'
    BY <1>5 DEF FindFails, Turn, Taken, Requeue
  <1>6. ASSUME NEW e \in Event, Skip(e)
       PROVE HandInv'
    BY <1>6 DEF Skip, LetGo, Dequeue
  <1>7. ASSUME NEW e \in Event, Write(e)
       PROVE HandInv'
    BY <1>7 DEF Write, Apply, LetGo, Dequeue
  <1>8. ASSUME NEW e \in Event, AnswerLost(e)
       PROVE HandInv'
    BY <1>8 DEF AnswerLost, Apply, LetGo, Requeue
  <1>9. ASSUME NEW e \in Event, WriteFails(e)
       PROVE HandInv'
    BY <1>9 DEF WriteFails, LetGo, Requeue
  <1>10. CASE Save
    BY <1>10 DEF Save, Through, EndRun
  <1>11. CASE SaveFails
    BY <1>11 DEF SaveFails, EndRun
  <1>12. CASE Crash
    BY <1>12 DEF Crash, EndRun
  <1>13. ASSUME NEW p \in Project, EditDate(p)
       PROVE HandInv'
    BY <1>13 DEF EditDate
  <1>14. CASE UNCHANGED vars
    BY <1>14 DEF vars, row, queue, past
  <1> QED
    BY <1>1, <1>2, <1>3, <1>4, <1>5, <1>6, <1>7, <1>8, <1>9, <1>10, <1>11,
       <1>12, <1>13, <1>14 DEF Next, Sync

\* No accepted Event goes missing: it is synced, queued, with the run, or was
\* dropped by a run that ended early.
THEOREM NothingGoesMissing == Spec => []Accounted
  <1> DEFINE Inv == HandInv /\ QueueInv /\ Somewhere
  <1>1. Init => Inv
    BY DEF Init, HandInv, QueueInv, Somewhere
  <1>2. TypeOK /\ Inv /\ [Next]_vars => Inv'
    BY QueueStep, HandStep
  <1>3. Inv => Accounted
    BY DEF Somewhere, Accounted, Unsaved
  <1> QED
    BY <1>1, <1>2, <1>3, TypeCorrect, PTL DEF Spec

-----------------------------------------------------------------------------
\* A time is never below its minute, and minutes follow times.
LEMMA LaterMinute ==
    ASSUME NEW e \in Event, NEW f \in Event
    PROVE  /\ Minute[e] \in Nat /\ Time[e] \in Nat /\ Minute[e] <= Time[e]
           /\ ~(Time[e] <= Minute[f]) => Minute[f] <= Minute[e]
BY TimeAssumption

\* A write moves its row to an Event of the same minute or a later one, compared
\* with all the row has shown, and never to the one it shows.
LEMMA ApplyMovesOn ==
    ASSUME TypeOK, HandInv, AppliedIsShown, NEW e \in Event, Apply(e)
    PROVE  /\ shown[ProjectOf[e]] # e
           /\ \A f \in done \cup applied :
                ProjectOf[f] = ProjectOf[e] =>
                    \/ ProjectOf[f] \in edited
                    \/ /\ shown[ProjectOf[f]] \in Event
                       /\ Minute[f] <= Minute[shown[ProjectOf[f]]]
                       /\ Minute[shown[ProjectOf[f]]] <= Minute[e]
  <1>1. found.shown = shown[ProjectOf[e]] /\ (found.dated \/ ProjectOf[e] \in edited)
    BY DEF HandInv, Apply
  <1>2. shown[ProjectOf[e]] # e
    BY <1>1 DEF Apply, IsShown
  <1>3. ASSUME NEW f \in done \cup applied, ProjectOf[f] = ProjectOf[e],
               ProjectOf[f] \notin edited
        PROVE  /\ shown[ProjectOf[f]] \in Event
               /\ Minute[f] <= Minute[shown[ProjectOf[f]]]
               /\ Minute[shown[ProjectOf[f]]] <= Minute[e]
    <2>1. shown[ProjectOf[f]] \in Event /\ Minute[f] <= Minute[shown[ProjectOf[f]]]
      BY <1>3 DEF AppliedIsShown
    <2>2. found.shown \in Event /\ found.dated
      BY <1>1, <1>3, <2>1
    <2>3. ~(Time[e] <= Minute[shown[ProjectOf[e]]])
      BY <1>1, <2>2 DEF Apply, IsLate
    <2> QED
      BY <1>3, <2>1, <2>3, LaterMinute
  <1> QED
    BY <1>2, <1>3

\* A write leaves what was answered or written shown.
LEMMA ApplyShows ==
    ASSUME TypeOK, HandInv, AppliedIsShown, NEW e \in Event, Apply(e),
           done' \subseteq done \cup {e}, UNCHANGED edited
    PROVE  AppliedIsShown'
  <1> SUFFICES ASSUME NEW f \in (done \cup applied)', ProjectOf[f] \notin edited
               PROVE  /\ shown'[ProjectOf[f]] \in Event
                      /\ Minute[f] <= Minute[shown'[ProjectOf[f]]]
    BY DEF AppliedIsShown
  <1>1. /\ shown' = [shown EXCEPT ![ProjectOf[e]] = e]
        /\ applied' = applied \cup {e}
        /\ f \in Event /\ ProjectOf[e] \in Project /\ ProjectOf[f] \in Project
        /\ shown \in [Project -> Event \cup {NoEvent}]
    BY EventAssumption DEF Apply, TypeOK
  <1>2. CASE f = e
    BY <1>1, <1>2, LaterMinute
  <1>3. CASE f # e /\ ProjectOf[f] = ProjectOf[e]
    <2>1. /\ shown[ProjectOf[f]] \in Event
          /\ Minute[f] <= Minute[shown[ProjectOf[f]]]
          /\ Minute[shown[ProjectOf[f]]] <= Minute[e]
      BY <1>1, <1>3, ApplyMovesOn
    <2>2. Minute[f] <= Minute[e]
      BY <1>1, <2>1, LaterMinute
    <2> QED
      BY <1>1, <1>3, <2>2
  <1>4. CASE ProjectOf[f] # ProjectOf[e]
    BY <1>1, <1>4 DEF AppliedIsShown
  <1> QED
    BY <1>2, <1>3, <1>4

\* Each step keeps what was answered or written shown.
LEMMA ShownStep == TypeOK /\ HandInv /\ AppliedIsShown /\ [Next]_vars => AppliedIsShown'
  <1> SUFFICES ASSUME TypeOK, HandInv, AppliedIsShown, [Next]_vars
               PROVE AppliedIsShown'
    OBVIOUS
  <1>1. ASSUME NEW batch \in SUBSET Event, StartRun(batch)
       PROVE AppliedIsShown'
    BY <1>1 DEF StartRun, AppliedIsShown, row, queue, past
  <1>2. ASSUME NEW batch \in SUBSET Event, LoadFails(batch)
       PROVE AppliedIsShown'
    BY <1>2 DEF LoadFails, AppliedIsShown, row, queue, past
  <1>3. ASSUME NEW e \in Event, ReadFails(e)
       PROVE AppliedIsShown'
    BY <1>3 DEF ReadFails, AppliedIsShown, row, queue, past
  <1>4. ASSUME NEW e \in Event, Find(e)
       PROVE AppliedIsShown'
    BY <1>4 DEF Find, Turn, Taken, AppliedIsShown, row, queue, past
  <1>5. ASSUME NEW e \in Event, FindFails(e)
       PROVE AppliedIsShown'
    BY <1>5 DEF FindFails, Turn, Taken, Requeue, AppliedIsShown, row, queue, past
  <1>6. ASSUME NEW e \in Event, Skip(e)
       PROVE AppliedIsShown'
    <2>1. /\ shown' = shown /\ edited' = edited /\ applied' = applied
          /\ done' = done \cup {e}
      BY <1>6 DEF Skip, Dequeue, row
    <2>2. found.shown = shown[ProjectOf[e]]
      BY <1>6 DEF Skip, HandInv
    <2>3. found.shown \in Event /\ Minute[e] <= Minute[found.shown]
      <3>1. CASE IsShown(e)
        BY <3>1, LaterMinute DEF IsShown
      <3>2. CASE IsLate(e)
        BY <3>2, LaterMinute DEF IsLate
      <3> QED
        BY <1>6, <3>1, <3>2 DEF Skip
    <2> QED
      BY <2>1, <2>2, <2>3 DEF AppliedIsShown
  <1>7. ASSUME NEW e \in Event, Write(e)
       PROVE AppliedIsShown'
    BY <1>7, ApplyShows DEF Write, Dequeue
  <1>8. ASSUME NEW e \in Event, AnswerLost(e)
       PROVE AppliedIsShown'
    BY <1>8, ApplyShows DEF AnswerLost, Requeue
  <1>9. ASSUME NEW e \in Event, WriteFails(e)
       PROVE AppliedIsShown'
    BY <1>9 DEF WriteFails, LetGo, Requeue, AppliedIsShown, row, queue, past
  <1>10. CASE Save
    BY <1>10 DEF Save, Through, EndRun, AppliedIsShown, row, queue, past
  <1>11. CASE SaveFails
    BY <1>11 DEF SaveFails, EndRun, AppliedIsShown, row, queue, past
  <1>12. CASE Crash
    BY <1>12 DEF Crash, EndRun, AppliedIsShown, row, queue, past
  <1>13. ASSUME NEW p \in Project, EditDate(p)
       PROVE AppliedIsShown'
    BY <1>13 DEF EditDate, AppliedIsShown, row, queue, past
  <1>14. CASE UNCHANGED vars
    BY <1>14 DEF vars, row, past, AppliedIsShown
  <1> QED
    BY <1>1, <1>2, <1>3, <1>4, <1>5, <1>6, <1>7, <1>8, <1>9, <1>10, <1>11,
       <1>12, <1>13, <1>14 DEF Next, Sync

\* The invariant behind the guards of _update.
SyncInv == HandInv /\ QueueInv /\ Somewhere /\ AppliedIsShown

LEMMA SyncInvariant == Spec => [](TypeOK /\ SyncInv)
  <1>1. Init => SyncInv
    BY DEF Init, SyncInv, HandInv, QueueInv, Somewhere, AppliedIsShown
  <1>2. TypeOK /\ SyncInv /\ [Next]_vars => SyncInv'
    BY QueueStep, HandStep, ShownStep DEF SyncInv
  <1> QED
    BY <1>1, <1>2, TypeCorrect, PTL DEF Spec

\* A row never goes back behind an Event that counts as synced.
THEOREM RowNeverGoesBack == Spec => []DoneIsShown
  <1>1. SyncInv => DoneIsShown
    BY DEF SyncInv, AppliedIsShown, DoneIsShown
  <1> QED
    BY <1>1, SyncInvariant, PTL

\* An Event is written twice within the minute of another one only, or after a
\* person took the date away.
THEOREM WrittenOnce == Spec => AppliedTwiceOnlyWithinAMinute
  <1> DEFINE Once == \A e \in applied : LET p == ProjectOf[e] IN
                Apply(e) => /\ shown[p] # e
                            /\ p \in edited \/ Minute[shown[p]] = Minute[e]
  <1>1. TypeOK /\ SyncInv /\ [Next]_vars => [Once]_vars
    <2> SUFFICES ASSUME TypeOK, SyncInv, NEW e \in applied, Apply(e)
                 PROVE  /\ shown[ProjectOf[e]] # e
                        /\ \/ ProjectOf[e] \in edited
                           \/ Minute[shown[ProjectOf[e]]] = Minute[e]
      OBVIOUS
    <2>1. e \in Event
      BY DEF TypeOK
    <2>2. /\ shown[ProjectOf[e]] # e
          /\ \/ ProjectOf[e] \in edited
             \/ /\ shown[ProjectOf[e]] \in Event
                /\ Minute[e] <= Minute[shown[ProjectOf[e]]]
                /\ Minute[shown[ProjectOf[e]]] <= Minute[e]
      BY <2>1, ApplyMovesOn DEF SyncInv
    <2> QED
      BY <2>1, <2>2, LaterMinute
  <1> QED
    BY <1>1, SyncInvariant, PTL DEF Spec, AppliedTwiceOnlyWithinAMinute

-----------------------------------------------------------------------------
\* A write that leaves the column alone, and one that does not, both keep it at
\* the newest.
LEMMA ApplyBlocks ==
    ASSUME TypeOK, HandInv, AppliedIsShown, BlockerIsNewest, NEW e \in Event,
           Apply(e), UNCHANGED edited
    PROVE  BlockerIsNewest'
  <1> DEFINE Newer(S, f) == \E g \in S \ {f} : /\ ProjectOf[g] = ProjectOf[f]
                                               /\ Blocker[g] # "leaves"
                                               /\ Minute[f] <= Minute[g]
  <1> SUFFICES ASSUME NEW f \in applied', ProjectOf[f] \notin edited,
                      Blocker[f] # "leaves", ~Newer(applied', f)
               PROVE  ProjectOf[f] \in blocked' <=> Blocker[f] = "sets"
    BY DEF BlockerIsNewest
  <1>1. /\ applied' = applied \cup {e} /\ f \in Event
        /\ blocked' = NewBlocked(e)
        /\ Blocker[e] \in {"sets", "clears", "leaves"}
        /\ Blocker[f] \in {"sets", "clears", "leaves"}
    BY EventAssumption DEF Apply, TypeOK
  <1>2. CASE f = e
    BY <1>1, <1>2 DEF NewBlocked
  <1>3. CASE f # e
    <2>1. ProjectOf[f] \in blocked <=> Blocker[f] = "sets"
      BY <1>1, <1>3 DEF BlockerIsNewest
    <2>2. CASE ProjectOf[e] # ProjectOf[f] \/ Blocker[e] = "leaves"
      BY <1>1, <2>1, <2>2 DEF NewBlocked
    <2>3. CASE ProjectOf[e] = ProjectOf[f] /\ Blocker[e] # "leaves"
      <3>1. /\ shown[ProjectOf[f]] \in Event
            /\ Minute[f] <= Minute[shown[ProjectOf[f]]]
            /\ Minute[shown[ProjectOf[f]]] <= Minute[e]
        BY <1>1, <1>3, <2>3, ApplyMovesOn
      <3>2. Minute[f] <= Minute[e]
        BY <1>1, <3>1, LaterMinute
      <3> QED
        BY <1>1, <1>3, <2>3, <3>2
    <2> QED
      BY <2>2, <2>3
  <1> QED
    BY <1>2, <1>3

\* The Blocker column follows the newest Event that touches it.
THEOREM BlockerFollowsTheNewest == Spec => []BlockerIsNewest
  <1>1. Init => BlockerIsNewest
    BY DEF Init, BlockerIsNewest
  <1>2. TypeOK /\ SyncInv /\ BlockerIsNewest /\ [Next]_vars => BlockerIsNewest'
    <2> SUFFICES ASSUME TypeOK, SyncInv, BlockerIsNewest, [Next]_vars
                 PROVE BlockerIsNewest'
      OBVIOUS
    <2>1. ASSUME NEW batch \in SUBSET Event, StartRun(batch)
         PROVE BlockerIsNewest'
      BY <2>1 DEF StartRun, BlockerIsNewest, row, queue, past
    <2>2. ASSUME NEW batch \in SUBSET Event, LoadFails(batch)
         PROVE BlockerIsNewest'
      BY <2>2 DEF LoadFails, BlockerIsNewest, row, queue, past
    <2>3. ASSUME NEW e \in Event, ReadFails(e)
         PROVE BlockerIsNewest'
      BY <2>3 DEF ReadFails, BlockerIsNewest, row, queue, past
    <2>4. ASSUME NEW e \in Event, Find(e)
         PROVE BlockerIsNewest'
      BY <2>4 DEF Find, BlockerIsNewest, row, queue, past
    <2>5. ASSUME NEW e \in Event, FindFails(e)
         PROVE BlockerIsNewest'
      BY <2>5 DEF FindFails, BlockerIsNewest, row, queue, past
    <2>6. ASSUME NEW e \in Event, Skip(e)
         PROVE BlockerIsNewest'
      BY <2>6 DEF Skip, BlockerIsNewest, row, queue, past
    <2>7. ASSUME NEW e \in Event, Write(e)
         PROVE BlockerIsNewest'
      BY <2>7, ApplyBlocks DEF Write, SyncInv
    <2>8. ASSUME NEW e \in Event, AnswerLost(e)
         PROVE BlockerIsNewest'
      BY <2>8, ApplyBlocks DEF AnswerLost, SyncInv
    <2>9. ASSUME NEW e \in Event, WriteFails(e)
         PROVE BlockerIsNewest'
      BY <2>9 DEF WriteFails, BlockerIsNewest, row, queue, past
    <2>10. CASE Save
      BY <2>10 DEF Save, EndRun, BlockerIsNewest, row, queue, past
    <2>11. CASE SaveFails
      BY <2>11 DEF SaveFails, EndRun, BlockerIsNewest, row, queue, past
    <2>12. CASE Crash
      BY <2>12 DEF Crash, EndRun, BlockerIsNewest, row, queue, past
    <2>13. ASSUME NEW p \in Project, EditDate(p)
         PROVE BlockerIsNewest'
      BY <2>13 DEF EditDate, BlockerIsNewest, row, queue, past
    <2>14. CASE UNCHANGED vars
      BY <2>14 DEF vars, row, past, BlockerIsNewest
    <2> QED
      BY <2>1, <2>2, <2>3, <2>4, <2>5, <2>6, <2>7, <2>8, <2>9, <2>10, <2>11,
         <2>12, <2>13, <2>14 DEF Next, Sync
  <1> QED
    BY <1>1, <1>2, SyncInvariant, PTL DEF Spec
=============================================================================
