---------------------------- MODULE BackupProofs ----------------------------
(***************************************************************************)
(* TLAPS proofs about Backup for every set of files, every threshold and   *)
(* every number of versions.                                               *)
(*                                                                         *)
(* Each property has its own strengthening on top of TypeOK.  A deletion   *)
(* has to be confirmed before it can be on its way from the Working Copy   *)
(* over HEAD to the remote (DeletionInv).  A torn copy is either about to  *)
(* be overwritten or one that a sync could not see (TornInv).  And what    *)
(* the sync has listed stays ahead of the run on its way through the four  *)
(* places, up to the step that calls the run done (GreenInv).              *)
(***************************************************************************)
EXTENDS BackupStatus, TLAPS

\* No file vanishes from one place but not from the next one without a person.
DeletionInv ==
    \A f \in File :
        /\ working[f] = 0 /\ (head[f] # 0 \/ remote[f] # 0) => f \in confirmed
        /\ head[f] = 0 /\ remote[f] # 0 => f \in confirmed

\* Past the copying, a torn file is one that no sync could compare.
TornInv ==
    \A f \in File :
        /\ Torn \in {head[f], remote[f]} => f \in missed
        /\ pc = "copy" /\ working[f] = Torn => f \in toCopy \cup missed
        /\ pc = "commit" /\ working[f] = Torn => f \in missed

\* f is in a place whole, and not older than the sync saw it.
AsListed(place, f) == listed[f] # 0 => place[f] # Torn /\ place[f] >= listed[f]

GreenInv ==
    /\ ~ahead => remote = head
    /\ pc # "idle" => result = "running"
    /\ \A f \in File :
        /\ pc # "idle" => master[f] = 0 \/ master[f] >= listed[f]
        /\ pc = "copy" => f \in toCopy \/ AsListed(working, f)
        /\ pc = "commit" => AsListed(working, f)
        /\ pc \in {"push", "count"} => AsListed(head, f)
        /\ pc = "save" => AsListed(remote, f)

-----------------------------------------------------------------------------
\* A torn file is not a version, nor a missing one.
LEMMA TornIsNoVersion == Torn \notin Version /\ Torn # 0 /\ Version \subseteq Nat /\ 0 \in Version
BY TornAssumption, MaxVersionAssumption DEF Version

\* The version a writer starts from is a version, and not older than the file
\* or a copy of it.
LEMMA NewestIsNewest ==
    ASSUME TypeOK, NEW f \in File
    PROVE  /\ Newest(f) \in Version /\ Newest(f) >= master[f]
           /\ \A w \in {master[f], working[f], head[f]} \cap Version : w <= Newest(f)
<1> DEFINE V == {master[f], working[f], head[f]} \cap Version
<1>1. V \subseteq Nat /\ master[f] \in V
  BY TornIsNoVersion DEF TypeOK
<1>2. \E v \in V : \A w \in V : w <= v
  <2> DEFINE v1 == IF working[f] \in V /\ working[f] > master[f] THEN working[f] ELSE master[f]
             v2 == IF head[f] \in V /\ head[f] > v1 THEN head[f] ELSE v1
  <2>1. v1 \in V /\ v2 \in V
    BY <1>1
  <2>2. master[f] <= v1 /\ (working[f] \in V => working[f] <= v1)
    BY <1>1
  <2>3. v1 <= v2 /\ (head[f] \in V => head[f] <= v2)
    BY <1>1, <2>1
  <2>4. \A w \in V : w <= v2
    <3> HIDE DEF v1, v2
    <3> QED
      BY <1>1, <2>1, <2>2, <2>3
  <2> QED
    BY <2>1, <2>4
<1>3. \E v \in Version : v \in {master[f], working[f], head[f]}
        /\ \A w \in {master[f], working[f], head[f]} \cap Version : w <= v
  BY <1>2
<1>4. Newest(f) \in V /\ \A w \in V : w <= Newest(f)
  BY <1>3 DEF Newest
<1> QED
  BY <1>1, <1>4

\* Each step keeps the types.
LEMMA TypeStep == TypeOK /\ [Next]_vars => TypeOK'
  <1> SUFFICES ASSUME TypeOK, [Next]_vars
               PROVE TypeOK'
    OBVIOUS
  <1> USE TornIsNoVersion DEF TypeOK, Status, Nowhere
  <1>1. ASSUME NEW f \in File, WriteHistory(f)
       PROVE TypeOK'
    <2>1. Newest(f) + 1 \in Version
      BY <1>1, NewestIsNewest, MaxVersionAssumption DEF WriteHistory, Version
    <2> QED
      BY <1>1, <2>1 DEF WriteHistory, seen
  <1>2. ASSUME NEW f \in File, LoseFile(f)
       PROVE TypeOK'
    BY <1>2 DEF LoseFile, places, seen
  <1>3. ASSUME NEW f \in File, RestoreFile(f)
       PROVE TypeOK'
    BY <1>3 DEF RestoreFile, places, seen
  <1>4. ASSUME NEW f \in File, ConfirmDeletion(f)
       PROVE TypeOK'
    BY <1>4 DEF ConfirmDeletion, places, seen
  <1>5. CASE HandPush
    BY <1>5 DEF HandPush, Arrives, places, seen
  <1>6. CASE StateLost
    BY <1>6 DEF StateLost, places, seen
  <1>7. CASE SecretGate
    BY <1>7 DEF SecretGate, GateCloses, EndRun, places, seen
  <1>8. ASSUME NEW here \in SUBSET Present(master), NEW there \in SUBSET Present(working),
              DeletionGate(here, there)
       PROVE TypeOK'
    BY <1>8 DEF DeletionGate, GateCloses, EndRun, places, seen
  <1>9. ASSUME NEW here \in SUBSET Present(master), NEW there \in SUBSET Present(working),
              StartSync(here, there)
       PROVE TypeOK'
    BY <1>9 DEF StartSync, Sync, Present, places, seen
  <1>10. ASSUME NEW f \in File, CopyFile(f)
       PROVE TypeOK'
    BY <1>10 DEF CopyFile, places, seen
  <1>11. ASSUME NEW f \in File, TearFile(f)
       PROVE TypeOK'
    BY <1>11 DEF TearFile, EndByException, EndRun, places, seen
  <1>12. CASE MassGate
    BY <1>12 DEF MassGate, GateCloses, EndRun, places, seen
  <1>13. CASE Examine
    BY <1>13 DEF Examine, places, seen
  <1>14. CASE Commit
    BY <1>14 DEF Commit, places, seen
  <1>15. CASE Push
    BY <1>15 DEF Push, Arrives, places, seen
  <1>16. CASE GitFails
    BY <1>16 DEF GitFails, EndByException, EndRun, Arrives, places, seen
  <1>17. CASE Save
    BY <1>17 DEF Save, EndGreen, EndRun, places, seen
  <1>18. CASE CountNone
    BY <1>18 DEF CountNone, EndGreen, EndRun, places, seen
  <1>19. CASE CountSome
    BY <1>19 DEF CountSome, GoesOnFailing, EndRun, places, seen
  <1>20. CASE CountUnknown
    BY <1>20 DEF CountUnknown, EndGreen, GoesOnFailing, EndRun, places, seen
  <1>21. CASE Raise
    BY <1>21 DEF Raise, EndByException, EndRun, places, seen
  <1>22. CASE UNCHANGED vars
    BY <1>22 DEF vars, places, seen
  <1> QED
    BY <1>1, <1>2, <1>3, <1>4, <1>5, <1>6, <1>7, <1>8, <1>9, <1>10, <1>11,
       <1>12, <1>13, <1>14, <1>15, <1>16, <1>17, <1>18, <1>19, <1>20, <1>21,
       <1>22 DEF Next, People, Run

\* A file leaves a place only after it was deleted by a person.
LEMMA DeletionStep == TypeOK /\ DeletionInv /\ [Next]_vars => DeletionInv'
  <1> SUFFICES ASSUME TypeOK /\ DeletionInv, [Next]_vars
               PROVE DeletionInv'
    OBVIOUS
  <1> USE TornIsNoVersion DEF TypeOK, DeletionInv
  <1>1. ASSUME NEW f \in File, WriteHistory(f)
       PROVE DeletionInv'
    BY <1>1 DEF WriteHistory, places, seen
  <1>2. ASSUME NEW f \in File, LoseFile(f)
       PROVE DeletionInv'
    BY <1>2 DEF LoseFile, places, seen
  <1>3. ASSUME NEW f \in File, RestoreFile(f)
       PROVE DeletionInv'
    BY <1>3 DEF RestoreFile, places, seen
  <1>4. ASSUME NEW f \in File, ConfirmDeletion(f)
       PROVE DeletionInv'
    BY <1>4 DEF ConfirmDeletion, places, seen
  <1>5. CASE HandPush
    BY <1>5 DEF HandPush, Arrives, places, seen
  <1>6. CASE StateLost
    BY <1>6 DEF StateLost, places, seen
  <1>7. CASE SecretGate
    BY <1>7 DEF SecretGate, GateCloses, EndRun, places, seen
  <1>8. ASSUME NEW here \in SUBSET Present(master), NEW there \in SUBSET Present(working),
              DeletionGate(here, there)
       PROVE DeletionInv'
    BY <1>8 DEF DeletionGate, GateCloses, EndRun, places, seen
  <1>9. ASSUME NEW here \in SUBSET Present(master), NEW there \in SUBSET Present(working),
              StartSync(here, there)
       PROVE DeletionInv'
    BY <1>9 DEF StartSync, Sync, Present, places, seen
  <1>10. ASSUME NEW f \in File, CopyFile(f)
       PROVE DeletionInv'
    BY <1>10 DEF CopyFile, places, seen
  <1>11. ASSUME NEW f \in File, TearFile(f)
       PROVE DeletionInv'
    BY <1>11 DEF TearFile, EndByException, EndRun, places, seen
  <1>12. CASE MassGate
    BY <1>12 DEF MassGate, GateCloses, EndRun, places, seen
  <1>13. CASE Examine
    BY <1>13 DEF Examine, places, seen
  <1>14. CASE Commit
    BY <1>14 DEF Commit, places, seen
  <1>15. CASE Push
    BY <1>15 DEF Push, Arrives, places, seen
  <1>16. CASE GitFails
    BY <1>16 DEF GitFails, EndByException, EndRun, Arrives, places, seen
  <1>17. CASE Save
    BY <1>17 DEF Save, EndGreen, EndRun, places, seen
  <1>18. CASE CountNone
    BY <1>18 DEF CountNone, EndGreen, EndRun, places, seen
  <1>19. CASE CountSome
    BY <1>19 DEF CountSome, GoesOnFailing, EndRun, places, seen
  <1>20. CASE CountUnknown
    BY <1>20 DEF CountUnknown, EndGreen, GoesOnFailing, EndRun, places, seen
  <1>21. CASE Raise
    BY <1>21 DEF Raise, EndByException, EndRun, places, seen
  <1>22. CASE UNCHANGED vars
    BY <1>22 DEF vars, places, seen
  <1> QED
    BY <1>1, <1>2, <1>3, <1>4, <1>5, <1>6, <1>7, <1>8, <1>9, <1>10, <1>11,
       <1>12, <1>13, <1>14, <1>15, <1>16, <1>17, <1>18, <1>19, <1>20, <1>21,
       <1>22 DEF Next, People, Run

\* A torn copy is overwritten before it is committed.
LEMMA TornStep == TypeOK /\ TornInv /\ [Next]_vars => TornInv'
  <1> SUFFICES ASSUME TypeOK /\ TornInv, [Next]_vars
               PROVE TornInv'
    OBVIOUS
  <1> USE TornIsNoVersion DEF TypeOK, TornInv
  <1>1. ASSUME NEW f \in File, WriteHistory(f)
       PROVE TornInv'
    BY <1>1 DEF WriteHistory, places, seen
  <1>2. ASSUME NEW f \in File, LoseFile(f)
       PROVE TornInv'
    BY <1>2 DEF LoseFile, places, seen
  <1>3. ASSUME NEW f \in File, RestoreFile(f)
       PROVE TornInv'
    BY <1>3 DEF RestoreFile, places, seen
  <1>4. ASSUME NEW f \in File, ConfirmDeletion(f)
       PROVE TornInv'
    BY <1>4 DEF ConfirmDeletion, places, seen
  <1>5. CASE HandPush
    BY <1>5 DEF HandPush, Arrives, places, seen
  <1>6. CASE StateLost
    BY <1>6 DEF StateLost, places, seen
  <1>7. CASE SecretGate
    BY <1>7 DEF SecretGate, GateCloses, EndRun, places, seen
  <1>8. ASSUME NEW here \in SUBSET Present(master), NEW there \in SUBSET Present(working),
              DeletionGate(here, there)
       PROVE TornInv'
    BY <1>8 DEF DeletionGate, GateCloses, EndRun, places, seen
  <1>9. ASSUME NEW here \in SUBSET Present(master), NEW there \in SUBSET Present(working),
              StartSync(here, there)
       PROVE TornInv'
    BY <1>9 DEF StartSync, Sync, Present, places, seen
  <1>10. ASSUME NEW f \in File, CopyFile(f)
       PROVE TornInv'
    BY <1>10 DEF CopyFile, places, seen
  <1>11. ASSUME NEW f \in File, TearFile(f)
       PROVE TornInv'
    BY <1>11 DEF TearFile, EndByException, EndRun, places, seen
  <1>12. CASE MassGate
    BY <1>12 DEF MassGate, GateCloses, EndRun, places, seen
  <1>13. CASE Examine
    BY <1>13 DEF Examine, places, seen
  <1>14. CASE Commit
    BY <1>14 DEF Commit, places, seen
  <1>15. CASE Push
    BY <1>15 DEF Push, Arrives, places, seen
  <1>16. CASE GitFails
    BY <1>16 DEF GitFails, EndByException, EndRun, Arrives, places, seen
  <1>17. CASE Save
    BY <1>17 DEF Save, EndGreen, EndRun, places, seen
  <1>18. CASE CountNone
    BY <1>18 DEF CountNone, EndGreen, EndRun, places, seen
  <1>19. CASE CountSome
    BY <1>19 DEF CountSome, GoesOnFailing, EndRun, places, seen
  <1>20. CASE CountUnknown
    BY <1>20 DEF CountUnknown, EndGreen, GoesOnFailing, EndRun, places, seen
  <1>21. CASE Raise
    BY <1>21 DEF Raise, EndByException, EndRun, places, seen
  <1>22. CASE UNCHANGED vars
    BY <1>22 DEF vars, places, seen
  <1> QED
    BY <1>1, <1>2, <1>3, <1>4, <1>5, <1>6, <1>7, <1>8, <1>9, <1>10, <1>11,
       <1>12, <1>13, <1>14, <1>15, <1>16, <1>17, <1>18, <1>19, <1>20, <1>21,
       <1>22 DEF Next, People, Run

\* What was listed is carried on to the next place.
LEMMA GreenStep == TypeOK /\ TypeOK' /\ GreenInv /\ [Next]_vars => GreenInv'
  <1> SUFFICES ASSUME TypeOK /\ TypeOK' /\ GreenInv, [Next]_vars
               PROVE GreenInv'
    OBVIOUS
  <1> USE TornIsNoVersion DEF TypeOK, GreenInv, AsListed, Nowhere
  <1>1. ASSUME NEW f \in File, WriteHistory(f)
       PROVE GreenInv'
    <2>1. Newest(f) \in Nat /\ Newest(f) >= master[f] /\ master[f] \in Nat
      BY NewestIsNewest
    <2>2. ASSUME NEW g \in File, pc # "idle"
          PROVE  master'[g] = 0 \/ master'[g] >= listed[g]
      <3>1. CASE g = f
        <4>1. master'[f] = Newest(f) + 1 /\ master[f] >= listed[f] /\ listed[f] \in Nat
          BY <1>1, <2>2 DEF WriteHistory
        <4> QED
          BY <2>1, <3>1, <4>1
      <3>2. CASE g # f
        BY <1>1, <2>2, <3>2 DEF WriteHistory
      <3> QED
        BY <3>1, <3>2
    <2>3. UNCHANGED <<working, head, remote, ahead, pc, toCopy, result, listed>>
      BY <1>1 DEF WriteHistory, seen
    <2> QED
      BY <2>2, <2>3
  <1>2. ASSUME NEW f \in File, LoseFile(f)
       PROVE GreenInv'
    BY <1>2 DEF LoseFile, places, seen
  <1>3. ASSUME NEW f \in File, RestoreFile(f)
       PROVE GreenInv'
    BY <1>3 DEF RestoreFile, places, seen
  <1>4. ASSUME NEW f \in File, ConfirmDeletion(f)
       PROVE GreenInv'
    BY <1>4 DEF ConfirmDeletion, places, seen
  <1>5. CASE HandPush
    BY <1>5 DEF HandPush, Arrives, places, seen
  <1>6. CASE StateLost
    BY <1>6 DEF StateLost, places, seen
  <1>7. CASE SecretGate
    BY <1>7 DEF SecretGate, GateCloses, EndRun, places, seen
  <1>8. ASSUME NEW here \in SUBSET Present(master), NEW there \in SUBSET Present(working),
              DeletionGate(here, there)
       PROVE GreenInv'
    BY <1>8 DEF DeletionGate, GateCloses, EndRun, places, seen
  <1>9. ASSUME NEW here \in SUBSET Present(master), NEW there \in SUBSET Present(working),
              StartSync(here, there)
       PROVE GreenInv'
    <2>1. /\ pc' = "copy" /\ result' = "running"
          /\ listed' = [f \in File |-> IF f \in here THEN master[f] ELSE 0]
          /\ UNCHANGED <<master, working, head, remote, ahead>>
      BY <1>9 DEF StartSync, Sync, places
    <2>2. ASSUME NEW g \in File, g \notin toCopy', listed'[g] # 0
          PROVE  working[g] = master[g]
      BY <1>9, <2>1, <2>2 DEF StartSync, Sync, Present
    <2>3. ASSUME NEW g \in File
          PROVE  /\ master'[g] >= listed'[g]
                 /\ \/ g \in toCopy'
                    \/ listed'[g] # 0 => working'[g] # Torn /\ working'[g] >= listed'[g]
      <3>1. master[g] \in Nat /\ master[g] # Torn
        BY TornAssumption
      <3> QED
        BY <2>1, <2>2, <3>1
    <2> QED
      BY <2>1, <2>3
  <1>10. ASSUME NEW f \in File, CopyFile(f)
       PROVE GreenInv'
    BY <1>10 DEF CopyFile, places, seen
  <1>11. ASSUME NEW f \in File, TearFile(f)
       PROVE GreenInv'
    BY <1>11 DEF TearFile, EndByException, EndRun, places, seen
  <1>12. CASE MassGate
    BY <1>12 DEF MassGate, GateCloses, EndRun, places, seen
  <1>13. CASE Examine
    BY <1>13 DEF Examine, places, seen
  <1>14. CASE Commit
    BY <1>14 DEF Commit, places, seen
  <1>15. CASE Push
    BY <1>15 DEF Push, Arrives, places, seen
  <1>16. CASE GitFails
    BY <1>16 DEF GitFails, EndByException, EndRun, Arrives, places, seen
  <1>17. CASE Save
    BY <1>17 DEF Save, EndGreen, EndRun, places, seen
  <1>18. CASE CountNone
    BY <1>18 DEF CountNone, EndGreen, EndRun, places, seen
  <1>19. CASE CountSome
    BY <1>19 DEF CountSome, GoesOnFailing, EndRun, places, seen
  <1>20. CASE CountUnknown
    BY <1>20 DEF CountUnknown, EndGreen, GoesOnFailing, EndRun, places, seen
  <1>21. CASE Raise
    BY <1>21 DEF Raise, EndByException, EndRun, places, seen
  <1>22. CASE UNCHANGED vars
    BY <1>22 DEF vars, places, seen
  <1> QED
    BY <1>1, <1>2, <1>3, <1>4, <1>5, <1>6, <1>7, <1>8, <1>9, <1>10, <1>11,
       <1>12, <1>13, <1>14, <1>15, <1>16, <1>17, <1>18, <1>19, <1>20, <1>21,
       <1>22 DEF Next, People, Run

\* Type correctness, for every instance.
THEOREM TypeCorrect == Spec => []TypeOK
<1>1. Init => TypeOK
  BY TornIsNoVersion DEF Init, TypeOK, Nowhere, Status
<1> QED
  BY <1>1, TypeStep, PTL DEF Spec

\* A file that was backed up disappears from the remote only after a person
\* confirmed its deletion (backup/working_copy.py, sync_to_working_copy).
THEOREM NoDeletionUnasked == Spec => DeletionNeedsAPerson
<1>1. Init => DeletionInv
  BY DEF Init, DeletionInv, Nowhere
<1>2. Spec => []DeletionInv
  BY <1>1, DeletionStep, TypeCorrect, PTL DEF Spec
<1>3. TypeOK /\ DeletionInv /\ [Next]_vars =>
        [\A f \in File : remote[f] # 0 /\ remote'[f] = 0 => f \in confirmed]_vars
  <2> SUFFICES ASSUME TypeOK, DeletionInv, Next, NEW f \in File, remote[f] # 0, remote'[f] = 0
               PROVE f \in confirmed
    BY DEF vars
  <2>1. remote' # remote
    OBVIOUS
  <2>2. remote' = head
    BY <2>1 DEF Next, People, Run, 
         Arrives, Commit, ConfirmDeletion, CopyFile, CountNone, CountSome,
         CountUnknown, DeletionGate, EndByException, EndGreen, EndRun,
         Examine, GateCloses, GitFails, GoesOnFailing, HandPush, LoseFile,
         MassGate, Present, Push, Raise, RestoreFile, Save, SecretGate,
         StartSync, StateLost, Sync, TearFile, WriteHistory, places, seen
  <2> QED
    BY <2>2 DEF DeletionInv
<1> QED
  BY <1>2, <1>3, TypeCorrect, PTL DEF Spec, DeletionNeedsAPerson

\* A torn copy reaches the remote only from a directory that could not be listed.
THEOREM TornStaysHome == Spec => []NoTornBackup
<1>1. Init => TornInv
  BY TornIsNoVersion DEF Init, TornInv, Nowhere
<1>2. TornInv => NoTornBackup
  BY DEF TornInv, NoTornBackup
<1> QED
  BY <1>1, <1>2, TornStep, TypeCorrect, PTL DEF Spec

\* A run that calls itself done has on the remote what its sync saw, for every
\* order of failures, crashes and manual pushes before it.
THEOREM GreenIsTrue == Spec => GreenMeansBackedUp
<1>1. Init => GreenInv
  BY DEF Init, GreenInv, Nowhere, AsListed
<1>2. Spec => []GreenInv
  BY <1>1, GreenStep, TypeStep, TypeCorrect, PTL DEF Spec
<1>3. TypeOK /\ GreenInv /\ [Next]_vars =>
        [pc # "idle" /\ result' \in Green =>
            \A f \in Present(listed) : remote'[f] # Torn /\ remote'[f] >= listed[f]]_vars
  <2> SUFFICES ASSUME TypeOK, GreenInv, Next, pc # "idle", result' \in Green,
                      NEW f \in Present(listed)
               PROVE remote'[f] # Torn /\ remote'[f] >= listed[f]
    BY DEF vars
  <2>1. result = "running" /\ result \notin Green /\ result' # result
    BY DEF GreenInv, Green
  <2>2. Save \/ CountNone \/ CountUnknown
    BY <2>1 DEF Next, People, Run, Green, 
         Arrives, Commit, ConfirmDeletion, CopyFile, CountNone, CountSome,
         CountUnknown, DeletionGate, EndByException, EndGreen, EndRun,
         Examine, GateCloses, GitFails, GoesOnFailing, HandPush, LoseFile,
         MassGate, Present, Push, Raise, RestoreFile, Save, SecretGate,
         StartSync, StateLost, Sync, TearFile, WriteHistory, places, seen
  <2>3. remote' = remote /\ (CountUnknown => ~ahead)
    BY <2>2 DEF Save, CountNone, CountUnknown, GoesOnFailing, EndGreen, Green, places
  <2>4. AsListed(remote, f)
    BY <2>2, <2>3 DEF GreenInv, Save, CountNone, CountUnknown, Present
  <2> QED
    BY <2>3, <2>4 DEF AsListed, Present
<1> QED
  BY <1>2, <1>3, TypeCorrect, PTL DEF Spec, GreenMeansBackedUp

-----------------------------------------------------------------------------
(***************************************************************************)
(* The page on the Backup.  It reads times, not the remote; QuietInv is    *)
(* what makes it right: a version that no time calls newer than the last   *)
(* run that pushed is on the remote, wherever it still is on this machine. *)
(* It needs the master to be ahead of the copies of a file (MasterLeads),  *)
(* the run to know what was written under its feet (RunInv), and GreenInv  *)
(* for what the run has brought through the places.                        *)
(***************************************************************************)

\* A copy is torn or not newer than the master, while there is a master.
MasterLeads ==
    \A f \in File : master[f] # 0 =>
        /\ working[f] = Torn \/ working[f] <= master[f]
        /\ head[f] = Torn \/ head[f] <= master[f]

\* A run copies before it commits, commits before it pushes, and what its
\* listing has missed, or what was written since, is in doubt -- unless it is
\* in the Working Copy as it is.
RunInv ==
    /\ pc # "copy" => toCopy = {}
    /\ pc \in {"push", "save"} => head = working
    /\ pc = "save" => remote = head
    /\ pc # "idle" =>
         \A f \in File : master[f] \notin {0, listed[f]} =>
            f \in doubt \/ (listed[f] = 0 /\ working[f] = master[f])

\* What is not newer than the last run that pushed is on the remote.
QuietInv ==
    \A f \in File \ doubt : \A v \in 1 .. MaxVersion : <<f, v>> \notin newer =>
        /\ master[f] = v => head[f] = v /\ remote[f] = v
        /\ working[f] = v => head[f] = v /\ remote[f] = v
        /\ head[f] = v => remote[f] = v

StatusInv == TypeOK /\ GreenInv /\ MasterLeads /\ RunInv /\ QuietInv

-----------------------------------------------------------------------------
\* The page only watches: its steps are those of the Backup.
LEMMA StatusIsBackup == [StatusNext]_statusVars => [Next]_vars
<1> SUFFICES ASSUME [StatusNext]_statusVars PROVE [Next]_vars
  OBVIOUS
<1>1. ASSUME NEW f \in File, Write(f) \/ Restore(f) PROVE Next
  BY <1>1 DEF Write, Restore, Next, People
<1>2. CASE LoseState
  BY <1>2 DEF LoseState, Next, People
<1>3. CASE HandPush \/ \E f \in File : LoseFile(f) \/ ConfirmDeletion(f)
  BY <1>3 DEF Next, People
<1>4. CASE Run
  BY <1>4 DEF Next
<1>5. CASE UNCHANGED statusVars
  BY <1>5 DEF statusVars
<1> QED
  BY <1>1, <1>2, <1>3, <1>4, <1>5 DEF StatusNext

\* Only a run that has pushed moves last_successful_backup.
LEMMA OnlySaveRecords ==
    ASSUME StatusInv, Run, Record
    PROVE  \/ UNCHANGED newer /\ doubt' = doubt \cup Overlooked
           \/ /\ Save /\ newer' = {}
              /\ doubt' = { f \in doubt : master[f] # listed[f] }
<1>1. SUFFICES ASSUME pc' = "idle", result' = "SUCCESS" PROVE Save
  BY DEF Record, RecordIf
<1> USE <1>1
<1>2. ~(\/ SecretGate \/ MassGate
        \/ \E here \in SUBSET Present(master), there \in SUBSET Present(working) :
             DeletionGate(here, there))
  BY DEF SecretGate, MassGate, DeletionGate, GateCloses
<1>3. ~(\/ Examine \/ Commit \/ Push
        \/ \E here \in SUBSET Present(master), there \in SUBSET Present(working) :
             StartSync(here, there))
  BY DEF Examine, Commit, Push, StartSync, Sync
<1>4. ~\E f \in File : CopyFile(f)
  BY DEF CopyFile, StatusInv, RunInv
<1>5. ~(GitFails \/ Raise \/ \E f \in File : TearFile(f))
  BY DEF GitFails, Raise, TearFile, EndByException
<1>6. ~(CountNone \/ CountSome \/ CountUnknown)
  BY DEF CountNone, CountSome, CountUnknown, GoesOnFailing
<1> QED
  BY <1>2, <1>3, <1>4, <1>5, <1>6 DEF Run

\* Only the start of a sync overlooks anything.
LEMMA RunOverlooks ==
    ASSUME Run
    PROVE  \/ Overlooked = {}
           \/ \E here \in SUBSET Present(master), there \in SUBSET Present(working) :
                StartSync(here, there)
<1>1. SUFFICES ASSUME pc = "idle", pc' = "copy"
               PROVE  \E here \in SUBSET Present(master), there \in SUBSET Present(working) :
                         StartSync(here, there)
  BY DEF Overlooked
<1>2. ~(\/ SecretGate \/ MassGate \/ GitFails \/ Raise
        \/ \E f \in File : TearFile(f)
        \/ \E here \in SUBSET Present(master), there \in SUBSET Present(working) :
             DeletionGate(here, there))
  BY <1>1 DEF SecretGate, MassGate, DeletionGate, GateCloses, GitFails, Raise, TearFile,
     EndByException, EndRun
<1>3. ~(\/ Examine \/ Commit \/ Push \/ Save \/ CountNone \/ CountSome \/ CountUnknown
        \/ \E f \in File : CopyFile(f))
  BY <1>1 DEF Examine, Commit, Push, Save, CountNone, CountSome, CountUnknown, CopyFile,
     EndGreen, GoesOnFailing, EndRun
<1> QED
  BY <1>2, <1>3 DEF Run

\* The steps of a run that leave the four places alone.
LEMMA PlacesStay ==
    ASSUME Run
    PROVE  \/ UNCHANGED places
           \/ Commit \/ Push \/ GitFails \/ \E f \in File : CopyFile(f) \/ TearFile(f)
BY DEF Run, SecretGate, DeletionGate, StartSync, Sync, MassGate, Examine, Save,
   CountNone, CountSome, CountUnknown, Raise

\* Neither of two numbers is greater.
LEMMA NeitherGreater ==
    ASSUME NEW a \in Nat, NEW b \in Nat, a <= b, b <= a PROVE a = b
OBVIOUS

-----------------------------------------------------------------------------
\* No step lets a copy overtake its master.
LEMMA MasterLeadsStep ==
    ASSUME TypeOK, MasterLeads, [Next]_vars PROVE MasterLeads'
<1> USE TornIsNoVersion DEF MasterLeads, TypeOK
<1>1. ASSUME NEW f \in File, WriteHistory(f) PROVE MasterLeads'
  <2>1. /\ Newest(f) \in Nat /\ master'[f] = Newest(f) + 1
        /\ working[f] \in Version => working[f] <= Newest(f)
        /\ head[f] \in Version => head[f] <= Newest(f)
    BY <1>1, NewestIsNewest DEF WriteHistory
  <2>2. ASSUME NEW w \in Nat, w <= Newest(f) PROVE w <= master'[f]
    BY <2>1, <2>2
  <2>3. /\ working[f] \in (Nat \cap Version) \cup {Torn}
        /\ head[f] \in (Nat \cap Version) \cup {Torn}
    OBVIOUS
  <2>4. /\ working[f] = Torn \/ working[f] <= master'[f]
        /\ head[f] = Torn \/ head[f] <= master'[f]
    BY <2>1, <2>2, <2>3
  <2> QED
    BY <1>1, <2>4 DEF WriteHistory
<1>2. ASSUME NEW f \in File, LoseFile(f) \/ ConfirmDeletion(f) PROVE MasterLeads'
  BY <1>2 DEF LoseFile, ConfirmDeletion
<1>3. ASSUME NEW f \in File, RestoreFile(f) PROVE MasterLeads'
  <2>1. /\ master'[f] = Newest(f)
        /\ working[f] \in Version => working[f] <= Newest(f)
        /\ head[f] \in Version => head[f] <= Newest(f)
    BY <1>3, NewestIsNewest DEF RestoreFile
  <2> QED
    BY <1>3, <2>1 DEF RestoreFile
<1>4. CASE HandPush \/ StateLost
  BY <1>4 DEF HandPush, StateLost, places
<1>5. CASE Run
  <2>1. CASE UNCHANGED places
    BY <2>1 DEF places
  <2>2. CASE Commit \/ Push \/ GitFails
    BY <2>2 DEF Commit, Push, GitFails
  <2>3. ASSUME NEW f \in File, CopyFile(f) \/ TearFile(f) PROVE MasterLeads'
    <3>1. /\ UNCHANGED <<master, head>> /\ working'[f] \in {master[f], Torn}
          /\ \A g \in File \ {f} : working'[g] = working[g]
      BY <2>3 DEF CopyFile, TearFile
    <3>2. master[f] \in Nat
      OBVIOUS
    <3>3. master[f] <= master[f]
      BY <3>2
    <3> QED
      BY <3>1, <3>3
  <2> QED
    BY <1>5, <2>1, <2>2, <2>3, PlacesStay
<1>6. CASE UNCHANGED vars
  BY <1>6 DEF vars, places
<1> QED
  BY <1>1, <1>2, <1>3, <1>4, <1>5, <1>6 DEF Next, People

\* No step of people, or of the calendar, takes the run its order.
LEMMA RunInvStep ==
    ASSUME StatusInv, [StatusNext]_statusVars PROVE RunInv'
<1> USE DEF StatusInv, RunInv
<1>1. ASSUME NEW f \in File, Write(f) PROVE RunInv'
  BY <1>1 DEF Write, WriteHistory, seen, TypeOK
<1>2. ASSUME NEW f \in File, Restore(f) PROVE RunInv'
  BY <1>2 DEF Restore, RestoreFile
<1>3. CASE LoseState \/ (HandPush /\ UNCHANGED <<newer, doubt>>)
  BY <1>3 DEF LoseState, StateLost, HandPush, places
<1>4. ASSUME NEW f \in File, LoseFile(f) \/ ConfirmDeletion(f), UNCHANGED <<newer, doubt>>
      PROVE  RunInv'
  BY <1>4 DEF LoseFile, ConfirmDeletion, TypeOK
<1>5. CASE Run /\ Record
  <2>1. CASE Save /\ pc' = "idle"
    BY <2>1 DEF Save, EndGreen, EndRun
  <2>2. ASSUME UNCHANGED doubt, \/ SecretGate \/ MassGate
                                \/ \E here \in SUBSET Present(master),
                                      there \in SUBSET Present(working) :
                                     DeletionGate(here, there)
        PROVE  RunInv'
    BY <2>2 DEF SecretGate, MassGate, DeletionGate, GateCloses, EndRun
  <2>3. ASSUME doubt' = doubt \cup Overlooked, NEW here \in SUBSET Present(master),
               NEW there \in SUBSET Present(working), StartSync(here, there)
        PROVE  RunInv'
    <3>1. /\ pc = "idle" /\ pc' = "copy" /\ UNCHANGED <<master, working>>
          /\ listed' = [f \in File |-> IF f \in here THEN master[f] ELSE 0]
      BY <2>3 DEF StartSync, Sync, places
    <3>2. ASSUME NEW f \in File, master[f] \notin {0, listed'[f]}
          PROVE  f \in doubt' \/ (listed'[f] = 0 /\ working[f] = master[f])
      BY <2>3, <3>1, <3>2 DEF Overlooked
    <3> QED
      BY <3>1, <3>2
  <2>4. ASSUME UNCHANGED doubt, NEW f \in File, CopyFile(f) PROVE RunInv'
    BY <2>4 DEF CopyFile, seen
  <2>5. CASE UNCHANGED doubt /\ (Examine \/ Commit \/ Push)
    BY <2>5 DEF Examine, Commit, Push, Arrives, places, seen
  <2>6. CASE UNCHANGED doubt /\ (GitFails \/ Raise \/ \E f \in File : TearFile(f))
    BY <2>6 DEF GitFails, Raise, TearFile, EndByException, EndRun
  <2>7. CASE UNCHANGED doubt /\ (CountNone \/ CountSome \/ CountUnknown)
    BY <2>7 DEF CountNone, CountSome, CountUnknown, EndGreen, GoesOnFailing, EndRun
  <2>8. Save => pc' = "idle"
    BY DEF Save, EndGreen, EndRun
  <2>9. Save \/ doubt' = doubt \cup Overlooked
    BY <1>5, OnlySaveRecords
  <2>10. Overlooked = {} \/ \E here \in SUBSET Present(master),
                              there \in SUBSET Present(working) : StartSync(here, there)
    BY <1>5, RunOverlooks
  <2> QED
    BY <1>5, <2>1, <2>2, <2>3, <2>4, <2>5, <2>6, <2>7, <2>8, <2>9, <2>10 DEF Run
<1>6. CASE UNCHANGED statusVars
  BY <1>6 DEF statusVars, vars, places, seen
<1> HIDE DEF StatusInv, RunInv
<1> QED
  BY <1>1, <1>2, <1>3, <1>4, <1>5, <1>6 DEF StatusNext

-----------------------------------------------------------------------------
\* What the push of a run has brought to the remote is what the page then says.
LEMMA SaveIsQuiet ==
    ASSUME StatusInv, Save, newer' = {},
           doubt' = { f \in doubt : master[f] # listed[f] }
    PROVE  QuietInv'
<1>1. /\ pc = "save" /\ head = working /\ remote = head
      /\ UNCHANGED <<master, working, head, remote>>
  BY DEF Save, StatusInv, RunInv, places
<1>2. ASSUME NEW f \in File, f \notin doubt', master[f] # 0
      PROVE  head[f] = master[f]
  <2>1. CASE listed[f] = master[f]
    <3>1. remote[f] # Torn /\ remote[f] >= master[f]
      BY <1>1, <1>2, <2>1 DEF StatusInv, GreenInv, AsListed
    <3>2. head[f] <= master[f]
      BY <1>1, <1>2, <3>1 DEF StatusInv, MasterLeads
    <3>3. head[f] \in Nat /\ master[f] \in Nat
      BY <1>1, <3>1, TornIsNoVersion DEF StatusInv, TypeOK
    <3> QED
      BY <1>1, <3>1, <3>2, <3>3, NeitherGreater
  <2>2. CASE working[f] = master[f]
    BY <1>1, <2>2
  <2> QED
    BY <1>1, <1>2, <2>1, <2>2 DEF StatusInv, RunInv
<1> QED
  BY <1>1, <1>2 DEF QuietInv

\* No other step of a run takes away from the remote what the page counts on.
LEMMA RunKeepsQuiet ==
    ASSUME StatusInv, Run, UNCHANGED newer, doubt \subseteq doubt' PROVE QuietInv'
<1> USE DEF StatusInv, QuietInv
<1>1. CASE UNCHANGED places
  BY <1>1 DEF places
<1>2. CASE Commit
  <2>1. pc = "commit" /\ head' = working /\ UNCHANGED <<master, working, remote>>
    BY <1>2 DEF Commit
  <2>2. ASSUME NEW f \in File \ doubt, NEW v \in 1 .. MaxVersion,
               <<f, v>> \notin newer, master[f] = v
        PROVE  working[f] = v
    <3>1. SUFFICES ASSUME listed[f] = v PROVE working[f] = v
      BY <2>1, <2>2, MaxVersionAssumption DEF RunInv
    <3>2. working[f] # Torn /\ working[f] >= v /\ working[f] <= v
      BY <2>1, <2>2, <3>1 DEF GreenInv, AsListed, MasterLeads
    <3>3. working[f] \in Version \cup {Torn}
      BY DEF TypeOK
    <3>4. working[f] \in Nat
      BY <3>2, <3>3, TornIsNoVersion
    <3>5. v \in Nat
      BY MaxVersionAssumption
    <3> QED
      BY <3>2, <3>4, <3>5, NeitherGreater
  <2> QED
    BY <2>1, <2>2
<1>3. CASE Push \/ GitFails
  BY <1>3 DEF Push, GitFails, Arrives
<1>4. ASSUME NEW f \in File, CopyFile(f) PROVE QuietInv'
  BY <1>4 DEF CopyFile, TypeOK
<1>5. ASSUME NEW f \in File, TearFile(f) PROVE QuietInv'
  <2>1. Torn \notin 1 .. MaxVersion
    BY TornAssumption, MaxVersionAssumption
  <2> QED
    BY <1>5, <2>1 DEF TearFile, TypeOK
<1> QED
  BY <1>1, <1>2, <1>3, <1>4, <1>5, PlacesStay

\* Each step of a run or of people keeps the page right.
LEMMA QuietInvStep ==
    ASSUME StatusInv, [StatusNext]_statusVars PROVE QuietInv'
<1> USE DEF StatusInv, QuietInv
<1>1. ASSUME NEW f \in File, Write(f) PROVE QuietInv'
  BY <1>1 DEF Write, WriteHistory, TypeOK
<1>2. ASSUME NEW f \in File, Restore(f) PROVE QuietInv'
  <2>1. /\ master'[f] \in {working[f], head[f]}
        /\ \A g \in File \ {f} : master'[g] = master[g]
        /\ UNCHANGED <<working, head, remote, doubt>> /\ newer \subseteq newer'
    BY <1>2 DEF Restore, RestoreFile, TypeOK
  <2> QED
    BY <2>1
<1>3. CASE LoseState
  BY <1>3 DEF LoseState, Everything
<1>4. CASE HandPush /\ UNCHANGED <<newer, doubt>>
  BY <1>4 DEF HandPush, Arrives
<1>5. ASSUME NEW f \in File, LoseFile(f) \/ ConfirmDeletion(f), UNCHANGED <<newer, doubt>>
      PROVE  QuietInv'
  <2>1. 0 \notin 1 .. MaxVersion
    BY MaxVersionAssumption
  <2> QED
    BY <1>5, <2>1 DEF LoseFile, ConfirmDeletion, TypeOK
<1>6. CASE Run /\ Record
  BY <1>6, OnlySaveRecords, SaveIsQuiet, RunKeepsQuiet
<1>7. CASE UNCHANGED statusVars
  BY <1>7 DEF statusVars, vars, places
<1> QED
  BY <1>1, <1>2, <1>3, <1>4, <1>5, <1>6, <1>7 DEF StatusNext

\* The inductive invariant holds in every reachable state.
THEOREM StatusInvariant == StatusSpec => []StatusInv
<1>1. StatusInit => StatusInv
  <2> SUFFICES ASSUME StatusInit PROVE StatusInv
    OBVIOUS
  <2>1. /\ TypeOK /\ GreenInv /\ MasterLeads /\ RunInv
    BY TornIsNoVersion DEF StatusInit, Init, TypeOK, Status, GreenInv, AsListed,
       MasterLeads, RunInv, Nowhere
  <2>2. QuietInv
    BY DEF StatusInit, QuietInv, Everything
  <2> QED
    BY <2>1, <2>2 DEF StatusInv
<1>2. StatusInv /\ [StatusNext]_statusVars => StatusInv'
  <2> SUFFICES ASSUME StatusInv, [StatusNext]_statusVars PROVE StatusInv'
    OBVIOUS
  <2>1. [Next]_vars
    BY StatusIsBackup
  <2>2. TypeOK'
    BY <2>1, TypeStep DEF StatusInv
  <2>3. GreenInv' /\ MasterLeads'
    BY <2>1, <2>2, GreenStep, MasterLeadsStep DEF StatusInv
  <2> QED
    BY <2>2, <2>3, RunInvStep, QuietInvStep DEF StatusInv
<1> QED
  BY <1>1, <1>2, PTL DEF StatusSpec

\* A page without a complaint means that what is on this machine is on the
\* remote, but for what was written in the middle of a run that pushed and what
\* a run did not find in the master.
THEOREM QuietPageIsTrue == StatusSpec => []QuietMeansPushed
<1>1. StatusInv => QuietMeansPushed
  <2> SUFFICES ASSUME StatusInv, Quiet, NEW f \in Present(master) \ doubt
               PROVE  remote[f] = master[f]
    BY DEF QuietMeansPushed
  <2>1. master[f] \in 1 .. MaxVersion /\ <<f, master[f]>> \notin newer
    BY MaxVersionAssumption DEF StatusInv, TypeOK, Version, Quiet, Unbacked, Present
  <2> QED
    BY <2>1 DEF StatusInv, QuietInv, Present
<1> QED
  BY <1>1, StatusInvariant, PTL

\* What reached the remote and is gone from this machine stays on the page
\* until a person acts, over any number of runs.
THEOREM GoneStaysOnThePage == Spec => []GoneIsNoticed
<1>1. Init => DeletionInv
  BY DEF Init, DeletionInv, Nowhere
<1>2. DeletionInv => GoneIsNoticed
  BY DEF DeletionInv, GoneIsNoticed, Gone, Present
<1> QED
  BY <1>1, <1>2, DeletionStep, TypeCorrect, PTL DEF Spec
=============================================================================
