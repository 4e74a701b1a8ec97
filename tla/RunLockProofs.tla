--------------------------- MODULE RunLockProofs ---------------------------
(***************************************************************************)
(* TLAPS proofs about RunLock for every set of pids, every set of file     *)
(* identities, both platforms and with or without pid reuse.               *)
(*                                                                         *)
(* HolderOwnsTheFile is not inductive: a takeover might unlink the very    *)
(* file a holder owns, and a confirmation might accept an older file of    *)
(* the same pid.  LockInv adds what excludes both: identities are          *)
(* unique and lead to their creator, the file that names a process is its  *)
(* latest one, and a payload that a working probe judged stale belongs to  *)
(* no live process.                                                        *)
(***************************************************************************)
EXTENDS RunLock, TLAPS

\* Only a process that is past its own O_EXCL creation refers to a file as
\* its own, and a process that does not run refers to none.
OwnFileByPhase ==
    /\ \A p \in Proc : pc[p] = "off" => mine[p] = NoId
    /\ \A p \in Proc : pc[p] \in {"write", "cleanup", "confirm", "held"}
                         => mine[p] # NoId

\* No two processes created the same file.
DistinctFiles ==
    \A p, q \in Proc : mine[p] = mine[q] /\ mine[p] # NoId => p = q

\* An identity leads to its creator, in the file and in what was read of it.
IdNamesOwner ==
    /\ \A r \in Proc : file # NoLock /\ file.id = mine[r] => file.owner = r
    /\ \A q, r \in Proc :
         seen[q] # NoLock /\ seen[q].id = mine[r] => seen[q].owner = r

\* The file that names a process is the last one this process created.
FileIsLatest ==
    file # NoLock /\ mine[file.owner] # NoId => file.id = mine[file.owner]

\* A payload that a working probe judged stale is nobody's current file.
JudgedFilesAreDead ==
    \A p, q \in Proc :
        pc[p] \in {"recheck", "unlink"} /\ seen[p] # NoLock /\ p \notin misled
            => mine[q] # seen[p].id

\* What the recheck compared is what the process had observed.
CheckedIsSeen ==
    \A p \in Proc : pc[p] = "unlink" => Content(checked[p]) = seen[p]

LockInv ==
    /\ OwnFileByPhase
    /\ DistinctFiles
    /\ IdNamesOwner
    /\ FileIsLatest
    /\ JudgedFilesAreDead
    /\ CheckedIsSeen
    /\ HolderOwnsTheFile

-----------------------------------------------------------------------------
\* A new file gets an identity that nothing refers to.
LEMMA NextIdIsFresh == Fresh # {} => NextId \in Fresh /\ NextId \in Id
BY DEF NextId, Fresh

\* The state never leaves its types, whatever the pids and identities are.
THEOREM TypeCorrect == Spec => []TypeOK
<1>1. Init => TypeOK
  BY DEF Init, TypeOK, Phase
<1>2. TypeOK /\ [Next]_vars => TypeOK'
  <2> SUFFICES ASSUME TypeOK, [Next]_vars PROVE TypeOK'
    OBVIOUS
  <2>1. ASSUME NEW p \in Proc, Create(p) PROVE TypeOK'
    <3>1. NextId \in Id
      BY <2>1, NextIdIsFresh DEF Create
    <3> QED
      BY <2>1, <3>1 DEF Create, Goto, TypeOK, LockFile, Phase
  <2>2. ASSUME NEW p \in Proc, Write(p) PROVE TypeOK'
    BY <2>2 DEF Write, Goto, TypeOK, LockFile, Phase
  <2>3. ASSUME NEW p \in Proc, Recheck(p) PROVE TypeOK'
    BY <2>3 DEF Recheck, Goto, TypeOK, LockFile, Phase
  <2>4. ASSUME NEW p \in Proc, Unlink(p) PROVE TypeOK'
    <3>1. raced' \in BOOLEAN
      BY <2>4 DEF Unlink
    <3>2. robbed' \in BOOLEAN
      BY <2>4 DEF Unlink
    <3> QED
      BY <2>4, <3>1, <3>2 DEF Unlink, Goto, TypeOK, Phase
  <2>5. ASSUME NEW p \in Proc, Cleanup(p) \/ Release(p) PROVE TypeOK'
    <3>1. raced' \in BOOLEAN
      BY <2>5 DEF Cleanup, Release, RemoveOwn, TypeOK
    <3> QED
      BY <2>5, <3>1 DEF Cleanup, Release, RemoveOwn, Goto, TypeOK, Phase
  <2>6. ASSUME NEW p \in Proc, Exit(p) \/ Crash(p) PROVE TypeOK'
    BY <2>6 DEF Exit, Crash, Forget, Goto, TypeOK, Phase
  <2>7. ASSUME NEW p \in Proc, Trigger(p) \/ Collide(p) \/ OpenRefused(p)
        PROVE TypeOK'
    BY <2>7 DEF Trigger, Collide, OpenRefused, Goto, TypeOK, Phase
  <2>8. ASSUME NEW p \in Proc,
               Observe(p) \/ ProbeRunning(p) \/ ProbeStale(p)
                 \/ ProbeMisled(p)
        PROVE TypeOK'
    BY <2>8 DEF Observe, ProbeRunning, ProbeStale, ProbeMisled, Content, Goto, TypeOK, Phase
  <2>9. ASSUME NEW p \in Proc,
               UnlinkFails(p) \/ WriteFails(p) \/ Confirm(p) PROVE TypeOK'
    BY <2>9 DEF UnlinkFails, WriteFails, Confirm, Goto, TypeOK, Phase
  <2>10. CASE UNCHANGED vars
    BY <2>10 DEF vars, TypeOK
  <2> QED
    BY <2>1, <2>2, <2>3, <2>4, <2>5, <2>6, <2>7, <2>8, <2>9, <2>10
    DEF Next, Step
<1> QED
  BY <1>1, <1>2, PTL DEF Spec

-----------------------------------------------------------------------------
\* Every operation of the lock preserves the invariant.
LEMMA LockInvStep ==
  ASSUME TypeOK, LockInv, [Next]_vars PROVE LockInv'
<1> USE NoIdAssumption, NoLockAssumption
\* Steps that leave the file and its observers alone and only move on.
<1>1. ASSUME NEW p \in Proc,
             Trigger(p) \/ Collide(p) \/ OpenRefused(p) \/ ProbeRunning(p)
               \/ UnlinkFails(p) \/ WriteFails(p)
      PROVE LockInv'
  <2>1. /\ UNCHANGED <<file, mine, seen, checked, raced, misled, robbed>>
        /\ \A q \in Proc : q # p => pc'[q] = pc[q]
        /\ pc'[p] \in {"create", "observe", "exit", "cleanup"}
        /\ pc'[p] = "cleanup" => pc[p] = "write"
    BY <1>1 DEF Trigger, Collide, OpenRefused, ProbeRunning, UnlinkFails,
                WriteFails, Goto, TypeOK
  <2>2. OwnFileByPhase'
    BY <2>1 DEF LockInv, OwnFileByPhase
  <2>3. (DistinctFiles /\ IdNamesOwner /\ FileIsLatest)'
    BY <2>1 DEF LockInv, DistinctFiles, IdNamesOwner, FileIsLatest
  <2>4. (JudgedFilesAreDead /\ CheckedIsSeen)'
    BY <2>1 DEF LockInv, JudgedFilesAreDead, CheckedIsSeen, Content
  <2>5. HolderOwnsTheFile'
    BY <2>1 DEF LockInv, HolderOwnsTheFile, Astray, Holds
  <2> QED
    BY <2>2, <2>3, <2>4, <2>5 DEF LockInv
<1>2. ASSUME NEW p \in Proc, Create(p) PROVE LockInv'
  <2>1. /\ NextId \in Fresh
        /\ NextId \in Id
        /\ file = NoLock
        /\ file' = [id |-> NextId, owner |-> p, written |-> FALSE]
        /\ mine' = [mine EXCEPT ![p] = NextId]
        /\ pc' = [pc EXCEPT ![p] = "write"]
        /\ UNCHANGED <<seen, checked, raced, misled, robbed>>
    BY <1>2, NextIdIsFresh DEF Create, Goto
  <2>2. \A q \in Proc : /\ mine[q] # NextId
                        /\ seen[q] # NoLock => seen[q].id # NextId
    BY <2>1 DEF Fresh
  <2>3. OwnFileByPhase'
    BY <2>1 DEF LockInv, OwnFileByPhase, TypeOK
  <2>4. DistinctFiles'
    BY <2>1, <2>2 DEF LockInv, DistinctFiles, TypeOK
  <2>5. IdNamesOwner'
    BY <2>1, <2>2 DEF LockInv, IdNamesOwner, TypeOK
  <2>6. FileIsLatest'
    BY <2>1 DEF FileIsLatest, TypeOK
  <2>7. JudgedFilesAreDead'
    BY <2>1, <2>2 DEF LockInv, JudgedFilesAreDead, TypeOK
  <2>8. CheckedIsSeen'
    BY <2>1 DEF LockInv, CheckedIsSeen, Content, TypeOK
  <2>9. HolderOwnsTheFile'
    <3>1. Astray \/ \A q \in Proc : ~Holds(q)
      <4> SUFFICES ASSUME ~Astray, NEW q \in Proc, Holds(q) PROVE FALSE
        OBVIOUS
      <4>1. mine[q] \in Id
        BY DEF LockInv, OwnFileByPhase, Holds, TypeOK
      <4>2. [id |-> mine[q], owner |-> q, written |-> TRUE] \in LockFile
        BY <4>1 DEF LockFile
      <4> QED
        BY <2>1, <4>2 DEF LockInv, HolderOwnsTheFile, Astray, LockFile
    <3> QED
      BY <2>1, <3>1 DEF HolderOwnsTheFile, Astray, Holds, TypeOK
  <2> QED
    BY <2>3, <2>4, <2>5, <2>6, <2>7, <2>8, <2>9 DEF LockInv
<1>3. ASSUME NEW p \in Proc, Observe(p) PROVE LockInv'
  <2>1. /\ pc' = [pc EXCEPT ![p] = "probe"]
        /\ seen' = [seen EXCEPT ![p] = Content(file)]
        /\ pc[p] = "observe"
        /\ UNCHANGED <<file, mine, checked, raced, misled, robbed>>
    BY <1>3 DEF Observe, Goto
  <2>2. (OwnFileByPhase /\ DistinctFiles /\ FileIsLatest)'
    BY <2>1 DEF LockInv, OwnFileByPhase, DistinctFiles, FileIsLatest, TypeOK
  <2>3. IdNamesOwner'
    BY <2>1 DEF LockInv, IdNamesOwner, Content, TypeOK
  <2>4. (JudgedFilesAreDead /\ CheckedIsSeen)'
    BY <2>1 DEF LockInv, JudgedFilesAreDead, CheckedIsSeen, Content, TypeOK
  <2>5. HolderOwnsTheFile'
    BY <2>1 DEF LockInv, HolderOwnsTheFile, Astray, Holds, TypeOK
  <2> QED
    BY <2>2, <2>3, <2>4, <2>5 DEF LockInv
<1>4. ASSUME NEW p \in Proc, ProbeStale(p) PROVE LockInv'
  <2>1. /\ pc' = [pc EXCEPT ![p] = "recheck"]
        /\ seen[p] # NoLock => pc[seen[p].owner] = "off"
        /\ UNCHANGED <<file, mine, seen, checked, raced, misled, robbed>>
    BY <1>4 DEF ProbeStale, Goto, Running
  <2>2. (OwnFileByPhase /\ DistinctFiles /\ FileIsLatest /\ IdNamesOwner)'
    BY <2>1 DEF LockInv, OwnFileByPhase, DistinctFiles, FileIsLatest,
                IdNamesOwner, TypeOK
  <2>3. seen[p] # NoLock => \A q \in Proc : mine[q] # seen[p].id
    BY <2>1 DEF LockInv, OwnFileByPhase, IdNamesOwner, TypeOK, LockFile
  <2>4. JudgedFilesAreDead'
    BY <2>1, <2>3 DEF LockInv, JudgedFilesAreDead, TypeOK
  <2>5. CheckedIsSeen'
    BY <2>1 DEF LockInv, CheckedIsSeen, Content, TypeOK
  <2>6. HolderOwnsTheFile'
    BY <2>1 DEF LockInv, HolderOwnsTheFile, Astray, Holds, TypeOK
  <2> QED
    BY <2>2, <2>4, <2>5, <2>6 DEF LockInv
<1>12. ASSUME NEW p \in Proc, ProbeMisled(p) PROVE LockInv'
  <2>1. /\ pc' = [pc EXCEPT ![p] = "recheck"]
        /\ misled' = misled \cup {p}
        /\ UNCHANGED <<file, mine, seen, checked, raced, robbed>>
    BY <1>12 DEF ProbeMisled, Goto
  <2>2. (OwnFileByPhase /\ DistinctFiles /\ FileIsLatest /\ IdNamesOwner)'
    BY <2>1 DEF LockInv, OwnFileByPhase, DistinctFiles, FileIsLatest,
                IdNamesOwner, TypeOK
  <2>3. JudgedFilesAreDead'
    BY <2>1 DEF LockInv, JudgedFilesAreDead, TypeOK
  <2>4. CheckedIsSeen'
    BY <2>1 DEF LockInv, CheckedIsSeen, Content, TypeOK
  <2>5. HolderOwnsTheFile'
    BY <2>1 DEF LockInv, HolderOwnsTheFile, Astray, Holds, TypeOK
  <2> QED
    BY <2>2, <2>3, <2>4, <2>5 DEF LockInv
<1>5. ASSUME NEW p \in Proc, Recheck(p) PROVE LockInv'
  <2>1. /\ pc[p] = "recheck"
        /\ UNCHANGED <<file, mine, seen, raced, misled, robbed>>
        /\ \/ /\ Content(file) = seen[p]
              /\ checked' = [checked EXCEPT ![p] = file]
              /\ pc' = [pc EXCEPT ![p] = "unlink"]
           \/ /\ checked' = checked
              /\ pc' = [pc EXCEPT ![p] = "exit"]
    BY <1>5 DEF Recheck, Goto
  <2>2. (OwnFileByPhase /\ DistinctFiles /\ FileIsLatest /\ IdNamesOwner)'
    BY <2>1 DEF LockInv, OwnFileByPhase, DistinctFiles, FileIsLatest,
                IdNamesOwner, TypeOK
  <2>3. JudgedFilesAreDead'
    BY <2>1 DEF LockInv, JudgedFilesAreDead, TypeOK
  <2>4. CheckedIsSeen'
    BY <2>1 DEF LockInv, CheckedIsSeen, Content, TypeOK
  <2>5. HolderOwnsTheFile'
    BY <2>1 DEF LockInv, HolderOwnsTheFile, Astray, Holds, TypeOK
  <2> QED
    BY <2>2, <2>3, <2>4, <2>5 DEF LockInv
<1>6. ASSUME NEW p \in Proc, Unlink(p) PROVE LockInv'
  <2>1. /\ pc[p] = "unlink"
        /\ file # NoLock
        /\ file' = NoLock
        /\ ~raced' => ~raced /\ file = checked[p]
        /\ ~robbed' => ~robbed /\ (p \in misled => ~Running(file.owner))
        /\ misled' = misled \ {p}
        /\ \E phase \in {"create", "exit"} : pc' = [pc EXCEPT ![p] = phase]
        /\ seen' = [seen EXCEPT ![p] = NoLock]
        /\ checked' = [checked EXCEPT ![p] = NoLock]
        /\ UNCHANGED mine
    BY <1>6 DEF Unlink, Unlinkable, Goto
  <2>2. OwnFileByPhase' /\ DistinctFiles'
    BY <2>1 DEF LockInv, OwnFileByPhase, DistinctFiles, TypeOK
  <2>3. FileIsLatest' /\ IdNamesOwner'
    BY <2>1 DEF LockInv, FileIsLatest, IdNamesOwner, TypeOK
  <2>4. JudgedFilesAreDead'
    BY <2>1 DEF LockInv, JudgedFilesAreDead, TypeOK
  <2>5. CheckedIsSeen'
    BY <2>1 DEF LockInv, CheckedIsSeen, Content, TypeOK
  <2>6. HolderOwnsTheFile'
    <3> SUFFICES ASSUME ~Astray', NEW q \in Proc, Holds(q)' PROVE FALSE
      BY DEF HolderOwnsTheFile, Astray
    <3>1. Holds(q)
      BY <2>1 DEF Holds, TypeOK
    <3>2. file = [id |-> mine[q], owner |-> q, written |-> TRUE]
      BY <2>1, <3>1 DEF LockInv, HolderOwnsTheFile, Astray
    <3>3. seen[p] = file
      BY <2>1, <3>2 DEF LockInv, CheckedIsSeen, Content, Astray
    <3>4. p \notin misled
      BY <2>1, <3>1, <3>2 DEF Astray, Running, Holds
    <3>5. mine[q] # seen[p].id
      BY <2>1, <3>3, <3>4 DEF LockInv, JudgedFilesAreDead
    <3> QED
      BY <3>2, <3>3, <3>5
  <2> QED
    BY <2>2, <2>3, <2>4, <2>5, <2>6 DEF LockInv
<1>7. ASSUME NEW p \in Proc, Write(p) PROVE LockInv'
  <2>1. /\ pc[p] = "write"
        /\ pc' = [pc EXCEPT ![p] = "confirm"]
        /\ file' = IF file # NoLock /\ file.id = mine[p]
                     THEN [file EXCEPT !.written = TRUE] ELSE file
        /\ UNCHANGED <<mine, seen, checked, raced, misled, robbed>>
    BY <1>7 DEF Write, Goto
  <2>2. /\ file' = NoLock <=> file = NoLock
        /\ file # NoLock => file'.id = file.id /\ file'.owner = file.owner
    BY <2>1 DEF TypeOK, LockFile
  <2>3. (OwnFileByPhase /\ DistinctFiles)'
    BY <2>1 DEF LockInv, OwnFileByPhase, DistinctFiles, TypeOK
  <2>4. (FileIsLatest /\ IdNamesOwner)'
    BY <2>1, <2>2 DEF LockInv, FileIsLatest, IdNamesOwner, TypeOK
  <2>5. (JudgedFilesAreDead /\ CheckedIsSeen)'
    BY <2>1 DEF LockInv, JudgedFilesAreDead, CheckedIsSeen, Content, TypeOK
  <2>6. HolderOwnsTheFile'
    <3> SUFFICES ASSUME ~Astray, NEW q \in Proc, Holds(q)'
                 PROVE file' = [id |-> mine[q], owner |-> q, written |-> TRUE]
      BY <2>1 DEF HolderOwnsTheFile, Astray
    <3>1. file = [id |-> mine[q], owner |-> q, written |-> TRUE]
      BY <2>1 DEF LockInv, HolderOwnsTheFile, Astray, Holds, TypeOK
    <3> QED
      BY <2>1, <3>1
  <2> QED
    BY <2>3, <2>4, <2>5, <2>6 DEF LockInv
<1>8. ASSUME NEW p \in Proc, Cleanup(p) \/ Release(p) PROVE LockInv'
  <2>1. /\ pc[p] \in {"cleanup", "held"}
        /\ pc' = [pc EXCEPT ![p] = "exit"]
        /\ UNCHANGED <<mine, seen, checked, misled, robbed>>
        /\ \/ /\ file # NoLock
              /\ file' = NoLock
              /\ ~raced' => ~raced /\ file.id = mine[p]
           \/ UNCHANGED <<file, raced>>
    BY <1>8 DEF Cleanup, Release, RemoveOwn, Unlinkable, Goto
  <2>2. (OwnFileByPhase /\ DistinctFiles)'
    BY <2>1 DEF LockInv, OwnFileByPhase, DistinctFiles, TypeOK
  <2>3. (FileIsLatest /\ IdNamesOwner)'
    BY <2>1 DEF LockInv, FileIsLatest, IdNamesOwner
  <2>4. (JudgedFilesAreDead /\ CheckedIsSeen)'
    BY <2>1 DEF LockInv, JudgedFilesAreDead, CheckedIsSeen, Content, TypeOK
  <2>5. HolderOwnsTheFile'
    <3> SUFFICES ASSUME ~Astray', NEW q \in Proc, Holds(q)'
                 PROVE file' = [id |-> mine[q], owner |-> q, written |-> TRUE]'
      BY DEF HolderOwnsTheFile, Astray
    <3>1. q # p /\ Holds(q) /\ ~Astray
      BY <2>1 DEF Holds, TypeOK, Astray
    <3>2. file = [id |-> mine[q], owner |-> q, written |-> TRUE]
      BY <3>1 DEF LockInv, HolderOwnsTheFile, Astray
    <3>3. file.id # mine[p]
      BY <2>1, <3>1, <3>2 DEF LockInv, DistinctFiles, OwnFileByPhase
    <3> QED
      BY <2>1, <3>2, <3>3 DEF Astray
  <2> QED
    BY <2>2, <2>3, <2>4, <2>5 DEF LockInv
<1>9. ASSUME NEW p \in Proc, Confirm(p) PROVE LockInv'
  <2>1. /\ pc[p] = "confirm"
        /\ UNCHANGED <<file, mine, seen, checked, raced, misled, robbed>>
        /\ \/ /\ file # NoLock /\ file.written /\ file.owner = p
              /\ pc' = [pc EXCEPT ![p] = "held"]
           \/ pc' = [pc EXCEPT ![p] = "exit"]
    BY <1>9 DEF Confirm, Content, Goto
  <2>2. (OwnFileByPhase /\ DistinctFiles /\ FileIsLatest /\ IdNamesOwner)'
    BY <2>1 DEF LockInv, OwnFileByPhase, DistinctFiles, FileIsLatest,
                IdNamesOwner, TypeOK
  <2>3. (JudgedFilesAreDead /\ CheckedIsSeen)'
    BY <2>1 DEF LockInv, JudgedFilesAreDead, CheckedIsSeen, Content, TypeOK
  <2>4. HolderOwnsTheFile'
    <3>1. file # NoLock /\ file.owner = p => file.id = mine[p]
      BY <2>1 DEF LockInv, FileIsLatest, OwnFileByPhase
    <3> QED
      BY <2>1, <3>1 DEF LockInv, HolderOwnsTheFile, Astray, Holds, TypeOK, LockFile
  <2> QED
    BY <2>2, <2>3, <2>4 DEF LockInv
<1>10. ASSUME NEW p \in Proc, Exit(p) \/ Crash(p) PROVE LockInv'
  <2>1. /\ pc' = [pc EXCEPT ![p] = "off"]
        /\ mine' = [mine EXCEPT ![p] = NoId]
        /\ seen' = [seen EXCEPT ![p] = NoLock]
        /\ checked' = [checked EXCEPT ![p] = NoLock]
        /\ misled' = misled \ {p}
        /\ UNCHANGED <<file, raced, robbed>>
    BY <1>10 DEF Exit, Crash, Forget, Goto
  <2>2. (OwnFileByPhase /\ DistinctFiles)'
    BY <2>1 DEF LockInv, OwnFileByPhase, DistinctFiles, TypeOK
  <2>3. (FileIsLatest /\ IdNamesOwner)'
    BY <2>1 DEF LockInv, FileIsLatest, IdNamesOwner, TypeOK, LockFile
  <2>4. (JudgedFilesAreDead /\ CheckedIsSeen)'
    BY <2>1 DEF LockInv, JudgedFilesAreDead, CheckedIsSeen, Content, TypeOK,
                LockFile
  <2>5. HolderOwnsTheFile'
    BY <2>1 DEF LockInv, HolderOwnsTheFile, Astray, Holds, TypeOK
  <2> QED
    BY <2>2, <2>3, <2>4, <2>5 DEF LockInv
<1>11. CASE UNCHANGED vars
  BY <1>11 DEF vars, LockInv, OwnFileByPhase, DistinctFiles, IdNamesOwner,
     FileIsLatest, JudgedFilesAreDead, CheckedIsSeen, HolderOwnsTheFile, Astray,
     Holds, Content
<1> QED
  BY <1>1, <1>2, <1>3, <1>4, <1>5, <1>6, <1>7, <1>8, <1>9, <1>10, <1>11, <1>12
  DEF Next, Step

\* The inductive invariant holds in every reachable state.
THEOREM LockInvariant == Spec => []LockInv
<1>1. Init => LockInv
  BY DEF Init, LockInv, Astray, OwnFileByPhase, DistinctFiles, IdNamesOwner,
     FileIsLatest, JudgedFilesAreDead, CheckedIsSeen, HolderOwnsTheFile, Astray, Holds
<1>2. TypeOK /\ LockInv /\ [Next]_vars => LockInv'
  BY LockInvStep
<1> QED
  BY <1>1, <1>2, TypeCorrect, PTL DEF Spec

\* While no unlink went astray the file on disk is the holder's own: no
\* takeover after a working probe, no cleanup and no release of another run
\* touches a live holder's lock.
THEOREM HolderOwnsItsLock == Spec => []HolderOwnsTheFile
<1>1. LockInv => HolderOwnsTheFile
  BY DEF LockInv
<1> QED
  BY <1>1, LockInvariant, PTL

\* Two runs hold the lock together only after an unlink removed a file other
\* than the one its caller had checked or created, or the lock of a live run
\* that a failed probe had called gone (scheduler/lock.py).
THEOREM OneHolder == Spec => []OneHolderUnlessAstray
<1>1. HolderOwnsTheFile => OneHolderUnlessAstray
  <2> SUFFICES ASSUME HolderOwnsTheFile, ~Astray,
                      NEW p \in Proc, NEW q \in Proc, Holds(p), Holds(q)
               PROVE p = q
    BY DEF OneHolderUnlessAstray, MutualExclusion
  <2>1. /\ file = [id |-> mine[p], owner |-> p, written |-> TRUE]
        /\ file = [id |-> mine[q], owner |-> q, written |-> TRUE]
    BY DEF HolderOwnsTheFile, Astray
  <2>2. file.owner = p /\ file.owner = q
    BY <2>1
  <2> QED
    BY <2>2
<1> QED
  BY <1>1, HolderOwnsItsLock, PTL

\* A truthful judgement of staleness never goes out of date (docs/07 section
\* 27): what a working probe found dead is not the lock of any later live run.
THEOREM StaleJudgementIsStable == Spec => []StaleStaysStale
<1>1. LockInv => StaleStaysStale
  BY DEF LockInv, JudgedFilesAreDead, StaleStaysStale
<1> QED
  BY <1>1, LockInvariant, PTL
=============================================================================
