------------------------ MODULE CompanyHistoryProofs ------------------------
(***************************************************************************)
(* TLAPS proofs about CompanyHistory, and about what HistoryStatus tells   *)
(* people of it, for every calendar, every set of KEEP Events, every       *)
(* dating of them and whatever people write.                               *)
(*                                                                         *)
(* First the files and pointers: they need only each other and the clock.  *)
(* Then what the files show.  KeptIsInDaily and MonthlyAgrees are not      *)
(* inductive: a run may end only because what it has not merged or marked  *)
(* is all in keptDates and updated, so these have to be empty outside the  *)
(* steps that fill and empty them; and a flag may be cleared only because  *)
(* the document written just before agrees with its Daily files.  Both are *)
(* kept for what the parser finds (AgreesInv); what it does not find has   *)
(* words to blame (LostByWords).                                           *)
(*                                                                         *)
(* Last the HISTORY section.  Its lines on what is shown need all of that, *)
(* those on files that no other than the next one may lie beyond a pointer *)
(* (PointersInv), and those on texts that what a step has listed is what   *)
(* people wrote, unless the text came too late (TextsInv).                 *)
(***************************************************************************)
EXTENDS HistoryStatus, FiniteSetTheorems, TLAPS

\* A run works with a clock of the past; what is dirty or just written has a
\* document.
Grounded ==
    /\ now <= today
    /\ dirty \cup todo \cup saving \subseteq monthlyFile
    /\ saving # {} => pc \in {"months", "dirty"}

FilesInv == TypeOK /\ NoGap /\ Grounded

\* What a run remembers, it remembers only as long as it needs it.
MemoryInv ==
    /\ pc \in {"idle", "mark", "months", "dirty"} => keptDates = {}
    /\ pc \notin {"late", "mark"} => updated = {}

\* The document just written shows all its Daily files show.
SavedAgrees == \A m \in saving : Parsed(m) \subseteq inMonthly

\* MonthlyAgrees, of what the parser finds.
AgreesInv ==
    \A e \in inDaily \ unparsed : \A m \in monthlyFile \ (dirty \cup stale) :
        e \in OfMonth(m) => e \in inMonthly \/ DayOf[e] \in updated

\* What the parser drops is garbled, and what garbles others is not found.
LostByWords == unparsed \subseteq Garbled /\ inDaily \cap Breaking = {}

HistoryInv == MemoryInv /\ SavedAgrees /\ KeptIsInDaily /\ AgreesInv /\ LostByWords

-----------------------------------------------------------------------------
\* An Event belongs to one month, that of its date.
LEMMA OneMonth ==
    ASSUME NEW e \in Event, NEW m \in Month, NEW n \in Month,
           e \in OfMonth(m), e \in OfMonth(n)
    PROVE  m = n
BY DEF OfMonth, DaysOf

\* A month before that of an earlier day is before that of a later one.
LEMMA MonthsPass ==
    ASSUME NEW c \in Day, NEW d \in Day, c <= d
    PROVE  /\ MonthOf[c] \in Nat /\ MonthOf[d] \in Nat
           /\ MonthOf[c] <= MonthOf[d]
BY MonthOfAssumption

\* The calendar has a first and a last day, and months up to that of the last.
LEMMA Calendar ==
    /\ LastDay \in Nat /\ 1 \in Day /\ LastDay \in Day
    /\ MonthOf[LastDay] \in Nat
    /\ \A d \in Day : MonthOf[d] \in Month
<1>1. LastDay \in Nat /\ 1 \in Day /\ LastDay \in Day
  BY LastDayAssumption DEF Day
<1>2. \A d \in Day : /\ d <= LastDay
                     /\ MonthOf[d] \in Nat \ {0} /\ MonthOf[d] <= MonthOf[LastDay]
  BY <1>1, MonthOfAssumption DEF Day
<1> QED
  BY <1>1, <1>2 DEF Month

\* A batch that is rendered is in the file of its date, but for broken labels;
\* what the parser drops of it has words to blame.
LEMMA Rendering ==
    ASSUME NEW batch \in SUBSET kept, kept \subseteq Event, Render(batch),
           NEW d, \A e \in batch : DayOf[e] = d
    PROVE  /\ inDaily' = inDaily \cup (batch \ Breaking)
           /\ unparsed \subseteq unparsed' /\ unparsed' \subseteq unparsed \cup batch
           /\ unparsed' \subseteq unparsed \cup Garbled
<1>1. PICK lost \in SUBSET (batch \ Breaking) :
         /\ batch \cap Breaking = {} => lost \subseteq Bare
         /\ unparsed' = unparsed \cup lost
  BY DEF Render
<1>2. lost \subseteq Garbled
  <2>1. CASE batch \cap Breaking = {}
    BY <1>1, <2>1 DEF Garbled
  <2>2. CASE batch \cap Breaking # {}
    <3>1. PICK f \in batch \cap Breaking : TRUE
      BY <2>2
    <3>2. ASSUME NEW e \in lost PROVE e \in Garbled
      BY <3>1, <3>2 DEF Garbled
    <3> QED
      BY <3>2
  <2> QED
    BY <2>1, <2>2
<1> QED
  BY <1>1, <1>2 DEF Render

\* Each step keeps the pointers behind the files and the files behind the clock.
LEMMA FilesStep == FilesInv /\ [Next]_vars => FilesInv'
  <1> SUFFICES ASSUME FilesInv, [Next]_vars
               PROVE FilesInv'
    OBVIOUS
  <1> USE Calendar DEF FilesInv, TypeOK, NoGap, Grounded, daily, monthly, Covered
  <1>1. CASE NewDay
    <2>1. today' \in Day /\ now <= today' /\ today <= today'
      BY <1>1 DEF NewDay, Day
    <2>2. /\ MonthOf[today] \in Nat /\ MonthOf[today'] \in Nat
          /\ MonthOf[today] <= MonthOf[today']
      BY <2>1, MonthsPass
    <2>3. \A d \in dailyFile : d < today'
      BY <2>1 DEF Day
    <2>4. \A m \in monthlyFile : m < MonthOf[today']
      BY <2>2 DEF Month
    <2> QED
      BY <1>1, <2>1, <2>3, <2>4 DEF NewDay
  <1>2. CASE StartRun
    BY <1>2 DEF StartRun
  <1>3. CASE StartDaily
    BY <1>3 DEF StartDaily, Step
  <1>4. CASE ListFails
    BY <1>4 DEF ListFails, Step, DatePending
  <1>5. ASSUME NEW e \in Event, Keep(e)
       PROVE FilesInv'
    BY <1>5, DayOfAssumption DEF Keep
  <1>6. CASE Generate
    <2>1. NextDate \in Day /\ NextDate < today
      BY <1>6 DEF Generate, DatePending, NextDate, Day
    <2>2. /\ dailyFile' = dailyFile \cup {NextDate}
          /\ inDaily' \subseteq Event /\ unparsed' \subseteq Event
      BY <1>6, Rendering DEF Generate, OfDay
    <2>3. NoGap'
      BY <1>6, <2>1, <2>2 DEF Generate
    <2> QED
      BY <1>6, <2>1, <2>2, <2>3 DEF Generate
  <1>7. CASE GenerateFails
    BY <1>7 DEF GenerateFails, Step
  <1>8. CASE CloseDate
    BY <1>8 DEF CloseDate, DatePending, NextDate
  <1>9. CASE FinishDaily
    BY <1>9 DEF FinishDaily, Step
  <1>10. ASSUME NEW d \in keptDates, NoFile(d)
       PROVE FilesInv'
    BY <1>10 DEF NoFile, Visit
  <1>11. ASSUME NEW d \in keptDates, Merge(d)
       PROVE FilesInv'
    <2>1. inDaily' \subseteq Event /\ unparsed' \subseteq Event
      BY <1>11, Rendering DEF Merge, Late, OfDay
    <2> QED
      BY <1>11, <2>1 DEF Merge, Visit
  <1>12. ASSUME NEW d \in keptDates, MergeFails(d)
       PROVE FilesInv'
    BY <1>12 DEF MergeFails, Visit
  <1>13. CASE StartMonthly
    BY <1>13 DEF StartMonthly, Step
  <1>14. ASSUME NEW d \in updated, Mark(d)
       PROVE FilesInv'
    <2>1. MonthOf[d] \in Month
      BY <1>14
    <2>2. MonthOf[d] <= monthlyClose => MonthOf[d] \in monthlyFile
      BY <2>1 DEF Month
    <2>3. dirty' \subseteq monthlyFile
      BY <1>14, <2>2 DEF Mark
    <2> QED
      BY <1>14, <2>3 DEF Mark
  <1>15. CASE StartCatchup
    BY <1>15 DEF StartCatchup, Step
  <1>16. CASE Consolidate
    <2>1. MonthOf[now] <= MonthOf[today] /\ MonthOf[today] <= MonthOf[LastDay]
      BY MonthsPass DEF Day
    <2>2. /\ MonthOf[now] \in Nat /\ MonthOf[today] \in Nat /\ MonthOf[LastDay] \in Nat
          /\ NextMonth \in Nat \ {0} /\ NextMonth < MonthOf[now]
      BY <1>16, MonthsPass DEF Consolidate, MonthPending, NextMonth
    <2>3. NextMonth \in Month /\ NextMonth < MonthOf[today]
      BY <2>1, <2>2 DEF Month
    <2>4. /\ monthlyFile' = monthlyFile \cup {NextMonth} /\ saving' = {NextMonth}
          /\ inMonthly' \subseteq Event
      BY <1>16 DEF Consolidate, WriteMonth, Parsed
    <2>5. NoGap'
      BY <1>16, <2>3, <2>4 DEF Consolidate, WriteMonth
    <2> QED
      BY <1>16, <2>3, <2>4, <2>5 DEF Consolidate, WriteMonth
  <1>17. CASE CloseMonth
    BY <1>17 DEF CloseMonth, NextMonth
  <1>18. CASE CloseUnchanged
    BY <1>18 DEF CloseUnchanged, MonthPending, NextMonth
  <1>19. CASE StopCatchup
    BY <1>19 DEF StopCatchup, Step
  <1>20. ASSUME NEW m \in Month, Rebuild(m)
       PROVE FilesInv'
    <2>1. m \in monthlyFile
      BY <1>20 DEF Rebuild
    <2>2. /\ monthlyFile' = monthlyFile /\ saving' = {m}
          /\ inMonthly' \subseteq Event
      BY <1>20, <2>1 DEF Rebuild, WriteMonth, Parsed
    <2>3. NoGap'
      BY <1>20, <2>2 DEF Rebuild, WriteMonth
    <2> QED
      BY <1>20, <2>1, <2>2, <2>3 DEF Rebuild, WriteMonth
  <1>21. ASSUME NEW m \in Month, ClearFlag(m)
       PROVE FilesInv'
    BY <1>21 DEF ClearFlag
  <1>22. ASSUME NEW m \in Month, RebuildFails(m)
       PROVE FilesInv'
    BY <1>22 DEF RebuildFails
  <1>23. CASE FinishRun
    BY <1>23 DEF FinishRun, EndRun
  <1>24. CASE AbortRun
    BY <1>24 DEF AbortRun, EndRun
  <1>25. CASE MonthlyRaises
    BY <1>25 DEF MonthlyRaises, EndRun
  <1>26. CASE Crash
    BY <1>26 DEF Crash, EndRun
  <1>27. CASE UNCHANGED vars
    BY <1>27 DEF vars
  <1> QED
    BY <1>1, <1>2, <1>3, <1>4, <1>5, <1>6, <1>7, <1>8, <1>9, <1>10, <1>11,
       <1>12, <1>13, <1>14, <1>15, <1>16, <1>17, <1>18, <1>19, <1>20, <1>21,
       <1>22, <1>23, <1>24, <1>25, <1>26, <1>27 DEF Next

\* A document that is written agrees with its Daily files, and disturbs no other.
LEMMA WriteAgrees ==
    ASSUME FilesInv, HistoryInv, NEW m \in Month, WriteMonth(m),
           pc \in {"months", "dirty"}
    PROVE  HistoryInv'
<1> USE DEF FilesInv, TypeOK, HistoryInv, MemoryInv
<1>1. updated = {} /\ keptDates = {}
  OBVIOUS
<1>2. /\ inMonthly' = (inMonthly \ OfMonth(m)) \cup ((inDaily \ unparsed) \cap OfMonth(m))
      /\ saving' = {m} /\ stale' = stale \ {m}
      /\ UNCHANGED <<kept, dailyFile, inDaily, unparsed, dirty, pc, keptDates, updated, missed>>
      /\ monthlyFile' = monthlyFile \cup {m}
  BY DEF WriteMonth, Parsed, daily
<1>3. MemoryInv' /\ KeptIsInDaily' /\ LostByWords'
  BY <1>2 DEF KeptIsInDaily, LostByWords, Garbled
<1>4. SavedAgrees'
  BY <1>2 DEF SavedAgrees, Parsed
<1>5. ASSUME NEW e \in inDaily \ unparsed, NEW n \in monthlyFile \cup {m},
             n \notin dirty \cup (stale \ {m}), e \in OfMonth(n)
      PROVE  e \in inMonthly'
  <2>1. CASE n = m
    BY <1>2, <1>5, <2>1
  <2>2. CASE n # m
    <3>1. e \notin OfMonth(m)
      BY <1>5, <2>2, OneMonth
    <3>2. e \in inMonthly
      BY <1>1, <1>5, <2>2 DEF AgreesInv
    <3> QED
      BY <1>2, <3>1, <3>2
  <2> QED
    BY <2>1, <2>2
<1>6. AgreesInv'
  BY <1>2, <1>5 DEF AgreesInv
<1> QED
  BY <1>3, <1>4, <1>6

\* Each step keeps what is kept, shown and marked together.
LEMMA HistoryStep == FilesInv /\ HistoryInv /\ [Next]_vars => HistoryInv'
  <1> SUFFICES ASSUME FilesInv, HistoryInv, [Next]_vars
               PROVE HistoryInv'
    OBVIOUS
  <1> USE DEF FilesInv, TypeOK, Grounded, HistoryInv, MemoryInv, SavedAgrees,
              KeptIsInDaily, AgreesInv, LostByWords, Garbled, Parsed, OfDay, OfMonth,
              DaysOf, daily, monthly
  <1>1. CASE NewDay
    BY <1>1 DEF NewDay
  <1>2. CASE StartRun
    BY <1>2 DEF StartRun
  <1>3. CASE StartDaily
    BY <1>3 DEF StartDaily, Step
  <1>4. CASE ListFails
    BY <1>4 DEF ListFails, Step, DatePending
  <1>5. ASSUME NEW e \in Event, Keep(e)
       PROVE HistoryInv'
    BY <1>5 DEF Keep
  <1>6. CASE Generate
    <2>1. /\ inDaily' = inDaily \cup ((kept \cap OfDay(NextDate)) \ Breaking)
          /\ unparsed \subseteq unparsed' /\ unparsed' \subseteq unparsed \cup Garbled
      BY <1>6, Rendering DEF Generate
    <2>4. KeptIsInDaily' /\ LostByWords'
      BY <1>6, <2>1 DEF Generate
    <2>2. ASSUME NEW m \in monthlyFile, NEW e \in Event,
                 DayOf[e] = NextDate, e \in OfMonth(m)
          PROVE  FALSE
      BY <1>6, <2>2 DEF Generate, NoGap, Covered
    <2>3. AgreesInv'
      BY <1>6, <2>1, <2>2 DEF Generate
    <2> QED
      BY <1>6, <2>1, <2>3, <2>4 DEF Generate
  <1>7. CASE GenerateFails
    BY <1>7 DEF GenerateFails, Step
  <1>8. CASE CloseDate
    BY <1>8 DEF CloseDate, DatePending, NextDate
  <1>9. CASE FinishDaily
    BY <1>9 DEF FinishDaily, Step
  <1>10. ASSUME NEW d \in keptDates, NoFile(d)
       PROVE HistoryInv'
    BY <1>10 DEF NoFile, Visit
  <1>11. ASSUME NEW d \in keptDates, Merge(d)
       PROVE HistoryInv'
    <2>1. d \in Day /\ saving = {}
      BY <1>11 DEF Merge, Visit
    <2>5. /\ inDaily' = inDaily \cup (Late(d) \ Breaking)
          /\ unparsed \subseteq unparsed' /\ unparsed' \subseteq unparsed \cup Garbled
      BY <1>11, Rendering DEF Merge, Late
    <2>2. KeptIsInDaily' /\ LostByWords'
      BY <1>11, <2>5 DEF Merge, Visit, Late
    <2>3. \A e \in inDaily' \ inDaily : DayOf[e] \in updated'
      BY <1>11, <2>5 DEF Merge, Late
    <2>4. AgreesInv'
      BY <1>11, <2>3, <2>5 DEF Merge
    <2> QED
      BY <1>11, <2>1, <2>2, <2>4 DEF Merge, Visit
  <1>12. ASSUME NEW d \in keptDates, MergeFails(d)
       PROVE HistoryInv'
    BY <1>12 DEF MergeFails, Visit
  <1>13. CASE StartMonthly
    BY <1>13 DEF StartMonthly, Step
  <1>14. ASSUME NEW d \in updated, Mark(d)
       PROVE HistoryInv'
    BY <1>14 DEF Mark
  <1>15. CASE StartCatchup
    BY <1>15 DEF StartCatchup, Step
  <1>16. CASE Consolidate
    <2>1. pc = "months" /\ updated = {} /\ WriteMonth(NextMonth) /\ NextMonth \in Month
      BY <1>16, FilesStep DEF Consolidate, WriteMonth
    <2> QED
      BY <2>1, WriteAgrees
  <1>17. CASE CloseMonth
    BY <1>17 DEF CloseMonth, NextMonth
  <1>18. CASE CloseUnchanged
    BY <1>18 DEF CloseUnchanged, MonthPending, NextMonth
  <1>19. CASE StopCatchup
    BY <1>19 DEF StopCatchup, Step
  <1>20. ASSUME NEW m \in Month, Rebuild(m)
       PROVE HistoryInv'
    BY <1>20, WriteAgrees DEF Rebuild
  <1>21. ASSUME NEW m \in Month, ClearFlag(m)
       PROVE HistoryInv'
    BY <1>21 DEF ClearFlag
  <1>22. ASSUME NEW m \in Month, RebuildFails(m)
       PROVE HistoryInv'
    BY <1>22 DEF RebuildFails
  <1>23. CASE FinishRun
    BY <1>23 DEF FinishRun, EndRun
  <1>24. CASE AbortRun
    BY <1>24 DEF AbortRun, EndRun
  <1>25. CASE MonthlyRaises
    BY <1>25 DEF MonthlyRaises, EndRun
  <1>26. CASE Crash
    BY <1>26 DEF Crash, EndRun
  <1>27. CASE UNCHANGED vars
    BY <1>27 DEF vars
  <1> QED
    BY <1>1, <1>2, <1>3, <1>4, <1>5, <1>6, <1>7, <1>8, <1>9, <1>10, <1>11,
       <1>12, <1>13, <1>14, <1>15, <1>16, <1>17, <1>18, <1>19, <1>20, <1>21,
       <1>22, <1>23, <1>24, <1>25, <1>26, <1>27 DEF Next

-----------------------------------------------------------------------------
\* Files, pointers and the clock stay in order.
THEOREM FilesInvariant == Spec => []FilesInv
<1>1. Init => FilesInv
  BY Calendar DEF Init, FilesInv, TypeOK, NoGap, Grounded
<1> QED
  BY <1>1, FilesStep, PTL DEF Spec

\* Every variable keeps its type.
THEOREM TypeCorrect == Spec => []TypeOK
<1>1. FilesInv => TypeOK
  BY DEF FilesInv
<1> QED
  BY <1>1, FilesInvariant, PTL

\* Closed dates have files, closed months documents, documents all their days.
THEOREM NoGapInHistory == Spec => []NoGap
<1>1. FilesInv => NoGap
  BY DEF FilesInv
<1> QED
  BY <1>1, FilesInvariant, PTL

\* What files show and memory holds stays in step.
THEOREM HistoryInvariant == Spec => []HistoryInv
<1>1. Init => HistoryInv
  BY DEF Init, HistoryInv, MemoryInv, SavedAgrees, KeptIsInDaily, AgreesInv, LostByWords
<1> QED
  BY <1>1, FilesInvariant, HistoryStep, PTL DEF Spec

\* A kept Event is in the file of its date, but for merges that failed or never
\* came.
THEOREM KeptIsShown == Spec => []KeptIsInDaily
<1>1. HistoryInv => KeptIsInDaily
  BY DEF HistoryInv
<1> QED
  BY <1>1, HistoryInvariant, PTL

\* A Monthly document agrees with its Daily files, but for garbled items and for
\* marks that never came.
THEOREM HistoryAgrees == Spec => []MonthlyAgrees
<1>1. HistoryInv => MonthlyAgrees
  BY DEF HistoryInv, AgreesInv, LostByWords, MonthlyAgrees
<1> QED
  BY <1>1, HistoryInvariant, PTL

-----------------------------------------------------------------------------
\* Beyond its pointer lies at most the file that is written next.
PointersInv == dailyFile \subseteq 1 .. NextDate /\ monthlyFile \subseteq 1 .. NextMonth

ReviewTypeOK ==
    /\ context \in [Event -> Text \cup {NoText}]
    /\ listed \in [Event -> Text \cup {NoText}]
    /\ shown \in [Event -> Text \cup {NoText}]
    /\ behind \subseteq Event

\* What is listed and what is shown is the text as it is, unless that came too
\* late for the listing.
TextsInv ==
    \A e \in Event \ behind :
        /\ e \in inDaily => shown[e] = context[e]
        /\ pc \in {"daily", "late"} /\ e \notin inDaily => listed[e] = context[e]

StatusInv == FilesInv /\ HistoryInv /\ PointersInv /\ ReviewTypeOK /\ TextsInv

\* There are no more months than days.
LEMMA MonthsAreDays == Month \subseteq Day
<1>1. MonthOf \in [Day -> Month] /\ LastDay \in Nat /\ MonthOf[LastDay] \in Nat
  BY Calendar, MonthOfAssumption
<1>2. MonthOf \in Surjection(Day, Month)
  BY <1>1, MonthOfAssumption DEF Surjection, Range
<1>3. IsFiniteSet(Day) /\ Cardinality(Day) = LastDay
  BY <1>1, FS_Interval, LastDayAssumption DEF Day
<1>4. Cardinality(Month) = MonthOf[LastDay]
  BY <1>1, FS_Interval DEF Month
<1>5. Cardinality(Month) <= Cardinality(Day)
  BY <1>2, <1>3, FS_Surjection
<1> QED
  BY <1>1, <1>3, <1>4, <1>5 DEF Day, Month

\* The Runner writes the files in their order.
LEMMA PointersStep == FilesInv /\ PointersInv /\ [Next]_vars => PointersInv'
<1> SUFFICES ASSUME FilesInv, PointersInv, [Next]_vars
             PROVE  PointersInv'
  OBVIOUS
<1> USE DEF FilesInv, TypeOK, Grounded, PointersInv, NextDate, NextMonth, daily, monthly
<1>1. CASE Generate
  BY <1>1 DEF Generate
<1>2. CASE CloseDate
  BY <1>2 DEF CloseDate
<1>3. CASE Consolidate
  BY <1>3 DEF Consolidate, WriteMonth
<1>4. CASE CloseMonth \/ CloseUnchanged
  <2>1. /\ monthlyClose' = monthlyClose + 1
        /\ UNCHANGED <<dailyFile, monthlyFile, dailyClose>>
    BY <1>4 DEF CloseMonth, CloseUnchanged
  <2>2. 1 .. monthlyClose + 1 \subseteq 1 .. monthlyClose + 2
    OBVIOUS
  <2> QED
    BY <2>1, <2>2
<1>5. ASSUME NEW m \in Month, Rebuild(m) PROVE PointersInv'
  BY <1>5 DEF Rebuild, WriteMonth
<1>6. CASE UNCHANGED <<dailyFile, monthlyFile, dailyClose, monthlyClose>>
  BY <1>6
<1>7. ASSUME ~Generate, ~CloseDate, ~Consolidate, ~CloseMonth, ~CloseUnchanged,
             \A m \in Month : ~Rebuild(m)
      PROVE  UNCHANGED <<dailyFile, monthlyFile, dailyClose, monthlyClose>>
  BY <1>7 DEF Next, vars, NewDay, StartRun, StartDaily, ListFails, Keep, GenerateFails,
         FinishDaily, NoFile, Merge, MergeFails, StartMonthly, Mark, StartCatchup,
         StopCatchup, ClearFlag, RebuildFails, FinishRun, AbortRun, MonthlyRaises,
         Crash, EndRun, Step
<1> QED
  BY <1>1, <1>2, <1>3, <1>4, <1>5, <1>6, <1>7

\* No Event leaves the Daily files, and one gets in by the Daily Close or the
\* Late Update.
LEMMA ShownStays ==
    ASSUME FilesInv, Next
    PROVE  /\ inDaily \subseteq inDaily' /\ inDaily' \subseteq Event
           /\ inDaily' # inDaily => pc \in {"daily", "late"}
<1>1. inDaily' \subseteq Event
  BY FilesStep DEF FilesInv, TypeOK
<1>2. CASE Generate
  BY <1>1, <1>2 DEF Generate, Render
<1>3. ASSUME NEW d \in keptDates, Merge(d)
      PROVE  inDaily \subseteq inDaily' /\ pc = "late"
  BY <1>3 DEF Merge, Visit, Render
<1>4. ASSUME ~Generate, \A d \in keptDates : ~Merge(d)
      PROVE  UNCHANGED inDaily
  BY <1>4 DEF Next, NewDay, StartRun, StartDaily, ListFails, Keep, GenerateFails,
         CloseDate, FinishDaily, NoFile, MergeFails, StartMonthly, Mark, StartCatchup,
         Consolidate, CloseMonth, CloseUnchanged, Rebuild, WriteMonth,
         StopCatchup, ClearFlag, RebuildFails, FinishRun, AbortRun, MonthlyRaises,
         Crash, EndRun, Step, daily
<1> QED
  BY <1>1, <1>2, <1>3, <1>4

\* A step of the Runner renders what it listed.
LEMMA RunnerTexts ==
    ASSUME StatusInv, RunnerStep
    PROVE  ReviewTypeOK' /\ TextsInv'
<1> USE DEF StatusInv
<1>1. /\ inDaily \subseteq inDaily' /\ inDaily' \subseteq Event
      /\ inDaily' # inDaily => pc \in {"daily", "late"}
  BY ShownStays DEF RunnerStep
<1>2. UNCHANGED <<context, behind>>
  BY DEF RunnerStep
<1>3. \A e \in Event : listed'[e] = IF pc' \notin {"daily", "late"} \/ e \in inDaily' THEN NoText
                                    ELSE IF pc' = pc THEN listed[e] ELSE context[e]
  BY DEF RunnerStep
<1>4. PICK texts \in Rendered :
         shown' = [e \in Event |-> IF e \in inDaily' \ inDaily THEN texts[e] ELSE shown[e]]
  BY DEF RunnerStep
<1>5. /\ texts \in [Event -> Text \cup {NoText}]
      /\ \A e \in Event : texts[e] \in {listed[e], IF pc = "late" THEN context[e] ELSE listed[e]}
  BY <1>4 DEF Rendered, ReviewTypeOK
<1>6. ReviewTypeOK'
  <2>1. shown' \in [Event -> Text \cup {NoText}]
    BY <1>4, <1>5 DEF ReviewTypeOK
  <2>2. listed' \in [Event -> Text \cup {NoText}]
    BY DEF RunnerStep, ReviewTypeOK
  <2> QED
    BY <1>2, <2>1, <2>2 DEF ReviewTypeOK
<1>7. ASSUME NEW e \in Event \ behind, e \in inDaily'
      PROVE  shown'[e] = context[e]
  <2>1. CASE e \in inDaily
    BY <1>4, <1>7, <2>1 DEF TextsInv
  <2>2. CASE e \notin inDaily
    <3>1. shown'[e] = texts[e]
      BY <1>4, <1>7, <2>2
    <3>2. listed[e] = context[e]
      BY <1>1, <1>7, <2>2 DEF TextsInv
    <3> QED
      BY <1>5, <3>1, <3>2
  <2> QED
    BY <2>1, <2>2
<1>8. ASSUME NEW e \in Event \ behind, pc' \in {"daily", "late"}, e \notin inDaily'
      PROVE  listed'[e] = context[e]
  BY <1>1, <1>3, <1>8 DEF TextsInv
<1> QED
  BY <1>2, <1>6, <1>7, <1>8 DEF TextsInv

\* What a person writes while its Event is listed or rendered is too late.
LEMMA ReviewTexts ==
    ASSUME StatusInv, NEW e \in Event, NEW t \in Text, Review(e, t)
    PROVE  ReviewTypeOK' /\ TextsInv'
<1> USE DEF StatusInv, ReviewTypeOK
<1>1. /\ context' = [context EXCEPT ![e] = t]
      /\ behind' = IF pc \in {"daily", "late"} \/ e \in inDaily
                   THEN behind \cup {e} ELSE behind \ {e}
      /\ UNCHANGED <<pc, inDaily, listed, shown>>
  BY DEF Review, vars, daily
<1>2. ReviewTypeOK'
  BY <1>1
<1>3. ASSUME NEW f \in Event \ behind'
      PROVE  /\ f \in inDaily => shown[f] = context'[f]
             /\ pc \in {"daily", "late"} /\ f \notin inDaily => listed[f] = context'[f]
  <2>1. CASE f = e
    BY <1>1, <1>3, <2>1
  <2>2. CASE f # e
    BY <1>1, <1>3, <2>2 DEF TextsInv
  <2> QED
    BY <2>1, <2>2
<1> QED
  BY <1>1, <1>2, <1>3 DEF TextsInv

\* The Runner's invariants and those of the texts hold together.
LEMMA StatusStep == StatusInv /\ [StatusNext]_allVars => StatusInv'
<1> SUFFICES ASSUME StatusInv, [StatusNext]_allVars
             PROVE  StatusInv'
  OBVIOUS
<1>1. [Next]_vars
  BY DEF StatusNext, RunnerStep, Review, allVars
<1>2. FilesInv' /\ HistoryInv' /\ PointersInv'
  BY <1>1, FilesStep, HistoryStep, PointersStep DEF StatusInv
<1>3. CASE RunnerStep
  BY <1>2, <1>3, RunnerTexts DEF StatusInv
<1>4. ASSUME NEW e \in Event, NEW t \in Text, Review(e, t) PROVE StatusInv'
  BY <1>2, <1>4, ReviewTexts DEF StatusInv
<1>5. CASE UNCHANGED allVars
  <2>1. UNCHANGED <<context, listed, shown, behind, pc, inDaily>>
    BY <1>5 DEF allVars, vars, review, daily
  <2>2. ReviewTypeOK' /\ TextsInv'
    BY <2>1 DEF StatusInv, ReviewTypeOK, TextsInv
  <2> QED
    BY <1>2, <2>2 DEF StatusInv
<1> QED
  BY <1>3, <1>4, <1>5 DEF StatusNext

\* People add nothing to what the Runner may do, and take nothing from it.
THEOREM StatusInvariant == StatusSpec => []StatusInv
<1>1. ReviewInit => StatusInv
  <2> SUFFICES ASSUME ReviewInit PROVE StatusInv
    OBVIOUS
  <2>1. FilesInv
    BY Calendar DEF ReviewInit, Init, FilesInv, TypeOK, NoGap, Grounded
  <2>2. HistoryInv /\ PointersInv
    BY DEF ReviewInit, Init, HistoryInv, MemoryInv, SavedAgrees, KeptIsInDaily,
           AgreesInv, LostByWords, PointersInv
  <2>3. ReviewTypeOK /\ TextsInv
    BY DEF ReviewInit, Init, ReviewTypeOK, TextsInv
  <2> QED
    BY <2>1, <2>2, <2>3 DEF StatusInv
<1> QED
  BY <1>1, StatusStep, PTL DEF StatusSpec

-----------------------------------------------------------------------------
\* A page at rest that asks for nobody means that nothing is lost: every kept
\* Event of a closed date is in its Daily file with its text as it is now, and
\* in the document of its month once that is closed, unless it has no summary.
THEOREM QuietIsComplete == StatusSpec => []QuietMeansComplete
<1>1. StatusInv => QuietMeansComplete
  <2> SUFFICES ASSUME StatusInv, Quiet, pc = "idle", NEW e \in kept
               PROVE  /\ DayOf[e] <= dailyClose =>
                            e \in inDaily /\ context[e] \in {NoText, shown[e]}
                      /\ \A m \in 1 .. monthlyClose :
                            e \in OfMonth(m) => e \in inMonthly \cup Bare
    BY DEF QuietMeansComplete
  <2> USE DEF StatusInv, FilesInv, TypeOK
  <2>1. e \in Event /\ DayOf[e] \in 0 .. LastDay /\ LastDay \in Nat
    BY DayOfAssumption, LastDayAssumption
  <2>2. DayOf[e] \in dailyFile => e \in inDaily /\ context[e] \in {NoText, shown[e]}
    BY DEF Quiet, Unrendered, Unshown
  <2>3. DayOf[e] >= 1
    BY <2>1 DEF Quiet, BeforeStart
  <2>4. DayOf[e] <= dailyClose => DayOf[e] \in dailyFile
    BY <2>1, <2>3 DEF NoGap
  <2>5. ASSUME NEW m \in 1 .. monthlyClose, e \in OfMonth(m)
        PROVE  e \in inMonthly \cup Bare
    <3>1. m \in monthlyFile
      BY DEF NoGap
    <3>2. DayOf[e] \in dailyFile
      BY <2>5, <3>1 DEF NoGap, Covered, OfMonth
    <3>3. m \notin dirty /\ Lagging = {}
      BY DEF Quiet
    <3>4. CASE e \notin unparsed
      BY <2>2, <2>5, <3>1, <3>2, <3>3, <3>4 DEF Lagging, Parsed
    <3>5. \A f \in kept \cap Breaking : DayOf[f] # DayOf[e]
      BY <3>2 DEF Quiet, Unrendered, HistoryInv, LostByWords
    <3>6. CASE e \in unparsed
      BY <3>5, <3>6 DEF HistoryInv, LostByWords, Garbled
    <3> QED
      BY <3>4, <3>6
  <2> QED
    BY <2>2, <2>4, <2>5
<1> QED
  BY <1>1, StatusInvariant, PTL

\* What lies up to a pointer and one beyond it has no hole, and no last file
\* that is not there.
LEMMA NoHoles ==
    ASSUME NEW c \in Nat, NEW files, 1 .. c \subseteq files, files \subseteq 1 .. c + 1
    PROVE  Holes(files) = {} /\ NotThere(c, files) = {}
BY LastDayAssumption DEF Holes, NotThere

\* A file that is taken away from it is missed, or it was the first, or it is
\* made again; and what counts as a hole is closed.
LEMMA TakenAway ==
    ASSUME NEW c \in Nat, NEW files, 1 .. c \subseteq files, files \subseteq 1 .. c + 1,
           files \subseteq Day, NEW f \in files, NEW left, left = files \ {f}
    PROVE  /\ \/ f \in Holes(left) \cup NotThere(c, left)
              \/ left = {} \/ \A g \in left : f < g
              \/ f = c + 1
           /\ Holes(left) \subseteq 1 .. c
<1>1. f \in 1 .. LastDay /\ LastDay \in Nat
  BY LastDayAssumption DEF Day
<1>2. Holes(left) \subseteq 1 .. c
  <2>1. ASSUME NEW n \in 1 .. LastDay, NEW g \in left, n < g
        PROVE  n \in 1 .. c
    BY <1>1, <2>1
  <2> QED
    BY <2>1 DEF Holes
<1>3. f = c => f \in NotThere(c, left)
  BY <1>1 DEF NotThere
<1>4. f = 1 => \A g \in left : f < g
  OBVIOUS
<1>5. f # 1 /\ f < c => f \in Holes(left)
  <2> SUFFICES ASSUME f # 1, f < c PROVE f \in Holes(left)
    OBVIOUS
  <2>1. 1 \in left /\ c \in left /\ 1 < f /\ f \notin left
    BY <1>1
  <2> QED
    BY <1>1, <2>1 DEF Holes
<1>6. f <= c + 1 /\ f \in Nat
  BY <1>1
<1> QED
  BY <1>2, <1>3, <1>4, <1>5, <1>6

\* What the page calls lost is lost by something, and its lines on files that
\* are not there never appear by the Runner's own doing.
THEOREM LinesTellTheTruth == StatusSpec => []LinesAreTrue
<1>1. StatusInv => LinesAreTrue
  <2> SUFFICES ASSUME StatusInv PROVE LinesAreTrue
    OBVIOUS
  <2> USE DEF StatusInv, FilesInv, TypeOK
  <2>1. DailyHoles = {} /\ DailyNotThere = {}
    BY NoHoles DEF DailyHoles, DailyNotThere, NoGap, PointersInv, NextDate
  <2>2. MonthlyHoles = {} /\ MonthlyNotThere = {}
    BY NoHoles DEF MonthlyHoles, MonthlyNotThere, NoGap, PointersInv, NextMonth
  <2>3. ~FutureDaily
    <3>1. dailyClose = 0 \/ dailyClose \in dailyFile
      BY DEF NoGap
    <3> QED
      BY <3>1 DEF FutureDaily, NoGap, Day
  <2>4. ~FutureMonthly
    <3>1. monthlyClose = 0 \/ monthlyClose \in monthlyFile
      BY DEF NoGap
    <3>2. MonthOf[today] \in Nat
      BY MonthOfAssumption
    <3> QED
      BY <3>1, <3>2 DEF FutureMonthly, NoGap
  <2>5. ASSUME pc = "idle"
        PROVE  /\ \A e \in Unrendered \ Breaking : DayOf[e] \in missed
               /\ \A e \in Unshown \ Breaking : e \in behind \/ DayOf[e] \in missed
               /\ Lagging \subseteq stale
               /\ DocumentsWithoutState \subseteq {1}
    <3>1. keptDates = {} /\ updated = {}
      BY <2>5 DEF HistoryInv, MemoryInv
    <3>2. \A e \in kept \ Breaking : DayOf[e] \in dailyFile /\ e \notin inDaily => DayOf[e] \in missed
      BY <3>1 DEF HistoryInv, KeptIsInDaily
    <3>3. \A e \in Unshown \ Breaking : e \in behind \/ DayOf[e] \in missed
      BY <3>2 DEF Unshown, TextsInv
    <3>4. Lagging \subseteq stale
      BY <3>1 DEF Lagging, Parsed, HistoryInv, AgreesInv
    <3>5. DocumentsWithoutState \subseteq {1}
      BY DEF DocumentsWithoutState, PointersInv, NextMonth
    <3> QED
      BY <3>2, <3>3, <3>4, <3>5 DEF Unrendered
  <2> QED
    BY <2>1, <2>2, <2>3, <2>4, <2>5 DEF LinesAreTrue
<1> QED
  BY <1>1, StatusInvariant, PTL

\* A Daily file or a Monthly document that somebody takes away is noticed while
\* the Runner rests, unless it was the first of its kind or is made again.
THEOREM DeletionIsSeen == StatusSpec => []DeletionIsNoticed
<1>1. StatusInv => DeletionIsNoticed
  <2> SUFFICES ASSUME StatusInv PROVE DeletionIsNoticed
    OBVIOUS
  <2>1. /\ dailyClose \in Nat /\ 1 .. dailyClose \subseteq dailyFile
        /\ dailyFile \subseteq 1 .. dailyClose + 1 /\ dailyFile \subseteq Day
    BY DEF StatusInv, FilesInv, TypeOK, NoGap, PointersInv, NextDate
  <2>2. /\ monthlyClose \in Nat /\ 1 .. monthlyClose \subseteq monthlyFile
        /\ monthlyFile \subseteq 1 .. monthlyClose + 1 /\ monthlyFile \subseteq Day
    BY MonthsAreDays DEF StatusInv, FilesInv, TypeOK, NoGap, PointersInv, NextMonth
  <2> QED
    BY <2>1, <2>2, TakenAway DEF DeletionIsNoticed, NextDate, NextMonth
<1> QED
  BY <1>1, StatusInvariant, PTL
=============================================================================
