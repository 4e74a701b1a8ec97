------------------------ MODULE DesktopAgentProofs -------------------------
(***************************************************************************)
(* TLAPS proofs about DesktopAgent and its page (AgentStatus) for every    *)
(* set of Signals, every filing of them under dates and every length of    *)
(* the calendar.                                                           *)
(*                                                                         *)
(* CollectedIsDelivered is not inductive: closing a date is justified by   *)
(* what the drain before it did, and the drain by what was staged.         *)
(* AgentInv follows an Event on its way: but for what a blind drain        *)
(* overlooked, the outbox holds Events of the one date after the watermark *)
(* only, and a drain that is still clear has visited whatever is missing   *)
(* from it; a date in progress has each of its due Signals listed, in the  *)
(* outbox or in sent/; and no run works on a date that is not over, so no  *)
(* due Signal can still join it.                                           *)
(***************************************************************************)
EXTENDS AgentStatus, TLAPS

\* A drain works on files of the outbox; while it is clear, the outbox holds
\* just what it has not filed yet, and what one overlooked.  Outside a drain
\* nothing is half sent.
DrainTracksOutbox ==
    /\ \A s, t \in sending : s = t
    /\ sending \subseteq outbox \cap (Delivered \cup Spoiled)
    /\ missed \subseteq outbox
    /\ IF pc \in {"leftover", "deliver"}
         THEN /\ todo \subseteq outbox \ sending
              /\ clear => outbox \subseteq todo \cup sending \cup missed
         ELSE sending = {}
    /\ pc \in {"next", "advance"} => todo = {}

\* Between dates the outbox holds what was overlooked, and else also unsent
\* Events of the date after the watermark.
OutboxOfCurrentDate ==
    /\ \A s \in outbox : s \in Usable \ sent /\ DateOf[s] <= watermark + 1
    /\ \A s \in outbox \ missed : DateOf[s] = watermark + 1
    /\ pc \in {"next", "advance"} => outbox \subseteq missed
    /\ pc = "collect" /\ ~staged => outbox \subseteq missed

\* What is filed as sent is out or its name spoiled; what is out was staged
\* here, and not before its date's turn.
SentIsOut ==
    /\ sent \subseteq Delivered \cup Spoiled
    /\ Delivered \subseteq outbox \cup sent
    /\ \A s \in Delivered : DateOf[s] <= watermark + 1

\* Runs, and so the watermark, stay behind the clock.
RunsInThePast ==
    /\ horizon < today /\ watermark < today
    /\ pc \in {"collect", "deliver", "advance"} => watermark < horizon

\* A Signal filed in time stays in signals/ until it is judged unusable.
OnTimeIsKept == onTime \subseteq present \cup refused

\* The Signals of the date in progress that came in time are all accounted for,
\* and those of a collected date are filed as sent or were overlooked.
DateInProgress ==
    /\ pc = "collect" => \A s \in todo : DateOf[s] = watermark + 1
    /\ pc \in {"collect", "deliver", "advance"} =>
         \A s \in onTime \ refused :
             DateOf[s] = watermark + 1 => s \in todo \cup outbox \cup sent
    /\ \A s \in onTime \ refused : DateOf[s] <= watermark => s \in sent \cup missed

AgentInv ==
    /\ DrainTracksOutbox
    /\ OutboxOfCurrentDate
    /\ SentIsOut
    /\ RunsInThePast
    /\ OnTimeIsKept
    /\ DateInProgress
    /\ CollectedIsDelivered

-----------------------------------------------------------------------------
\* The watermark stays in the calendar because runs stay behind the clock.
THEOREM TypesAndClock == Spec => [](TypeOK /\ RunsInThePast)
<1> USE LastDayAssumption, SignalAssumption DEF RunsInThePast
<1>1. Init => TypeOK /\ RunsInThePast
  <2>1. Init => clear \in BOOLEAN /\ staged \in BOOLEAN
    BY Zenon DEF Init
  <2> QED
    BY <2>1 DEF Init, TypeOK, Phase
<1>2. TypeOK /\ RunsInThePast /\ [Next]_vars => (TypeOK /\ RunsInThePast)'
  <2> SUFFICES ASSUME TypeOK, RunsInThePast, [Next]_vars
               PROVE (TypeOK /\ RunsInThePast)'
    OBVIOUS
  <2> USE DEF TypeOK, Phase, files, run, world
  <2>1. CASE NewDay
    BY <2>1 DEF NewDay
  <2>2. ASSUME NEW s \in Signal, WriteSignal(s)
       PROVE (TypeOK /\ RunsInThePast)'
    BY <2>2 DEF WriteSignal
  <2>3. ASSUME NEW s \in Signal, TakeFromFolder(s)
       PROVE (TypeOK /\ RunsInThePast)'
    BY <2>3 DEF TakeFromFolder
  <2>3a. ASSUME NEW s \in Signal, Spoil(s) \/ TakeForeign(s)
       PROVE (TypeOK /\ RunsInThePast)'
    BY <2>3a DEF Spoil, TakeForeign
  <2>4. ASSUME NEW s \in Signal, SendFails(s)
       PROVE (TypeOK /\ RunsInThePast)'
    BY <2>4 DEF SendFails, Draining, Visit
  <2>5. ASSUME NEW s \in Signal, Send(s)
       PROVE (TypeOK /\ RunsInThePast)'
    BY <2>5 DEF Send, Draining, Visit
  <2>6. ASSUME NEW s \in Signal, File(s)
       PROVE (TypeOK /\ RunsInThePast)'
    BY <2>6 DEF File
  <2>7. ASSUME NEW s \in Signal, FileFails(s)
       PROVE (TypeOK /\ RunsInThePast)'
    BY <2>7 DEF FileFails
  <2>8. ASSUME NEW s \in Signal, Reject(s)
       PROVE (TypeOK /\ RunsInThePast)'
    BY <2>8 DEF Reject, Visit
  <2>9. ASSUME NEW s \in Signal, AlreadySent(s)
       PROVE (TypeOK /\ RunsInThePast)'
    BY <2>9 DEF AlreadySent, Visit
  <2>10. ASSUME NEW s \in Signal, Stage(s)
       PROVE (TypeOK /\ RunsInThePast)'
    BY <2>10 DEF Stage, Visit
  <2>11. CASE StartRun
    BY <2>11 DEF StartRun, Begin, Drain
  <2>11a. CASE StartBlind
    BY <2>11a DEF StartBlind, Begin, DrainBlind
  <2>12. CASE DrainClear
    BY <2>12 DEF DrainClear, Draining
  <2>13. CASE DrainNotClear
    BY <2>13 DEF DrainNotClear, EndRun
  <2>14. CASE LoadSignals
    BY <2>14 DEF LoadSignals
  <2>15. CASE FinishRun
    BY <2>15 DEF FinishRun, EndRun
  <2>16. CASE CollectDone
    BY <2>16 DEF CollectDone, Drain, DrainBlind
  <2>17. CASE Advance
    BY <2>17 DEF Advance
  <2>18. CASE StopShort
    BY <2>18 DEF StopShort, EndRun
  <2>19. CASE Crash
    BY <2>19 DEF Crash, EndRun
  <2>20. CASE UNCHANGED vars
    BY <2>20 DEF vars
  <2> QED
    BY <2>1, <2>2, <2>3, <2>3a, <2>4, <2>5, <2>6, <2>7, <2>8, <2>9, <2>10, <2>11, <2>11a, <2>12, <2>13, <2>14, <2>15, <2>16, <2>17, <2>18, <2>19, <2>20 DEF Next, Deliver, Collect
<1> QED
  BY <1>1, <1>2, PTL DEF Spec

\* The state never leaves its types.
THEOREM TypeCorrect == Spec => []TypeOK
BY TypesAndClock, PTL

\* Every step keeps the inductive invariant.
LEMMA AgentInvStep ==
    ASSUME TypeOK, AgentInv, [Next]_vars
    PROVE  AgentInv'
<1> USE LastDayAssumption, SignalAssumption
<1> USE DEF TypeOK, Phase, files, run, world, AgentInv, Delivered, Due, Spoiled
<1> USE DEF DrainTracksOutbox, OutboxOfCurrentDate, SentIsOut, RunsInThePast,
            OnTimeIsKept, DateInProgress, CollectedIsDelivered
<1>1. CASE NewDay
  BY <1>1 DEF NewDay
<1>2. ASSUME NEW s \in Signal, WriteSignal(s) PROVE AgentInv'
  BY <1>2 DEF WriteSignal
<1>3. ASSUME NEW s \in Signal, TakeFromFolder(s) PROVE AgentInv'
  BY <1>3 DEF TakeFromFolder
<1>3a. ASSUME NEW s \in Signal, Spoil(s) PROVE AgentInv'
  BY <1>3a DEF Spoil
<1>3b. ASSUME NEW s \in Signal, TakeForeign(s) PROVE AgentInv'
  BY <1>3b DEF TakeForeign
<1>4. ASSUME NEW s \in Signal, SendFails(s) PROVE AgentInv'
  BY <1>4 DEF SendFails, Draining, Visit
<1>5. ASSUME NEW s \in Signal, Send(s) PROVE AgentInv'
  BY <1>5 DEF Send, Draining, Visit
<1>6. ASSUME NEW s \in Signal, File(s) PROVE AgentInv'
  BY <1>6 DEF File
<1>7. ASSUME NEW s \in Signal, FileFails(s) PROVE AgentInv'
  BY <1>7 DEF FileFails
<1>8. ASSUME NEW s \in Signal, Reject(s) PROVE AgentInv'
  BY <1>8 DEF Reject, Visit
<1>9. ASSUME NEW s \in Signal, AlreadySent(s) PROVE AgentInv'
  BY <1>9 DEF AlreadySent, Visit
<1>10. ASSUME NEW s \in Signal, Stage(s) PROVE AgentInv'
  BY <1>10 DEF Stage, Visit
<1>11. CASE StartRun
  BY <1>11 DEF StartRun, Begin, Drain
<1>11a. CASE StartBlind
  BY <1>11a DEF StartBlind, Begin, DrainBlind
<1>12. CASE DrainClear
  BY <1>12 DEF DrainClear, Draining
<1>13. CASE DrainNotClear
  BY <1>13 DEF DrainNotClear, EndRun
<1>14. CASE LoadSignals
  BY <1>14 DEF LoadSignals
<1>15. CASE FinishRun
  BY <1>15 DEF FinishRun, EndRun
<1>16. CASE CollectDone
  BY <1>16 DEF CollectDone, Drain, DrainBlind
<1>17. CASE Advance
  BY <1>17 DEF Advance
<1>18. CASE StopShort
  BY <1>18 DEF StopShort, EndRun
<1>19. CASE Crash
  BY <1>19 DEF Crash, EndRun
<1>20. CASE UNCHANGED vars
  BY <1>20 DEF vars
<1> QED
  BY <1>1, <1>2, <1>3, <1>3a, <1>3b, <1>4, <1>5, <1>6, <1>7, <1>8, <1>9, <1>10, <1>11, <1>11a, <1>12, <1>13, <1>14, <1>15, <1>16, <1>17, <1>18, <1>19, <1>20
  DEF Next, Deliver, Collect

\* The inductive invariant holds in every reachable state.
THEOREM AgentInvariant == Spec => []AgentInv
<1>1. Init => AgentInv
  BY LastDayAssumption, SignalAssumption
  DEF Init, AgentInv, DrainTracksOutbox, OutboxOfCurrentDate, SentIsOut,
      RunsInThePast, OnTimeIsKept, DateInProgress, CollectedIsDelivered,
      Delivered, Due, Spoiled
<1>2. TypeOK /\ AgentInv /\ [Next]_vars => AgentInv'
  BY AgentInvStep
<1> QED
  BY <1>1, <1>2, TypeCorrect, PTL DEF Spec

\* The watermark never passes work that only this Desktop has, but for what a
\* drain overlooked that could not list the outbox (agent.py: saved per date,
\* after the drain of that date was clear).
THEOREM WatermarkIsSafe == Spec => []CollectedIsDelivered
<1>1. AgentInv => CollectedIsDelivered
  BY DEF AgentInv
<1> QED
  BY <1>1, AgentInvariant, PTL

\* Events reach Desktop 4 in the order of their dates, but for those that such
\* a drain overlooked.
THEOREM DeliveryInOrder == Spec => []DeliveredInOrder
<1>1. TypeOK /\ AgentInv => DeliveredInOrder
  BY SignalAssumption
  DEF TypeOK, AgentInv, SentIsOut, CollectedIsDelivered, DeliveredInOrder,
      Delivered, Due, Spoiled
<1> QED
  BY <1>1, AgentInvariant, TypeCorrect, PTL

\* What is filed in sent/ is never published a second time.
THEOREM NoLateResend == Spec => NeverResentOnceFiled
<1>1. ASSUME TypeOK, AgentInv, [Next]_vars
      PROVE  \A s \in sent : s \notin folder => s \notin folder'
  <2> SUFFICES ASSUME NEW s \in sent, s \notin folder, s \in folder'
               PROVE FALSE
    OBVIOUS
  <2>1. s \in todo /\ Draining
    BY <1>1 DEF Next, Deliver, Collect, vars, files, world, run, NewDay,
       WriteSignal, TakeFromFolder, Spoil, TakeForeign, SendFails, Send, Visit, File, FileFails,
       Reject, AlreadySent, Stage, StartRun, StartBlind, Begin, DrainClear, DrainNotClear,
       LoadSignals, FinishRun, CollectDone, Advance, StopShort, Crash, EndRun
  <2>2. s \in outbox
    BY <1>1, <2>1 DEF AgentInv, DrainTracksOutbox, Draining
  <2> QED
    BY <1>1, <2>2 DEF AgentInv, OutboxOfCurrentDate
<1> QED
  BY <1>1, AgentInvariant, TypeCorrect, PTL DEF Spec, NeverResentOnceFiled

\* The page's line on collected dates never names an Event that was delivered,
\* nor a Signal that came in time and could be read.
THEOREM ClosedLineTrue == Spec => []ClosedLineIsTrue
<1>1. TypeOK /\ AgentInv => ClosedLineIsTrue
  <2> SUFFICES ASSUME TypeOK, AgentInv, NEW s \in UndeliveredClosed \ missed
               PROVE  s \notin Delivered /\ (s \in onTime => s \in refused)
    BY DEF ClosedLineIsTrue
  <2>1. s \in Signal /\ DateOf[s] <= watermark /\ s \notin sent
    BY DEF UndeliveredClosed, TypeOK
  <2>2. DateOf[s] \in Nat /\ watermark \in Nat
    BY <2>1, SignalAssumption, LastDayAssumption DEF TypeOK
  <2>3. s \notin outbox
    BY <2>1, <2>2 DEF AgentInv, CollectedIsDelivered
  <2> QED
    BY <2>1, <2>3 DEF AgentInv, SentIsOut, DateInProgress
<1> QED
  BY <1>1, AgentInvariant, TypeCorrect, PTL

\* A page of the agent without a line means that the work is delivered, also
\* when the page takes an outbox for empty that it could not list: only a name
\* that was spoiled and then cleared by the intake is taken for a consumed one.
THEOREM QuietIsDelivered == Spec => []QuietMeansDelivered
<1>1. TypeOK /\ AgentInv => QuietMeansDelivered
  <2> SUFFICES ASSUME TypeOK, AgentInv, NEW listed \in {outbox, {}},
                      ~AgentLine(listed),
                      NEW s \in present, DateOf[s] < today
               PROVE  s \in Delivered \cup swallowed
    BY DEF QuietMeansDelivered
  <2>1. DateOf[s] \in Nat /\ watermark \in Nat /\ today \in Nat
    BY SignalAssumption, LastDayAssumption DEF TypeOK
  <2>2. watermark + 1 > today - 1
    <3> SUFFICES ASSUME watermark + 1 <= today - 1 PROVE FALSE
      BY <2>1
    <3> watermark + 1 \in PendingDates
      BY <2>1 DEF PendingDates
    <3> QED
      BY DEF AgentLine, NeedsAttention
  <2>3. s \in sent
    BY <2>1, <2>2 DEF AgentLine, UndeliveredClosed
  <2> QED
    BY <2>3 DEF AgentInv, SentIsOut, AgentLine, Undelivered, Spoiled
<1> QED
  BY <1>1, AgentInvariant, TypeCorrect, PTL

\* No run of the agent takes a Signal off that line that no drain overlooked,
\* or repairs what the client left under the name of an Event.
THEOREM LinesStand == Spec => LinesNeedAPerson
<1> DEFINE Stand == /\ UndeliveredClosed \ missed \subseteq UndeliveredClosed'
                    /\ Undelivered \subseteq Undelivered' \cup swallowed'
<1>1. ASSUME TypeOK, AgentInv, [Next]_vars
      PROVE  Stand
  <2> USE SignalAssumption, LastDayAssumption
      DEF UndeliveredClosed, Undelivered, TypeOK, files, run, world
  <2>1. CASE NewDay
    BY <2>1 DEF NewDay
  <2>2. ASSUME NEW s \in Signal,
               WriteSignal(s) \/ TakeFromFolder(s) \/ Spoil(s) \/ TakeForeign(s)
        PROVE  Stand
    BY <2>2 DEF WriteSignal, TakeFromFolder, Spoil, TakeForeign
  <2>3. ASSUME NEW s \in Signal, Deliver(s)
        PROVE  Stand
    <3>1. CASE File(s)
      <4>1. s \in outbox /\ (s \in missed \/ DateOf[s] = watermark + 1)
        BY <1>1, <3>1 DEF File, AgentInv, DrainTracksOutbox, OutboxOfCurrentDate
      <4> QED
        BY <1>1, <3>1, <4>1 DEF File
    <3> QED
      BY <2>3, <3>1 DEF Deliver, SendFails, Send, FileFails
  <2>4. ASSUME NEW s \in Signal, Collect(s)
        PROVE  Stand
    <3>1. CASE Reject(s)
      <4>1. DateOf[s] = watermark + 1
        BY <1>1, <3>1 DEF Reject, Visit, AgentInv, DateInProgress
      <4> QED
        BY <1>1, <3>1, <4>1 DEF Reject
    <3> QED
      BY <2>4, <3>1 DEF Collect, AlreadySent, Stage
  <2>5. CASE Advance
    BY <1>1, <2>5 DEF Advance
  <2>6. CASE \/ StartRun \/ StartBlind \/ DrainClear \/ DrainNotClear
             \/ LoadSignals \/ FinishRun \/ CollectDone \/ StopShort \/ Crash
             \/ UNCHANGED vars
    BY <2>6 DEF StartRun, StartBlind, Begin, DrainClear, DrainNotClear,
       LoadSignals, FinishRun, CollectDone, StopShort, Crash, EndRun, vars
  <2> QED
    BY <1>1, <2>1, <2>2, <2>3, <2>4, <2>5, <2>6 DEF Next
<1> QED
  BY <1>1, AgentInvariant, TypeCorrect, PTL DEF Spec, LinesNeedAPerson
=============================================================================
