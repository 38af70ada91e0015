-------------------------- MODULE AgentTurnsProofs --------------------------
(***************************************************************************)
(* Type correctness of AgentTurns, and that the debounce forgets nobody,   *)
(* for any number of messages, attempts, delegations and upsets.           *)
(***************************************************************************)
EXTENDS AgentTurns, TLAPS

\* The debounce: a run of its own is in flight exactly while the conversation is
\* in the running set, and then no timer is set; only stored messages were
\* handed to it.
DebounceOK ==
  /\ running <=> main # "idle"
  /\ running => ~timer
  /\ main # "run" => run["main"].pc = "idle"
  /\ \A m \in Msgs : disp[m] # "none" => m <= got

IInv == TypeOK /\ DebounceOK /\ EveryMessageIsRead

\* The bounds are natural numbers.
LEMMA Bounds ==
  MaxMsgs \in Nat /\ MaxAttempts \in Nat /\ MaxDepth \in Nat /\ MaxUpsets \in Nat
  BY TurnsAssumption

USE Bounds

\* What a run may be at its ends.
LEMMA IdleState == Idle \in RunStates
  BY DEF Idle, RunStates

LEMMA StartedState == \A d \in 0..MaxDepth : Started(d) \in RunStates
  BY DEF Started, RunStates

USE DEF conv, debounce, watch

\* The initial state: nobody wrote, nothing runs.
LEMMA InitIInv == Init => IInv
<1> SUFFICES ASSUME Init PROVE IInv
  OBVIOUS
<1> USE DEF Init
<1>1. ConvTypes
  <2>1. got \in 0..MaxMsgs /\ attempts \in 0..MaxAttempts
    OBVIOUS
  <2>2. stuck \in BOOLEAN /\ hasJobId \in BOOLEAN
    OBVIOUS
  <2> QED
    BY <2>1, <2>2 DEF ConvTypes
<1>2. DebounceTypes
  <2>1. disp \in [Msgs -> {"none", "due", "done"}] /\ read \in 0..got
    OBVIOUS
  <2>2. /\ timer \in BOOLEAN /\ running \in BOOLEAN
        /\ followup \in BOOLEAN /\ missed \in BOOLEAN
    OBVIOUS
  <2> QED
    BY <2>1, <2>2 DEF DebounceTypes
<1>3. RunTypes
  BY IdleState DEF RunTypes
<1>4. WatchTypes
  BY DEF WatchTypes, NoCheck, NoJob
<1>5. DebounceOK
  BY DEF DebounceOK, Idle, Runs
<1>6. EveryMessageIsRead
  BY DEF EveryMessageIsRead
<1> QED
  BY <1>1, <1>2, <1>3, <1>4, <1>5, <1>6 DEF IInv, TypeOK

\* Every step keeps the types of the conversation's row.
LEMMA ConvTypesStep == TypeOK /\ [Next]_vars => ConvTypes'
<1> SUFFICES ASSUME TypeOK, [Next]_vars PROVE ConvTypes'
  OBVIOUS
<1> USE DEF TypeOK, ConvTypes
<1>1. CASE Receive
  BY <1>1 DEF Receive, Msgs, Schedulers
<1>2. CASE CancelWrites
  <2>1. attempts' \in 0..MaxAttempts
    BY <1>2 DEF CancelWrites
  <2>2. stuck' \in BOOLEAN /\ hasJobId' \in BOOLEAN
    BY <1>2 DEF CancelWrites
  <2> QED
    BY <1>2, <2>1, <2>2 DEF CancelWrites
<1>3. CASE CheckIsStale
  BY <1>3 DEF CheckIsStale, Complete, NoCheck
<1>4. CASE MarkStuck
  BY <1>4 DEF MarkStuck, Complete, NoCheck
<1>5. CASE CountAttempt
  <2>1. attempts' \in 0..MaxAttempts
    BY <1>5 DEF CountAttempt, WatchTypes
  <2>2. hasJobId' \in BOOLEAN
    BY <1>5 DEF CountAttempt
  <2> QED
    BY <1>5, <2>1, <2>2 DEF CountAttempt
<1>6. CASE CheckRoutes
  BY <1>6 DEF CheckRoutes, Complete, NoCheck, Started, Runs
<1>7. CASE CheckSkips
  BY <1>7 DEF CheckSkips, Complete, NoCheck
<1>8. CASE OperatorReplies
  BY <1>8 DEF OperatorReplies, Upset
<1>9. CASE ToggleAi
  BY <1>9 DEF ToggleAi, Upset
<1>10. ASSUME NEW c \in Schedulers, ScheduleWrites(c) PROVE ConvTypes'
  BY <1>10 DEF ScheduleWrites, NoCheck
<1>11. ASSUME NEW r \in Runs, Reply(r) PROVE ConvTypes'
  BY <1>11 DEF Reply
<1>12. CASE \/ TimerFires \/ MainDecide \/ MainReturns \/ MainEnds
            \/ CancelRemoves \/ CheckTaken \/ CheckEnds \/ CheckReads
            \/ ForgetJob \/ CronScan \/ Restart
            \/ \E m \in Msgs : Dispatch(m)
            \/ \E c \in Schedulers : ScheduleReads(c)
            \/ \E c \in Schedulers : ScheduleAdds(c)
            \/ \E r \in Runs : StartRun(r)
            \/ \E r \in Runs : FinishRun(r)
            \/ \E r \in Runs : ChainRun(r)
            \/ UNCHANGED vars
  BY <1>12 DEF vars, TimerFires, MainDecide, MainReturns, MainEnds,
     CancelRemoves, CheckTaken, CheckEnds, CheckReads, ForgetJob, CronScan,
     Restart, Dispatch, ScheduleReads, ScheduleAdds, StartRun, FinishRun,
     ChainRun, ScheduleRun, Upset
<1> QED
  BY <1>1, <1>2, <1>3, <1>4, <1>5, <1>6, <1>7, <1>8, <1>9, <1>10, <1>11, <1>12
     DEF Next, MainSteps, CancelSteps, CheckSteps, ScheduleSteps, RunEnds

\* It keeps those of the debounce.
LEMMA DebounceTypesStep == TypeOK /\ [Next]_vars => DebounceTypes'
<1> SUFFICES ASSUME TypeOK, [Next]_vars PROVE DebounceTypes'
  OBVIOUS
<1> USE DEF TypeOK, DebounceTypes, ConvTypes
<1>1. CASE Receive
  BY <1>1 DEF Receive, Msgs, Schedulers
<1>2. CASE TimerFires
  BY <1>2 DEF TimerFires
<1>3. CASE MainDecide
  BY <1>3 DEF MainDecide, Started, Runs
<1>4. CASE MainReturns
  BY <1>4 DEF MainReturns
<1>5. CASE MainEnds
  BY <1>5 DEF MainEnds
<1>6. CASE Restart
  BY <1>6 DEF Restart, Upset, Idle, NoCheck, Schedulers
<1>7. ASSUME NEW m \in Msgs, Dispatch(m) PROVE DebounceTypes'
  BY <1>7 DEF Dispatch, ScheduleRun
<1>8. ASSUME NEW r \in Runs, StartRun(r) PROVE DebounceTypes'
  <2>1. read' \in 0..got'
    BY <1>8 DEF StartRun
  <2>2. missed' \in BOOLEAN
    BY <1>8 DEF StartRun
  <2> QED
    BY <1>8, <2>1, <2>2 DEF StartRun
<1>9. CASE \/ CancelRemoves \/ CancelWrites \/ CheckTaken \/ CheckIsStale
           \/ MarkStuck \/ CountAttempt \/ CheckRoutes \/ CheckEnds
           \/ CheckReads \/ CheckSkips \/ ForgetJob \/ CronScan
           \/ OperatorReplies \/ ToggleAi
           \/ \E c \in Schedulers : ScheduleReads(c)
           \/ \E c \in Schedulers : ScheduleAdds(c)
           \/ \E c \in Schedulers : ScheduleWrites(c)
           \/ \E r \in Runs : FinishRun(r)
           \/ \E r \in Runs : Reply(r)
           \/ \E r \in Runs : ChainRun(r)
           \/ UNCHANGED vars
  BY <1>9 DEF vars, CancelRemoves, CancelWrites, CheckTaken, CheckIsStale,
     MarkStuck, CountAttempt, CheckRoutes, CheckEnds, CheckReads, CheckSkips,
     ForgetJob, CronScan, OperatorReplies, ToggleAi, ScheduleReads,
     ScheduleAdds, ScheduleWrites, FinishRun, Reply, ChainRun, Upset
<1> QED
  BY <1>1, <1>2, <1>3, <1>4, <1>5, <1>6, <1>7, <1>8, <1>9 DEF Next, MainSteps,
     CancelSteps, CheckSteps, ScheduleSteps, RunEnds

\* It keeps those of the runs.
LEMMA RunTypesStep == TypeOK /\ [Next]_vars => RunTypes'
<1> SUFFICES ASSUME TypeOK, [Next]_vars PROVE RunTypes'
  OBVIOUS
<1> USE DEF TypeOK, RunTypes
<1>1. CASE MainDecide
  BY <1>1, StartedState DEF MainDecide
<1>2. CASE CheckRoutes
  BY <1>2, StartedState DEF CheckRoutes
<1>3. CASE OperatorReplies
  BY <1>3 DEF OperatorReplies, Upset
<1>4. CASE ToggleAi
  BY <1>4 DEF ToggleAi, Upset
<1>5. CASE Restart
  BY <1>5, IdleState DEF Restart, Upset
<1>6. ASSUME NEW r \in Runs, StartRun(r) PROVE RunTypes'
  <2>1. [run[r] EXCEPT !.pc = "loop"] \in RunStates
    BY DEF RunStates
  <2>2. \/ run' = [run EXCEPT ![r] = [run[r] EXCEPT !.pc = "loop"]]
        \/ run' = [run EXCEPT ![r] = Idle]
    BY <1>6 DEF StartRun
  <2> QED
    BY <1>6, <2>1, <2>2, IdleState DEF StartRun
<1>7. ASSUME NEW r \in Runs, FinishRun(r) PROVE RunTypes'
  BY <1>7, IdleState DEF FinishRun
<1>8. ASSUME NEW r \in Runs, Reply(r) PROVE RunTypes'
  <2>1. [run[r] EXCEPT !.replied = TRUE] \in RunStates
    BY DEF RunStates
  <2> QED
    BY <1>8, <2>1 DEF Reply
<1>9. ASSUME NEW r \in Runs, ChainRun(r) PROVE RunTypes'
  <2>1. run[r].depth + 1 \in 0..MaxDepth
    BY <1>9 DEF ChainRun, RunStates
  <2>2. Started(run[r].depth + 1) \in RunStates
    BY <2>1, StartedState
  <2>3. "chain" \in Runs
    BY DEF Runs
  <2> QED
    BY <1>9, <2>2, <2>3, IdleState DEF ChainRun, Upset
<1>10. CASE \/ Receive \/ TimerFires \/ MainReturns \/ MainEnds
            \/ CancelRemoves \/ CancelWrites \/ CheckTaken \/ CheckIsStale
            \/ MarkStuck \/ CountAttempt \/ CheckEnds \/ CheckReads
            \/ CheckSkips \/ ForgetJob \/ CronScan
            \/ \E m \in Msgs : Dispatch(m)
            \/ \E c \in Schedulers : ScheduleReads(c)
            \/ \E c \in Schedulers : ScheduleAdds(c)
            \/ \E c \in Schedulers : ScheduleWrites(c)
            \/ UNCHANGED vars
  BY <1>10 DEF vars, Receive, TimerFires, MainReturns, MainEnds, CancelRemoves,
     CancelWrites, CheckTaken, CheckIsStale, MarkStuck, CountAttempt,
     CheckEnds, CheckReads, CheckSkips, ForgetJob, CronScan, Dispatch,
     ScheduleReads, ScheduleAdds, ScheduleWrites, ScheduleRun
<1> QED
  BY <1>1, <1>2, <1>3, <1>4, <1>5, <1>6, <1>7, <1>8, <1>9, <1>10 DEF Next,
     MainSteps, CancelSteps, CheckSteps, ScheduleSteps, RunEnds

\* It keeps those of the watchdog.
LEMMA WatchTypesStep == TypeOK /\ [Next]_vars => WatchTypes'
<1> SUFFICES ASSUME TypeOK, [Next]_vars PROVE WatchTypes'
  OBVIOUS
<1> USE DEF TypeOK, WatchTypes, ConvTypes
<1>1. CASE Receive
  BY <1>1 DEF Receive, Msgs, Schedulers
<1>2. CASE MainReturns
  BY <1>2 DEF MainReturns
<1>3. CASE CancelRemoves
  BY <1>3 DEF CancelRemoves, NoJob
<1>4. CASE CancelWrites
  BY <1>4 DEF CancelWrites
<1>5. CASE CheckTaken
  BY <1>5 DEF CheckTaken
<1>6. CASE CheckIsStale
  BY <1>6 DEF CheckIsStale, Complete, NoCheck
<1>7. CASE MarkStuck
  BY <1>7 DEF MarkStuck, Complete, NoCheck
<1>8. CASE CountAttempt
  BY <1>8 DEF CountAttempt
<1>9. CASE CheckRoutes
  BY <1>9 DEF CheckRoutes, Complete, NoCheck, Started, Runs
<1>10. CASE CheckEnds
  BY <1>10 DEF CheckEnds, Complete, NoCheck
<1>11. CASE CheckReads
  BY <1>11 DEF CheckReads
<1>12. CASE CheckSkips
  BY <1>12 DEF CheckSkips, Complete, NoCheck
<1>13. CASE ForgetJob
  BY <1>13 DEF ForgetJob, NoJob
<1>14. CASE CronScan
  BY <1>14 DEF CronScan, Schedulers
<1>15. CASE OperatorReplies
  BY <1>15 DEF OperatorReplies, Upset
<1>16. CASE Restart
  BY <1>16 DEF Restart, Upset, Idle, NoCheck, Schedulers
<1>17. ASSUME NEW c \in Schedulers, ScheduleReads(c) PROVE WatchTypes'
  BY <1>17 DEF ScheduleReads, NoCheck
<1>18. ASSUME NEW c \in Schedulers, ScheduleAdds(c) PROVE WatchTypes'
  BY <1>18 DEF ScheduleAdds
<1>19. ASSUME NEW c \in Schedulers, ScheduleWrites(c) PROVE WatchTypes'
  BY <1>19 DEF ScheduleWrites, NoCheck
<1>20. CASE \/ TimerFires \/ MainDecide \/ MainEnds \/ ToggleAi
            \/ \E m \in Msgs : Dispatch(m)
            \/ \E r \in Runs : StartRun(r)
            \/ \E r \in Runs : FinishRun(r)
            \/ \E r \in Runs : Reply(r)
            \/ \E r \in Runs : ChainRun(r)
            \/ UNCHANGED vars
  BY <1>20 DEF vars, TimerFires, MainDecide, MainEnds, ToggleAi, Dispatch,
     StartRun, FinishRun, Reply, ChainRun, ScheduleRun, Upset
<1> QED
  BY <1>1, <1>2, <1>3, <1>4, <1>5, <1>6, <1>7, <1>8, <1>9, <1>10, <1>11, <1>12,
     <1>13, <1>14, <1>15, <1>16, <1>17, <1>18, <1>19, <1>20 DEF Next,
     MainSteps, CancelSteps, CheckSteps, ScheduleSteps, RunEnds

\* Together.
LEMMA TypeStep == TypeOK /\ [Next]_vars => TypeOK'
  BY ConvTypesStep, DebounceTypesStep, RunTypesStep, WatchTypesStep DEF TypeOK

\* The debounce starts a run only where none is, and a timer only while none is.
LEMMA DebounceStep == TypeOK /\ DebounceOK /\ [Next]_vars => DebounceOK'
<1> SUFFICES ASSUME TypeOK /\ DebounceOK, [Next]_vars PROVE DebounceOK'
  OBVIOUS
<1> USE DEF TypeOK, DebounceTypes, RunTypes, ConvTypes, DebounceOK
<1>1. CASE Receive
  BY <1>1 DEF Receive, Msgs, Schedulers
<1>2. CASE TimerFires
  BY <1>2 DEF TimerFires
<1>3. CASE MainDecide
  BY <1>3 DEF MainDecide, Started, Runs
<1>4. CASE MainReturns
  BY <1>4 DEF MainReturns
<1>5. CASE MainEnds
  BY <1>5 DEF MainEnds
<1>6. CASE CheckRoutes
  BY <1>6 DEF CheckRoutes, Complete, NoCheck, Started, Runs
<1>7. CASE Restart
  BY <1>7 DEF Restart, Upset, Idle, Runs
<1>8. ASSUME NEW m \in Msgs, Dispatch(m) PROVE DebounceOK'
  BY <1>8 DEF Dispatch, ScheduleRun
<1>9. ASSUME NEW r \in Runs, StartRun(r) PROVE DebounceOK'
  BY <1>9 DEF StartRun, Idle, Runs, RunStates
<1>10. ASSUME NEW r \in Runs, FinishRun(r) PROVE DebounceOK'
  BY <1>10 DEF FinishRun, Idle, Runs
<1>11. ASSUME NEW r \in Runs, Reply(r) PROVE DebounceOK'
  BY <1>11 DEF Reply, Runs
<1>12. ASSUME NEW r \in Runs, ChainRun(r) PROVE DebounceOK'
  BY <1>12 DEF ChainRun, Idle, Started, Upset, Runs
<1>13. CASE \/ CancelRemoves \/ CancelWrites \/ CheckTaken \/ CheckIsStale
            \/ MarkStuck \/ CountAttempt \/ CheckEnds \/ CheckReads
            \/ CheckSkips \/ ForgetJob \/ CronScan \/ OperatorReplies
            \/ ToggleAi
            \/ \E c \in Schedulers : ScheduleReads(c)
            \/ \E c \in Schedulers : ScheduleAdds(c)
            \/ \E c \in Schedulers : ScheduleWrites(c)
            \/ UNCHANGED vars
  BY <1>13 DEF vars, CancelRemoves, CancelWrites, CheckTaken, CheckIsStale,
     MarkStuck, CountAttempt, CheckEnds, CheckReads, CheckSkips, ForgetJob,
     CronScan, OperatorReplies, ToggleAi, ScheduleReads, ScheduleAdds,
     ScheduleWrites, Upset
<1> QED
  BY <1>1, <1>2, <1>3, <1>4, <1>5, <1>6, <1>7, <1>8, <1>9, <1>10, <1>11, <1>12,
     <1>13 DEF Next, MainSteps, CancelSteps, CheckSteps, ScheduleSteps, RunEnds

\* A message that was dispatched is read, or will be.
LEMMA ReadStep == IInv /\ [Next]_vars => EveryMessageIsRead'
<1> SUFFICES ASSUME IInv, [Next]_vars PROVE EveryMessageIsRead'
  OBVIOUS
<1> USE DEF IInv, TypeOK, DebounceTypes, RunTypes, ConvTypes, DebounceOK,
            EveryMessageIsRead
<1>1. CASE Receive
  BY <1>1 DEF Receive, Msgs, Schedulers
<1>2. CASE TimerFires
  BY <1>2 DEF TimerFires
<1>3. CASE MainDecide
  BY <1>3 DEF MainDecide, Started, Runs
<1>4. CASE MainReturns
  BY <1>4 DEF MainReturns
<1>5. CASE MainEnds
  BY <1>5 DEF MainEnds
<1>6. CASE CheckRoutes
  BY <1>6 DEF CheckRoutes, Complete, NoCheck, Started, Runs
<1>7. CASE Restart
  BY <1>7 DEF Restart, Upset, Idle, Runs
<1>8. ASSUME NEW m \in Msgs, Dispatch(m) PROVE EveryMessageIsRead'
  BY <1>8 DEF Dispatch, ScheduleRun
<1>9. ASSUME NEW r \in Runs, StartRun(r) PROVE EveryMessageIsRead'
  BY <1>9 DEF StartRun, Idle, Runs, RunStates
<1>10. ASSUME NEW r \in Runs, FinishRun(r) PROVE EveryMessageIsRead'
  BY <1>10 DEF FinishRun, Idle, Runs
<1>11. ASSUME NEW r \in Runs, Reply(r) PROVE EveryMessageIsRead'
  BY <1>11 DEF Reply, Runs
<1>12. ASSUME NEW r \in Runs, ChainRun(r) PROVE EveryMessageIsRead'
  BY <1>12 DEF ChainRun, Idle, Started, Upset, Runs
<1>13. CASE \/ CancelRemoves \/ CancelWrites \/ CheckTaken \/ CheckIsStale
            \/ MarkStuck \/ CountAttempt \/ CheckEnds \/ CheckReads
            \/ CheckSkips \/ ForgetJob \/ CronScan \/ OperatorReplies
            \/ ToggleAi
            \/ \E c \in Schedulers : ScheduleReads(c)
            \/ \E c \in Schedulers : ScheduleAdds(c)
            \/ \E c \in Schedulers : ScheduleWrites(c)
            \/ UNCHANGED vars
  BY <1>13 DEF vars, CancelRemoves, CancelWrites, CheckTaken, CheckIsStale,
     MarkStuck, CountAttempt, CheckEnds, CheckReads, CheckSkips, ForgetJob,
     CronScan, OperatorReplies, ToggleAi, ScheduleReads, ScheduleAdds,
     ScheduleWrites, Upset
<1> QED
  BY <1>1, <1>2, <1>3, <1>4, <1>5, <1>6, <1>7, <1>8, <1>9, <1>10, <1>11, <1>12,
     <1>13 DEF Next, MainSteps, CancelSteps, CheckSteps, ScheduleSteps, RunEnds

\* The conversation's row, the debounce, the runs in flight and the watchdog keep
\* their types; the attempts never pass the limit of the watchdog's
\* configuration, and no chain of delegations the maximal depth.
THEOREM TypeCorrect == Spec => []TypeOK
<1>1. Init => TypeOK
  BY InitIInv DEF IInv
<1>2. TypeOK /\ [Next]_vars => TypeOK'
  BY TypeStep
<1> QED
  BY <1>1, <1>2, PTL DEF Spec

\* For any number of messages, however the timer, the runs, delegations, the
\* watchdog and restarts interleave: without a refusal or a restart no message
\* that reached the debounce is left unread.
THEOREM EveryMessageIsReadCorrect == Spec => []EveryMessageIsRead
<1>1. Init => IInv
  BY InitIInv
<1>2. IInv /\ [Next]_vars => IInv'
  BY TypeStep, DebounceStep, ReadStep DEF IInv
<1>3. IInv => EveryMessageIsRead
  BY DEF IInv
<1> QED
  BY <1>1, <1>2, <1>3, PTL DEF Spec
=============================================================================
