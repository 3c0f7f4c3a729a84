--------------------------- MODULE Engine_proofs ---------------------------
(***************************************************************************)
(* Proofs about the scheduler, for any number of cases, workflows and polls *)
(* and both execution modes, and about the approval workflow that it drives *)
(* over the two stores, for any number of cases and faults.                 *)
(***************************************************************************)
EXTENDS ApprovalEngine, TLAPS

LEMMA InitType == Init => TypeOK
<1> SUFFICES ASSUME Init PROVE TypeOK
  OBVIOUS
<1>1. ctxs \in [Cases -> {"none", "probe", "exec"}] /\ runs \in [Cases -> SUBSET {"probe", "exec"}]
  BY DEF Init, NoCtx
<1>2. aborts \in 0..MaxAborts
  BY SchedulerAssumption DEF Init
<1>3. /\ exec \in [Cases -> LC!ExecutionStates \cup {"Absent"}]
      /\ paused \in SUBSET Cases /\ mode \in Modes /\ shutdown \in BOOLEAN
      /\ any_executed \in BOOLEAN /\ result \in Results
  BY DEF Init, Results
<1>4. /\ phase \in {"idle", "probe", "poll", "execute"}
      /\ woken \in SUBSET Cases /\ waiting_keys \in SUBSET Cases
      /\ probe_results \in SUBSET (Cases \X Polls) /\ ready_keys \in SUBSET Cases
  BY DEF Init
<1> QED BY <1>1, <1>2, <1>3, <1>4 DEF TypeOK

LEMMA NextType == TypeOK /\ [Next]_vars => TypeOK'
<1> SUFFICES ASSUME TypeOK, [Next]_vars PROVE TypeOK'
  OBVIOUS
<1> USE SchedulerAssumption DEF TypeOK, caller, NoCtx, Results, LC!ExecutionStates
<1>1. ASSUME NEW c \in Cases, AddCase(c) \/ WakeCase(c) PROVE TypeOK'
  BY <1>1 DEF AddCase, WakeCase
<1>2. ASSUME NEW c \in Cases, SetLifecycle(c) PROVE TypeOK'
  BY <1>2 DEF SetLifecycle
<1>3. CASE RequestShutdown
  BY <1>3 DEF RequestShutdown
<1>4. CASE TickRefused
  BY <1>4 DEF TickRefused
<1>5. CASE TickEmpty
  BY <1>5 DEF TickEmpty
<1>6. CASE TickStart
  BY <1>6 DEF TickStart, Partition
<1>7. ASSUME NEW c \in Cases, ProbeStart(c) PROVE TypeOK'
  BY <1>7 DEF ProbeStart
<1>8. ASSUME NEW c \in Cases, ProbeSkip(c) PROVE TypeOK'
  BY <1>8 DEF ProbeSkip
<1>9. ASSUME NEW c \in Cases, ProbeWaiting(c) PROVE TypeOK'
  BY <1>9 DEF ProbeWaiting, ProbeReturns
<1>10. ASSUME NEW c \in Cases, ProbeContinue(c) PROVE TypeOK'
  BY <1>10 DEF ProbeContinue, ProbeReturns
<1>11. ASSUME NEW c \in Cases, ProbeFinished(c) PROVE TypeOK'
  BY <1>11 DEF ProbeFinished, ProbeReturns
<1>12. ASSUME NEW c \in Cases, ProbeErr(c) PROVE TypeOK'
  BY <1>12 DEF ProbeErr, ProbeReturns
<1>13. CASE ProbesDone
  BY <1>13 DEF ProbesDone
<1>14. ASSUME NEW c \in Cases, NEW p \in Polls,
             PollMatched(c, p) \/ PollUnmatched(c, p)
      PROVE  TypeOK'
  BY <1>14 DEF PollMatched, PollUnmatched, EvaluatePoll
<1>15. CASE PollsDone
  BY <1>15 DEF PollsDone, Execute
<1>16. ASSUME NEW c \in Cases, ExecStart(c) PROVE TypeOK'
  BY <1>16 DEF ExecStart
<1>17. ASSUME NEW c \in Cases, ExecSkip(c) PROVE TypeOK'
  BY <1>17 DEF ExecSkip
<1>18. ASSUME NEW c \in Cases, ExecContinue(c) PROVE TypeOK'
  BY <1>18 DEF ExecContinue, ExecReturns
<1>19. ASSUME NEW c \in Cases, ExecWaiting(c) PROVE TypeOK'
  BY <1>19 DEF ExecWaiting, ExecReturns
<1>20. ASSUME NEW c \in Cases, ExecFinished(c) PROVE TypeOK'
  BY <1>20 DEF ExecFinished, ExecReturns
<1>21. ASSUME NEW c \in Cases, ExecErr(c) PROVE TypeOK'
  BY <1>21 DEF ExecErr, ExecReturns
<1>22. CASE TickEnd
  BY <1>22 DEF TickEnd
<1>23. CASE TickAborted
  <2>1. aborts' \in 0..MaxAborts
    BY <1>23 DEF TickAborted
  <2> QED BY <1>23, <2>1 DEF TickAborted
<1>24. CASE UNCHANGED vars
  BY <1>24 DEF vars
<1> HIDE SchedulerAssumption DEF TypeOK, caller, NoCtx, Results, LC!ExecutionStates
<1> QED
  BY <1>1, <1>2, <1>3, <1>4, <1>5, <1>6, <1>7, <1>8, <1>9, <1>10, <1>11, <1>12,
     <1>13, <1>14, <1>15, <1>16, <1>17, <1>18, <1>19, <1>20, <1>21, <1>22, <1>23,
     <1>24
     DEF Next, TickStep, CallerStep, Probe, Exec

(* Every reachable state is well typed, whatever the cases and the polls.    *)
THEOREM TypeCorrect == Spec => []TypeOK
BY InitType, NextType, PTL DEF Spec

-----------------------------------------------------------------------------
LEMMA InitTick == Init => TickInv
BY DEF Init, TickInv, RunsMatchDict, NoLostWake, PhaseInv, NoCtx, NoCtxOpen

LEMMA NextTick == TypeOK /\ TickInv /\ [Next]_vars => TickInv'
<1> SUFFICES ASSUME TypeOK, TickInv, [Next]_vars PROVE TickInv'
  OBVIOUS
<1> USE SchedulerAssumption
    DEF TypeOK, TickInv, RunsMatchDict, NoLostWake, PhaseInv, NoCtx, NoCtxOpen,
        Active, caller
<1>1. ASSUME NEW c \in Cases, AddCase(c) \/ WakeCase(c) PROVE TickInv'
  BY <1>1 DEF AddCase, WakeCase
<1>2. ASSUME NEW c \in Cases, SetLifecycle(c) PROVE TickInv'
  BY <1>2 DEF SetLifecycle
<1>3. CASE RequestShutdown
  BY <1>3 DEF RequestShutdown
<1>4. CASE TickRefused
  BY <1>4 DEF TickRefused
<1>5. CASE TickEmpty
  BY <1>5 DEF TickEmpty
<1>6. CASE TickStart
  BY <1>6 DEF TickStart, Partition
<1>7. ASSUME NEW c \in Cases, ProbeStart(c) PROVE TickInv'
  BY <1>7 DEF ProbeStart
<1>8. ASSUME NEW c \in Cases, ProbeSkip(c) PROVE TickInv'
  BY <1>8 DEF ProbeSkip
<1>9. ASSUME NEW c \in Cases, ProbeWaiting(c) PROVE TickInv'
  BY <1>9 DEF ProbeWaiting, ProbeReturns
<1>10. ASSUME NEW c \in Cases, ProbeContinue(c) PROVE TickInv'
  BY <1>10 DEF ProbeContinue, ProbeReturns
<1>11. ASSUME NEW c \in Cases, ProbeFinished(c) PROVE TickInv'
  BY <1>11 DEF ProbeFinished, ProbeReturns
<1>12. ASSUME NEW c \in Cases, ProbeErr(c) PROVE TickInv'
  BY <1>12 DEF ProbeErr, ProbeReturns
<1>13. CASE ProbesDone
  BY <1>13 DEF ProbesDone
<1>14. ASSUME NEW c \in Cases, NEW p \in Polls,
             PollMatched(c, p) \/ PollUnmatched(c, p)
      PROVE  TickInv'
  BY <1>14 DEF PollMatched, PollUnmatched, EvaluatePoll
<1>15. CASE PollsDone
  BY <1>15 DEF PollsDone, Execute
<1>16. ASSUME NEW c \in Cases, ExecStart(c) PROVE TickInv'
  BY <1>16 DEF ExecStart
<1>17. ASSUME NEW c \in Cases, ExecSkip(c) PROVE TickInv'
  BY <1>17 DEF ExecSkip
<1>18. ASSUME NEW c \in Cases, ExecContinue(c) PROVE TickInv'
  BY <1>18 DEF ExecContinue, ExecReturns
<1>19. ASSUME NEW c \in Cases, ExecWaiting(c) PROVE TickInv'
  BY <1>19 DEF ExecWaiting, ExecReturns
<1>20. ASSUME NEW c \in Cases, ExecFinished(c) PROVE TickInv'
  BY <1>20 DEF ExecFinished, ExecReturns
<1>21. ASSUME NEW c \in Cases, ExecErr(c) PROVE TickInv'
  BY <1>21 DEF ExecErr, ExecReturns
<1>22. CASE TickEnd
  BY <1>22 DEF TickEnd
<1>23. CASE TickAborted
  BY <1>23 DEF TickAborted
<1>24. CASE UNCHANGED vars
  BY <1>24 DEF vars
<1> HIDE SchedulerAssumption
    DEF TypeOK, TickInv, RunsMatchDict, NoLostWake, PhaseInv, NoCtx, NoCtxOpen,
        Active, caller
<1> QED
  BY <1>1, <1>2, <1>3, <1>4, <1>5, <1>6, <1>7, <1>8, <1>9, <1>10, <1>11, <1>12,
     <1>13, <1>14, <1>15, <1>16, <1>17, <1>18, <1>19, <1>20, <1>21, <1>22, <1>23,
     <1>24
     DEF Next, TickStep, CallerStep, Probe, Exec

(* For any set of cases and polls: what a tick has queued or is running is   *)
(* still Running (probed: Waiting), active and unfinished in the dict.       *)
THEOREM RunsMatchDictAlways == Spec => []RunsMatchDict
<1>1. TickInv => RunsMatchDict
  BY DEF TickInv
<1> QED BY InitTick, NextTick, TypeCorrect, <1>1, PTL DEF Spec

(* For any set of cases and polls: a completed tick has run every registered *)
(* case it woke.                                                             *)
THEOREM NoLostWakeAlways == Spec => []NoLostWake
<1>1. TickInv => NoLostWake
  BY DEF TickInv
<1> QED BY InitTick, NextTick, TypeCorrect, <1>1, PTL DEF Spec

-----------------------------------------------------------------------------
(* The refinement: a step that changes the dict moves one case along an edge *)
(* of CaseLifecycle.                                                         *)

LEMMA NextRefines ==
  ASSUME TypeOK, TickInv, [Next]_vars
  PROVE  [LC!Next]_(LC!vars)
<1> DEFINE Goal == [LC!Next]_(LC!vars)
<1>1. ASSUME NEW c \in Cases, c \notin paused, paused' = paused,
             \/ exec[c] = "Waiting" /\ exec' = [exec EXCEPT ![c] = "Running"]
             \/ exec[c] = "Running" /\ exec' = [exec EXCEPT ![c] = "Waiting"]
             \/ exec[c] \in {"Running", "Waiting"} /\ exec' = [exec EXCEPT ![c] = "Finished"]
      PROVE  Goal
  BY <1>1 DEF LC!Next, LC!Move, LC!McRun, LC!McWait, LC!McFinish
<1>2. ASSUME exec' = exec, paused' = paused PROVE Goal
  BY <1>2 DEF LC!vars
<1>3. ASSUME NEW c \in Cases, AddCase(c) PROVE Goal
  BY <1>3 DEF AddCase, caller, LC!Next, LC!Create
<1>10. ASSUME NEW c \in Cases, WakeCase(c) PROVE Goal
  BY <1>1, <1>10 DEF WakeCase, caller
<1>4. ASSUME NEW c \in Cases, SetLifecycle(c) PROVE Goal
  BY <1>4 DEF SetLifecycle, TypeOK, LC!Next, LC!SetLifecycle
<1>5. ASSUME NEW c \in Cases, Probe(c) PROVE Goal
  <2>1. ctxs[c] = "probe" => c \notin paused /\ exec[c] = "Waiting"
    BY DEF TickInv, RunsMatchDict, Active
  <2>2. CASE ProbeContinue(c)
    BY <1>1, <2>1, <2>2 DEF ProbeContinue, ProbeReturns, caller
  <2>3. CASE ProbeFinished(c)
    BY <1>1, <2>1, <2>3 DEF ProbeFinished, ProbeReturns, caller
  <2>4. CASE ProbeStart(c) \/ ProbeSkip(c) \/ ProbeWaiting(c) \/ ProbeErr(c)
    BY <1>2, <2>4 DEF ProbeStart, ProbeSkip, ProbeWaiting, ProbeErr, ProbeReturns, caller
  <2> QED BY <1>5, <2>2, <2>3, <2>4 DEF Probe
<1>6. ASSUME NEW c \in Cases, NEW p \in Polls,
             PollMatched(c, p) \/ PollUnmatched(c, p)
      PROVE  Goal
  <2>1. c \notin paused /\ exec[c] \in {"Waiting", "Running"} /\ paused' = paused
    BY <1>6 DEF PollMatched, PollUnmatched, EvaluatePoll, TickInv, PhaseInv, Active, caller
  <2>2. CASE exec' = exec
    BY <1>2, <2>1, <2>2
  <2>3. CASE exec[c] = "Running" /\ exec' = [exec EXCEPT ![c] = "Running"]
    BY <1>2, <2>1, <2>3 DEF TypeOK
  <2>4. CASE exec[c] = "Waiting" /\ exec' = [exec EXCEPT ![c] = "Running"]
    BY <1>1, <2>1, <2>4
  <2> QED BY <1>6, <2>1, <2>2, <2>3, <2>4 DEF PollMatched, PollUnmatched
<1>7. ASSUME NEW c \in Cases, Exec(c) PROVE Goal
  <2>1. ctxs[c] = "exec" => c \notin paused /\ exec[c] = "Running"
    BY DEF TickInv, RunsMatchDict, Active
  <2>2. CASE ExecWaiting(c)
    BY <1>1, <2>1, <2>2 DEF ExecWaiting, ExecReturns, caller
  <2>3. CASE ExecFinished(c)
    BY <1>1, <2>1, <2>3 DEF ExecFinished, ExecReturns, caller
  <2>4. CASE ExecStart(c) \/ ExecSkip(c) \/ ExecContinue(c) \/ ExecErr(c)
    BY <1>2, <2>4 DEF ExecStart, ExecSkip, ExecContinue, ExecErr, ExecReturns, caller
  <2> QED BY <1>7, <2>2, <2>3, <2>4 DEF Exec
<1>8. ASSUME \/ TickRefused \/ TickEmpty \/ TickStart \/ ProbesDone \/ PollsDone
             \/ TickEnd \/ RequestShutdown \/ TickAborted \/ UNCHANGED vars
      PROVE  Goal
  BY <1>2, <1>8
     DEF TickRefused, TickEmpty, TickStart, Partition, ProbesDone, PollsDone, Execute,
         TickEnd, RequestShutdown, TickAborted, vars, caller
<1> HIDE DEF Goal
<1>9. Goal
  BY <1>3, <1>4, <1>5, <1>6, <1>7, <1>8, <1>10 DEF Next, TickStep, CallerStep
<1> QED BY <1>9 DEF Goal

(* The scheduler implements CaseLifecycle for any set of cases: Finished is  *)
(* final and a paused case does not move.                                    *)
THEOREM SchedulerRefinesCaseLifecycle == Spec => ImplementsCaseLifecycle
<1>1. Init => LC!Init
  BY DEF Init, LC!Init
<1>2. TypeOK /\ TickInv /\ [Next]_vars => [LC!Next]_(LC!vars)
  BY NextRefines
<1> QED
  BY <1>1, <1>2, InitTick, NextTick, TypeCorrect, PTL
     DEF Spec, ImplementsCaseLifecycle, LC!Spec

-----------------------------------------------------------------------------
(* The approval workflow.  All steps but a crash are steps of the scheduler  *)
(* or leave it alone; a crash leaves it between two ticks.                   *)

Survives == Demo \/ (\E c \in Cases : Inject(c)) \/ Abandon

LEMMA SurvivesIsNext == ASSUME Survives PROVE [Next]_vars
<1> USE ApprovalAssumption DEF Next, TickStep, CallerStep, Probe, Exec
<1>1. ASSUME NEW c \in Cases, RunStep(c) PROVE UNCHANGED vars
  BY <1>1 DEF RunStep, RestoreStep, SaveStep, Decide, FinishUpsert, FinishCleanup
<1>2. ASSUME NEW c \in Cases, Start(c) PROVE Next
  BY <1>2 DEF Start
<1>3. ASSUME NEW c \in Cases, Return(c) PROVE Next
  BY <1>3 DEF Return
<1>4. ASSUME NEW c \in Cases, Poll(c) PROVE Next
  <2>1. Review \in Polls
    OBVIOUS
  <2> QED BY <1>4, <2>1 DEF Poll
<1>5. CASE Sweep
  BY <1>5 DEF Sweep
<1>6. ASSUME NEW c \in Cases, Publish(c) \/ Inject(c) PROVE [Next]_vars
  BY <1>6 DEF Publish, Inject
<1>7. CASE Abandon
  BY <1>7 DEF Abandon
<1> HIDE DEF Next
<1> QED BY <1>1, <1>2, <1>3, <1>4, <1>5, <1>6, <1>7 DEF Survives, Demo, EngineStep

LEMMA EInitType == EInit => ETypeOK
<1> SUFFICES ASSUME EInit PROVE ETypeOK
  OBVIOUS
<1>1. TypeOK
  BY InitType DEF EInit
<1> QED BY <1>1, ApprovalAssumption DEF EInit, ETypeOK

LEMMA CrashType == ASSUME ETypeOK, Crash PROVE TypeOK'
BY DEF Crash, Fault, ETypeOK, TypeOK, NoCtx, Results, LC!ExecutionStates

LEMMA ENextType == ETypeOK /\ [ENext]_engine => ETypeOK'
<1> SUFFICES ASSUME ETypeOK, [ENext]_engine PROVE ETypeOK'
  OBVIOUS
<1>1. TypeOK'
  <2>1. CASE Survives
    BY <2>1, SurvivesIsNext, NextType DEF ETypeOK
  <2>2. CASE Crash
    BY <2>2, CrashType
  <2>3. CASE UNCHANGED engine
    BY <2>3, NextType DEF ETypeOK, engine
  <2> QED BY <2>1, <2>2, <2>3 DEF ENext, Survives
<1> DEFINE Rest ==
      /\ pc \in [Cases -> {"none", "step", "save", "decide", "finish", "cleanup",
                           "waiting", "finished", "err"}]
      /\ submitted \in SUBSET Cases /\ stored \in SUBSET Cases
      /\ published \in SUBSET Cases /\ decided \in SUBSET Cases
      /\ effects \in [Cases -> Nat]
      /\ faults \in 0..MaxFaults
<1>2. Rest
  BY DEF ETypeOK
<1> USE ApprovalAssumption, <1>2 DEF Fault, Goto, stores, review
<1>3. ASSUME NEW c \in Cases, RestoreStep(c) PROVE Rest'
  BY <1>3 DEF RestoreStep
<1>4. ASSUME NEW c \in Cases, SaveStep(c) PROVE Rest'
  BY <1>4 DEF SaveStep
<1>5. ASSUME NEW c \in Cases, Decide(c) PROVE Rest'
  BY <1>5 DEF Decide
<1>6. ASSUME NEW c \in Cases, FinishUpsert(c) PROVE Rest'
  BY <1>6 DEF FinishUpsert
<1>7. ASSUME NEW c \in Cases, FinishCleanup(c) PROVE Rest'
  BY <1>7 DEF FinishCleanup
<1>8. ASSUME NEW c \in Cases, Start(c) \/ Return(c) \/ Poll(c) PROVE Rest'
  BY <1>8 DEF Start, Return, Poll
<1>9. ASSUME NEW c \in Cases, Publish(c) \/ Inject(c) PROVE Rest'
  BY <1>9 DEF Publish, Inject
<1>10. ASSUME Sweep \/ Abandon PROVE Rest'
  BY <1>10 DEF Sweep, Abandon
<1>11. ASSUME Crash PROVE Rest'
  BY <1>11 DEF Crash
<1>12. ASSUME UNCHANGED engine PROVE Rest'
  BY <1>12 DEF engine
<1> HIDE DEF Rest
<1>13. Rest'
  BY <1>3, <1>4, <1>5, <1>6, <1>7, <1>8, <1>9, <1>10, <1>11, <1>12
     DEF ENext, Demo, EngineStep, RunStep
<1> QED BY <1>1, <1>13 DEF ETypeOK, Rest

(* Every reachable state of the composed system is well typed.               *)
THEOREM EngineTypeCorrect == ESpec => []ETypeOK
BY EInitType, ENextType, PTL DEF ESpec

LEMMA EInitTick == EInit => TickInv
BY InitTick DEF EInit

LEMMA ENextTick == ETypeOK /\ TickInv /\ [ENext]_engine => TickInv'
<1> SUFFICES ASSUME ETypeOK, TickInv, [ENext]_engine PROVE TickInv'
  OBVIOUS
<1>1. TypeOK
  BY DEF ETypeOK
<1>2. CASE Survives
  BY <1>1, <1>2, SurvivesIsNext, NextTick
<1>3. CASE Crash
  BY <1>3 DEF Crash, TickInv, RunsMatchDict, NoLostWake, PhaseInv, NoCtx, NoCtxOpen
<1>4. CASE UNCHANGED engine
  BY <1>1, <1>4, NextTick DEF engine
<1> QED BY <1>2, <1>3, <1>4 DEF ENext, Survives

-----------------------------------------------------------------------------
LEMMA EInitApproval == EInit => ApprovalInv
BY SchedulerAssumption, ApprovalAssumption
   DEF EInit, Init, NoCtx, ApprovalInv, OpenInv, StoresInv, EffectsInv, SubmittedOncePerFault,
       WaitsWithCheckpoint, FinishedIsStored

LEMMA ENextApproval ==
  ASSUME ETypeOK, TickInv, ApprovalInv, [ENext]_engine
  PROVE  ApprovalInv'
<1> USE ApprovalAssumption
    DEF ETypeOK, TypeOK, ApprovalInv, OpenInv, StoresInv, EffectsInv, SubmittedOncePerFault,
        WaitsWithCheckpoint, FinishedIsStored, Fault, Goto, stores, review
<1>1. ASSUME NEW c \in Cases, RestoreStep(c) PROVE ApprovalInv'
  <2>1. exec[c] # "Finished" /\ ctxs[c] # "none"
    BY <1>1 DEF RestoreStep, TickInv, RunsMatchDict
  <2> QED BY <1>1, <2>1 DEF RestoreStep, vars
<1>2. ASSUME NEW c \in Cases, SaveStep(c) PROVE ApprovalInv'
  BY <1>2 DEF SaveStep, vars
<1>3. ASSUME NEW c \in Cases, Decide(c) PROVE ApprovalInv'
  BY <1>3 DEF Decide, vars
<1>4. ASSUME NEW c \in Cases, FinishUpsert(c) PROVE ApprovalInv'
  BY <1>4 DEF FinishUpsert, vars
<1>5. ASSUME NEW c \in Cases, FinishCleanup(c) PROVE ApprovalInv'
  BY <1>5 DEF FinishCleanup, vars
<1>6. ASSUME NEW c \in Cases, Start(c) PROVE ApprovalInv'
  <2>1. ctxs[c] = "none" /\ exec[c] # "Finished"
    BY <1>6
       DEF Start, ProbeStart, ExecStart, TickInv, PhaseInv, RunsMatchDict, Active, NoCtxOpen, NoCtx
  <2> QED BY <1>6, <2>1 DEF Start, ProbeStart, ExecStart, caller
<1>7. ASSUME NEW c \in Cases, Return(c) PROVE ApprovalInv'
  BY <1>7
     DEF Return, ExecWaiting, ProbeWaiting, ExecFinished, ProbeFinished, ExecErr, ProbeErr,
         ExecReturns, ProbeReturns, caller
<1>8. ASSUME NEW c \in Cases, Poll(c) PROVE ApprovalInv'
  BY <1>8 DEF Poll, PollMatched, PollUnmatched, EvaluatePoll, TickInv, PhaseInv, Active, caller
<1>9. ASSUME Sweep PROVE ApprovalInv'
  BY <1>9 DEF Sweep, TickStart, Partition, PollsDone, Execute, TickEnd, ProbesDone, caller
<1>10. ASSUME NEW c \in Cases, Publish(c) \/ Inject(c) PROVE ApprovalInv'
  BY <1>10 DEF Publish, Inject, WakeCase, vars, caller
<1>11. ASSUME Abandon PROVE ApprovalInv'
  BY <1>11 DEF Abandon, TickAborted, NoCtx
<1>12. ASSUME Crash PROVE ApprovalInv'
  BY <1>12 DEF Crash, NoCtx
<1>13. ASSUME UNCHANGED engine PROVE ApprovalInv'
  BY <1>13 DEF engine, vars
<1> HIDE DEF ApprovalInv
<1> QED
  BY <1>1, <1>2, <1>3, <1>4, <1>5, <1>6, <1>7, <1>8, <1>9, <1>10, <1>11, <1>12, <1>13
     DEF ENext, Demo, EngineStep, RunStep

LEMMA ApprovalSafe == ESpec => []ApprovalInv
<1>1. ETypeOK /\ TickInv /\ ApprovalInv /\ [ENext]_engine => ApprovalInv'
  BY ENextApproval
<1> QED BY <1>1, EInitTick, ENextTick, EInitApproval, EngineTypeCorrect, PTL DEF ESpec

(* For any number of cases and faults: the submission takes effect again     *)
(* only for a fault or an abandoned tick.                                    *)
THEOREM SubmittedOncePerFaultAlways == ESpec => []SubmittedOncePerFault
<1>1. ApprovalInv => SubmittedOncePerFault
  BY DEF ApprovalInv
<1> QED BY <1>1, ApprovalSafe, PTL

(* For any number of cases and faults: a case that waits has its checkpoint, *)
(* unless the store holds it as Finished.                                    *)
THEOREM WaitsWithCheckpointAlways == ESpec => []WaitsWithCheckpoint
<1>1. ApprovalInv => WaitsWithCheckpoint
  BY DEF ApprovalInv
<1> QED BY <1>1, ApprovalSafe, PTL

(* For any number of cases and faults: Finished in the dict is Finished in   *)
(* the store, and without an abandoned tick the store's Finished cases do    *)
(* not submit again.                                                         *)
THEOREM FinishedIsStoredAlways == ESpec => []FinishedIsStored
<1>1. ApprovalInv => FinishedIsStored
  BY DEF ApprovalInv
<1> QED BY <1>1, ApprovalSafe, PTL

LEMMA NextFinal ==
  ASSUME TypeOK, TickInv, [Next]_vars, NEW c \in Cases, exec[c] = "Finished"
  PROVE  exec'[c] = "Finished"
<1>1. [LC!Next]_(LC!vars)
  BY NextRefines
<1> QED BY <1>1 DEF LC!Next, LC!Create, LC!Move, LC!McRun, LC!McWait, LC!McFinish,
                    LC!SetLifecycle, LC!vars, TypeOK

(* A case that is Finished in the dict stays so for any number of cases,     *)
(* abandoned ticks and crashes: the rebuilt dict takes it from the store.    *)
THEOREM FinishedIsFinal ==
  ESpec => [][\A c \in Cases : exec[c] = "Finished" => exec'[c] = "Finished"]_engine
<1> DEFINE Final == \A c \in Cases : exec[c] = "Finished" => exec'[c] = "Finished"
<1>1. ASSUME ETypeOK, TickInv, ApprovalInv, ENext PROVE Final
  <2>1. CASE Survives
    BY <1>1, <2>1, SurvivesIsNext, NextFinal DEF ETypeOK
  <2>2. CASE Crash
    BY <1>1, <2>2 DEF Crash, ApprovalInv, FinishedIsStored
  <2> QED BY <1>1, <2>1, <2>2 DEF ENext, Survives
<1>2. ETypeOK /\ TickInv /\ ApprovalInv /\ [ENext]_engine => [Final]_engine
  BY <1>1
<1> QED BY <1>2, EngineTypeCorrect, EInitTick, ENextTick, ApprovalSafe, PTL DEF ESpec
=============================================================================
