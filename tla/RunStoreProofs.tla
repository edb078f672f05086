--------------------------- MODULE RunStoreProofs ---------------------------
(***************************************************************************)
(* Type correctness of RunStore: every transaction leaves every table of   *)
(* its type, for all values of the constants.  One lemma per operator the  *)
(* transactions are built from, then one step per transaction.             *)
(***************************************************************************)
EXTENDS RunStore, TLAPS

----------------------------------------------------------------------------
\* Types of the operators the transactions are built from.

\* A Run row that is moved on is a Run row.
LEMMA AdvanceType ==
  ASSUME NEW r \in RunRow, NEW s \in RunStatus
  PROVE  Advance(r, s) \in RunRow
  <1>1. r.version + 1 \in Nat /\ r.next_seq + 1 \in Nat \ {0}
    BY DEF RunRow
  <1> QED BY <1>1 DEF Advance, RunRow

\* A closed Run row is a Run row.
LEMMA FinishType ==
  ASSUME NEW r \in RunRow, NEW s \in RunTerminal
  PROVE  Finish(r, s) \in RunRow
  <1>1. Advance(r, s) \in RunRow
    BY AdvanceType DEF RunStatus
  <1>2. r.next_seq \in Nat
    BY DEF RunRow
  <1> QED BY <1>1, <1>2 DEF Finish, RunRow

\* A Run row that gains a Checkpoint is a Run row.
LEMMA CheckpointedType ==
  ASSUME NEW r \in RunRow
  PROVE  Checkpointed(r) \in RunRow
  <1>1. r.checkpoint + 1 \in Nat \ {0}
    BY DEF RunRow
  <1> QED BY <1>1 DEF Checkpointed, RunRow

\* A Task row that loses its lease is a Task row.
LEMMA UnleaseType ==
  ASSUME NEW row \in TaskRow, NEW s \in TaskStatus
  PROVE  Unlease(row, s) \in TaskRow
  BY DEF Unlease, TaskRow, OptTime, Never

\* An inserted Task row is a Task row.
LEMMA NewTaskType ==
  ASSUME NEW s \in TaskStatus \cup {"absent"}, NEW g \in Nat, NEW a \in Nat
  PROVE  NewTask(s, g, a) \in TaskRow
  BY DEF NewTask, TaskRow, OptTime, Never

\* resolve_dependent_tasks leaves a Task table.
LEMMA ResolveType ==
  ASSUME NEW tk \in [Tasks -> TaskRow], NEW starts, NEW dbnow \in Nat
  PROVE  ResolveDependents(tk, starts, dbnow) \in [Tasks -> TaskRow]
  BY ZenonT(60) DEF ResolveDependents, TaskRow, TaskStatus, TaskTerminal, TaskOpen

\* Cancelling the open Tasks leaves a Task table.
LEMMA CancelTasksType ==
  ASSUME NEW tk \in [Tasks -> TaskRow]
  PROVE  CancelTasks(tk) \in [Tasks -> TaskRow]
  BY UnleaseType DEF CancelTasks, TaskStatus, TaskTerminal

\* rebase_preserved_tasks leaves a Task table.
LEMMA RebaseType ==
  ASSUME NEW tk \in [Tasks -> TaskRow], NEW dbnow, run.generation \in Nat
  PROVE  Rebase(tk, dbnow) \in [Tasks -> TaskRow]
  BY ZenonT(60) DEF Rebase, TaskRow, TaskStatus, TaskOpen

\* The tables, as TypeOK states them.
AttemptType(at) ==
  /\ DOMAIN at = Tasks
  /\ \A t \in Tasks : at[t] \in [AttemptNumbers(t) -> AttemptRow]

\* Closing the open attempts leaves an attempt table.
LEMMA CancelAttemptsType ==
  ASSUME NEW at, AttemptType(at)
  PROVE  AttemptType(CancelAttempts(at))
  BY DEF CancelAttempts, AttemptType, AttemptRow, AttemptOutcome

\* Closing one attempt leaves an attempt table.
LEMMA FinishAttemptType ==
  ASSUME NEW at, AttemptType(at), NEW t \in Tasks, NEW o \in AttemptOutcome
  PROVE  AttemptType(FinishAttempt(at, t, o))
  BY DEF FinishAttempt, AttemptType, AttemptRow

StageTable == [Stages -> StageStatus \cup {"absent"}]
WaitTable == [Waits -> WaitStatus \cup {"absent"}]

\* A completion leaves a stage table.
LEMMA StagesAfterType ==
  ASSUME NEW st \in StageTable, NEW m \in StagesAfter(st)
  PROVE  m \in StageTable
  BY DEF StagesAfter, StageTable, StageStatus, StageOpen, StageTerminal

\* Cancelling the open stages leaves a stage table.
LEMMA CancelStagesType ==
  ASSUME NEW st \in StageTable
  PROVE  CancelStages(st) \in StageTable
  BY DEF CancelStages, StageTable, StageStatus, StageTerminal

\* Cancelling the open Waits leaves a Wait table.
LEMMA CancelWaitsType ==
  ASSUME NEW wt \in WaitTable
  PROVE  CancelWaits(wt) \in WaitTable
  BY DEF CancelWaits, WaitTable, WaitStatus

ToolTable == [Tools -> ToolRow]
AgentTable == [Agents -> AgentRow]

\* Closing Tool executions, or marking them uncertain, leaves a Tool table.
LEMMA ToolTypes ==
  ASSUME NEW tl \in ToolTable
  PROVE  /\ CloseUnstartedTools(tl) \in ToolTable
         /\ MarkToolsUncertain(tl) \in ToolTable
  BY ZenonT(60) DEF CloseUnstartedTools, MarkToolsUncertain, ToolTable, ToolRow, ToolStatus,
         ToolTerminal, ToolUnresolved, RecoveryAction

\* Closing Agent executions, or asking them to stop, leaves an Agent table.
LEMMA AgentTypes ==
  ASSUME NEW ag \in AgentTable
  PROVE  /\ CloseUnstartedAgents(ag) \in AgentTable
         /\ RequestStops(ag) \in AgentTable
  <1>1. \A a \in Agents : ag[a] \in AgentRow /\ ag[a].version + 1 \in Nat
    BY DEF AgentTable, AgentRow
  <1>2. \A a \in Agents, s \in AgentStatus :
          [ag[a] EXCEPT !.status = s, !.version = @ + 1] \in AgentRow
    BY <1>1 DEF AgentRow
  <1> QED BY <1>1, <1>2 DEF CloseUnstartedAgents, RequestStops, AgentTable, AgentStatus,
                            AgentTerminal, AgentUnresolved

\* The database time a transaction uses is a time.
LEMMA DbNowNat == \A n \in DbNow : n \in Nat
  BY DEF DbNow

\* create_run inserts rows of the right types.
LEMMA InitType == Init => TypeOK
  <1> SUFFICES ASSUME Init PROVE TypeOK
    OBVIOUS
  <1>1. run \in RunRow
    BY RowAssumption DEF Init, RunRow, RunStatus, RunActive, BlockedReason
  <1>2. task \in [Tasks -> TaskRow]
    BY NewTaskType DEF Init, AbsentTask, InsertedStatus, TaskStatus, TaskOpen
  <1>3. AttemptType(attempt)
    BY DEF Init, AttemptType, AttemptRow, AbsentAttempt
  <1>4. stage \in StageTable /\ wait \in WaitTable
    BY DEF Init, StageTable, WaitTable, StageStatus, StageOpen
  <1>5. tool \in ToolTable /\ agent \in AgentTable
    BY DEF Init, ToolTable, AgentTable, AbsentTool, AbsentAgent, ToolRow, AgentRow,
           RecoveryAction, OptTime, Never
  <1>6. child \in [Tasks -> ChildRow] /\ now \in Nat
    BY DEF Init, ChildRow, NoChildren
  <1> QED BY <1>1, <1>2, <1>3, <1>4, <1>5, <1>6
          DEF TypeOK, AttemptType, StageTable, WaitTable, ToolTable, AgentTable

\* Every transaction keeps every table of its type.
LEMMA StepType == TypeOK /\ [Next]_vars => TypeOK'
  <1> SUFFICES ASSUME TypeOK, [Next]_vars PROVE TypeOK'
    OBVIOUS
  <1> DEFINE RunOK == run' \in RunRow
             TaskOK == task' \in [Tasks -> TaskRow]
             AttemptOK == AttemptType(attempt')
             StageOK == stage' \in StageTable
             WaitOK == wait' \in WaitTable
             ToolOK == tool' \in ToolTable
             AgentOK == agent' \in AgentTable
             ChildOK == child' \in [Tasks -> ChildRow]
             RestOK == now' \in Nat /\ ToolOK /\ AgentOK /\ ChildOK
  <1>1. /\ now \in Nat /\ run \in RunRow /\ task \in [Tasks -> TaskRow]
        /\ AttemptType(attempt) /\ stage \in StageTable /\ wait \in WaitTable
        /\ tool \in ToolTable /\ agent \in AgentTable /\ child \in [Tasks -> ChildRow]
    BY DEF TypeOK, AttemptType, StageTable, WaitTable, ToolTable, AgentTable
  <1>2. SUFFICES RunOK /\ TaskOK /\ AttemptOK /\ StageOK /\ WaitOK /\ RestOK
    BY DEF TypeOK, AttemptType, StageTable, WaitTable, ToolTable, AgentTable
  <1>3. \A t \in Tasks : task[t] \in TaskRow
    BY <1>1
  <1>a. run.generation \in Nat /\ run.status \in RunStatus
    BY <1>1 DEF RunRow
  <1>4. ASSUME NEW w \in Workers, NEW t \in Tasks, ClaimTask(w, t)
        PROVE  RunOK /\ TaskOK /\ AttemptOK /\ StageOK /\ WaitOK /\ RestOK
    <2>1. PICK dbnow \in DbNow : ClaimTask(w, t)!(dbnow)
      BY <1>4 DEF ClaimTask
    <2>2. RunOK
      BY <1>1, <2>1, AdvanceType DEF RunStatus, RunActive
    <2>3. TaskOK
      <3>1. task[t].attempt + 1 \in Nat /\ dbnow + LeaseDuration \in Nat
        BY <1>3, DbNowNat, RowAssumption DEF TaskRow
      <3> QED BY <1>1, <1>3, <2>1, <3>1, ZenonT(60) DEF TaskRow, OptTime, TaskStatus, TaskOpen
    <2>4. AttemptOK
      <3>1. task[t].generation \in Nat
        BY <1>3 DEF TaskRow
      <3> QED BY <1>1, <2>1, <3>1 DEF AttemptType, AttemptRow, AttemptOutcome
    <2>5. StageOK
      BY <1>1, <2>1 DEF StageTable, StageStatus, StageOpen
    <2> QED BY <1>1, <2>1, <2>2, <2>3, <2>4, <2>5
  <1>5. ASSUME NEW t \in Tasks, NEW k \in AttemptNumbers(t), RenewTaskLease(t, k)
        PROVE  RunOK /\ TaskOK /\ AttemptOK /\ StageOK /\ WaitOK /\ RestOK
    <2>1. PICK dbnow \in DbNow : RenewTaskLease(t, k)!(dbnow)
      BY <1>5 DEF RenewTaskLease
    <2>2. task[t].expires + RenewBy \in Nat
      BY <1>3, <2>1, DbNowNat, RowAssumption DEF FencesHold, TaskRow, OptTime, Never
    <2>3. TaskOK
      <3>1. [task[t] EXCEPT !.expires = task[t].expires + RenewBy] \in TaskRow
        BY <1>3, <2>2 DEF TaskRow, OptTime
      <3> QED BY <1>1, <2>1, <3>1
    <2> QED BY <1>1, <2>1, <2>3
  <1>6. ASSUME NEW t \in Tasks, ReclaimExpiredLease(t)
        PROVE  RunOK /\ TaskOK /\ AttemptOK /\ StageOK /\ WaitOK /\ RestOK
    <2>1. PICK dbnow \in DbNow : ReclaimExpiredLease(t)!(dbnow)
      BY <1>6 DEF ReclaimExpiredLease
    <2>2. RunOK
      BY <1>1, <2>1, AdvanceType DEF RunStatus, RunActive
    <2>3. TaskOK
      <3>1. \A st \in TaskStatus : [Unlease(task[t], st) EXCEPT !.generation = run.generation,
                                     !.available = dbnow] \in TaskRow
        <4>1. \A st \in TaskStatus : Unlease(task[t], st) \in TaskRow
          BY <1>3, UnleaseType
        <4> QED BY <1>a, <4>1, DbNowNat DEF TaskRow
      <3> QED BY <1>1, <2>1, <3>1 DEF TaskStatus, TaskOpen, TaskTerminal
    <2>4. AttemptOK
      BY <1>1, <2>1, FinishAttemptType DEF AttemptOutcome
    <2> QED BY <1>1, <2>1, <2>2, <2>3, <2>4
  <1>7. ASSUME NEW t \in Tasks, NEW k \in AttemptNumbers(t), FailTaskRetry(t, k)
        PROVE  RunOK /\ TaskOK /\ AttemptOK /\ StageOK /\ WaitOK /\ RestOK
    <2>1. PICK dbnow \in DbNow, d \in Delays : FailTaskRetry(t, k)!(dbnow, d)
      BY <1>7 DEF FailTaskRetry
    <2>2. RunOK
      BY <1>1, <2>1, AdvanceType DEF RunStatus, RunActive
    <2>3. TaskOK
      <3>1. Unlease(task[t], "retry_scheduled") \in TaskRow /\ dbnow + d \in Nat
        BY <1>3, DbNowNat, RowAssumption, UnleaseType DEF TaskStatus, TaskOpen
      <3> QED BY <1>1, <2>1, <3>1 DEF TaskRow
    <2>4. AttemptOK
      BY <1>1, <2>1, FinishAttemptType DEF AttemptOutcome
    <2> QED BY <1>1, <2>1, <2>2, <2>3, <2>4
  <1>8. ASSUME NEW t \in Tasks, NEW k \in AttemptNumbers(t), FailTaskDeadLetter(t, k)
        PROVE  RunOK /\ TaskOK /\ AttemptOK /\ StageOK /\ WaitOK /\ RestOK
    <2>1. PICK dbnow \in DbNow : FailTaskDeadLetter(t, k)!(dbnow)
      BY <1>8 DEF FailTaskDeadLetter
    <2>2. RunOK
      BY <1>1, <2>1, AdvanceType DEF RunStatus, RunActive
    <2>3. TaskOK
      <3>1. Unlease(task[t], "dead_lettered") \in TaskRow
        BY <1>3, UnleaseType DEF TaskStatus, TaskTerminal
      <3>2. [task EXCEPT ![t] = Unlease(@, "dead_lettered")] \in [Tasks -> TaskRow]
        BY <1>1, <3>1
      <3> QED BY <2>1, <3>2, ResolveType, DbNowNat
    <2>4. AttemptOK
      BY <1>1, <2>1, FinishAttemptType DEF AttemptOutcome
    <2> QED BY <1>1, <2>1, <2>2, <2>3, <2>4
  <1>9. ASSUME NEW t \in Tasks, NEW k \in AttemptNumbers(t), FailTaskFatal(t, k)
        PROVE  RunOK /\ TaskOK /\ AttemptOK /\ StageOK /\ WaitOK /\ RestOK
    <2>1. PICK dbnow \in DbNow : FailTaskFatal(t, k)!(dbnow)
      BY <1>9 DEF FailTaskFatal
    <2> DEFINE failed == [task EXCEPT ![t] = Unlease(@, "failed")]
               resolved == ResolveDependents(failed, {t}, dbnow)
               finished == FinishAttempt(attempt, t, "failed")
    <2>2. resolved \in [Tasks -> TaskRow]
      <3>1. Unlease(task[t], "failed") \in TaskRow
        BY <1>3, UnleaseType DEF TaskStatus, TaskTerminal
      <3>2. failed \in [Tasks -> TaskRow]
        BY <1>1, <3>1
      <3> QED BY <3>2, ResolveType, DbNowNat
    <2>3. AttemptType(finished)
      BY <1>1, FinishAttemptType DEF AttemptOutcome
    <2>4. CASE Activated(failed, {t}) # {}
      BY <1>1, <2>1, <2>2, <2>3, <2>4, AdvanceType DEF RunStatus, RunActive
    <2>5. CASE Activated(failed, {t}) = {}
      <3>1. TaskOK /\ AttemptOK
        BY <2>1, <2>2, <2>3, <2>5, CancelTasksType, CancelAttemptsType
      <3>2. RunOK
        BY <1>1, <2>1, <2>5, FinishType DEF RunTerminal
      <3>3. WaitOK /\ ToolOK /\ AgentOK
        BY <1>1, <2>1, <2>5, CancelWaitsType, ToolTypes, AgentTypes
      <3> QED BY <1>1, <2>1, <3>1, <3>2, <3>3
    <2> QED BY <2>4, <2>5
  <1>b. ASSUME NEW t \in Tasks, NEW k, NEW dbnow, Completion(t, k, dbnow)
        PROVE  AttemptOK /\ StageOK /\ RestOK
    BY <1>1, <1>b, FinishAttemptType, StagesAfterType DEF Completion, AttemptOutcome
  <1>c. ASSUME NEW t \in Tasks, NEW result \in Results, NEW dbnow \in DbNow
        PROVE  CompletedTasks(t, result, dbnow) \in [Tasks -> TaskRow]
    <2>1. Unlease(task[t], "succeeded") \in TaskRow
      BY <1>3, UnleaseType DEF TaskStatus, TaskTerminal
    <2>2. [Unlease(task[t], "succeeded") EXCEPT !.result = result] \in TaskRow
      BY <2>1 DEF TaskRow
    <2>3. [task EXCEPT ![t] = [Unlease(@, "succeeded") EXCEPT !.result = result]]
            \in [Tasks -> TaskRow]
      BY <1>1, <2>2
    <2> QED BY <2>3, ResolveType, DbNowNat DEF CompletedTasks
  <1>d. ASSUME NEW tk \in [Tasks -> TaskRow], NEW new, NEW st \in TaskStatus, NEW av \in Nat
        PROVE  InsertTasks(tk, new, st, av) \in [Tasks -> TaskRow]
    BY <1>a, NewTaskType DEF InsertTasks
  <1>10. ASSUME NEW t \in Tasks, NEW k \in AttemptNumbers(t), CompleteWithTasks(t, k)
         PROVE  RunOK /\ TaskOK /\ AttemptOK /\ StageOK /\ WaitOK /\ RestOK
    <2>1. PICK dbnow \in DbNow, result \in Results, new \in SUBSET PlanTasks \ {{}},
               d \in Delays : CompleteWithTasks(t, k)!(dbnow, result, new, d)
      BY <1>10 DEF CompleteWithTasks
    <2>2. dbnow + d \in Nat
      BY DbNowNat, RowAssumption
    <2>3. TaskOK
      BY <1>c, <1>d, <2>1, <2>2 DEF TaskStatus, TaskOpen
    <2>4. RunOK
      BY <1>1, <2>1, AdvanceType, CheckpointedType DEF RunStatus, RunActive
    <2> QED BY <1>1, <1>b, <2>1, <2>3, <2>4
  <1>11. ASSUME NEW t \in Tasks, NEW k \in AttemptNumbers(t), CompleteWithRetry(t, k)
         PROVE  RunOK /\ TaskOK /\ AttemptOK /\ StageOK /\ WaitOK /\ RestOK
    <2>1. PICK dbnow \in DbNow, result \in Results, x \in PlanTasks, d \in Delays :
            CompleteWithRetry(t, k)!(dbnow, result, x, d)
      BY <1>11 DEF CompleteWithRetry
    <2>2. dbnow + d \in Nat
      BY DbNowNat, RowAssumption
    <2>3. TaskOK
      BY <1>c, <1>d, <2>1, <2>2 DEF TaskStatus, TaskOpen
    <2>4. RunOK
      BY <1>1, <2>1, AdvanceType, CheckpointedType DEF RunStatus, RunActive
    <2> QED BY <1>1, <1>b, <2>1, <2>3, <2>4
  <1>12. ASSUME NEW t \in Tasks, NEW k \in AttemptNumbers(t), CompleteWithWait(t, k)
         PROVE  RunOK /\ TaskOK /\ AttemptOK /\ StageOK /\ WaitOK /\ RestOK
    <2>1. PICK dbnow \in DbNow, result \in Results, w \in Waits :
            CompleteWithWait(t, k)!(dbnow, result, w)
      BY <1>12 DEF CompleteWithWait
    <2>2. TaskOK
      BY <1>c, <2>1
    <2>3. RunOK
      BY <1>1, <2>1, AdvanceType, CheckpointedType DEF RunStatus, RunActive
    <2>4. WaitOK
      BY <1>1, <2>1 DEF WaitTable, WaitStatus
    <2> QED BY <1>b, <2>1, <2>2, <2>3, <2>4
  <1>13. ASSUME NEW t \in Tasks, NEW k \in AttemptNumbers(t), CompleteAndFinish(t, k)
         PROVE  RunOK /\ TaskOK /\ AttemptOK /\ StageOK /\ WaitOK /\ RestOK
    <2>1. PICK dbnow \in DbNow, result \in Results, status \in FinishStatuses :
            CompleteAndFinish(t, k)!(dbnow, result, status)
      BY <1>13 DEF CompleteAndFinish
    <2>2. RunOK
      BY <1>1, <2>1, FinishType, CheckpointedType, FinishAssumption
    <2> QED BY <1>1, <1>b, <1>c, <2>1, <2>2
  <1>14. ASSUME NEW t \in Tasks, NEW k \in AttemptNumbers(t), CompleteNoFurtherWork(t, k)
         PROVE  RunOK /\ TaskOK /\ AttemptOK /\ StageOK /\ WaitOK /\ RestOK
    <2>1. PICK dbnow \in DbNow, result \in Results :
            CompleteNoFurtherWork(t, k)!(dbnow, result)
      BY <1>14 DEF CompleteNoFurtherWork
    <2>2. RunOK
      BY <1>1, <2>1, AdvanceType, CheckpointedType DEF RunStatus, RunActive
    <2> QED BY <1>1, <1>b, <1>c, <2>1, <2>2
  <1>15. ASSUME NEW key, ApplyEvent(key)
         PROVE  RunOK /\ TaskOK /\ AttemptOK /\ StageOK /\ WaitOK /\ RestOK
    <2>1. PICK dbnow \in DbNow, w \in Waits : ApplyEvent(key)!(dbnow, w)
      BY <1>15 DEF ApplyEvent
    <2>2. RunOK
      BY <1>1, <2>1, AdvanceType DEF RunStatus, RunActive
    <2>3. TaskOK
      BY <1>1, <1>a, <2>1, DbNowNat, NewTaskType DEF TaskStatus, TaskOpen
    <2>4. StageOK /\ WaitOK
      BY <1>1, <2>1 DEF ConsumeWait, StageTable, WaitTable, StageStatus, StageOpen, WaitStatus
    <2> QED BY <1>1, <2>1, <2>2, <2>3, <2>4
  <1>16. ASSUME RevisePlan
         PROVE  RunOK /\ TaskOK /\ AttemptOK /\ StageOK /\ WaitOK /\ RestOK
    <2>1. PICK dbnow \in DbNow, new \in SUBSET RevisionTasks : RevisePlan!(dbnow, new)
      BY <1>16 DEF RevisePlan
    <2>2. RunOK
      <3>1. Advance(run, run.status) \in RunRow
        BY <1>1, <1>a, AdvanceType
      <3>2. Advance(run, run.status).plan + 1 \in Nat \ {0}
        BY <3>1 DEF RunRow
      <3> QED BY <2>1, <3>1, <3>2 DEF RunRow
    <2>3. TaskOK
      <3> DEFINE inserted == [t \in Tasks |->
                   IF t \in new THEN NewTask(InsertedStatus(t), run.generation, dbnow)
                                ELSE task[t]]
      <3>1. inserted \in [Tasks -> TaskRow]
        BY <1>1, <1>a, DbNowNat, NewTaskType DEF InsertedStatus, TaskStatus, TaskOpen
      <3> HIDE DEF inserted
      <3> QED BY <2>1, <3>1, ResolveType, DbNowNat DEF inserted
    <2> QED BY <1>1, <2>1, <2>2, <2>3
  <1>17. ASSUME ApplyContextPatch
         PROVE  RunOK /\ TaskOK /\ AttemptOK /\ StageOK /\ WaitOK /\ RestOK
    <2>1. Advance(run, run.status) \in RunRow
      BY <1>1, <1>a, AdvanceType
    <2>2. Advance(run, run.status).context + 1 \in Nat \ {0}
      BY <2>1 DEF RunRow
    <2>3. RunOK
      BY <1>17, <2>1, <2>2 DEF ApplyContextPatch, RunRow
    <2> QED BY <1>1, <1>17, <2>3 DEF ApplyContextPatch
  <1>18. ASSUME NEW t \in Tasks, CreateChildRun(t)
         PROVE  RunOK /\ TaskOK /\ AttemptOK /\ StageOK /\ WaitOK /\ RestOK
    <2>1. RunOK
      BY <1>1, <1>a, <1>18, AdvanceType DEF CreateChildRun
    <2>2. TaskOK
      BY <1>1, <1>3, <1>18, UnleaseType DEF CreateChildRun, TaskStatus, TaskOpen
    <2>3. ChildOK
      BY <1>1, <1>18 DEF CreateChildRun, ChildRow
    <2> QED BY <1>1, <1>18, <2>1, <2>2, <2>3 DEF CreateChildRun
  <1>19. ASSUME NEW t \in Tasks, ChildRunEnds(t)
         PROVE  RunOK /\ TaskOK /\ AttemptOK /\ StageOK /\ WaitOK /\ RestOK
    <2>1. ChildOK
      BY <1>1, <1>19 DEF ChildRunEnds, ChildRow
    <2> QED BY <1>1, <1>19, <2>1 DEF ChildRunEnds
  <1>20. ASSUME NEW t \in Tasks, NEW policy, EvaluateChildRunJoin(t, policy)
         PROVE  RunOK /\ TaskOK /\ AttemptOK /\ StageOK /\ WaitOK /\ RestOK
    <2>1. PICK dbnow \in DbNow : EvaluateChildRunJoin(t, policy)!(dbnow)
      BY <1>20 DEF EvaluateChildRunJoin
    <2>2. RunOK
      BY <1>1, <1>a, <2>1, AdvanceType
    <2>3. TaskOK
      <3>1. [task[t] EXCEPT !.status = "queued", !.available = dbnow] \in TaskRow
        BY <1>3, DbNowNat DEF TaskRow, TaskStatus, TaskOpen
      <3> QED BY <1>1, <2>1, <3>1
    <2> QED BY <1>1, <2>1, <2>2, <2>3
  <1>21. ASSUME PauseRun
         PROVE  RunOK /\ TaskOK /\ AttemptOK /\ StageOK /\ WaitOK /\ RestOK
    <2>1. PICK dbnow \in DbNow : PauseRun!(dbnow)
      BY <1>21 DEF PauseRun
    <2>2. RunOK
      <3>1. Advance(run, "paused") \in RunRow
        BY <1>1, AdvanceType DEF RunStatus
      <3>2. Advance(run, "paused").generation + 1 \in Nat
        BY <3>1 DEF RunRow
      <3> QED BY <2>1, <3>1, <3>2 DEF RunRow, BlockedReason
    <2>3. TaskOK
      <3>1. \A t \in Tasks : Unlease(task[t], "retry_scheduled") \in TaskRow
        BY <1>3, UnleaseType DEF TaskStatus, TaskOpen
      <3>2. \A t \in Tasks : [Unlease(task[t], "retry_scheduled") EXCEPT !.available = dbnow]
                               \in TaskRow
        BY <3>1, DbNowNat DEF TaskRow
      <3> QED BY <1>1, <2>1, <3>2
    <2> QED BY <1>1, <2>1, <2>2, <2>3, CancelAttemptsType, AgentTypes
  <1>22. ASSUME ResumeRun
         PROVE  RunOK /\ TaskOK /\ AttemptOK /\ StageOK /\ WaitOK /\ RestOK
    <2>1. PICK dbnow \in DbNow : ResumeRun!(dbnow)
      BY <1>22 DEF ResumeRun
    <2> DEFINE status == ResumedStatus(Rebase(task, dbnow), dbnow)
    <2>2. RunOK
      <3>1. status \in RunStatus
        BY <2>1 DEF ResumedStatus, RunStatus, RunActive
      <3>2. Advance(run, status) \in RunRow
        BY <1>1, <3>1, AdvanceType
      <3> HIDE DEF status
      <3> QED BY <2>1, <3>2 DEF status, RunRow, BlockedReason
    <2>3. TaskOK
      BY <1>1, <1>a, <2>1, RebaseType
    <2> QED BY <1>1, <2>1, <2>2, <2>3
  <1>23. ASSUME CancelRun
         PROVE  RunOK /\ TaskOK /\ AttemptOK /\ StageOK /\ WaitOK /\ RestOK
    <2>1. RunOK
      <3>1. Finish(run, "cancelled") \in RunRow
        BY <1>1, FinishType DEF RunTerminal
      <3>2. Finish(run, "cancelled").generation + 1 \in Nat
        BY <3>1 DEF RunRow
      <3> QED BY <1>23, <3>1, <3>2 DEF CancelRun, RunRow, BlockedReason
    <2> QED BY <1>1, <1>23, <2>1, CancelStagesType, CancelTasksType, CancelWaitsType,
               CancelAttemptsType, ToolTypes, AgentTypes DEF CancelRun
  <1>e. ASSUME NEW wt \in WaitTable, TimeOut(wt)
        PROVE  RunOK /\ TaskOK /\ AttemptOK /\ StageOK /\ WaitOK /\ RestOK
    <2>1. RunOK
      BY <1>1, <1>e, FinishType DEF TimeOut, RunTerminal
    <2> QED BY <1>1, <1>e, <2>1, CancelStagesType, CancelTasksType, CancelWaitsType,
               CancelAttemptsType DEF TimeOut
  <1>24. ASSUME TimeOutRun
         PROVE  RunOK /\ TaskOK /\ AttemptOK /\ StageOK /\ WaitOK /\ RestOK
    BY <1>1, <1>e, <1>24 DEF TimeOutRun
  <1>25. ASSUME NEW w \in Waits, ExpireWait(w)
         PROVE  RunOK /\ TaskOK /\ AttemptOK /\ StageOK /\ WaitOK /\ RestOK
    <2>1. [wait EXCEPT ![w] = "expired"] \in WaitTable
      BY <1>1 DEF WaitTable, WaitStatus
    <2> QED BY <1>e, <1>25, <2>1 DEF ExpireWait
  <1>26. ASSUME Tick
         PROVE  RunOK /\ TaskOK /\ AttemptOK /\ StageOK /\ WaitOK /\ RestOK
    BY <1>1, <1>26 DEF Tick
  <1>27. ASSUME UNCHANGED vars
         PROVE  RunOK /\ TaskOK /\ AttemptOK /\ StageOK /\ WaitOK /\ RestOK
    BY <1>1, <1>27 DEF vars
  <1>28. ASSUME NEW t \in Tasks, NEW k \in AttemptNumbers(t), WorkerStep(t, k)
         PROVE  RunOK /\ TaskOK /\ AttemptOK /\ StageOK /\ WaitOK /\ RestOK
    BY <1>28, <1>5, <1>7, <1>8, <1>9, <1>10, <1>11, <1>12, <1>13, <1>14 DEF WorkerStep
  <1> HIDE DEF RunOK, TaskOK, AttemptOK, StageOK, WaitOK, RestOK
  <1> QED BY <1>4, <1>6, <1>15, <1>16, <1>17, <1>18, <1>19, <1>20, <1>21, <1>22, <1>23,
             <1>24, <1>25, <1>26, <1>27, <1>28 DEF Next

\* Every row any transaction commits has the type of its table, whatever the
\* numbers of Tasks, workers, Waits, attempts and the bounds are.
THEOREM TypeCorrect == Spec => []TypeOK
  BY InitType, StepType, PTL DEF Spec
=============================================================================
