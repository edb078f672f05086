--------------------------- MODULE ExternalProofs ---------------------------
(***************************************************************************)
(* The Run among its external executions.  Every step of ExternalWork - a  *)
(* worker, the dispatcher, a scheduler, a poller, a crash or a remote      *)
(* system - keeps the invariant of the store (SafeInv of RunSafetyProofs), *)
(* so everything proved there about one Run still holds when Tools and     *)
(* Agents act around it.  From it follow the refinement of RunLifecycle    *)
(* and what the executions may do to an ended Run.                         *)
(***************************************************************************)
EXTENDS ExternalWork, RunSafetyProofs, FiniteSetTheorems

----------------------------------------------------------------------------
\* RunLifecycle, for the store alone.

\* The step is one of RunLifecycle, or leaves what it shows alone.
LifeStep == [Life!LifeNext]_(Life!lifeVars)

\* A transaction that moves an active Run on is a Progress step.
LEMMA LifeMoved ==
  ASSUME run \in RunRow, run.status \in RunActive, NEW s \in RunActive,
         run' = Advance(run, s) \/ run' = Checkpointed(Advance(run, s))
  PROVE  LifeStep
  <1>1. Advance(run, s) \in RunRow
    BY AdvanceType DEF RunStatus
  <1>2. /\ run'.status = s /\ run'.version = run.version + 1
        /\ run'.generation = run.generation /\ run'.terminal_seq = run.terminal_seq
    <2>1. /\ Advance(run, s).status = s /\ Advance(run, s).version = run.version + 1
          /\ Advance(run, s).generation = run.generation
          /\ Advance(run, s).terminal_seq = run.terminal_seq
      BY DEF Advance, RunRow
    <2>2. \A r \in RunRow : /\ Checkpointed(r).status = r.status
                            /\ Checkpointed(r).version = r.version
                            /\ Checkpointed(r).generation = r.generation
                            /\ Checkpointed(r).terminal_seq = r.terminal_seq
      BY DEF Checkpointed, RunRow
    <2> QED BY <1>1, <2>1, <2>2
  <1> QED BY <1>2 DEF LifeStep, Life!LifeNext, Life!Progress

\* A transaction that leaves the projection and moves the version is a Note.
LEMMA LifeNoted ==
  ASSUME run'.status = run.status, run'.version = run.version + 1,
         run'.generation = run.generation, run'.terminal_seq = run.terminal_seq
  PROVE  LifeStep
  BY DEF LifeStep, Life!LifeNext, Life!Note

\* A step that leaves the Run row alone shows nothing.
LEMMA LifeStutter ==
  ASSUME run' = run
  PROVE  LifeStep
  BY DEF LifeStep, Life!lifeVars

\* A transaction that closes a Run is an End step: the Run had no terminal Event.
LEMMA LifeClosed ==
  ASSUME run \in RunRow, RunProjection, run.status \notin RunTerminal, NEW s \in RunTerminal,
         run'.status = s, run'.version = run.version + 1,
         run'.generation \in {run.generation, run.generation + 1},
         run'.terminal_seq = run.next_seq
  PROVE  LifeStep
  <1>1. run.status \in RunActive \cup {"paused"} /\ run.terminal_seq = 0
    BY DEF RunRow, RunStatus, RunProjection
  <1>2. run'.terminal_seq > 0
    BY DEF RunRow
  <1> QED BY <1>1, <1>2 DEF LifeStep, Life!LifeNext, Life!End

\* The columns a closed Run shows.
LEMMA FinishFields ==
  ASSUME NEW r \in RunRow, NEW s \in RunTerminal
  PROVE  /\ Finish(r, s).status = s /\ Finish(r, s).version = r.version + 1
         /\ Finish(r, s).generation = r.generation /\ Finish(r, s).terminal_seq = r.next_seq
         /\ Checkpointed(Finish(r, s)).status = s
         /\ Checkpointed(Finish(r, s)).version = r.version + 1
         /\ Checkpointed(Finish(r, s)).generation = r.generation
         /\ Checkpointed(Finish(r, s)).terminal_seq = r.next_seq
  <1>1. /\ Finish(r, s).status = s /\ Finish(r, s).version = r.version + 1
        /\ Finish(r, s).generation = r.generation /\ Finish(r, s).terminal_seq = r.next_seq
    BY DEF Finish, Advance, RunRow
  <1>2. \A f \in RunRow : /\ Checkpointed(f).status = f.status
                          /\ Checkpointed(f).version = f.version
                          /\ Checkpointed(f).generation = f.generation
                          /\ Checkpointed(f).terminal_seq = f.terminal_seq
    BY DEF Checkpointed, RunRow
  <1> QED BY <1>1, <1>2, FinishType

\* The control commands and the revisions are steps of RunLifecycle.
LEMMA LifeControl ==
  ASSUME SafeInv, RevisePlan \/ ApplyContextPatch \/ PauseRun \/ ResumeRun \/ CancelRun
  PROVE  LifeStep
  <1>0. run \in RunRow /\ run.status \in RunStatus /\ run.generation \in Nat /\ RunProjection
    BY SafeTables DEF SafeInv
  <1>1. ASSUME NEW s \in RunStatus
        PROVE  /\ Advance(run, s) \in RunRow
               /\ Advance(run, s).status = s /\ Advance(run, s).version = run.version + 1
               /\ Advance(run, s).generation = run.generation
               /\ Advance(run, s).terminal_seq = run.terminal_seq
    <2>1. Advance(run, s) \in RunRow
      BY <1>0, AdvanceType
    <2> QED BY <1>0, <2>1 DEF Advance, RunRow
  <1>2. CASE RevisePlan
    <2>1. run' = [Advance(run, run.status) EXCEPT !.plan = @ + 1]
      BY <1>2 DEF RevisePlan
    <2>2. /\ run'.status = run.status /\ run'.version = run.version + 1
          /\ run'.generation = run.generation /\ run'.terminal_seq = run.terminal_seq
      BY <1>0, <1>1, <2>1 DEF RunRow
    <2> QED BY <2>2, LifeNoted
  <1>3. CASE ApplyContextPatch
    <2>1. run' = [Advance(run, run.status) EXCEPT !.context = @ + 1]
      BY <1>3 DEF ApplyContextPatch
    <2>2. /\ run'.status = run.status /\ run'.version = run.version + 1
          /\ run'.generation = run.generation /\ run'.terminal_seq = run.terminal_seq
      BY <1>0, <1>1, <2>1 DEF RunRow
    <2> QED BY <2>2, LifeNoted
  <1>4. CASE PauseRun
    <2>1. /\ run.status \in RunActive
          /\ \E b : run' = [Advance(run, "paused") EXCEPT !.suspended_from = run.status,
                              !.generation = @ + 1, !.blocked = b]
      BY <1>4 DEF PauseRun
    <2>2. "paused" \in RunStatus
      BY DEF RunStatus
    <2>3. /\ run'.status = "paused" /\ run'.version = run.version + 1
          /\ run'.generation = run.generation + 1 /\ run'.terminal_seq = run.terminal_seq
      BY <1>0, <1>1, <2>1, <2>2 DEF RunRow
    <2> QED BY <2>1, <2>3 DEF LifeStep, Life!LifeNext, Life!Pause
  <1>5. CASE ResumeRun
    <2>1. PICK dbnow \in DbNow : ResumeRun!(dbnow)
      BY <1>5 DEF ResumeRun
    <2>2. PICK s : s = ResumedStatus(Rebase(task, dbnow), dbnow)
      OBVIOUS
    <2>3. s \in RunActive
      BY <2>1, <2>2 DEF ResumedStatus, RunActive
    <2>4. /\ run.status = "paused"
          /\ run' = [Advance(run, s) EXCEPT !.suspended_from = "none", !.blocked = "none"]
      BY <2>1, <2>2
    <2>5. /\ run'.status = s /\ run'.version = run.version + 1
          /\ run'.generation = run.generation /\ run'.terminal_seq = run.terminal_seq
      BY <1>0, <1>1, <2>3, <2>4 DEF RunRow, RunStatus
    <2> QED BY <2>3, <2>4, <2>5 DEF LifeStep, Life!LifeNext, Life!Resume
  <1>6. CASE CancelRun
    <2>1. PICK f \in RunRow : f = Finish(run, "cancelled")
      BY <1>0, FinishType DEF RunTerminal
    <2>2. /\ run.status \notin RunTerminal
          /\ run' = [f EXCEPT !.generation = @ + 1, !.blocked = "none"]
      BY <1>6, <2>1 DEF CancelRun
    <2>3. "cancelled" \in RunTerminal
      BY DEF RunTerminal
    <2>4. /\ f.status = "cancelled" /\ f.version = run.version + 1
          /\ f.generation = run.generation /\ f.terminal_seq = run.next_seq
      BY <1>0, <2>1, <2>3, FinishFields
    <2>5. /\ run'.status = "cancelled" /\ run'.version = run.version + 1
          /\ run'.generation = run.generation + 1 /\ run'.terminal_seq = run.next_seq
      BY <2>1, <2>2, <2>4 DEF RunRow
    <2> QED BY <1>0, <2>2, <2>3, <2>5, LifeClosed
  <1> QED BY <1>2, <1>3, <1>4, <1>5, <1>6

\* Every transaction of the store is a step of RunLifecycle.
LEMMA LifeOfStore ==
  ASSUME SafeInv, [Next]_vars
  PROVE  LifeStep
  <1>0. run \in RunRow /\ run.status \in RunStatus /\ RunProjection
    BY SafeTables DEF SafeInv
  <1>1. ASSUME NEW s \in RunActive, run.status \in RunActive,
               run' = Advance(run, s) \/ run' = Checkpointed(Advance(run, s))
        PROVE  LifeStep
    BY <1>0, <1>1, LifeMoved
  <1>2. ASSUME NEW s \in RunTerminal, run.status \notin RunTerminal,
               run' = Finish(run, s) \/ run' = Checkpointed(Finish(run, s))
        PROVE  LifeStep
    <2>1. /\ run'.status = s /\ run'.version = run.version + 1
          /\ run'.generation = run.generation /\ run'.terminal_seq = run.next_seq
      BY <1>0, <1>2, FinishFields
    <2> QED BY <1>0, <1>2, <2>1, LifeClosed
  <1>3. ASSUME run' = Advance(run, run.status)
        PROVE  LifeStep
    <2>1. /\ run'.status = run.status /\ run'.version = run.version + 1
          /\ run'.generation = run.generation /\ run'.terminal_seq = run.terminal_seq
      BY <1>0, <1>3 DEF Advance, RunRow
    <2> QED BY <2>1, LifeNoted
  <1>4. RunActive \cap RunTerminal = {}
    BY DEF RunActive, RunTerminal
  <1>5. ASSUME NEW t \in Tasks, NEW k \in AttemptNumbers(t), WorkerStep(t, k)
        PROVE  LifeStep
    <2>1. CASE RenewTaskLease(t, k)
      BY <2>1, LifeStutter DEF RenewTaskLease
    <2>2. CASE FailTaskRetry(t, k)
      <3>1. run.status \in RunActive /\ run' = Advance(run, "retrying")
        BY <2>2 DEF FailTaskRetry, FencesHold
      <3> QED BY <1>1, <3>1 DEF RunActive
    <2>3. CASE FailTaskDeadLetter(t, k)
      <3>1. run.status \in RunActive /\ \E s \in {"queued", "waiting"} : run' = Advance(run, s)
        BY <2>3 DEF FailTaskDeadLetter, FencesHold
      <3> QED BY <1>1, <3>1 DEF RunActive
    <2>4. CASE FailTaskFatal(t, k)
      <3>1. /\ run.status \in RunActive
            /\ run' = Advance(run, "queued") \/ run' = Finish(run, "failed")
        BY <2>4 DEF FailTaskFatal, FencesHold
      <3> QED BY <1>1, <1>2, <1>4, <3>1 DEF RunActive, RunTerminal
    <2>5. CASE CompleteWithTasks(t, k) \/ CompleteWithRetry(t, k) \/ CompleteNoFurtherWork(t, k)
      <3>1. /\ run.status \in RunActive
            /\ \E s \in {"queued", "retrying", "running"} : run' = Checkpointed(Advance(run, s))
        BY <2>5 DEF CompleteWithTasks, CompleteWithRetry, CompleteNoFurtherWork, Completion,
                    FencesHold
      <3> QED BY <1>1, <3>1 DEF RunActive
    <2>6. CASE CompleteWithWait(t, k)
      <3>1. /\ run.status \in RunActive
            /\ \E s \in {"approval_required", "waiting"} : run' = Checkpointed(Advance(run, s))
        BY <2>6 DEF CompleteWithWait, Completion, FencesHold
      <3> QED BY <1>1, <3>1 DEF RunActive
    <2>7. CASE CompleteAndFinish(t, k)
      <3>1. /\ run.status \in RunActive
            /\ \E s \in FinishStatuses : run' = Checkpointed(Finish(run, s))
        BY <2>7 DEF CompleteAndFinish, Completion, FencesHold
      <3> QED BY <1>2, <1>4, <3>1, FinishAssumption
    <2> QED BY <1>5, <2>1, <2>2, <2>3, <2>4, <2>5, <2>6, <2>7 DEF WorkerStep
  <1>6. ASSUME NEW t \in Tasks, NEW w \in Workers, ClaimTask(w, t)
        PROVE  LifeStep
    <2>1. run.status \in RunActive /\ run' = Advance(run, "running")
      BY <1>6 DEF ClaimTask, Claimable, AcceptsTaskClaim, RunActive
    <2> QED BY <1>1, <2>1 DEF RunActive
  <1>7. ASSUME NEW t \in Tasks, ReclaimExpiredLease(t)
        PROVE  LifeStep
    <2>1. /\ run.terminal_seq = 0 /\ task[t].status = "leased"
          /\ \E s \in {"waiting", "retrying"} : run' = Advance(run, s)
      BY <1>7 DEF ReclaimExpiredLease
    <2>2. run.status \in RunActive
      BY <1>0, <2>1, FinishAssumption DEF SafeInv, RunProjection, LeasedWhileLive
    <2> QED BY <1>1, <2>1, <2>2 DEF RunActive
  <1>8. ASSUME NEW key, ApplyEvent(key)
        PROVE  LifeStep
    <2>1. PICK s \in {"running", "queued"} :
             /\ run.status \notin RunTerminal
             /\ run' = Advance(run, IF run.status = "paused" THEN "paused" ELSE s)
      BY <1>8 DEF ApplyEvent
    <2>2. CASE run.status = "paused"
      BY <1>3, <2>1, <2>2
    <2>3. CASE run.status # "paused"
      BY <1>0, <1>1, <2>1, <2>3 DEF RunStatus, RunActive
    <2> QED BY <2>2, <2>3
  <1>9. CASE TimeOutRun \/ \E w \in Waits : ExpireWait(w)
    <2>1. run.status \notin RunTerminal /\ run' = Finish(run, "timed_out")
      BY <1>9 DEF TimeOutRun, ExpireWait, TimeOut, ScannedForWaits, RunTerminal
    <2> QED BY <1>2, <2>1 DEF RunTerminal
  <1>10. ASSUME NEW t \in Tasks,
                CreateChildRun(t) \/ \E policy \in {"all", "any"} : EvaluateChildRunJoin(t, policy)
         PROVE  LifeStep
    BY <1>3, <1>10 DEF CreateChildRun, EvaluateChildRunJoin
  <1>11. CASE Tick \/ (\E t \in Tasks : ChildRunEnds(t)) \/ UNCHANGED vars
    BY <1>11, LifeStutter DEF Tick, ChildRunEnds, vars
  <1>12. CASE RevisePlan \/ ApplyContextPatch \/ PauseRun \/ ResumeRun \/ CancelRun
    BY <1>12, LifeControl
  <1> QED BY <1>5, <1>6, <1>7, <1>8, <1>9, <1>10, <1>11, <1>12 DEF Next

\* The store alone keeps the promises of RunLifecycle, whatever its workers,
\* users, events and pollers do: one version per change, no way back from an
\* end, a new generation exactly with a pause or a cancel.
THEOREM StoreKeepsLifecycle == Spec => RunKeepsLifecycle
  <1>1. Init => Life!LifeInit
    BY DEF Init, Life!LifeInit, RunActive
  <1>2. SafeInv /\ [Next]_vars => [Life!LifeNext]_(Life!lifeVars)
    BY LifeOfStore DEF LifeStep
  <1> QED BY SafeInvariant, <1>1, <1>2, PTL DEF Spec, RunKeepsLifecycle, Life!LifeSpec

----------------------------------------------------------------------------
\* The Run in the steps of the executions.

\* What the step does to the Run and to what it owns: it is a step of
\* RunLifecycle, and an ended Run keeps everything but its version.
RunSide ==
  /\ SafeInv'
  /\ LifeStep
  /\ run.status \in RunTerminal =>
       /\ run'.status = run.status /\ run'.terminal_seq = run.terminal_seq
       /\ run'.generation = run.generation
       /\ UNCHANGED <<task, attempt, stage, wait>>

\* A transaction of the store.
LEMMA StoreSide ==
  ASSUME SafeInv, [Next]_vars
  PROVE  RunSide
  BY StepSafe, LifeOfStore, TerminalStep DEF RunSide

\* Evidence about an execution: the version moves, Events may be appended, and
\* nothing else changes.
LEMMA NoteSide ==
  ASSUME SafeInv, TypeOK', UNCHANGED <<task, attempt, stage, wait>>,
         run'.status = run.status, run'.version = run.version + 1,
         run'.generation = run.generation, run'.terminal_seq = run.terminal_seq,
         run'.suspended_from = run.suspended_from, run.next_seq <= run'.next_seq
  PROVE  RunSide
  <1>1. /\ run.next_seq \in Nat /\ run'.next_seq \in Nat /\ run.terminal_seq \in Nat
    BY DEF SafeInv, TypeOK, RunRow
  <1>2. RunProjection'
    BY <1>1 DEF SafeInv, RunProjection
  <1>3. GenerationGate' /\ LeasedWhileLive' /\ RowsOK' /\ WaitResume' /\ TerminalClosed'
    BY DEF SafeInv, GenerationGate, LeasedWhileLive, RowsOK, WaitResume, TerminalClosed
  <1>4. LifeStep
    BY LifeNoted
  <1> QED BY <1>2, <1>3, <1>4 DEF RunSide, SafeInv

\* The columns of a Run row that gains one Event.
LEMMA LoggedFields ==
  ASSUME run \in RunRow, LogEvent
  PROVE  /\ run' \in RunRow
         /\ run'.status = run.status /\ run'.version = run.version + 1
         /\ run'.generation = run.generation /\ run'.terminal_seq = run.terminal_seq
         /\ run'.suspended_from = run.suspended_from /\ run'.next_seq = run.next_seq + 1
         /\ run.next_seq <= run'.next_seq
  <1>1. run.next_seq \in Nat /\ run.status \in RunStatus
    BY DEF RunRow
  <1>2. /\ run'.status = run.status /\ run'.version = run.version + 1
        /\ run'.generation = run.generation /\ run'.terminal_seq = run.terminal_seq
        /\ run'.suspended_from = run.suspended_from /\ run'.next_seq = run.next_seq + 1
    BY DEF LogEvent, Advance, RunRow
  <1>3. run' \in RunRow
    BY <1>1, AdvanceType DEF LogEvent
  <1> QED BY <1>1, <1>2, <1>3

\* The tables of the Run itself are of their types after the step.
RunTyped ==
  /\ now' \in Nat /\ run' \in RunRow /\ task' \in [Tasks -> TaskRow] /\ AttemptType(attempt')
  /\ stage' \in StageTable /\ wait' \in WaitTable /\ child' \in [Tasks -> ChildRow]

\* TypeOK in two halves: the Run's tables and the executions.
LEMMA TypeHalves ==
  ASSUME RunTyped, tool' \in ToolTable, agent' \in AgentTable
  PROVE  TypeOK'
  BY DEF RunTyped, TypeOK, AttemptType, StageTable, WaitTable, ToolTable, AgentTable

\* A transaction that only logs evidence.
LEMMA EvidenceSide ==
  ASSUME SafeInv, WorkflowUnchanged, LogEvent, tool' \in ToolTable, agent' \in AgentTable
  PROVE  RunSide
  <1>1. run \in RunRow
    BY SafeTables
  <1>2. RunTyped
    BY <1>1, LoggedFields DEF RunTyped, WorkflowUnchanged, SafeInv, TypeOK, AttemptType,
          StageTable, WaitTable
  <1> QED BY <1>1, <1>2, TypeHalves, LoggedFields, NoteSide DEF WorkflowUnchanged

\* begin_tool_retry_attempt and begin_agent_resubmission end their recovery Task
\* under its lease.
LEMMA RecoverySide ==
  ASSUME SafeInv, NEW q \in RecoveryTasks, NEW k, NEW dbnow, FencesHold(q, k, dbnow),
         CompleteRecoveryTask(q), LogEvent, UNCHANGED <<now, stage, wait, child>>,
         tool' \in ToolTable, agent' \in AgentTable
  PROVE  RunSide
  <1>1. /\ run \in RunRow /\ task \in [Tasks -> TaskRow] /\ AttemptType(attempt)
        /\ q \in Tasks /\ task[q] \in TaskRow
        /\ RowInv(q, task[q], attempt[q], run.generation)
    BY SafeTables, ExternalAssumption
  <1>2. task[q].status = "leased" /\ run.status \in RunActive
    BY FencedLease
  <1>3. PICK row \in TaskRow : row = Unlease(task[q], "succeeded")
    BY <1>1, UnleaseType DEF TaskStatus, TaskTerminal
  <1>4. task' = [task EXCEPT ![q] = row]
    BY <1>3 DEF CompleteRecoveryTask
  <1>5. /\ task'[q] = row
        /\ \A u \in Tasks \ {q} : task'[u] = task[u]
    BY <1>1, <1>4
  <1>6. /\ row.status = "succeeded" /\ row.attempt = task[q].attempt /\ row.owner = NoWorker
        /\ row.token = 0 /\ row.expires = Never /\ row.generation = task[q].generation
    BY <1>1, <1>3 DEF Unlease, TaskRow
  <1>7. attempt' = FinishAttempt(attempt, q, "succeeded")
    BY DEF CompleteRecoveryTask
  <1>8. RunTyped
    <2>1. task' \in [Tasks -> TaskRow]
      BY <1>1, <1>4
    <2>2. AttemptType(attempt')
      BY <1>1, <1>7, FinishAttemptType DEF AttemptOutcome
    <2>3. /\ now' \in Nat /\ child' \in [Tasks -> ChildRow]
          /\ stage' \in StageTable /\ wait' \in WaitTable
      BY DEF SafeInv, TypeOK, StageTable, WaitTable
    <2> QED BY <1>1, <2>1, <2>2, <2>3, LoggedFields DEF RunTyped
  <1>9. TypeOK'
    BY <1>8, TypeHalves
  <1>10. Kept
    BY <1>1, <1>2, LoggedFields DEF Kept, RunActive, RunTerminal
  <1>11. RunProjection'
    BY <1>1, <1>10, ProjectionKept DEF SafeInv
  <1>12. WaitResume'
    <2>1. \A w \in Waits : ResumeTask[w] \in Tasks \ {q}
      BY RowAssumption, ExternalAssumption
    <2> QED BY <1>5, <2>1, WaitsKept DEF SafeInv
  <1>13. SafeInv'
    <2>1. Dropped(task[q], task'[q]) /\ GenOK(task[q], task'[q], run.generation)
      BY <1>2, <1>5, <1>6 DEF Dropped, GenOK, TaskOpen
    <2>2. \A u \in Tasks \ {q} : /\ Soft(task[u], task'[u])
                                 /\ GenOK(task[u], task'[u], run.generation)
      BY <1>5 DEF Soft, GenOK
    <2>3. run'.status \in RunActive \cup FinishStatuses /\ run'.generation = run.generation
      BY <1>1, <1>2, LoggedFields
    <2>4. task'[q].status = "succeeded"
      BY <1>5, <1>6
    <2> QED BY <1>1, <1>2, <1>7, <1>9, <1>11, <1>12, <2>1, <2>2, <2>3, <2>4, FinishStep
            DEF AttemptOutcome
  <1>14. LifeStep
    BY <1>1, LoggedFields, LifeNoted
  <1>15. run.status \notin RunTerminal
    BY <1>2 DEF RunActive, RunTerminal
  <1> QED BY <1>13, <1>14, <1>15 DEF RunSide

\* apply_due_work inserts a recovery Task that did not exist, like an event
\* inserts a resume Task.
LEMMA DueWorkSide ==
  ASSUME SafeInv, NEW h, h.due \in Nat, NEW q \in RecoveryTasks, ApplyDueWork(h, q),
         tool' \in ToolTable, agent' \in AgentTable
  PROVE  RunSide
  <1>1. PICK dbnow \in DbNow : ApplyDueWork(h, q)!(dbnow)
    BY DEF ApplyDueWork
  <1>2. /\ run \in RunRow /\ run.status \in RunStatus /\ run.generation \in Nat
        /\ task \in [Tasks -> TaskRow] /\ q \in Tasks
        /\ RowInv(q, task[q], attempt[q], run.generation)
    BY SafeTables, ExternalAssumption
  <1>3. PICK st \in {"scheduled", "queued"}, s \in {"paused", "queued"} :
          /\ task' = [task EXCEPT ![q] = NewTask(st, run.generation, h.due)]
          /\ run' = Advance(run, s)
          /\ s = "paused" <=> run.status = "paused"
    <2>1. CASE run.status = "paused"
      BY <1>1, <2>1
    <2>2. CASE run.status # "paused"
      BY <1>1, <2>2
    <2> QED BY <2>1, <2>2
  <1>4. task[q].status = "absent" /\ run.status \notin RunTerminal
    BY <1>1 DEF DueWorkRunValid
  <1>5. task[q].attempt = 0 /\ task[q].owner = NoWorker /\ task[q].token = 0
        /\ task[q].expires = Never
    BY <1>2, <1>4 DEF RowInv
  <1>6. PICK row \in TaskRow : row = NewTask(st, run.generation, h.due)
    BY <1>2, NewTaskType DEF TaskStatus, TaskOpen
  <1>7. task'[q] = row /\ \A u \in Tasks \ {q} : task'[u] = task[u]
    BY <1>2, <1>3, <1>6
  <1>8. /\ row.status = st /\ row.generation = run.generation /\ row.attempt = 0
        /\ row.owner = NoWorker /\ row.token = 0 /\ row.expires = Never
    BY <1>6 DEF NewTask
  <1>9. RunTyped
    <2>1. task' \in [Tasks -> TaskRow]
      BY <1>2, <1>3, <1>6
    <2>2. run' \in RunRow
      BY <1>2, <1>3, AdvanceType DEF RunStatus, RunActive
    <2> QED BY <1>1, <2>1, <2>2 DEF RunTyped, SafeInv, TypeOK, AttemptType, StageTable, WaitTable
  <1>10. TypeOK'
    BY <1>9, TypeHalves
  <1>11. Moved(s) \/ Kept
    <2>1. s # "paused" => run.status \in RunActive /\ s \in RunActive
      BY <1>2, <1>3, <1>4 DEF RunStatus, RunActive
    <2> QED BY <1>2, <1>3, <1>4, <2>1, RunFields DEF Moved, Kept
  <1>12. \A u \in Tasks : Soft(task[u], task'[u]) /\ GenOK(task[u], task'[u], run.generation)
    BY <1>4, <1>5, <1>7, <1>8 DEF Soft, GenOK, IdleStatus
  <1>13. WaitResume'
    <2>1. \A w \in Waits : ResumeTask[w] \in Tasks \ {q}
      BY RowAssumption, ExternalAssumption
    <2> QED BY <1>1, <1>7, <2>1, WaitsKept DEF SafeInv
  <1>14. SafeInv'
    BY <1>1, <1>10, <1>11, <1>12, <1>13, SoftStep
  <1>15. LifeStep
    <2>1. CASE s = "paused"
      <3>1. LogEvent
        BY <1>3, <2>1 DEF LogEvent
      <3> QED BY <1>2, <3>1, LoggedFields, LifeNoted
    <2>2. CASE s # "paused"
      <3>1. run.status \in RunActive /\ s \in RunActive
        BY <1>2, <1>3, <1>4, <2>2 DEF RunStatus, RunActive
      <3> QED BY <1>2, <1>3, <3>1, LifeMoved
    <2> QED BY <2>1, <2>2
  <1> QED BY <1>4, <1>14, <1>15 DEF RunSide

\* A stale execution moves an active Run to retrying.  On a paused Run the UPDATE
\* would break ck_runs__suspended_from, so no such step commits.
LEMMA StaleSide ==
  ASSUME SafeInv, run.status \notin RunTerminal, run' = RunAfterStale, SuspendedCheck(run'),
         WorkflowUnchanged, tool' \in ToolTable, agent' \in AgentTable
  PROVE  RunSide
  <1>1. run \in RunRow /\ run.status \in RunStatus /\ RunProjection
    BY SafeTables DEF SafeInv
  <1>2. PICK s \in {"paused", "retrying"} :
          /\ run' = [Advance(run, s) EXCEPT !.suspended_from = "none"]
          /\ s = "paused" <=> run.status = "paused"
    BY DEF RunAfterStale
  <1>3. Advance(run, s) \in RunRow
    BY <1>1, AdvanceType DEF RunStatus, RunActive
  <1>4. /\ run'.status = s /\ run'.version = Advance(run, s).version
        /\ run'.generation = run.generation /\ run'.terminal_seq = run.terminal_seq
        /\ run'.next_seq = run.next_seq + 1 /\ run'.suspended_from = "none"
    BY <1>1, <1>2, <1>3, RunFields DEF RunRow
  <1>5. s = "retrying" /\ run.status \in RunActive
    BY <1>1, <1>2, <1>4 DEF SuspendedCheck, RunStatus
  <1>6. run.suspended_from = "none"
    BY <1>1, <1>5 DEF RunProjection, RunActive
  <1>7. Moved("retrying")
    BY <1>4, <1>5, <1>6 DEF Moved, RunActive
  <1>8. run' \in RunRow
    BY <1>2, <1>3 DEF RunRow
  <1>9. TypeOK'
    <2>1. RunTyped
      BY <1>8 DEF RunTyped, WorkflowUnchanged, SafeInv, TypeOK, AttemptType, StageTable, WaitTable
    <2> QED BY <2>1, TypeHalves
  <1>10. SafeInv'
    <2>1. \A u \in Tasks : Soft(task[u], task'[u]) /\ GenOK(task[u], task'[u], run.generation)
      BY DEF WorkflowUnchanged, Soft, GenOK
    <2>2. WaitResume' /\ attempt' = attempt
      BY DEF WorkflowUnchanged, SafeInv, WaitResume
    <2> QED BY <1>7, <1>9, <2>1, <2>2, SoftStep
  <1>11. LifeStep
    <2>1. run' = [Advance(run, s) EXCEPT !.suspended_from = run.suspended_from]
      BY <1>2, <1>6
    <2>2. run' = Advance(run, s)
      BY <1>1, <1>3, <2>1, RunFields DEF RunRow
    <2> QED BY <1>1, <1>5, <2>2, LifeMoved DEF RunActive
  <1> QED BY <1>10, <1>11 DEF RunSide

\* A step of a process or a remote system that commits nothing.
LEMMA StillSide ==
  ASSUME SafeInv, UNCHANGED vars
  PROVE  RunSide
  BY StoreSide

----------------------------------------------------------------------------
\* The rows of the executions.

\* What the Run's own transactions may do to a Tool row: nothing, close it while
\* nothing was sent, or no longer know its outcome.
ControlledTool(old, new) ==
  \/ new = old
  \/ /\ old.status \in {"planned", "retry_scheduled"}
     /\ new = [old EXCEPT !.status = "failed"]
  \/ /\ old.status = "executing"
     /\ new = [old EXCEPT !.status = "outcome_unknown", !.recovery = "query_outcome"]

\* And to an Agent row: nothing, close it while nothing was sent, or ask it to stop.
ControlledAgent(old, new) ==
  \/ new = old
  \/ /\ old.status = "planned"
     /\ new = [old EXCEPT !.status = "cancelled", !.version = @ + 1]
  \/ /\ old.status \in {"submitting", "running"}
     /\ new = [old EXCEPT !.status = "stopping", !.version = @ + 1]

\* Only a pause, a cancel and a fatal failure touch executions, and the last two
\* commit only if the retry constraint of the Tool table holds afterwards.
LEMMA Controlled ==
  ASSUME TypeOK, [Next]_vars
  PROVE  /\ \A x \in Tools : ControlledTool(tool[x], tool'[x])
         /\ \A a \in Agents : ControlledAgent(agent[a], agent'[a])
         /\ tool' = tool \/ RetryScheduleCheck(tool')
  <1>0. tool \in ToolTable /\ agent \in AgentTable
    BY DEF TypeOK, ToolTable, AgentTable
  <1>1. CASE tool' = tool /\ agent' = agent
    BY <1>1 DEF ControlledTool, ControlledAgent
  <1>2. CASE tool' = tool /\ agent' = RequestStops(agent)
    BY <1>0, <1>2 DEF ControlledTool, ControlledAgent, RequestStops, AgentTable
  <1>3. CASE /\ tool' = MarkToolsUncertain(CloseUnstartedTools(tool))
             /\ agent' = RequestStops(CloseUnstartedAgents(agent))
             /\ RetryScheduleCheck(tool')
    <2>1. ASSUME NEW x \in Tools PROVE ControlledTool(tool[x], tool'[x])
      <3>1. tool[x] \in ToolRow
        BY <1>0 DEF ToolTable
      <3>2. PICK t \in ToolTable : t = CloseUnstartedTools(tool)
        BY <1>0, ToolTypes
      <3>3. t[x] = IF tool[x].status \in {"planned", "retry_scheduled"}
                     THEN [tool[x] EXCEPT !.status = "failed"] ELSE tool[x]
        BY <3>2 DEF CloseUnstartedTools
      <3>4. tool'[x] = IF t[x].status = "executing"
                THEN [t[x] EXCEPT !.status = "outcome_unknown", !.recovery = "query_outcome"]
                ELSE t[x]
        BY <1>3, <3>2 DEF MarkToolsUncertain
      <3> QED BY <3>1, <3>3, <3>4 DEF ControlledTool, ToolRow
    <2>2. ASSUME NEW a \in Agents PROVE ControlledAgent(agent[a], agent'[a])
      <3>1. agent[a] \in AgentRow
        BY <1>0 DEF AgentTable
      <3>2. PICK g \in AgentTable : g = CloseUnstartedAgents(agent)
        BY <1>0, AgentTypes
      <3>3. g[a] = IF agent[a].status = "planned"
              THEN [agent[a] EXCEPT !.status = "cancelled", !.version = @ + 1] ELSE agent[a]
        BY <3>2 DEF CloseUnstartedAgents
      <3>4. agent'[a] = IF g[a].status \in {"submitting", "running"}
              THEN [g[a] EXCEPT !.status = "stopping", !.version = @ + 1] ELSE g[a]
        BY <1>3, <3>2 DEF RequestStops
      <3>5. agent[a].status = "planned" => g[a].status = "cancelled"
        BY <3>1, <3>3 DEF AgentRow
      <3> QED BY <3>1, <3>3, <3>4, <3>5 DEF ControlledAgent
    <2> QED BY <1>3, <2>1, <2>2
  <1>4. ASSUME NEW t \in Tasks, NEW k \in AttemptNumbers(t), WorkerStep(t, k)
        PROVE  \/ tool' = tool /\ agent' = agent
               \/ /\ tool' = MarkToolsUncertain(CloseUnstartedTools(tool))
                  /\ agent' = RequestStops(CloseUnstartedAgents(agent))
                  /\ RetryScheduleCheck(tool')
    <2>1. CASE RenewTaskLease(t, k) \/ FailTaskRetry(t, k) \/ FailTaskDeadLetter(t, k)
      BY <2>1 DEF RenewTaskLease, FailTaskRetry, FailTaskDeadLetter
    <2>2. CASE FailTaskFatal(t, k)
      BY <2>2 DEF FailTaskFatal
    <2>3. CASE CompleteWithTasks(t, k) \/ CompleteWithRetry(t, k) \/ CompleteWithWait(t, k)
      BY <2>3 DEF CompleteWithTasks, CompleteWithRetry, CompleteWithWait, Completion
    <2>4. CASE CompleteAndFinish(t, k) \/ CompleteNoFurtherWork(t, k)
      BY <2>4 DEF CompleteAndFinish, CompleteNoFurtherWork, Completion
    <2> QED BY <1>4, <2>1, <2>2, <2>3, <2>4 DEF WorkerStep
  <1>5. CASE PauseRun
    <2>1. tool' = tool /\ agent' = RequestStops(agent)
      BY <1>5 DEF PauseRun
    <2> QED BY <1>2, <2>1
  <1>6. CASE CancelRun
    BY <1>3, <1>6 DEF CancelRun
  <1>7. CASE \/ \E w \in Workers, t \in Tasks : ClaimTask(w, t)
             \/ \E t \in Tasks : ReclaimExpiredLease(t)
             \/ \E w \in Waits : ApplyEvent(MatchKey[w])
    <2>1. tool' = tool /\ agent' = agent
      BY <1>7 DEF ClaimTask, ReclaimExpiredLease, ApplyEvent
    <2> QED BY <1>1, <2>1
  <1>8. CASE \/ RevisePlan \/ ApplyContextPatch \/ ResumeRun \/ TimeOutRun \/ Tick
             \/ \E w \in Waits : ExpireWait(w)
    <2>1. tool' = tool /\ agent' = agent
      BY <1>8 DEF RevisePlan, ApplyContextPatch, ResumeRun, TimeOutRun, ExpireWait, TimeOut, Tick
    <2> QED BY <1>1, <2>1
  <1>9. CASE \/ \E t \in Tasks : CreateChildRun(t) \/ ChildRunEnds(t)
             \/ \E t \in Tasks, policy \in {"all", "any"} : EvaluateChildRunJoin(t, policy)
             \/ UNCHANGED vars
    <2>1. tool' = tool /\ agent' = agent
      BY <1>9 DEF CreateChildRun, ChildRunEnds, EvaluateChildRunJoin, vars
    <2> QED BY <1>1, <2>1
  <1> QED BY <1>1, <1>3, <1>4, <1>5, <1>6, <1>7, <1>8, <1>9 DEF Next

\* A step of the Run's own transactions is a step of the store.
LEMMA RunStepIsNext == RunStep => Next
  BY DEF RunStep, Next

----------------------------------------------------------------------------
(***************************************************************************)
(* The inductive invariant of the composed system.                         *)
(***************************************************************************)

OriginRow == [exec : Executions \cup {"none"}, due : OptTime, revision : Nat]
HintRow == [exec : Executions, due : Nat, revision : Nat, version : Nat, generation : Nat,
            checkpoint : Nat]
CallRow == [exec : Executions, rev : Nat, phase : {"ready", "sent"}]
RemoteStatus == {"none", "running"} \cup RemoteTerminal

\* What a poller may hold: an outcome, or a batch of events.
OutcomeStatus == {"reconciling", "manual_review"} \cup AgentTerminal
OutcomeRow == [kind : {"outcome"}, exec : Agents, version : Nat, cursor : Nat,
               status : OutcomeStatus, batch : {{}}]
EventsRow == [kind : {"events"}, exec : Agents, version : Nat, cursor : Nat,
              status : {"running", "reconciling"}, batch : RemoteBatches]
HeldRow == {Idle} \cup OutcomeRow \cup EventsRow

\* The types of the store's remaining tables and of what the processes hold.
StoreTypes ==
  /\ origin \in [RecoveryTasks -> OriginRow]
  /\ receipts \in [Agents -> SUBSET RemoteEvents]
  /\ logged \in [Agents -> [RemoteEvents -> Nat]]

ProcessTypes ==
  /\ calls \subseteq CallRow
  /\ sent \in [Tools -> [1 .. MaxToolAttempts -> Nat]]
  /\ hint \in HintRow \cup {NoHint}
  /\ remote \in [Agents -> RemoteStatus]
  /\ polled \in [Pollers -> HeldRow]

\* A remote Run exists when the store knows it and when a submission reached it.
RemoteExists ==
  /\ \A a \in Agents : agent[a].remote = "known" => remote[a] # "none"
  /\ \A c \in calls : c.exec \in Agents /\ c.phase = "sent" => remote[c.exec] # "none"

WorkInv ==
  /\ SafeInv
  /\ StoreTypes
  /\ ProcessTypes
  /\ RemoteExists
  /\ RetryTimesValid
  /\ EventLoggedOnce

\* The tables of such a state, one by one.
LEMMA WorkTables ==
  ASSUME WorkInv
  PROVE  /\ SafeInv /\ run \in RunRow /\ now \in Nat
         /\ tool \in ToolTable /\ agent \in AgentTable
         /\ \A x \in Tools : tool[x] \in ToolRow
         /\ \A a \in Agents : agent[a] \in AgentRow /\ agent[a].version \in Nat
  BY DEF WorkInv, SafeInv, TypeOK, ToolTable, AgentTable, AgentRow

\* What the step leaves of the Tools.
ToolsSide == tool' \in ToolTable /\ RetryScheduleCheck(tool')

\* What it leaves of the Agents; a stopping one is not set running again.
AgentsSide ==
  /\ agent' \in AgentTable
  /\ \A a \in Agents :
       /\ agent'[a].retry_at # Never => agent'[a].status = "reconciling"
       /\ agent[a].status = "stopping" => agent'[a].status # "running"
       /\ agent'[a].remote = "known" => remote'[a] # "none"

\* Untouched Tools stay valid.
LEMMA ToolsKept ==
  ASSUME WorkInv, tool' = tool
  PROVE  ToolsSide
  BY WorkTables DEF ToolsSide, WorkInv, RetryTimesValid

\* Untouched Agents stay valid, as a remote Run does not disappear.
LEMMA AgentsKept ==
  ASSUME WorkInv, agent' = agent, \A a \in Agents : remote[a] # "none" => remote'[a] # "none"
  PROVE  AgentsSide
  BY WorkTables DEF AgentsSide, WorkInv, RetryTimesValid, RemoteExists

\* A Tool row is written with a retry time exactly if it is scheduled for retry.
LEMMA ToolWritten ==
  ASSUME WorkInv, NEW x \in Tools, NEW row \in ToolRow, tool' = [tool EXCEPT ![x] = row],
         row.status = "retry_scheduled" <=> row.retry_at # Never
  PROVE  ToolsSide
  <1>1. tool \in ToolTable /\ RetryScheduleCheck(tool)
    BY WorkTables DEF WorkInv, RetryTimesValid
  <1>2. tool'[x] = row /\ \A y \in Tools \ {x} : tool'[y] = tool[y]
    BY <1>1 DEF ToolTable
  <1>3. tool' \in ToolTable
    BY <1>1 DEF ToolTable
  <1> QED BY <1>1, <1>2, <1>3 DEF ToolsSide, RetryScheduleCheck

\* An Agent row is written.
LEMMA AgentWritten ==
  ASSUME WorkInv, NEW b \in Agents, NEW row \in AgentRow, agent' = [agent EXCEPT ![b] = row],
         remote' = remote,
         row.retry_at # Never => row.status = "reconciling",
         agent[b].status = "stopping" => row.status # "running",
         row.remote = "known" => remote[b] # "none"
  PROVE  AgentsSide
  <1>1. agent \in AgentTable
    BY WorkTables
  <1>2. agent'[b] = row /\ \A a \in Agents \ {b} : agent'[a] = agent[a]
    BY <1>1 DEF AgentTable
  <1>3. agent' \in AgentTable
    BY <1>1 DEF AgentTable
  <1>4. \A a \in Agents : /\ agent[a].retry_at # Never => agent[a].status = "reconciling"
                          /\ agent[a].remote = "known" => remote[a] # "none"
    BY DEF WorkInv, RetryTimesValid, RemoteExists
  <1> QED BY <1>2, <1>3, <1>4 DEF AgentsSide

\* What the step leaves of the events a remote delivered.
EventsSide ==
  /\ receipts' \in [Agents -> SUBSET RemoteEvents]
  /\ logged' \in [Agents -> [RemoteEvents -> Nat]]
  /\ EventLoggedOnce'

\* Untouched receipts stay valid.
LEMMA EventsKept ==
  ASSUME WorkInv, UNCHANGED <<receipts, logged>>
  PROVE  EventsSide
  BY DEF WorkInv, StoreTypes, EventsSide, EventLoggedOnce

\* What the step leaves of the origins of recovery Tasks and of the processes.
ProcessSide ==
  /\ origin' \in [RecoveryTasks -> OriginRow]
  /\ ProcessTypes'
  /\ \A c \in calls' : c.exec \in Agents /\ c.phase = "sent" => remote'[c.exec] # "none"

\* The parts make the invariant.
LEMMA SidesMakeInv ==
  ASSUME RunSide, ToolsSide, AgentsSide, EventsSide, ProcessSide
  PROVE  WorkInv'
  <1>1. StoreTypes' /\ ProcessTypes' /\ EventLoggedOnce'
    BY DEF EventsSide, ProcessSide, StoreTypes
  <1>2. RemoteExists'
    BY DEF AgentsSide, ProcessSide, RemoteExists
  <1>3. RetryTimesValid'
    BY DEF ToolsSide, AgentsSide, RetryTimesValid
  <1> QED BY <1>1, <1>2, <1>3 DEF RunSide, WorkInv

AllSides == RunSide /\ ToolsSide /\ AgentsSide /\ EventsSide /\ ProcessSide

\* Calls that end, and a call that is ready to go out, are fine.
LEMMA CallsMoved ==
  ASSUME WorkInv, UNCHANGED <<origin, sent, hint, remote, polled>>, NEW e \in Executions,
         NEW rev \in Nat, calls' \subseteq calls \cup {Call(e, rev)}
  PROVE  ProcessSide
  <1>1. Call(e, rev) \in CallRow /\ Call(e, rev).phase = "ready"
    BY DEF Call, CallRow
  <1>2. calls' \subseteq CallRow
    BY <1>1 DEF WorkInv, ProcessTypes
  <1> QED BY <1>1, <1>2 DEF WorkInv, ProcessSide, ProcessTypes, StoreTypes, RemoteExists

\* Calls that end are fine.
LEMMA CallsEnd ==
  ASSUME WorkInv, UNCHANGED <<origin, sent, hint, remote, polled>>, calls' \subseteq calls
  PROVE  ProcessSide
  BY DEF WorkInv, ProcessSide, ProcessTypes, StoreTypes, RemoteExists

\* A worker prepares a Tool execution.
LEMMA StartToolKeeps ==
  ASSUME WorkInv, NEW t \in Tasks, NEW k, NEW x \in Tools, StartTool(t, k, x)
  PROVE  AllSides
  <1>1. /\ LogEvent /\ WorkflowUnchanged /\ UNCHANGED <<agent, origin, receipts, logged>>
        /\ tool' = [tool EXCEPT ![x] = [status |-> "executing", attempt |-> 1, unfinished |-> 1,
                                        recovery |-> "none", retry_at |-> Never]]
    BY DEF StartTool, PrepareToolExecution
  <1>2. calls' = calls \cup {Call(x, 1)} /\ UNCHANGED <<sent, hint, remote, polled>>
    BY DEF StartTool
  <1>3. ToolsSide
    <2>1. PICK row : row = [status |-> "executing", attempt |-> 1, unfinished |-> 1,
                            recovery |-> "none", retry_at |-> Never]
      OBVIOUS
    <2>2. /\ row \in ToolRow
          /\ row.status = "retry_scheduled" <=> row.retry_at # Never
      BY <2>1 DEF ToolRow, ToolStatus, ToolUnresolved, RecoveryAction, OptTime
    <2> QED BY <1>1, <2>1, <2>2, ToolWritten
  <1>4. AgentsSide
    BY <1>1, <1>2, AgentsKept
  <1>5. EventsSide
    BY <1>1, EventsKept
  <1>6. RunSide
    BY <1>1, <1>3, <1>4, WorkTables, EvidenceSide DEF ToolsSide, AgentsSide
  <1>7. ProcessSide
    BY <1>1, <1>2, CallsMoved DEF Executions
  <1> QED BY <1>3, <1>4, <1>5, <1>6, <1>7 DEF AllSides

\* The outcome of a Tool attempt is recorded.
LEMMA FinishToolKeeps ==
  ASSUME WorkInv, NEW c \in calls, NEW o \in ToolOutcomes, FinishTool(c, o)
  PROVE  AllSides
  <1>1. c.exec \in Tools /\ calls' = calls \ {c} /\ UNCHANGED <<sent, hint, remote, polled>>
    BY DEF FinishTool
  <1>2. PICK dbnow \in DbNow, d \in RetryDelays : RecordToolOutcome(c.exec, c.rev, o)!(dbnow, d)
    BY DEF FinishTool, RecordToolOutcome
  <1>3. LogEvent /\ WorkflowUnchanged /\ UNCHANGED <<agent, origin, receipts, logged>>
    BY <1>2
  <1>4. ToolsSide
    <2>1. dbnow + d \in Nat
      BY DbNowNat, ExternalAssumption
    <2>2. c.rev \in Nat
      BY DEF WorkInv, ProcessTypes, CallRow
    <2>3. /\ ToolProjection[o].status \in ToolStatus /\ ToolProjection[o].recovery \in RecoveryAction
          /\ ToolProjection[o].status = "retry_scheduled" <=> o = "backoff"
      BY DEF ToolOutcomes, ToolProjection, ToolStatus, ToolTerminal, ToolUnresolved, RecoveryAction
    <2>4. PICK row : row = [status |-> ToolProjection[o].status, attempt |-> c.rev, unfinished |-> 0,
                            recovery |-> ToolProjection[o].recovery,
                            retry_at |-> IF o = "backoff" THEN dbnow + d ELSE Never]
      OBVIOUS
    <2>5. /\ row \in ToolRow
          /\ row.status = "retry_scheduled" <=> row.retry_at # Never
      BY <2>1, <2>2, <2>3, <2>4 DEF ToolRow, OptTime, Never
    <2>6. tool' = [tool EXCEPT ![c.exec] = row]
      BY <1>2, <2>4
    <2> QED BY <1>1, <2>5, <2>6, ToolWritten
  <1>5. AgentsSide
    BY <1>1, <1>3, AgentsKept
  <1>6. EventsSide
    BY <1>3, EventsKept
  <1>7. RunSide
    BY <1>3, <1>4, <1>5, WorkTables, EvidenceSide DEF ToolsSide, AgentsSide
  <1>8. ProcessSide
    BY <1>1, <1>3, CallsEnd
  <1> QED BY <1>4, <1>5, <1>6, <1>7, <1>8 DEF AllSides

\* The recovery worker begins the next attempt of a Tool.
LEMMA RecoverToolKeeps ==
  ASSUME WorkInv, NEW q \in RecoveryTasks, NEW k, NEW x \in Tools, RecoverTool(q, k, x)
  PROVE  AllSides
  <1>1. UNCHANGED <<sent, hint, remote, polled>>
    BY DEF RecoverTool
  <1>2. PICK n : n = origin[q].revision
    OBVIOUS
  <1>3. PICK dbnow \in DbNow : BeginToolRetryAttempt(q, k, x, n)!(dbnow)
    BY <1>2 DEF RecoverTool, BeginToolRetryAttempt
  <1>4. tool[x] \in ToolRow /\ tool[x].attempt = n /\ tool[x].retry_at = Never /\ n \in Nat
    BY <1>3, WorkTables DEF ToolRow
  <1>5. PICK row : row = [tool[x] EXCEPT !.status = "executing", !.attempt = n + 1,
                                         !.unfinished = n + 1, !.recovery = "none"]
    OBVIOUS
  <1>6. /\ row \in ToolRow /\ row.attempt = n + 1
        /\ row.status = "retry_scheduled" <=> row.retry_at # Never
    <2>1. n + 1 \in Nat
      BY <1>4
    <2>2. row \in ToolRow
      BY <1>4, <1>5, <2>1 DEF ToolRow, ToolStatus, ToolUnresolved, RecoveryAction
    <2>3. row.attempt = n + 1 /\ row.status = "executing" /\ row.retry_at = tool[x].retry_at
      BY <1>4, <1>5 DEF ToolRow
    <2> QED BY <1>4, <2>2, <2>3
  <1>7. tool' = [tool EXCEPT ![x] = row]
    BY <1>3, <1>5
  <1>8. ToolsSide
    BY <1>6, <1>7, ToolWritten
  <1>9. AgentsSide
    BY <1>1, <1>3, AgentsKept
  <1>10. EventsSide
    BY <1>3, EventsKept
  <1>11. RunSide
    BY <1>3, <1>8, <1>9, WorkTables, RecoverySide DEF ToolsSide, AgentsSide
  <1>12. ProcessSide
    <2>1. calls' = calls \cup {Call(x, n + 1)}
      <3>1. tool'[x].attempt = n + 1
        BY <1>6, <1>7, WorkTables DEF ToolTable
      <3> QED BY <3>1 DEF RecoverTool
    <2> QED BY <1>1, <1>3, <1>4, <2>1, CallsMoved DEF Executions
  <1> QED BY <1>8, <1>9, <1>10, <1>11, <1>12 DEF AllSides

\* A silent Tool execution is scheduled for another look.
LEMMA MaintainToolKeeps ==
  ASSUME WorkInv, NEW x \in Tools, MaintainTool(x)
  PROVE  AllSides
  <1>1. UNCHANGED workVars
    BY DEF MaintainTool
  <1>2. PICK dbnow \in DbNow : ApplyStaleTool(x)!(dbnow)
    BY DEF MaintainTool, ApplyStaleTool
  <1>3. ToolsSide
    <2>1. PICK row : row = [tool[x] EXCEPT !.status = "retry_scheduled",
                              !.recovery = "query_outcome", !.retry_at = dbnow]
      OBVIOUS
    <2>2. row \in ToolRow /\ row.status = "retry_scheduled" /\ row.retry_at # Never
      <3>1. tool[x] \in ToolRow /\ dbnow \in Nat
        BY WorkTables, DbNowNat
      <3>2. dbnow # Never /\ dbnow \in OptTime
        BY <3>1 DEF Never, OptTime
      <3> QED BY <2>1, <3>1, <3>2 DEF ToolRow, ToolStatus, RecoveryAction
    <2>3. tool' = [tool EXCEPT ![x] = row]
      BY <1>2, <2>1
    <2> QED BY <2>2, <2>3, ToolWritten
  <1>4. AgentsSide
    BY <1>1, <1>2, AgentsKept DEF workVars
  <1>5. EventsSide
    BY <1>2, EventsKept
  <1>6. RunSide
    BY <1>2, <1>3, <1>4, WorkTables, StaleSide DEF ToolsSide, AgentsSide, Stale
  <1>7. ProcessSide
    BY <1>1, <1>2, CallsEnd DEF workVars
  <1> QED BY <1>3, <1>4, <1>5, <1>6, <1>7 DEF AllSides

\* A worker prepares an Agent execution.
LEMMA StartAgentKeeps ==
  ASSUME WorkInv, NEW t \in Tasks, NEW k, NEW a \in Agents, StartAgent(t, k, a)
  PROVE  AllSides
  <1>1. /\ LogEvent /\ WorkflowUnchanged /\ UNCHANGED <<tool, origin, receipts, logged>>
        /\ agent' = [agent EXCEPT ![a].status = "submitting"]
        /\ agent[a].status = "absent"
    BY DEF StartAgent, PrepareAgentExecution, NewAgent
  <1>2. /\ calls' = calls \cup {Call(a, agent[a].version)}
        /\ UNCHANGED <<sent, hint, remote, polled>>
    BY DEF StartAgent
  <1>3. AgentsSide
    <2>1. agent[a] \in AgentRow
      BY WorkTables
    <2>2. PICK row : row = [agent[a] EXCEPT !.status = "submitting"]
      OBVIOUS
    <2>3. /\ row \in AgentRow /\ row.status = "submitting"
          /\ row.retry_at = agent[a].retry_at /\ row.remote = agent[a].remote
      BY <2>1, <2>2 DEF AgentRow, AgentStatus, AgentUnresolved
    <2>4. agent[a].retry_at = Never /\ (agent[a].remote = "known" => remote[a] # "none")
      BY <1>1 DEF WorkInv, RetryTimesValid, RemoteExists
    <2>5. agent' = [agent EXCEPT ![a] = row]
      BY <1>1, <2>2
    <2> QED BY <1>2, <2>3, <2>4, <2>5, AgentWritten
  <1>4. ToolsSide
    BY <1>1, ToolsKept
  <1>5. EventsSide
    BY <1>1, EventsKept
  <1>6. RunSide
    BY <1>1, <1>3, <1>4, WorkTables, EvidenceSide DEF ToolsSide, AgentsSide
  <1>7. ProcessSide
    BY <1>1, <1>2, WorkTables, CallsMoved DEF Executions
  <1> QED BY <1>3, <1>4, <1>5, <1>6, <1>7 DEF AllSides

\* An Agent execution is submitted again.
LEMMA ResubmitAgentKeeps ==
  ASSUME WorkInv, NEW q \in RecoveryTasks, NEW k, NEW a \in Agents, ResubmitAgent(q, k, a)
  PROVE  AllSides
  <1>1. UNCHANGED <<sent, hint, remote, polled>>
    BY DEF ResubmitAgent
  <1>2. PICK v : v = agent[a].version
    OBVIOUS
  <1>3. PICK dbnow \in DbNow : BeginAgentResubmission(q, k, a, v)!(dbnow)
    BY <1>2 DEF ResubmitAgent, BeginAgentResubmission
  <1>4. agent[a] \in AgentRow /\ v \in Nat /\ v + 1 \in Nat
    BY <1>2, WorkTables
  <1>5. PICK row : row = [agent[a] EXCEPT !.status = "outcome_unknown", !.version = v + 1,
                                          !.poll_at = Never]
    OBVIOUS
  <1>6. /\ row \in AgentRow /\ row.version = v + 1 /\ row.status = "outcome_unknown"
        /\ row.retry_at = Never /\ row.remote = "none"
    BY <1>3, <1>4, <1>5 DEF AgentRow, AgentStatus, AgentUnresolved, OptTime
  <1>7. agent' = [agent EXCEPT ![a] = row]
    BY <1>3, <1>5
  <1>8. AgentsSide
    BY <1>1, <1>6, <1>7, AgentWritten
  <1>9. ToolsSide
    BY <1>3, ToolsKept
  <1>10. EventsSide
    BY <1>3, EventsKept
  <1>11. RunSide
    BY <1>3, <1>8, <1>9, WorkTables, RecoverySide DEF ToolsSide, AgentsSide
  <1>12. ProcessSide
    <2>1. calls' = calls \cup {Call(a, v + 1)}
      <3>1. agent'[a].version = v + 1
        BY <1>6, <1>7, WorkTables DEF AgentTable
      <3> QED BY <3>1 DEF ResubmitAgent
    <2> QED BY <1>1, <1>3, <1>4, <2>1, CallsMoved DEF Executions
  <1> QED BY <1>8, <1>9, <1>10, <1>11, <1>12 DEF AllSides

\* The outcome of a submission is recorded.
LEMMA FinishSubmissionKeeps ==
  ASSUME WorkInv, NEW c \in calls, NEW o \in SubmissionOutcomes, FinishSubmission(c, o)
  PROVE  AllSides
  <1>1. /\ c.exec \in Agents /\ o \in RecordableSubmission(c.phase)
        /\ calls' = calls \ {c} /\ UNCHANGED <<sent, hint, remote, polled>>
    BY DEF FinishSubmission
  <1>2. PICK a \in Agents : a = c.exec
    BY <1>1
  <1>2a. PICK v : v = c.rev
    OBVIOUS
  <1>3. PICK dbnow \in DbNow, d \in RetryDelays : RecordAgentSubmission(a, v, o)!(dbnow, d)
    BY <1>2, <1>2a DEF FinishSubmission, RecordAgentSubmission
  <1>4. LogEvent /\ WorkflowUnchanged /\ UNCHANGED <<tool, origin, receipts, logged>>
    BY <1>3
  <1>5. AgentsSide
    <2>1. dbnow + d \in Nat /\ dbnow \in Nat
      BY DbNowNat, ExternalAssumption
    <2>2. agent[a] \in AgentRow /\ agent[a].version + 1 \in Nat
      BY WorkTables
    <2>3. PICK s : s = SubmittedStatus(a, v, o)
      OBVIOUS
    <2>4. /\ s \in AgentStatus
          /\ o = "backoff" => s = "reconciling"
          /\ agent[a].status = "stopping" => s # "running"
      BY <1>3, <2>3 DEF SubmittedStatus, SubmissionProjection, SubmissionOutcomes, AgentStatus,
           AgentTerminal, AgentUnresolved, AwaitsSubmission
    <2>5. PICK row : row = [agent[a] EXCEPT !.status = s, !.version = @ + 1,
                              !.remote = IF o = "accepted" THEN "known" ELSE "none",
                              !.retry_at = IF o = "backoff" THEN dbnow + d ELSE Never,
                              !.poll_at = IF s = "running" THEN dbnow ELSE Never]
      OBVIOUS
    <2>6. row \in AgentRow
      BY <2>1, <2>2, <2>4, <2>5, ZenonT(60) DEF AgentRow, OptTime
    <2>7. /\ row.status = s /\ (row.retry_at # Never => o = "backoff")
          /\ row.remote = "known" => o = "accepted"
      BY <2>2, <2>5 DEF AgentRow
    <2>8. o = "accepted" => remote[a] # "none"
      BY <1>1, <1>2 DEF RecordableSubmission, WorkInv, RemoteExists
    <2>9. agent' = [agent EXCEPT ![a] = row]
      BY <1>3, <2>2, <2>3, <2>5 DEF AgentRow
    <2> QED BY <1>1, <2>4, <2>6, <2>7, <2>8, <2>9, AgentWritten
  <1>6. ToolsSide
    BY <1>4, ToolsKept
  <1>7. EventsSide
    BY <1>4, EventsKept
  <1>8. RunSide
    BY <1>4, <1>5, <1>6, WorkTables, EvidenceSide DEF ToolsSide, AgentsSide
  <1>9. ProcessSide
    BY <1>1, <1>4, CallsEnd
  <1> QED BY <1>5, <1>6, <1>7, <1>8, <1>9 DEF AllSides

\* A silent Agent execution is reconciled.
LEMMA MaintainAgentKeeps ==
  ASSUME WorkInv, NEW a \in Agents, MaintainAgent(a)
  PROVE  AllSides
  <1>1. UNCHANGED workVars
    BY DEF MaintainAgent
  <1>2. PICK dbnow \in DbNow : ApplyStaleAgent(a)!(dbnow)
    BY DEF MaintainAgent, ApplyStaleAgent
  <1>3. AgentsSide
    <2>1. agent[a] \in AgentRow /\ agent[a].version + 1 \in Nat /\ dbnow \in Nat
      BY WorkTables, DbNowNat
    <2>2. PICK row : row = [agent[a] EXCEPT !.status = "reconciling", !.version = @ + 1,
                              !.retry_at = IF agent[a].remote = "none" THEN dbnow ELSE Never,
                              !.poll_at = IF agent[a].remote = "known" THEN dbnow ELSE Never]
      OBVIOUS
    <2>3. row \in AgentRow /\ row.status = "reconciling" /\ row.remote = agent[a].remote
      BY <2>1, <2>2 DEF AgentRow, AgentStatus, AgentUnresolved, OptTime
    <2>4. agent' = [agent EXCEPT ![a] = row]
      BY <1>2, <2>1, <2>2 DEF AgentRow
    <2>5. agent[a].remote = "known" => remote[a] # "none"
      BY DEF WorkInv, RemoteExists
    <2> QED BY <1>1, <2>3, <2>4, <2>5, AgentWritten DEF workVars
  <1>4. ToolsSide
    BY <1>2, ToolsKept
  <1>5. EventsSide
    BY <1>2, EventsKept
  <1>6. RunSide
    BY <1>2, <1>3, <1>4, WorkTables, StaleSide DEF ToolsSide, AgentsSide, Stale
  <1>7. ProcessSide
    BY <1>1, <1>2, CallsEnd DEF workVars
  <1> QED BY <1>3, <1>4, <1>5, <1>6, <1>7 DEF AllSides

\* A poller that lets go of its candidate.
LEMMA PollerLetsGo ==
  ASSUME WorkInv, NEW p \in Pollers, polled' = [polled EXCEPT ![p] = Idle],
         UNCHANGED <<origin, calls, sent, hint, remote>>
  PROVE  ProcessSide
  <1>1. polled' \in [Pollers -> HeldRow]
    BY DEF WorkInv, ProcessTypes, HeldRow
  <1> QED BY <1>1 DEF WorkInv, ProcessSide, ProcessTypes, StoreTypes, RemoteExists

\* What a busy poller holds.
LEMMA HeldCandidate ==
  ASSUME WorkInv, NEW p \in Pollers, polled[p] # Idle
  PROVE  /\ polled[p] \in OutcomeRow \cup EventsRow
         /\ polled[p].kind = "outcome" => polled[p] \in OutcomeRow
         /\ polled[p].kind = "events" => polled[p] \in EventsRow
  <1>1. polled[p] \in OutcomeRow \cup EventsRow
    BY DEF WorkInv, ProcessTypes, HeldRow
  <1>2. (\A c \in OutcomeRow : c.kind = "outcome") /\ (\A c \in EventsRow : c.kind = "events")
    BY DEF OutcomeRow, EventsRow
  <1> QED BY <1>1, <1>2

\* An outcome is recorded, by whoever got it.
LEMMA OutcomeWritten ==
  ASSUME WorkInv, NEW a \in Agents, NEW v \in Nat, NEW s \in OutcomeStatus,
         RecordAgentOutcome(a, v, s), remote' = remote
  PROVE  RunSide /\ ToolsSide /\ AgentsSide /\ EventsSide /\ UNCHANGED origin
  <1>1. PICK dbnow \in DbNow, d \in RetryDelays : RecordAgentOutcome(a, v, s)!(dbnow, d)
    BY DEF RecordAgentOutcome
  <1>2. LogEvent /\ WorkflowUnchanged /\ UNCHANGED <<tool, origin, receipts, logged>>
    BY <1>1
  <1>3. AgentsSide
    <2>1. agent[a] \in AgentRow /\ dbnow + d \in Nat /\ v + 1 \in Nat
      BY WorkTables, DbNowNat, ExternalAssumption
    <2>2. s \in AgentStatus /\ s # "running"
      BY DEF OutcomeStatus, AgentStatus, AgentTerminal, AgentUnresolved
    <2>3. PICK row : row = [agent[a] EXCEPT !.status = s, !.version = v + 1, !.retry_at = Never,
                              !.poll_at = IF s = "reconciling" THEN dbnow + d ELSE Never]
      OBVIOUS
    <2>4. row \in AgentRow
      BY <2>1, <2>2, <2>3 DEF AgentRow, OptTime
    <2>5. row.status = s /\ row.retry_at = Never /\ row.remote = agent[a].remote
      BY <2>1, <2>3 DEF AgentRow
    <2>6. agent' = [agent EXCEPT ![a] = row]
      BY <1>1, <2>3
    <2>7. agent[a].remote = "known" => remote[a] # "none"
      BY DEF WorkInv, RemoteExists
    <2> QED BY <2>2, <2>4, <2>5, <2>6, <2>7, AgentWritten
  <1>4. ToolsSide
    BY <1>2, ToolsKept
  <1>5. EventsSide
    BY <1>2, EventsKept
  <1>6. RunSide
    BY <1>2, <1>3, <1>4, WorkTables, EvidenceSide DEF ToolsSide, AgentsSide
  <1> QED BY <1>2, <1>3, <1>4, <1>5, <1>6

\* The answer of a stop or status call is recorded.
LEMMA RecordOutcomeKeeps ==
  ASSUME WorkInv, NEW p \in Pollers, RecordPolled(p), RecordOutcome(polled[p])
  PROVE  AllSides
  <1>1. /\ polled[p] # Idle /\ polled' = [polled EXCEPT ![p] = Idle]
        /\ UNCHANGED <<calls, crashes, sent, hint, remote>>
    BY DEF RecordPolled
  <1>2. PICK c : c = polled[p]
    OBVIOUS
  <1>3. c \in OutcomeRow
    BY <1>1, <1>2, HeldCandidate DEF RecordOutcome
  <1>4. c.exec \in Agents /\ c.version \in Nat /\ c.status \in OutcomeStatus
    BY <1>3 DEF OutcomeRow
  <1>5. RecordAgentOutcome(c.exec, c.version, c.status)
    BY <1>2 DEF RecordOutcome
  <1>6. RunSide /\ ToolsSide /\ AgentsSide /\ EventsSide /\ UNCHANGED origin
    BY <1>1, <1>4, <1>5, OutcomeWritten
  <1>7. ProcessSide
    BY <1>1, <1>6, PollerLetsGo
  <1> QED BY <1>6, <1>7 DEF AllSides

\* A worker records its own outcome.
LEMMA WorkerReportsKeeps ==
  ASSUME WorkInv, NEW a \in Agents, WorkerReports(a)
  PROVE  AllSides
  <1>1. /\ RecordAgentOutcome(a, PreparedVersion + 1, "succeeded")
        /\ UNCHANGED <<calls, sent, hint, remote, polled>>
    BY DEF WorkerReports
  <1>2. PreparedVersion + 1 \in Nat /\ "succeeded" \in OutcomeStatus
    BY DEF PreparedVersion, AbsentAgent, OutcomeStatus, AgentTerminal
  <1>3. RunSide /\ ToolsSide /\ AgentsSide /\ EventsSide /\ UNCHANGED origin
    BY <1>1, <1>2, OutcomeWritten
  <1>4. ProcessSide
    BY <1>1, <1>3, CallsEnd
  <1> QED BY <1>3, <1>4 DEF AllSides

\* Receipts are inserted for the fresh events of a batch, and a local Event for
\* each of them that is authoritative.
LEMMA ReceiptsInserted ==
  ASSUME WorkInv, NEW a \in Agents, NEW batch \in RemoteBatches,
         InsertEventReceipts(a, FreshEvents(a, batch))
  PROVE  EventsSide
  <1>1. /\ receipts \in [Agents -> SUBSET RemoteEvents]
        /\ logged \in [Agents -> [RemoteEvents -> Nat]]
        /\ EventLoggedOnce
    BY DEF WorkInv, StoreTypes
  <1>2. PICK fresh : fresh = FreshEvents(a, batch)
    OBVIOUS
  <1>3. fresh \subseteq RemoteEvents /\ fresh = batch \ receipts[a]
    BY <1>2 DEF FreshEvents, RemoteBatches
  <1>4. /\ receipts' = [receipts EXCEPT ![a] = @ \cup fresh]
        /\ logged' = [logged EXCEPT ![a] = [e \in RemoteEvents |->
             IF e \in fresh \cap Authoritative THEN @[e] + 1 ELSE @[e]]]
    BY <1>2 DEF InsertEventReceipts
  <1>5. /\ receipts'[a] = receipts[a] \cup fresh
        /\ \A b \in Agents \ {a} : receipts'[b] = receipts[b]
    BY <1>1, <1>4
  <1>6. /\ logged'[a] = [e \in RemoteEvents |->
             IF e \in fresh \cap Authoritative THEN logged[a][e] + 1 ELSE logged[a][e]]
        /\ \A b \in Agents \ {a} : logged'[b] = logged[b]
    BY <1>1, <1>4
  <1>7. receipts' \in [Agents -> SUBSET RemoteEvents]
    <2>1. receipts[a] \cup fresh \in SUBSET RemoteEvents
      BY <1>1, <1>3
    <2> QED BY <1>1, <1>4, <2>1
  <1>8. logged' \in [Agents -> [RemoteEvents -> Nat]]
    <2>1. \A e \in RemoteEvents : logged[a][e] \in Nat /\ logged[a][e] + 1 \in Nat
      BY <1>1
    <2>2. logged'[a] \in [RemoteEvents -> Nat]
      BY <1>6, <2>1
    <2>3. logged' = [logged EXCEPT ![a] = logged'[a]]
      BY <1>1, <1>4
    <2> QED BY <1>1, <2>2, <2>3
  <1>9. EventLoggedOnce'
    <2> SUFFICES ASSUME NEW b \in Agents, NEW e \in RemoteEvents
                 PROVE  logged'[b][e] = IF e \in receipts'[b] \cap Authoritative THEN 1 ELSE 0
      BY DEF EventLoggedOnce
    <2>1. logged[b][e] = IF e \in receipts[b] \cap Authoritative THEN 1 ELSE 0
      BY <1>1 DEF EventLoggedOnce
    <2>2. CASE b = a
      BY <1>3, <1>5, <1>6, <2>1, <2>2
    <2>3. CASE b # a
      BY <1>5, <1>6, <2>1, <2>3
    <2> QED BY <2>2, <2>3
  <1> QED BY <1>7, <1>8, <1>9 DEF EventsSide

\* A batch of remote events is recorded.
LEMMA RecordEventsKeeps ==
  ASSUME WorkInv, NEW p \in Pollers, RecordPolled(p), RecordEvents(polled[p])
  PROVE  AllSides
  <1>1. /\ polled[p] # Idle /\ polled' = [polled EXCEPT ![p] = Idle]
        /\ UNCHANGED <<calls, crashes, sent, hint, remote>>
    BY DEF RecordPolled
  <1>2. PICK c : c = polled[p]
    OBVIOUS
  <1>3. c \in EventsRow
    BY <1>1, <1>2, HeldCandidate DEF RecordEvents
  <1>4. c.exec \in Agents /\ c.batch \in RemoteBatches
    BY <1>3 DEF EventsRow
  <1>5. PICK a \in Agents, terminal \in BOOLEAN :
          a = c.exec /\ terminal = (c.status = "reconciling")
    BY <1>4
  <1>6. PICK dbnow \in DbNow, d \in RetryDelays :
          AppendAgentEvents(a, c.cursor, c.batch, terminal)!(dbnow, d)
    BY <1>2, <1>5 DEF RecordEvents, AppendAgentEvents
  <1>7. WorkflowUnchanged /\ UNCHANGED <<tool, origin>>
    BY <1>6
  <1>8. AgentsSide
    <2>1. /\ agent[a] \in AgentRow /\ dbnow + d \in Nat
          /\ agent[a].version + 1 \in Nat /\ agent[a].cursor + 1 \in Nat
      BY WorkTables, DbNowNat, ExternalAssumption DEF AgentRow
    <2>2. agent[a].status = "running" /\ agent[a].retry_at = Never
      BY <1>6 DEF WorkInv, RetryTimesValid
    <2>3. PICK row : row = AgentAfterEvents(agent[a], terminal, dbnow + d)
      OBVIOUS
    <2>4. row \in AgentRow
      BY <2>1, <2>3 DEF AgentAfterEvents, AgentRow, AgentStatus, AgentUnresolved, OptTime
    <2>5. row.retry_at = Never /\ row.remote = agent[a].remote
      BY <2>1, <2>2, <2>3 DEF AgentAfterEvents, AgentRow
    <2>6. agent' = [agent EXCEPT ![a] = row]
      BY <1>6, <2>3
    <2>7. agent[a].remote = "known" => remote[a] # "none"
      BY DEF WorkInv, RemoteExists
    <2> QED BY <1>1, <2>2, <2>4, <2>5, <2>6, <2>7, AgentWritten
  <1>9. ToolsSide
    BY <1>7, ToolsKept
  <1>10. EventsSide
    BY <1>4, <1>6, ReceiptsInserted
  <1>11. RunSide
    <2>1. PICK n : n = Cardinality(FreshEvents(a, c.batch) \cap Authoritative)
      OBVIOUS
    <2>2. n \in Nat
      <3>1. IsFiniteSet(c.batch)
        BY <1>4 DEF RemoteBatches
      <3>2. FreshEvents(a, c.batch) \cap Authoritative \in SUBSET c.batch
        BY DEF FreshEvents
      <3>3. IsFiniteSet(FreshEvents(a, c.batch) \cap Authoritative)
        BY <3>1, <3>2, FS_Subset
      <3> QED BY <2>1, <3>3, FS_CardinalityType
    <2>3. run' = [run EXCEPT !.version = @ + 1, !.next_seq = @ + n]
      BY <1>6, <2>1
    <2>4. /\ run \in RunRow /\ run.version + 1 \in Nat /\ run.next_seq \in Nat
          /\ run.next_seq + n \in Nat \ {0} /\ run.next_seq <= run.next_seq + n
      BY <2>2, WorkTables DEF RunRow
    <2>5. run' \in RunRow
      BY <2>3, <2>4 DEF RunRow
    <2>6. /\ run'.status = run.status /\ run'.version = run.version + 1
          /\ run'.generation = run.generation /\ run'.terminal_seq = run.terminal_seq
          /\ run'.suspended_from = run.suspended_from /\ run'.next_seq = run.next_seq + n
      BY <2>3, <2>4 DEF RunRow
    <2>7. RunTyped
      BY <1>7, <2>5, WorkTables DEF RunTyped, WorkflowUnchanged, SafeInv, TypeOK, AttemptType,
            StageTable, WaitTable
    <2>8. TypeOK'
      BY <1>8, <1>9, <2>7, TypeHalves DEF AgentsSide, ToolsSide
    <2> QED BY <1>7, <2>4, <2>6, <2>8, WorkTables, NoteSide DEF WorkflowUnchanged
  <1>12. ProcessSide
    BY <1>1, <1>7, PollerLetsGo
  <1> QED BY <1>8, <1>9, <1>10, <1>11, <1>12 DEF AllSides

\* A scheduler turns a due retry into a recovery Task.
LEMMA SchedulerKeeps ==
  ASSUME WorkInv, SchedulerApplies
  PROVE  AllSides
  <1>1. hint # NoHint /\ UNCHANGED workVars
    BY DEF SchedulerApplies
  <1>2. PICK q \in RecoveryTasks : ApplyDueWork(hint, q)
    BY DEF SchedulerApplies, UnusedRecoveryTasks
  <1>3. hint \in HintRow
    BY <1>1 DEF WorkInv, ProcessTypes
  <1>4. /\ hint.exec \in Executions /\ hint.due \in Nat /\ hint.revision \in Nat
    BY <1>3 DEF HintRow
  <1>5. PICK dbnow \in DbNow : ApplyDueWork(hint, q)!(dbnow)
    BY <1>2 DEF ApplyDueWork
  <1>6. ConsumeDueWork(hint) /\ UNCHANGED <<receipts, logged>>
    BY <1>5
  <1>7. PICK e : e = hint.exec
    OBVIOUS
  <1>8. ToolsSide
    <2>1. CASE tool' = tool
      BY <2>1, ToolsKept
    <2>2. CASE /\ e \in Tools
               /\ tool' = [tool EXCEPT ![e] = [@ EXCEPT !.status = "reconciling",
                             !.recovery = "retry_same_request", !.retry_at = Never]]
      <3>1. tool[e] \in ToolRow
        BY <2>2, WorkTables
      <3>2. PICK row : row = [tool[e] EXCEPT !.status = "reconciling",
                                !.recovery = "retry_same_request", !.retry_at = Never]
        OBVIOUS
      <3>3. row \in ToolRow /\ row.status = "reconciling" /\ row.retry_at = Never
        BY <3>1, <3>2 DEF ToolRow, ToolStatus, ToolUnresolved, RecoveryAction, OptTime
      <3>4. tool' = [tool EXCEPT ![e] = row]
        BY <2>2, <3>2
      <3> QED BY <2>2, <3>3, <3>4, ToolWritten
    <2> QED BY <1>6, <1>7, <2>1, <2>2 DEF ConsumeDueWork
  <1>9. AgentsSide
    <2>1. CASE agent' = agent
      BY <1>1, <2>1, AgentsKept DEF workVars
    <2>2. CASE /\ e \in Agents
               /\ agent' = [agent EXCEPT ![e] =
                              [agent[e] EXCEPT !.version = @ + 1, !.retry_at = Never]]
      <3>1. agent[e] \in AgentRow /\ agent[e].version + 1 \in Nat
        BY <2>2, WorkTables
      <3>2. PICK row : row = [agent[e] EXCEPT !.version = @ + 1, !.retry_at = Never]
        OBVIOUS
      <3>3. /\ row \in AgentRow /\ row.retry_at = Never
            /\ row.status = agent[e].status /\ row.remote = agent[e].remote
        BY <3>1, <3>2 DEF AgentRow, OptTime
      <3>4. agent' = [agent EXCEPT ![e] = row]
        BY <2>2, <3>2
      <3>5. agent[e].remote = "known" => remote[e] # "none"
        BY <2>2 DEF WorkInv, RemoteExists
      <3> QED BY <1>1, <2>2, <3>3, <3>4, <3>5, AgentWritten DEF workVars
    <2> QED BY <1>6, <1>7, <2>1, <2>2 DEF ConsumeDueWork
  <1>10. EventsSide
    BY <1>6, EventsKept
  <1>11. RunSide
    BY <1>2, <1>4, <1>8, <1>9, WorkTables, DueWorkSide DEF ToolsSide, AgentsSide
  <1>12. ProcessSide
    <2>1. DueIdentity(hint) \in OriginRow
      BY <1>4 DEF DueIdentity, OriginRow, OptTime
    <2>2. origin' \in [RecoveryTasks -> OriginRow]
      BY <1>5, <2>1 DEF WorkInv, StoreTypes
    <2> QED BY <1>1, <2>2 DEF workVars, WorkInv, ProcessSide, ProcessTypes, RemoteExists
  <1> QED BY <1>8, <1>9, <1>10, <1>11, <1>12 DEF AllSides

\* A step that commits nothing to the store.
LEMMA StillKeeps ==
  ASSUME WorkInv, UNCHANGED <<vars, extVars>>, ProcessTypes',
         \A a \in Agents : remote[a] # "none" => remote'[a] # "none",
         \A c \in calls' : c.exec \in Agents /\ c.phase = "sent" => remote'[c.exec] # "none"
  PROVE  AllSides
  <1>1. UNCHANGED vars /\ UNCHANGED <<origin, receipts, logged>> /\ tool' = tool /\ agent' = agent
    BY DEF vars, extVars
  <1>2. RunSide
    BY <1>1, WorkTables, StillSide
  <1>3. ToolsSide /\ AgentsSide /\ EventsSide
    BY <1>1, ToolsKept, AgentsKept, EventsKept
  <1>4. ProcessSide
    BY <1>1 DEF ProcessSide, WorkInv, StoreTypes
  <1> QED BY <1>2, <1>3, <1>4 DEF AllSides

\* A Tool request goes out.
LEMMA SendToolKeeps ==
  ASSUME WorkInv, NEW c \in calls, SendTool(c)
  PROVE  AllSides
  <1>1. /\ c.exec \in Tools /\ UNCHANGED <<vars, extVars, hint, remote, polled>>
        /\ calls' = (calls \ {c}) \cup {[c EXCEPT !.phase = "sent"]}
        /\ sent' = [sent EXCEPT ![c.exec][c.rev] = @ + 1]
    BY DEF SendTool
  <1>2. /\ calls \subseteq CallRow /\ sent \in [Tools -> [1 .. MaxToolAttempts -> Nat]]
        /\ c \in CallRow
    BY DEF WorkInv, ProcessTypes
  <1>3. PICK d : d = [c EXCEPT !.phase = "sent"]
    OBVIOUS
  <1>4. d \in CallRow /\ d.exec = c.exec
    BY <1>2, <1>3 DEF CallRow
  <1>5. calls' = (calls \ {c}) \cup {d}
    BY <1>1, <1>3
  <1>6. sent' \in [Tools -> [1 .. MaxToolAttempts -> Nat]]
    <2>1. sent[c.exec] \in [1 .. MaxToolAttempts -> Nat]
      BY <1>1, <1>2
    <2>2. [sent[c.exec] EXCEPT ![c.rev] = @ + 1] \in [1 .. MaxToolAttempts -> Nat]
      <3>1. ASSUME NEW D, NEW s \in [D -> Nat], NEW n
            PROVE  [s EXCEPT ![n] = @ + 1] \in [D -> Nat]
        <4>1. n \in D => s[n] + 1 \in Nat
          <5>1. n \in D => s[n] \in Nat
            OBVIOUS
          <5> QED BY <5>1
        <4> QED BY <4>1
      <3> QED BY <2>1, <3>1
    <2>3. sent' = [sent EXCEPT ![c.exec] = [sent[c.exec] EXCEPT ![c.rev] = @ + 1]]
      BY <1>1
    <2> QED BY <1>1, <1>2, <2>2, <2>3
  <1>7. ProcessTypes'
    BY <1>1, <1>2, <1>4, <1>5, <1>6 DEF WorkInv, ProcessTypes
  <1>8. \A f \in calls' : f.exec \in Agents /\ f.phase = "sent" => remote'[f.exec] # "none"
    BY <1>1, <1>4, <1>5, ExternalAssumption DEF WorkInv, RemoteExists
  <1> QED BY <1>1, <1>7, <1>8, StillKeeps

\* A submission reaches the Agent server, which has a Run from then on.
LEMMA SubmitAgentKeeps ==
  ASSUME WorkInv, NEW c \in calls, SubmitAgent(c)
  PROVE  AllSides
  <1>1. /\ c.exec \in Agents /\ UNCHANGED <<vars, extVars, sent, hint, polled>>
        /\ calls' = (calls \ {c}) \cup {[c EXCEPT !.phase = "sent"]}
        /\ remote' = [remote EXCEPT ![c.exec] = IF @ = "none" THEN "running" ELSE @]
    BY DEF SubmitAgent
  <1>2. /\ calls \subseteq CallRow /\ remote \in [Agents -> RemoteStatus] /\ c \in CallRow
    BY DEF WorkInv, ProcessTypes
  <1>3. PICK d : d = [c EXCEPT !.phase = "sent"]
    OBVIOUS
  <1>4. d \in CallRow /\ d.exec = c.exec
    BY <1>2, <1>3 DEF CallRow
  <1>5. calls' = (calls \ {c}) \cup {d}
    BY <1>1, <1>3
  <1>6. /\ remote' \in [Agents -> RemoteStatus]
        /\ remote'[c.exec] # "none"
        /\ \A a \in Agents : remote[a] # "none" => remote'[a] # "none"
    BY <1>1, <1>2 DEF RemoteStatus
  <1>7. ProcessTypes'
    BY <1>1, <1>2, <1>4, <1>5, <1>6 DEF WorkInv, ProcessTypes
  <1>8. \A f \in calls' : f.exec \in Agents /\ f.phase = "sent" => remote'[f.exec] # "none"
    BY <1>4, <1>5, <1>6 DEF WorkInv, RemoteExists
  <1> QED BY <1>1, <1>6, <1>7, <1>8, StillKeeps

\* A call or a candidate is lost, or the remote Run ends.
LEMMA LossKeeps ==
  ASSUME WorkInv,
         \/ \E c \in calls : LoseCall(c)
         \/ \E p \in Pollers : DropPolled(p)
         \/ \E a \in Agents : RemoteEnds(a)
  PROVE  AllSides
  <1>1. CASE \E c \in calls : LoseCall(c)
    <2>1. calls' \subseteq calls /\ UNCHANGED <<vars, extVars, sent, hint, remote, polled>>
      BY <1>1 DEF LoseCall
    <2>2. ProcessTypes'
      BY <2>1 DEF WorkInv, ProcessTypes
    <2> QED BY <2>1, <2>2, StillKeeps DEF WorkInv, RemoteExists
  <1>2. ASSUME NEW p \in Pollers, DropPolled(p)
        PROVE  AllSides
    <2>1. /\ polled' = [polled EXCEPT ![p] = Idle]
          /\ UNCHANGED <<vars, extVars, calls, sent, hint, remote>>
      BY <1>2 DEF DropPolled
    <2>2. ProcessTypes'
      BY <2>1, PollerLetsGo DEF ProcessSide, extVars
    <2> QED BY <2>1, <2>2, StillKeeps DEF WorkInv, RemoteExists
  <1>3. ASSUME NEW a \in Agents, RemoteEnds(a)
        PROVE  AllSides
    <2>1. PICK end \in RemoteTerminal : remote' = [remote EXCEPT ![a] = end]
      BY <1>3 DEF RemoteEnds
    <2>2. UNCHANGED <<vars, extVars, calls, sent, hint, polled>>
      BY <1>3 DEF RemoteEnds
    <2>3. remote \in [Agents -> RemoteStatus] /\ end \in RemoteStatus /\ end # "none"
      BY DEF WorkInv, ProcessTypes, RemoteStatus, RemoteTerminal
    <2>4. /\ remote' \in [Agents -> RemoteStatus]
          /\ \A b \in Agents : remote[b] # "none" => remote'[b] # "none"
      BY <2>1, <2>3
    <2>5. ProcessTypes'
      BY <2>2, <2>4 DEF WorkInv, ProcessTypes
    <2> QED BY <2>2, <2>4, <2>5, StillKeeps DEF WorkInv, RemoteExists
  <1> QED BY <1>1, <1>2, <1>3

\* A scheduler scans a due retry.
LEMMA ScanKeeps ==
  ASSUME WorkInv, NEW e \in Executions, ScanDueWork(e)
  PROVE  AllSides
  <1>1. PICK dbnow \in DbNow : ScanDueWork(e)!(dbnow)
    BY DEF ScanDueWork
  <1>2. hint' = DueHint(e) /\ UNCHANGED <<vars, extVars, calls, sent, remote, polled>>
    BY <1>1
  <1>3. DueHint(e) \in HintRow
    <2>1. RetryAt(e) \in Nat /\ DueRevision(e) \in Nat
      <3>1. CASE e \in Tools
        BY <1>1, <3>1, WorkTables DEF RetryDue, RetryAt, DueRevision, ToolRow, OptTime
      <3>2. CASE e \notin Tools
        <4>1. e \in Agents
          BY <3>2 DEF Executions
        <4> QED BY <1>1, <3>2, <4>1, WorkTables DEF RetryDue, RetryAt, DueRevision, AgentRow, OptTime
      <3> QED BY <3>1, <3>2
    <2>2. run.version \in Nat /\ run.generation \in Nat /\ run.checkpoint \in Nat
      BY WorkTables DEF RunRow
    <2> QED BY <2>1, <2>2 DEF DueHint, HintRow
  <1>4. ProcessTypes'
    BY <1>2, <1>3 DEF WorkInv, ProcessTypes
  <1> QED BY <1>2, <1>4, StillKeeps DEF WorkInv, RemoteExists

\* A poller keeps a candidate and the answer it got.
LEMMA PollerHolds ==
  ASSUME WorkInv, NEW p \in Pollers, NEW row \in OutcomeRow \cup EventsRow,
         polled' = [polled EXCEPT ![p] = row],
         UNCHANGED <<vars, extVars, calls, crashes, sent, hint, remote>>
  PROVE  AllSides
  <1>1. polled' \in [Pollers -> HeldRow]
    BY DEF WorkInv, ProcessTypes, HeldRow
  <1>2. ProcessTypes'
    BY <1>1 DEF WorkInv, ProcessTypes
  <1> QED BY <1>2, StillKeeps DEF WorkInv, RemoteExists

\* The remote Run of a candidate exists, so its answers are outcomes the store
\* can record.
LEMMA AnswersTyped ==
  ASSUME WorkInv, NEW a \in Agents, agent[a].remote = "known"
  PROVE  /\ remote[a] \in {"running"} \cup RemoteTerminal
         /\ StopAnswers(a) \subseteq OutcomeStatus
         /\ StatusAnswers(a) \subseteq OutcomeStatus
  <1>1. remote[a] \in {"running", "completed", "failed", "cancelled"}
    <2>1. remote[a] # "none" /\ remote[a] \in RemoteStatus
      BY DEF WorkInv, RemoteExists, ProcessTypes
    <2> QED BY <2>1 DEF RemoteStatus, RemoteTerminal
  <1>2. StopProjection[remote[a]] \in OutcomeStatus /\ StatusProjection[remote[a]] \in OutcomeStatus
    BY <1>1 DEF StopProjection, StatusProjection, OutcomeStatus, AgentTerminal
  <1>3. StopAnswers(a) \subseteq OutcomeStatus
    BY <1>2 DEF StopAnswers, Answers, OutcomeStatus
  <1>4. StatusAnswers(a) \subseteq OutcomeStatus
    BY <1>2 DEF StatusAnswers, Answers, OutcomeStatus
  <1> QED BY <1>1, <1>3, <1>4 DEF RemoteTerminal

\* The pollers ask.
LEMMA PollKeeps ==
  ASSUME WorkInv, NEW p \in Pollers, NEW a \in Agents,
         PollStop(p, a) \/ PollStatus(p, a) \/ PollEvents(p, a)
  PROVE  AllSides
  <1>1. agent[a].version \in Nat /\ agent[a].cursor \in Nat
    BY WorkTables DEF AgentRow
  <1>2. UNCHANGED <<vars, extVars, calls, crashes, sent, hint, remote>>
    BY DEF PollStop, PollStatus, PollEvents
  <1>3. CASE PollStop(p, a) \/ PollStatus(p, a)
    <2>1. agent[a].remote = "known"
      BY <1>3 DEF PollStop, PollStatus, StopCandidate, StatusCandidate
    <2>2. PICK status \in OutcomeStatus : Hold(p, a, "outcome", status, {})
      BY <1>3, <2>1, AnswersTyped DEF PollStop, PollStatus
    <2>3. PICK row : row = [kind |-> "outcome", exec |-> a, version |-> agent[a].version,
                            cursor |-> agent[a].cursor, status |-> status, batch |-> {}]
      OBVIOUS
    <2>4. row \in OutcomeRow
      BY <1>1, <2>3 DEF OutcomeRow
    <2>5. polled' = [polled EXCEPT ![p] = row]
      BY <2>2, <2>3 DEF Hold
    <2> QED BY <1>2, <2>4, <2>5, PollerHolds
  <1>4. CASE PollEvents(p, a)
    <2>1. PICK answer \in EventAnswers(a) : Hold(p, a, answer.kind, answer.status, answer.batch)
      BY <1>4 DEF PollEvents
    <2>2. \/ /\ answer.kind = "events" /\ answer.status \in {"running", "reconciling"}
             /\ answer.batch \in RemoteBatches
          \/ /\ answer.kind = "outcome" /\ answer.status \in {"reconciling", "manual_review"}
             /\ answer.batch = {}
      <3>1. IsFiniteSet({})
        BY FS_EmptySet
      <3>2. {} \in RemoteBatches
        BY <3>1 DEF RemoteBatches
      <3>3. PICK told \in {"running", "reconciling"} :
              answer \in [kind : {"events"}, status : {told}, batch : RemoteBatches]
                \cup [kind : {"events"}, status : {"running"}, batch : {{}}]
                \cup [kind : {"outcome"}, status : {"reconciling", "manual_review"}, batch : {{}}]
        BY DEF EventAnswers
      <3>4. CASE answer \in [kind : {"events"}, status : {told}, batch : RemoteBatches]
        BY <3>4
      <3>5. CASE answer \in [kind : {"events"}, status : {"running"}, batch : {{}}]
        BY <3>2, <3>5
      <3>6. CASE answer \in [kind : {"outcome"}, status : {"reconciling", "manual_review"},
                             batch : {{}}]
        BY <3>6
      <3> QED BY <3>3, <3>4, <3>5, <3>6
    <2>3. PICK row : row = [kind |-> answer.kind, exec |-> a, version |-> agent[a].version,
                            cursor |-> agent[a].cursor, status |-> answer.status,
                            batch |-> answer.batch]
      OBVIOUS
    <2>4. row \in OutcomeRow \cup EventsRow
      BY <1>1, <2>2, <2>3 DEF OutcomeRow, EventsRow, OutcomeStatus
    <2>5. polled' = [polled EXCEPT ![p] = row]
      BY <2>1, <2>3 DEF Hold
    <2> QED BY <1>2, <2>4, <2>5, PollerHolds
  <1> QED BY <1>3, <1>4

\* The Run's own transactions.
LEMMA RunStepKeeps ==
  ASSUME WorkInv, RunStep
  PROVE  AllSides
  <1>1. UNCHANGED <<origin, receipts, logged, workVars>>
    BY DEF RunStep
  <1>2. SafeInv /\ TypeOK
    BY DEF WorkInv, SafeInv
  <1>3. RunSide /\ TypeOK'
    BY <1>2, RunStepIsNext, StoreSide, StepType
  <1>4. /\ \A x \in Tools : ControlledTool(tool[x], tool'[x])
        /\ \A a \in Agents : ControlledAgent(agent[a], agent'[a])
        /\ tool' = tool \/ RetryScheduleCheck(tool')
    BY <1>2, RunStepIsNext, Controlled
  <1>5. ToolsSide
    <2>1. tool' \in ToolTable
      BY <1>3 DEF TypeOK, ToolTable
    <2> QED BY <1>4, <2>1 DEF ToolsSide, WorkInv, RetryTimesValid
  <1>6. AgentsSide
    <2>1. agent' \in AgentTable
      BY <1>3 DEF TypeOK, AgentTable
    <2>2. ASSUME NEW a \in Agents
          PROVE  /\ agent'[a].retry_at # Never => agent'[a].status = "reconciling"
                 /\ agent[a].status = "stopping" => agent'[a].status # "running"
                 /\ agent'[a].remote = "known" => remote'[a] # "none"
      <3>1. agent[a] \in AgentRow /\ ControlledAgent(agent[a], agent'[a])
        BY <1>4, WorkTables
      <3>2. /\ agent[a].retry_at # Never => agent[a].status = "reconciling"
            /\ agent[a].remote = "known" => remote[a] # "none"
        BY DEF WorkInv, RetryTimesValid, RemoteExists
      <3>3. /\ agent'[a].retry_at = agent[a].retry_at /\ agent'[a].remote = agent[a].remote
            /\ \/ agent'[a] = agent[a]
               \/ /\ agent[a].status \in {"planned", "submitting", "running"}
                  /\ agent'[a].status \in {"cancelled", "stopping"}
        BY <3>1 DEF ControlledAgent, AgentRow
      <3> QED BY <1>1, <3>2, <3>3 DEF workVars
    <2> QED BY <2>1, <2>2 DEF AgentsSide
  <1>7. EventsSide
    BY <1>1, EventsKept
  <1>8. ProcessSide
    BY <1>1, CallsEnd DEF workVars
  <1> QED BY <1>3, <1>5, <1>6, <1>7, <1>8 DEF AllSides

----------------------------------------------------------------------------
\* The induction.

\* A new Run has no execution, call or candidate.
LEMMA WorkInitInv == WorkInit => WorkInv
  <1> SUFFICES ASSUME WorkInit PROVE WorkInv
    OBVIOUS
  <1>1. Init /\ SafeInv
    BY InitSafe DEF WorkInit, ExternalInit
  <1>2. StoreTypes
    BY DEF WorkInit, ExternalInit, StoreTypes, NoOrigin, OriginRow, OptTime
  <1>3. ProcessTypes
    BY DEF WorkInit, ProcessTypes, HeldRow, RemoteStatus
  <1>4. RemoteExists /\ RetryTimesValid
    BY <1>1 DEF Init, AbsentTool, AbsentAgent, WorkInit, RemoteExists, RetryTimesValid,
                RetryScheduleCheck
  <1>5. EventLoggedOnce
    BY DEF WorkInit, ExternalInit, EventLoggedOnce
  <1> QED BY <1>1, <1>2, <1>3, <1>4, <1>5 DEF WorkInv

\* Every step of every process keeps it.
LEMMA WorkStep == WorkInv /\ [WorkNext]_allVars => AllSides
  <1> SUFFICES ASSUME WorkInv, [WorkNext]_allVars PROVE AllSides
    OBVIOUS
  <1>1. CASE UNCHANGED allVars
    <2>1. UNCHANGED <<vars, extVars, workVars>>
      BY <1>1 DEF allVars
    <2>2. ProcessTypes'
      BY <2>1 DEF workVars, WorkInv, ProcessTypes
    <2> QED BY <2>1, <2>2, StillKeeps DEF workVars, WorkInv, RemoteExists
  <1>2. CASE RunStep
    BY <1>2, RunStepKeeps
  <1>3. ASSUME NEW t \in Tasks, NEW k,
               (\E x \in Tools : StartTool(t, k, x)) \/ (\E a \in Agents : StartAgent(t, k, a))
        PROVE  AllSides
    BY <1>3, StartToolKeeps, StartAgentKeeps
  <1>4. ASSUME NEW q \in RecoveryTasks, NEW k,
               (\E x \in Tools : RecoverTool(q, k, x)) \/ (\E a \in Agents : ResubmitAgent(q, k, a))
        PROVE  AllSides
    BY <1>4, RecoverToolKeeps, ResubmitAgentKeeps
  <1>5. ASSUME NEW c \in calls,
               \/ SendTool(c)
               \/ \E o \in ToolOutcomes : FinishTool(c, o)
               \/ SubmitAgent(c)
               \/ \E o \in SubmissionOutcomes : FinishSubmission(c, o)
               \/ LoseCall(c)
        PROVE  AllSides
    BY <1>5, SendToolKeeps, FinishToolKeeps, SubmitAgentKeeps, FinishSubmissionKeeps, LossKeeps
  <1>6. CASE (\E e \in Executions : ScanDueWork(e)) \/ SchedulerApplies
    BY <1>6, ScanKeeps, SchedulerKeeps
  <1>7. CASE \/ \E x \in Tools : MaintainTool(x)
             \/ \E a \in Agents : MaintainAgent(a) \/ RemoteEnds(a) \/ WorkerReports(a)
    BY <1>7, MaintainToolKeeps, MaintainAgentKeeps, LossKeeps, WorkerReportsKeeps
  <1>8. ASSUME NEW p \in Pollers,
               \/ \E a \in Agents : PollStop(p, a) \/ PollStatus(p, a) \/ PollEvents(p, a)
               \/ RecordPolled(p)
               \/ DropPolled(p)
        PROVE  AllSides
    <2>1. CASE RecordPolled(p)
      BY <2>1, RecordOutcomeKeeps, RecordEventsKeeps DEF RecordPolled
    <2> QED BY <1>8, <2>1, PollKeeps, LossKeeps
  <1> QED BY <1>1, <1>2, <1>3, <1>4, <1>5, <1>6, <1>7, <1>8 DEF WorkNext

----------------------------------------------------------------------------
(***************************************************************************)
(* Results.                                                                *)
(***************************************************************************)

\* WorkInv is an invariant of the composed system.
THEOREM WorkInvariant == WorkSpec => []WorkInv
  <1>1. WorkInv /\ [WorkNext]_allVars => WorkInv'
    BY WorkStep, SidesMakeInv DEF AllSides
  <1> QED BY WorkInitInv, <1>1, PTL DEF WorkSpec

\* What holds for the Run's own transactions still holds when executions,
\* schedulers and pollers write to the Run, complete recovery Tasks and insert
\* new ones: ledger, leases, fencing, projection, generations, closure, resumes.
THEOREM StoreSafeAmongWork ==
  WorkSpec => [](/\ AttemptLedger /\ LeaseFence /\ OnlyLastProofPasses /\ RunProjection
                 /\ GenerationGate /\ TerminalClosed /\ WaitResume)
  <1>1. WorkInv => /\ RunProjection /\ GenerationGate /\ TerminalClosed /\ WaitResume
    BY DEF WorkInv, SafeInv
  <1>2. WorkInv => AttemptLedger /\ LeaseFence
    BY DEF WorkInv, SafeInv, RowsOK, RowInv, AttemptLedger, LeaseFence, LeasedWhileLive
  <1>3. WorkInv => OnlyLastProofPasses
    <2> SUFFICES ASSUME WorkInv, NEW t \in Tasks, NEW k \in AttemptNumbers(t),
                        NEW dbnow \in DbNow, FencesHold(t, k, dbnow)
                 PROVE  k = task[t].attempt /\ attempt[t][k].outcome = "open"
      BY DEF OnlyLastProofPasses
    <2>1. RowInv(t, task[t], attempt[t], run.generation)
      BY SafeTables DEF WorkInv
    <2> QED BY <2>1 DEF RowInv, FencesHold
  <1> QED BY WorkInvariant, <1>1, <1>2, <1>3, PTL

\* With all its workers, pollers, remote answers and crashes around it, the Run
\* implements RunLifecycle: one version per change, no way back from an end, a
\* new generation exactly with a pause or a cancel.
THEOREM LifecycleKept == WorkSpec => RunKeepsLifecycle
  <1>1. WorkInit => Life!LifeInit
    BY DEF WorkInit, ExternalInit, Init, Life!LifeInit, RunActive
  <1>2. WorkInv /\ [WorkNext]_allVars => [Life!LifeNext]_(Life!lifeVars)
    BY WorkStep DEF AllSides, RunSide, LifeStep
  <1> QED BY WorkInvariant, <1>1, <1>2, PTL DEF WorkSpec, RunKeepsLifecycle, Life!LifeSpec

\* Evidence that arrives after the end is recorded and moves neither the Run's
\* status, terminal Event and generation nor a Task, attempt, stage or Wait.
THEOREM EndedRunIsKept == WorkSpec => EndedRunKeepsWork
  <1>1. WorkInv /\ [WorkNext]_allVars =>
          [run.status \in RunTerminal =>
             /\ run'.status = run.status /\ run'.terminal_seq = run.terminal_seq
             /\ run'.generation = run.generation
             /\ UNCHANGED <<task, attempt, stage, wait>>]_allVars
    BY WorkStep DEF AllSides, RunSide
  <1> QED BY WorkInvariant, <1>1, PTL DEF WorkSpec, EndedRunKeepsWork

\* The retry constraints of the tables hold before and after every transaction,
\* so they can refuse none but the control commands.
THEOREM RetryTimesCorrect == WorkSpec => []RetryTimesValid
  <1>1. WorkInv => RetryTimesValid
    BY DEF WorkInv
  <1> QED BY WorkInvariant, <1>1, PTL

\* A remote event becomes exactly one local Event once it has a receipt, however
\* often it is delivered.
THEOREM EventsLoggedOnce == WorkSpec => []EventLoggedOnce
  <1>1. WorkInv => EventLoggedOnce
    BY DEF WorkInv
  <1> QED BY WorkInvariant, <1>1, PTL
=============================================================================
