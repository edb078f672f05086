------------------------------ MODULE RunStore ------------------------------
(***************************************************************************)
(* The transactions of the PostgreSQL store that drive one Run: claim,     *)
(* renew, reclaim, fail and complete a Task; consume a Wait; pause, resume *)
(* and cancel; revise the plan and the context; create and join child      *)
(* Runs; time the Run out.  Each action is one committed transaction; a    *)
(* transaction that fails a check rolls back and is no step.               *)
(*                                                                         *)
(* dbnow is the database time a transaction reads when it starts.  It then *)
(* waits for the lock of the Run row, so it may commit up to MaxLag later: *)
(* dbnow ranges over DbNow, not only over the current time.                *)
(***************************************************************************)
EXTENDS TaskGraph

CONSTANTS
  MaxTime,          \* bound: the clock stops here
  MaxLag,           \* bound: how long a transaction may wait for its locks
  MaxGeneration,    \* bound: how often the Run may be paused
  MaxRevision,      \* bound: plan and context revisions
  MaxChildren       \* bound: child Runs per Task

ASSUME BoundAssumption ==
  /\ MaxTime \in Nat /\ MaxLag \in Nat /\ MaxGeneration \in Nat
  /\ MaxRevision \in Nat /\ MaxChildren \in Nat

VARIABLES
  now,      \* the database clock
  run,      \* the Run row
  task,     \* [Tasks -> TaskRow]
  attempt,  \* [Tasks -> [attempt number -> AttemptRow]]: task_attempts
  stage,    \* [Stages -> status]
  wait,     \* [Waits -> status]
  tool,     \* [Tools -> ToolRow]
  agent,    \* [Agents -> AgentRow]
  child     \* [Tasks -> ChildRow]: the Runs whose parent_task_id is the Task

vars == <<now, run, task, attempt, stage, wait, tool, agent, child>>

AttemptNumbers(t) == 1 .. MaxAttempts[t]

DbNow == {n \in 0 .. now : now - n <= MaxLag}

----------------------------------------------------------------------------
\* insert_initial_task: the status a Task is inserted with.
InsertedStatus(t) == IF Prereq[t] = {} THEN "queued" ELSE "scheduled"

(***************************************************************************)
(* create_run: the Run starts queued with its creation Event, Checkpoint,  *)
(* plan and context revision 1; Tasks without prerequisites are queued,    *)
(* the others scheduled; a stage may be created active.                    *)
(***************************************************************************)
Init ==
  /\ now = 0
  /\ \E d \in Deadlines :
       run = [status |-> "queued", suspended_from |-> "none", deadline |-> d,
              version |-> 0, generation |-> 0, next_seq |-> 2, terminal_seq |-> 0,
              checkpoint |-> 1, plan |-> 1, context |-> 1, blocked |-> "none"]
  /\ task = [t \in Tasks |->
               IF t \notin InitialTasks THEN AbsentTask
               ELSE NewTask(InsertedStatus(t), 0, 0)]
  /\ attempt = [t \in Tasks |-> [n \in AttemptNumbers(t) |-> AbsentAttempt]]
  /\ \E active \in SUBSET InitialStages :
       stage = [s \in Stages |-> IF s \in active THEN "active"
                                 ELSE IF s \in InitialStages THEN "planned" ELSE "absent"]
  /\ wait = [w \in Waits |-> "absent"]
  /\ tool = [x \in Tools |-> AbsentTool]
  /\ agent = [a \in Agents |-> AbsentAgent]
  /\ child = [t \in Tasks |-> NoChildren]

----------------------------------------------------------------------------
\* Pieces shared by the transactions.

\* Mutant: an Event is only appended when the projected status differs.
AdvanceOnStatusChange(r, status) ==
  [r EXCEPT !.status = status, !.version = @ + 1,
            !.next_seq = IF r.status = status THEN @ ELSE @ + 1]

\* One Event is appended; the Run moves to the projected status.
Advance(r, status) ==
  [r EXCEPT !.status = status, !.version = @ + 1, !.next_seq = @ + 1]

\* Advance and record the Event as the terminal one.
Finish(r, status) ==
  [Advance(r, status) EXCEPT !.terminal_seq = r.next_seq, !.suspended_from = "none"]

\* Mutant: the lease columns are not cleared.
UnleaseStatusOnly(row, status) == [row EXCEPT !.status = status]

Unlease(row, status) ==
  [row EXCEPT !.status = status, !.owner = NoWorker, !.token = 0, !.expires = Never]

\* Mutant: Tasks waiting for a retry are forgotten.
CancelRunnableTasks(tk) ==
  [t \in Tasks |-> IF tk[t].status \in TaskOpen \ {"retry_scheduled"}
                     THEN Unlease(tk[t], "cancelled") ELSE tk[t]]

\* Every open Task to "cancelled" (cancel, time-out, fatal failure).
CancelTasks(tk) ==
  [t \in Tasks |-> IF tk[t].status \in TaskOpen THEN Unlease(tk[t], "cancelled") ELSE tk[t]]

\* Mutant: the attempts of frozen Tasks are left unfinished.
KeepAttempts(at) == at

\* Every unfinished attempt row gets the outcome "cancelled".
CancelAttempts(at) ==
  [t \in Tasks |-> [n \in AttemptNumbers(t) |->
     IF at[t][n].outcome = "open" THEN [at[t][n] EXCEPT !.outcome = "cancelled"] ELSE at[t][n]]]

FinishAttempt(at, t, outcome) ==
  [at EXCEPT ![t] = [n \in AttemptNumbers(t) |->
     IF n = task[t].attempt THEN [at[t][n] EXCEPT !.outcome = outcome] ELSE at[t][n]]]

CancelStages(st) ==
  [s \in Stages |-> IF st[s] \in StageOpen THEN "cancelled" ELSE st[s]]

\* Mutant: a status the CHECK constraint of the table does not know.
CloseWaits(wt) ==
  [w \in Waits |-> IF wt[w] = "open" THEN "closed" ELSE wt[w]]

CancelWaits(wt) ==
  [w \in Waits |-> IF wt[w] = "open" THEN "cancelled" ELSE wt[w]]

\* Executions that never reached the outside world are closed.  retry_at is
\* left as it is.
CloseUnstartedTools(tl) ==
  [x \in Tools |-> IF tl[x].status \in {"planned", "retry_scheduled"}
                     THEN [tl[x] EXCEPT !.status = "failed"] ELSE tl[x]]

CloseUnstartedAgents(ag) ==
  [a \in Agents |-> IF ag[a].status = "planned"
                      THEN [ag[a] EXCEPT !.status = "cancelled", !.version = @ + 1] ELSE ag[a]]

\* request_external_stops
RequestStops(ag) ==
  [a \in Agents |-> IF ag[a].status \in {"submitting", "running"}
                      THEN [ag[a] EXCEPT !.status = "stopping", !.version = @ + 1] ELSE ag[a]]

\* mark_executing_tools_uncertain
MarkToolsUncertain(tl) ==
  [x \in Tools |-> IF tl[x].status = "executing"
                     THEN [tl[x] EXCEPT !.status = "outcome_unknown", !.recovery = "query_outcome"]
                     ELSE tl[x]]

ExternalUnresolved(tl, ag) ==
  \/ \E x \in Tools : tl[x].status \in ToolUnresolved
  \/ \E a \in Agents : ag[a].status \in AgentUnresolved

BeforeDeadline(dbnow) == run.deadline = Never \/ run.deadline > dbnow

\* Foreign key: the stage a row names, if any, must have been inserted.
StageExists(st, s) == s \in Stages => st[s] # "absent"

\* CHECK ck_tool_execs__retry_schedule: PostgreSQL refuses to commit a Tool
\* row that breaks it, and the whole transaction rolls back.
RetryScheduleCheck(tl) ==
  \A x \in Tools : (tl[x].status = "retry_scheduled") <=> (tl[x].retry_at # Never)

----------------------------------------------------------------------------
\* Task leases.

Claimable(t, dbnow) ==
  /\ task[t].status \in {"queued", "retry_scheduled"}
  /\ task[t].available <= dbnow
  /\ TaskDeadline[t] = Never \/ TaskDeadline[t] >= dbnow
  /\ task[t].attempt < MaxAttempts[t]
  /\ task[t].generation = run.generation
  /\ run.status \in AcceptsTaskClaim

\* claim_task.  SKIP LOCKED may pass over any candidate, so any claimable
\* Task may be the one.  The token is 32 fresh bytes per claim: the number of
\* the claim stands for it.  Bound: no lease outlives the clock.
ClaimTask(w, t) == \E dbnow \in DbNow :
  LET k == task[t].attempt + 1 IN
  /\ Claimable(t, dbnow)
  /\ dbnow + LeaseDuration <= MaxTime
  /\ task' = [task EXCEPT ![t] = [@ EXCEPT !.status = "leased", !.attempt = k, !.owner = w,
                                           !.token = k, !.expires = dbnow + LeaseDuration]]
  /\ attempt' = [attempt EXCEPT ![t] = [@ EXCEPT ![k] =
                   [worker |-> w, generation |-> task[t].generation, outcome |-> "open"]]]
  /\ stage' = [s \in Stages |->
                 IF s = StageOf[t] /\ stage[s] = "planned" THEN "active" ELSE stage[s]]
  /\ run' = Advance(run, "running")
  /\ UNCHANGED <<now, wait, tool, agent, child>>

\* Mutant: the Run's status is not looked at.
FencesOnTaskOnly(t, k, dbnow) ==
  /\ attempt[t][k].outcome # "absent"
  /\ task[t].status = "leased"
  /\ attempt[t][k].generation = task[t].generation
  /\ task[t].owner = attempt[t][k].worker
  /\ task[t].token = k
  /\ task[t].expires > dbnow

\* Mutant: the owner is compared, the token is not.
FencesOnOwner(t, k, dbnow) ==
  /\ attempt[t][k].outcome # "absent"
  /\ task[t].status = "leased"
  /\ run.status \in RunActive
  /\ attempt[t][k].generation = run.generation
  /\ attempt[t][k].generation = task[t].generation
  /\ task[t].owner = attempt[t][k].worker
  /\ task[t].expires > dbnow

\* The lease proof a worker got from its k-th claim of t (validate_worker_fences
\* and validate_completion_fences).
FencesHold(t, k, dbnow) ==
  /\ attempt[t][k].outcome # "absent"
  /\ task[t].status = "leased"
  /\ run.status \in RunActive
  /\ attempt[t][k].generation = run.generation
  /\ attempt[t][k].generation = task[t].generation
  /\ task[t].owner = attempt[t][k].worker
  /\ task[t].token = k
  /\ task[t].expires > dbnow

\* renew_task_lease.  Bound: no lease outlives the clock.
RenewTaskLease(t, k) == \E dbnow \in DbNow :
  /\ FencesHold(t, k, dbnow)
  /\ task[t].expires + RenewBy <= MaxTime
  /\ task' = [task EXCEPT ![t].expires = @ + RenewBy]
  /\ UNCHANGED <<now, run, attempt, stage, wait, tool, agent, child>>

\* Mutant: a Task on its last attempt is not reclaimed.
ReclaimRetriable(t) == \E dbnow \in DbNow :
  /\ task[t].status = "leased"
  /\ task[t].expires <= dbnow
  /\ task[t].attempt < MaxAttempts[t]
  /\ run.terminal_seq = 0
  /\ task' = [task EXCEPT ![t] = [Unlease(@, "retry_scheduled") EXCEPT
                !.generation = run.generation, !.available = dbnow]]
  /\ attempt' = FinishAttempt(attempt, t, "lease_expired")
  /\ run' = Advance(run, "retrying")
  /\ UNCHANGED <<now, stage, wait, tool, agent, child>>

\* reclaim_expired_lease
ReclaimExpiredLease(t) == \E dbnow \in DbNow :
  LET dead == task[t].attempt >= MaxAttempts[t] IN
  /\ task[t].status = "leased"
  /\ task[t].expires <= dbnow
  /\ run.terminal_seq = 0
  /\ task' = [task EXCEPT ![t] =
                [Unlease(@, IF dead THEN "dead_lettered" ELSE "retry_scheduled")
                   EXCEPT !.generation = run.generation, !.available = dbnow]]
  /\ attempt' = FinishAttempt(attempt, t, "lease_expired")
  /\ run' = Advance(run, IF dead THEN "waiting" ELSE "retrying")
  /\ UNCHANGED <<now, stage, wait, tool, agent, child>>

\* fail_task with a retry time and attempts left.
FailTaskRetry(t, k) == \E dbnow \in DbNow, d \in Delays :
  /\ FencesHold(t, k, dbnow)
  /\ run.status \in AcceptsTaskClaim
  /\ task[t].attempt < MaxAttempts[t]
  /\ task' = [task EXCEPT ![t] = [Unlease(@, "retry_scheduled") EXCEPT !.available = dbnow + d]]
  /\ attempt' = FinishAttempt(attempt, t, "failed")
  /\ run' = Advance(run, "retrying")
  /\ UNCHANGED <<now, stage, wait, tool, agent, child>>

\* fail_task on the last attempt: dead letter.  Dependents are resolved; the
\* Run is queued when one of them became ready, else waiting.
FailTaskDeadLetter(t, k) == \E dbnow \in DbNow :
  LET failed == [task EXCEPT ![t] = Unlease(@, "dead_lettered")] IN
  /\ FencesHold(t, k, dbnow)
  /\ run.status \in AcceptsTaskClaim
  /\ task[t].attempt >= MaxAttempts[t]
  /\ task' = ResolveDependents(failed, {t}, dbnow)
  /\ attempt' = FinishAttempt(attempt, t, "failed")
  /\ run' = Advance(run, IF Activated(failed, {t}) # {} THEN "queued" ELSE "waiting")
  /\ UNCHANGED <<now, stage, wait, tool, agent, child>>

\* fail_task without a retry time and attempts left: fatal, unless the failure
\* activates a dependent.  A fatal failure closes the Run's remaining work
\* (close_work_after_fatal_failure); stages and the generation stay.
FailTaskFatal(t, k) == \E dbnow \in DbNow :
  LET failed   == [task EXCEPT ![t] = Unlease(@, "failed")]
      resolved == ResolveDependents(failed, {t}, dbnow)
      handled  == Activated(failed, {t}) # {}
      finished == FinishAttempt(attempt, t, "failed")
  IN
  /\ FencesHold(t, k, dbnow)
  /\ run.status \in AcceptsTaskClaim
  /\ task[t].attempt < MaxAttempts[t]
  /\ IF handled
       THEN /\ task' = resolved
            /\ attempt' = finished
            /\ run' = Advance(run, "queued")
            /\ UNCHANGED <<wait, tool, agent>>
       ELSE /\ task' = CancelTasks(resolved)
            /\ attempt' = CancelAttempts(finished)
            /\ run' = Finish(run, "failed")
            /\ wait' = CancelWaits(wait)
            /\ tool' = MarkToolsUncertain(CloseUnstartedTools(tool))
            /\ agent' = RequestStops(CloseUnstartedAgents(agent))
            /\ RetryScheduleCheck(tool')
  /\ UNCHANGED <<now, stage, child>>

----------------------------------------------------------------------------
(***************************************************************************)
(* complete_task.  Common to all completions: the fences, the completion   *)
(* Event and Checkpoint, the finished Task and attempt, the dependents,    *)
(* the stage mutations and the new stages.  The NextActions of the command *)
(* decide the Run status and what is inserted.                             *)
(***************************************************************************)
StageMoves ==
  [planned          |-> {"active", "waiting_approval", "cancelled"},
   active           |-> {"waiting_approval", "rework_required", "succeeded", "failed",
                         "skipped", "cancelled"},
   waiting_approval |-> {"active", "succeeded", "rework_required", "failed", "cancelled"},
   rework_required  |-> {"active", "failed", "cancelled"}]

\* The mutations of one command are applied in order, so a stage may move more
\* than once; two moves already reach all that a longer series does.
StageReach(status) ==
  LET step(from) == from \cup UNION {StageMoves[x] : x \in from \cap StageOpen}
  IN  step(step({status}))

\* The stage tables a completion may leave: legal mutations of the open stages,
\* then any set of new stages (ck_stages__completion: none of them terminal).
StagesAfter(st) ==
  {m \in [Stages -> StageStatus \cup {"absent"}] :
     \A s \in Stages : IF st[s] = "absent" THEN m[s] \in StageOpen \cup {"absent"}
                                           ELSE m[s] \in StageReach(st[s])}

\* Task rows after the completion of t and the resolution of its dependents.
CompletedTasks(t, result, dbnow) ==
  ResolveDependents([task EXCEPT ![t] = [Unlease(@, "succeeded") EXCEPT !.result = result]],
                    {t}, dbnow)

Completion(t, k, dbnow) ==
  /\ FencesHold(t, k, dbnow)
  /\ attempt' = FinishAttempt(attempt, t, "succeeded")
  /\ stage' \in StagesAfter(stage)
  /\ UNCHANGED <<now, tool, agent, child>>

Checkpointed(r) == [r EXCEPT !.checkpoint = @ + 1]

\* A new Task row needs its stage (foreign key) and a deadline that has not
\* passed (ck_tasks__deadline).
Insertable(x, dbnow) ==
  /\ task[x].status = "absent"
  /\ StageExists(stage', StageOf[x])
  /\ TaskDeadline[x] = Never \/ TaskDeadline[x] >= dbnow

InsertTasks(tk, new, status, available) ==
  [t \in Tasks |-> IF t \in new THEN NewTask(status, run.generation, available) ELSE tk[t]]

\* NextActions::Tasks
CompleteWithTasks(t, k) ==
  \E dbnow \in DbNow, result \in Results, new \in SUBSET PlanTasks \ {{}}, d \in Delays :
  /\ Completion(t, k, dbnow)
  /\ \A x \in new : Insertable(x, dbnow)
  /\ task' = InsertTasks(CompletedTasks(t, result, dbnow), new, "queued", dbnow + d)
  /\ run' = Checkpointed(Advance(run, "queued"))
  /\ UNCHANGED wait

\* NextActions::Retry
CompleteWithRetry(t, k) ==
  \E dbnow \in DbNow, result \in Results, x \in PlanTasks, d \in Delays :
  /\ Completion(t, k, dbnow)
  /\ Insertable(x, dbnow)
  /\ task' = InsertTasks(CompletedTasks(t, result, dbnow), {x}, "retry_scheduled", dbnow + d)
  /\ run' = Checkpointed(Advance(run, "retrying"))
  /\ UNCHANGED wait

\* NextActions::Wait.  uq_waits__active_slot allows one open Wait per type and
\* match key; ck_waits__time refuses an expiry before the insertion.
CompleteWithWait(t, k) == \E dbnow \in DbNow, result \in Results, w \in Waits :
  /\ Completion(t, k, dbnow)
  /\ wait[w] = "absent" /\ StageExists(stage', WaitStage[w])
  /\ WaitExpires[w] = Never \/ WaitExpires[w] >= dbnow
  /\ \A v \in Waits : wait[v] = "open" /\ MatchKey[v] = MatchKey[w]
                      => (v \in Approval <=> w \notin Approval)
  /\ task' = CompletedTasks(t, result, dbnow)
  /\ wait' = [wait EXCEPT ![w] = "open"]
  /\ run' = Checkpointed(Advance(run, IF w \in Approval THEN "approval_required" ELSE "waiting"))

\* NextActions::FinishRun
CompleteAndFinish(t, k) == \E dbnow \in DbNow, result \in Results, status \in FinishStatuses :
  /\ Completion(t, k, dbnow)
  /\ task' = CompletedTasks(t, result, dbnow)
  /\ run' = Checkpointed(Finish(run, status))
  /\ UNCHANGED wait

\* NextActions::NoFurtherWork
CompleteNoFurtherWork(t, k) == \E dbnow \in DbNow, result \in Results :
  /\ Completion(t, k, dbnow)
  /\ task' = CompletedTasks(t, result, dbnow)
  /\ run' = Checkpointed(Advance(run, "running"))
  /\ UNCHANGED wait

----------------------------------------------------------------------------
\* Mutant: the Wait stays open.
ConsumeNothing(wt, w) == wt

\* consume_wait
ConsumeWait(wt, w) == [wt EXCEPT ![w] = "consumed"]

\* apply_event: an external event with this match key consumes the one open
\* Wait it matches and inserts the Wait's resume Task, which stays behind the
\* pause gate ("scheduled") while the Run is paused.
ApplyEvent(key) == \E dbnow \in DbNow, w \in Waits :
  LET paused == run.status = "paused" IN
  /\ {v \in Waits : wait[v] = "open" /\ MatchKey[v] = key} = {w}
  /\ run.status \notin RunTerminal
  /\ BeforeDeadline(dbnow)
  /\ WaitExpires[w] = Never \/ WaitExpires[w] > dbnow
  /\ TaskDeadline[ResumeTask[w]] = Never \/ TaskDeadline[ResumeTask[w]] > dbnow
  /\ w \in Approval /\ WaitStage[w] # NoStage => stage[WaitStage[w]] = "waiting_approval"
  /\ stage' = [s \in Stages |-> IF w \in Approval /\ s = WaitStage[w] THEN "active" ELSE stage[s]]
  /\ wait' = ConsumeWait(wait, w)
  /\ task' = [task EXCEPT ![ResumeTask[w]] =
                NewTask(IF paused THEN "scheduled" ELSE "queued", run.generation, dbnow)]
  /\ run' = Advance(run, IF paused THEN "paused"
                         ELSE IF \E t \in Tasks : task[t].status = "leased" THEN "running"
                         ELSE "queued")
  /\ UNCHANGED <<now, attempt, tool, agent, child>>

----------------------------------------------------------------------------
\* Plan, context and child Runs.  None of these commands projects the Run
\* status again: they leave it as it is.

\* revise_plan: appends Tasks, then resolves the dependents of every Task a
\* new one depends on (it may be terminal already).
RevisePlan == \E dbnow \in DbNow, new \in SUBSET RevisionTasks :
  LET inserted == [t \in Tasks |->
                     IF t \in new THEN NewTask(InsertedStatus(t), run.generation, dbnow)
                                  ELSE task[t]]
  IN
  /\ run.status \notin RunTerminal
  /\ BeforeDeadline(dbnow)
  /\ run.plan < MaxRevision
  /\ \A x \in new : /\ task[x].status = "absent"
                    /\ StageExists(stage, StageOf[x])
                    /\ \A p \in Prereq[x] : inserted[p].status # "absent"
  /\ task' = ResolveDependents(inserted, UNION {Prereq[x] : x \in new}, dbnow)
  /\ run' = [Advance(run, run.status) EXCEPT !.plan = @ + 1]
  /\ UNCHANGED <<now, attempt, stage, wait, tool, agent, child>>

\* apply_context_patch
ApplyContextPatch == \E dbnow \in DbNow :
  /\ run.status \notin RunTerminal
  /\ BeforeDeadline(dbnow)
  /\ run.context < MaxRevision
  /\ run' = [Advance(run, run.status) EXCEPT !.context = @ + 1]
  /\ UNCHANGED <<now, task, attempt, stage, wait, tool, agent, child>>

\* create_run with this Run as parent and t as its fan-in Task: t is put back
\* to "scheduled" until the children are joined.
CreateChildRun(t) ==
  /\ run.status \notin RunTerminal
  /\ task[t].status \in {"queued", "retry_scheduled", "scheduled"}
  /\ child[t].running + child[t].ended < MaxChildren
  /\ task' = [task EXCEPT ![t] = Unlease(@, "scheduled")]
  /\ child' = [child EXCEPT ![t].running = @ + 1]
  /\ run' = Advance(run, run.status)
  /\ UNCHANGED <<now, attempt, stage, wait, tool, agent>>

\* A child Run reaches a terminal status: a step of the child, which does not
\* touch its parent.
ChildRunEnds(t) ==
  /\ child[t].running > 0
  /\ child' = [child EXCEPT ![t] = [running |-> @.running - 1, ended |-> @.ended + 1]]
  /\ UNCHANGED <<now, run, task, attempt, stage, wait, tool, agent>>

\* Mutant: the join counts the child Runs, not the ended ones.
JoinReadyOnCount(c, policy) == c.running + c.ended > 0

JoinReady(c, policy) ==
  /\ c.ended > 0
  /\ policy = "all" => c.running = 0

\* evaluate_child_run_join under the policy the caller names; not yet ready,
\* or already queued, is a recorded no-op and no step.
EvaluateChildRunJoin(t, policy) == \E dbnow \in DbNow :
  /\ run.status \notin RunTerminal
  /\ task[t].generation = run.generation
  /\ JoinReady(child[t], policy)
  /\ task[t].status = "scheduled"
  /\ task' = [task EXCEPT ![t] = [@ EXCEPT !.status = "queued", !.available = dbnow]]
  /\ run' = Advance(run, run.status)
  /\ UNCHANGED <<now, attempt, stage, wait, tool, agent, child>>

----------------------------------------------------------------------------
\* Control commands (execute_control).  A command the Run already satisfies is
\* a recorded no-op and no step.

\* pause_run: leased Tasks go back to retry_scheduled without giving the
\* attempt back; the new generation fences every lease proof handed out.
PauseRun == \E dbnow \in DbNow :
  /\ run.status \in RunActive
  /\ run.generation < MaxGeneration
  /\ task' = [t \in Tasks |-> IF task[t].status = "leased"
                 THEN [Unlease(task[t], "retry_scheduled") EXCEPT !.available = dbnow]
                 ELSE task[t]]
  /\ attempt' = CancelAttempts(attempt)
  /\ agent' = RequestStops(agent)
  /\ run' = [Advance(run, "paused") EXCEPT !.suspended_from = run.status,
                !.generation = @ + 1, !.blocked = IF ExternalUnresolved(tool, agent')
                  THEN "external_execution_recovery_required" ELSE "none"]
  /\ UNCHANGED <<now, stage, wait, tool, child>>

\* Mutant: only Tasks that can be claimed are moved to the new generation.
RebaseClaimable(tk, dbnow) ==
  [t \in Tasks |->
     IF tk[t].status \in {"queued", "retry_scheduled"}
       THEN [tk[t] EXCEPT !.generation = run.generation] ELSE tk[t]]

\* Mutant: finished Tasks are moved, too.
RebaseAll(tk, dbnow) ==
  [t \in Tasks |->
     [tk[t] EXCEPT !.generation = run.generation,
        !.status = IF @ = "scheduled" /\ tk[t].available <= dbnow THEN "queued" ELSE @]]

\* rebase_preserved_tasks
Rebase(tk, dbnow) ==
  [t \in Tasks |->
     IF tk[t].status \in {"scheduled", "queued", "retry_scheduled"}
       THEN [tk[t] EXCEPT !.generation = run.generation,
               !.status = IF @ = "scheduled" /\ tk[t].available <= dbnow THEN "queued" ELSE @]
       ELSE tk[t]]

\* Mutant: the suspended status is written back.
ResumedAsSuspended(tk, dbnow) == run.suspended_from

\* project_resumed_status; "none" is the PauseRecoveryRequired error.
ResumedStatus(tk, dbnow) ==
  CASE \E t \in Tasks : tk[t].status = "leased" -> "running"
    [] \E t \in Tasks : tk[t].status \in {"queued", "retry_scheduled"}
                        /\ tk[t].available <= dbnow -> "queued"
    [] \E w \in Approval : wait[w] = "open" -> "approval_required"
    [] \E w \in Waits : wait[w] = "open" -> "waiting"
    [] \E t \in Tasks : tk[t].status \in {"scheduled", "retry_scheduled"}
                        /\ tk[t].available > dbnow -> "retrying"
    [] OTHER -> "none"

\* resume_run
ResumeRun == \E dbnow \in DbNow :
  LET rebased == Rebase(task, dbnow) IN
  /\ run.status = "paused"
  /\ BeforeDeadline(dbnow)
  /\ ~ExternalUnresolved(tool, agent)
  /\ ResumedStatus(rebased, dbnow) # "none"
  /\ task' = rebased
  /\ run' = [Advance(run, ResumedStatus(rebased, dbnow)) EXCEPT
                !.suspended_from = "none", !.blocked = "none"]
  /\ UNCHANGED <<now, attempt, stage, wait, tool, agent, child>>

\* cancel_run
CancelRun ==
  /\ run.status \notin RunTerminal
  /\ stage' = CancelStages(stage)
  /\ task' = CancelTasks(task)
  /\ wait' = CancelWaits(wait)
  /\ attempt' = CancelAttempts(attempt)
  /\ tool' = MarkToolsUncertain(CloseUnstartedTools(tool))
  /\ agent' = RequestStops(CloseUnstartedAgents(agent))
  /\ RetryScheduleCheck(tool')
  /\ run' = [Finish(run, "cancelled") EXCEPT !.generation = @ + 1, !.blocked = "none"]
  /\ UNCHANGED <<now, child>>

----------------------------------------------------------------------------
\* Maintenance (apply_maintenance).  A scan hint that no longer matches the
\* locked Run commits nothing, so only current hints are steps.

\* finalize_timed_out_run; the generation and the external executions stay.
TimeOut(wt) ==
  /\ attempt' = CancelAttempts(attempt)
  /\ task' = CancelTasks(task)
  /\ stage' = CancelStages(stage)
  /\ wait' = CancelWaits(wt)
  /\ run' = Finish(run, "timed_out")
  /\ UNCHANGED <<now, tool, agent, child>>

\* Mutant: a paused Run does not time out.
TimeOutUnpausedRun == \E dbnow \in DbNow :
  /\ run.status \in RunActive
  /\ ~BeforeDeadline(dbnow)
  /\ TimeOut(wait)

TimeOutRun == \E dbnow \in DbNow :
  /\ run.status \notin RunTerminal
  /\ ~BeforeDeadline(dbnow)
  /\ TimeOut(wait)

\* scan_maintenance: the Runs whose Waits it looks at.  The hint carries the Run's
\* version, so the Run is still as it was scanned when the hint is applied.
ScannedForWaits == {"waiting", "approval_required", "paused"}

\* Mutant: the Waits of a paused Run do not expire.
ExpireUnpausedWait(w) == \E dbnow \in DbNow :
  /\ run.status \in ScannedForWaits \ {"paused"}
  /\ wait[w] = "open"
  /\ WaitExpires[w] # Never /\ WaitExpires[w] <= dbnow
  /\ TimeOut([wait EXCEPT ![w] = "expired"])

ExpireWait(w) == \E dbnow \in DbNow :
  /\ run.status \in ScannedForWaits
  /\ wait[w] = "open"
  /\ WaitExpires[w] # Never /\ WaitExpires[w] <= dbnow
  /\ TimeOut([wait EXCEPT ![w] = "expired"])

----------------------------------------------------------------------------
Tick == /\ now < MaxTime
        /\ now' = now + 1
        /\ UNCHANGED <<run, task, attempt, stage, wait, tool, agent, child>>

\* Steps a worker takes with the proof of its k-th claim of t.
WorkerStep(t, k) ==
  \/ RenewTaskLease(t, k)
  \/ FailTaskRetry(t, k)
  \/ FailTaskDeadLetter(t, k)
  \/ FailTaskFatal(t, k)
  \/ CompleteWithTasks(t, k)
  \/ CompleteWithRetry(t, k)
  \/ CompleteWithWait(t, k)
  \/ CompleteAndFinish(t, k)
  \/ CompleteNoFurtherWork(t, k)

Next ==
  \/ \E w \in Workers, t \in Tasks : ClaimTask(w, t)
  \/ \E t \in Tasks : \E k \in AttemptNumbers(t) : WorkerStep(t, k)
  \/ \E t \in Tasks : ReclaimExpiredLease(t)
  \/ \E w \in Waits : ApplyEvent(MatchKey[w])
  \/ RevisePlan
  \/ ApplyContextPatch
  \/ \E t \in Tasks : CreateChildRun(t) \/ ChildRunEnds(t)
  \/ \E t \in Tasks, policy \in {"all", "any"} : EvaluateChildRunJoin(t, policy)
  \/ PauseRun
  \/ ResumeRun
  \/ CancelRun
  \/ TimeOutRun
  \/ \E w \in Waits : ExpireWait(w)
  \/ Tick

Spec == Init /\ [][Next]_vars

\* Fairness of the background loops: database time passes, and the
\* maintenance and lease-reclaim pollers keep polling.  Nothing is assumed of
\* workers, users or external events.
Fairness ==
  /\ WF_vars(Tick)
  /\ WF_vars(TimeOutRun)
  /\ \A t \in Tasks : WF_vars(ReclaimExpiredLease(t))
  /\ \A w \in Waits : WF_vars(ExpireWait(w))

FairSpec == Spec /\ Fairness

----------------------------------------------------------------------------
(***************************************************************************)
(* Properties.                                                             *)
(***************************************************************************)

\* Every row has the type of its table (column types and NULL markers).
TypeOK ==
  /\ now \in Nat
  /\ run \in RunRow
  /\ task \in [Tasks -> TaskRow]
  /\ DOMAIN attempt = Tasks
  /\ \A t \in Tasks : attempt[t] \in [AttemptNumbers(t) -> AttemptRow]
  /\ stage \in [Stages -> StageStatus \cup {"absent"}]
  /\ wait \in [Waits -> WaitStatus \cup {"absent"}]
  /\ tool \in [Tools -> ToolRow]
  /\ agent \in [Agents -> AgentRow]
  /\ child \in [Tasks -> ChildRow]

\* The attempt ledger and the Task table tell one story, whichever worker,
\* reclaimer or control command wrote last: attempts are numbered without
\* gaps up to the Task's counter, exactly the last one is open while the Task
\* is leased, and a Task has succeeded iff its LAST attempt did - so the
\* result of a worker whose lease was taken away never lands.
AttemptLedger ==
  \A t \in Tasks :
    /\ task[t].attempt <= MaxAttempts[t]
    /\ \A n \in AttemptNumbers(t) :
         /\ attempt[t][n].outcome # "absent" <=> n <= task[t].attempt
         /\ attempt[t][n].outcome = "open"
              <=> task[t].status = "leased" /\ n = task[t].attempt
         /\ attempt[t][n].outcome = "succeeded"
              <=> task[t].status = "succeeded" /\ n = task[t].attempt

\* A lease is held only in the current execution generation of a Run that is
\* neither paused nor closed, by the worker and token of the last claim
\* (ck_tasks__lease: no lease columns otherwise).  Hence a proof handed out
\* before a pause, cancel, failure or time-out can pass no fence.
LeaseFence ==
  \A t \in Tasks :
    IF task[t].status = "leased"
      THEN /\ run.status \in RunActive \cup FinishStatuses
           /\ task[t].generation = run.generation
           /\ task[t].attempt >= 1
           /\ task[t].token = task[t].attempt
           /\ task[t].owner = attempt[t][task[t].attempt].worker
           /\ attempt[t][task[t].attempt].generation = task[t].generation
           /\ task[t].owner # NoWorker /\ task[t].expires # Never
      ELSE task[t].owner = NoWorker /\ task[t].token = 0 /\ task[t].expires = Never

\* Of all lease proofs handed out for a Task, only the one of the last claim can
\* still pass the fences, and only while its attempt is open: a worker that lost
\* its lease, even to itself, cannot finish somebody else's attempt.
OnlyLastProofPasses ==
  \A t \in Tasks : \A k \in AttemptNumbers(t) :
    (\E dbnow \in DbNow : FencesHold(t, k, dbnow))
      => k = task[t].attempt /\ attempt[t][k].outcome = "open"

\* A pause strands nothing: no Task is ahead of the Run's generation, and while
\* the Run is active every open Task carries it (a claim requires equality), so
\* no Task kept over a pause, woken by an event or added by a plan revision
\* during it is left behind.
GenerationGate ==
  \A t \in Tasks :
    /\ task[t].generation <= run.generation
    /\ run.status \in RunActive /\ task[t].status \in TaskOpen
         => task[t].generation = run.generation

\* Exactly the terminal Runs have a terminal Event (ck_runs__terminal_projection,
\* fk_runs__terminal_event) and exactly the paused ones remember what they were
\* suspended from (ck_runs__suspended_from).
RunProjection ==
  /\ run.status \in RunTerminal <=> run.terminal_seq # 0
  /\ run.terminal_seq < run.next_seq
  /\ run.status = "paused" <=> run.suspended_from # "none"

\* A Run closed by a cancel, time-out or fatal failure has no open Task, no
\* open Wait and no open attempt left (a Run finished by a completion may).
TerminalClosed ==
  run.status \in RunTerminal \ FinishStatuses =>
    /\ \A t \in Tasks : task[t].status \notin TaskOpen
    /\ \A w \in Waits : wait[w] # "open"

\* A parked Run is parked on something that can still move it: whatever order
\* sibling Tasks, events, pauses and lease expiries commit in, the Run shows
\* "approval_required" only while an approval is open, and "waiting" only while
\* a Wait is open or a Task is dead-lettered (which an operator resolves).
ParkedHasReason ==
  /\ run.status = "approval_required" => \E w \in Approval : wait[w] = "open"
  /\ run.status = "waiting" => \/ \E w \in Waits : wait[w] = "open"
                              \/ \E t \in Tasks : task[t].status = "dead_lettered"

\* Until the first pause, a Task with prerequisites (and no child Runs) has been
\* made runnable only if its join is satisfied by how they ended - not by a
\* prerequisite that is still open, and not by the order in which several of
\* them, a fallback edge or a plan revision were resolved.
Released(t) == task[t].status \in {"queued", "leased", "retry_scheduled",
                                  "succeeded", "failed", "dead_lettered"}
DependencyGate ==
  \A t \in Tasks :
    run.generation = 0 /\ Prereq[t] # {} /\ child[t] = NoChildren /\ Released(t)
      => Ready(task, {}, t)

\* No dependent is forgotten: in a live Run a Task held back by prerequisites
\* has an open one, or one that was dead-lettered by the lease reclaimer, which
\* alone of all transactions that end a Task does not resolve dependents.
DependentsResolved ==
  \A t \in Tasks :
    run.status \notin RunTerminal /\ Prereq[t] # {} /\ child[t] = NoChildren
      /\ task[t].status = "scheduled"
      => \/ ~Settled(task, {}, t)
         \/ \E p \in Prereq[t] :
              /\ task[p].status = "dead_lettered"
              /\ attempt[p][task[p].attempt].outcome = "lease_expired"

\* Until the first pause, a fan-in Task (without prerequisites of its own) does
\* not run while all of its child Runs are still running, however often more
\* children are added or the join is evaluated.
FanInGate ==
  \A t \in Tasks :
    run.generation = 0 /\ Prereq[t] = {} /\ child[t].running > 0 /\ child[t].ended = 0
      => ~Released(t)

\* No wake-up is lost or doubled: a Wait's resume Task exists iff the Wait was
\* consumed.
WaitResume ==
  \A w \in Waits : wait[w] = "consumed" <=> task[ResumeTask[w]].status # "absent"

\* A terminal status is final: no worker, event, control command or poller
\* changes the Run, its Tasks, attempts, stages or Waits any more.
TerminalFinal ==
  [][run.status \in RunTerminal => UNCHANGED <<run, task, attempt, stage, wait>>]_vars

\* No silent change: when the status of the Run, a Task, a stage or a Wait
\* changes, the same transaction appends one Event and moves the version, so
\* a reader that saw version v and catches up on Events has seen everything.
EveryChangeLogged ==
  [][(\/ run.status # run'.status
      \/ \E t \in Tasks : task[t].status # task'[t].status
      \/ stage # stage'
      \/ wait # wait')
     => run'.version = run.version + 1 /\ run'.next_seq = run.next_seq + 1]_vars

\* What is finished stays finished: no reclaimer, late worker, resume, fan-in or
\* dependency resolution touches a terminal Task or a closed attempt again.
FinishedIsFinal ==
  [][\A t \in Tasks :
       /\ task[t].status \in TaskTerminal => task'[t] = task[t]
       /\ \A n \in AttemptNumbers(t) :
            attempt[t][n].outcome \notin {"absent", "open"} => attempt'[t][n] = attempt[t][n]]_vars

\* A Run with a deadline ends, whatever its workers, Waits and pauses do.
DeadlineEnds == (run.deadline # Never) ~> (run.status \in RunTerminal)

\* A lease whose worker stops renewing does not last: the Task leaves "leased"
\* or the Run ends.
LeaseEnds ==
  \A t \in Tasks : task[t].status = "leased"
                    ~> (task[t].status # "leased" \/ run.status \in RunTerminal)

\* A Run does not stay parked on a Wait that has expired, a pause while it was
\* parked included: the Wait is satisfied, or closed with the Run, or a Task of
\* the Run gets work again.  (In a Run that went on the Wait may stay open past
\* its expiry: WaitTimesOut in RunClaims.)
ParkedWaitEnds ==
  \A w \in Waits :
    (wait[w] = "open" /\ WaitExpires[w] # Never /\ run.status \in ScannedForWaits)
      ~> (wait[w] # "open" \/ run.status \notin ScannedForWaits)

=============================================================================
