---------------------------- MODULE ExternalStore ----------------------------
(***************************************************************************)
(* The transactions of the PostgreSQL store on the Tool and Agent          *)
(* executions of one Run: prepare, record, retry and resubmit; append      *)
(* remote events; turn a due retry into a recovery Task; mark a silent     *)
(* execution stale.  As in RunStore, each action is one committed          *)
(* transaction under the lock of the Run row.  What the caller read before *)
(* it called (an attempt, a version, a cursor, a scan hint) is a parameter *)
(* of the action.                                                          *)
(***************************************************************************)
EXTENDS RunStore

CONSTANTS
  RecoveryTasks,    \* Task ids apply_due_work may insert
  RemoteEvents,     \* identities of the events a remote Agent emits
  Authoritative,    \* those of them that become local Events
  RetryDelays,      \* delays between now and a retry_at or status_poll_at
  StaleAfter,       \* age at which a silent execution is stale
  MaxToolAttempts,  \* bound: attempts of a Tool execution
  MaxAgentVersion   \* bound: versions of an Agent execution

Executions == Tools \cup Agents

ASSUME ExternalAssumption ==
  /\ RecoveryTasks \subseteq Tasks
  /\ RecoveryTasks \cap (InitialTasks \cup PlanTasks \cup RevisionTasks) = {}
  /\ \A w \in Waits : ResumeTask[w] \notin RecoveryTasks
  /\ \A q \in RecoveryTasks : TaskDeadline[q] = Never
  /\ Tools \cap Agents = {}
  /\ Authoritative \subseteq RemoteEvents
  /\ RetryDelays \subseteq Nat /\ StaleAfter \in Nat
  /\ MaxToolAttempts \in Nat \ {0} /\ MaxAgentVersion \in Nat

VARIABLES
  origin,    \* [RecoveryTasks -> Origin]: the retry a recovery Task is for
  updated,   \* [Executions -> Nat]: updated_at
  receipts,  \* [Agents -> SUBSET RemoteEvents]: agent_event_receipts
  logged     \* [Agents -> [RemoteEvents -> Nat]]: local Events of a remote event

extVars == <<origin, updated, receipts, logged>>

NoOrigin == [exec |-> "none", due |-> Never, revision |-> 0]

ExternalInit ==
  /\ Init
  /\ origin = [q \in RecoveryTasks |-> NoOrigin]
  /\ updated = [e \in Executions |-> 0]
  /\ receipts = [a \in Agents |-> {}]
  /\ logged = [a \in Agents |-> [e \in RemoteEvents |-> 0]]

\* The steps of RunStore change executions too (stops, uncertain outcomes);
\* every UPDATE of an execution sets its updated_at.
Touch ==
  updated' = [e \in Executions |->
                IF \/ e \in Tools /\ tool'[e] # tool[e]
                   \/ e \in Agents /\ agent'[e] # agent[e]
                THEN now ELSE updated[e]]

\* Rows only control commands, completions and leases change.
WorkflowUnchanged == UNCHANGED <<now, task, attempt, stage, wait, child>>

\* advance_run_event_cursor: one Event, the status stays.
LogEvent == run' = Advance(run, run.status)

----------------------------------------------------------------------------
\* Tool executions.

\* lock_tool_by_idempotency: no row has the key.
NewTool(x) == tool[x].status = "absent"

\* prepare_tool_execution for a new idempotency key.  A key that exists is a
\* recorded no-op and no step.
PrepareToolExecution(t, k, x) == \E dbnow \in DbNow :
  /\ FencesHold(t, k, dbnow)
  /\ NewTool(x)
  /\ tool' = [tool EXCEPT ![x] = [status |-> "executing", attempt |-> 1, unfinished |-> 1,
                                  recovery |-> "none", retry_at |-> Never]]
  /\ LogEvent
  /\ Touch
  /\ WorkflowUnchanged /\ UNCHANGED <<agent, origin, receipts, logged>>

\* project_tool_outcome
ToolProjection ==
  [completed        |-> [status |-> "succeeded", recovery |-> "none"],
   accepted         |-> [status |-> "executing", recovery |-> "none"],
   never            |-> [status |-> "failed", recovery |-> "none"],
   backoff          |-> [status |-> "retry_scheduled", recovery |-> "retry_same_request"],
   reconnect        |-> [status |-> "reconciling", recovery |-> "reconnect_and_resume"],
   query            |-> [status |-> "reconciling", recovery |-> "query_outcome"],
   review           |-> [status |-> "manual_review", recovery |-> "manual_review"],
   uncertain_query  |-> [status |-> "outcome_unknown", recovery |-> "query_outcome"],
   uncertain_review |-> [status |-> "outcome_unknown", recovery |-> "manual_review"]]

ToolOutcomes == DOMAIN ToolProjection

\* record_tool_outcome of attempt n.  No fence on the Run: a late outcome is
\* recorded as evidence and moves neither the Run's status nor a Task.  The
\* attempt row is finished by any outcome, also by one that leaves it open
\* what happened.  Bound: no timer lies beyond the clock.
RecordToolOutcome(x, n, o) == \E dbnow \in DbNow, d \in RetryDelays :
  /\ tool[x].status \in {"executing", "reconciling"}
  /\ tool[x].attempt = n
  /\ tool[x].unfinished = n
  /\ dbnow + d <= MaxTime
  /\ tool' = [tool EXCEPT ![x] =
                [status |-> ToolProjection[o].status, attempt |-> n, unfinished |-> 0,
                 recovery |-> ToolProjection[o].recovery,
                 retry_at |-> IF o = "backoff" THEN dbnow + d ELSE Never]]
  /\ LogEvent
  /\ Touch
  /\ WorkflowUnchanged /\ UNCHANGED <<agent, origin, receipts, logged>>

\* complete_recovery_task: dependents are not resolved.
CompleteRecoveryTask(q) ==
  /\ task' = [task EXCEPT ![q] = Unlease(@, "succeeded")]
  /\ attempt' = FinishAttempt(attempt, q, "succeeded")

\* validate_retry_task_origin: the Task was created for this execution.
RetryTaskOrigin(q, e) == origin[q].exec = e

\* Mutant: the retry runs under the number of the attempt that failed.
BeginSameAttempt(q, k, x, n) == \E dbnow \in DbNow :
  /\ FencesHold(q, k, dbnow)
  /\ RetryTaskOrigin(q, x)
  /\ tool[x].status = "reconciling" /\ tool[x].recovery = "retry_same_request"
  /\ tool[x].retry_at = Never /\ tool[x].attempt = n
  /\ tool' = [tool EXCEPT ![x] = [@ EXCEPT !.status = "executing", !.unfinished = n,
                                           !.recovery = "none"]]
  /\ CompleteRecoveryTask(q)
  /\ LogEvent
  /\ Touch
  /\ UNCHANGED <<now, stage, wait, agent, child, origin, receipts, logged>>

\* Mutant: the recovery Task is left to somebody else.
BeginKeepsTask(q, k, x, n) == \E dbnow \in DbNow :
  /\ FencesHold(q, k, dbnow)
  /\ RetryTaskOrigin(q, x)
  /\ tool[x].status = "reconciling" /\ tool[x].recovery = "retry_same_request"
  /\ tool[x].retry_at = Never /\ tool[x].attempt = n
  /\ tool' = [tool EXCEPT ![x] = [@ EXCEPT !.status = "executing", !.attempt = n + 1,
                                           !.unfinished = n + 1, !.recovery = "none"]]
  /\ LogEvent
  /\ Touch
  /\ WorkflowUnchanged /\ UNCHANGED <<agent, origin, receipts, logged>>

\* begin_tool_retry_attempt: the recovery Task ends and the next attempt is
\* open in one transaction.  n is the attempt the caller expects.
BeginToolRetryAttempt(q, k, x, n) == \E dbnow \in DbNow :
  /\ FencesHold(q, k, dbnow)
  /\ RetryTaskOrigin(q, x)
  /\ tool[x].status = "reconciling"
  /\ tool[x].recovery = "retry_same_request"
  /\ tool[x].retry_at = Never
  /\ tool[x].attempt = n
  /\ tool' = [tool EXCEPT ![x] = [@ EXCEPT !.status = "executing", !.attempt = n + 1,
                                           !.unfinished = n + 1, !.recovery = "none"]]
  /\ CompleteRecoveryTask(q)
  /\ LogEvent
  /\ Touch
  /\ UNCHANGED <<now, stage, wait, agent, child, origin, receipts, logged>>

----------------------------------------------------------------------------
\* Agent executions.

\* lock_agent_by_idempotency: no row has the key.
NewAgent(a) == agent[a].status = "absent"

\* prepare_agent_execution for a new idempotency key.
PrepareAgentExecution(t, k, a) == \E dbnow \in DbNow :
  /\ FencesHold(t, k, dbnow)
  /\ NewAgent(a)
  /\ agent' = [agent EXCEPT ![a].status = "submitting"]
  /\ LogEvent
  /\ Touch
  /\ WorkflowUnchanged /\ UNCHANGED <<tool, origin, receipts, logged>>

\* project_agent_submission
SubmissionProjection ==
  [accepted  |-> "running",
   uncertain |-> "outcome_unknown",
   never     |-> "failed",
   review    |-> "manual_review",
   backoff   |-> "reconciling"]

SubmissionOutcomes == DOMAIN SubmissionProjection

\* A stop was requested after the call with version v was sent.
LateAfterStop(a, v) == agent[a].status = "stopping" /\ agent[a].version = v + 1

\* Mutant: the version is not compared.
AwaitsAnySubmission(a, v) == agent[a].status \in {"submitting", "outcome_unknown", "stopping"}

\* The version and status a submission outcome must find.
AwaitsSubmission(a, v) ==
  \/ LateAfterStop(a, v)
  \/ agent[a].version = v /\ agent[a].status \in {"submitting", "outcome_unknown"}

\* Mutant: a late acceptance is projected like any other.
SubmittedIgnoringStop(a, v, o) == SubmissionProjection[o]

\* The status a submission outcome leads to: an acceptance that comes after
\* the stop request keeps the execution stopping.
SubmittedStatus(a, v, o) ==
  IF LateAfterStop(a, v) /\ o = "accepted" THEN "stopping" ELSE SubmissionProjection[o]

\* record_agent_submission
RecordAgentSubmission(a, v, o) == \E dbnow \in DbNow, d \in RetryDelays :
  LET status == SubmittedStatus(a, v, o) IN
  /\ AwaitsSubmission(a, v)
  /\ dbnow + d <= MaxTime
  /\ agent' = [agent EXCEPT ![a] =
                 [agent[a] EXCEPT !.status = status, !.version = @ + 1,
                   !.remote = IF o = "accepted" THEN "known" ELSE "none",
                   !.retry_at = IF o = "backoff" THEN dbnow + d ELSE Never,
                   !.poll_at = IF status = "running" THEN dbnow ELSE Never]]
  /\ LogEvent
  /\ Touch
  /\ WorkflowUnchanged /\ UNCHANGED <<tool, origin, receipts, logged>>

\* begin_agent_resubmission: the recovery Task ends and the execution awaits
\* the outcome of a new submission.  v is the version the caller expects.
BeginAgentResubmission(q, k, a, v) == \E dbnow \in DbNow :
  /\ FencesHold(q, k, dbnow)
  /\ RetryTaskOrigin(q, a)
  /\ agent[a].status = "reconciling"
  /\ agent[a].version = v
  /\ agent[a].retry_at = Never
  /\ agent[a].remote = "none"
  /\ agent' = [agent EXCEPT ![a] = [@ EXCEPT !.status = "outcome_unknown", !.version = v + 1,
                                             !.poll_at = Never]]
  /\ CompleteRecoveryTask(q)
  /\ LogEvent
  /\ Touch
  /\ UNCHANGED <<now, stage, wait, tool, child, origin, receipts, logged>>

\* Mutant: receipts are not looked up.
AllEvents(a, batch) == batch

\* The events of a batch that have no receipt yet.
FreshEvents(a, batch) == batch \ receipts[a]

\* insert_agent_event_receipt, and insert_event for an authoritative event.
InsertEventReceipts(a, fresh) ==
  /\ receipts' = [receipts EXCEPT ![a] = @ \cup fresh]
  /\ logged' = [logged EXCEPT ![a] = [e \in RemoteEvents |->
                  IF e \in fresh \cap Authoritative THEN @[e] + 1 ELSE @[e]]]

\* update_agent_after_event_batch, for a batch without a projected outcome.
AgentAfterEvents(row, terminal, poll_at) ==
  [row EXCEPT !.status = IF terminal THEN "reconciling" ELSE @,
              !.version = @ + 1, !.cursor = @ + 1, !.poll_at = poll_at]

\* append_agent_events read at cursor version c, without projections (the
\* runtime passes none).  An event with a receipt is skipped; a terminal batch
\* only makes the status poller ask.
AppendAgentEvents(a, c, batch, terminal) == \E dbnow \in DbNow, d \in RetryDelays :
  LET fresh == FreshEvents(a, batch) IN
  /\ agent[a].cursor = c
  /\ agent[a].status = "running"
  /\ dbnow + d <= MaxTime
  /\ InsertEventReceipts(a, fresh)
  /\ agent' = [agent EXCEPT ![a] = AgentAfterEvents(agent[a], terminal, dbnow + d)]
  /\ run' = [run EXCEPT !.version = @ + 1,
                        !.next_seq = @ + Cardinality(fresh \cap Authoritative)]
  /\ Touch
  /\ WorkflowUnchanged /\ UNCHANGED <<tool, origin>>

\* The statuses record_agent_outcome accepts, and the ones it may record.
AcceptsOutcome == {"running", "stopping", "outcome_unknown", "reconciling", "manual_review"}

\* record_agent_outcome, expecting version v
RecordAgentOutcome(a, v, status) == \E dbnow \in DbNow, d \in RetryDelays :
  /\ agent[a].version = v
  /\ agent[a].status \in AcceptsOutcome
  /\ dbnow + d <= MaxTime
  /\ agent' = [agent EXCEPT ![a] =
                 [@ EXCEPT !.status = status, !.version = v + 1, !.retry_at = Never,
                           !.poll_at = IF status = "reconciling" THEN dbnow + d ELSE Never]]
  /\ LogEvent
  /\ Touch
  /\ WorkflowUnchanged /\ UNCHANGED <<tool, origin, receipts, logged>>

----------------------------------------------------------------------------
\* Due retries.

\* The hint scan_due_work returns for an execution whose retry is due.
DueRevision(e) == IF e \in Tools THEN tool[e].attempt ELSE agent[e].version
RetryAt(e) == IF e \in Tools THEN tool[e].retry_at ELSE agent[e].retry_at

DueHint(e) ==
  [exec |-> e, due |-> RetryAt(e), revision |-> DueRevision(e), version |-> run.version,
   generation |-> run.generation, checkpoint |-> run.checkpoint]

\* scan_due_work
RetryDue(e, dbnow) ==
  /\ RetryAt(e) # Never /\ RetryAt(e) <= dbnow
  /\ run.status \notin RunTerminal

\* Mutant: only the time is checked, not the Run the scan saw.
DueWorkTimeValid(h, dbnow) == h.due <= dbnow /\ BeforeDeadline(dbnow)

\* validate_due_work_run: the Run must be as the scan saw it.
DueWorkRunValid(h, dbnow) ==
  /\ run.status \notin RunTerminal
  /\ h.version = run.version /\ h.generation = run.generation
  /\ h.checkpoint = run.checkpoint
  /\ h.due <= dbnow
  /\ BeforeDeadline(dbnow)

\* Mutant: the retry time of a consumed Tool retry stays.
ConsumeKeepingTime(h) ==
  /\ h.exec \in Tools
  /\ tool[h.exec].status = "retry_scheduled"
  /\ tool[h.exec].attempt = h.revision /\ tool[h.exec].retry_at = h.due
  /\ tool' = [tool EXCEPT ![h.exec] = [@ EXCEPT !.status = "reconciling",
                !.recovery = "retry_same_request"]]
  /\ UNCHANGED agent

\* consume_external_due_work: the execution must be as the scan saw it.
ConsumeDueWork(h) ==
  \/ /\ h.exec \in Tools
     /\ tool[h.exec].status = "retry_scheduled"
     /\ tool[h.exec].attempt = h.revision /\ tool[h.exec].retry_at = h.due
     /\ tool' = [tool EXCEPT ![h.exec] = [@ EXCEPT !.status = "reconciling",
                   !.recovery = "retry_same_request", !.retry_at = Never]]
     /\ UNCHANGED agent
  \/ /\ h.exec \in Agents
     /\ agent[h.exec].status = "reconciling"
     /\ agent[h.exec].version = h.revision /\ agent[h.exec].retry_at = h.due
     /\ agent' = [agent EXCEPT ![h.exec] =
                    [agent[h.exec] EXCEPT !.version = @ + 1, !.retry_at = Never]]
     /\ UNCHANGED tool

\* UNIQUE uq_tasks__logical_generation: the logical key of a recovery Task names
\* its execution and revision, not the due time.
LogicalKeyCheck(tk, og) ==
  \A q, r \in RecoveryTasks :
    /\ q # r /\ tk[q].status # "absent" /\ tk[r].status # "absent"
    /\ og[q].exec = og[r].exec /\ og[q].revision = og[r].revision
    => tk[q].generation # tk[r].generation

DueIdentity(h) == [exec |-> h.exec, due |-> h.due, revision |-> h.revision]

\* apply_due_work: one recovery Task for a retry that is due.  Its identity is
\* the execution, the due time and the revision, so a repeated command finds
\* its receipt.  On a paused Run the Task is only scheduled.
ApplyDueWork(h, q) == \E dbnow \in DbNow :
  LET paused == run.status = "paused" IN
  /\ task[q].status = "absent"
  /\ \A r \in RecoveryTasks : origin[r] # DueIdentity(h)
  /\ DueWorkRunValid(h, dbnow)
  /\ ConsumeDueWork(h)
  /\ task' = [task EXCEPT ![q] =
                NewTask(IF paused THEN "scheduled" ELSE "queued", run.generation, h.due)]
  /\ origin' = [origin EXCEPT ![q] = DueIdentity(h)]
  /\ LogicalKeyCheck(task', origin')
  /\ run' = Advance(run, IF paused THEN "paused" ELSE "queued")
  /\ Touch
  /\ UNCHANGED <<now, attempt, stage, wait, child, receipts, logged>>

----------------------------------------------------------------------------
\* Stale executions (apply_maintenance).  The hint of scan_maintenance carries
\* the Run's version, so only a current hint is a step.

Stale(e, dbnow) ==
  /\ run.status \notin RunTerminal
  /\ updated[e] + StaleAfter <= dbnow

\* Mutant: the status is written without a new version.
RunAfterStaleUnversioned ==
  [run EXCEPT !.status = IF @ = "paused" THEN "paused" ELSE "retrying", !.next_seq = @ + 1,
              !.suspended_from = "none"]

\* The Run after a stale execution was found: the UPDATE of the Run clears
\* suspended_from_status, also on a paused Run.
RunAfterStale ==
  [Advance(run, IF run.status = "paused" THEN "paused" ELSE "retrying")
     EXCEPT !.suspended_from = "none"]

\* CHECK ck_runs__suspended_from
SuspendedCheck(r) == r.status = "paused" <=> r.suspended_from # "none"

\* Mutant: only an unknown outcome counts as stale.
StaleUnknownTool(x) == \E dbnow \in DbNow :
  /\ Stale(x, dbnow)
  /\ tool[x].status = "outcome_unknown"
  /\ tool' = [tool EXCEPT ![x] = [@ EXCEPT !.status = "retry_scheduled",
                !.recovery = "query_outcome", !.retry_at = dbnow]]
  /\ run' = RunAfterStale
  /\ SuspendedCheck(run')
  /\ Touch
  /\ WorkflowUnchanged /\ UNCHANGED <<agent, origin, receipts, logged>>

\* apply_maintenance of a Tool execution that has been silent
ApplyStaleTool(x) == \E dbnow \in DbNow :
  /\ Stale(x, dbnow)
  /\ tool[x].status \in {"executing", "outcome_unknown"}
  /\ tool' = [tool EXCEPT ![x] = [@ EXCEPT !.status = "retry_scheduled",
                !.recovery = "query_outcome", !.retry_at = dbnow]]
  /\ run' = RunAfterStale
  /\ SuspendedCheck(run')
  /\ Touch
  /\ WorkflowUnchanged /\ UNCHANGED <<agent, origin, receipts, logged>>

\* apply_maintenance of an Agent execution that has been silent
ApplyStaleAgent(a) == \E dbnow \in DbNow :
  /\ Stale(a, dbnow)
  /\ agent[a].status \in {"submitting", "running", "outcome_unknown"}
  /\ agent' = [agent EXCEPT ![a] = [agent[a] EXCEPT !.status = "reconciling", !.version = @ + 1,
                 !.retry_at = IF agent[a].remote = "none" THEN dbnow ELSE Never,
                 !.poll_at = IF agent[a].remote = "known" THEN dbnow ELSE Never]]
  /\ run' = RunAfterStale
  /\ SuspendedCheck(run')
  /\ Touch
  /\ WorkflowUnchanged /\ UNCHANGED <<tool, origin, receipts, logged>>

=============================================================================
