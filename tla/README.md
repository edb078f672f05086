# A TLA+ model of Agent Loom

Agent Loom is a durable runtime for long-running agent workflows: a *Run* is a
set of *Tasks* that workers claim by lease, with *Waits* for approvals and
external events, calls to *Tools* and remote *Agents*, and control commands
(pause, resume, cancel). All state is in PostgreSQL; every command is one
transaction of `store-postgres/src/transaction_executor.rs` (11 777 lines, below
*the executor*). These transactions decide whether a Run is correct and are the core of
the model; the processes that call them, the remote systems, the outbox, schedules and
migrations are modelled around them.

## 1. Inventory

| Component | State | Operations | Interacts with |
|---|---|---|---|
| Run core (executor) | `runs`, `tasks`, `task_attempts`, `stage_executions`, `wait_subscriptions`, `events`, `checkpoints` | create_run, claim, renew, reclaim, fail, complete, apply_event, pause, resume, cancel, revise_plan, apply_context_patch, evaluate_child_run_join, apply_maintenance | everything else goes through it |
| Task dependencies | `task_dependencies` | resolve_dependent_tasks | called by complete, fail, revise_plan |
| Tool and Agent executions | `tool_executions`, `tool_execution_attempts`, `agent_executions`, `agent_event_receipts` | prepare, begin retry / resubmission, record submission / outcome, append events, apply_due_work | Run status and resume gate; pause and cancel request stops |
| Receipts | `command_receipts` | acquire_receipt, finish_receipt | first and last step of every command |
| Outbox | `outbox_messages` | claim_outbox, record_outbox_delivery | filled with every Event; `runtime/outbox.rs` publishes |
| Schedules | `schedules` | create, scan, create_run with `(schedule_id, fire_at)`, advance | `server/schedule.rs` |
| Runtime loops | cursors in memory | PollingService, DueWorkScheduler, RecoveryWorker, LeaseReclaim, Agent stop/status/event workers, maintenance | drive the store; hold no authority |
| Adapter dispatcher | none | dispatch tool / agent / stop / status / events | maps adapter results to recorded outcomes |
| Server | none (worker: claimed Task) | HTTP API, mock worker, bootstrap | callers of the store |
| Migrations, MySQL store | `schema_migrations`, session lock | migrate | start-up of every server process; MySQL has no Run transactions yet |

What is hard about it:

* **Interleaving.** Workers, the reclaimer, the maintenance poller, external
  events and users commit transactions on one Run in any order. A worker may come
  back with a lease proof that a pause, a cancel or a reclaim took away.
* **Stale reads.** Database time is read when a transaction starts, before it waits
  for the Run's lock. Scan candidates are chosen without a lock and re-checked.
* **One status for several gates.** `scheduled` means "behind a pause", "waits for
  prerequisites" and "waits for child Runs"; whoever opens one gate may open
  another.
* **Hand-written projections.** Each transaction sets the Run's status from its own
  outcome. Whether that status is right depends on the siblings.
* **Limits.** The attempt counter meets `max_attempts` at claim, failure, reclaim
  and pause.
* **Failure and repetition.** Workers die with a lease, publishers die before the
  acknowledgement, commands are repeated, remote answers come after a stop.

What makes the core correct, in the words of the properties below: only the last
lease proof counts; the attempt ledger agrees with the Task table; a closed Run is
closed and stays so; a pause strands no Task; a Wait is consumed once and wakes one
Task; a dependent runs when, and only when, its join is satisfied; every change has
its Event; deadlines and leases end, and no Run stays parked on an expired Wait.
`PROJECT.json` lists every hazard at its line with the properties that would catch it.

## 2. Plan

| Module | Models | Status |
|---|---|---|
| `RunTables` | rows, statuses, constants and their assumptions | done |
| `TaskGraph` (extends RunTables) | dependency resolution as a least fixed point | done |
| `RunStore` (extends TaskGraph) | the transactions of one Run | done |
| `RunStoreProofs`, `RunSafetyProofs` | type correctness and safety of RunStore, proved | done |
| `RunGateProofs` (extends RunSafetyProofs) | dependency resolution, the gates of a Task, parked Runs | done |
| `ExternalStore` (extends RunStore) | Tool and Agent transactions, due work, stale executions | done |
| `ExternalWork` (extends ExternalStore) | the processes around them: dispatcher, scheduler, recovery worker, pollers, remote systems, crashes | done |
| `RunLifecycle` | abstract Run, implemented by ExternalWork | done |
| `ExternalProofs` (extends RunSafetyProofs, ExternalWork) | the store's safety among the processes, the lifecycle refinement | done |
| `ExternalTruthProofs` (extends ExternalProofs) | calls, attempts, recovery Tasks, remote Runs | done |
| `Delivery` | command receipts, outbox and Event stream together | done |
| `EventFeed` | abstract Event feed, implemented by Delivery | done |
| `DeliveryProofs` | receipts, outbox, stream, safety part of the feed | done |
| `Schedules` | cursor, misfire policies, overlap, two scanners, crashes | done |
| `ScheduleProofs` | the operators of the plan, Runs and cursor | done |
| `Migrations` | PostgreSQL and MySQL executors, several releases | done |
| `MigrationProofs` | lock, journal and schema | done |

Every invariant and every action property of the passing runs is proved (section 5).
What is left: the dependency gates, `FinishedIsFinal` and `EveryChangeLogged` are theorems
about RunStore's specification; whether and in which form they carry over to ExternalWork,
which completes recovery Tasks and parks the Run on executions, is to be stated, checked
and proved. Liveness stays with TLC.

## 3. Modules and how they correspond to the code

**`RunTables`** gives one Run's rows. Identifiers are members of constant sets;
a row not inserted yet has status `"absent"`. What a plan fixes when it inserts a
row (prerequisites, condition, join policy, attempts, deadline, stage, match key,
resume Task) is a constant function, so one instance is one plan. `NULL` times are
`Never`. The lease token (32 random bytes per claim) is the number of the claim.
Result payloads are the values a `result_equals` condition tells apart. Left out:
names, contracts, hashes, correlation ids, priorities, artifacts.

**`TaskGraph`** is `resolve_dependent_tasks`. The code works through a worklist; the
model takes the least set of skipped Tasks closed under the code's rule and then
activates what is ready, so that no evaluation order is built in.

**`RunStore`** has one action per transaction, with all its statements. A check that
fails, a constraint that refuses, and a replay answered from the receipt are
rollbacks or recorded no-ops and no steps.

| Action | Transaction |
|---|---|
| `Init` | `create_run` |
| `ClaimTask`, `RenewTaskLease`, `ReclaimExpiredLease` | `claim_task`, `renew_task_lease`, `reclaim_expired_lease` |
| `FailTaskRetry`, `FailTaskDeadLetter`, `FailTaskFatal` | `fail_task`, one action per result of `FailureTransition::classify` |
| `CompleteWithTasks`, `CompleteWithRetry`, `CompleteWithWait`, `CompleteAndFinish`, `CompleteNoFurtherWork` | `complete_task`, one per `NextActions` |
| `ApplyEvent` | `apply_event` |
| `PauseRun`, `ResumeRun`, `CancelRun` | `execute_control` |
| `RevisePlan`, `ApplyContextPatch` | `revise_plan`, `apply_context_patch` |
| `CreateChildRun`, `EvaluateChildRunJoin` | `create_run` with a parent Task, `evaluate_child_run_join` |
| `TimeOutRun`, `ExpireWait` | `apply_maintenance` for Runs and Waits |
| `ChildRunEnds`, `Tick` | outside: the child's own transaction, the database clock |

Choices a reader should know:

* *Lease proofs are not lost.* The worker's proof of its k-th claim of a Task can be
  presented at any later time, by any of the worker actions; `attempt[t][k]` keeps
  the generation that was handed out with it.
* *Stale time.* `dbnow` is any time up to `MaxLag` before now. Which orders of
  `claimed_at` and `finished_at` the table would refuse is not modelled, so the
  model allows a few more steps than the database.
* *Scanned Waits.* `ExpireWait` needs what the scan for its candidate needs, a Run in
  `ScannedForWaits`; the transaction itself would take any live Run, but nobody else calls it,
  and the hint carries the Run's version.
* *Optional expectations.* `ExpectedRun.version` may be absent; then only the fences
  hold a command back. The model never requires a version: it allows every order the
  code does with or without one.
* *FinishRun* takes its status from `FinishStatuses`; the runs use `{"completed"}`, the
  only one the worker sends. The proofs allow any terminal status.
* *Stages.* A completion carries any list of stage mutations and new stages; a stage
  may end anywhere a series of legal moves leads. New stages are in any open status.
* *Child Runs* are counted per fan-in Task. A child without a fan-in Task only
  appends an Event to its parent and is left out.
* *Tools and Agents* appear here as rows that pause, cancel and failure touch;
  `ExternalStore` adds the transactions that create and move them. `RetryScheduleCheck`
  is the CHECK constraint that makes a cancel roll back while a retry is scheduled.

**`ExternalStore`** adds the transactions on the executions of a Run. What the caller
read before it called (an attempt number, a version, a cursor, a scan's hint) is a
parameter of the action, so that every stale call is a step or is refused by the
guard the code has.

| Action | Transaction |
|---|---|
| `PrepareToolExecution`, `RecordToolOutcome`, `BeginToolRetryAttempt` | `prepare_tool_execution`, `record_tool_outcome`, `begin_tool_retry_attempt` |
| `PrepareAgentExecution`, `RecordAgentSubmission`, `BeginAgentResubmission` | `prepare_agent_execution`, `record_agent_submission`, `begin_agent_resubmission` |
| `AppendAgentEvents`, `RecordAgentOutcome` | `append_agent_events`, `record_agent_outcome` |
| `ApplyDueWork` | `apply_due_work` with `validate_due_work_run`, `consume_external_due_work` |
| `ApplyStaleTool`, `ApplyStaleAgent` | `apply_maintenance` for executions |

**`ExternalWork`** composes them with RunStore's steps and with the processes. A call in
flight is a member of `calls` and may be lost before or after it reached the other side;
a scheduler's hint and a poller's candidate are kept in variables and go stale.

| Action | Code |
|---|---|
| `StartTool`, `SendTool`, `FinishTool` | `prepare_tool_and_dispatch` of the worker, `dispatch_tool`, `record_tool` |
| `StartAgent`, `SubmitAgent`, `FinishSubmission` | `prepare_and_dispatch`, `dispatch_agent`, `record_agent` |
| `WorkerReports` | the rest of `prepare_and_dispatch`: `record_agent_outcome` with `succeeded` |
| `RecoverTool`, `ResubmitAgent` | `RecoveryWorker::poll_once` |
| `ScanDueWork`, `SchedulerApplies` | `DueWorkScheduler::tick` |
| `MaintainTool`, `MaintainAgent` | `MaintenancePollingJob::run_once` |
| `PollStop`, `PollStatus`, `PollEvents`, `RecordPolled`, `DropPolled` | the three workers of `agent_control.rs` and the dispatcher functions they call |
| `LoseCall` | a process that dies, or a dispatcher whose record is refused |
| `RemoteEnds` | outside: the remote Agent |

The worker that prepared an Agent execution records its success as soon as the dispatcher
has recorded an outcome of the submission, whichever it was and whatever the remote Run
does; `report` tells for each Agent whether that is still to come (`"due"`) or done
(`"made"`). Its only fence is the version: it expects the one after the prepared version.

Choices: a poller's scan and its remote call are one step, what it records is another;
the scan itself holds nothing that could go stale in between. `ResubmitAgent` passes the
Agent's current version: the version the recovery worker really passes is refused every
time (see `claim_resubmit`), and the transaction deserves checking behind that fault.
`append_agent_events` takes projections of outcomes that no caller in the repository
passes; they are left out. An adapter's capability flags are a choice of outcomes.
`manual_review` is left by `record_agent_outcome` only; the operator's intervention
scopes of the API are not modelled.

**`RunLifecycle`** is what a reader of a Run may rely on: open, paused or ended; one
version per change; a new generation exactly when work is taken from its workers; one
way into the end and none out of it. `RunKeepsLifecycle` is the refinement, with
`run.status`, `run.version`, `run.generation` and `run.terminal_seq` for its variables.

**`Delivery`** is the way from a command to those who learn of it. A client sends a
control command, again when it got no answer; `LoadRun` is the API's read of the version,
`AcquireReceipt` the INSERT of the key (it waits for another transaction with the same
key), `CommitNoOp`, `CommitRefused` and `CommitApplied` the rest of `execute_control`.
`ClaimOutbox`, `Publish` and `RecordOutboxDelivery` are `OutboxWorker::poll_once` and its
transactions; `PollEvents`, `SendEvent`, `CheckRun` and `CutStream` the Event stream.
The Run is reduced to status and version, and the clock to whether a row's moment has
come; `claim_outbox` takes the oldest due row, the model any due row. **`EventFeed`** is
the promise: one Event per command key, never taken back, each learnt in the end.

**`Schedules`** is one Schedule row. A scanner's dispatch is `ScanDueSchedules`,
`PlanDispatch` (overlap check and `dispatch_plan`), one `FireNext` or `FireRefused` per
Run, and `AdvanceSchedule`; it may stop between any two. `FireSchedule` is the operator.
Cron is the set of instants the library returns. `last_fire_at` is displayed only and
left out.

**`Migrations`** has one runner per server process. Its steps are the phases of
`MigrationExecutionMachine` for PostgreSQL (one transaction per migration) and of the
MySQL executor (every statement commits); `StepFails` and `LoseSession` come between any
two. `ran` counts executed statements, which no table records.

**`RunStoreMC`**, **`ExternalWorkMC`**, **`DeliveryMC`** and **`MigrationsMC`** have the
instances for TLC, **`RunClaims`** and **`ExternalClaims`** sentences of the documents as
properties. A definition whose comment begins with "Mutant" is a plausible bug in the
definition that follows it: a property is kept only if one of them breaks it.

## 4. Runs

Every run finishes within three minutes with two TLC workers.

| Run | Instance | Checks |
|---|---|---|
| `run_leases` | two symmetric workers, two sibling Tasks (one with two attempts) and one added by a completion, a deadline, lag 1, one pause | `AttemptLedger`, `LeaseFence`, `OnlyLastProofPasses`, `TerminalClosed`, `TerminalFinal`, `FinishedIsFinal` |
| `run_waits` (210 thousand states) | two sibling Tasks, an approval on a stage and an event Wait with the same key, a deadline or none, one pause | `TypeOK`, `WaitResume`, `ParkedHasReason`, `EveryChangeLogged`, `DeadlineEnds`, `LeaseEnds`, `ParkedWaitEnds` |
| `run_graph` | a, then b on success and c on failure, d joins any; e added by a revision on dead letter | `DependencyGate`, `DependentsResolved` |
| `run_plans` | plan and context revision, two child Runs, fan-in, one pause | `FanInGate`, `GenerationGate` |
| `tool_work` (306 thousand) | one Tool, three attempts, two recovery Tasks, one lost call, one pause, a deadline | `AttemptSentOnce`, `RecoveryStartsOnce`, `RetryTimesValid`, `RunKeepsLifecycle`, `EndedRunKeepsWork`, `ToolRecovers` |
| `agent_work` (402 thousand) | one Agent, one recovery Task, one remote event, one poller slot that takes all three roles, one lost call or poll, one pause, a deadline | `AgentTruth`, `EventLoggedOnce`, `ExecutionFinal`, `StopSticks`, `StopSettles` |
| `delivery` (744 thousand) | two clients with any of four commands sharing a key, two publishers, pages of one Event, two calls per client, two faults | `ReplayedAnswer`, `OutboxTruth`, `StreamInOrder`, `FeedImplemented` |
| `schedules` (58 thousand) | two scanners, four instants of which one is a gap fire, two instants fired by hand, all policies, one crash | `OneRunPerFire`, `ForbidExclusive`, `NoFireLost`, `CursorMoves` |
| `migrations` (42 thousand) | three processes of an old, a new and an edited release, four starts, both providers, failures and lost sessions everywhere | `JournalTruth`, `DdlRunsOnce`, `ReadyIsMigrated`, `RunnersFinish` |
| `claim_*` | the smallest instance that shows it | one documented sentence each, refuted |

Bounds. `MaxTime`, `MaxLag`, `MaxGeneration`, `MaxRevision` and `MaxChildren` bound RunStore;
`MaxToolAttempts`, `MaxAgentVersion` and `MaxCrashes` the executions; `MaxCalls` and
`MaxFaults` Delivery; `MaxStarts` Migrations. A lease, timer or stale age that would
outlive the clock is not started, so that everything can expire within it; at the last
Agent version only answers that settle the execution are taken, so that the bound does
not stop it half way.

Why they are enough: a lease race needs two claims of one Task and a proof that is older
by one claim, one pause or one reclaim; a second pause meets the same statuses as the
first, since resume rebases every open Task. A Wait race needs two open Waits and their
siblings. The graph has each kind of condition, both joins, a cascade of length two and a
dependent added after the fact. A Tool needs three attempts for a retry of a retry, with
a call lost in any of them. An Agent reaches every status, a stop before and after its
acceptance, and a resubmission within three versions. One poller slot suffices for
safety because a candidate held while the store moves on is stale in the same way
whoever moved it; the same instance with two slots and no crash (2.3 million states) was
checked for safety as well. Two faults let a repetition be lost again, or a publisher
fail and the next one come late. The theorems of section 5 do not depend on any bound.

Deadlock checking is off: a finished Run, a served client and a migrated database stop,
and a Run that waits for an event or an operator at the last instant of the clock may.

Fairness. Nothing is assumed of workers, users, events and operators.

* `FairSpec`: time passes, and the transactions of the maintenance and lease-reclaim
  pollers are weakly fair. The server runs each as a `PollingService` loop that goes on
  after an idle, busy or failed batch; a candidate that fails is found by the next scan.
  What a scan does not look at, the Waits of a Run that is neither parked nor paused, has no
  enabled step and gains nothing from fairness.
* `WorkFairness`: time, stale-Tool maintenance and the Agent pollers, for the same reason;
  and a remote Run ends in the end. Calls in flight may hang for ever.
* `DeliverySpec`: a request that arrived is served, the publisher is called again after
  every result, an open stream is served, and the moment of a row comes when nobody is
  at work on it. Clients need not send, and need not repeat.
* `ScheduleSpec`: the scanners, and neither clock nor Runs: the cursor of a due Schedule
  moves although its Runs stay active for ever.
* `MigrationFairness`: a process that was started goes on, and a free lock is granted.

### What the code does and the documents do not say

Three sentences are refuted by runs of their own:

* `OnlySatisfiedDependentsRun` (README.md:41): pause and resume queue a dependent whose
  prerequisite has not finished.
* `WaitTimesOut` (STORE_CONTRACT.md:570): a Task opens a Wait, its sibling ends with nothing
  further to do, and the Run is `running` with no work. The scan for expired Waits passes such
  a Run over; without a deadline its Wait stays open for ever.
* `RecoveryTaskCanStart` (STATE_MACHINE.md:331): a due Agent retry gives a recovery Task the
  revision its own transaction has just moved past; the resubmission is refused with
  `VersionConflict` on every attempt.

Met while modelling, described here and respected by the guards or the statements of the
properties:

* A dead letter written by the lease reclaimer does not resolve dependents: a fallback on
  it never starts (README.md:41, 49). `DependentsResolved` sets these apart.
* A dead letter parks the Run as `waiting` beside a queued sibling, and no claim is accepted
  from `waiting` (STATE_MACHINE.md:108). `ParkedHasReason` admits a dead letter.
* A pause during the last attempt uses it up: the resumed Run is `queued` with nothing to
  claim (STATE_MACHINE.md:106).
* `cancel_run_children` and the fatal failure leave `retry_at` on a Tool they take out of
  `retry_scheduled`; `ck_tool_execs__retry_schedule` then rolls the command back, until the
  retry came due. `RetryTimesValid` shows that no other transaction is exposed to it.
* Stale maintenance clears `suspended_from_status` also on a paused Run, where
  `ck_runs__suspended_from` refuses it: an execution that goes silent around a pause keeps
  its status, and with it the resume gate shut (`ToolRecovers` excludes paused Runs).
* A retry that comes due on a paused Run leaves the Tool `reconciling` with a recovery Task
  behind the pause; `ensure_resume_is_safe` refuses to resume while it is `reconciling`.
* A Tool in `reconciling` with `query_outcome` or `reconnect_and_resume` has no handler.
* An Agent asked to stop before its submission was answered, whose answer is lost, is
  `stopping` without an identity; no poller scans it (STATE_MACHINE.md:171). `StopSettles`
  speaks of the known ones.
* The worker records its Agent as `succeeded` after any outcome of its dispatch: an
  `outcome_unknown` that nothing reconciles any more (MVP.md:126), or a remote Run that goes on
  or fails later. `AgentTruth` names the worker's report as a source of its own, and
  `StopSticks` shows that a stop is spared from it.
* A recovery Task's logical key names execution and revision only: a second due retry of one
  revision in one generation is refused by `uq_tasks__logical_generation`.
* A refused command leaves no receipt, so its repetition may succeed (STATE_MACHINE.md:82 and
  REQUIREMENT.md:97 say that rejections are stored). `ReplayedAnswer` excludes refusals.
* The Event stream reads an empty page and then the Run; a terminal Event that commits
  between the two is not sent on that stream.
* Under the misfire policy `skip` a fire met in its own instant is skipped like a missed one, so
  such a Schedule never creates a Run (MVP.md:100: "`skip` 跳过错过的触发").
* A cursor on the shifted instant of a daylight-saving gap plans no fire, and a catch-up from
  it jumps to the present. `NoFireLost` sets steps from such a cursor apart.
* A MySQL process that dies between creating the journal table and its first row leaves a
  database every later start refuses.

## 5. Proofs

The theorems hold for every value of the constants that satisfies the named assumptions
(disjoint Task sources, one Wait per resume Task, dependencies only on inserted Tasks,
positive attempts and durations; for Migrations, that each release embeds a prefix of the
migrations and that every migration has a statement): for any number of Tasks, Waits,
Tools, Agents, pollers, clients, scanners or processes, and any bound.

**`RunStoreProofs`, `RunSafetyProofs`: leases, attempts, closure.** `TypeCorrect`: every helper
returns a row or table of its type, then one step per action. None of `AttemptLedger`,
`LeaseFence`, `GenerationGate` is inductive alone: that a late completion cannot land needs
the token to be the attempt number, which needs the lease columns cleared whenever a lease
ends, which needs the Run's generation and status. The inductive invariant is

    SafeInv == TypeOK /\ RunProjection /\ GenerationGate /\ LeasedWhileLive
               /\ RowsOK /\ WaitResume /\ TerminalClosed

where `RowsOK` states ledger and lease columns of one Task together (`RowInv`). The
argument is by kind of row change: a step claims one Task (`ClaimRow`), ends one lease
(`FinishRow`), closes all rows (`CancelRow`, `CloseStep`) or moves idle rows only
(`SoftRow`, with dependency resolution as an instance, `ResolvesSoft`). Proved: `TypeOK`,
`AttemptLedger`, `LeaseFence`, `OnlyLastProofPasses`, `RunProjection`, `GenerationGate`,
`TerminalClosed`, `WaitResume`, `FinishedIsFinal`, `TerminalFinal`, `EveryChangeLogged`.

**`RunGateProofs`: what may start, and what a Run waits for.** First the operator:
`SkippedIsLeast` shows that `Skipped` is the least fixed point of the worklist rule, because
once a Task's prerequisites have ended, skipping more Tasks tells it nothing new
(`SettledIsStable`). Then `GateInv`, above `SafeInv`: the four properties, and that a Task
not inserted has no children, a dead letter has an attempt, and a paused Run is past
generation 0. A finished Task never changes again, so a join that was satisfied stays so;
that no dependent is left behind follows from the fixed point. Proved: `ParkedHasReason`,
`DependencyGate`, `DependentsResolved`, `FanInGate`.

**`ExternalProofs`: the store among the processes.** ExternalWork takes RunStore's steps as
they are and adds steps that move `run`, `task`, `tool` and `agent`. Each step is reduced to
what it does to the Run and its Tasks (`RunSide`), to Tools, Agents and Events, and to the
processes. The inductive invariant is

    WorkInv == SafeInv /\ StoreTypes /\ ProcessTypes /\ RemoteExists
               /\ RetryTimesValid /\ EventLoggedOnce

Proved: the invariants of `SafeInv` in the composed system (`StoreSafeAmongWork`), the
refinement `RunKeepsLifecycle` completely (`RunLifecycle` has no fairness), for RunStore and
for ExternalWork; `EndedRunKeepsWork`, `RetryTimesValid`, `EventLoggedOnce`.

**`ExternalTruthProofs`: calls and remote Runs.** `ExecInv` adds to `WorkInv`: there is one
call per attempt, and none of an attempt already sent is ready (`SentInv`); the recovery
Tasks that ended are counted by the attempts, with revisions 1, 2, ... (`RecoveryInv`); a
submission in flight is for a version that has not learnt a remote Run (`CallsInv`); rows
and held answers that are terminal say how the remote Run ended, or the row says what its
worker reported (`TruthInv`); a report that is due is of a submission already recorded, so
that no stop can be waiting at the version it expects (`ReportInv`). `CallsInv` is
what a reader might not expect to need: without it a late `accepted` could replace a known
identity. Every step is reduced to a few shapes (an attempt begins, a request is sent, an
Agent moves, an answer is held), and each part of the invariant is shown for the shapes.
Proved: `AttemptSentOnce`, `RecoveryStartsOnce`, `AgentTruth`, `StopSticks`,
`ExecutionFinal`.

**`DeliveryProofs`.** A receipt is written once, by the only open transaction of its key
(`CommandInv`); a publisher that reports success has delivered its Event (`OutboxInv`); what
the stream sent are the Events up to its position, and a page continues there
(`StreamInv`). Proved: `ReplayedAnswer`, `OutboxTruth`, `StreamInOrder`, and, as `FeedIsSafe`,
the initial condition and every step of the refinement `FeedImplemented`.

**`ScheduleProofs`.** The operators first: `NextAfter` returns the least later instant, ranks
of a finite set of instants are 1, 2, ... without a gap, so `CatchUp` lists the first due
instants and leaves none out. Then `ScheduleInv`: every instant between the cursor a scanner
read and the one it will write has its Run or is still among its fires. Proved:
`OneRunPerFire`, `ForbidExclusive`, `NoFireLost`.

**`MigrationProofs`.** The lock makes the steps between acquiring and releasing exclusive
(`LockHeld`), the journal is a prefix of applied rows with at most one unfinished row behind
it (`Ledger`), and a process inside the lock knows where that prefix ends (`Progress`).
Proved: `JournalTruth`, `DdlRunsOnce`, `ReadyIsMigrated`; and `AppliedIsFinal`: nothing
changes an applied row, which is why a process that was ready stays right.

Where induction over numbers is needed (ranks, least instants) it is an argument about
a least counterexample, from the well-foundedness of `<` on the naturals.

Only model-checked: the liveness properties `DeadlineEnds`, `LeaseEnds`, `ParkedWaitEnds`,
`ToolRecovers`, `StopSettles`, `CursorMoves`, `RunnersFinish`, and that every Event is learnt
in the end (the fairness of `FeedImplemented`). They need fairness and ENABLED, which the
prover does not treat.

## 6. Not modelled

* Stateless translation and I/O: the HTTP API's other handlers, bootstrap, plan parsing,
  the HTTP adapter's wire protocol, connection pools and read-only queries.
* The polling service's concurrency slots, backoff and shutdown; what it promises is the
  fairness of the specifications.
* Payload data: JSON patches, contracts, hashes, artifacts, priorities, correlation ids.
* Libraries: Cron and time zones (a set of instants), the database itself (transactions
  that commit or roll back, row locks, session locks, CHECK and UNIQUE constraints).
* The stages of the mock worker's demo workflow (its transactions are modelled), and the conformance suites (tests).

## 7. Running it

    tlc -workers 2 -config RunLeases.cfg RunStoreMC
    tlc -workers 2 -config ToolWork.cfg ExternalWorkMC
    tlc -workers 2 -config Schedules.cfg Schedules
    tlc -workers 2 -config ClaimResubmit.cfg ExternalClaims
    tlapm RunGateProofs.tla
    tlapm ExternalTruthProofs.tla
