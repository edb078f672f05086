----------------------------- MODULE RunTables -----------------------------
(***************************************************************************)
(* The rows PostgreSQL keeps for ONE Run of Agent Loom: the Run itself,    *)
(* its Tasks and TaskAttempts, StageExecutions, WaitSubscriptions,         *)
(* ToolExecutions and AgentExecutions.  Every command of the store locks   *)
(* the Run row first, so a committed transaction is one atomic step and    *)
(* Runs do not share rows.                                                 *)
(*                                                                         *)
(* Identifiers are members of constant sets.  A row that was not inserted  *)
(* yet has status "absent".  Payloads, hashes, names and contracts are     *)
(* left out; what a plan fixes when a row is inserted (its stage, retry    *)
(* limit, deadline, match key ...) is a constant function.                 *)
(***************************************************************************)
EXTENDS Integers, FiniteSets

CONSTANTS
  Workers,          \* worker identities (one per process start)
  NoWorker,         \* lease_owner IS NULL
  Tasks,            \* every Task id the Run may ever insert
  InitialTasks,     \* inserted by create_run
  PlanTasks,        \* may be inserted by a completion (NextActions)
  RevisionTasks,    \* may be inserted by revise_plan
  Prereq,           \* [Tasks -> SUBSET Tasks]: task_dependencies
  Condition,        \* [Tasks -> [Tasks -> Conditions]]: condition_json
  JoinAny,          \* Tasks whose join_policy is "any"
  Results, NoResult, Expected, \* result_json values; Expected is the value a
                    \* result_equals condition asks for
  MaxAttempts,      \* [Tasks -> Nat \ {0}]: max_attempts
  TaskDeadline,     \* [Tasks -> OptTime]
  Stages, NoStage,
  InitialStages,    \* inserted by create_run
  StageOf,          \* [Tasks -> Stages \cup {NoStage}]
  Waits,
  Approval,         \* Waits whose wait_type is "approval"
  MatchKey,         \* [Waits -> key]: (expected_event_type, match_key_hash)
  WaitStage,        \* [Waits -> Stages \cup {NoStage}]
  WaitExpires,      \* [Waits -> OptTime]
  ResumeTask,       \* [Waits -> Tasks]: the resume plan of the Wait
  Tools, Agents,
  Deadlines,        \* deadlines the Run may be created with
  FinishStatuses,   \* statuses a completion may finish the Run with
  LeaseDuration,    \* lease duration asked for by a claim
  RenewBy,          \* lease extension asked for by a renewal
  Delays            \* delays a caller puts between now and available_at

Never == -1                          \* a NULL timestamp
OptTime == Nat \cup {Never}

ASSUME RowAssumption ==
  /\ NoWorker \notin Workers
  /\ InitialTasks \subseteq Tasks /\ PlanTasks \subseteq Tasks
  /\ RevisionTasks \subseteq Tasks
  /\ Prereq \in [Tasks -> SUBSET Tasks]
  /\ JoinAny \subseteq Tasks
  /\ NoResult \notin Results /\ Expected \in Results
  /\ MaxAttempts \in [Tasks -> Nat \ {0}]
  /\ TaskDeadline \in [Tasks -> OptTime]
  /\ NoStage \notin Stages /\ InitialStages \subseteq Stages
  /\ StageOf \in [Tasks -> Stages \cup {NoStage}]
  /\ Approval \subseteq Waits
  /\ WaitStage \in [Waits -> Stages \cup {NoStage}]
  /\ WaitExpires \in [Waits -> OptTime]
  /\ ResumeTask \in [Waits -> Tasks]
  /\ Deadlines \subseteq OptTime
  /\ LeaseDuration \in Nat \ {0} /\ RenewBy \in Nat \ {0}
  /\ Delays \subseteq Nat

\* Each inserted Task has one source: create_run, a completion, a plan
\* revision, or the resume plan of exactly one Wait (tasks.task_id is a
\* primary key).  create_run and revise_plan insert no Task deadline.
ASSUME TaskSourceAssumption ==
  /\ InitialTasks \cap PlanTasks = {}
  /\ RevisionTasks \cap (InitialTasks \cup PlanTasks) = {}
  /\ \A t \in InitialTasks \cup RevisionTasks : TaskDeadline[t] = Never
  /\ \A w \in Waits : ResumeTask[w] \notin InitialTasks \cup PlanTasks \cup RevisionTasks
  /\ \A w, v \in Waits : ResumeTask[w] = ResumeTask[v] => w = v

----------------------------------------------------------------------------
\* Status vocabularies (domain/src/status.rs and the CHECK constraints).

RunTerminal == {"completed", "failed", "cancelled", "timed_out"}
RunActive == {"queued", "running", "waiting", "approval_required", "retrying"}
RunStatus == RunActive \cup {"paused"} \cup RunTerminal
AcceptsTaskClaim == {"queued", "running", "retrying"}

ASSUME FinishAssumption == FinishStatuses \subseteq RunTerminal

TaskTerminal == {"succeeded", "failed", "dead_lettered", "skipped", "cancelled"}
TaskOpen == {"scheduled", "queued", "leased", "retry_scheduled"}
TaskStatus == TaskOpen \cup TaskTerminal

StageTerminal == {"succeeded", "failed", "skipped", "cancelled"}
StageOpen == {"planned", "active", "waiting_approval", "rework_required"}
StageStatus == StageOpen \cup StageTerminal

WaitStatus == {"open", "consumed", "expired", "cancelled"}

AttemptOutcome == {"open", "succeeded", "failed", "lease_expired", "cancelled"}

ToolTerminal == {"succeeded", "failed", "compensated"}
ToolUnresolved == {"executing", "outcome_unknown", "reconciling", "manual_review"}
ToolStatus == ToolTerminal \cup ToolUnresolved \cup {"planned", "retry_scheduled"}

AgentTerminal == {"succeeded", "failed", "cancelled"}
AgentUnresolved == {"submitting", "running", "stopping", "outcome_unknown",
                    "reconciling", "manual_review"}
AgentStatus == AgentTerminal \cup AgentUnresolved \cup {"planned"}

Conditions == TaskTerminal \cup {"result_equals"}

\* Only create_run and revise_plan insert dependencies; those of create_run are
\* between Tasks it inserts itself (validate_create_run).
ASSUME DependencyAssumption ==
  /\ Condition \in [Tasks -> [Tasks -> Conditions]]
  /\ \A t \in Tasks : Prereq[t] # {} => t \in InitialTasks \cup RevisionTasks
  /\ \A t \in InitialTasks : Prereq[t] \subseteq InitialTasks \ {t}

RecoveryAction == {"none", "retry_same_request", "reconnect_and_resume",
                   "query_outcome", "manual_review"}

----------------------------------------------------------------------------
\* Row types.

BlockedReason == {"none", "external_execution_recovery_required"}

RunRow == [status : RunStatus,
           suspended_from : RunActive \cup {"none"},
           deadline : OptTime,
           version : Nat,              \* runs.version
           generation : Nat,           \* runs.execution_generation
           next_seq : Nat \ {0},       \* runs.next_event_sequence
           terminal_seq : Nat,         \* sequence of terminal_event_id, 0 is NULL
           checkpoint : Nat \ {0},     \* sequence of current_checkpoint
           plan : Nat \ {0},           \* current_plan_revision
           context : Nat \ {0},        \* current_context_revision
           blocked : BlockedReason]    \* resume_blocked_reason

TaskRow == [status : TaskStatus \cup {"absent"},
            generation : Nat,
            available : Nat,           \* available_at
            attempt : Nat,
            owner : Workers \cup {NoWorker},
            token : Nat,               \* lease_token, 0 is NULL
            expires : OptTime,         \* lease_expires_at
            result : Results \cup {NoResult}]

\* generation is not a column: it is the generation in the lease proof that
\* the claim handed to the worker, kept here because the worker may present
\* that proof at any later time.
AttemptRow == [worker : Workers \cup {NoWorker},
               generation : Nat,
               outcome : AttemptOutcome \cup {"absent"}]

ToolRow == [status : ToolStatus \cup {"absent"},
            attempt : Nat,             \* attempt_count
            unfinished : Nat,          \* attempt row without request_finished_at, 0 if none
            recovery : RecoveryAction, \* recovery_action
            retry_at : OptTime]

AgentRow == [status : AgentStatus \cup {"absent"},
             version : Nat,
             remote : {"none", "known"}, \* remote_run_ref
             retry_at : OptTime,
             poll_at : OptTime,        \* status_poll_at
             cursor : Nat]             \* cursor_version

\* Child Runs created with a Task as their parent_task_id.
ChildRow == [running : Nat, ended : Nat]

NewTask(status, generation, available) ==
  [status |-> status, generation |-> generation, available |-> available,
   attempt |-> 0, owner |-> NoWorker, token |-> 0, expires |-> Never,
   result |-> NoResult]

AbsentTask == NewTask("absent", 0, 0)
AbsentAttempt == [worker |-> NoWorker, generation |-> 0, outcome |-> "absent"]
NoChildren == [running |-> 0, ended |-> 0]
AbsentTool == [status |-> "absent", attempt |-> 0, unfinished |-> 0,
               recovery |-> "none", retry_at |-> Never]
AbsentAgent == [status |-> "absent", version |-> 0, remote |-> "none",
                retry_at |-> Never, poll_at |-> Never, cursor |-> 0]

=============================================================================
