----------------------------- MODULE ExternalWork -----------------------------
(***************************************************************************)
(* The processes around the external executions of one Run, composed with  *)
(* the store: workers that prepare and dispatch, the adapter dispatcher    *)
(* with its calls in flight, the due-work scheduler, the recovery worker,  *)
(* the stop, status and event pollers, and the remote systems themselves.  *)
(* A process may crash between any two steps; a call is then lost together *)
(* with what it would have recorded.                                       *)
(***************************************************************************)
EXTENDS ExternalStore

CONSTANTS
  Pollers,     \* poller slots; two of them may hold the same candidate
  MaxCrashes   \* bound: calls that are lost

VARIABLES
  calls,     \* calls in flight: a dispatched attempt or submission
  crashes,   \* calls lost so far
  sent,      \* [Tools -> [1 .. MaxToolAttempts -> Nat]]: requests sent per attempt
  hint,      \* the due-work candidate a scheduler holds, or NoHint
  remote,    \* [Agents -> status of the remote Run]
  polled,    \* [Pollers -> the candidate a poller holds with its answer, or Idle]
  report     \* [Agents -> the worker's own outcome: "none", "due" or "made"]

workVars == <<calls, crashes, sent, hint, remote, polled, report>>
allVars == <<vars, extVars, workVars>>

NoHint == [exec |-> "none", due |-> Never, revision |-> 0, version |-> 0,
           generation |-> 0, checkpoint |-> 0]
Idle == [kind |-> "idle"]

RemoteTerminal == {"completed", "failed", "cancelled"}

WorkInit ==
  /\ ExternalInit
  /\ calls = {} /\ crashes = 0
  /\ sent = [x \in Tools |-> [n \in 1 .. MaxToolAttempts |-> 0]]
  /\ hint = NoHint
  /\ remote = [a \in Agents |-> "none"]
  /\ polled = [p \in Pollers |-> Idle]
  /\ report = [a \in Agents |-> "none"]

Call(e, rev) == [exec |-> e, rev |-> rev, phase |-> "ready"]

----------------------------------------------------------------------------
\* Every step of the Run's own transactions.  Recovery Tasks are claimed by
\* the recovery worker alone (TaskKind::Reconcile), which never completes,
\* fails or renews them.  PostgreSQL refuses a resume that would give two
\* recovery Tasks one logical key.
RunStep ==
  /\ \/ \E w \in Workers, t \in Tasks : ClaimTask(w, t)
     \/ \E t \in Tasks \ RecoveryTasks : \E k \in AttemptNumbers(t) : WorkerStep(t, k)
     \/ \E t \in Tasks : ReclaimExpiredLease(t)
     \/ PauseRun
     \/ ResumeRun
     \/ CancelRun
     \/ TimeOutRun
     \/ Tick
  /\ Touch
  /\ LogicalKeyCheck(task', origin)
  /\ UNCHANGED <<origin, receipts, logged, workVars>>

----------------------------------------------------------------------------
\* Tool calls (dispatch_tool).

\* A worker prepares an execution and dispatches it.
\* Bound: it can still be found stale before the clock stops.
StartTool(t, k, x) ==
  /\ now + StaleAfter <= MaxTime
  /\ PrepareToolExecution(t, k, x)
  /\ calls' = calls \cup {Call(x, 1)}
  /\ UNCHANGED <<crashes, sent, hint, remote, polled, report>>

\* The recovery worker begins the attempt its Task was created for, then
\* dispatches it.  Bound: attempts, and as above.
RecoverTool(q, k, x) ==
  /\ tool[x].attempt < MaxToolAttempts /\ now + StaleAfter <= MaxTime
  /\ BeginToolRetryAttempt(q, k, x, origin[q].revision)
  /\ calls' = calls \cup {Call(x, tool'[x].attempt)}
  /\ UNCHANGED <<crashes, sent, hint, remote, polled, report>>

\* The request goes out.
SendTool(c) ==
  /\ c.exec \in Tools /\ c.phase = "ready"
  /\ calls' = (calls \ {c}) \cup {[c EXCEPT !.phase = "sent"]}
  /\ sent' = [sent EXCEPT ![c.exec][c.rev] = @ + 1]
  /\ UNCHANGED <<vars, extVars, crashes, hint, remote, polled, report>>

\* Errors before the request is sent: no envelope, adapter or context, an unsafe
\* replay (tool_replay_allowed, validate_adapter_context).
UnsentTool == {"never", "backoff", "reconnect", "query", "review"}

\* Outcomes the dispatcher may record: such an error, or any answer.
RecordableTool(phase) == IF phase = "sent" THEN ToolOutcomes ELSE UnsentTool

\* Bound: as above, for the outcome that leaves the attempt executing.
FinishTool(c, o) ==
  /\ c.exec \in Tools /\ o \in RecordableTool(c.phase)
  /\ o = "accepted" => now + StaleAfter <= MaxTime
  /\ RecordToolOutcome(c.exec, c.rev, o)
  /\ calls' = calls \ {c}
  /\ UNCHANGED <<crashes, sent, hint, remote, polled, report>>

\* The process dies, the answer is lost, or the store refuses to record it:
\* the dispatcher only reports the error.
LoseCall(c) ==
  /\ crashes < MaxCrashes
  /\ crashes' = crashes + 1
  /\ calls' = calls \ {c}
  /\ UNCHANGED <<vars, extVars, sent, hint, remote, polled, report>>

----------------------------------------------------------------------------
\* Agent submissions (dispatch_agent).

StartAgent(t, k, a) ==
  /\ PrepareAgentExecution(t, k, a)
  /\ calls' = calls \cup {Call(a, agent[a].version)}
  /\ UNCHANGED <<crashes, sent, hint, remote, polled, report>>

\* A caller that knows the current version resubmits.  Bound: versions.
ResubmitAgent(q, k, a) ==
  /\ agent[a].version < MaxAgentVersion
  /\ BeginAgentResubmission(q, k, a, agent[a].version)
  /\ calls' = calls \cup {Call(a, agent'[a].version)}
  /\ UNCHANGED <<crashes, sent, hint, remote, polled, report>>

\* The submission reaches the Agent server.  The server is idempotent: with
\* the same key it answers with the Run it has (submit, reconcile_submission).
SubmitAgent(c) ==
  /\ c.exec \in Agents /\ c.phase = "ready"
  /\ calls' = (calls \ {c}) \cup {[c EXCEPT !.phase = "sent"]}
  /\ remote' = [remote EXCEPT ![c.exec] = IF @ = "none" THEN "running" ELSE @]
  /\ UNCHANGED <<vars, extVars, crashes, sent, hint, polled, report>>

\* An acceptance, a lost answer, or an error the dispatcher met before it sent or
\* the adapter made of the answer (agent_error_outcome).  Without a remote Run
\* nothing is accepted.
RecordableSubmission(phase) ==
  IF phase = "sent" THEN SubmissionOutcomes ELSE SubmissionOutcomes \ {"accepted"}

\* The call of the worker that prepared the execution; later ones are of the
\* recovery worker.
PreparedVersion == AbsentAgent.version

\* The caller learns that an outcome was recorded, not which.
\* Bound: versions, for the outcomes that ask for another round.
FinishSubmission(c, o) ==
  /\ c.exec \in Agents /\ o \in RecordableSubmission(c.phase)
  /\ o \in {"uncertain", "backoff"} => agent[c.exec].version < MaxAgentVersion
  /\ RecordAgentSubmission(c.exec, c.rev, o)
  /\ calls' = calls \ {c}
  /\ report' = IF c.rev = PreparedVersion THEN [report EXCEPT ![c.exec] = "due"] ELSE report
  /\ UNCHANGED <<crashes, sent, hint, remote, polled>>

\* The worker records success at the version after the one it prepared, whatever
\* was recorded of the submission and whatever the remote Run does (the Run it
\* reads first only marks the Event as fenced).  A worker that is refused, or
\* stops before, leaves its Task to the lease.
WorkerReports(a) ==
  /\ report[a] = "due"
  /\ RecordAgentOutcome(a, PreparedVersion + 1, "succeeded")
  /\ report' = [report EXCEPT ![a] = "made"]
  /\ UNCHANGED <<calls, crashes, sent, hint, remote, polled>>

----------------------------------------------------------------------------
\* The due-work scheduler: tick scans a page, then applies each candidate.  The
\* candidate a scheduler holds may be stale, and another replica may have
\* applied it.

ScanDueWork(e) == \E dbnow \in DbNow :
  /\ RetryDue(e, dbnow)
  /\ hint' = DueHint(e)
  /\ UNCHANGED <<vars, extVars, calls, crashes, sent, remote, polled, report>>

\* Task ids are derived from the candidate; which unused id stands for it does
\* not matter.
UnusedRecoveryTasks == {q \in RecoveryTasks : task[q].status = "absent"}

SchedulerApplies ==
  /\ hint # NoHint
  /\ UnusedRecoveryTasks # {}
  /\ ApplyDueWork(hint, CHOOSE q \in UnusedRecoveryTasks : TRUE)
  /\ UNCHANGED workVars

\* The maintenance poller.  Bound: versions.
MaintainTool(x) == ApplyStaleTool(x) /\ UNCHANGED workVars
MaintainAgent(a) ==
  /\ agent[a].version < MaxAgentVersion
  /\ ApplyStaleAgent(a)
  /\ UNCHANGED workVars

----------------------------------------------------------------------------
\* Agent control pollers.  A poller scans for a candidate and calls the remote
\* (one step), then records what it was told (another step).

\* Mutant: only the executions of live Runs are scanned.
StopCandidateOfLiveRun(a) ==
  /\ agent[a].status = "stopping" /\ agent[a].remote = "known"
  /\ run.status \notin RunTerminal

\* scan_agent_stops, scan_agent_status, scan_agent_events: whatever the Run is.
StopCandidate(a) == agent[a].status = "stopping" /\ agent[a].remote = "known"
StatusCandidate(a, dbnow) ==
  /\ agent[a].status = "reconciling" /\ agent[a].remote = "known"
  /\ agent[a].poll_at # Never /\ agent[a].poll_at <= dbnow
EventCandidate(a, dbnow) ==
  /\ agent[a].status = "running" /\ agent[a].remote = "known"
  /\ agent[a].poll_at # Never /\ agent[a].poll_at <= dbnow

\* project_remote_status
StatusProjection ==
  [running |-> "reconciling", completed |-> "succeeded", failed |-> "failed",
   cancelled |-> "cancelled"]

\* Mutant: a remote that has ended already counts as stopped.
EndedIsCancelled ==
  [running |-> "reconciling", completed |-> "cancelled", failed |-> "failed",
   cancelled |-> "cancelled"]

\* stop_request_projection
StopProjection ==
  [running |-> "reconciling", completed |-> "reconciling", failed |-> "failed",
   cancelled |-> "cancelled"]

\* What a stop or status call may tell: what the remote says, or an error, which
\* asks again or asks a person (stop_error_projection).  Bound: versions, for
\* answers that leave the execution as unresolved as it was.
Answers(a, projection) ==
  LET told == projection[remote[a]] IN
  IF agent[a].version < MaxAgentVersion THEN {told, "reconciling", "manual_review"}
  ELSE IF remote[a] = "running" THEN {} ELSE {told}

\* dispatch_agent_stop, dispatch_agent_status
StopAnswers(a) == Answers(a, StopProjection)
StatusAnswers(a) == Answers(a, StatusProjection)

\* normalize_remote_events: a batch is a finite set of event identities, new ones
\* and ones the remote has delivered before.
RemoteBatches == {batch \in SUBSET RemoteEvents : IsFiniteSet(batch)}

\* dispatch_agent_events: a batch, which says whether the remote has ended; on
\* an error an empty batch that says nothing (record_event_error), or a request
\* to the status poller or a person to look.  Bound: versions, as above.
EventAnswers(a) ==
  LET told == IF remote[a] = "running" THEN "running" ELSE "reconciling"
      batches == [kind : {"events"}, status : {told}, batch : RemoteBatches]
      errors == [kind : {"events"}, status : {"running"}, batch : {{}}]
                  \cup [kind : {"outcome"}, status : {"reconciling", "manual_review"},
                        batch : {{}}]
  IN  IF agent[a].version < MaxAgentVersion THEN batches \cup errors
      ELSE IF remote[a] = "running" THEN {} ELSE batches

\* A poller keeps the candidate it scanned, with its fences, and the answer.
Hold(p, a, kind, status, batch) ==
  polled' = [polled EXCEPT ![p] = [kind |-> kind, exec |-> a, version |-> agent[a].version,
                                   cursor |-> agent[a].cursor, status |-> status,
                                   batch |-> batch]]

\* The stop request may or may not have reached the remote; a remote that got
\* it stops when it likes (RemoteEnds).
PollStop(p, a) ==
  /\ polled[p] = Idle
  /\ StopCandidate(a)
  /\ \E status \in StopAnswers(a) : Hold(p, a, "outcome", status, {})
  /\ UNCHANGED <<vars, extVars, calls, crashes, sent, hint, remote, report>>

PollStatus(p, a) == \E dbnow \in DbNow :
  /\ polled[p] = Idle
  /\ StatusCandidate(a, dbnow)
  /\ \E status \in StatusAnswers(a) : Hold(p, a, "outcome", status, {})
  /\ UNCHANGED <<vars, extVars, calls, crashes, sent, hint, remote, report>>

PollEvents(p, a) == \E dbnow \in DbNow :
  /\ polled[p] = Idle
  /\ EventCandidate(a, dbnow)
  /\ \E answer \in EventAnswers(a) : Hold(p, a, answer.kind, answer.status, answer.batch)
  /\ UNCHANGED <<vars, extVars, calls, crashes, sent, hint, remote, report>>

\* record_stop_projection, record_status_projection, record_event_projection
RecordOutcome(c) == c.kind = "outcome" /\ RecordAgentOutcome(c.exec, c.version, c.status)

\* append_remote_event_batch
RecordEvents(c) ==
  /\ c.kind = "events"
  /\ AppendAgentEvents(c.exec, c.cursor, c.batch, c.status = "reconciling")

RecordPolled(p) ==
  /\ polled[p] # Idle
  /\ RecordOutcome(polled[p]) \/ RecordEvents(polled[p])
  /\ polled' = [polled EXCEPT ![p] = Idle]
  /\ UNCHANGED <<calls, crashes, sent, hint, remote, report>>

\* The store refuses a candidate that changed meanwhile, or the poller crashes;
\* the next poll scans again.
Refused(c) == IF c.kind = "outcome" THEN agent[c.exec].version # c.version
              ELSE agent[c.exec].cursor # c.cursor \/ agent[c.exec].status # "running"

DropPolled(p) ==
  /\ polled[p] # Idle
  /\ \/ Refused(polled[p]) /\ UNCHANGED crashes
     \/ crashes < MaxCrashes /\ crashes' = crashes + 1
  /\ polled' = [polled EXCEPT ![p] = Idle]
  /\ UNCHANGED <<vars, extVars, calls, sent, hint, remote, report>>

\* The remote Run ends by itself or because it was asked to stop.
RemoteEnds(a) ==
  /\ remote[a] = "running"
  /\ \E end \in RemoteTerminal : remote' = [remote EXCEPT ![a] = end]
  /\ UNCHANGED <<vars, extVars, calls, crashes, sent, hint, polled, report>>

----------------------------------------------------------------------------
WorkNext ==
  \/ RunStep
  \/ \E t \in Tasks \ RecoveryTasks : \E k \in AttemptNumbers(t) :
       \/ \E x \in Tools : StartTool(t, k, x)
       \/ \E a \in Agents : StartAgent(t, k, a)
  \/ \E q \in RecoveryTasks : \E k \in AttemptNumbers(q) :
       \/ \E x \in Tools : RecoverTool(q, k, x)
       \/ \E a \in Agents : ResubmitAgent(q, k, a)
  \/ \E c \in calls :
       \/ SendTool(c)
       \/ \E o \in ToolOutcomes : FinishTool(c, o)
       \/ SubmitAgent(c)
       \/ \E o \in SubmissionOutcomes : FinishSubmission(c, o)
       \/ LoseCall(c)
  \/ \E e \in Executions : ScanDueWork(e)
  \/ SchedulerApplies
  \/ \E x \in Tools : MaintainTool(x)
  \/ \E a \in Agents : MaintainAgent(a) \/ RemoteEnds(a) \/ WorkerReports(a)
  \/ \E p \in Pollers :
       \/ \E a \in Agents : PollStop(p, a) \/ PollStatus(p, a) \/ PollEvents(p, a)
       \/ RecordPolled(p)
       \/ DropPolled(p)

WorkSpec == WorkInit /\ [][WorkNext]_allVars

\* Fairness of the background loops of the server, of the clock and of the
\* remote systems, which answer in the end.  Workers, users and calls in flight
\* may stop at any point.
WorkFairness ==
  /\ WF_allVars(RunStep /\ Tick)
  /\ \A x \in Tools : WF_allVars(MaintainTool(x))
  /\ \A a \in Agents : WF_allVars(RemoteEnds(a))
  /\ \A p \in Pollers :
       /\ WF_allVars(RecordPolled(p))
       /\ WF_allVars(DropPolled(p))
       /\ \A a \in Agents : /\ WF_allVars(PollStop(p, a))
                            /\ WF_allVars(PollStatus(p, a))
                            /\ WF_allVars(PollEvents(p, a))

FairWorkSpec == WorkSpec /\ WorkFairness

----------------------------------------------------------------------------
(***************************************************************************)
(* Properties.                                                             *)
(***************************************************************************)

Life == INSTANCE RunLifecycle WITH
  Open <- RunActive, Ended <- RunTerminal, status <- run.status, version <- run.version,
  generation <- run.generation, ending <- run.terminal_seq

\* Refinement: with all its workers, pollers, remote answers and crashes the Run
\* keeps the promises of RunLifecycle - one version per change, no way back from
\* an end, a new generation exactly when leases are taken away.
RunKeepsLifecycle == Life!LifeSpec

\* A request goes out only for an attempt whose row is committed, and at most
\* once per attempt: a crash before or after the call, a stale-execution retry,
\* a second scheduler or a reclaimed recovery Task never sends an attempt again
\* (each retry is an attempt of its own, with its own row).
AttemptSentOnce ==
  \A x \in Tools : \A n \in 1 .. MaxToolAttempts :
    /\ sent[x][n] <= 1
    /\ sent[x][n] = 1 => n <= tool[x].attempt

\* A retry that came due starts one attempt: the recovery Tasks that began an
\* attempt of a Tool are as many as its further attempts, one for each revision,
\* however often the retry was scanned, applied or rescheduled.
RecoveryStartsOnce ==
  \A x \in Tools :
    LET done == {q \in RecoveryTasks : origin[q].exec = x /\ task[q].status = "succeeded"}
    IN  /\ tool[x].status # "absent" => Cardinality(done) = tool[x].attempt - 1
        /\ {origin[q].revision : q \in done} = 1 .. Cardinality(done)

\* No transaction but the control commands can be refused by the retry
\* constraints: a Tool has a retry time exactly while retry_scheduled, an Agent
\* only while reconciling (ck_agent_execs__retry_schedule).
RetryTimesValid ==
  /\ RetryScheduleCheck(tool)
  /\ \A a \in Agents : agent[a].retry_at # Never => agent[a].status = "reconciling"

\* What is known about an execution is never unlearned: a terminal Tool or Agent
\* row is final, whatever late outcome, stale scan, stop or retry follows, and a
\* remote Run's identity is never forgotten.
ExecutionFinal ==
  [][/\ \A x \in Tools : tool[x].status \in ToolTerminal => tool'[x] = tool[x]
     /\ \A a \in Agents : agent[a].status \in AgentTerminal => agent'[a] = agent[a]
     /\ \A a \in Agents : agent[a].remote = "known" => agent'[a].remote = "known"]_allVars

\* Evidence that arrives after the Run ended is recorded but moves nothing: the
\* Run keeps its status and terminal Event, its Tasks, attempts and Waits.
EndedRunKeepsWork ==
  [][run.status \in RunTerminal =>
       /\ run'.status = run.status /\ run'.terminal_seq = run.terminal_seq
       /\ run'.generation = run.generation
       /\ UNCHANGED <<task, attempt, stage, wait>>]_allVars

\* Outcomes come from the remote Run or from the worker: an Agent execution is
\* terminal only as its remote Run ended, as succeeded by the worker's own report,
\* or, with no remote Run known, as something else than succeeded - although
\* answers are recorded late, after stops, pauses and maintenance, and a stop may
\* come too late.
AgentTruth ==
  \A a \in Agents : agent[a].status \in AgentTerminal =>
    \/ remote[a] \in RemoteTerminal /\ agent[a].status = StatusProjection[remote[a]]
    \/ report[a] = "made" /\ agent[a].status = "succeeded"
    \/ agent[a].remote = "none" /\ agent[a].status # "succeeded"

\* A stop that was requested sticks: an acceptance that comes in after it leaves
\* the execution stopping, with the identity the stop poller needs, and the worker
\* that learns late of its submission's outcome does not settle it as succeeded,
\* because the row has left the version it expects.
StopSticks ==
  [][\A a \in Agents : agent[a].status = "stopping" =>
       /\ agent'[a].status # "running"
       /\ report[a] = "due" => report'[a] = "due"]_allVars

\* A remote event becomes at most one local Event, however often and in however
\* many batches it is delivered, and exactly one when it has a receipt.
EventLoggedOnce ==
  \A a \in Agents : \A e \in RemoteEvents :
    logged[a][e] = IF e \in receipts[a] \cap Authoritative THEN 1 ELSE 0

\* A Tool whose caller died does not stay executing in a running Run.
ToolRecovers ==
  \A x \in Tools : tool[x].status = "executing"
                     ~> (tool[x].status # "executing" \/ run.status \in RunTerminal \cup {"paused"})

\* A remote Run that was asked to stop and whose identity is known gets settled:
\* it is terminal here as there, or a person has to look.
StopSettles ==
  \A a \in Agents : (agent[a].status = "stopping" /\ agent[a].remote = "known")
                      ~> agent[a].status \in AgentTerminal \cup {"manual_review"}
=============================================================================
