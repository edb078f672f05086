--------------------------- MODULE ExternalClaims ---------------------------
(***************************************************************************)
(* What the repository's documents say of external recovery and the code   *)
(* does not do, refuted by a run of its own.                               *)
(***************************************************************************)
EXTENDS ExternalWorkMC

\* STATE_MACHINE.md:331: a due Agent retry is resubmitted by its recovery Task
\* (reconciling to submitting), and PLAN.md:328: the recovery worker reaches the
\* adapter.  The worker expects the revision the scan saw; apply_due_work itself
\* moves the Agent's version past it.
RecoveryTaskCanStart ==
  \A q \in RecoveryTasks, a \in Agents :
    /\ origin[q].exec = a /\ task[q].status = "leased"
    /\ agent[a].status = "reconciling" /\ agent[a].retry_at = Never /\ agent[a].remote = "none"
    => agent[a].version = origin[q].revision
=============================================================================
