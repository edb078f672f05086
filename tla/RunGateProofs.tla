---------------------------- MODULE RunGateProofs ----------------------------
(***************************************************************************)
(* The gates in front of a Task - its prerequisites, its child Runs - and  *)
(* what a parked Run is parked on, for every dependency graph and every    *)
(* number of Tasks, Waits, children and revisions.  First what             *)
(* resolve_dependent_tasks computes, then the inductive invariant GateInv, *)
(* which builds on SafeInv: finished Tasks never change again.             *)
(***************************************************************************)
EXTENDS RunSafetyProofs

----------------------------------------------------------------------------
\* The operators of TaskGraph.

\* Once every prerequisite of d has ended, skipping more Tasks tells d nothing
\* new: only scheduled Tasks are skipped, and no prerequisite is scheduled.
LEMMA SettledIsStable ==
  ASSUME NEW tk \in [Tasks -> TaskRow], NEW X, NEW Y \in SUBSET Scheduled(tk), X \subseteq Y,
         NEW d \in Tasks, Settled(tk, X, d)
  PROVE  /\ \A p \in Prereq[d] : StatusUnder(tk, Y, p) = StatusUnder(tk, X, p)
         /\ Settled(tk, Y, d)
         /\ Ready(tk, Y, d) <=> Ready(tk, X, d)
  <1>1. ASSUME NEW p \in Prereq[d]
        PROVE  StatusUnder(tk, Y, p) = StatusUnder(tk, X, p)
    <2>1. CASE p \in X
      BY <2>1 DEF StatusUnder
    <2>2. CASE p \notin X
      <3>1. tk[p].status \in TaskTerminal
        BY <2>2 DEF Settled, StatusUnder
      <3>2. p \notin Y
        BY <3>1 DEF Scheduled, TaskTerminal
      <3> QED BY <2>2, <3>2 DEF StatusUnder
    <2> QED BY <2>1, <2>2
  <1>2. Settled(tk, Y, d)
    BY <1>1 DEF Settled
  <1>3. \A p \in Prereq[d] : ConditionSatisfied(tk, Y, d, p) <=> ConditionSatisfied(tk, X, d, p)
    BY <1>1 DEF ConditionSatisfied
  <1> QED BY <1>1, <1>2, <1>3 DEF Ready

\* The worklist is monotone: what is skipped after fewer Tasks were skipped is
\* skipped after more of them were, so the order of evaluation does not matter.
LEMMA SkipsMonotone ==
  ASSUME NEW tk \in [Tasks -> TaskRow], NEW starts, NEW X, NEW Y \in SUBSET Scheduled(tk),
         X \subseteq Y
  PROVE  Skips(tk, starts, X) \subseteq Skips(tk, starts, Y)
  <1> SUFFICES ASSUME NEW d \in Skips(tk, starts, X) PROVE d \in Skips(tk, starts, Y)
    OBVIOUS
  <1>1. d \in Scheduled(tk) /\ d \in Tasks /\ Settled(tk, X, d) /\ ~Ready(tk, X, d)
    BY DEF Skips, Scheduled
  <1>2. Reached(Y, d, starts)
    BY DEF Skips, Reached
  <1>3. Settled(tk, Y, d) /\ ~Ready(tk, Y, d)
    BY <1>1, SettledIsStable
  <1> QED BY <1>1, <1>2, <1>3 DEF Skips

\* The skipped Tasks are the least fixed point of the worklist rule: skipping
\* cascades until it skips nothing more, and skips nothing without a cause.
THEOREM SkippedIsLeast ==
  ASSUME NEW tk \in [Tasks -> TaskRow], NEW starts
  PROVE  /\ Skips(tk, starts, Skipped(tk, starts)) = Skipped(tk, starts)
         /\ \A X \in SUBSET Scheduled(tk) :
              Skips(tk, starts, X) \subseteq X => Skipped(tk, starts) \subseteq X
  <1> DEFINE S == Skipped(tk, starts)
             F(X) == Skips(tk, starts, X)
  <1>1. S \subseteq Scheduled(tk)
    BY DEF Skipped
  <1>2. \A X \in SUBSET Scheduled(tk) : F(X) \subseteq X => S \subseteq X
    BY DEF Skipped
  <1>3. \A X : F(X) \subseteq Scheduled(tk)
    BY DEF Skips
  <1>4. F(S) \subseteq S
    <2> SUFFICES ASSUME NEW d \in F(S) PROVE d \in S
      OBVIOUS
    <2>1. d \in Scheduled(tk)
      BY <1>3
    <2>2. ASSUME NEW X \in SUBSET Scheduled(tk), F(X) \subseteq X
          PROVE  d \in X
      <3>1. S \subseteq X
        BY <1>2, <2>2
      <3> HIDE DEF S
      <3>2. F(S) \subseteq F(X)
        BY <3>1, SkipsMonotone
      <3> QED BY <2>2, <3>2
    <2> QED BY <2>1, <2>2 DEF Skipped
  <1> HIDE DEF S
  <1>5. F(F(S)) \subseteq F(S)
    BY <1>1, <1>4, SkipsMonotone
  <1>6. S \subseteq F(S)
    BY <1>2, <1>3, <1>5
  <1> QED BY <1>2, <1>4, <1>6 DEF S

\* What a resolution does to one row, in terms of the two sets.
LEMMA ResolvedRow ==
  ASSUME NEW tk \in [Tasks -> TaskRow], NEW starts, NEW dbnow \in Nat, NEW p \in Tasks
  PROVE  /\ p \in Skipped(tk, starts) =>
              /\ tk[p].status = "scheduled"
              /\ ResolveDependents(tk, starts, dbnow)[p].status = "skipped"
         /\ p \in Activated(tk, starts) =>
              /\ tk[p].status = "scheduled" /\ p \notin Skipped(tk, starts)
              /\ ResolveDependents(tk, starts, dbnow)[p].status = "queued"
         /\ p \notin Skipped(tk, starts) \cup Activated(tk, starts) =>
              ResolveDependents(tk, starts, dbnow)[p] = tk[p]
         /\ ResolveDependents(tk, starts, dbnow)[p].result = tk[p].result
  <1>1. tk[p] \in TaskRow
    OBVIOUS
  <1>2. \A x \in Skipped(tk, starts) : tk[x].status = "scheduled"
    BY DEF Skipped, Scheduled
  <1>3. \A x \in Activated(tk, starts) : tk[x].status = "scheduled" /\ x \notin Skipped(tk, starts)
    BY DEF Activated, Scheduled
  <1>4. ResolveDependents(tk, starts, dbnow)[p] =
          IF p \in Skipped(tk, starts) THEN [tk[p] EXCEPT !.status = "skipped"]
          ELSE IF p \in Activated(tk, starts)
            THEN [tk[p] EXCEPT !.status = "queued", !.available = dbnow]
          ELSE tk[p]
    BY DEF ResolveDependents
  <1> QED BY <1>1, <1>2, <1>3, <1>4 DEF TaskRow

\* After a resolution the skipped Tasks are part of the table: what a Task's
\* prerequisites show in it is what they showed under the set of skipped Tasks,
\* as far as they have ended.
LEMMA ResolvedStatus ==
  ASSUME NEW tk \in [Tasks -> TaskRow], NEW starts, NEW dbnow \in Nat, NEW p \in Tasks,
         NEW s \in TaskTerminal
  PROVE  ResolveDependents(tk, starts, dbnow)[p].status = s
           <=> StatusUnder(tk, Skipped(tk, starts), p) = s
  BY ResolvedRow DEF StatusUnder, TaskTerminal

\* A dependent is activated only when its join is satisfied; one that is left
\* behind scheduled, all its prerequisites having ended, depends on none of the
\* Tasks the resolution started from and none that it skipped.
LEMMA ResolveOutcome ==
  ASSUME NEW tk \in [Tasks -> TaskRow], NEW starts, NEW dbnow \in Nat, NEW u \in Tasks,
         NEW res, res = ResolveDependents(tk, starts, dbnow)
  PROVE  /\ tk[u].status = "scheduled" /\ res[u].status \notin {"scheduled", "skipped"}
              => Prereq[u] # {} /\ Ready(res, {}, u)
         /\ res[u].status = "scheduled" /\ Settled(res, {}, u)
              => \A p \in Prereq[u] : p \notin starts /\ tk[p].status \in TaskTerminal
  <1> DEFINE X == Skipped(tk, starts)
  <1>1. Prereq[u] \subseteq Tasks
    BY RowAssumption
  <1>2. \A p \in Prereq[u], s \in TaskTerminal :
          StatusUnder(res, {}, p) = s <=> StatusUnder(tk, X, p) = s
    BY <1>1, ResolvedStatus DEF StatusUnder
  <1>3. \A p \in Prereq[u] : res[p].result = tk[p].result
    BY <1>1, ResolvedRow
  <1>4. \A p \in Prereq[u] : Condition[u][p] \in Conditions
    BY <1>1, DependencyAssumption
  <1>5. \A p \in Prereq[u] : ConditionSatisfied(res, {}, u, p) <=> ConditionSatisfied(tk, X, u, p)
    <2> HIDE DEF X
    <2> SUFFICES ASSUME NEW p \in Prereq[u]
                 PROVE  ConditionSatisfied(res, {}, u, p) <=> ConditionSatisfied(tk, X, u, p)
      OBVIOUS
    <2>1. CASE Condition[u][p] = "result_equals"
      BY <1>2, <1>3, <2>1 DEF ConditionSatisfied, TaskTerminal
    <2>2. CASE Condition[u][p] # "result_equals"
      <3>1. Condition[u][p] \in TaskTerminal
        BY <1>4, <2>2 DEF Conditions
      <3> QED BY <1>2, <2>2, <3>1 DEF ConditionSatisfied
    <2> QED BY <2>1, <2>2
  <1>6. Ready(res, {}, u) <=> Ready(tk, X, u)
    BY <1>5 DEF Ready
  <1>7. Settled(res, {}, u) <=> Settled(tk, X, u)
    BY <1>2 DEF Settled
  <1>8. ASSUME tk[u].status = "scheduled", res[u].status \notin {"scheduled", "skipped"}
        PROVE  Prereq[u] # {} /\ Ready(res, {}, u)
    <2>1. u \in Activated(tk, starts)
      BY <1>8, ResolvedRow
    <2>2. Reached(X, u, starts) /\ Ready(tk, X, u)
      BY <2>1 DEF Activated
    <2> QED BY <1>6, <2>2 DEF Reached
  <1>9. ASSUME res[u].status = "scheduled", Settled(res, {}, u)
        PROVE  \A p \in Prereq[u] : p \notin starts /\ tk[p].status \in TaskTerminal
    <2>1. u \notin X /\ u \notin Activated(tk, starts) /\ res[u] = tk[u]
      BY <1>9, ResolvedRow
    <2>2. u \in Scheduled(tk)
      BY <1>9, <2>1 DEF Scheduled
    <2>3. Skips(tk, starts, X) = X
      BY SkippedIsLeast
    <2> HIDE DEF X
    <2>4. ~Reached(X, u, starts)
      <3>1. ASSUME Reached(X, u, starts) PROVE FALSE
        <4>1. Settled(tk, X, u)
          BY <1>7, <1>9
        <4>2. Ready(tk, X, u)
          BY <2>1, <2>2, <2>3, <3>1, <4>1 DEF Skips
        <4> QED BY <2>1, <2>2, <3>1, <4>2 DEF Activated, X
      <3> QED BY <3>1
    <2>5. \A p \in Prereq[u] : p \notin starts /\ p \notin X
      BY <2>4 DEF Reached
    <2> QED BY <1>7, <1>9, <2>5 DEF Settled, StatusUnder
  <1> QED BY <1>8, <1>9

----------------------------------------------------------------------------
(***************************************************************************)
(* The invariant.  Besides the four gates: an uninserted Task has no child *)
(* Runs (create_run with a parent checks the parent Task), a dead-lettered *)
(* Task was claimed at least once, so it has a last attempt, and a paused  *)
(* Run has left generation 0.                                              *)
(***************************************************************************)
GateInv ==
  /\ ParkedHasReason
  /\ DependencyGate
  /\ DependentsResolved
  /\ FanInGate
  /\ \A t \in Tasks : task[t].status = "absent" => child[t] = NoChildren
  /\ \A t \in Tasks : task[t].status = "dead_lettered" => task[t].attempt >= 1
  /\ run.status = "paused" => run.generation # 0

\* DependentsResolved's excuse: the lease reclaimer dead-lettered a prerequisite.
Excused(tk, at, u) ==
  \E p \in Prereq[u] : /\ tk[p].status = "dead_lettered"
                       /\ at[p][tk[p].attempt].outcome = "lease_expired"

\* A join that is satisfied stays so: it looks at finished Tasks only.
LEMMA ReadyIsStable ==
  ASSUME FinalStep, NEW u \in Tasks, Ready(task, {}, u)
  PROVE  Ready(task', {}, u)
  <1>1. Prereq[u] \subseteq Tasks
    BY RowAssumption
  <1>2. ASSUME NEW p \in Prereq[u], ConditionSatisfied(task, {}, u, p)
        PROVE  ConditionSatisfied(task', {}, u, p)
    <2>1. Condition[u][p] \in Conditions
      BY <1>1, DependencyAssumption
    <2>2. task[p].status \in TaskTerminal
      BY <1>2, <2>1 DEF ConditionSatisfied, StatusUnder, Conditions, TaskTerminal
    <2>3. task'[p] = task[p]
      BY <1>1, <2>2 DEF FinalStep
    <2> QED BY <1>2, <2>3 DEF ConditionSatisfied, StatusUnder
  <1> QED BY <1>2 DEF Ready

\* So does the excuse.
LEMMA ExcuseIsStable ==
  ASSUME SafeInv, GateInv, FinalStep, NEW u \in Tasks, Excused(task, attempt, u)
  PROVE  Excused(task', attempt', u)
  <1>1. PICK p \in Prereq[u] : /\ task[p].status = "dead_lettered"
                               /\ attempt[p][task[p].attempt].outcome = "lease_expired"
    BY DEF Excused
  <1>2. p \in Tasks
    BY RowAssumption
  <1>3. task[p].attempt \in AttemptNumbers(p)
    <2>1. task[p].attempt >= 1 /\ task[p].attempt <= MaxAttempts[p] /\ task[p].attempt \in Nat
          /\ MaxAttempts[p] \in Nat
      BY <1>1, <1>2, SafeTables, RowAssumption DEF GateInv, RowInv, TaskRow
    <2> QED BY <2>1 DEF AttemptNumbers
  <1>4. task'[p] = task[p] /\ attempt'[p][task[p].attempt] = attempt[p][task[p].attempt]
    BY <1>1, <1>2, <1>3 DEF FinalStep, TaskTerminal
  <1> QED BY <1>1, <1>4 DEF Excused

\* What a step has to show of one Task: an inserted Task is never forgotten; its
\* child Runs change only while it is held back, or one of them ends; it becomes
\* runnable only through its join; and it stays scheduled only if no prerequisite
\* ended unnoticed.
NodeOK(u) ==
  /\ task'[u].status = "absent" => task[u].status = "absent" /\ child'[u] = child[u]
  /\ \/ child'[u] = child[u]
     \/ child'[u] # NoChildren /\ (task'[u].status = "scheduled" \/ child'[u].ended > 0)
  /\ Released(u)' => \/ Released(u)
                     \/ run'.generation # 0
                     \/ child'[u].ended > 0
                     \/ Prereq[u] # {} /\ Ready(task', {}, u)
                     \/ Prereq[u] = {} /\ child'[u].running = 0
  /\ task'[u].status = "dead_lettered" => task[u].status = "dead_lettered" \/ task'[u].attempt >= 1
  /\ task'[u].status = "scheduled" =>
       \/ Prereq[u] = {} \/ child'[u] # NoChildren \/ run'.status \in RunTerminal
       \/ ~Settled(task', {}, u)
       \/ Excused(task', attempt', u)
       \/ /\ task[u].status = "scheduled"
          /\ \A p \in Prereq[u] : task'[p].status \in TaskTerminal => task[p].status \in TaskTerminal

\* The Run row of such a step: it does not come back from a terminal status or
\* to generation 0.
RunOnwards ==
  /\ run'.status \notin RunTerminal => run.status \notin RunTerminal
  /\ run'.generation = 0 => run.generation = 0
  /\ run'.status = "paused" => run'.generation # 0

\* A step that shows this of the Run and of every Task keeps the gates.
LEMMA GateStep ==
  ASSUME SafeInv, SafeInv', FinalStep, GateInv, ParkedHasReason', RunOnwards,
         \A u \in Tasks : NodeOK(u)
  PROVE  GateInv'
  <1>1. /\ \A u \in Tasks : child[u] \in ChildRow /\ child'[u] \in ChildRow
        /\ \A u \in Tasks : task[u] \in TaskRow /\ task'[u] \in TaskRow
    BY DEF SafeInv, TypeOK
  <1>2. NoChildren.ended = 0 /\ NoChildren.running = 0
    BY DEF NoChildren
  <1>3. DependencyGate'
    <2> SUFFICES ASSUME NEW u \in Tasks, run'.generation = 0, Prereq[u] # {},
                        child'[u] = NoChildren, Released(u)'
                 PROVE  Ready(task', {}, u)
      BY DEF DependencyGate
    <2>1. child[u] = NoChildren /\ run.generation = 0
      BY DEF NodeOK, RunOnwards
    <2>2. CASE Released(u)
      BY <2>1, <2>2, ReadyIsStable DEF GateInv, DependencyGate
    <2>3. CASE ~Released(u)
      BY <1>2, <2>3 DEF NodeOK
    <2> QED BY <2>2, <2>3
  <1>4. DependentsResolved'
    <2> SUFFICES ASSUME NEW u \in Tasks, run'.status \notin RunTerminal, Prereq[u] # {},
                        child'[u] = NoChildren, task'[u].status = "scheduled"
                 PROVE  ~Settled(task', {}, u) \/ Excused(task', attempt', u)
      BY DEF DependentsResolved, Excused
    <2>1. child[u] = NoChildren /\ run.status \notin RunTerminal
      BY DEF NodeOK, RunOnwards
    <2>2. ASSUME task[u].status = "scheduled",
                 \A p \in Prereq[u] : task'[p].status \in TaskTerminal => task[p].status \in TaskTerminal
          PROVE  ~Settled(task', {}, u) \/ Excused(task', attempt', u)
      <3>1. ~Settled(task, {}, u) \/ Excused(task, attempt, u)
        BY <2>1, <2>2 DEF GateInv, DependentsResolved, Excused
      <3>2. Settled(task', {}, u) => Settled(task, {}, u)
        BY <2>2 DEF Settled, StatusUnder
      <3> QED BY <3>1, <3>2, ExcuseIsStable
    <2> QED BY <2>2 DEF NodeOK
  <1>5. FanInGate'
    <2> SUFFICES ASSUME NEW u \in Tasks, run'.generation = 0, Prereq[u] = {},
                        child'[u].running > 0, child'[u].ended = 0, Released(u)'
                 PROVE  FALSE
      BY DEF FanInGate
    <2>1. child'[u] = child[u] /\ run.generation = 0
      BY DEF NodeOK, RunOnwards, Released
    <2>2. CASE Released(u)
      BY <2>1, <2>2 DEF GateInv, FanInGate
    <2>3. CASE ~Released(u)
      BY <2>3 DEF NodeOK
    <2> QED BY <2>2, <2>3
  <1>6. \A t \in Tasks : task'[t].status = "absent" => child'[t] = NoChildren
    BY DEF NodeOK, GateInv
  <1>7. \A t \in Tasks : task'[t].status = "dead_lettered" => task'[t].attempt >= 1
    <2> SUFFICES ASSUME NEW t \in Tasks, task'[t].status = "dead_lettered"
                 PROVE  task'[t].attempt >= 1
      OBVIOUS
    <2>1. CASE task[t].status = "dead_lettered"
      BY <2>1 DEF GateInv, FinalStep, TaskTerminal
    <2> QED BY <2>1 DEF NodeOK
  <1> QED BY <1>3, <1>4, <1>5, <1>6, <1>7 DEF GateInv, RunOnwards

----------------------------------------------------------------------------
\* Steps that resolve no dependents.

\* The row is not inserted, released, held back or finished by the step.
Quiet(old, new) ==
  \/ new = old
  \/ /\ old.status \in {"queued", "leased", "retry_scheduled"}
     /\ new.status \in {"queued", "leased", "retry_scheduled"}

\* Such a row is fine when no prerequisite of it is finished by the step.
LEMMA QuietNode ==
  ASSUME NEW u \in Tasks, Quiet(task[u], task'[u]), child'[u] = child[u],
         \A p \in Tasks : task'[p].status \in TaskTerminal => task[p].status \in TaskTerminal
  PROVE  NodeOK(u)
  <1>1. Prereq[u] \subseteq Tasks
    BY RowAssumption
  <1> QED BY <1>1 DEF NodeOK, Quiet, Released

\* A step that is quiet for every Task.
LEMMA QuietNodes ==
  ASSUME \A u \in Tasks : Quiet(task[u], task'[u]), child' = child
  PROVE  \A u \in Tasks : NodeOK(u)
  <1>1. \A p \in Tasks : task'[p].status \in TaskTerminal => task[p].status \in TaskTerminal
    BY DEF Quiet, TaskTerminal
  <1> QED BY <1>1, QuietNode

\* A Run that is moved on from an active status, or keeps its status.
LEMMA OnwardsMoved ==
  ASSUME GateInv, NEW s, Moved(s) \/ Kept
  PROVE  RunOnwards
  BY DEF Moved, Kept, RunOnwards, RunActive, RunTerminal, GateInv

\* A Run that is closed.
LEMMA OnwardsClosed ==
  ASSUME SafeInv, GateInv, Closed, run'.generation \in {run.generation, run.generation + 1}
  PROVE  RunOnwards
  <1>1. run.generation \in Nat
    BY SafeTables
  <1>2. run'.generation = 0 => run.generation = 0
    BY <1>1
  <1> QED BY <1>2 DEF Closed, RunOnwards, RunTerminal

\* What a parked Run waits for survives a step that closes no Wait, because a
\* dead letter is final; and a Run that is not parked needs no reason.
LEMMA ParkedKept ==
  ASSUME GateInv, FinalStep, \A w \in Waits : wait[w] = "open" => wait'[w] = "open",
         run'.status \in {"waiting", "approval_required"} => run'.status = run.status
  PROVE  ParkedHasReason'
  <1>1. \A t \in Tasks : task[t].status = "dead_lettered" => task'[t].status = "dead_lettered"
    BY DEF FinalStep, TaskTerminal
  <1>2. Approval \subseteq Waits
    BY RowAssumption
  <1> QED BY <1>1, <1>2 DEF GateInv, ParkedHasReason

\* Any other status needs no reason.
LEMMA NotParked ==
  ASSUME run'.status \notin {"waiting", "approval_required"}
  PROVE  ParkedHasReason'
  BY DEF ParkedHasReason

\* claim_task moves a runnable Task only.
LEMMA ClaimGate ==
  ASSUME SafeInv, GateInv, NEW w \in Workers, NEW t \in Tasks, ClaimTask(w, t)
  PROVE  ParkedHasReason' /\ RunOnwards /\ \A u \in Tasks : NodeOK(u)
  <1>1. PICK dbnow \in DbNow : ClaimTask(w, t)!(dbnow)
    BY DEF ClaimTask
  <1>2. task \in [Tasks -> TaskRow] /\ task[t] \in TaskRow /\ run \in RunRow
    BY SafeTables
  <1>3. Moved("running")
    BY <1>1, <1>2, RunFields DEF Claimable, AcceptsTaskClaim, Moved, RunActive
  <1>4. \A u \in Tasks : Quiet(task[u], task'[u])
    BY <1>1, <1>2 DEF Claimable, Quiet, TaskRow
  <1>5. ParkedHasReason'
    BY <1>3, NotParked DEF Moved
  <1> QED BY <1>1, <1>3, <1>4, <1>5, QuietNodes, OnwardsMoved

\* A renewal and a retried failure leave the Task runnable.
LEMMA WorkerGate ==
  ASSUME SafeInv, GateInv, FinalStep, NEW t \in Tasks, NEW k,
         RenewTaskLease(t, k) \/ FailTaskRetry(t, k)
  PROVE  ParkedHasReason' /\ RunOnwards /\ \A u \in Tasks : NodeOK(u)
  <1>1. task \in [Tasks -> TaskRow] /\ task[t] \in TaskRow /\ run \in RunRow
    BY SafeTables
  <1>2. CASE RenewTaskLease(t, k)
    <2>1. \A u \in Tasks : Quiet(task[u], task'[u])
      BY <1>1, <1>2, FencedLease DEF RenewTaskLease, Quiet, TaskRow
    <2>2. child' = child /\ run' = run /\ wait' = wait
      BY <1>2 DEF RenewTaskLease
    <2>3. RunOnwards
      BY <2>2 DEF RunOnwards, GateInv
    <2> QED BY <2>1, <2>2, <2>3, QuietNodes, ParkedKept
  <1>3. CASE FailTaskRetry(t, k)
    <2>1. PICK dbnow \in DbNow, d \in Delays : FailTaskRetry(t, k)!(dbnow, d)
      BY <1>3 DEF FailTaskRetry
    <2>2. /\ task[t].status = "leased" /\ run.status \in RunActive
          /\ Unlease(task[t], "retry_scheduled") \in TaskRow
          /\ Unlease(task[t], "retry_scheduled").status = "retry_scheduled"
      BY <1>1, <2>1, FencedLease, UnleaseType, UnleaseFields DEF TaskStatus, TaskOpen
    <2>3. /\ task'[t] = [Unlease(task[t], "retry_scheduled") EXCEPT !.available = dbnow + d]
          /\ \A u \in Tasks \ {t} : task'[u] = task[u]
      BY <1>1, <2>1
    <2>4. task'[t].status = "retry_scheduled"
      BY <2>2, <2>3 DEF TaskRow
    <2>5. \A u \in Tasks : Quiet(task[u], task'[u])
      BY <2>2, <2>3, <2>4 DEF Quiet
    <2>6. Moved("retrying")
      BY <1>1, <2>1, <2>2, RunFields DEF Moved, RunActive
    <2>7. ParkedHasReason'
      BY <2>6, NotParked DEF Moved
    <2> QED BY <2>1, <2>5, <2>6, <2>7, QuietNodes, OnwardsMoved
  <1> QED BY <1>2, <1>3

\* reclaim_expired_lease: a dead letter is a reason to wait, and the one excuse
\* for the dependents it does not resolve.
LEMMA ReclaimGate ==
  ASSUME SafeInv, GateInv, NEW t \in Tasks, ReclaimExpiredLease(t)
  PROVE  ParkedHasReason' /\ RunOnwards /\ \A u \in Tasks : NodeOK(u)
  <1>1. PICK dbnow \in DbNow : ReclaimExpiredLease(t)!(dbnow)
    BY DEF ReclaimExpiredLease
  <1> DEFINE dead == task[t].attempt >= MaxAttempts[t]
             st == IF dead THEN "dead_lettered" ELSE "retry_scheduled"
             rs == IF dead THEN "waiting" ELSE "retrying"
  <1>2. /\ task \in [Tasks -> TaskRow] /\ task[t] \in TaskRow /\ run \in RunRow
        /\ task[t].status = "leased" /\ RowInv(t, task[t], attempt[t], run.generation)
        /\ AttemptType(attempt) /\ attempt[t] \in [AttemptNumbers(t) -> AttemptRow]
        /\ child' = child
    BY <1>1, SafeTables
  <1>3. run.status \in RunActive
    BY <1>1, <1>2, SafeTables, FinishAssumption
       DEF SafeInv, LeasedWhileLive, RunProjection, RunActive, RunTerminal
  <1>4. run' = Advance(run, rs)
    BY <1>1
  <1>5. /\ \A u \in Tasks \ {t} : task'[u] = task[u]
        /\ task'[t] = [Unlease(task[t], st) EXCEPT !.generation = run.generation, !.available = dbnow]
    BY <1>1, <1>2
  <1>6. st \in TaskStatus /\ rs \in RunActive
    BY DEF TaskStatus, TaskOpen, TaskTerminal, RunActive
  <1>7. Moved(rs)
    <2> HIDE DEF rs
    <2> QED BY <1>2, <1>3, <1>4, <1>6, RunFields DEF Moved
  <1>8. task'[t].status = st /\ task'[t].attempt = task[t].attempt
    <2> HIDE DEF st
    <2>1. /\ Unlease(task[t], st) \in TaskRow /\ Unlease(task[t], st).status = st
          /\ Unlease(task[t], st).attempt = task[t].attempt
      BY <1>2, <1>6, UnleaseType, UnleaseFields DEF Dropped
    <2> QED BY <1>5, <2>1 DEF TaskRow
  <1>9. /\ task[t].attempt >= 1 /\ task[t].attempt \in AttemptNumbers(t)
    BY <1>2, RowAssumption DEF RowInv, TaskRow, AttemptNumbers
  <1>10. attempt'[t][task[t].attempt].outcome = "lease_expired"
    BY <1>1, <1>2, <1>9 DEF FinishAttempt, AttemptType, AttemptRow
  <1>11. CASE ~dead
    <2>1. \A u \in Tasks : Quiet(task[u], task'[u])
      BY <1>2, <1>5, <1>8, <1>11 DEF Quiet
    <2>2. ParkedHasReason'
      BY <1>7, <1>11, NotParked DEF Moved
    <2> QED BY <1>2, <1>7, <2>1, <2>2, QuietNodes, OnwardsMoved
  <1>12. CASE dead
    <2>1. task'[t].status = "dead_lettered"
      BY <1>8, <1>12
    <2>2. ParkedHasReason'
      BY <1>7, <1>12, <2>1 DEF Moved, ParkedHasReason
    <2>3. NodeOK(t)
      BY <1>2, <1>8, <1>9, <2>1 DEF NodeOK, Released
    <2>4. ASSUME NEW u \in Tasks \ {t} PROVE NodeOK(u)
      <3>1. task'[u] = task[u] /\ child'[u] = child[u] /\ Prereq[u] \subseteq Tasks
        BY <1>2, <1>5, RowAssumption
      <3>2. CASE t \in Prereq[u]
        <4>1. Excused(task', attempt', u)
          BY <1>8, <1>10, <2>1, <3>2 DEF Excused
        <4> QED BY <3>1, <4>1 DEF NodeOK, Released
      <3>3. CASE t \notin Prereq[u]
        <4>1. \A p \in Prereq[u] : task'[p] = task[p]
          BY <1>5, <3>1, <3>3
        <4> QED BY <3>1, <4>1 DEF NodeOK, Released
      <3> QED BY <3>2, <3>3
    <2> QED BY <1>7, <2>2, <2>3, <2>4, OnwardsMoved
  <1> QED BY <1>11, <1>12

\* apply_event inserts a resume Task, which has no prerequisites and, being new,
\* no child Runs; the Run it wakes is no longer parked.
LEMMA ApplyEventGate ==
  ASSUME SafeInv, GateInv, NEW key, ApplyEvent(key)
  PROVE  ParkedHasReason' /\ RunOnwards /\ \A u \in Tasks : NodeOK(u)
  <1>1. PICK dbnow \in DbNow, w \in Waits : ApplyEvent(key)!(dbnow, w)
    BY DEF ApplyEvent
  <1> DEFINE r == ResumeTask[w]
             rs == IF run.status = "paused" THEN "paused"
                   ELSE IF \E t \in Tasks : task[t].status = "leased" THEN "running"
                   ELSE "queued"
             st == IF run.status = "paused" THEN "scheduled" ELSE "queued"
  <1>2. /\ task \in [Tasks -> TaskRow] /\ run \in RunRow /\ run.status \in RunStatus
        /\ r \in Tasks /\ wait[w] = "open" /\ child' = child
    BY <1>1, SafeTables, RowAssumption
  <1>3. task[r].status = "absent" /\ child[r] = NoChildren
    BY <1>2 DEF SafeInv, WaitResume, GateInv
  <1>4. Prereq[r] = {}
    BY <1>2, DependencyAssumption, TaskSourceAssumption
  <1>5. /\ task'[r].status = st
        /\ \A u \in Tasks \ {r} : task'[u] = task[u]
    BY <1>1, <1>2 DEF NewTask
  <1>6. run' = Advance(run, rs) /\ rs \in {"paused", "running", "queued"}
    BY <1>1
  <1>7. run.status = "paused" => rs = run.status
    OBVIOUS
  <1>8. run.status # "paused" => run.status \in RunActive /\ rs \in RunActive
    BY <1>1, <1>2 DEF RunStatus, RunActive
  <1> HIDE DEF rs
  <1>9. Moved(rs) \/ Kept
    BY <1>1, <1>2, <1>6, <1>7, <1>8, RunFields DEF Moved, Kept
  <1>10. ParkedHasReason'
    BY <1>2, <1>6, RunFields, NotParked
  <1>11. NodeOK(r)
    BY <1>2, <1>3, <1>4, <1>5 DEF NodeOK, NoChildren
  <1>12. \A p \in Tasks : task'[p].status \in TaskTerminal => task[p].status \in TaskTerminal
    BY <1>5 DEF TaskTerminal
  <1>13. \A u \in Tasks \ {r} : NodeOK(u)
    BY <1>2, <1>5, <1>12, QuietNode DEF Quiet
  <1> QED BY <1>9, <1>10, <1>11, <1>13, OnwardsMoved

\* A step on child Runs or their join that keeps the Run's status and touches
\* the row and the children of Task t only, finishing nothing.
LEMMA FanInStep ==
  ASSUME SafeInv, GateInv, FinalStep, NEW t \in Tasks, Kept \/ run' = run, wait' = wait,
         \A u \in Tasks \ {t} : task'[u] = task[u] /\ child'[u] = child[u],
         task'[t].status \notin TaskTerminal \/ task'[t] = task[t], NodeOK(t)
  PROVE  ParkedHasReason' /\ RunOnwards /\ \A u \in Tasks : NodeOK(u)
  <1>1. \A p \in Tasks : task'[p].status \in TaskTerminal => task[p].status \in TaskTerminal
    OBVIOUS
  <1>2. \A u \in Tasks \ {t} : NodeOK(u)
    BY <1>1, QuietNode DEF Quiet
  <1>3. RunOnwards
    BY OnwardsMoved DEF RunOnwards, GateInv
  <1>4. ParkedHasReason'
    <2>1. run'.status = run.status
      BY DEF Kept
    <2> QED BY <2>1, ParkedKept
  <1> QED BY <1>2, <1>3, <1>4

\* create_run with a parent: the fan-in Task is held back.
LEMMA CreateChildGate ==
  ASSUME SafeInv, GateInv, FinalStep, NEW t \in Tasks, CreateChildRun(t)
  PROVE  ParkedHasReason' /\ RunOnwards /\ \A u \in Tasks : NodeOK(u)
  <1>1. /\ task \in [Tasks -> TaskRow] /\ task[t] \in TaskRow
        /\ run \in RunRow /\ run.status \in RunStatus
        /\ child \in [Tasks -> ChildRow] /\ child[t] \in ChildRow
    BY SafeTables DEF SafeInv, TypeOK
  <1>2. Kept
    BY <1>1, RunFields DEF CreateChildRun, Kept
  <1>3. /\ task'[t] = Unlease(task[t], "scheduled")
        /\ \A u \in Tasks \ {t} : task'[u] = task[u] /\ child'[u] = child[u]
    BY <1>1 DEF CreateChildRun
  <1>4. task'[t].status = "scheduled"
    BY <1>1, <1>3, UnleaseFields
  <1>5. child'[t].running = child[t].running + 1 /\ child[t].running \in Nat
    BY <1>1 DEF CreateChildRun, ChildRow
  <1>6. child'[t] # NoChildren
    BY <1>5 DEF NoChildren
  <1>7. NodeOK(t)
    BY <1>4, <1>6 DEF NodeOK, Released
  <1>8. wait' = wait /\ task'[t].status \notin TaskTerminal
    BY <1>4 DEF CreateChildRun, TaskTerminal
  <1> QED BY <1>2, <1>3, <1>7, <1>8, FanInStep

\* A child Run ends: the join may be evaluated from now on.
LEMMA ChildEndsGate ==
  ASSUME SafeInv, GateInv, FinalStep, NEW t \in Tasks, ChildRunEnds(t)
  PROVE  ParkedHasReason' /\ RunOnwards /\ \A u \in Tasks : NodeOK(u)
  <1>1. child \in [Tasks -> ChildRow] /\ child[t] \in ChildRow
    BY DEF SafeInv, TypeOK
  <1>2. /\ child'[t] = [running |-> child[t].running - 1, ended |-> child[t].ended + 1]
        /\ child[t].ended \in Nat /\ task' = task /\ run' = run /\ wait' = wait
        /\ \A u \in Tasks \ {t} : child'[u] = child[u]
    BY <1>1 DEF ChildRunEnds, ChildRow
  <1>3. child'[t].ended > 0 /\ child'[t] # NoChildren
    BY <1>2 DEF NoChildren
  <1>4. task[t].status # "absent"
    BY <1>1 DEF ChildRunEnds, GateInv, NoChildren
  <1>5. NodeOK(t)
    BY <1>2, <1>3, <1>4 DEF NodeOK, Released
  <1> QED BY <1>2, <1>5, FanInStep

\* evaluate_child_run_join releases a Task one of whose children has ended.
LEMMA JoinGate ==
  ASSUME SafeInv, GateInv, FinalStep, NEW t \in Tasks, NEW policy, EvaluateChildRunJoin(t, policy)
  PROVE  ParkedHasReason' /\ RunOnwards /\ \A u \in Tasks : NodeOK(u)
  <1>1. PICK dbnow \in DbNow : EvaluateChildRunJoin(t, policy)!(dbnow)
    BY DEF EvaluateChildRunJoin
  <1>2. /\ task \in [Tasks -> TaskRow] /\ task[t] \in TaskRow
        /\ run \in RunRow /\ run.status \in RunStatus
    BY SafeTables
  <1>3. Kept
    BY <1>1, <1>2, RunFields DEF Kept
  <1>4. /\ task'[t].status = "queued" /\ \A u \in Tasks \ {t} : task'[u] = task[u]
        /\ child' = child /\ wait' = wait
    BY <1>1, <1>2 DEF TaskRow
  <1>5. child'[t].ended > 0
    BY <1>1 DEF JoinReady
  <1>6. NodeOK(t)
    BY <1>4, <1>5 DEF NodeOK
  <1>7. task'[t].status \notin TaskTerminal
    BY <1>4 DEF TaskTerminal
  <1> QED BY <1>3, <1>4, <1>6, <1>7, FanInStep

\* A context patch, the clock and a stuttering step change no Task.
LEMMA StillGate ==
  ASSUME SafeInv, GateInv, FinalStep, ApplyContextPatch \/ Tick \/ UNCHANGED vars
  PROVE  ParkedHasReason' /\ RunOnwards /\ \A u \in Tasks : NodeOK(u)
  <1>1. task' = task /\ child' = child /\ wait' = wait
    BY DEF ApplyContextPatch, Tick, vars
  <1>2. run'.status = run.status /\ run'.generation = run.generation
    <2>1. CASE ApplyContextPatch
      <3>1. Advance(run, run.status) \in RunRow /\ run \in RunRow
        BY SafeTables, AdvanceType
      <3>2. /\ run'.status = Advance(run, run.status).status
            /\ run'.generation = Advance(run, run.status).generation
        BY <2>1, <3>1 DEF ApplyContextPatch, RunRow
      <3> QED BY <3>1, <3>2, RunFields
    <2>2. CASE Tick \/ UNCHANGED vars
      BY <2>2 DEF Tick, vars
    <2> QED BY <2>1, <2>2
  <1>3. RunOnwards
    BY <1>2 DEF RunOnwards, GateInv
  <1> QED BY <1>1, <1>2, <1>3, ParkedKept, QuietNodes DEF Quiet

\* pause_run takes leases back; the Run leaves generation 0.
LEMMA PauseGate ==
  ASSUME SafeInv, GateInv, PauseRun
  PROVE  ParkedHasReason' /\ RunOnwards /\ \A u \in Tasks : NodeOK(u)
  <1>1. PICK dbnow \in DbNow : PauseRun!(dbnow)
    BY DEF PauseRun
  <1>2. /\ task \in [Tasks -> TaskRow] /\ run \in RunRow /\ run.generation \in Nat
        /\ run.status \in RunActive
        /\ \A u \in Tasks : task[u] \in TaskRow
    BY <1>1, SafeTables
  <1>3. Advance(run, "paused") \in RunRow
    BY <1>2, AdvanceType DEF RunStatus
  <1>4. /\ run'.status = Advance(run, "paused").status
        /\ run'.generation = Advance(run, "paused").generation + 1
    BY <1>1, <1>3 DEF RunRow
  <1>5. run'.status = "paused" /\ run'.generation = run.generation + 1
    BY <1>2, <1>4, RunFields
  <1>6. ASSUME NEW u \in Tasks PROVE Quiet(task[u], task'[u])
    <2>1. CASE task[u].status = "leased"
      <3>1. task'[u] = [Unlease(task[u], "retry_scheduled") EXCEPT !.available = dbnow]
        BY <1>1, <2>1
      <3>2. Unlease(task[u], "retry_scheduled") \in TaskRow
            /\ Unlease(task[u], "retry_scheduled").status = "retry_scheduled"
        BY <1>2, UnleaseType, UnleaseFields DEF TaskStatus, TaskOpen
      <3>3. task'[u].status = "retry_scheduled"
        BY <3>1, <3>2 DEF TaskRow
      <3> QED BY <2>1, <3>3 DEF Quiet
    <2>2. CASE task[u].status # "leased"
      BY <1>1, <2>2 DEF Quiet
    <2> QED BY <2>1, <2>2
  <1>7. RunOnwards
    BY <1>2, <1>5 DEF RunOnwards, RunActive, RunTerminal
  <1> QED BY <1>1, <1>5, <1>6, <1>7, NotParked, QuietNodes

\* resume_run releases Tasks in a later generation only, and finds the status of
\* the Run in its Waits and Tasks.
LEMMA ResumeGate ==
  ASSUME SafeInv, GateInv, ResumeRun
  PROVE  ParkedHasReason' /\ RunOnwards /\ \A u \in Tasks : NodeOK(u)
  <1>1. PICK dbnow \in DbNow : ResumeRun!(dbnow)
    BY DEF ResumeRun
  <1> DEFINE rs == ResumedStatus(Rebase(task, dbnow), dbnow)
  <1>2. /\ run \in RunRow /\ run.status = "paused" /\ run.generation # 0
        /\ \A u \in Tasks : task[u] \in TaskRow
        /\ wait' = wait /\ child' = child
    BY <1>1, SafeTables DEF GateInv
  <1>3. rs \in RunActive
    BY <1>1 DEF ResumedStatus, RunActive
  <1>4. /\ rs = "approval_required" => \E w \in Approval : wait[w] = "open"
        /\ rs = "waiting" => \E w \in Waits : wait[w] = "open"
    BY <1>1 DEF ResumedStatus
  <1>5. run' = [Advance(run, rs) EXCEPT !.suspended_from = "none", !.blocked = "none"]
    BY <1>1
  <1> HIDE DEF rs
  <1>6. run'.status = rs /\ run'.generation = run.generation
    <2>1. Advance(run, rs) \in RunRow
      BY <1>2, <1>3, AdvanceType DEF RunStatus
    <2>2. run'.status = Advance(run, rs).status /\ run'.generation = Advance(run, rs).generation
      BY <1>5, <2>1 DEF RunRow
    <2> QED BY <1>2, <2>2, RunFields
  <1>7. ParkedHasReason'
    BY <1>2, <1>4, <1>6 DEF ParkedHasReason
  <1>8. RunOnwards
    BY <1>2, <1>3, <1>6 DEF RunOnwards, RunActive, RunTerminal
  <1>9. ASSUME NEW u \in Tasks
        PROVE  \/ task'[u] = task[u]
               \/ /\ task[u].status \in {"scheduled", "queued", "retry_scheduled"}
                  /\ task'[u].status \in {task[u].status, "queued"}
    <2>1. task'[u] = Rebase(task, dbnow)[u] /\ task[u] \in TaskRow
      BY <1>1, <1>2
    <2> QED BY <2>1 DEF Rebase, TaskRow
  <1>10. \A p \in Tasks : task'[p].status \in TaskTerminal => task[p].status \in TaskTerminal
    BY <1>9 DEF TaskTerminal
  <1>11. ASSUME NEW u \in Tasks PROVE NodeOK(u)
    <2>1. Prereq[u] \subseteq Tasks
      BY RowAssumption
    <2> QED BY <1>2, <1>6, <1>9, <1>10, <2>1 DEF NodeOK
  <1> QED BY <1>7, <1>8, <1>11

----------------------------------------------------------------------------
\* Steps that close the Run.

\* tk is the Task table right before it is closed: it has no finished Task
\* besides those that were runnable or finished before.
LEMMA ClosedNode ==
  ASSUME NEW tk \in [Tasks -> TaskRow], task' = CancelTasks(tk), child' = child,
         run'.status \in RunTerminal, NEW u \in Tasks,
         tk[u].status = "absent" => task[u].status = "absent",
         tk[u].status \in {"succeeded", "failed", "dead_lettered"} => Released(u),
         tk[u].status = "dead_lettered" => task[u].status = "dead_lettered"
  PROVE  NodeOK(u)
  <1>1. task'[u] = IF tk[u].status \in TaskOpen THEN Unlease(tk[u], "cancelled") ELSE tk[u]
    BY DEF CancelTasks
  <1>2. /\ task'[u].status \notin TaskOpen
        /\ task'[u].status \in {tk[u].status, "cancelled"}
    BY <1>1, UnleaseFields DEF TaskOpen
  <1> QED BY <1>2 DEF NodeOK, Released, TaskOpen

\* cancel_run and the time-outs.
LEMMA CloseGate ==
  ASSUME SafeInv, GateInv, CancelRun \/ TimeOutRun \/ \E w \in Waits : ExpireWait(w)
  PROVE  ParkedHasReason' /\ RunOnwards /\ \A u \in Tasks : NodeOK(u)
  <1>1. run \in RunRow /\ task \in [Tasks -> TaskRow]
    BY SafeTables
  <1>2. /\ task' = CancelTasks(task) /\ child' = child /\ run.status \notin RunTerminal
        /\ \/ run' = Finish(run, "timed_out")
           \/ run' = [Finish(run, "cancelled") EXCEPT !.generation = @ + 1, !.blocked = "none"]
    BY DEF CancelRun, TimeOutRun, ExpireWait, TimeOut, ScannedForWaits, RunTerminal
  <1>3. Finish(run, "cancelled") \in RunRow
    BY <1>1, FinishType DEF RunTerminal
  <1>4. Closed /\ run'.generation \in {run.generation, run.generation + 1}
    <2>1. CASE run' = Finish(run, "timed_out")
      BY <1>1, <1>2, <2>1, RunFields DEF Closed, RunTerminal
    <2>2. CASE run' = [Finish(run, "cancelled") EXCEPT !.generation = @ + 1, !.blocked = "none"]
      <3>1. /\ run'.status = Finish(run, "cancelled").status
            /\ run'.generation = Finish(run, "cancelled").generation + 1
            /\ run'.terminal_seq = Finish(run, "cancelled").terminal_seq
            /\ run'.suspended_from = Finish(run, "cancelled").suspended_from
            /\ run'.next_seq = Finish(run, "cancelled").next_seq
        BY <1>3, <2>2 DEF RunRow
      <3> QED BY <1>1, <1>2, <3>1, RunFields DEF Closed, RunTerminal
    <2> QED BY <1>2, <2>1, <2>2
  <1>5. ParkedHasReason' /\ RunOnwards
    BY <1>4, NotParked, OnwardsClosed DEF Closed, RunTerminal
  <1>6. \A u \in Tasks : NodeOK(u)
    BY <1>1, <1>2, <1>4, ClosedNode DEF Released, Closed
  <1> QED BY <1>5, <1>6

----------------------------------------------------------------------------
\* Steps that finish Task t and resolve its dependents.

\* x is the finished row of t; the Tasks of new are inserted afterwards.
LEMMA ResolvingNodes ==
  ASSUME SafeInv, GateInv, NEW t \in Tasks, task[t].status = "leased", NEW dbnow \in Nat,
         NEW x \in TaskRow, x.status \in {"succeeded", "failed", "dead_lettered"},
         x.attempt = task[t].attempt,
         NEW new \in SUBSET PlanTasks, \A u \in new : task[u].status = "absent",
         NEW st \in {"queued", "retry_scheduled"}, NEW av, child' = child,
         task' = InsertTasks(ResolveDependents([task EXCEPT ![t] = x], {t}, dbnow), new, st, av)
  PROVE  \A u \in Tasks : NodeOK(u)
  <1>1. PICK done \in [Tasks -> TaskRow] : done = [task EXCEPT ![t] = x]
    BY SafeTables
  <1>2. done[t] = x /\ \A u \in Tasks \ {t} : done[u] = task[u]
    BY <1>1, SafeTables
  <1>3. PICK res : res = ResolveDependents(done, {t}, dbnow)
    OBVIOUS
  <1>4. \A u \in Tasks : Resolves(done[u], res[u])
    BY <1>3, ResolveRow
  <1>5. \A u \in Tasks : task'[u] = IF u \in new THEN NewTask(st, run.generation, av) ELSE res[u]
    BY <1>1, <1>3 DEF InsertTasks
  <1>6. \A u \in new : /\ task'[u].status = st /\ res[u].status = "absent"
                       /\ u \in Tasks /\ Prereq[u] = {} /\ child[u] = NoChildren
    <2> SUFFICES ASSUME NEW u \in new
                 PROVE  /\ task'[u].status = st /\ res[u].status = "absent"
                        /\ u \in Tasks /\ Prereq[u] = {} /\ child[u] = NoChildren
      OBVIOUS
    <2>1. u \in PlanTasks /\ u \in Tasks /\ task[u].status = "absent"
      BY RowAssumption
    <2>2. Prereq[u] = {}
      BY <2>1, TaskSourceAssumption, DependencyAssumption
    <2>3. task'[u].status = st
      <3>1. task'[u] = NewTask(st, run.generation, av)
        BY <1>5, <2>1
      <3> QED BY <3>1 DEF NewTask
    <2>4. u # t /\ done[u] = task[u] /\ child[u] = NoChildren
      BY <1>2, <2>1 DEF GateInv
    <2>5. Resolves(done[u], res[u])
      BY <1>4, <2>1
    <2> QED BY <2>1, <2>2, <2>3, <2>4, <2>5 DEF Resolves
  <1>7. \A p \in Tasks, s \in TaskTerminal : task'[p].status = s <=> (res[p].status = s /\ p \notin new)
    BY <1>5, <1>6 DEF TaskTerminal
  <1>8. ASSUME NEW u \in Tasks \ new PROVE NodeOK(u)
    <2>1. task'[u] = res[u] /\ child'[u] = child[u] /\ Prereq[u] \subseteq Tasks
      BY <1>5, RowAssumption
    <2>2. CASE u = t
      <3>1. task'[t] = x
        BY <1>2, <1>4, <2>1, <2>2 DEF Resolves
      <3>2. task[t].attempt >= 1
        BY SafeTables DEF RowInv
      <3> QED BY <2>1, <2>2, <3>1, <3>2 DEF NodeOK, Released
    <2>3. CASE u # t
      <3>1. Resolves(task[u], task'[u])
        BY <1>2, <1>4, <2>1, <2>3
      <3>2. /\ task[u].status = "scheduled" /\ res[u].status \notin {"scheduled", "skipped"}
                 => Prereq[u] # {} /\ Ready(res, {}, u)
            /\ res[u].status = "scheduled" /\ Settled(res, {}, u)
                 => \A p \in Prereq[u] : p \notin {t} /\ done[p].status \in TaskTerminal
        <4>1. done[u] = task[u]
          BY <1>2, <2>3
        <4>2. /\ done[u].status = "scheduled" /\ res[u].status \notin {"scheduled", "skipped"}
                   => Prereq[u] # {} /\ Ready(res, {}, u)
              /\ res[u].status = "scheduled" /\ Settled(res, {}, u)
                   => \A p \in Prereq[u] : p \notin {t} /\ done[p].status \in TaskTerminal
          BY <1>3, ResolveOutcome
        <4> QED BY <4>1, <4>2
      <3>3. Settled(task', {}, u) => Settled(res, {}, u)
        <4>1. \A p \in Prereq[u] : task'[p].status \in TaskTerminal => res[p].status \in TaskTerminal
          BY <1>7, <2>1, ZenonT(60)
        <4> QED BY <4>1 DEF Settled, StatusUnder
      <3>4. Ready(res, {}, u) => Ready(task', {}, u)
        <4>1. ASSUME NEW p \in Prereq[u], ConditionSatisfied(res, {}, u, p)
              PROVE  ConditionSatisfied(task', {}, u, p)
          <5>1. Condition[u][p] \in Conditions /\ p \in Tasks
            BY <2>1, DependencyAssumption
          <5>2. res[p].status \in TaskTerminal
            BY <4>1, <5>1 DEF ConditionSatisfied, StatusUnder, Conditions, TaskTerminal
          <5>3. task'[p] = res[p]
            BY <1>5, <1>6, <5>1, <5>2 DEF TaskTerminal
          <5> QED BY <4>1, <5>3 DEF ConditionSatisfied, StatusUnder
        <4> QED BY <4>1 DEF Ready
      <3>5. task'[u].status = "scheduled" /\ Settled(task', {}, u) =>
              \A p \in Prereq[u] : task[p].status \in TaskTerminal
        BY <1>2, <2>1, <3>2, <3>3
      <3>6. Released(u)' => Released(u) \/ (Prereq[u] # {} /\ Ready(task', {}, u))
        BY <2>1, <3>1, <3>2, <3>4 DEF Released, Resolves
      <3> QED BY <2>1, <3>1, <3>5, <3>6 DEF NodeOK, Resolves
    <2> QED BY <2>2, <2>3
  <1>9. ASSUME NEW u \in new PROVE NodeOK(u)
    <2>1. task'[u].status = st /\ Prereq[u] = {} /\ child[u] = NoChildren
      BY <1>6
    <2>2. child'[u] = child[u]
      OBVIOUS
    <2>3. child'[u].running = 0
      BY <2>1, <2>2 DEF NoChildren
    <2> QED BY <2>1, <2>2, <2>3 DEF NodeOK
  <1> QED BY <1>8, <1>9

\* The same when nothing is inserted.
LEMMA ResolvingOnlyNodes ==
  ASSUME SafeInv, TypeOK', GateInv, NEW t \in Tasks, task[t].status = "leased", NEW dbnow \in Nat,
         NEW x \in TaskRow, x.status \in {"succeeded", "failed", "dead_lettered"},
         x.attempt = task[t].attempt, child' = child,
         task' = ResolveDependents([task EXCEPT ![t] = x], {t}, dbnow)
  PROVE  \A u \in Tasks : NodeOK(u)
  <1>1. task' = InsertTasks(task', {}, "queued", 0)
    BY DEF InsertTasks, TypeOK
  <1>2. task' = InsertTasks(ResolveDependents([task EXCEPT ![t] = x], {t}, dbnow), {}, "queued", 0)
    BY <1>1
  <1>3. {} \in SUBSET PlanTasks /\ \A u \in {} : task[u].status = "absent"
    OBVIOUS
  <1> QED BY <1>2, <1>3, ResolvingNodes

\* fail_task on the last attempt: the dead letter is a reason to wait.
LEMMA FailDeadLetterGate ==
  ASSUME SafeInv, TypeOK', GateInv, NEW t \in Tasks, NEW k, FailTaskDeadLetter(t, k)
  PROVE  ParkedHasReason' /\ RunOnwards /\ \A u \in Tasks : NodeOK(u)
  <1>1. PICK dbnow \in DbNow : FailTaskDeadLetter(t, k)!(dbnow)
    BY DEF FailTaskDeadLetter
  <1> DEFINE rs == IF Activated([task EXCEPT ![t] = Unlease(task[t], "dead_lettered")], {t}) # {}
                     THEN "queued" ELSE "waiting"
  <1>2. /\ task \in [Tasks -> TaskRow] /\ task[t] \in TaskRow
        /\ task[t].status = "leased" /\ run \in RunRow /\ run.status \in RunActive
        /\ dbnow \in Nat
    BY <1>1, SafeTables, FencedLease, DbNowNat
  <1>3. PICK x \in TaskRow : x = Unlease(task[t], "dead_lettered")
    BY <1>2, UnleaseType DEF TaskStatus, TaskTerminal
  <1>4. x.status = "dead_lettered" /\ x.attempt = task[t].attempt
    BY <1>2, <1>3, UnleaseFields DEF Dropped
  <1>5. /\ task' = ResolveDependents([task EXCEPT ![t] = x], {t}, dbnow) /\ child' = child
        /\ run' = Advance(run, rs)
    BY <1>1, <1>3
  <1>6. rs \in RunActive /\ rs \in {"queued", "waiting"}
    BY DEF RunActive
  <1> HIDE DEF rs
  <1>7. Moved(rs)
    BY <1>2, <1>5, <1>6, RunFields DEF Moved
  <1>8. task'[t].status = "dead_lettered"
    <2>1. PICK done \in [Tasks -> TaskRow] : done = [task EXCEPT ![t] = x]
      BY <1>2
    <2>2. done[t] = x
      BY <1>2, <2>1
    <2>3. Resolves(done[t], task'[t])
      BY <1>2, <1>5, <2>1, ResolveRow
    <2> QED BY <1>4, <2>2, <2>3 DEF Resolves
  <1>9. ParkedHasReason'
    BY <1>6, <1>7, <1>8 DEF Moved, ParkedHasReason
  <1>10. \A u \in Tasks : NodeOK(u)
    BY <1>2, <1>4, <1>5, ResolvingOnlyNodes
  <1> QED BY <1>7, <1>9, <1>10, OnwardsMoved

\* fail_task without a retry: a fallback was activated, or the Run is closed.
LEMMA FailFatalGate ==
  ASSUME SafeInv, TypeOK', GateInv, NEW t \in Tasks, NEW k, FailTaskFatal(t, k)
  PROVE  ParkedHasReason' /\ RunOnwards /\ \A u \in Tasks : NodeOK(u)
  <1>1. PICK dbnow \in DbNow : FailTaskFatal(t, k)!(dbnow)
    BY DEF FailTaskFatal
  <1>2. /\ task \in [Tasks -> TaskRow] /\ task[t] \in TaskRow
        /\ task[t].status = "leased" /\ run \in RunRow /\ run.status \in RunActive
        /\ dbnow \in Nat /\ child' = child
    BY <1>1, SafeTables, FencedLease, DbNowNat
  <1>3. PICK x \in TaskRow : x = Unlease(task[t], "failed")
    BY <1>2, UnleaseType DEF TaskStatus, TaskTerminal
  <1>4. x.status = "failed" /\ x.attempt = task[t].attempt
    BY <1>2, <1>3, UnleaseFields DEF Dropped
  <1>5. PICK done \in [Tasks -> TaskRow] : done = [task EXCEPT ![t] = x]
    BY <1>2
  <1>6. PICK tk \in [Tasks -> TaskRow] : tk = ResolveDependents(done, {t}, dbnow)
    BY <1>2, ResolveType
  <1>7. \/ task' = tk /\ run' = Advance(run, "queued")
        \/ task' = CancelTasks(tk) /\ run' = Finish(run, "failed")
    BY <1>1, <1>3, <1>5, <1>6
  <1>8. CASE task' = tk /\ run' = Advance(run, "queued")
    <2>1. Moved("queued")
      BY <1>2, <1>8, RunFields DEF Moved, RunActive
    <2>2. ParkedHasReason'
      BY <2>1, NotParked DEF Moved
    <2>3. task' = ResolveDependents([task EXCEPT ![t] = x], {t}, dbnow)
      BY <1>5, <1>6, <1>8
    <2>4. \A u \in Tasks : NodeOK(u)
      BY <1>2, <1>4, <2>3, ResolvingOnlyNodes
    <2> QED BY <2>1, <2>2, <2>4, OnwardsMoved
  <1>9. CASE task' = CancelTasks(tk) /\ run' = Finish(run, "failed")
    <2>1. Closed /\ run'.generation = run.generation
      BY <1>2, <1>9, RunFields DEF Closed, RunActive, RunTerminal
    <2>2. ParkedHasReason' /\ RunOnwards
      BY <2>1, NotParked, OnwardsClosed DEF Closed, RunTerminal
    <2>3. ASSUME NEW u \in Tasks PROVE NodeOK(u)
      <3>1. Resolves(done[u], tk[u])
        BY <1>2, <1>6, ResolveRow
      <3>2. CASE u = t
        <4>1. tk[u].status = "failed"
          BY <1>2, <1>4, <1>5, <3>1, <3>2 DEF Resolves
        <4> QED BY <1>2, <1>9, <2>1, <3>2, <4>1, ClosedNode DEF Released, Closed
      <3>3. CASE u # t
        <4>1. Resolves(task[u], tk[u])
          BY <1>2, <1>5, <3>1, <3>3
        <4>2. /\ tk[u].status = "absent" => task[u].status = "absent"
              /\ tk[u].status \in {"succeeded", "failed", "dead_lettered"} => Released(u)
              /\ tk[u].status = "dead_lettered" => task[u].status = "dead_lettered"
          BY <4>1 DEF Resolves, Released
        <4> QED BY <1>2, <1>9, <2>1, <4>2, ClosedNode DEF Closed
      <3> QED BY <3>2, <3>3
    <2> QED BY <2>2, <2>3
  <1> QED BY <1>7, <1>8, <1>9

\* A completion that inserts Tasks.
LEMMA InsertingGate ==
  ASSUME SafeInv, GateInv, NEW t \in Tasks, NEW k, NEW dbnow \in DbNow,
         Completion(t, k, dbnow), NEW result \in Results,
         NEW new \in SUBSET PlanTasks, \A u \in new : task[u].status = "absent",
         NEW st \in {"queued", "retry_scheduled"}, NEW av,
         task' = InsertTasks(CompletedTasks(t, result, dbnow), new, st, av)
  PROVE  \A u \in Tasks : NodeOK(u)
  <1>1. /\ task[t] \in TaskRow /\ dbnow \in Nat /\ task[t].status = "leased" /\ child' = child
    BY SafeTables, FencedLease, DbNowNat DEF Completion
  <1>2. PICK x \in TaskRow : x = Succeeded(task[t], result)
    BY <1>1, CompletedRow
  <1>3. x.status = "succeeded" /\ x.attempt = task[t].attempt
    BY <1>1, <1>2, CompletedRow DEF Dropped
  <1>4. task' = InsertTasks(ResolveDependents([task EXCEPT ![t] = x], {t}, dbnow), new, st, av)
    BY <1>2 DEF CompletedTasks, Succeeded
  <1> QED BY <1>1, <1>3, <1>4, ResolvingNodes

\* A completion that inserts none.
LEMMA PlainGate ==
  ASSUME SafeInv, TypeOK', GateInv, NEW t \in Tasks, NEW k, NEW dbnow \in DbNow,
         Completion(t, k, dbnow), NEW result \in Results,
         task' = CompletedTasks(t, result, dbnow)
  PROVE  \A u \in Tasks : NodeOK(u)
  <1>1. /\ task[t] \in TaskRow /\ dbnow \in Nat /\ task[t].status = "leased" /\ child' = child
    BY SafeTables, FencedLease, DbNowNat DEF Completion
  <1>2. PICK x \in TaskRow : x = Succeeded(task[t], result)
    BY <1>1, CompletedRow
  <1>3. x.status = "succeeded" /\ x.attempt = task[t].attempt
    BY <1>1, <1>2, CompletedRow DEF Dropped
  <1>4. task' = ResolveDependents([task EXCEPT ![t] = x], {t}, dbnow)
    BY <1>2 DEF CompletedTasks, Succeeded
  <1> QED BY <1>1, <1>3, <1>4, ResolvingOnlyNodes

\* The five completions.
LEMMA CompletionGate ==
  ASSUME SafeInv, TypeOK', GateInv, NEW t \in Tasks, NEW k,
         \/ CompleteWithTasks(t, k) \/ CompleteWithRetry(t, k) \/ CompleteWithWait(t, k)
         \/ CompleteAndFinish(t, k) \/ CompleteNoFurtherWork(t, k)
  PROVE  ParkedHasReason' /\ RunOnwards /\ \A u \in Tasks : NodeOK(u)
  <1>0. run \in RunRow
    BY SafeTables
  <1>1. ASSUME NEW dbnow, Completion(t, k, dbnow), NEW s \in RunActive,
               run' = Checkpointed(Advance(run, s))
        PROVE  RunOnwards /\ run'.status = s
    <2>1. Advance(run, s) \in RunRow /\ run.status \in RunActive
      BY <1>0, <1>1, AdvanceType, FencedLease DEF RunStatus, Completion
    <2>2. Moved(s)
      BY <1>0, <1>1, <2>1, RunFields, CheckpointedFields DEF Moved
    <2> QED BY <2>2, OnwardsMoved DEF Moved
  <1>2. CASE CompleteWithTasks(t, k)
    <2>1. PICK dbnow \in DbNow, result \in Results, new \in SUBSET PlanTasks \ {{}},
               d \in Delays : CompleteWithTasks(t, k)!(dbnow, result, new, d)
      BY <1>2 DEF CompleteWithTasks
    <2>2. \A u \in new : task[u].status = "absent"
      BY <2>1 DEF Insertable
    <2>3. RunOnwards /\ run'.status = "queued"
      BY <1>1, <2>1 DEF RunActive
    <2>4. \A u \in Tasks : NodeOK(u)
      BY <2>1, <2>2, InsertingGate
    <2> QED BY <2>3, <2>4, NotParked
  <1>3. CASE CompleteWithRetry(t, k)
    <2>1. PICK dbnow \in DbNow, result \in Results, x \in PlanTasks, d \in Delays :
            CompleteWithRetry(t, k)!(dbnow, result, x, d)
      BY <1>3 DEF CompleteWithRetry
    <2>2. {x} \in SUBSET PlanTasks /\ \A u \in {x} : task[u].status = "absent"
      BY <2>1 DEF Insertable
    <2>3. RunOnwards /\ run'.status = "retrying"
      BY <1>1, <2>1 DEF RunActive
    <2>4. \A u \in Tasks : NodeOK(u)
      BY <2>1, <2>2, InsertingGate
    <2> QED BY <2>3, <2>4, NotParked
  <1>4. CASE CompleteWithWait(t, k)
    <2>1. PICK dbnow \in DbNow, result \in Results, w \in Waits :
            CompleteWithWait(t, k)!(dbnow, result, w)
      BY <1>4 DEF CompleteWithWait
    <2>2. /\ RunOnwards
          /\ run'.status = IF w \in Approval THEN "approval_required" ELSE "waiting"
      BY <1>1, <2>1 DEF RunActive
    <2>3. wait'[w] = "open"
      BY <2>1, SafeTables
    <2>4. ParkedHasReason'
      BY <2>2, <2>3 DEF ParkedHasReason
    <2>5. \A u \in Tasks : NodeOK(u)
      BY <2>1, PlainGate
    <2> QED BY <2>2, <2>4, <2>5
  <1>5. CASE CompleteAndFinish(t, k)
    <2>1. PICK dbnow \in DbNow, result \in Results, status \in FinishStatuses :
            CompleteAndFinish(t, k)!(dbnow, result, status)
      BY <1>5 DEF CompleteAndFinish
    <2>2. /\ Finish(run, status) \in RunRow /\ status \in RunTerminal
          /\ run.status \in RunActive
      BY <1>0, <2>1, FinishType, FinishAssumption, FencedLease DEF Completion
    <2>3. Closed /\ run'.status = status /\ run'.generation = run.generation
      BY <1>0, <2>1, <2>2, RunFields, CheckpointedFields DEF Closed, RunActive, RunTerminal
    <2>4. ParkedHasReason' /\ RunOnwards
      BY <2>3, NotParked, OnwardsClosed DEF Closed, RunTerminal
    <2>5. \A u \in Tasks : NodeOK(u)
      BY <2>1, PlainGate
    <2> QED BY <2>4, <2>5
  <1>6. CASE CompleteNoFurtherWork(t, k)
    <2>1. PICK dbnow \in DbNow, result \in Results :
            CompleteNoFurtherWork(t, k)!(dbnow, result)
      BY <1>6 DEF CompleteNoFurtherWork
    <2>2. RunOnwards /\ run'.status = "running"
      BY <1>1, <2>1 DEF RunActive
    <2>3. \A u \in Tasks : NodeOK(u)
      BY <2>1, PlainGate
    <2> QED BY <2>2, <2>3, NotParked
  <1> QED BY <1>2, <1>3, <1>4, <1>5, <1>6

\* revise_plan resolves the dependents of everything a new Task depends on, so a
\* new Task whose prerequisites ended long ago is not forgotten either.
LEMMA RevisePlanGate ==
  ASSUME SafeInv, TypeOK', GateInv, FinalStep, RevisePlan
  PROVE  ParkedHasReason' /\ RunOnwards /\ \A u \in Tasks : NodeOK(u)
  <1>1. PICK dbnow \in DbNow, new \in SUBSET RevisionTasks : RevisePlan!(dbnow, new)
    BY DEF RevisePlan
  <1>2. /\ run \in RunRow /\ run.generation \in Nat /\ run.status \in RunStatus /\ dbnow \in Nat
        /\ \A u \in Tasks : task[u] \in TaskRow
        /\ task \in [Tasks -> TaskRow] /\ wait' = wait /\ child' = child
        /\ \A u \in new : task[u].status = "absent" /\ u \in Tasks
    BY <1>1, SafeTables, DbNowNat, RowAssumption
  <1>3. run'.status = run.status /\ run'.generation = run.generation
    <2>1. Advance(run, run.status) \in RunRow
      BY <1>2, AdvanceType
    <2>2. /\ run'.status = Advance(run, run.status).status
          /\ run'.generation = Advance(run, run.status).generation
      BY <1>1, <2>1 DEF RunRow
    <2> QED BY <1>2, <2>2, RunFields
  <1>4. RunOnwards
    BY <1>3 DEF RunOnwards, GateInv
  <1>5. ParkedHasReason'
    BY <1>2, <1>3, ParkedKept
  <1>6. PICK ins \in [Tasks -> TaskRow] : ins = [t \in Tasks |->
          IF t \in new THEN NewTask(InsertedStatus(t), run.generation, dbnow) ELSE task[t]]
    BY <1>2, NewTaskType DEF InsertedStatus, TaskStatus, TaskOpen
  <1>7. PICK starts : starts = UNION {Prereq[x] : x \in new}
    OBVIOUS
  <1>8. task' = ResolveDependents(ins, starts, dbnow)
    BY <1>1, <1>6, <1>7
  <1>9. ASSUME NEW u \in new
        PROVE  /\ ins[u].status = IF Prereq[u] = {} THEN "queued" ELSE "scheduled"
               /\ Prereq[u] \subseteq starts
    <2>1. ins[u] = NewTask(InsertedStatus(u), run.generation, dbnow)
      BY <1>2, <1>6
    <2> QED BY <1>7, <2>1 DEF NewTask, InsertedStatus
  <1>10. \A u \in Tasks \ new : ins[u] = task[u]
    BY <1>6
  <1>11. ASSUME NEW u \in Tasks PROVE NodeOK(u)
    <2>1. Resolves(ins[u], task'[u]) /\ child'[u] = child[u] /\ Prereq[u] \subseteq Tasks
      BY <1>2, <1>8, ResolveRow, RowAssumption
    <2>2. /\ ins[u].status = "scheduled" /\ task'[u].status \notin {"scheduled", "skipped"}
               => Prereq[u] # {} /\ Ready(task', {}, u)
          /\ task'[u].status = "scheduled" /\ Settled(task', {}, u)
               => \A p \in Prereq[u] : p \notin starts /\ ins[p].status \in TaskTerminal
      BY <1>2, <1>8, ResolveOutcome
    <2>3. CASE u \in new
      <3>1. /\ ins[u].status = IF Prereq[u] = {} THEN "queued" ELSE "scheduled"
            /\ Prereq[u] \subseteq starts
            /\ child[u] = NoChildren
        BY <1>2, <1>9, <2>3 DEF GateInv
      <3>2. child'[u].running = 0
        BY <2>1, <3>1 DEF NoChildren
      <3>3. task'[u].status = "scheduled" => ~Settled(task', {}, u) \/ Prereq[u] = {}
        BY <2>2, <3>1
      <3>4. task'[u].status \in {"queued", "scheduled", "skipped"}
        BY <2>1, <3>1 DEF Resolves
      <3>5. Released(u)' => \/ Prereq[u] # {} /\ Ready(task', {}, u)
                            \/ Prereq[u] = {}
        BY <2>2, <3>1 DEF Released
      <3> QED BY <2>1, <3>2, <3>3, <3>4, <3>5 DEF NodeOK
    <2>4. CASE u \notin new
      <3>1. Resolves(task[u], task'[u]) /\ ins[u] = task[u]
        BY <1>10, <2>1, <2>4
      <3>2. \A p \in Prereq[u] : ins[p].status \in TaskTerminal => task[p].status \in TaskTerminal
        <4>1. \A p \in new : ins[p].status \notin TaskTerminal
          BY <1>9 DEF TaskTerminal
        <4> QED BY <1>10, <2>1, <4>1
      <3>3. task'[u].status = "scheduled" /\ Settled(task', {}, u) =>
              \A p \in Prereq[u] : task[p].status \in TaskTerminal
        BY <2>2, <3>2
      <3>4. Released(u)' => Released(u) \/ (Prereq[u] # {} /\ Ready(task', {}, u))
        BY <2>2, <3>1 DEF Released, Resolves
      <3> QED BY <2>1, <3>1, <3>3, <3>4 DEF NodeOK, Resolves
    <2> QED BY <2>3, <2>4
  <1> QED BY <1>4, <1>5, <1>11

----------------------------------------------------------------------------
\* The induction.

\* create_run establishes the gates: a Task with prerequisites starts scheduled,
\* behind Tasks that are inserted with it.
LEMMA InitGate == Init => GateInv
  <1> SUFFICES ASSUME Init PROVE GateInv
    OBVIOUS
  <1>1. run.status = "queued"
    BY DEF Init
  <1>2. ASSUME NEW t \in Tasks
        PROVE  /\ task[t].status \in {"absent", "queued", "scheduled"}
               /\ task[t].status = "queued" => Prereq[t] = {}
               /\ task[t].status = "scheduled" => t \in InitialTasks
               /\ child[t] = NoChildren
    BY DEF Init, AbsentTask, NewTask, InsertedStatus
  <1>3. ParkedHasReason
    BY <1>1 DEF ParkedHasReason
  <1>4. DependencyGate
    BY <1>2 DEF DependencyGate, Released
  <1>5. DependentsResolved
    <2> SUFFICES ASSUME NEW t \in Tasks, Prereq[t] # {}, task[t].status = "scheduled"
                 PROVE  ~Settled(task, {}, t)
      BY DEF DependentsResolved
    <2>1. PICK p \in Prereq[t] : TRUE
      OBVIOUS
    <2>2. p \in Tasks
      BY RowAssumption
    <2> QED BY <1>2, <2>2 DEF Settled, StatusUnder, TaskTerminal
  <1>6. FanInGate
    <2>1. NoChildren.running = 0
      BY DEF NoChildren
    <2> QED BY <1>2, <2>1 DEF FanInGate
  <1> QED BY <1>1, <1>2, <1>3, <1>4, <1>5, <1>6 DEF GateInv

\* Every step of every actor keeps the gates.
LEMMA StepGate == SafeInv /\ GateInv /\ [Next]_vars => GateInv'
  <1> SUFFICES ASSUME SafeInv, GateInv, [Next]_vars PROVE GateInv'
    OBVIOUS
  <1>1. SafeInv' /\ FinalStep /\ TypeOK'
    BY StepSafe DEF SafeInv
  <1> DEFINE Goal == ParkedHasReason' /\ RunOnwards /\ \A u \in Tasks : NodeOK(u)
  <1>2. SUFFICES Goal
    BY <1>1, GateStep
  <1>3. ASSUME NEW t \in Tasks, NEW k \in AttemptNumbers(t), WorkerStep(t, k)
        PROVE  Goal
    BY <1>1, <1>3, WorkerGate, FailDeadLetterGate, FailFatalGate, CompletionGate DEF WorkerStep
  <1>4. ASSUME NEW t \in Tasks,
               \/ \E w \in Workers : ClaimTask(w, t)
               \/ ReclaimExpiredLease(t)
               \/ CreateChildRun(t)
               \/ ChildRunEnds(t)
               \/ \E policy \in {"all", "any"} : EvaluateChildRunJoin(t, policy)
        PROVE  Goal
    BY <1>1, <1>4, ClaimGate, ReclaimGate, CreateChildGate, ChildEndsGate, JoinGate
  <1>5. CASE \E w \in Waits : ApplyEvent(MatchKey[w])
    BY <1>5, ApplyEventGate
  <1>6. CASE RevisePlan \/ PauseRun \/ ResumeRun
    BY <1>1, <1>6, RevisePlanGate, PauseGate, ResumeGate
  <1>7. CASE ApplyContextPatch \/ Tick \/ UNCHANGED vars
    BY <1>1, <1>7, StillGate
  <1>8. CASE CancelRun \/ TimeOutRun \/ \E w \in Waits : ExpireWait(w)
    BY <1>8, CloseGate
  <1> HIDE DEF Goal
  <1> QED BY <1>3, <1>4, <1>5, <1>6, <1>7, <1>8 DEF Next

\* The gates hold in every state of the store.
THEOREM GateInvariant == Spec => []GateInv
  BY InitGate, StepGate, SafeInvariant, PTL DEF Spec

\* A Run shows "approval_required" only while an approval is open, and "waiting"
\* only while a Wait is open or a Task is dead-lettered.
THEOREM ParkedCorrect == Spec => []ParkedHasReason
  <1>1. GateInv => ParkedHasReason
    BY DEF GateInv
  <1> QED BY GateInvariant, <1>1, PTL

\* Until the first pause a Task with prerequisites becomes runnable only when its
\* join is satisfied, in every dependency graph and every order of completions,
\* failures, skips and plan revisions.
THEOREM DependenciesGate == Spec => []DependencyGate
  <1>1. GateInv => DependencyGate
    BY DEF GateInv
  <1> QED BY GateInvariant, <1>1, PTL

\* No dependent of a live Run is left scheduled after its prerequisites have
\* ended, unless the lease reclaimer dead-lettered one of them.
THEOREM NoDependentForgotten == Spec => []DependentsResolved
  <1>1. GateInv => DependentsResolved
    BY DEF GateInv
  <1> QED BY GateInvariant, <1>1, PTL

\* Until the first pause a fan-in Task does not run while all its child Runs do.
THEOREM FanInCorrect == Spec => []FanInGate
  <1>1. GateInv => FanInGate
    BY DEF GateInv
  <1> QED BY GateInvariant, <1>1, PTL

=============================================================================
