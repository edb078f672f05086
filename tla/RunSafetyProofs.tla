--------------------------- MODULE RunSafetyProofs ---------------------------
(***************************************************************************)
(* The safety of the lease protocol of RunStore, for every number of       *)
(* workers, Tasks, attempts, Waits, pauses and revisions.  The properties  *)
(* are conjuncts of, or follow from, one inductive invariant, SafeInv.     *)
(* Its core, RowInv, ties the lease columns of one Task to its attempt     *)
(* rows and to the Run's generation.                                       *)
(***************************************************************************)
EXTENDS RunStoreProofs

\* A Task that is neither leased nor finished.
IdleStatus == {"absent", "scheduled", "queued", "retry_scheduled"}

\* One Task: its attempt counter, its attempt rows and its lease columns agree
\* (AttemptLedger and LeaseFence for one Task, and an uninserted Task was never
\* claimed).  g is the Run's generation.
RowInv(t, row, ats, g) ==
  /\ row.attempt <= MaxAttempts[t]
  /\ \A n \in AttemptNumbers(t) :
       /\ ats[n].outcome # "absent" <=> n <= row.attempt
       /\ ats[n].outcome = "open" <=> row.status = "leased" /\ n = row.attempt
       /\ ats[n].outcome = "succeeded" <=> row.status = "succeeded" /\ n = row.attempt
  /\ row.status = "absent" => row.attempt = 0
  /\ row.status = "leased" =>
       /\ row.generation = g
       /\ row.attempt >= 1
       /\ row.token = row.attempt
       /\ row.owner = ats[row.attempt].worker
       /\ ats[row.attempt].generation = row.generation
       /\ row.owner # NoWorker
       /\ row.expires # Never
  /\ row.status # "leased" => row.owner = NoWorker /\ row.token = 0 /\ row.expires = Never

RowsOK == \A t \in Tasks : RowInv(t, task[t], attempt[t], run.generation)

LeasedWhileLive ==
  \A t \in Tasks : task[t].status = "leased" => run.status \in RunActive \cup FinishStatuses

SafeInv ==
  /\ TypeOK
  /\ RunProjection
  /\ GenerationGate
  /\ LeasedWhileLive
  /\ RowsOK
  /\ WaitResume
  /\ TerminalClosed

\* The action of FinishedIsFinal.
FinalStep ==
  \A t \in Tasks :
    /\ task[t].status \in TaskTerminal => task'[t] = task[t]
    /\ \A n \in AttemptNumbers(t) :
         attempt[t][n].outcome \notin {"absent", "open"} => attempt'[t][n] = attempt[t][n]

----------------------------------------------------------------------------
\* One row.

\* A row that is not claimed or finished by the step: it is the same, or an
\* idle Task moved to another status with its lease columns and counter kept.
Soft(old, new) ==
  \/ new = old
  \/ /\ old.status \in IdleStatus
     /\ new.status \notin {"leased", "succeeded", "absent"}
     /\ new.attempt = old.attempt
     /\ new.owner = old.owner
     /\ new.token = old.token
     /\ new.expires = old.expires

\* Its generation is the Run's, or it keeps the one it had while it was open.
GenOK(old, new, g) ==
  \/ new.generation = g
  \/ /\ new.generation = old.generation
     /\ new.status \in TaskOpen => old.status \in TaskOpen

\* A row that loses its lease.
Dropped(old, new) ==
  /\ new.attempt = old.attempt
  /\ new.owner = NoWorker
  /\ new.token = 0
  /\ new.expires = Never

\* A softly changed row keeps its invariant; if it is not leased, in every
\* generation.
LEMMA SoftRow ==
  ASSUME NEW t \in Tasks, NEW row \in TaskRow, NEW new \in TaskRow, NEW ats,
         NEW g, NEW h, RowInv(t, row, ats, g), Soft(row, new),
         row.status # "leased" \/ h = g
  PROVE  RowInv(t, new, ats, h)
  BY DEF RowInv, Soft, IdleStatus

\* A leased row whose attempt is closed with outcome o and whose lease is
\* dropped keeps its invariant.
LEMMA FinishRow ==
  ASSUME NEW t \in Tasks, NEW row \in TaskRow, NEW new \in TaskRow, NEW g, NEW h,
         NEW ats \in [AttemptNumbers(t) -> AttemptRow],
         NEW o \in AttemptOutcome \ {"open"},
         RowInv(t, row, ats, g), row.status = "leased", Dropped(row, new),
         new.status \notin {"leased", "absent"},
         new.status = "succeeded" <=> o = "succeeded"
  PROVE  RowInv(t, new, [n \in AttemptNumbers(t) |->
           IF n = row.attempt THEN [ats[n] EXCEPT !.outcome = o] ELSE ats[n]], h)
  BY DEF RowInv, Dropped, AttemptRow, AttemptOutcome

\* A claimed row keeps its invariant.
LEMMA ClaimRow ==
  ASSUME NEW t \in Tasks, NEW row \in TaskRow, NEW new \in TaskRow, NEW g,
         NEW ats \in [AttemptNumbers(t) -> AttemptRow], NEW w \in Workers,
         RowInv(t, row, ats, g), row.status \in {"queued", "retry_scheduled"},
         row.attempt < MaxAttempts[t], row.generation = g,
         new.status = "leased", new.attempt = row.attempt + 1, new.owner = w,
         new.token = row.attempt + 1, new.expires # Never, new.generation = row.generation
  PROVE  RowInv(t, new, [ats EXCEPT ![row.attempt + 1] =
           [worker |-> w, generation |-> row.generation, outcome |-> "open"]], g)
  <1>1. row.attempt \in Nat /\ MaxAttempts[t] \in Nat
    BY RowAssumption DEF TaskRow
  <1>2. row.attempt + 1 \in AttemptNumbers(t)
    BY <1>1 DEF AttemptNumbers
  <1> QED BY <1>1, <1>2, RowAssumption DEF RowInv, AttemptRow, AttemptNumbers

\* A row that loses its lease without succeeding, if it has one.
Freed(row, new) ==
  IF row.status = "leased"
    THEN Dropped(row, new) /\ new.status \notin {"leased", "absent", "succeeded"}
    ELSE Soft(row, new)

\* Closing every open attempt of a row that is idle, finished, or loses its
\* lease without succeeding keeps its invariant.
LEMMA CancelRow ==
  ASSUME NEW t \in Tasks, NEW row \in TaskRow, NEW new \in TaskRow, NEW g, NEW h,
         NEW ats \in [AttemptNumbers(t) -> AttemptRow], RowInv(t, row, ats, g),
         Freed(row, new)
  PROVE  RowInv(t, new, [n \in AttemptNumbers(t) |->
           IF ats[n].outcome = "open" THEN [ats[n] EXCEPT !.outcome = "cancelled"] ELSE ats[n]], h)
  BY DEF RowInv, Freed, Dropped, Soft, IdleStatus, AttemptRow, AttemptOutcome

\* What a dependency resolution does to one row.
Resolves(old, new) ==
  \/ new = old
  \/ /\ old.status = "scheduled"
     /\ new.status \in {"skipped", "queued"}
     /\ new.generation = old.generation
     /\ new.attempt = old.attempt
     /\ new.owner = old.owner
     /\ new.token = old.token
     /\ new.expires = old.expires

\* resolve_dependent_tasks touches scheduled Tasks only.
LEMMA ResolveRow ==
  ASSUME NEW tk \in [Tasks -> TaskRow], NEW starts, NEW dbnow \in Nat, NEW d \in Tasks
  PROVE  Resolves(tk[d], ResolveDependents(tk, starts, dbnow)[d])
  <1>1. tk[d] \in TaskRow
    OBVIOUS
  <1>2. \A x \in Skipped(tk, starts) \cup Activated(tk, starts) : tk[x].status = "scheduled"
    BY DEF Skipped, Activated, Scheduled
  <1> QED BY <1>1, <1>2 DEF ResolveDependents, Resolves, TaskRow

\* A resolved row is softly changed, keeps its generation and its existence.
LEMMA ResolvesSoft ==
  ASSUME NEW old, NEW new, NEW g, Resolves(old, new)
  PROVE  /\ Soft(old, new) /\ GenOK(old, new, g)
         /\ new.status = "absent" <=> old.status = "absent"
         /\ old.status # "scheduled" => new = old
  BY DEF Resolves, Soft, GenOK, IdleStatus, TaskOpen

\* A row closed by a cancel, time-out or fatal failure together with its open
\* attempt keeps its invariant and is no longer open.
LEMMA CloseRow ==
  ASSUME NEW tk \in [Tasks -> TaskRow], NEW at, AttemptType(at), NEW t \in Tasks,
         NEW g, NEW h, RowInv(t, tk[t], at[t], g)
  PROVE  /\ RowInv(t, CancelTasks(tk)[t], CancelAttempts(at)[t], h)
         /\ CancelTasks(tk)[t].status \notin TaskOpen
         /\ CancelTasks(tk)[t].generation = tk[t].generation
         /\ CancelTasks(tk)[t].status = "absent" <=> tk[t].status = "absent"
         /\ tk[t].status \in TaskTerminal => CancelTasks(tk)[t] = tk[t]
  <1> DEFINE row == tk[t]
             new == CancelTasks(tk)[t]
  <1>1. row \in TaskRow /\ at[t] \in [AttemptNumbers(t) -> AttemptRow]
    BY DEF AttemptType
  <1>2. new = IF row.status \in TaskOpen THEN Unlease(row, "cancelled") ELSE row
    BY DEF CancelTasks
  <1>3. new \in TaskRow
    BY <1>1, <1>2, UnleaseType DEF TaskStatus, TaskTerminal
  <1>4. CancelAttempts(at)[t] = [n \in AttemptNumbers(t) |->
          IF at[t][n].outcome = "open" THEN [at[t][n] EXCEPT !.outcome = "cancelled"] ELSE at[t][n]]
    BY DEF CancelAttempts
  <1>5. row.status \in TaskOpen =>
          /\ Dropped(row, new) /\ new.status = "cancelled" /\ new.generation = row.generation
    BY <1>1, <1>2 DEF Unlease, TaskRow, Dropped
  <1>6. row.status # "leased" => Soft(row, new)
    BY <1>2, <1>5 DEF RowInv, Dropped, Soft, IdleStatus, TaskOpen
  <1>7. RowInv(t, new, CancelAttempts(at)[t], h)
    <2>1. Freed(row, new)
      BY <1>5, <1>6 DEF Freed, TaskOpen
    <2> HIDE DEF row, new
    <2> QED BY <1>1, <1>3, <1>4, <2>1, CancelRow DEF row
  <1>8. new.status \notin TaskOpen /\ (row.status \in TaskTerminal => new = row)
    BY <1>2, <1>5 DEF TaskOpen, TaskTerminal
  <1>9. new.generation = row.generation /\ (new.status = "absent" <=> row.status = "absent")
    BY <1>2, <1>5 DEF TaskOpen
  <1> QED BY <1>7, <1>8, <1>9

----------------------------------------------------------------------------
\* The Run row.

\* What moving a Run on and closing it write, and what they leave alone.
LEMMA RunFields ==
  ASSUME NEW r \in RunRow, NEW s
  PROVE  /\ Advance(r, s).status = s
         /\ Advance(r, s).generation = r.generation
         /\ Advance(r, s).terminal_seq = r.terminal_seq
         /\ Advance(r, s).suspended_from = r.suspended_from
         /\ Advance(r, s).next_seq = r.next_seq + 1
         /\ Finish(r, s).status = s
         /\ Finish(r, s).generation = r.generation
         /\ Finish(r, s).terminal_seq = r.next_seq
         /\ Finish(r, s).suspended_from = "none"
         /\ Finish(r, s).next_seq = r.next_seq + 1
  BY DEF Advance, Finish, RunRow

\* A Checkpoint leaves the projection columns of the Run row alone.
LEMMA CheckpointedFields ==
  ASSUME NEW r \in RunRow
  PROVE  /\ Checkpointed(r).status = r.status
         /\ Checkpointed(r).generation = r.generation
         /\ Checkpointed(r).terminal_seq = r.terminal_seq
         /\ Checkpointed(r).suspended_from = r.suspended_from
         /\ Checkpointed(r).next_seq = r.next_seq
  BY DEF Checkpointed, RunRow

\* The three ways a transaction may write the projection columns: move an
\* active Run on, leave the status as it is, or close the Run.
Moved(s) == /\ run.status \in RunActive /\ s \in RunActive
            /\ run'.status = s
            /\ run'.generation = run.generation
            /\ run'.terminal_seq = run.terminal_seq
            /\ run'.suspended_from = run.suspended_from
            /\ run'.next_seq = run.next_seq + 1

Kept == /\ run.status \notin RunTerminal
        /\ run'.status = run.status
        /\ run'.generation = run.generation
        /\ run'.terminal_seq = run.terminal_seq
        /\ run'.suspended_from = run.suspended_from
        /\ run'.next_seq = run.next_seq + 1

Closed == /\ run.status \notin RunTerminal /\ run'.status \in RunTerminal
          /\ run'.terminal_seq = run.next_seq
          /\ run'.suspended_from = "none"
          /\ run'.next_seq = run.next_seq + 1

\* Each of the three keeps the projection.
LEMMA ProjectionKept ==
  ASSUME run \in RunRow, RunProjection, NEW s, Moved(s) \/ Kept \/ Closed
  PROVE  RunProjection'
  <1>1. run.next_seq \in Nat \ {0} /\ run.terminal_seq \in Nat
    BY DEF RunRow
  <1>2. CASE Closed
    BY <1>1, <1>2 DEF Closed, RunProjection, RunTerminal
  <1>3. CASE Moved(s) \/ Kept
    BY <1>1, <1>3 DEF Moved, Kept, RunProjection, RunActive, RunTerminal
  <1> QED BY <1>2, <1>3

\* WaitResume survives a step that consumes no Wait and inserts no resume Task.
LEMMA WaitsKept ==
  ASSUME WaitResume,
         \A w \in Waits : wait'[w] = "consumed" <=> wait[w] = "consumed",
         \A w \in Waits : task'[ResumeTask[w]].status = "absent"
                              <=> task[ResumeTask[w]].status = "absent"
  PROVE  WaitResume'
  BY DEF WaitResume

----------------------------------------------------------------------------
\* Whole steps.

\* A step that writes Task t and its attempts, and touches the other Tasks only
\* softly, is safe.
LEMMA OneTaskStep ==
  ASSUME SafeInv, TypeOK', RunProjection', WaitResume', NEW t \in Tasks,
         run.status \in RunActive,
         run'.status \in RunActive \cup FinishStatuses,
         run'.generation = run.generation,
         \A u \in Tasks \ {t} : Soft(task[u], task'[u]) /\ attempt'[u] = attempt[u],
         \A u \in Tasks : GenOK(task[u], task'[u], run.generation),
         RowInv(t, task'[t], attempt'[t], run.generation),
         task[t].status \notin TaskTerminal,
         \A n \in AttemptNumbers(t) : attempt[t][n].outcome \notin {"absent", "open"}
            => attempt'[t][n] = attempt[t][n]
  PROVE  SafeInv' /\ FinalStep
  <1>1. \A u \in Tasks : task[u] \in TaskRow /\ task'[u] \in TaskRow
    BY DEF SafeInv, TypeOK
  <1>2. run.generation \in Nat
    BY DEF SafeInv, TypeOK, RunRow
  <1>3. RowsOK'
    BY <1>1, SoftRow DEF SafeInv, RowsOK
  <1>4. GenerationGate'
    BY <1>1, <1>2 DEF SafeInv, GenerationGate, GenOK
  <1>5. LeasedWhileLive' /\ TerminalClosed'
    BY FinishAssumption DEF LeasedWhileLive, TerminalClosed, RunActive, RunTerminal
  <1>6. FinalStep
    BY DEF FinalStep, Soft, IdleStatus, TaskTerminal
  <1> QED BY <1>3, <1>4, <1>5, <1>6 DEF SafeInv

\* A step that touches Tasks only softly and leaves the Run's status, or moves
\* an active Run on, is safe.
LEMMA SoftStep ==
  ASSUME SafeInv, TypeOK', WaitResume', NEW s, Moved(s) \/ Kept,
         attempt' = attempt,
         \A u \in Tasks : Soft(task[u], task'[u]) /\ GenOK(task[u], task'[u], run.generation)
  PROVE  SafeInv' /\ FinalStep
  <1>1. \A u \in Tasks : task[u] \in TaskRow /\ task'[u] \in TaskRow
    BY DEF SafeInv, TypeOK
  <1>2. /\ run.generation \in Nat /\ run'.generation = run.generation
        /\ run'.status = run.status \/ (run.status \in RunActive /\ run'.status \in RunActive)
        /\ run'.status \notin RunTerminal
    BY DEF SafeInv, TypeOK, RunRow, Moved, Kept, RunActive, RunTerminal
  <1>3. RowsOK'
    BY <1>1, <1>2, SoftRow DEF SafeInv, RowsOK
  <1>4. GenerationGate'
    BY <1>1, <1>2 DEF SafeInv, GenerationGate, GenOK
  <1>5. LeasedWhileLive'
    BY <1>2 DEF SafeInv, LeasedWhileLive, Soft
  <1>6. TerminalClosed'
    BY <1>2 DEF TerminalClosed
  <1>7. RunProjection'
    BY ProjectionKept DEF SafeInv, TypeOK
  <1>8. FinalStep
    BY DEF FinalStep, Soft, IdleStatus, TaskTerminal
  <1> QED BY <1>3, <1>4, <1>5, <1>6, <1>7, <1>8 DEF SafeInv

\* Task u right before the Run is closed: its row and attempts satisfy the
\* invariant, and what was finished before the step is untouched.
Closable(u, row, ats) ==
  /\ RowInv(u, row, ats, run.generation)
  /\ row.generation = task[u].generation
  /\ row.status = "absent" <=> task[u].status = "absent"
  /\ task[u].status \in TaskTerminal => row = task[u]
  /\ \A n \in AttemptNumbers(u) :
       attempt[u][n].outcome \notin {"absent", "open"} => ats[n] = attempt[u][n]

\* tk and at are the tables of Tasks and attempts right before they are closed.
ClosableTables(tk, at) ==
  /\ tk \in [Tasks -> TaskRow]
  /\ AttemptType(at)
  /\ \A u \in Tasks : Closable(u, tk[u], at[u])

\* The step closes the open Waits and consumes none.
WaitsClosed ==
  \A w \in Waits : wait'[w] # "open" /\ (wait'[w] = "consumed" <=> wait[w] = "consumed")

\* A step that closes the Run and all its open Tasks, attempts and Waits is
\* safe.
LEMMA CloseStep ==
  ASSUME SafeInv, TypeOK', Closed, run'.generation \in {run.generation, run.generation + 1},
         NEW tk, NEW at, ClosableTables(tk, at),
         task' = CancelTasks(tk), attempt' = CancelAttempts(at), WaitsClosed
  PROVE  SafeInv' /\ FinalStep
  <1>0. /\ tk \in [Tasks -> TaskRow] /\ AttemptType(at)
        /\ \A u \in Tasks : Closable(u, tk[u], at[u])
    BY DEF ClosableTables
  <1>1. ASSUME NEW u \in Tasks
        PROVE  /\ RowInv(u, task'[u], attempt'[u], run'.generation)
               /\ task'[u].status \notin TaskOpen
               /\ task'[u].generation = task[u].generation
               /\ task'[u].status = "absent" <=> task[u].status = "absent"
               /\ task[u].status \in TaskTerminal => task'[u] = task[u]
               /\ \A n \in AttemptNumbers(u) : at[u][n].outcome # "open"
                    => attempt'[u][n] = at[u][n]
    <2>1. RowInv(u, tk[u], at[u], run.generation)
      BY <1>0 DEF Closable
    <2>2. /\ RowInv(u, CancelTasks(tk)[u], CancelAttempts(at)[u], run'.generation)
          /\ CancelTasks(tk)[u].status \notin TaskOpen
          /\ CancelTasks(tk)[u].generation = tk[u].generation
          /\ CancelTasks(tk)[u].status = "absent" <=> tk[u].status = "absent"
          /\ tk[u].status \in TaskTerminal => CancelTasks(tk)[u] = tk[u]
      BY <1>0, <2>1, CloseRow
    <2>3. \A n \in AttemptNumbers(u) : at[u][n].outcome # "open"
                => CancelAttempts(at)[u][n] = at[u][n]
      BY DEF CancelAttempts
    <2> QED BY <1>0, <2>2, <2>3 DEF Closable
  <1>2. \A u \in Tasks : \A n \in AttemptNumbers(u) :
          attempt[u][n].outcome \notin {"absent", "open"} => attempt'[u][n] = attempt[u][n]
    BY <1>0, <1>1 DEF Closable
  <1>3. FinalStep
    BY <1>1, <1>2 DEF FinalStep
  <1>4. RowsOK' /\ LeasedWhileLive' /\ TerminalClosed'
    BY <1>1 DEF WaitsClosed, RowsOK, LeasedWhileLive, TerminalClosed, TaskOpen
  <1>5. GenerationGate'
    <2>1. /\ run.generation \in Nat
          /\ \A u \in Tasks : task[u].generation \in Nat
      BY DEF SafeInv, TypeOK, RunRow, TaskRow
    <2>2. run.generation <= run'.generation
      BY <2>1
    <2> QED BY <1>1, <2>1, <2>2 DEF SafeInv, GenerationGate
  <1>6. RunProjection'
    BY ProjectionKept DEF SafeInv, TypeOK
  <1>7. WaitResume'
    BY <1>1, WaitsKept, RowAssumption DEF SafeInv, WaitsClosed
  <1> QED BY <1>3, <1>4, <1>5, <1>6, <1>7 DEF SafeInv

\* The tables of a safe state.
LEMMA SafeTables ==
  ASSUME SafeInv
  PROVE  /\ run \in RunRow /\ run.generation \in Nat /\ run.status \in RunStatus
         /\ task \in [Tasks -> TaskRow]
         /\ AttemptType(attempt)
         /\ wait \in [Waits -> WaitStatus \cup {"absent"}]
         /\ \A t \in Tasks : /\ task[t] \in TaskRow
                             /\ attempt[t] \in [AttemptNumbers(t) -> AttemptRow]
                             /\ RowInv(t, task[t], attempt[t], run.generation)
  BY DEF SafeInv, TypeOK, RunRow, AttemptType, RowsOK

\* A step that takes the lease of t away and closes its attempt with outcome o
\* is safe.
LEMMA FinishStep ==
  ASSUME SafeInv, TypeOK', RunProjection', WaitResume', NEW t \in Tasks,
         task[t].status = "leased", run.status \in RunActive,
         run'.status \in RunActive \cup FinishStatuses,
         run'.generation = run.generation,
         NEW o \in AttemptOutcome \ {"open"}, attempt' = FinishAttempt(attempt, t, o),
         Dropped(task[t], task'[t]), task'[t].status \notin {"leased", "absent"},
         task'[t].status = "succeeded" <=> o = "succeeded",
         GenOK(task[t], task'[t], run.generation),
         \A u \in Tasks \ {t} : /\ Soft(task[u], task'[u])
                                /\ GenOK(task[u], task'[u], run.generation)
  PROVE  SafeInv' /\ FinalStep
  <1>1. /\ task[t] \in TaskRow /\ task'[t] \in TaskRow
        /\ AttemptType(attempt)
        /\ attempt[t] \in [AttemptNumbers(t) -> AttemptRow]
        /\ RowInv(t, task[t], attempt[t], run.generation)
    BY SafeTables DEF TypeOK
  <1>2. attempt'[t] = [n \in AttemptNumbers(t) |->
          IF n = task[t].attempt THEN [attempt[t][n] EXCEPT !.outcome = o] ELSE attempt[t][n]]
    BY <1>1 DEF FinishAttempt, AttemptType
  <1>3. RowInv(t, task'[t], attempt'[t], run.generation)
    BY <1>1, <1>2, FinishRow
  <1>4. \A u \in Tasks \ {t} : attempt'[u] = attempt[u]
    BY <1>1 DEF FinishAttempt, AttemptType
  <1>5. \A n \in AttemptNumbers(t) : attempt[t][n].outcome \notin {"absent", "open"}
            => attempt'[t][n] = attempt[t][n]
    BY <1>1, <1>2 DEF RowInv
  <1>6. task[t].status \notin TaskTerminal
    BY DEF TaskTerminal
  <1> QED BY <1>3, <1>4, <1>5, <1>6, OneTaskStep

\* Whoever passes the fences holds the lease of an active Run.
LEMMA FencedLease ==
  ASSUME NEW t, NEW k, NEW dbnow, FencesHold(t, k, dbnow)
  PROVE  task[t].status = "leased" /\ run.status \in RunActive
  BY DEF FencesHold

----------------------------------------------------------------------------
\* The transactions, one lemma each.

\* Every claimable Task is idle, so a claim gives it the next attempt.
LEMMA ClaimSafe ==
  ASSUME SafeInv, TypeOK', NEW w \in Workers, NEW t \in Tasks, ClaimTask(w, t)
  PROVE  SafeInv' /\ FinalStep
  <1>1. PICK dbnow \in DbNow : ClaimTask(w, t)!(dbnow)
    BY DEF ClaimTask
  <1>2. /\ task \in [Tasks -> TaskRow] /\ task[t] \in TaskRow /\ task'[t] \in TaskRow
        /\ AttemptType(attempt) /\ attempt[t] \in [AttemptNumbers(t) -> AttemptRow]
        /\ RowInv(t, task[t], attempt[t], run.generation)
        /\ run \in RunRow
    BY SafeTables DEF TypeOK
  <1>3. Moved("running")
    BY <1>1, <1>2, RunFields DEF Claimable, AcceptsTaskClaim, Moved, RunActive
  <1>4. RunProjection'
    BY <1>2, <1>3, ProjectionKept DEF SafeInv
  <1>5. /\ task[t].status \in {"queued", "retry_scheduled"}
        /\ task[t].attempt < MaxAttempts[t]
        /\ task[t].generation = run.generation
    BY <1>1 DEF Claimable
  <1>6. /\ task'[t].status = "leased"
        /\ task'[t].attempt = task[t].attempt + 1
        /\ task'[t].owner = w
        /\ task'[t].token = task[t].attempt + 1
        /\ task'[t].generation = task[t].generation
        /\ task'[t].expires # Never
        /\ \A u \in Tasks \ {t} : task'[u] = task[u]
    <2>1. dbnow + LeaseDuration # Never
      BY DbNowNat, RowAssumption DEF Never
    <2> QED BY <1>1, <1>2, <2>1 DEF TaskRow
  <1>7. /\ attempt'[t] = [attempt[t] EXCEPT ![task[t].attempt + 1] =
              [worker |-> w, generation |-> task[t].generation, outcome |-> "open"]]
        /\ \A u \in Tasks \ {t} : attempt'[u] = attempt[u]
    BY <1>1, <1>2 DEF AttemptType
  <1>8. RowInv(t, task'[t], attempt'[t], run.generation)
    BY <1>2, <1>5, <1>6, <1>7, ClaimRow
  <1>9. WaitResume'
    BY <1>1, <1>5, <1>6, WaitsKept, RowAssumption DEF SafeInv
  <1>10. \A n \in AttemptNumbers(t) : attempt[t][n].outcome \notin {"absent", "open"}
            => attempt'[t][n] = attempt[t][n]
    <2>1. task[t].attempt \in Nat
      BY <1>2 DEF TaskRow
    <2>2. \A n \in AttemptNumbers(t) : attempt[t][n].outcome # "absent" => n # task[t].attempt + 1
      BY <1>2, <2>1 DEF RowInv, AttemptNumbers
    <2> QED BY <1>2, <1>7, <2>2
  <1>11. \A u \in Tasks \ {t} : Soft(task[u], task'[u])
    BY <1>6 DEF Soft
  <1>12. \A u \in Tasks : GenOK(task[u], task'[u], run.generation)
    BY <1>5, <1>6 DEF GenOK
  <1>13. task[t].status \notin TaskTerminal
    BY <1>5 DEF TaskTerminal
  <1> QED BY <1>3, <1>4, <1>7, <1>8, <1>9, <1>10, <1>11, <1>12, <1>13, OneTaskStep DEF Moved

\* A renewal moves the expiry of the current lease only.
LEMMA RenewSafe ==
  ASSUME SafeInv, TypeOK', NEW t \in Tasks, NEW k, RenewTaskLease(t, k)
  PROVE  SafeInv' /\ FinalStep
  <1>1. PICK dbnow \in DbNow : RenewTaskLease(t, k)!(dbnow)
    BY DEF RenewTaskLease
  <1>2. /\ task \in [Tasks -> TaskRow] /\ task[t] \in TaskRow /\ task'[t] \in TaskRow
        /\ RowInv(t, task[t], attempt[t], run.generation)
        /\ task[t].status = "leased" /\ run.status \in RunActive
    BY <1>1, SafeTables, FencedLease DEF TypeOK
  <1>3. /\ task'[t].status = "leased"
        /\ task'[t].generation = task[t].generation
        /\ task'[t].attempt = task[t].attempt
        /\ task'[t].token = task[t].token
        /\ task'[t].owner = task[t].owner
        /\ \A u \in Tasks \ {t} : task'[u] = task[u]
    BY <1>1, <1>2 DEF TaskRow
  <1>4. task'[t].expires # Never
    <2>1. dbnow \in Nat /\ RenewBy \in Nat /\ task[t].expires \in OptTime
      BY <1>2, DbNowNat, RowAssumption DEF TaskRow
    <2>2. task'[t].expires = task[t].expires + RenewBy
      BY <1>1, <1>2 DEF TaskRow
    <2> QED BY <1>1, <2>1, <2>2 DEF FencesHold, OptTime, Never
  <1>5. RowInv(t, task'[t], attempt'[t], run.generation)
    BY <1>1, <1>2, <1>3, <1>4 DEF RowInv
  <1>6. WaitResume' /\ RunProjection'
    BY <1>1, <1>2, <1>3, WaitsKept, RowAssumption DEF SafeInv, RunProjection
  <1>7. \A u \in Tasks : GenOK(task[u], task'[u], run.generation)
    BY <1>2, <1>3 DEF GenOK
  <1>8. \A u \in Tasks \ {t} : Soft(task[u], task'[u])
    BY <1>3 DEF Soft
  <1>9. task[t].status \notin TaskTerminal
    BY <1>2 DEF TaskTerminal
  <1> QED BY <1>1, <1>2, <1>5, <1>6, <1>7, <1>8, <1>9, OneTaskStep

\* The fields of a row that loses its lease.
LEMMA UnleaseFields ==
  ASSUME NEW row \in TaskRow, NEW s
  PROVE  /\ Unlease(row, s).status = s
         /\ Unlease(row, s).generation = row.generation
         /\ Dropped(row, Unlease(row, s))
  BY DEF Unlease, Dropped, TaskRow

\* An expired lease is taken back and its attempt closed; the Run is neither
\* paused (a paused Run has no leases) nor terminal.
LEMMA ReclaimSafe ==
  ASSUME SafeInv, TypeOK', NEW t \in Tasks, ReclaimExpiredLease(t)
  PROVE  SafeInv' /\ FinalStep
  <1>1. PICK dbnow \in DbNow : ReclaimExpiredLease(t)!(dbnow)
    BY DEF ReclaimExpiredLease
  <1> DEFINE st == IF task[t].attempt >= MaxAttempts[t] THEN "dead_lettered" ELSE "retry_scheduled"
             rs == IF task[t].attempt >= MaxAttempts[t] THEN "waiting" ELSE "retrying"
  <1>2. /\ task \in [Tasks -> TaskRow] /\ task[t] \in TaskRow
        /\ task[t].status = "leased" /\ run \in RunRow
    BY <1>1, SafeTables
  <1>3. run.status \in RunActive
    <2>1. run.status \notin RunTerminal
      BY <1>1 DEF SafeInv, RunProjection
    <2> QED BY <1>2, <2>1, FinishAssumption DEF SafeInv, LeasedWhileLive
  <1>4. Moved(rs)
    <2>1. run' = Advance(run, rs)
      BY <1>1
    <2>2. rs \in RunActive
      BY DEF RunActive
    <2> HIDE DEF rs
    <2> QED BY <1>2, <1>3, <2>1, <2>2, RunFields DEF Moved
  <1>5. /\ task'[t].status = st
        /\ task'[t].generation = run.generation
        /\ Dropped(task[t], task'[t])
        /\ \A u \in Tasks \ {t} : task'[u] = task[u]
    <2>1. Unlease(task[t], st) \in TaskRow
      BY <1>2, UnleaseType DEF TaskStatus, TaskOpen, TaskTerminal
    <2>2. task'[t] = [Unlease(task[t], st) EXCEPT !.generation = run.generation,
                                                    !.available = dbnow]
      BY <1>1, <1>2
    <2> HIDE DEF st
    <2>3. /\ task'[t].status = Unlease(task[t], st).status
          /\ task'[t].generation = run.generation
          /\ task'[t].attempt = Unlease(task[t], st).attempt
          /\ task'[t].owner = Unlease(task[t], st).owner
          /\ task'[t].token = Unlease(task[t], st).token
          /\ task'[t].expires = Unlease(task[t], st).expires
      BY <2>1, <2>2 DEF TaskRow
    <2>4. \A u \in Tasks \ {t} : task'[u] = task[u]
      BY <1>1, <1>2
    <2> QED BY <1>2, <2>3, <2>4, UnleaseFields DEF Dropped
  <1>6. st \notin {"leased", "absent", "succeeded"}
    OBVIOUS
  <1>7. \A u \in Tasks \ {t} : Soft(task[u], task'[u]) /\ GenOK(task[u], task'[u], run.generation)
    BY <1>5 DEF Soft, GenOK
  <1>8. RunProjection'
    BY <1>2, <1>4, ProjectionKept DEF SafeInv
  <1>9. WaitResume'
    BY <1>1, <1>2, <1>5, <1>6, WaitsKept, RowAssumption DEF SafeInv
  <1>10. attempt' = FinishAttempt(attempt, t, "lease_expired")
    BY <1>1
  <1>11. GenOK(task[t], task'[t], run.generation)
    BY <1>5 DEF GenOK
  <1> HIDE DEF st, rs
  <1> QED BY <1>2, <1>3, <1>4, <1>5, <1>6, <1>7, <1>8, <1>9, <1>10, <1>11, FinishStep
          DEF Moved, AttemptOutcome

\* A retriable failure.
LEMMA FailRetrySafe ==
  ASSUME SafeInv, TypeOK', NEW t \in Tasks, NEW k, FailTaskRetry(t, k)
  PROVE  SafeInv' /\ FinalStep
  <1>1. PICK dbnow \in DbNow, d \in Delays : FailTaskRetry(t, k)!(dbnow, d)
    BY DEF FailTaskRetry
  <1>2. /\ task \in [Tasks -> TaskRow] /\ task[t] \in TaskRow
        /\ task[t].status = "leased" /\ run \in RunRow /\ run.status \in RunActive
    BY <1>1, SafeTables, FencedLease
  <1>3. Moved("retrying")
    BY <1>1, <1>2, RunFields DEF Moved, RunActive
  <1>4. /\ task'[t].status = "retry_scheduled"
        /\ task'[t].generation = task[t].generation
        /\ Dropped(task[t], task'[t])
        /\ \A u \in Tasks \ {t} : task'[u] = task[u]
    <2>1. task'[t] = [Unlease(task[t], "retry_scheduled") EXCEPT !.available = dbnow + d]
      BY <1>1, <1>2
    <2>2. Unlease(task[t], "retry_scheduled") \in TaskRow
      BY <1>2, UnleaseType DEF TaskStatus, TaskOpen
    <2>3. /\ task'[t].status = Unlease(task[t], "retry_scheduled").status
          /\ task'[t].generation = Unlease(task[t], "retry_scheduled").generation
          /\ task'[t].attempt = Unlease(task[t], "retry_scheduled").attempt
          /\ task'[t].owner = Unlease(task[t], "retry_scheduled").owner
          /\ task'[t].token = Unlease(task[t], "retry_scheduled").token
          /\ task'[t].expires = Unlease(task[t], "retry_scheduled").expires
      BY <2>1, <2>2 DEF TaskRow
    <2>4. \A u \in Tasks \ {t} : task'[u] = task[u]
      BY <1>1, <1>2
    <2> QED BY <1>2, <2>3, <2>4, UnleaseFields DEF Dropped
  <1>5. \A u \in Tasks \ {t} : Soft(task[u], task'[u]) /\ GenOK(task[u], task'[u], run.generation)
    BY <1>4 DEF Soft, GenOK
  <1>6. RunProjection'
    BY <1>2, <1>3, ProjectionKept DEF SafeInv
  <1>7. WaitResume'
    BY <1>1, <1>2, <1>4, WaitsKept, RowAssumption DEF SafeInv
  <1>8. GenOK(task[t], task'[t], run.generation)
    BY <1>2, <1>4 DEF GenOK, TaskOpen
  <1> QED BY <1>1, <1>2, <1>3, <1>4, <1>5, <1>6, <1>7, <1>8, FinishStep DEF Moved, AttemptOutcome

\* A finished row x of t, together with its resolved dependents, is what a
\* failing or completing worker leaves; the Run goes on or is finished.
LEMMA ResolvingStep ==
  ASSUME SafeInv, TypeOK', RunProjection', NEW t \in Tasks, NEW dbnow \in Nat,
         task[t].status = "leased", run.status \in RunActive,
         run'.status \in RunActive \cup FinishStatuses, run'.generation = run.generation,
         NEW x \in TaskRow, Dropped(task[t], x), x.generation = task[t].generation,
         NEW o \in {"succeeded", "failed"}, x.status \in {"succeeded", "failed", "dead_lettered"},
         x.status = "succeeded" <=> o = "succeeded",
         attempt' = FinishAttempt(attempt, t, o),
         NEW new \in SUBSET PlanTasks, \A u \in new : task[u].status = "absent",
         NEW st \in {"queued", "retry_scheduled"}, NEW av,
         task' = InsertTasks(ResolveDependents([task EXCEPT ![t] = x], {t}, dbnow), new, st, av),
         \A w \in Waits : wait'[w] = "consumed" <=> wait[w] = "consumed"
  PROVE  SafeInv' /\ FinalStep
  <1> DEFINE done == [task EXCEPT ![t] = x]
             res == ResolveDependents(done, {t}, dbnow)
  <1>1. /\ task \in [Tasks -> TaskRow]
        /\ \A u \in Tasks : /\ task[u] \in TaskRow
                            /\ RowInv(u, task[u], attempt[u], run.generation)
    BY SafeTables
  <1>2. /\ res[t] = x
        /\ \A u \in Tasks \ {t} : Soft(task[u], res[u]) /\ GenOK(task[u], res[u], run.generation)
        /\ \A u \in Tasks : res[u].status = "absent" <=> task[u].status = "absent"
    <2>1. done \in [Tasks -> TaskRow] /\ done[t] = x /\ \A u \in Tasks \ {t} : done[u] = task[u]
      BY <1>1
    <2> HIDE DEF done
    <2>2. \A u \in Tasks : Resolves(done[u], res[u])
      BY <2>1, ResolveRow
    <2> HIDE DEF res
    <2>3. res[t] = x
      BY <2>1, <2>2, ResolvesSoft
    <2>4. ASSUME NEW u \in Tasks \ {t}
          PROVE  /\ Soft(task[u], res[u]) /\ GenOK(task[u], res[u], run.generation)
                 /\ res[u].status = "absent" <=> task[u].status = "absent"
      <3>1. Resolves(task[u], res[u])
        BY <2>1, <2>2
      <3> QED BY <3>1, ResolvesSoft
    <2> QED BY <2>3, <2>4
  <1>3. \A u \in Tasks : task'[u] = IF u \in new THEN NewTask(st, run.generation, av) ELSE res[u]
    BY DEF InsertTasks
  <1> HIDE DEF res
  <1>4. task'[t] = x /\ t \notin new
    BY <1>2, <1>3
  <1>5. ASSUME NEW u \in Tasks \ {t}
        PROVE  Soft(task[u], task'[u]) /\ GenOK(task[u], task'[u], run.generation)
    <2>1. CASE u \in new
      <3>1. task'[u] = NewTask(st, run.generation, av) /\ task[u].status = "absent"
        BY <1>3, <2>1
      <3>2. task[u].attempt = 0 /\ task[u].owner = NoWorker /\ task[u].token = 0
            /\ task[u].expires = Never
        BY <1>1, <3>1 DEF RowInv
      <3>3. /\ task'[u].status = st /\ task'[u].generation = run.generation
            /\ task'[u].attempt = 0 /\ task'[u].owner = NoWorker /\ task'[u].token = 0
            /\ task'[u].expires = Never
        BY <3>1 DEF NewTask
      <3> QED BY <3>1, <3>2, <3>3 DEF Soft, GenOK, IdleStatus
    <2>2. CASE u \notin new
      BY <1>2, <1>3, <2>2
    <2> QED BY <2>1, <2>2
  <1>6. WaitResume'
    <2>1. \A w \in Waits : ResumeTask[w] \in Tasks /\ ResumeTask[w] \notin new
      BY RowAssumption, TaskSourceAssumption
    <2>2. ASSUME NEW w \in Waits
          PROVE  task'[ResumeTask[w]].status = "absent" <=> task[ResumeTask[w]].status = "absent"
      <3>1. task'[ResumeTask[w]] = res[ResumeTask[w]]
        BY <1>3, <2>1
      <3> QED BY <1>2, <2>1, <3>1
    <2> QED BY <2>2, WaitsKept DEF SafeInv
  <1>7. GenOK(task[t], task'[t], run.generation)
    BY <1>4 DEF GenOK, TaskOpen
  <1> QED BY <1>4, <1>5, <1>6, <1>7, FinishStep DEF AttemptOutcome

\* The same step when nothing is inserted.
LEMMA ResolvingOnlyStep ==
  ASSUME SafeInv, TypeOK', RunProjection', NEW t \in Tasks, NEW dbnow \in Nat,
         task[t].status = "leased", run.status \in RunActive,
         run'.status \in RunActive \cup FinishStatuses, run'.generation = run.generation,
         NEW x \in TaskRow, Dropped(task[t], x), x.generation = task[t].generation,
         NEW o \in {"succeeded", "failed"}, x.status \in {"succeeded", "failed", "dead_lettered"},
         x.status = "succeeded" <=> o = "succeeded",
         attempt' = FinishAttempt(attempt, t, o),
         task' = ResolveDependents([task EXCEPT ![t] = x], {t}, dbnow),
         \A w \in Waits : wait'[w] = "consumed" <=> wait[w] = "consumed"
  PROVE  SafeInv' /\ FinalStep
  <1>1. task' = InsertTasks(task', {}, "queued", 0)
    BY DEF InsertTasks, TypeOK
  <1>2. task' = InsertTasks(ResolveDependents([task EXCEPT ![t] = x], {t}, dbnow), {}, "queued", 0)
    BY <1>1
  <1>3. {} \in SUBSET PlanTasks /\ \A u \in {} : task[u].status = "absent"
    OBVIOUS
  <1> QED BY <1>2, <1>3, ResolvingStep

\* The last failure of a Task with no attempts left.
LEMMA FailDeadLetterSafe ==
  ASSUME SafeInv, TypeOK', NEW t \in Tasks, NEW k, FailTaskDeadLetter(t, k)
  PROVE  SafeInv' /\ FinalStep
  <1>1. PICK dbnow \in DbNow : FailTaskDeadLetter(t, k)!(dbnow)
    BY DEF FailTaskDeadLetter
  <1> DEFINE x == Unlease(task[t], "dead_lettered")
             rs == IF Activated([task EXCEPT ![t] = x], {t}) # {} THEN "queued" ELSE "waiting"
  <1>2. /\ task \in [Tasks -> TaskRow] /\ task[t] \in TaskRow
        /\ task[t].status = "leased" /\ run \in RunRow /\ run.status \in RunActive
        /\ dbnow \in Nat
    BY <1>1, SafeTables, FencedLease, DbNowNat
  <1>3. Moved(rs)
    <2>1. run' = Advance(run, rs)
      BY <1>1
    <2>2. rs \in RunActive
      BY DEF RunActive
    <2> HIDE DEF rs
    <2> QED BY <1>2, <2>1, <2>2, RunFields DEF Moved
  <1>4. RunProjection'
    BY <1>2, <1>3, ProjectionKept DEF SafeInv
  <1>5. /\ x \in TaskRow /\ x.status = "dead_lettered" /\ Dropped(task[t], x)
        /\ x.generation = task[t].generation
    BY <1>2, UnleaseType, UnleaseFields DEF TaskStatus, TaskTerminal
  <1>6. /\ task' = ResolveDependents([task EXCEPT ![t] = x], {t}, dbnow)
        /\ attempt' = FinishAttempt(attempt, t, "failed")
        /\ wait' = wait
    BY <1>1
  <1>7. run'.status \in RunActive /\ run'.generation = run.generation
    BY <1>3 DEF Moved
  <1> HIDE DEF x, rs
  <1> QED BY <1>2, <1>4, <1>5, <1>6, <1>7, ResolvingOnlyStep

\* The Task table of a Run whose Task t failed for good, before the Run is closed.
FailedTasks(t, dbnow) ==
  ResolveDependents([task EXCEPT ![t] = Unlease(@, "failed")], {t}, dbnow)

\* Every Task of such a Run can be closed.
LEMMA FailedRows ==
  ASSUME SafeInv, NEW t \in Tasks, task[t].status = "leased", NEW dbnow \in Nat,
         NEW u \in Tasks
  PROVE  Closable(u, FailedTasks(t, dbnow)[u], FinishAttempt(attempt, t, "failed")[u])
  <1> DEFINE x == Unlease(task[t], "failed")
             tk == FailedTasks(t, dbnow)
             at == FinishAttempt(attempt, t, "failed")
             done == [task EXCEPT ![t] = x]
  <1>1. /\ task \in [Tasks -> TaskRow] /\ task[t] \in TaskRow /\ task[u] \in TaskRow
        /\ AttemptType(attempt)
        /\ attempt[t] \in [AttemptNumbers(t) -> AttemptRow]
        /\ RowInv(t, task[t], attempt[t], run.generation)
        /\ RowInv(u, task[u], attempt[u], run.generation)
    BY SafeTables
  <1>2. /\ x \in TaskRow /\ x.status = "failed" /\ Dropped(task[t], x)
        /\ x.generation = task[t].generation
    BY <1>1, UnleaseType, UnleaseFields DEF TaskStatus, TaskTerminal
  <1>3. done \in [Tasks -> TaskRow] /\ done[t] = x /\ (u # t => done[u] = task[u])
    BY <1>1, <1>2
  <1>4. Resolves(done[u], tk[u]) /\ tk \in [Tasks -> TaskRow]
    <2>1. tk = ResolveDependents(done, {t}, dbnow)
      BY DEF FailedTasks
    <2> HIDE DEF done
    <2>2. Resolves(done[u], ResolveDependents(done, {t}, dbnow)[u])
      BY <1>3, ResolveRow
    <2>3. ResolveDependents(done, {t}, dbnow) \in [Tasks -> TaskRow]
      BY <1>3, ResolveType
    <2> QED BY <2>1, <2>2, <2>3
  <1> SUFFICES Closable(u, tk[u], at[u])
    OBVIOUS
  <1> HIDE DEF done, x, tk
  <1>5. CASE u = t
    <2>1. tk[t] = x
      BY <1>2, <1>3, <1>4, <1>5, ResolvesSoft
    <2>2. at[t] = [n \in AttemptNumbers(t) |->
            IF n = task[t].attempt THEN [attempt[t][n] EXCEPT !.outcome = "failed"] ELSE attempt[t][n]]
      BY <1>1 DEF FinishAttempt, AttemptType
    <2>3. RowInv(t, x, at[t], run.generation)
      <3>1. /\ "failed" \in AttemptOutcome \ {"open"} /\ x.status \notin {"leased", "absent"}
            /\ x.status = "succeeded" <=> "failed" = "succeeded"
        BY <1>2 DEF AttemptOutcome
      <3> QED BY <1>1, <1>2, <2>2, <3>1, FinishRow
    <2>4. \A n \in AttemptNumbers(t) :
            attempt[t][n].outcome \notin {"absent", "open"} => at[t][n] = attempt[t][n]
      BY <1>1, <2>2 DEF RowInv
    <2> HIDE DEF at
    <2> QED BY <1>2, <1>5, <2>1, <2>3, <2>4 DEF TaskTerminal, Closable
  <1>6. CASE u # t
    <2>1. Resolves(task[u], tk[u])
      BY <1>3, <1>4, <1>6
    <2>2. /\ Soft(task[u], tk[u])
          /\ tk[u].status = "absent" <=> task[u].status = "absent"
          /\ task[u].status # "scheduled" => tk[u] = task[u]
      BY <2>1, ResolvesSoft
    <2>3. at[u] = attempt[u]
      BY <1>1, <1>6 DEF FinishAttempt, AttemptType
    <2>4. RowInv(u, tk[u], at[u], run.generation)
      BY <1>1, <1>4, <2>2, <2>3, SoftRow
    <2>5. tk[u].generation = task[u].generation
      BY <2>1 DEF Resolves
    <2> QED BY <2>2, <2>3, <2>4, <2>5 DEF TaskTerminal, Closable
  <1> QED BY <1>5, <1>6

\* A failure that is not retried: a fallback runs, or the Run is closed.
LEMMA FailFatalSafe ==
  ASSUME SafeInv, TypeOK', NEW t \in Tasks, NEW k, FailTaskFatal(t, k)
  PROVE  SafeInv' /\ FinalStep
  <1>1. PICK dbnow \in DbNow : FailTaskFatal(t, k)!(dbnow)
    BY DEF FailTaskFatal
  <1> DEFINE x == Unlease(task[t], "failed")
             failed == [task EXCEPT ![t] = x]
             tk == ResolveDependents(failed, {t}, dbnow)
             at == FinishAttempt(attempt, t, "failed")
             handled == Activated(failed, {t}) # {}
  <1>2. /\ task \in [Tasks -> TaskRow] /\ task[t] \in TaskRow
        /\ AttemptType(attempt)
        /\ task[t].status = "leased" /\ run \in RunRow /\ run.status \in RunActive
        /\ dbnow \in Nat /\ wait \in [Waits -> WaitStatus \cup {"absent"}]
    BY <1>1, SafeTables, FencedLease, DbNowNat
  <1>3. /\ x \in TaskRow /\ x.status = "failed" /\ Dropped(task[t], x)
        /\ x.generation = task[t].generation
    BY <1>2, UnleaseType, UnleaseFields DEF TaskStatus, TaskTerminal
  <1>4. CASE handled
    <2>1. /\ task' = tk /\ attempt' = at /\ wait' = wait /\ run' = Advance(run, "queued")
      BY <1>1, <1>4
    <2>2. Moved("queued")
      BY <1>2, <2>1, RunFields DEF Moved, RunActive
    <2>3. RunProjection' /\ run'.status \in RunActive /\ run'.generation = run.generation
      BY <1>2, <2>2, ProjectionKept DEF SafeInv, Moved
    <2> HIDE DEF x
    <2> QED BY <1>2, <1>3, <2>1, <2>3, ResolvingOnlyStep
  <1>5. CASE ~handled
    <2>1. /\ task' = CancelTasks(tk) /\ attempt' = CancelAttempts(at)
          /\ wait' = CancelWaits(wait) /\ run' = Finish(run, "failed")
      BY <1>1, <1>5
    <2>2. Closed /\ run'.generation = run.generation
      BY <1>2, <2>1, RunFields DEF Closed, RunActive, RunTerminal
    <2>3. \A u \in Tasks : Closable(u, tk[u], at[u])
      <3>1. tk = FailedTasks(t, dbnow)
        BY DEF FailedTasks
      <3> HIDE DEF tk
      <3> QED BY <1>2, <3>1, FailedRows
    <2>4. tk \in [Tasks -> TaskRow]
      <3>1. failed \in [Tasks -> TaskRow]
        BY <1>2, <1>3
      <3> HIDE DEF failed
      <3> QED BY <1>2, <3>1, ResolveType
    <2>5. AttemptType(at)
      BY <1>2, FinishAttemptType DEF AttemptOutcome
    <2>6. WaitsClosed
      BY <2>1 DEF CancelWaits, WaitsClosed
    <2> HIDE DEF tk, at
    <2>7. ClosableTables(tk, at)
      BY <2>3, <2>4, <2>5 DEF ClosableTables
    <2> QED BY <2>1, <2>2, <2>6, <2>7, CloseStep
  <1> QED BY <1>4, <1>5

----------------------------------------------------------------------------
\* Completions.

\* The row of a completed Task.
Succeeded(row, result) == [Unlease(row, "succeeded") EXCEPT !.result = result]

\* It has lost its lease and kept its generation.
LEMMA CompletedRow ==
  ASSUME NEW row \in TaskRow, NEW result \in Results
  PROVE  /\ Succeeded(row, result) \in TaskRow
         /\ Succeeded(row, result).status = "succeeded"
         /\ Dropped(row, Succeeded(row, result))
         /\ Succeeded(row, result).generation = row.generation
  <1> DEFINE x == Succeeded(row, result)
  <1>1. Unlease(row, "succeeded") \in TaskRow
    BY UnleaseType DEF TaskStatus, TaskTerminal
  <1>2. x \in TaskRow
    BY <1>1 DEF TaskRow, Succeeded
  <1>3. /\ x.status = Unlease(row, "succeeded").status
        /\ x.generation = Unlease(row, "succeeded").generation
        /\ x.attempt = Unlease(row, "succeeded").attempt
        /\ x.owner = Unlease(row, "succeeded").owner
        /\ x.token = Unlease(row, "succeeded").token
        /\ x.expires = Unlease(row, "succeeded").expires
    BY <1>1 DEF TaskRow, Succeeded
  <1> QED BY <1>2, <1>3, UnleaseFields DEF Dropped

\* A completion that inserts Tasks with status st is safe.
LEMMA InsertingCompletion ==
  ASSUME SafeInv, TypeOK', NEW t \in Tasks, NEW k, NEW dbnow \in DbNow,
         Completion(t, k, dbnow), NEW result \in Results,
         NEW rs \in RunActive, run' = Checkpointed(Advance(run, rs)),
         NEW new \in SUBSET PlanTasks, \A u \in new : task[u].status = "absent",
         NEW st \in {"queued", "retry_scheduled"}, NEW av,
         task' = InsertTasks(CompletedTasks(t, result, dbnow), new, st, av), wait' = wait
  PROVE  SafeInv' /\ FinalStep
  <1> DEFINE x == Succeeded(task[t], result)
  <1>1. /\ task \in [Tasks -> TaskRow] /\ task[t] \in TaskRow /\ dbnow \in Nat
        /\ task[t].status = "leased" /\ run \in RunRow /\ run.status \in RunActive
        /\ attempt' = FinishAttempt(attempt, t, "succeeded")
    BY SafeTables, FencedLease, DbNowNat DEF Completion
  <1>2. Advance(run, rs) \in RunRow
    BY <1>1, AdvanceType DEF RunStatus
  <1>3. Moved(rs)
    BY <1>1, <1>2, RunFields, CheckpointedFields DEF Moved
  <1>4. RunProjection' /\ run'.status \in RunActive /\ run'.generation = run.generation
    BY <1>1, <1>3, ProjectionKept DEF SafeInv, Moved
  <1>5. /\ x \in TaskRow /\ x.status = "succeeded" /\ Dropped(task[t], x)
        /\ x.generation = task[t].generation
    BY <1>1, CompletedRow
  <1>6. task' = InsertTasks(ResolveDependents([task EXCEPT ![t] = x], {t}, dbnow), new, st, av)
    BY DEF CompletedTasks, Succeeded
  <1> HIDE DEF x
  <1> QED BY <1>1, <1>4, <1>5, <1>6, ResolvingStep

\* A completion that inserts no Task is safe, whether the Run goes on or is
\* finished.
LEMMA PlainCompletion ==
  ASSUME SafeInv, TypeOK', NEW t \in Tasks, NEW k, NEW dbnow \in DbNow,
         Completion(t, k, dbnow), NEW result \in Results, RunProjection',
         run'.status \in RunActive \cup FinishStatuses, run'.generation = run.generation,
         task' = CompletedTasks(t, result, dbnow),
         \A w \in Waits : wait'[w] = "consumed" <=> wait[w] = "consumed"
  PROVE  SafeInv' /\ FinalStep
  <1> DEFINE x == Succeeded(task[t], result)
  <1>1. /\ task \in [Tasks -> TaskRow] /\ task[t] \in TaskRow /\ dbnow \in Nat
        /\ task[t].status = "leased" /\ run \in RunRow /\ run.status \in RunActive
        /\ attempt' = FinishAttempt(attempt, t, "succeeded")
    BY SafeTables, FencedLease, DbNowNat DEF Completion
  <1>2. /\ x \in TaskRow /\ x.status = "succeeded" /\ Dropped(task[t], x)
        /\ x.generation = task[t].generation
    BY <1>1, CompletedRow
  <1>3. task' = ResolveDependents([task EXCEPT ![t] = x], {t}, dbnow)
    BY DEF CompletedTasks, Succeeded
  <1> HIDE DEF x
  <1> QED BY <1>1, <1>2, <1>3, ResolvingOnlyStep

\* The five completions.
LEMMA CompletionSafe ==
  ASSUME SafeInv, TypeOK', NEW t \in Tasks, NEW k,
         \/ CompleteWithTasks(t, k) \/ CompleteWithRetry(t, k) \/ CompleteWithWait(t, k)
         \/ CompleteAndFinish(t, k) \/ CompleteNoFurtherWork(t, k)
  PROVE  SafeInv' /\ FinalStep
  <1>0. run \in RunRow
    BY SafeTables
  <1>1. CASE CompleteWithTasks(t, k)
    <2>1. PICK dbnow \in DbNow, result \in Results, new \in SUBSET PlanTasks \ {{}},
               d \in Delays : CompleteWithTasks(t, k)!(dbnow, result, new, d)
      BY <1>1 DEF CompleteWithTasks
    <2>2. \A u \in new : task[u].status = "absent"
      BY <2>1 DEF Insertable
    <2> QED BY <2>1, <2>2, InsertingCompletion DEF RunActive
  <1>2. CASE CompleteWithRetry(t, k)
    <2>1. PICK dbnow \in DbNow, result \in Results, x \in PlanTasks, d \in Delays :
            CompleteWithRetry(t, k)!(dbnow, result, x, d)
      BY <1>2 DEF CompleteWithRetry
    <2>2. {x} \in SUBSET PlanTasks /\ \A u \in {x} : task[u].status = "absent"
      BY <2>1 DEF Insertable
    <2> QED BY <2>1, <2>2, InsertingCompletion DEF RunActive
  <1>3. ASSUME NEW dbnow, Completion(t, k, dbnow), NEW s \in RunActive,
               run' = Checkpointed(Advance(run, s))
        PROVE  RunProjection' /\ run'.status \in RunActive /\ run'.generation = run.generation
    <2>1. Advance(run, s) \in RunRow /\ run.status \in RunActive
      BY <1>0, <1>3, AdvanceType, FencedLease DEF RunStatus, Completion
    <2>2. Moved(s)
      BY <1>0, <1>3, <2>1, RunFields, CheckpointedFields DEF Moved
    <2> QED BY <1>0, <2>2, ProjectionKept DEF SafeInv, Moved
  <1>4. CASE CompleteWithWait(t, k)
    <2>1. PICK dbnow \in DbNow, result \in Results, w \in Waits :
            CompleteWithWait(t, k)!(dbnow, result, w)
      BY <1>4 DEF CompleteWithWait
    <2>2. RunProjection' /\ run'.status \in RunActive /\ run'.generation = run.generation
      BY <1>3, <2>1 DEF RunActive
    <2>3. \A v \in Waits : wait'[v] = "consumed" <=> wait[v] = "consumed"
      BY <2>1, SafeTables
    <2> QED BY <2>1, <2>2, <2>3, PlainCompletion
  <1>5. CASE CompleteAndFinish(t, k)
    <2>1. PICK dbnow \in DbNow, result \in Results, status \in FinishStatuses :
            CompleteAndFinish(t, k)!(dbnow, result, status)
      BY <1>5 DEF CompleteAndFinish
    <2>2. /\ Finish(run, status) \in RunRow /\ status \in RunTerminal
          /\ run.status \in RunActive
      BY <1>0, <2>1, FinishType, FinishAssumption, FencedLease DEF Completion
    <2>3. Closed /\ run'.status = status /\ run'.generation = run.generation
      BY <1>0, <2>1, <2>2, RunFields, CheckpointedFields DEF Closed, RunActive, RunTerminal
    <2>4. RunProjection'
      BY <1>0, <2>3, ProjectionKept DEF SafeInv
    <2> QED BY <2>1, <2>3, <2>4, PlainCompletion
  <1>6. CASE CompleteNoFurtherWork(t, k)
    <2>1. PICK dbnow \in DbNow, result \in Results :
            CompleteNoFurtherWork(t, k)!(dbnow, result)
      BY <1>6 DEF CompleteNoFurtherWork
    <2>2. RunProjection' /\ run'.status \in RunActive /\ run'.generation = run.generation
      BY <1>3, <2>1 DEF RunActive
    <2> QED BY <2>1, <2>2, PlainCompletion
  <1> QED BY <1>1, <1>2, <1>4, <1>5, <1>6

----------------------------------------------------------------------------
\* Events, plans, child Runs.

\* A Run row that only gains an Event.
LEMMA KeptRun ==
  ASSUME run \in RunRow, run.status \notin RunTerminal, NEW r \in RunRow,
         r = Advance(run, run.status),
         run'.status = r.status, run'.generation = r.generation,
         run'.terminal_seq = r.terminal_seq, run'.suspended_from = r.suspended_from,
         run'.next_seq = r.next_seq
  PROVE  Kept
  BY RunFields DEF Kept

\* A matched event consumes the Wait and inserts its resume Task, which did not
\* exist before.
LEMMA ApplyEventSafe ==
  ASSUME SafeInv, TypeOK', NEW key, ApplyEvent(key)
  PROVE  SafeInv' /\ FinalStep
  <1>1. PICK dbnow \in DbNow, w \in Waits : ApplyEvent(key)!(dbnow, w)
    BY DEF ApplyEvent
  <1> DEFINE r == ResumeTask[w]
             rs == IF run.status = "paused" THEN "paused"
                   ELSE IF \E t \in Tasks : task[t].status = "leased" THEN "running"
                   ELSE "queued"
             st == IF run.status = "paused" THEN "scheduled" ELSE "queued"
  <1>2. /\ task \in [Tasks -> TaskRow] /\ run \in RunRow /\ run.status \in RunStatus
        /\ wait \in [Waits -> WaitStatus \cup {"absent"}]
        /\ \A u \in Tasks : RowInv(u, task[u], attempt[u], run.generation)
        /\ r \in Tasks /\ wait[w] = "open"
    BY <1>1, SafeTables, RowAssumption
  <1>3. task[r].status = "absent"
    BY <1>2 DEF SafeInv, WaitResume
  <1>4. task[r].attempt = 0 /\ task[r].owner = NoWorker /\ task[r].token = 0
        /\ task[r].expires = Never
    BY <1>2, <1>3 DEF RowInv
  <1>5. /\ task'[r] = NewTask(st, run.generation, dbnow)
        /\ \A u \in Tasks \ {r} : task'[u] = task[u]
    BY <1>1, <1>2
  <1>6. st \in {"scheduled", "queued"}
    OBVIOUS
  <1>7. Moved(rs) \/ Kept
    <2>1. run' = Advance(run, rs)
      BY <1>1
    <2>2. run.status = "paused" => rs = run.status
      OBVIOUS
    <2>3. run.status # "paused" => run.status \in RunActive /\ rs \in RunActive
      BY <1>1, <1>2 DEF RunStatus, RunActive
    <2> HIDE DEF rs
    <2> QED BY <1>1, <1>2, <2>1, <2>2, <2>3, RunFields DEF Moved, Kept
  <1> HIDE DEF st, rs
  <1>8. /\ task'[r].status = st /\ task'[r].generation = run.generation
        /\ task'[r].attempt = 0 /\ task'[r].owner = NoWorker /\ task'[r].token = 0
        /\ task'[r].expires = Never
    BY <1>5 DEF NewTask
  <1>9. \A u \in Tasks : Soft(task[u], task'[u]) /\ GenOK(task[u], task'[u], run.generation)
    BY <1>3, <1>4, <1>5, <1>6, <1>8 DEF Soft, GenOK, IdleStatus
  <1>10. WaitResume'
    <2>1. wait'[w] = "consumed" /\ \A v \in Waits \ {w} : wait'[v] = wait[v]
      BY <1>1, <1>2 DEF ConsumeWait
    <2>2. \A v \in Waits \ {w} : ResumeTask[v] \in Tasks \ {r}
      BY RowAssumption, TaskSourceAssumption
    <2>3. task'[ResumeTask[w]].status # "absent"
      BY <1>6, <1>8
    <2> HIDE DEF r
    <2> QED BY <1>5, <2>1, <2>2, <2>3 DEF SafeInv, WaitResume
  <1> QED BY <1>1, <1>7, <1>9, <1>10, SoftStep

\* A plan revision inserts Tasks in the current generation and resolves them.
LEMMA RevisePlanSafe ==
  ASSUME SafeInv, TypeOK', RevisePlan
  PROVE  SafeInv' /\ FinalStep
  <1>1. PICK dbnow \in DbNow, new \in SUBSET RevisionTasks : RevisePlan!(dbnow, new)
    BY DEF RevisePlan
  <1> DEFINE inserted == [t \in Tasks |->
               IF t \in new THEN NewTask(InsertedStatus(t), run.generation, dbnow) ELSE task[t]]
             starts == UNION {Prereq[x] : x \in new}
  <1>2. /\ task \in [Tasks -> TaskRow] /\ run \in RunRow /\ run.generation \in Nat
        /\ run.status \in RunStatus /\ dbnow \in Nat
        /\ \A u \in Tasks : task[u] \in TaskRow /\ RowInv(u, task[u], attempt[u], run.generation)
    BY SafeTables, DbNowNat
  <1>3. Kept
    <2>1. Advance(run, run.status) \in RunRow
      BY <1>2, AdvanceType
    <2>2. run' = [Advance(run, run.status) EXCEPT !.plan = @ + 1]
      BY <1>1
    <2>3. /\ run'.status = Advance(run, run.status).status
          /\ run'.generation = Advance(run, run.status).generation
          /\ run'.terminal_seq = Advance(run, run.status).terminal_seq
          /\ run'.suspended_from = Advance(run, run.status).suspended_from
          /\ run'.next_seq = Advance(run, run.status).next_seq
      BY <2>1, <2>2 DEF RunRow
    <2> QED BY <1>1, <1>2, <2>1, <2>3, KeptRun
  <1>4. inserted \in [Tasks -> TaskRow]
    BY <1>2, NewTaskType DEF InsertedStatus, TaskStatus, TaskOpen
  <1>5. \A u \in Tasks : inserted[u] =
          IF u \in new THEN NewTask(InsertedStatus(u), run.generation, dbnow) ELSE task[u]
    OBVIOUS
  <1>6. \A u \in Tasks : Resolves(inserted[u], task'[u])
    <2>1. task' = ResolveDependents(inserted, starts, dbnow)
      BY <1>1
    <2> HIDE DEF inserted, starts
    <2> QED BY <1>2, <1>4, <2>1, ResolveRow
  <1>7. \A u \in new : task[u].status = "absent"
    BY <1>1
  <1> HIDE DEF inserted, starts
  <1>8. ASSUME NEW u \in Tasks
        PROVE  /\ Soft(task[u], task'[u]) /\ GenOK(task[u], task'[u], run.generation)
               /\ u \notin new => (task'[u].status = "absent" <=> task[u].status = "absent")
    <2>1. CASE u \in new
      <3>1. /\ inserted[u].status \in {"queued", "scheduled"}
            /\ inserted[u].generation = run.generation
            /\ inserted[u].attempt = 0 /\ inserted[u].owner = NoWorker
            /\ inserted[u].token = 0 /\ inserted[u].expires = Never
        <4>1. inserted[u] = NewTask(InsertedStatus(u), run.generation, dbnow)
          BY <1>5, <2>1
        <4>2. InsertedStatus(u) \in {"queued", "scheduled"}
          BY DEF InsertedStatus
        <4> QED BY <4>1, <4>2 DEF NewTask
      <3>2. /\ task[u].status = "absent" /\ task[u].attempt = 0 /\ task[u].owner = NoWorker
            /\ task[u].token = 0 /\ task[u].expires = Never
        BY <1>2, <1>7, <2>1 DEF RowInv
      <3>3. Resolves(inserted[u], task'[u])
        BY <1>6
      <3>4. /\ task'[u].status \in {"queued", "scheduled", "skipped"}
            /\ task'[u].generation = run.generation
            /\ task'[u].attempt = 0 /\ task'[u].owner = NoWorker
            /\ task'[u].token = 0 /\ task'[u].expires = Never
        BY <3>1, <3>3 DEF Resolves
      <3> QED BY <2>1, <3>2, <3>4 DEF Soft, GenOK, IdleStatus
    <2>2. CASE u \notin new
      <3>1. Resolves(task[u], task'[u])
        BY <1>5, <1>6, <2>2
      <3> QED BY <3>1, ResolvesSoft
    <2> QED BY <2>1, <2>2
  <1>9. WaitResume'
    <2>1. \A w \in Waits : ResumeTask[w] \in Tasks /\ ResumeTask[w] \notin new
      BY RowAssumption, TaskSourceAssumption
    <2> QED BY <1>1, <1>8, <2>1, WaitsKept DEF SafeInv
  <1>10. attempt' = attempt
    BY <1>1
  <1> QED BY <1>3, <1>8, <1>9, <1>10, SoftStep

\* A context patch touches the Run row only.
LEMMA ContextPatchSafe ==
  ASSUME SafeInv, TypeOK', ApplyContextPatch
  PROVE  SafeInv' /\ FinalStep
  <1>1. run \in RunRow /\ run.status \in RunStatus
    BY SafeTables
  <1>2. Advance(run, run.status) \in RunRow
    BY <1>1, AdvanceType
  <1>3. /\ run'.status = Advance(run, run.status).status
        /\ run'.generation = Advance(run, run.status).generation
        /\ run'.terminal_seq = Advance(run, run.status).terminal_seq
        /\ run'.suspended_from = Advance(run, run.status).suspended_from
        /\ run'.next_seq = Advance(run, run.status).next_seq
    BY <1>2 DEF ApplyContextPatch, RunRow
  <1>4. Kept
    BY <1>1, <1>2, <1>3, KeptRun DEF ApplyContextPatch
  <1>5. \A u \in Tasks : Soft(task[u], task'[u]) /\ GenOK(task[u], task'[u], run.generation)
    BY DEF ApplyContextPatch, Soft, GenOK
  <1>6. WaitResume' /\ attempt' = attempt
    BY DEF ApplyContextPatch, SafeInv, WaitResume
  <1> QED BY <1>4, <1>5, <1>6, SoftStep

\* Creating a child Run puts its fan-in Task back to "scheduled".
LEMMA CreateChildSafe ==
  ASSUME SafeInv, TypeOK', NEW t \in Tasks, CreateChildRun(t)
  PROVE  SafeInv' /\ FinalStep
  <1>1. /\ task \in [Tasks -> TaskRow] /\ task[t] \in TaskRow
        /\ RowInv(t, task[t], attempt[t], run.generation)
        /\ run \in RunRow /\ run.status \in RunStatus
        /\ task[t].status \in {"queued", "retry_scheduled", "scheduled"}
    BY SafeTables DEF CreateChildRun
  <1>2. Kept
    BY <1>1, RunFields DEF CreateChildRun, Kept
  <1>3. /\ task'[t] = Unlease(task[t], "scheduled")
        /\ \A u \in Tasks \ {t} : task'[u] = task[u]
    BY <1>1 DEF CreateChildRun
  <1>4. /\ task'[t].status = "scheduled" /\ task'[t].generation = task[t].generation
        /\ Dropped(task[t], task'[t])
    BY <1>1, <1>3, UnleaseFields
  <1>5. Soft(task[t], task'[t]) /\ GenOK(task[t], task'[t], run.generation)
    BY <1>1, <1>4 DEF RowInv, Dropped, Soft, GenOK, IdleStatus, TaskOpen
  <1>6. \A u \in Tasks : Soft(task[u], task'[u]) /\ GenOK(task[u], task'[u], run.generation)
    BY <1>3, <1>5 DEF Soft, GenOK
  <1>7. WaitResume'
    BY <1>1, <1>3, <1>4, WaitsKept, RowAssumption DEF SafeInv, CreateChildRun
  <1>8. attempt' = attempt
    BY DEF CreateChildRun
  <1> QED BY <1>2, <1>6, <1>7, <1>8, SoftStep

\* A satisfied join queues the fan-in Task.
LEMMA JoinSafe ==
  ASSUME SafeInv, TypeOK', NEW t \in Tasks, NEW policy, EvaluateChildRunJoin(t, policy)
  PROVE  SafeInv' /\ FinalStep
  <1>1. PICK dbnow \in DbNow : EvaluateChildRunJoin(t, policy)!(dbnow)
    BY DEF EvaluateChildRunJoin
  <1>2. /\ task \in [Tasks -> TaskRow] /\ task[t] \in TaskRow
        /\ run \in RunRow /\ run.status \in RunStatus
        /\ task[t].status = "scheduled"
    BY <1>1, SafeTables
  <1>3. Kept
    BY <1>1, <1>2, RunFields DEF Kept
  <1>4. /\ task'[t] = [task[t] EXCEPT !.status = "queued", !.available = dbnow]
        /\ \A u \in Tasks \ {t} : task'[u] = task[u]
    BY <1>1, <1>2
  <1>5. /\ task'[t].status = "queued" /\ task'[t].generation = task[t].generation
        /\ task'[t].attempt = task[t].attempt /\ task'[t].owner = task[t].owner
        /\ task'[t].token = task[t].token /\ task'[t].expires = task[t].expires
    BY <1>2, <1>4 DEF TaskRow
  <1>6. \A u \in Tasks : Soft(task[u], task'[u]) /\ GenOK(task[u], task'[u], run.generation)
    BY <1>2, <1>4, <1>5 DEF Soft, GenOK, IdleStatus, TaskOpen
  <1>7. WaitResume'
    BY <1>1, <1>2, <1>4, <1>5, WaitsKept, RowAssumption DEF SafeInv
  <1>8. attempt' = attempt
    BY <1>1
  <1> QED BY <1>3, <1>6, <1>7, <1>8, SoftStep

\* A step that leaves the Run, its Tasks, attempts and Waits alone.
LEMMA StutterSafe ==
  ASSUME SafeInv, TypeOK', UNCHANGED <<run, task, attempt, wait>>
  PROVE  SafeInv' /\ FinalStep
  BY DEF SafeInv, RunProjection, GenerationGate, LeasedWhileLive, RowsOK, WaitResume,
         TerminalClosed, FinalStep

----------------------------------------------------------------------------
\* Control commands and maintenance.

\* A pause takes every lease and moves the generation on.
LEMMA PauseSafe ==
  ASSUME SafeInv, TypeOK', PauseRun
  PROVE  SafeInv' /\ FinalStep
  <1>1. PICK dbnow \in DbNow : PauseRun!(dbnow)
    BY DEF PauseRun
  <1>2. /\ task \in [Tasks -> TaskRow] /\ run \in RunRow /\ run.generation \in Nat
        /\ run.status \in RunActive
        /\ \A u \in Tasks : /\ task[u] \in TaskRow /\ task'[u] \in TaskRow
                            /\ attempt[u] \in [AttemptNumbers(u) -> AttemptRow]
                            /\ RowInv(u, task[u], attempt[u], run.generation)
    BY <1>1, SafeTables DEF TypeOK
  <1>3. /\ run'.status = "paused" /\ run'.generation = run.generation + 1
        /\ run'.suspended_from = run.status
        /\ run'.terminal_seq = run.terminal_seq
        /\ run'.next_seq = run.next_seq + 1
    <2>1. Advance(run, "paused") \in RunRow
      BY <1>2, AdvanceType DEF RunStatus
    <2>2. /\ run'.status = Advance(run, "paused").status
          /\ run'.generation = Advance(run, "paused").generation + 1
          /\ run'.suspended_from = run.status
          /\ run'.terminal_seq = Advance(run, "paused").terminal_seq
          /\ run'.next_seq = Advance(run, "paused").next_seq
      BY <1>1, <2>1 DEF RunRow
    <2> QED BY <1>2, <2>2, RunFields
  <1>4. ASSUME NEW u \in Tasks
        PROVE  /\ task'[u].generation = task[u].generation
               /\ IF task[u].status = "leased"
                    THEN Dropped(task[u], task'[u]) /\ task'[u].status = "retry_scheduled"
                    ELSE task'[u] = task[u]
    <2>1. task'[u] = IF task[u].status = "leased"
                       THEN [Unlease(task[u], "retry_scheduled") EXCEPT !.available = dbnow]
                       ELSE task[u]
      BY <1>1
    <2>2. Unlease(task[u], "retry_scheduled") \in TaskRow
      BY <1>2, UnleaseType DEF TaskStatus, TaskOpen
    <2>3. CASE task[u].status = "leased"
      <3>1. /\ task'[u].status = Unlease(task[u], "retry_scheduled").status
            /\ task'[u].generation = Unlease(task[u], "retry_scheduled").generation
            /\ task'[u].attempt = Unlease(task[u], "retry_scheduled").attempt
            /\ task'[u].owner = Unlease(task[u], "retry_scheduled").owner
            /\ task'[u].token = Unlease(task[u], "retry_scheduled").token
            /\ task'[u].expires = Unlease(task[u], "retry_scheduled").expires
        BY <2>1, <2>2, <2>3 DEF TaskRow
      <3> QED BY <1>2, <2>3, <3>1, UnleaseFields DEF Dropped
    <2> QED BY <2>1, <2>3
  <1>5. \A u \in Tasks : attempt'[u] = [n \in AttemptNumbers(u) |->
          IF attempt[u][n].outcome = "open" THEN [attempt[u][n] EXCEPT !.outcome = "cancelled"]
                                            ELSE attempt[u][n]]
    BY <1>1 DEF CancelAttempts
  <1>6. RowsOK'
    <2>1. ASSUME NEW u \in Tasks
          PROVE  RowInv(u, task'[u], attempt'[u], run'.generation)
      <3>1. Freed(task[u], task'[u])
        BY <1>4 DEF Freed, Soft
      <3>2. /\ task[u] \in TaskRow /\ task'[u] \in TaskRow
            /\ attempt[u] \in [AttemptNumbers(u) -> AttemptRow]
            /\ RowInv(u, task[u], attempt[u], run.generation)
        BY <1>2
      <3>3. attempt'[u] = [n \in AttemptNumbers(u) |->
              IF attempt[u][n].outcome = "open" THEN [attempt[u][n] EXCEPT !.outcome = "cancelled"]
                                                ELSE attempt[u][n]]
        BY <1>5
      <3> QED BY <3>1, <3>2, <3>3, CancelRow
    <2> QED BY <2>1 DEF RowsOK
  <1>7. GenerationGate'
    <2>1. \A u \in Tasks : task[u].generation \in Nat
      BY <1>2 DEF TaskRow
    <2> QED BY <1>2, <1>3, <1>4, <2>1 DEF SafeInv, GenerationGate, RunActive
  <1>8. RunProjection'
    <2>1. run.next_seq \in Nat /\ run.terminal_seq \in Nat
      BY <1>2 DEF RunRow
    <2> QED BY <1>2, <1>3, <2>1 DEF SafeInv, RunProjection, RunActive, RunTerminal
  <1>9. LeasedWhileLive' /\ TerminalClosed'
    BY <1>3, <1>4 DEF LeasedWhileLive, TerminalClosed, RunTerminal
  <1>10. WaitResume'
    BY <1>1, <1>4, WaitsKept, RowAssumption DEF SafeInv
  <1>11. FinalStep
    BY <1>4, <1>5, ZenonT(60) DEF FinalStep, TaskTerminal
  <1> QED BY <1>6, <1>7, <1>8, <1>9, <1>10, <1>11 DEF SafeInv

\* A paused Run has no leases; resuming moves every open Task to the current
\* generation.
LEMMA ResumeSafe ==
  ASSUME SafeInv, TypeOK', ResumeRun
  PROVE  SafeInv' /\ FinalStep
  <1>1. PICK dbnow \in DbNow : ResumeRun!(dbnow)
    BY DEF ResumeRun
  <1> DEFINE rs == ResumedStatus(Rebase(task, dbnow), dbnow)
  <1>2. /\ task \in [Tasks -> TaskRow] /\ run \in RunRow /\ run.generation \in Nat
        /\ run.status = "paused"
        /\ \A u \in Tasks : /\ task[u] \in TaskRow /\ task'[u] \in TaskRow
                            /\ RowInv(u, task[u], attempt[u], run.generation)
    BY <1>1, SafeTables DEF TypeOK
  <1>3. rs \in RunActive
    BY <1>1 DEF ResumedStatus, RunActive
  <1>4. /\ run'.status = rs /\ run'.generation = run.generation
        /\ run'.suspended_from = "none"
        /\ run'.terminal_seq = run.terminal_seq
        /\ run'.next_seq = run.next_seq + 1
    <2>1. run' = [Advance(run, rs) EXCEPT !.suspended_from = "none", !.blocked = "none"]
      BY <1>1
    <2> HIDE DEF rs
    <2>2. Advance(run, rs) \in RunRow
      BY <1>2, <1>3, AdvanceType DEF RunStatus
    <2>3. /\ run'.status = Advance(run, rs).status
          /\ run'.generation = Advance(run, rs).generation
          /\ run'.suspended_from = "none"
          /\ run'.terminal_seq = Advance(run, rs).terminal_seq
          /\ run'.next_seq = Advance(run, rs).next_seq
      BY <2>1, <2>2 DEF RunRow
    <2> QED BY <1>2, <2>3, RunFields
  <1> HIDE DEF rs
  <1>5. \A u \in Tasks : task[u].status # "leased"
    BY <1>2, FinishAssumption DEF SafeInv, LeasedWhileLive, RunActive, RunTerminal
  <1>6. ASSUME NEW u \in Tasks
        PROVE  IF task[u].status \in {"scheduled", "queued", "retry_scheduled"}
                 THEN /\ task'[u].generation = run.generation
                      /\ task'[u].status \in {task[u].status, "queued"}
                      /\ task'[u].attempt = task[u].attempt
                      /\ task'[u].owner = task[u].owner
                      /\ task'[u].token = task[u].token
                      /\ task'[u].expires = task[u].expires
                 ELSE task'[u] = task[u]
    <2>1. task'[u] = Rebase(task, dbnow)[u] /\ task[u] \in TaskRow
      BY <1>1, <1>2
    <2> QED BY <2>1 DEF Rebase, TaskRow
  <1>7. \A u \in Tasks : Soft(task[u], task'[u])
    BY <1>6 DEF Soft, IdleStatus
  <1>8. RowsOK'
    BY <1>1, <1>2, <1>4, <1>7, SoftRow DEF RowsOK
  <1>9. GenerationGate'
    <2>1. ASSUME NEW u \in Tasks, task'[u].status \in TaskOpen
          PROVE  task'[u].generation = run.generation
      BY <1>5, <1>6, <2>1 DEF TaskOpen
    <2>2. \A u \in Tasks : task'[u].generation <= run.generation
      BY <1>2, <1>6 DEF SafeInv, GenerationGate
    <2> QED BY <1>4, <2>1, <2>2 DEF GenerationGate
  <1>10. RunProjection'
    <2>1. run.next_seq \in Nat /\ run.terminal_seq \in Nat
      BY <1>2 DEF RunRow
    <2> QED BY <1>2, <1>3, <1>4, <2>1 DEF SafeInv, RunProjection, RunActive, RunTerminal
  <1>11. LeasedWhileLive' /\ TerminalClosed'
    BY <1>3, <1>4 DEF LeasedWhileLive, TerminalClosed, RunActive, RunTerminal
  <1>12. WaitResume'
    <2>1. \A u \in Tasks : task'[u].status = "absent" <=> task[u].status = "absent"
      BY <1>6
    <2> QED BY <1>1, <2>1, WaitsKept, RowAssumption DEF SafeInv
  <1>13. FinalStep
    BY <1>1, <1>6 DEF FinalStep, TaskTerminal
  <1> QED BY <1>8, <1>9, <1>10, <1>11, <1>12, <1>13 DEF SafeInv

\* The tables of a safe state can be closed as they are.
LEMMA SafeClosable ==
  ASSUME SafeInv
  PROVE  ClosableTables(task, attempt)
  BY SafeTables DEF ClosableTables, Closable

\* cancel_run closes the Run and moves the generation on.
LEMMA CancelSafe ==
  ASSUME SafeInv, TypeOK', CancelRun
  PROVE  SafeInv' /\ FinalStep
  <1>1. run \in RunRow /\ ClosableTables(task, attempt)
    BY SafeTables, SafeClosable
  <1>2. Finish(run, "cancelled") \in RunRow
    BY <1>1, FinishType DEF RunTerminal
  <1>3. run' = [Finish(run, "cancelled") EXCEPT !.generation = @ + 1, !.blocked = "none"]
    BY DEF CancelRun
  <1>4. /\ run'.status = Finish(run, "cancelled").status
        /\ run'.generation = Finish(run, "cancelled").generation + 1
        /\ run'.terminal_seq = Finish(run, "cancelled").terminal_seq
        /\ run'.suspended_from = Finish(run, "cancelled").suspended_from
        /\ run'.next_seq = Finish(run, "cancelled").next_seq
    BY <1>2, <1>3 DEF RunRow
  <1>5. Closed /\ run'.generation = run.generation + 1
    BY <1>1, <1>4, RunFields DEF CancelRun, Closed, RunTerminal
  <1>6. WaitsClosed
    BY DEF CancelRun, CancelWaits, WaitsClosed
  <1> QED BY <1>1, <1>5, <1>6, CloseStep DEF CancelRun

\* A time-out closes the Run; the Wait that expired, if any, is no longer open.
LEMMA TimeOutSafe ==
  ASSUME SafeInv, TypeOK', TimeOutRun \/ \E w \in Waits : ExpireWait(w)
  PROVE  SafeInv' /\ FinalStep
  <1>1. /\ run \in RunRow /\ ClosableTables(task, attempt)
        /\ wait \in [Waits -> WaitStatus \cup {"absent"}]
    BY SafeTables, SafeClosable
  <1>2. PICK wt : /\ TimeOut(wt)
                  /\ \A w \in Waits : wt[w] = "consumed" <=> wait[w] = "consumed"
    <2>1. CASE TimeOutRun
      BY <2>1 DEF TimeOutRun
    <2>2. ASSUME NEW w \in Waits, ExpireWait(w)
          PROVE  \E wt : /\ TimeOut(wt)
                         /\ \A v \in Waits : wt[v] = "consumed" <=> wait[v] = "consumed"
      <3>1. TimeOut([wait EXCEPT ![w] = "expired"]) /\ wait[w] = "open"
        BY <2>2 DEF ExpireWait
      <3>2. \A v \in Waits : [wait EXCEPT ![w] = "expired"][v] = "consumed" <=> wait[v] = "consumed"
        BY <1>1, <3>1
      <3> QED BY <3>1, <3>2
    <2> QED BY <2>1, <2>2
  <1>3. run.status \notin RunTerminal
    BY DEF TimeOutRun, ExpireWait, ScannedForWaits, RunTerminal
  <1>4. Closed /\ run'.generation = run.generation
    BY <1>1, <1>2, <1>3, RunFields DEF TimeOut, Closed, RunTerminal
  <1>5. WaitsClosed
    BY <1>2 DEF TimeOut, CancelWaits, WaitsClosed
  <1>6. task' = CancelTasks(task) /\ attempt' = CancelAttempts(attempt)
    BY <1>2 DEF TimeOut
  <1> QED BY <1>1, <1>4, <1>5, <1>6, CloseStep

----------------------------------------------------------------------------
\* The induction.

\* create_run establishes the invariant.
LEMMA InitSafe == Init => SafeInv
  <1> SUFFICES ASSUME Init PROVE SafeInv
    OBVIOUS
  <1>1. TypeOK
    BY InitType
  <1>2. /\ run.status = "queued" /\ run.generation = 0 /\ run.terminal_seq = 0
        /\ run.next_seq = 2 /\ run.suspended_from = "none"
    BY DEF Init
  <1>3. ASSUME NEW t \in Tasks
        PROVE  /\ task[t].status \in {"absent", "queued", "scheduled"}
               /\ task[t].status # "absent" => t \in InitialTasks
               /\ task[t].generation = 0 /\ task[t].attempt = 0 /\ task[t].owner = NoWorker
               /\ task[t].token = 0 /\ task[t].expires = Never
               /\ \A n \in AttemptNumbers(t) : attempt[t][n].outcome = "absent"
    BY DEF Init, AbsentTask, NewTask, InsertedStatus, AbsentAttempt
  <1>4. RowsOK
    <2>1. ASSUME NEW t \in Tasks
          PROVE  RowInv(t, task[t], attempt[t], run.generation)
      <3>1. \A n \in AttemptNumbers(t) : ~(n <= 0)
        BY DEF AttemptNumbers
      <3>2. 0 <= MaxAttempts[t]
        BY RowAssumption
      <3> QED BY <1>3, <3>1, <3>2 DEF RowInv
    <2> QED BY <2>1 DEF RowsOK
  <1>5. RunProjection /\ GenerationGate /\ LeasedWhileLive /\ TerminalClosed
    BY <1>2, <1>3 DEF RunProjection, GenerationGate, LeasedWhileLive, TerminalClosed, RunTerminal
  <1>6. WaitResume
    <2>1. \A w \in Waits : wait[w] = "absent"
      BY DEF Init
    <2> QED BY <1>3, <2>1, RowAssumption, TaskSourceAssumption DEF WaitResume
  <1> QED BY <1>1, <1>4, <1>5, <1>6 DEF SafeInv

\* Every step of every actor keeps the invariant and touches nothing finished.
LEMMA StepSafe == SafeInv /\ [Next]_vars => SafeInv' /\ FinalStep
  <1> SUFFICES ASSUME SafeInv, [Next]_vars PROVE SafeInv' /\ FinalStep
    OBVIOUS
  <1>1. TypeOK'
    BY StepType DEF SafeInv
  <1>2. ASSUME NEW t \in Tasks, NEW k \in AttemptNumbers(t), WorkerStep(t, k)
        PROVE  SafeInv' /\ FinalStep
    BY <1>1, <1>2, RenewSafe, FailRetrySafe, FailDeadLetterSafe, FailFatalSafe, CompletionSafe
       DEF WorkerStep
  <1>3. CASE UNCHANGED vars
    BY <1>1, <1>3, StutterSafe DEF vars
  <1>4. CASE Tick \/ \E t \in Tasks : ChildRunEnds(t)
    BY <1>1, <1>4, StutterSafe DEF Tick, ChildRunEnds
  <1>5. ASSUME NEW t \in Tasks,
               \/ \E w \in Workers : ClaimTask(w, t)
               \/ ReclaimExpiredLease(t)
               \/ CreateChildRun(t)
               \/ \E policy \in {"all", "any"} : EvaluateChildRunJoin(t, policy)
        PROVE  SafeInv' /\ FinalStep
    BY <1>1, <1>5, ClaimSafe, ReclaimSafe, CreateChildSafe, JoinSafe
  <1>6. CASE \E w \in Waits : ApplyEvent(MatchKey[w])
    BY <1>1, <1>6, ApplyEventSafe
  <1>7. CASE RevisePlan \/ ApplyContextPatch \/ PauseRun \/ ResumeRun \/ CancelRun
    BY <1>1, <1>7, RevisePlanSafe, ContextPatchSafe, PauseSafe, ResumeSafe, CancelSafe
  <1>8. CASE TimeOutRun \/ \E w \in Waits : ExpireWait(w)
    BY <1>1, <1>8, TimeOutSafe
  <1> QED BY <1>2, <1>3, <1>4, <1>5, <1>6, <1>7, <1>8 DEF Next

\* SafeInv is an invariant of the store.
THEOREM SafeInvariant == Spec => []SafeInv
  <1>1. SafeInv /\ [Next]_vars => SafeInv'
    BY StepSafe
  <1> QED BY InitSafe, <1>1, PTL DEF Spec

\* The attempt ledger and the Task table agree after every transaction.
THEOREM LedgerCorrect == Spec => []AttemptLedger
  <1>1. SafeInv => AttemptLedger
    BY DEF SafeInv, RowsOK, RowInv, AttemptLedger
  <1> QED BY SafeInvariant, <1>1, PTL

\* A lease is held only in the current generation of a Run that is neither
\* paused nor closed, by the worker and token of the last claim.
THEOREM LeaseCorrect == Spec => []LeaseFence
  <1>1. SafeInv => LeaseFence
    BY DEF SafeInv, RowsOK, RowInv, LeaseFence, LeasedWhileLive
  <1> QED BY SafeInvariant, <1>1, PTL

\* However many claims a Task has seen, at most the proof of the last one
\* passes the fences of a worker command, and only while its attempt is open.
THEOREM FencingCorrect == Spec => []OnlyLastProofPasses
  <1>1. SafeInv => OnlyLastProofPasses
    <2> SUFFICES ASSUME SafeInv, NEW t \in Tasks, NEW k \in AttemptNumbers(t),
                        NEW dbnow \in DbNow, FencesHold(t, k, dbnow)
                 PROVE  k = task[t].attempt /\ attempt[t][k].outcome = "open"
      BY DEF OnlyLastProofPasses
    <2>1. RowInv(t, task[t], attempt[t], run.generation)
      BY SafeTables
    <2> QED BY <2>1 DEF RowInv, FencesHold
  <1> QED BY SafeInvariant, <1>1, PTL

\* Exactly the terminal Runs have a terminal Event and exactly the paused ones
\* remember what they were suspended from.
THEOREM ProjectionCorrect == Spec => []RunProjection
  <1>1. SafeInv => RunProjection
    BY DEF SafeInv
  <1> QED BY SafeInvariant, <1>1, PTL

\* A pause strands no Task in an old generation.
THEOREM GenerationCorrect == Spec => []GenerationGate
  <1>1. SafeInv => GenerationGate
    BY DEF SafeInv
  <1> QED BY SafeInvariant, <1>1, PTL

\* A Run closed by a cancel, time-out or fatal failure has nothing open.
THEOREM ClosureCorrect == Spec => []TerminalClosed
  <1>1. SafeInv => TerminalClosed
    BY DEF SafeInv
  <1> QED BY SafeInvariant, <1>1, PTL

\* A resume Task exists iff its Wait was consumed.
THEOREM ResumeCorrect == Spec => []WaitResume
  <1>1. SafeInv => WaitResume
    BY DEF SafeInv
  <1> QED BY SafeInvariant, <1>1, PTL

\* No step changes a finished Task or a closed attempt.
THEOREM FinishedStays == Spec => FinishedIsFinal
  <1>1. SafeInv /\ [Next]_vars =>
          [\A t \in Tasks :
             /\ task[t].status \in TaskTerminal => task'[t] = task[t]
             /\ \A n \in AttemptNumbers(t) :
                  attempt[t][n].outcome \notin {"absent", "open"}
                    => attempt'[t][n] = attempt[t][n]]_vars
    BY StepSafe DEF FinalStep
  <1> QED BY SafeInvariant, <1>1, PTL DEF Spec, FinishedIsFinal

\* No transaction of any actor touches a terminal Run.
LEMMA TerminalStep ==
  ASSUME SafeInv, [Next]_vars, run.status \in RunTerminal
  PROVE  UNCHANGED <<run, task, attempt, stage, wait>>
  <1>1. run.status \notin RunActive /\ run.status # "paused"
        /\ run.status \notin AcceptsTaskClaim /\ run.terminal_seq # 0
    BY DEF RunTerminal, RunActive, AcceptsTaskClaim, SafeInv, RunProjection
  <1>2. \A t, k, dbnow : ~FencesHold(t, k, dbnow)
    BY <1>1 DEF FencesHold
  <1>3. ASSUME NEW t, NEW k PROVE ~WorkerStep(t, k)
    <2>1. ~RenewTaskLease(t, k) /\ ~FailTaskRetry(t, k)
      BY <1>2 DEF RenewTaskLease, FailTaskRetry
    <2>2. ~FailTaskDeadLetter(t, k) /\ ~FailTaskFatal(t, k)
      BY <1>2 DEF FailTaskDeadLetter, FailTaskFatal
    <2>3. \A dbnow : ~Completion(t, k, dbnow)
      BY <1>2 DEF Completion
    <2>4. ~CompleteWithTasks(t, k) /\ ~CompleteWithRetry(t, k) /\ ~CompleteWithWait(t, k)
      BY <2>3 DEF CompleteWithTasks, CompleteWithRetry, CompleteWithWait
    <2>5. ~CompleteAndFinish(t, k) /\ ~CompleteNoFurtherWork(t, k)
      BY <2>3 DEF CompleteAndFinish, CompleteNoFurtherWork
    <2> QED BY <2>1, <2>2, <2>4, <2>5 DEF WorkerStep
  <1>4. \A w, t : ~ClaimTask(w, t) /\ ~ReclaimExpiredLease(t)
    BY <1>1 DEF ClaimTask, Claimable, ReclaimExpiredLease
  <1>5. \A key : ~ApplyEvent(key)
    BY DEF ApplyEvent
  <1>6. ~RevisePlan /\ ~ApplyContextPatch
    BY DEF RevisePlan, ApplyContextPatch
  <1>7. \A t, policy : ~CreateChildRun(t) /\ ~EvaluateChildRunJoin(t, policy)
    BY DEF CreateChildRun, EvaluateChildRunJoin
  <1>8. ~PauseRun /\ ~ResumeRun /\ ~CancelRun
    BY <1>1 DEF PauseRun, ResumeRun, CancelRun
  <1>9. ~TimeOutRun /\ \A w : ~ExpireWait(w)
    BY DEF TimeOutRun, ExpireWait, ScannedForWaits, RunTerminal
  <1>10. CASE Tick \/ (\E t \in Tasks : ChildRunEnds(t)) \/ UNCHANGED vars
    BY <1>10 DEF Tick, ChildRunEnds, vars
  <1> QED BY <1>3, <1>4, <1>5, <1>6, <1>7, <1>8, <1>9, <1>10 DEF Next

\* A terminal status is final for the Run and everything it owns.
THEOREM TerminalStays == Spec => TerminalFinal
  <1>1. SafeInv /\ [Next]_vars =>
          [run.status \in RunTerminal => UNCHANGED <<run, task, attempt, stage, wait>>]_vars
    BY TerminalStep
  <1> QED BY SafeInvariant, <1>1, PTL DEF Spec, TerminalFinal

----------------------------------------------------------------------------
\* Events.

\* The step appends one Event and moves the version.
Logged == run'.version = run.version + 1 /\ run'.next_seq = run.next_seq + 1

\* Every form in which a transaction writes the Run row appends one Event.
LEMMA LoggedRun ==
  ASSUME run \in RunRow, NEW s \in RunStatus, NEW f \in RunTerminal
  PROVE  /\ run' = Advance(run, s) => Logged
         /\ run' = Finish(run, f) => Logged
         /\ run' = Checkpointed(Advance(run, s)) => Logged
         /\ run' = Checkpointed(Finish(run, f)) => Logged
  <1>1. Advance(run, s) \in RunRow /\ Finish(run, f) \in RunRow
    BY AdvanceType, FinishType
  <1>2. /\ Advance(run, s).version = run.version + 1 /\ Advance(run, s).next_seq = run.next_seq + 1
        /\ Finish(run, f).version = run.version + 1 /\ Finish(run, f).next_seq = run.next_seq + 1
    BY DEF Advance, Finish, RunRow
  <1>3. \A r \in RunRow : Checkpointed(r).version = r.version /\ Checkpointed(r).next_seq = r.next_seq
    BY DEF Checkpointed, RunRow
  <1> QED BY <1>1, <1>2, <1>3 DEF Logged

\* The commands that rewrite further columns of the Run row append one, too.
LEMMA LoggedControl ==
  ASSUME run \in RunRow,
         RevisePlan \/ ApplyContextPatch \/ PauseRun \/ ResumeRun \/ CancelRun
  PROVE  Logged
  <1>0. run.status \in RunStatus
    BY DEF RunRow
  <1>1. ASSUME NEW r \in RunRow, r.version = run.version + 1, r.next_seq = run.next_seq + 1,
               \/ run' = [r EXCEPT !.plan = @ + 1]
               \/ run' = [r EXCEPT !.context = @ + 1]
               \/ \E b \in BlockedReason : run' = [r EXCEPT !.suspended_from = run.status,
                                                 !.generation = @ + 1, !.blocked = b]
               \/ run' = [r EXCEPT !.suspended_from = "none", !.blocked = "none"]
               \/ run' = [r EXCEPT !.generation = @ + 1, !.blocked = "none"]
        PROVE  Logged
    BY <1>1, ZenonT(60) DEF RunRow, Logged
  <1>2. \A s \in RunStatus : /\ Advance(run, s) \in RunRow
                             /\ Advance(run, s).version = run.version + 1
                             /\ Advance(run, s).next_seq = run.next_seq + 1
    <2>1. \A s \in RunStatus : Advance(run, s) \in RunRow
      BY AdvanceType
    <2> QED BY <2>1 DEF Advance, RunRow
  <1>3. CASE RevisePlan
    BY <1>0, <1>1, <1>2, <1>3 DEF RevisePlan
  <1>4. CASE ApplyContextPatch
    BY <1>0, <1>1, <1>2, <1>4 DEF ApplyContextPatch
  <1>5. CASE PauseRun
    <2>1. \E b \in BlockedReason : run' = [Advance(run, "paused") EXCEPT !.suspended_from = run.status,
                                       !.generation = @ + 1, !.blocked = b]
      BY <1>5 DEF PauseRun, BlockedReason
    <2>2. "paused" \in RunStatus
      BY DEF RunStatus
    <2> QED BY <1>1, <1>2, <2>1, <2>2
  <1>6. CASE ResumeRun
    <2>1. PICK dbnow \in DbNow : ResumeRun!(dbnow)
      BY <1>6 DEF ResumeRun
    <2>2. ResumedStatus(Rebase(task, dbnow), dbnow) \in RunStatus
      BY <2>1 DEF ResumedStatus, RunStatus, RunActive
    <2> QED BY <1>1, <1>2, <2>1, <2>2
  <1>7. CASE CancelRun
    <2>1. Finish(run, "cancelled") \in RunRow
      BY FinishType DEF RunTerminal
    <2>2. /\ Finish(run, "cancelled").version = run.version + 1
          /\ Finish(run, "cancelled").next_seq = run.next_seq + 1
      BY DEF Finish, Advance, RunRow
    <2> QED BY <1>1, <1>7, <2>1, <2>2 DEF CancelRun
  <1> QED BY <1>3, <1>4, <1>5, <1>6, <1>7

\* Nothing a reader of the Run sees changed.
Silent == /\ run'.status = run.status
          /\ \A t \in Tasks : task'[t].status = task[t].status
          /\ stage' = stage
          /\ wait' = wait

\* Every step is silent or logged.
LEMMA LoggedStep ==
  ASSUME TypeOK, [Next]_vars
  PROVE  Silent \/ Logged
  <1>0. run \in RunRow /\ run.status \in RunStatus /\ task \in [Tasks -> TaskRow]
        /\ \A t \in Tasks : task[t] \in TaskRow
    BY DEF TypeOK, RunRow
  <1>2. \A s \in RunStatus : run' = Advance(run, s) \/ run' = Checkpointed(Advance(run, s)) => Logged
    BY <1>0, LoggedRun DEF RunTerminal
  <1>3. \A f \in RunTerminal : run' = Finish(run, f) \/ run' = Checkpointed(Finish(run, f)) => Logged
    BY <1>0, LoggedRun
  <1>4. ASSUME NEW t \in Tasks, NEW k \in AttemptNumbers(t), WorkerStep(t, k)
        PROVE  Silent \/ Logged
    <2>1. CASE RenewTaskLease(t, k)
      BY <1>0, <2>1 DEF RenewTaskLease, Silent, TaskRow
    <2>2. CASE FailTaskRetry(t, k) \/ FailTaskDeadLetter(t, k)
      BY <1>2, <2>2 DEF FailTaskRetry, FailTaskDeadLetter, RunStatus, RunActive
    <2>3. CASE FailTaskFatal(t, k)
      BY <1>2, <1>3, <2>3 DEF FailTaskFatal, RunStatus, RunActive, RunTerminal
    <2>4. CASE CompleteWithTasks(t, k) \/ CompleteWithRetry(t, k)
      BY <1>2, <2>4 DEF CompleteWithTasks, CompleteWithRetry, RunStatus, RunActive
    <2>5. CASE CompleteWithWait(t, k) \/ CompleteNoFurtherWork(t, k)
      BY <1>2, <2>5 DEF CompleteWithWait, CompleteNoFurtherWork, RunStatus, RunActive
    <2>6. CASE CompleteAndFinish(t, k)
      BY <1>3, <2>6, FinishAssumption DEF CompleteAndFinish
    <2> QED BY <1>4, <2>1, <2>2, <2>3, <2>4, <2>5, <2>6 DEF WorkerStep
  <1>5. ASSUME NEW t \in Tasks,
               \/ \E w \in Workers : ClaimTask(w, t)
               \/ ReclaimExpiredLease(t)
        PROVE  Logged
    BY <1>2, <1>5 DEF ClaimTask, ReclaimExpiredLease, RunStatus, RunActive
  <1>6. ASSUME NEW key, ApplyEvent(key)
        PROVE  Logged
    BY <1>2, <1>6 DEF ApplyEvent, RunStatus, RunActive
  <1>7. ASSUME NEW t \in Tasks,
               CreateChildRun(t) \/ \E policy \in {"all", "any"} : EvaluateChildRunJoin(t, policy)
        PROVE  Logged
    BY <1>0, <1>2, <1>7 DEF CreateChildRun, EvaluateChildRunJoin
  <1>8. CASE TimeOutRun \/ \E w \in Waits : ExpireWait(w)
    BY <1>3, <1>8 DEF TimeOutRun, ExpireWait, TimeOut, ScannedForWaits, RunTerminal
  <1>9. CASE RevisePlan \/ ApplyContextPatch \/ PauseRun \/ ResumeRun \/ CancelRun
    BY <1>0, <1>9, LoggedControl
  <1>10. CASE Tick \/ (\E t \in Tasks : ChildRunEnds(t)) \/ UNCHANGED vars
    BY <1>10 DEF Tick, ChildRunEnds, vars, Silent
  <1> QED BY <1>4, <1>5, <1>6, <1>7, <1>8, <1>9, <1>10 DEF Next

\* No status of a Run, Task, stage or Wait changes without an Event.
THEOREM ChangesLogged == Spec => EveryChangeLogged
  <1>1. TypeOK /\ [Next]_vars =>
          [(\/ run.status # run'.status
            \/ \E t \in Tasks : task[t].status # task'[t].status
            \/ stage # stage'
            \/ wait # wait')
           => run'.version = run.version + 1 /\ run'.next_seq = run.next_seq + 1]_vars
    BY LoggedStep DEF Silent, Logged
  <1> QED BY TypeCorrect, <1>1, PTL DEF Spec, EveryChangeLogged

=============================================================================
