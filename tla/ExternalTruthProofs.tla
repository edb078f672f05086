------------------------- MODULE ExternalTruthProofs -------------------------
(***************************************************************************)
(* What the rows of the executions say is true.  A Tool attempt is sent at *)
(* most once and every further attempt was begun by one recovery Task; an  *)
(* Agent execution is terminal only as its remote Run ended or its worker  *)
(* reported; what is known is never unlearned.                             *)
(*                                                                         *)
(* Every step of ExternalWork is first reduced to what it does to the      *)
(* attempts of a Tool, to the calls in flight, to the version and remote   *)
(* identity of an Agent, and to what the pollers hold; the invariants are  *)
(* then shown for these few shapes.                                        *)
(***************************************************************************)
EXTENDS ExternalProofs

----------------------------------------------------------------------------
(***************************************************************************)
(* The inductive invariant.                                                *)
(***************************************************************************)

\* The recovery Tasks that began an attempt of Tool x.
Done(x) == {q \in RecoveryTasks : origin[q].exec = x /\ task[q].status = "succeeded"}

\* A call of a Tool is for an attempt that exists, is the only one for it, and
\* the attempt has not been sent while the call is ready.
SentInv ==
  /\ \A x \in Tools : /\ tool[x].attempt <= MaxToolAttempts
                      /\ tool[x].status = "absent" => tool[x].attempt = 0
  /\ \A c \in calls : c.exec \in Tools =>
       /\ c.rev >= 1 /\ c.rev <= tool[c.exec].attempt
       /\ c.phase = "ready" => sent[c.exec][c.rev] = 0
  /\ \A c, d \in calls : c.exec \in Tools /\ c.exec = d.exec /\ c.rev = d.rev => c = d
  /\ \A x \in Tools : \A n \in 1 .. MaxToolAttempts :
       /\ sent[x][n] <= 1
       /\ sent[x][n] # 0 => n <= tool[x].attempt

\* Every attempt but the first was begun by a recovery Task of its own.
RecoveryInv ==
  \A x \in Tools :
    /\ IsFiniteSet(Done(x))
    /\ Cardinality(Done(x)) = IF tool[x].status = "absent" THEN 0 ELSE tool[x].attempt - 1
    /\ {origin[q].revision : q \in Done(x)} = 1 .. Cardinality(Done(x))

\* A submission in flight is for a version that exists; while the row has that
\* version it awaits the outcome, and neither it nor a stop request that
\* followed knows a remote Run.
CallsInv ==
  /\ \A a \in Agents : /\ agent[a].status # "planned"
                       /\ agent[a].status = "absent" => agent[a].remote = "none"
  /\ \A c \in calls : c.exec \in Agents =>
       /\ agent[c.exec].status # "absent"
       /\ c.rev <= agent[c.exec].version
       /\ agent[c.exec].version <= c.rev + 1 => agent[c.exec].remote = "none"
       /\ agent[c.exec].version = c.rev
            => agent[c.exec].status \in {"submitting", "outcome_unknown"}
  /\ \A c, d \in calls : c.exec \in Agents /\ c.exec = d.exec /\ c.rev = d.rev => c = d

\* Status s is how the remote Run of a ended.
EndedAs(a, s) == remote[a] \in RemoteTerminal /\ s = StatusProjection[remote[a]]

\* What row says of the execution a is true: as its remote Run ended, as its
\* worker reported, or, without a remote Run, anything but a success.
RowTrue(a, row) ==
  \/ EndedAs(a, row.status)
  \/ report[a] = "made" /\ row.status = "succeeded"
  \/ row.remote = "none" /\ row.status # "succeeded"

\* Terminal statuses are true, in the rows and in what pollers hold.
TruthInv ==
  /\ \A a \in Agents : agent[a].status \in AgentTerminal => RowTrue(a, agent[a])
  /\ \A p \in Pollers : /\ polled[p] # Idle /\ polled[p].kind = "outcome"
                        /\ polled[p].status \in AgentTerminal
       => EndedAs(polled[p].exec, polled[p].status)

\* The worker's own outcome is due once its submission's outcome is recorded: the
\* row has left the version the worker prepared, and at the version it expects no
\* stop was requested.
ReportInv ==
  /\ report \in [Agents -> {"none", "due", "made"}]
  /\ \A a \in Agents :
       /\ agent[a].status = "absent" => report[a] = "none"
       /\ report[a] = "due" => /\ agent[a].version >= 1
                               /\ agent[a].version = 1 => agent[a].status # "stopping"
  /\ \A c \in calls : c.exec \in Agents /\ c.rev = 0 => report[c.exec] = "none"

ExecInv == WorkInv /\ SentInv /\ RecoveryInv /\ CallsInv /\ TruthInv /\ ReportInv

----------------------------------------------------------------------------
(***************************************************************************)
(* Tools.                                                                  *)
(***************************************************************************)

\* The recovery Tasks of x and their origins stay.
DoneRests(x) == Done(x)' = Done(x) /\ \A q \in Done(x) : origin'[q] = origin[q]

\* Tool x keeps its number of attempts.
AttemptRests(x) ==
  /\ tool'[x].attempt = tool[x].attempt
  /\ tool'[x].status = "absent" <=> tool[x].status = "absent"

\* No Tool begins an attempt.
AttemptsRest == \A x \in Tools : AttemptRests(x) /\ DoneRests(x)

\* No request goes out, and new calls are submissions.
RequestsRest == sent' = sent /\ \A c \in calls' \ calls : c.exec \notin Tools

\* Tool x begins its next attempt: the first one, or one a recovery Task is for.
ToolBegins(x) ==
  /\ tool[x].attempt < MaxToolAttempts
  /\ tool'[x].attempt = tool[x].attempt + 1 /\ tool'[x].status # "absent"
  /\ \A y \in Tools \ {x} : AttemptRests(y) /\ DoneRests(y)
  /\ sent' = sent /\ calls' = calls \cup {Call(x, tool[x].attempt + 1)}
  /\ \/ tool[x].status = "absent" /\ DoneRests(x)
     \/ /\ tool[x].status # "absent"
        /\ \E q \in RecoveryTasks : /\ q \notin Done(x) /\ Done(x)' = Done(x) \cup {q}
                                    /\ origin[q].revision = tool[x].attempt
        /\ origin' = origin

\* The ready request c goes out.
ToolSends(c) ==
  /\ AttemptsRest
  /\ c \in calls /\ c.exec \in Tools /\ c.phase = "ready"
  /\ calls' = (calls \ {c}) \cup {[c EXCEPT !.phase = "sent"]}
  /\ sent' = [sent EXCEPT ![c.exec][c.rev] = @ + 1]

ToolEffect ==
  \/ AttemptsRest /\ RequestsRest
  \/ \E x \in Tools : ToolBegins(x)
  \/ \E c \in calls : ToolSends(c)

\* Counting the recovery Tasks through a step.
LEMMA RecoveryCounted ==
  ASSUME WorkInv, SentInv, RecoveryInv, ToolEffect
  PROVE  RecoveryInv'
  <1>1. ASSUME NEW x \in Tools, AttemptRests(x), DoneRests(x)
        PROVE  /\ IsFiniteSet(Done(x)')
               /\ Cardinality(Done(x)') = IF tool'[x].status = "absent" THEN 0
                                          ELSE tool'[x].attempt - 1
               /\ {origin'[q].revision : q \in Done(x)'} = 1 .. Cardinality(Done(x)')
    <2>1. {origin'[q].revision : q \in Done(x)'} = {origin[q].revision : q \in Done(x)}
      BY <1>1 DEF DoneRests
    <2>2. /\ IsFiniteSet(Done(x))
          /\ Cardinality(Done(x)) = IF tool[x].status = "absent" THEN 0
                                    ELSE tool[x].attempt - 1
          /\ {origin[q].revision : q \in Done(x)} = 1 .. Cardinality(Done(x))
      BY DEF RecoveryInv
    <2>3. Done(x)' = Done(x)
      BY <1>1 DEF DoneRests
    <2> QED BY <1>1, <2>1, <2>2, <2>3 DEF AttemptRests
  <1>2. ASSUME NEW x \in Tools, ToolBegins(x), NEW y \in Tools
        PROVE  /\ IsFiniteSet(Done(y)')
               /\ Cardinality(Done(y)') = IF tool'[y].status = "absent" THEN 0
                                          ELSE tool'[y].attempt - 1
               /\ {origin'[q].revision : q \in Done(y)'} = 1 .. Cardinality(Done(y)')
    <2>1. CASE y # x
      BY <1>1, <1>2, <2>1 DEF ToolBegins
    <2>2. CASE y = x
      <3>1. PICK D, E : D = Done(x) /\ E = Done(x)'
        OBVIOUS
      <3>2. PICK k : k = tool[x].attempt
        OBVIOUS
      <3>3. k \in Nat
        BY <3>2, WorkTables DEF ToolRow
      <3>4. tool'[x].status # "absent" /\ tool'[x].attempt = k + 1
        BY <1>2, <3>2 DEF ToolBegins
      <3>5. /\ IsFiniteSet(D)
            /\ Cardinality(D) = IF tool[x].status = "absent" THEN 0 ELSE k - 1
            /\ {origin[q].revision : q \in D} = 1 .. Cardinality(D)
        BY <3>1, <3>2 DEF RecoveryInv
      <3>6. CASE tool[x].status = "absent" /\ DoneRests(x)
        <4>1. k = 0
          BY <3>2, <3>6 DEF SentInv
        <4>2. E = D /\ \A q \in D : origin'[q] = origin[q]
          BY <3>1, <3>6 DEF DoneRests
        <4>3. {origin'[q].revision : q \in E} = {origin[q].revision : q \in D}
          BY <4>2
        <4>4. Cardinality(E) = (k + 1) - 1
          BY <3>5, <3>6, <4>1, <4>2
        <4> QED BY <2>2, <3>1, <3>4, <3>5, <4>2, <4>3, <4>4
      <3>7. CASE tool[x].status # "absent" /\ origin' = origin
                 /\ \E q \in RecoveryTasks : /\ q \notin Done(x) /\ Done(x)' = Done(x) \cup {q}
                                             /\ origin[q].revision = tool[x].attempt
        <4>1. PICK q : q \notin D /\ E = D \cup {q} /\ origin[q].revision = k
          BY <3>1, <3>2, <3>7
        <4>2. Cardinality(D) = k - 1 /\ Cardinality(D) \in Nat
          BY <3>5, <3>7, FS_CardinalityType
        <4>3. IsFiniteSet(E) /\ Cardinality(E) = Cardinality(D) + 1
          BY <3>5, <4>1, FS_AddElement
        <4>4. Cardinality(E) = k
          BY <3>3, <4>2, <4>3
        <4>5. {origin'[r].revision : r \in E} = {origin[r].revision : r \in D} \cup {k}
          BY <3>7, <4>1
        <4>6. (1 .. (k - 1)) \cup {k} = 1 .. k
          BY <3>3, <4>2
        <4>7. {origin'[r].revision : r \in E} = 1 .. k
          BY <3>5, <4>2, <4>5, <4>6
        <4>8. k = (k + 1) - 1
          BY <3>3
        <4> QED BY <2>2, <3>1, <3>4, <4>3, <4>4, <4>7, <4>8
      <3> QED BY <1>2, <3>6, <3>7 DEF ToolBegins
    <2> QED BY <2>1, <2>2
  <1>3. CASE AttemptsRest
    BY <1>1, <1>3 DEF RecoveryInv, AttemptsRest
  <1>4. CASE \E x \in Tools : ToolBegins(x)
    BY <1>2, <1>4 DEF RecoveryInv
  <1> QED BY <1>3, <1>4 DEF ToolEffect, ToolSends

\* Requests through a step.
LEMMA RequestsCounted ==
  ASSUME WorkInv, SentInv, ToolEffect
  PROVE  SentInv'
  <1>0. /\ \A x \in Tools : tool[x].attempt \in Nat
        /\ MaxToolAttempts \in Nat
        /\ calls \subseteq CallRow
        /\ sent \in [Tools -> [1 .. MaxToolAttempts -> Nat]]
    BY WorkTables, ExternalAssumption DEF ToolRow, WorkInv, ProcessTypes
  <1>1. CASE AttemptsRest /\ RequestsRest
    <2>1. \A x \in Tools : tool'[x].attempt = tool[x].attempt
                           /\ (tool'[x].status = "absent" <=> tool[x].status = "absent")
      BY <1>1 DEF AttemptsRest, AttemptRests
    <2>2. sent' = sent /\ \A c \in calls' : c.exec \in Tools => c \in calls
      BY <1>1 DEF RequestsRest
    <2> QED BY <2>1, <2>2 DEF SentInv
  <1>2. ASSUME NEW x \in Tools, ToolBegins(x)
        PROVE  SentInv'
    <2>1. PICK k : k = tool[x].attempt
      OBVIOUS
    <2>2. PICK new : new = Call(x, k + 1)
      OBVIOUS
    <2>3. new.exec = x /\ new.rev = k + 1 /\ new.phase = "ready"
      BY <2>2 DEF Call
    <2>4. /\ k \in Nat /\ k < MaxToolAttempts
          /\ tool'[x].attempt = k + 1 /\ tool'[x].status # "absent"
          /\ sent' = sent /\ calls' = calls \cup {new}
      BY <1>0, <1>2, <2>1, <2>2 DEF ToolBegins
    <2>5. \A y \in Tools \ {x} : tool'[y].attempt = tool[y].attempt
                                 /\ (tool'[y].status = "absent" <=> tool[y].status = "absent")
      BY <1>2 DEF ToolBegins, AttemptRests
    <2>6. \A y \in Tools : tool[y].attempt <= tool'[y].attempt
      BY <1>0, <2>1, <2>4, <2>5
    <2>7. k + 1 \in 1 .. MaxToolAttempts /\ sent[x][k + 1] = 0
      <3>1. k + 1 \in 1 .. MaxToolAttempts
        BY <1>0, <2>4
      <3>2. sent[x][k + 1] # 0 => k + 1 <= k
        BY <2>1, <3>1 DEF SentInv
      <3> QED BY <2>4, <3>1, <3>2
    <2>8. \A c \in calls : c.exec = x => c.rev <= k /\ c.rev # k + 1
      <3> SUFFICES ASSUME NEW c \in calls, c.exec = x
                   PROVE  c.rev <= k /\ c.rev # k + 1
        OBVIOUS
      <3>1. c.rev \in Nat /\ c.rev <= k
        BY <1>0, <2>1 DEF SentInv, CallRow
      <3> QED BY <2>4, <3>1
    <2>9. \A y \in Tools : /\ tool'[y].attempt <= MaxToolAttempts
                           /\ tool'[y].status = "absent" => tool'[y].attempt = 0
      <3> SUFFICES ASSUME NEW y \in Tools
                   PROVE  /\ tool'[y].attempt <= MaxToolAttempts
                          /\ tool'[y].status = "absent" => tool'[y].attempt = 0
        OBVIOUS
      <3>1. CASE y = x
        BY <1>0, <2>4, <3>1
      <3>2. CASE y # x
        BY <2>5, <3>2 DEF SentInv
      <3> QED BY <3>1, <3>2
    <2>10. \A c \in calls' : c.exec \in Tools =>
             /\ c.rev >= 1 /\ c.rev <= tool'[c.exec].attempt
             /\ c.phase = "ready" => sent'[c.exec][c.rev] = 0
      <3> SUFFICES ASSUME NEW c \in calls', c.exec \in Tools
                   PROVE  /\ c.rev >= 1 /\ c.rev <= tool'[c.exec].attempt
                          /\ c.phase = "ready" => sent'[c.exec][c.rev] = 0
        OBVIOUS
      <3>1. CASE c = new
        BY <2>3, <2>4, <2>7, <3>1
      <3>2. CASE c \in calls
        <4>1. /\ c.rev \in Nat /\ c.rev >= 1 /\ c.rev <= tool[c.exec].attempt
              /\ c.phase = "ready" => sent[c.exec][c.rev] = 0
          BY <1>0, <3>2 DEF SentInv, CallRow
        <4>2. tool[c.exec].attempt \in Nat /\ tool'[c.exec].attempt \in Nat
              /\ tool[c.exec].attempt <= tool'[c.exec].attempt
          BY <1>0, <2>4, <2>5, <2>6
        <4> QED BY <2>4, <4>1, <4>2
      <3> QED BY <2>4, <3>1, <3>2
    <2>11. \A c, d \in calls' : c.exec \in Tools /\ c.exec = d.exec /\ c.rev = d.rev => c = d
      BY <2>3, <2>4, <2>8 DEF SentInv
    <2>12. \A y \in Tools : \A n \in 1 .. MaxToolAttempts :
             /\ sent'[y][n] <= 1
             /\ sent'[y][n] # 0 => n <= tool'[y].attempt
      <3> SUFFICES ASSUME NEW y \in Tools, NEW n \in 1 .. MaxToolAttempts
                   PROVE  /\ sent[y][n] <= 1
                          /\ sent[y][n] # 0 => n <= tool'[y].attempt
        BY <2>4
      <3>1. sent[y][n] <= 1 /\ (sent[y][n] # 0 => n <= tool[y].attempt)
        BY DEF SentInv
      <3>2. tool[y].attempt \in Nat /\ tool'[y].attempt \in Nat
            /\ tool[y].attempt <= tool'[y].attempt /\ n \in Nat
        BY <1>0, <2>4, <2>5, <2>6, SMTT(30)
      <3> QED BY <3>1, <3>2
    <2> QED BY <2>9, <2>10, <2>11, <2>12 DEF SentInv
  <1>3. ASSUME NEW c \in calls, ToolSends(c)
        PROVE  SentInv'
    <2>1. \A y \in Tools : tool'[y].attempt = tool[y].attempt
                           /\ (tool'[y].status = "absent" <=> tool[y].status = "absent")
      BY <1>3 DEF ToolSends, AttemptsRest, AttemptRests
    <2>2. PICK x, n : x = c.exec /\ n = c.rev
      OBVIOUS
    <2>3. /\ x \in Tools /\ c.phase = "ready" /\ c \in CallRow
          /\ sent' = [sent EXCEPT ![x][n] = @ + 1]
      BY <1>0, <1>3, <2>2 DEF ToolSends
    <2>4. PICK new : new = [c EXCEPT !.phase = "sent"]
      OBVIOUS
    <2>5. new.exec = x /\ new.rev = n /\ new.phase = "sent" /\ calls' = (calls \ {c}) \cup {new}
      BY <1>3, <2>2, <2>3, <2>4 DEF ToolSends, CallRow
    <2>6. n \in 1 .. MaxToolAttempts /\ sent[x][n] = 0 /\ n <= tool[x].attempt /\ n >= 1
      <3>1. /\ n >= 1 /\ n <= tool[x].attempt /\ sent[x][n] = 0
            /\ tool[x].attempt <= MaxToolAttempts
        BY <2>2, <2>3 DEF SentInv
      <3>2. n \in Nat
        BY <2>2, <2>3 DEF CallRow
      <3> QED BY <1>0, <2>3, <3>1, <3>2
    <2>7. /\ sent'[x][n] = 1
          /\ \A y \in Tools : \A m \in 1 .. MaxToolAttempts :
               y # x \/ m # n => sent'[y][m] = sent[y][m]
      BY <1>0, <2>3, <2>6
    <2>8. \A d \in calls \ {c} : d.exec # x \/ d.rev # n
      BY <2>2, <2>3 DEF SentInv
    <2>9. \A d \in calls' : d.exec \in Tools =>
             /\ d.rev >= 1 /\ d.rev <= tool'[d.exec].attempt
             /\ d.phase = "ready" => sent'[d.exec][d.rev] = 0
      <3> SUFFICES ASSUME NEW d \in calls', d.exec \in Tools
                   PROVE  /\ d.rev >= 1 /\ d.rev <= tool[d.exec].attempt
                          /\ d.phase = "ready" => sent'[d.exec][d.rev] = 0
        BY <2>1
      <3>1. CASE d = new
        BY <2>5, <2>6, <3>1
      <3>2. CASE d \in calls \ {c}
        <4>1. /\ d.rev \in Nat /\ d.rev >= 1 /\ d.rev <= tool[d.exec].attempt
              /\ d.phase = "ready" => sent[d.exec][d.rev] = 0
              /\ tool[d.exec].attempt <= MaxToolAttempts
          BY <1>0, <3>2 DEF SentInv, CallRow
        <4>2. d.rev \in 1 .. MaxToolAttempts
          BY <1>0, <4>1
        <4> QED BY <2>7, <2>8, <3>2, <4>1, <4>2
      <3> QED BY <2>5, <3>1, <3>2
    <2>10. \A d, e \in calls' : d.exec \in Tools /\ d.exec = e.exec /\ d.rev = e.rev => d = e
      BY <2>5, <2>8 DEF SentInv
    <2>11. \A y \in Tools : \A m \in 1 .. MaxToolAttempts :
             /\ sent'[y][m] <= 1
             /\ sent'[y][m] # 0 => m <= tool'[y].attempt
      <3> SUFFICES ASSUME NEW y \in Tools, NEW m \in 1 .. MaxToolAttempts
                   PROVE  /\ sent'[y][m] <= 1
                          /\ sent'[y][m] # 0 => m <= tool[y].attempt
        BY <2>1
      <3>1. sent[y][m] <= 1 /\ (sent[y][m] # 0 => m <= tool[y].attempt)
        BY DEF SentInv
      <3> QED BY <2>6, <2>7, <3>1
    <2> QED BY <2>1, <2>9, <2>10, <2>11 DEF SentInv
  <1> QED BY <1>1, <1>2, <1>3 DEF ToolEffect

\* A step that finishes no recovery Task and keeps the origins of finished ones.
LEMMA DoneKept ==
  ASSUME \A q \in RecoveryTasks :
           /\ task'[q].status = "succeeded" <=> task[q].status = "succeeded"
           /\ task[q].status = "succeeded" => origin'[q] = origin[q],
         NEW x
  PROVE  DoneRests(x)
  BY DEF DoneRests, Done

\* A step that leaves Tools, Tasks and origins alone.
LEMMA ToolsAlone ==
  ASSUME UNCHANGED <<tool, task, origin>>
  PROVE  AttemptsRest
  BY DEF AttemptsRest, AttemptRests, DoneRests, Done

\* A step that writes one Tool row with the same number of attempts.
LEMMA ToolRowAlone ==
  ASSUME tool \in ToolTable, NEW x \in Tools, NEW row, tool' = [tool EXCEPT ![x] = row],
         tool[x].status # "absent", row.status # "absent", row.attempt = tool[x].attempt,
         \A y \in Tools : DoneRests(y)
  PROVE  AttemptsRest
  BY DEF AttemptsRest, AttemptRests, ToolTable

\* The Run's own transactions finish no recovery Task: the recovery worker alone
\* holds them, and resolving, cancelling or rebasing makes no Task succeed.
LEMMA RunFinishesNone ==
  ASSUME SafeInv, RunStep, NEW q \in RecoveryTasks
  PROVE  task'[q].status = "succeeded" <=> task[q].status = "succeeded"
  <1>0. /\ task \in [Tasks -> TaskRow] /\ q \in Tasks /\ task[q] \in TaskRow
        /\ q \notin PlanTasks
    BY SafeTables, ExternalAssumption
  <1>1. task[q].status = "succeeded" => task'[q].status = "succeeded"
    BY <1>0, RunStepIsNext, StepSafe DEF FinalStep, TaskTerminal
  <1>2. ASSUME NEW tk \in [Tasks -> TaskRow], tk[q] = task[q], NEW starts, NEW dbnow \in DbNow
        PROVE  ResolveDependents(tk, starts, dbnow)[q].status = "succeeded"
                 => task[q].status = "succeeded"
    <2>1. Soft(tk[q], ResolveDependents(tk, starts, dbnow)[q])
      BY <1>0, <1>2, DbNowNat, ResolveRow, ResolvesSoft
    <2> QED BY <1>2, <2>1 DEF Soft
  <1>3. ASSUME NEW t \in Tasks \ RecoveryTasks, NEW k, WorkerStep(t, k)
        PROVE  task'[q].status = "succeeded" => task[q].status = "succeeded"
    <2>0. q # t
      OBVIOUS
    <2>1. CASE RenewTaskLease(t, k) \/ FailTaskRetry(t, k)
      BY <1>0, <2>0, <2>1 DEF RenewTaskLease, FailTaskRetry
    <2>2. ASSUME NEW s \in TaskStatus
          PROVE  /\ [task EXCEPT ![t] = Unlease(@, s)] \in [Tasks -> TaskRow]
                 /\ [task EXCEPT ![t] = Unlease(@, s)][q] = task[q]
      BY <1>0, <2>0, UnleaseType
    <2>3. CASE FailTaskDeadLetter(t, k)
      <3>1. PICK dbnow \in DbNow : FailTaskDeadLetter(t, k)!(dbnow)
        BY <2>3 DEF FailTaskDeadLetter
      <3>2. PICK tk \in [Tasks -> TaskRow] :
              /\ tk = [task EXCEPT ![t] = Unlease(@, "dead_lettered")] /\ tk[q] = task[q]
        BY <2>2 DEF TaskStatus, TaskTerminal
      <3>3. task' = ResolveDependents(tk, {t}, dbnow)
        BY <3>1, <3>2
      <3> QED BY <1>2, <3>2, <3>3
    <2>4. CASE FailTaskFatal(t, k)
      <3>1. PICK dbnow \in DbNow : FailTaskFatal(t, k)!(dbnow)
        BY <2>4 DEF FailTaskFatal
      <3>2. PICK tk \in [Tasks -> TaskRow] :
              /\ tk = [task EXCEPT ![t] = Unlease(@, "failed")] /\ tk[q] = task[q]
        BY <2>2 DEF TaskStatus, TaskTerminal
      <3>3. PICK res : res = ResolveDependents(tk, {t}, dbnow)
        OBVIOUS
      <3>4. task' = res \/ task' = CancelTasks(res)
        BY <3>1, <3>2, <3>3
      <3>5. res[q].status = "succeeded" => task[q].status = "succeeded"
        BY <1>2, <3>2, <3>3
      <3>6. res \in [Tasks -> TaskRow]
        BY <3>2, <3>3, DbNowNat, ResolveType
      <3>7. CancelTasks(res)[q].status = "succeeded" => res[q].status = "succeeded"
        BY <1>0, <3>6 DEF CancelTasks, Unlease, TaskRow
      <3> QED BY <3>4, <3>5, <3>7
    <2>5. ASSUME NEW dbnow \in DbNow, NEW result \in Results
          PROVE  CompletedTasks(t, result, dbnow)[q].status = "succeeded"
                   => task[q].status = "succeeded"
      <3>1. PICK u \in TaskRow : u = Unlease(task[t], "succeeded")
        BY <1>0, UnleaseType DEF TaskStatus, TaskTerminal
      <3>2. PICK row \in TaskRow : row = [u EXCEPT !.result = result]
        BY <2>5, <3>1 DEF TaskRow
      <3>3. PICK tk \in [Tasks -> TaskRow] : tk = [task EXCEPT ![t] = row]
        BY <1>0, <3>2
      <3>4. tk = [task EXCEPT ![t] = [Unlease(@, "succeeded") EXCEPT !.result = result]]
        BY <1>0, <3>1, <3>2, <3>3
      <3>5. CompletedTasks(t, result, dbnow) = ResolveDependents(tk, {t}, dbnow)
        BY <3>4 DEF CompletedTasks
      <3>6. tk[q] = task[q]
        BY <1>0, <2>0, <3>3
      <3> QED BY <1>2, <3>5, <3>6
    <2>6. CASE CompleteWithTasks(t, k)
      <3>1. PICK dbnow \in DbNow, result \in Results, new \in SUBSET PlanTasks,
                 d \in Delays :
              task' = InsertTasks(CompletedTasks(t, result, dbnow), new, "queued", dbnow + d)
        BY <2>6 DEF CompleteWithTasks
      <3>2. task'[q] = CompletedTasks(t, result, dbnow)[q]
        BY <1>0, <3>1 DEF InsertTasks
      <3> QED BY <2>5, <3>2
    <2>7. CASE CompleteWithRetry(t, k)
      <3>1. PICK dbnow \in DbNow, result \in Results, x \in PlanTasks, d \in Delays :
              task' = InsertTasks(CompletedTasks(t, result, dbnow), {x}, "retry_scheduled",
                                  dbnow + d)
        BY <2>7 DEF CompleteWithRetry
      <3>2. task'[q] = CompletedTasks(t, result, dbnow)[q]
        BY <1>0, <3>1 DEF InsertTasks
      <3> QED BY <2>5, <3>2
    <2>8. CASE CompleteWithWait(t, k) \/ CompleteAndFinish(t, k) \/ CompleteNoFurtherWork(t, k)
      <3>1. PICK dbnow \in DbNow, result \in Results : task' = CompletedTasks(t, result, dbnow)
        BY <2>8 DEF CompleteWithWait, CompleteAndFinish, CompleteNoFurtherWork
      <3> QED BY <2>5, <3>1
    <2> QED BY <1>3, <2>1, <2>3, <2>4, <2>6, <2>7, <2>8 DEF WorkerStep
  <1>4. ASSUME NEW t \in Tasks, NEW w \in Workers, ClaimTask(w, t)
        PROVE  task'[q].status = "succeeded" => task[q].status = "succeeded"
    <2>1. PICK row : /\ row.status = "leased" /\ task' = [task EXCEPT ![t] = row]
      <3>1. PICK dbnow \in DbNow : ClaimTask(w, t)!(dbnow)
        BY <1>4 DEF ClaimTask
      <3> QED BY <1>0, <3>1 DEF TaskRow
    <2> QED BY <1>0, <2>1
  <1>5. ASSUME NEW t \in Tasks, ReclaimExpiredLease(t)
        PROVE  task'[q].status = "succeeded" => task[q].status = "succeeded"
    <2>1. PICK row : /\ row.status # "succeeded" /\ task' = [task EXCEPT ![t] = row]
      <3>1. PICK dbnow \in DbNow : ReclaimExpiredLease(t)!(dbnow)
        BY <1>5 DEF ReclaimExpiredLease
      <3> QED BY <1>0, <3>1 DEF TaskRow, Unlease
    <2> QED BY <1>0, <2>1
  <1>6. CASE PauseRun
    <2>1. PICK dbnow \in DbNow : PauseRun!(dbnow)
      BY <1>6 DEF PauseRun
    <2>2. \/ task'[q] = task[q]
          \/ task'[q] = [Unlease(task[q], "retry_scheduled") EXCEPT !.available = dbnow]
      BY <1>0, <2>1
    <2>3. [Unlease(task[q], "retry_scheduled") EXCEPT !.available = dbnow].status
            = "retry_scheduled"
      BY <1>0 DEF Unlease, TaskRow
    <2> QED BY <1>1, <2>2, <2>3
  <1>7. CASE ResumeRun
    <2>1. PICK dbnow : task' = Rebase(task, dbnow)
      BY <1>7 DEF ResumeRun
    <2> QED BY <1>1, <1>0, <2>1 DEF Rebase, TaskRow
  <1>8. CASE CancelRun \/ TimeOutRun
    <2>1. task' = CancelTasks(task)
      BY <1>8 DEF CancelRun, TimeOutRun, TimeOut
    <2>2. CancelTasks(task)[q] = task[q] \/ CancelTasks(task)[q] = Unlease(task[q], "cancelled")
      BY <1>0 DEF CancelTasks
    <2>3. Unlease(task[q], "cancelled").status = "cancelled"
      BY <1>0 DEF Unlease, TaskRow
    <2> QED BY <1>1, <2>1, <2>2, <2>3
  <1>9. CASE Tick
    BY <1>9 DEF Tick
  <1> QED BY <1>1, <1>3, <1>4, <1>5, <1>6, <1>7, <1>8, <1>9 DEF RunStep

\* A terminal Tool row is final.
ToolsFinal == \A x \in Tools : tool[x].status \in ToolTerminal => tool'[x] = tool[x]

\* Steps that do not touch Tools.
LEMMA OtherSteps ==
  ASSUME UNCHANGED <<tool, task, origin, sent>>, \A c \in calls' \ calls : c.exec \notin Tools
  PROVE  ToolEffect /\ ToolsFinal
  BY ToolsAlone DEF ToolEffect, RequestsRest, ToolsFinal

\* The Run's own transactions may close or mark Tools, and begin no attempt.
LEMMA RunStepTools ==
  ASSUME WorkInv, RunStep
  PROVE  ToolEffect /\ ToolsFinal
  <1>1. UNCHANGED <<origin, workVars>>
    BY DEF RunStep
  <1>2. \A x \in Tools : ControlledTool(tool[x], tool'[x]) /\ tool[x] \in ToolRow
    BY RunStepIsNext, WorkTables, Controlled DEF SafeInv
  <1>3. \A x \in Tools : AttemptRests(x)
    BY <1>2 DEF AttemptRests, ControlledTool, ToolRow
  <1>4. \A x \in Tools : DoneRests(x)
    BY <1>1, WorkTables, RunFinishesNone, DoneKept
  <1>5. ToolsFinal
    BY <1>2 DEF ToolsFinal, ControlledTool, ToolTerminal
  <1> QED BY <1>1, <1>3, <1>4, <1>5 DEF ToolEffect, AttemptsRest, RequestsRest, workVars

\* prepare_tool_execution opens the first attempt.
LEMMA StartToolTools ==
  ASSUME WorkInv, SentInv, NEW t, NEW k, NEW x \in Tools, StartTool(t, k, x)
  PROVE  ToolEffect /\ ToolsFinal
  <1>1. /\ PrepareToolExecution(t, k, x)
        /\ calls' = calls \cup {Call(x, 1)} /\ sent' = sent
    BY DEF StartTool
  <1>2. PICK row : row = [status |-> "executing", attempt |-> 1, unfinished |-> 1,
                          recovery |-> "none", retry_at |-> Never]
    OBVIOUS
  <1>3. /\ tool[x].status = "absent" /\ tool' = [tool EXCEPT ![x] = row]
        /\ UNCHANGED <<task, origin>>
    BY <1>1, <1>2 DEF PrepareToolExecution, NewTool, WorkflowUnchanged
  <1>4. tool[x].attempt = 0 /\ 0 < MaxToolAttempts
    BY <1>3, ExternalAssumption DEF SentInv
  <1>5. tool \in ToolTable
    BY WorkTables
  <1>6. /\ tool'[x].attempt = 1 /\ tool'[x].status = "executing"
        /\ \A y \in Tools \ {x} : tool'[y] = tool[y]
    BY <1>2, <1>3, <1>5 DEF ToolTable
  <1>7. \A y \in Tools : DoneRests(y)
    BY <1>3 DEF DoneRests, Done
  <1>8. ToolBegins(x)
    BY <1>1, <1>3, <1>4, <1>6, <1>7 DEF ToolBegins, AttemptRests
  <1> QED BY <1>3, <1>6, <1>8 DEF ToolEffect, ToolsFinal, ToolTerminal

\* begin_tool_retry_attempt ends its recovery Task and opens the next attempt.
LEMMA RecoverToolTools ==
  ASSUME WorkInv, SentInv, NEW q \in RecoveryTasks, NEW k, NEW x \in Tools, RecoverTool(q, k, x)
  PROVE  ToolEffect /\ ToolsFinal
  <1>1. PICK n : n = origin[q].revision
    OBVIOUS
  <1>2. PICK dbnow \in DbNow : BeginToolRetryAttempt(q, k, x, n)!(dbnow)
    BY <1>1 DEF RecoverTool, BeginToolRetryAttempt
  <1>3. /\ tool[x] \in ToolRow /\ tool \in ToolTable /\ q \in Tasks
        /\ task \in [Tasks -> TaskRow] /\ task[q] \in TaskRow
    BY WorkTables, SafeTables, ExternalAssumption
  <1>4. /\ tool[x].status = "reconciling" /\ tool[x].attempt = n /\ n \in Nat
        /\ n < MaxToolAttempts /\ origin[q].exec = x /\ UNCHANGED <<origin, sent>>
    BY <1>2, <1>3 DEF RecoverTool, RetryTaskOrigin, ToolRow
  <1>5. PICK row : row = [tool[x] EXCEPT !.status = "executing", !.attempt = n + 1,
                                         !.unfinished = n + 1, !.recovery = "none"]
    OBVIOUS
  <1>6. row.status = "executing" /\ row.attempt = n + 1
    BY <1>3, <1>5 DEF ToolRow
  <1>7. tool' = [tool EXCEPT ![x] = row]
    BY <1>2, <1>5
  <1>8. /\ tool'[x].attempt = n + 1 /\ tool'[x].status = "executing"
        /\ \A y \in Tools \ {x} : tool'[y] = tool[y]
    BY <1>3, <1>6, <1>7 DEF ToolTable
  <1>9. /\ task[q].status = "leased" /\ task'[q].status = "succeeded"
        /\ \A r \in RecoveryTasks \ {q} : task'[r] = task[r]
    <2>1. task[q].status = "leased"
      BY <1>2, FencedLease
    <2>2. task' = [task EXCEPT ![q] = Unlease(task[q], "succeeded")]
      BY <1>2 DEF CompleteRecoveryTask
    <2>3. Unlease(task[q], "succeeded").status = "succeeded"
      BY <1>3 DEF Unlease, TaskRow
    <2> QED BY <1>3, <2>1, <2>2, <2>3, ExternalAssumption
  <1>10. \A y \in Tools \ {x} : DoneRests(y)
    BY <1>4, <1>9 DEF DoneRests, Done
  <1>11. q \notin Done(x) /\ Done(x)' = Done(x) \cup {q}
    BY <1>4, <1>9 DEF Done
  <1>12. calls' = calls \cup {Call(x, n + 1)}
    BY <1>8 DEF RecoverTool
  <1>13. ToolBegins(x)
    BY <1>1, <1>4, <1>8, <1>10, <1>11, <1>12 DEF ToolBegins, AttemptRests
  <1> QED BY <1>4, <1>8, <1>13 DEF ToolEffect, ToolsFinal, ToolTerminal

\* The request goes out.
LEMMA SendToolTools ==
  ASSUME NEW c \in calls, SendTool(c)
  PROVE  ToolEffect /\ ToolsFinal
  <1>1. UNCHANGED <<tool, task, origin>>
    BY DEF SendTool, vars, extVars
  <1>2. ToolSends(c)
    BY <1>1, ToolsAlone DEF SendTool, ToolSends
  <1> QED BY <1>1, <1>2 DEF ToolEffect, ToolsFinal

\* record_tool_outcome finishes the attempt that is open.
LEMMA FinishToolTools ==
  ASSUME WorkInv, NEW c \in calls, NEW o \in ToolOutcomes, FinishTool(c, o)
  PROVE  ToolEffect /\ ToolsFinal
  <1>1. PICK x \in Tools : x = c.exec
    BY DEF FinishTool
  <1>2. PICK n : n = c.rev
    OBVIOUS
  <1>3. PICK dbnow \in DbNow, d \in RetryDelays : RecordToolOutcome(x, n, o)!(dbnow, d)
    BY <1>1, <1>2 DEF FinishTool, RecordToolOutcome
  <1>4. PICK row :
          row = [status |-> ToolProjection[o].status, attempt |-> n, unfinished |-> 0,
                 recovery |-> ToolProjection[o].recovery,
                 retry_at |-> IF o = "backoff" THEN dbnow + d ELSE Never]
    OBVIOUS
  <1>5. row.attempt = n /\ row.status # "absent"
    BY <1>4 DEF ToolProjection, ToolOutcomes
  <1>6. /\ tool[x].status \in {"executing", "reconciling"} /\ tool[x].attempt = n
        /\ tool' = [tool EXCEPT ![x] = row] /\ UNCHANGED <<task, origin>>
    BY <1>3, <1>4 DEF WorkflowUnchanged
  <1>7. \A y \in Tools : DoneRests(y)
    BY <1>6 DEF DoneRests, Done
  <1>8. AttemptsRest
    BY <1>5, <1>6, <1>7, WorkTables, ToolRowAlone
  <1>9. ToolsFinal
    BY <1>6, WorkTables DEF ToolsFinal, ToolTerminal, ToolTable
  <1>10. RequestsRest
    BY DEF FinishTool, RequestsRest
  <1> QED BY <1>8, <1>9, <1>10 DEF ToolEffect

\* A silent Tool execution is put back for a retry.
LEMMA MaintainToolTools ==
  ASSUME WorkInv, NEW x \in Tools, MaintainTool(x)
  PROVE  ToolEffect /\ ToolsFinal
  <1>1. PICK dbnow \in DbNow : ApplyStaleTool(x)!(dbnow)
    BY DEF MaintainTool, ApplyStaleTool
  <1>2. PICK row : row = [tool[x] EXCEPT !.status = "retry_scheduled",
                                         !.recovery = "query_outcome", !.retry_at = dbnow]
    OBVIOUS
  <1>3. row.attempt = tool[x].attempt /\ row.status = "retry_scheduled"
    BY <1>2, WorkTables DEF ToolRow
  <1>4. /\ tool[x].status \in {"executing", "outcome_unknown"}
        /\ tool' = [tool EXCEPT ![x] = row] /\ UNCHANGED <<task, origin>>
    BY <1>1, <1>2 DEF WorkflowUnchanged
  <1>5. \A y \in Tools : DoneRests(y)
    BY <1>4 DEF DoneRests, Done
  <1>6. AttemptsRest
    BY <1>3, <1>4, <1>5, WorkTables, ToolRowAlone
  <1>7. ToolsFinal
    BY <1>4, WorkTables DEF ToolsFinal, ToolTerminal, ToolTable
  <1>8. RequestsRest
    BY DEF MaintainTool, RequestsRest, workVars
  <1> QED BY <1>6, <1>7, <1>8 DEF ToolEffect

\* begin_agent_resubmission ends a recovery Task, but none of a Tool.
LEMMA ResubmitAgentTools ==
  ASSUME WorkInv, NEW q \in RecoveryTasks, NEW k, NEW a \in Agents, ResubmitAgent(q, k, a)
  PROVE  ToolEffect /\ ToolsFinal
  <1>1. PICK v : v = agent[a].version
    OBVIOUS
  <1>2. PICK dbnow \in DbNow : BeginAgentResubmission(q, k, a, v)!(dbnow)
    BY <1>1 DEF ResubmitAgent, BeginAgentResubmission
  <1>3. /\ UNCHANGED <<tool, origin, sent>> /\ origin[q].exec = a /\ a \notin Tools
        /\ calls' = calls \cup {Call(a, agent'[a].version)}
    BY <1>2, ExternalAssumption DEF RetryTaskOrigin, ResubmitAgent
  <1>4. \A r \in RecoveryTasks \ {q} : task'[r] = task[r]
    BY <1>2, ExternalAssumption, WorkTables, SafeTables DEF CompleteRecoveryTask
  <1>5. \A x \in Tools : DoneRests(x)
    BY <1>3, <1>4 DEF DoneRests, Done
  <1>6. RequestsRest
    BY <1>3 DEF RequestsRest, Call
  <1> QED BY <1>3, <1>5, <1>6 DEF ToolEffect, ToolsFinal, AttemptsRest, AttemptRests

\* apply_due_work consumes a retry and inserts a Task that has begun nothing.
LEMMA SchedulerTools ==
  ASSUME WorkInv, SchedulerApplies
  PROVE  ToolEffect /\ ToolsFinal
  <1>1. UNCHANGED workVars
    BY DEF SchedulerApplies
  <1>2. PICK q \in RecoveryTasks : ApplyDueWork(hint, q)
    BY DEF SchedulerApplies, UnusedRecoveryTasks
  <1>3. PICK dbnow \in DbNow : ApplyDueWork(hint, q)!(dbnow)
    BY <1>2 DEF ApplyDueWork
  <1>4. /\ task \in [Tasks -> TaskRow] /\ q \in Tasks /\ origin \in [RecoveryTasks -> OriginRow]
    BY WorkTables, SafeTables, ExternalAssumption DEF WorkInv, StoreTypes
  <1>5. task[q].status = "absent" /\ ConsumeDueWork(hint)
    BY <1>3
  <1>6. PICK new, o : /\ new.status # "succeeded" /\ task' = [task EXCEPT ![q] = new]
                      /\ origin' = [origin EXCEPT ![q] = o]
    <2>1. \E st \in {"scheduled", "queued"} :
            task' = [task EXCEPT ![q] = NewTask(st, run.generation, hint.due)]
      BY <1>3
    <2>2. origin' = [origin EXCEPT ![q] = DueIdentity(hint)]
      BY <1>3
    <2> QED BY <2>1, <2>2 DEF NewTask
  <1>7. \A r \in RecoveryTasks :
           /\ task'[r].status = "succeeded" <=> task[r].status = "succeeded"
           /\ task[r].status = "succeeded" => origin'[r] = origin[r]
    BY <1>4, <1>5, <1>6, ExternalAssumption
  <1>8. \A x \in Tools : DoneRests(x)
    BY <1>7, DoneKept
  <1>9. RequestsRest
    BY <1>1 DEF RequestsRest, workVars
  <1>10. CASE tool' = tool
    BY <1>8, <1>9, <1>10 DEF ToolEffect, ToolsFinal, AttemptsRest, AttemptRests
  <1>11. CASE tool' # tool
    <2>1. PICK x \in Tools : x = hint.exec
      BY <1>5, <1>11 DEF ConsumeDueWork
    <2>2. PICK row : row = [tool[x] EXCEPT !.status = "reconciling",
                              !.recovery = "retry_same_request", !.retry_at = Never]
      OBVIOUS
    <2>3. row.attempt = tool[x].attempt /\ row.status = "reconciling"
      BY <2>2, WorkTables DEF ToolRow
    <2>4. tool[x].status = "retry_scheduled" /\ tool' = [tool EXCEPT ![x] = row]
      BY <1>5, <1>11, <2>1, <2>2 DEF ConsumeDueWork
    <2>5. AttemptsRest
      BY <1>8, <2>3, <2>4, WorkTables, ToolRowAlone
    <2>6. ToolsFinal
      BY <2>4, WorkTables DEF ToolsFinal, ToolTerminal, ToolTable
    <2> QED BY <1>9, <2>5, <2>6 DEF ToolEffect
  <1> QED BY <1>10, <1>11

----------------------------------------------------------------------------
(***************************************************************************)
(* Agents: versions, calls in flight and remote identities.                *)
(***************************************************************************)

NoNewSubmission == \A c \in calls' \ calls : c.exec \notin Agents

\* A row that moves on by one version and keeps its remote identity.
AgentMoved(a) ==
  /\ agent'[a].version = agent[a].version + 1
  /\ agent'[a].remote = agent[a].remote
  /\ agent'[a].status \notin {"absent", "planned"}

AgentsMove ==
  /\ NoNewSubmission
  /\ \A a \in Agents : agent'[a] = agent[a] \/ AgentMoved(a)

OthersKeep(a) == \A b \in Agents \ {a} : agent'[b] = agent[b]

\* A new execution and its first submission.
AgentStarts(a) ==
  /\ agent[a].status = "absent" /\ agent'[a].status = "submitting"
  /\ agent'[a].version = agent[a].version /\ agent'[a].remote = agent[a].remote
  /\ OthersKeep(a)
  /\ calls' = calls \cup {Call(a, agent[a].version)}

\* A new submission of an execution without a remote Run.
AgentResubmits(a) ==
  /\ agent[a].remote = "none" /\ agent'[a].remote = "none"
  /\ agent'[a].status = "outcome_unknown" /\ agent'[a].version = agent[a].version + 1
  /\ OthersKeep(a)
  /\ calls' = calls \cup {Call(a, agent[a].version + 1)}

\* Submission c reaches the Agent server.
AgentSends(c) ==
  /\ agent' = agent
  /\ c.exec \in Agents
  /\ calls' = (calls \ {c}) \cup {[c EXCEPT !.phase = "sent"]}

\* The outcome of submission c is recorded.
AgentRecords(c) ==
  /\ c.exec \in Agents
  /\ AwaitsSubmission(c.exec, c.rev)
  /\ agent'[c.exec].version = agent[c.exec].version + 1
  /\ agent'[c.exec].status \notin {"absent", "planned"}
  /\ OthersKeep(c.exec)
  /\ calls' = calls \ {c}

AgentEffect ==
  \/ AgentsMove
  \/ \E a \in Agents : AgentStarts(a) \/ AgentResubmits(a)
  \/ \E c \in calls : AgentSends(c) \/ AgentRecords(c)

\* What CallsInv says of one call.
CallOK(c) ==
  /\ agent[c.exec].status # "absent"
  /\ c.rev <= agent[c.exec].version
  /\ agent[c.exec].version <= c.rev + 1 => agent[c.exec].remote = "none"
  /\ agent[c.exec].version = c.rev
       => agent[c.exec].status \in {"submitting", "outcome_unknown"}

\* A call whose row did not change, or moved on, is still in order.
LEMMA CallFollows ==
  ASSUME NEW c \in CallRow, c.exec \in Agents, CallOK(c), agent[c.exec].version \in Nat,
         agent'[c.exec] = agent[c.exec] \/ AgentMoved(c.exec)
  PROVE  CallOK(c)'
  <1>1. c.rev \in Nat
    BY DEF CallRow
  <1>2. CASE agent'[c.exec] = agent[c.exec]
    BY <1>2 DEF CallOK
  <1>3. CASE AgentMoved(c.exec)
    BY <1>1, <1>3 DEF CallOK, AgentMoved
  <1> QED BY <1>2, <1>3

\* Calls in flight through a step.
LEMMA CallsFollow ==
  ASSUME WorkInv, CallsInv, AgentEffect
  PROVE  CallsInv'
  <1>0. /\ calls \subseteq CallRow
        /\ \A a \in Agents : agent[a].version \in Nat
        /\ \A c \in calls : c.exec \in Agents => CallOK(c)
    BY WorkTables DEF WorkInv, ProcessTypes, CallsInv, CallOK
  <1>1. CASE AgentsMove
    <2>1. \A a \in Agents : /\ agent'[a].status # "planned"
                            /\ agent'[a].status = "absent" => agent'[a].remote = "none"
      BY <1>1 DEF AgentsMove, AgentMoved, CallsInv
    <2>2. \A c \in calls' : c.exec \in Agents => c \in calls
      BY <1>1 DEF AgentsMove, NoNewSubmission
    <2>3. ASSUME NEW c \in calls', c.exec \in Agents
          PROVE  CallOK(c)'
      <3>1. c \in calls /\ c \in CallRow
        BY <1>0, <2>2, <2>3
      <3> QED BY <1>0, <1>1, <2>3, <3>1, CallFollows DEF AgentsMove
    <2>4. \A c, d \in calls' : c.exec \in Agents /\ c.exec = d.exec /\ c.rev = d.rev => c = d
      BY <2>2 DEF CallsInv
    <2> QED BY <2>1, <2>3, <2>4 DEF CallsInv, CallOK
  <1>2. ASSUME NEW a \in Agents, AgentStarts(a) \/ AgentResubmits(a)
        PROVE  CallsInv'
    <2>1. PICK v : v = IF AgentStarts(a) THEN agent[a].version ELSE agent[a].version + 1
      OBVIOUS
    <2>2. PICK new : new = Call(a, v)
      OBVIOUS
    <2>3. new.exec = a /\ new.rev = v
      BY <2>2 DEF Call
    <2>4. /\ v \in Nat
          /\ agent'[a].version = v /\ agent'[a].remote = "none"
          /\ agent'[a].status \in {"submitting", "outcome_unknown"}
          /\ calls' = calls \cup {new}
          /\ \A b \in Agents \ {a} : agent'[b] = agent[b]
      BY <1>0, <1>2, <2>1, <2>2 DEF AgentStarts, AgentResubmits, OthersKeep, CallsInv
    <2>5. \A c \in calls : c.exec = a => c.rev < v
      <3> SUFFICES ASSUME NEW c \in calls, c.exec = a
                   PROVE  c.rev < v
        OBVIOUS
      <3>1. /\ c.rev \in Nat /\ c.rev <= agent[a].version /\ agent[a].version \in Nat
            /\ agent[a].status # "absent"
        BY <1>0 DEF CallOK, CallRow
      <3>2. v = agent[a].version + 1
        BY <1>2, <2>1, <3>1 DEF AgentStarts
      <3> QED BY <3>1, <3>2
    <2>6. \A b \in Agents : /\ agent'[b].status # "planned"
                            /\ agent'[b].status = "absent" => agent'[b].remote = "none"
      BY <2>4 DEF CallsInv
    <2>7. ASSUME NEW c \in calls', c.exec \in Agents
          PROVE  CallOK(c)'
      <3>1. CASE c = new
        BY <2>3, <2>4, <3>1 DEF CallOK
      <3>2. CASE c \in calls /\ c.exec = a
        <4>1. c.rev \in Nat /\ c.rev < v
          BY <1>0, <2>5, <3>2 DEF CallRow
        <4> QED BY <2>4, <3>2, <4>1 DEF CallOK
      <3>3. CASE c \in calls /\ c.exec # a
        BY <1>0, <2>4, <2>7, <3>3 DEF CallOK
      <3> QED BY <2>4, <3>1, <3>2, <3>3
    <2>8. \A c, d \in calls' : c.exec \in Agents /\ c.exec = d.exec /\ c.rev = d.rev => c = d
      <3>1. \A c \in calls : c.exec = a => c.rev # v
        <4> SUFFICES ASSUME NEW c \in calls, c.exec = a
                     PROVE  c.rev # v
          OBVIOUS
        <4> QED BY <1>0, <2>4, <2>5 DEF CallRow
      <3> QED BY <2>3, <2>4, <3>1 DEF CallsInv
    <2> QED BY <2>6, <2>7, <2>8 DEF CallsInv, CallOK
  <1>3. ASSUME NEW c \in calls, AgentSends(c)
        PROVE  CallsInv'
    <2>1. PICK new : new = [c EXCEPT !.phase = "sent"]
      OBVIOUS
    <2>2. new.exec = c.exec /\ new.rev = c.rev
      BY <1>0, <2>1 DEF CallRow
    <2>3. agent' = agent /\ calls' = (calls \ {c}) \cup {new} /\ c.exec \in Agents
      BY <1>3, <2>1 DEF AgentSends
    <2>4. ASSUME NEW d \in calls', d.exec \in Agents
          PROVE  CallOK(d)'
      BY <1>0, <2>2, <2>3, <2>4 DEF CallOK
    <2>5. \A d, e \in calls' : d.exec \in Agents /\ d.exec = e.exec /\ d.rev = e.rev => d = e
      BY <2>2, <2>3 DEF CallsInv
    <2> QED BY <2>3, <2>4, <2>5 DEF CallsInv, CallOK
  <1>4. ASSUME NEW c \in calls, AgentRecords(c)
        PROVE  CallsInv'
    <2>1. PICK a \in Agents : a = c.exec
      BY <1>4 DEF AgentRecords
    <2>2. /\ AwaitsSubmission(a, c.rev)
          /\ agent'[a].version = agent[a].version + 1
          /\ agent'[a].status \notin {"absent", "planned"}
          /\ \A b \in Agents \ {a} : agent'[b] = agent[b]
          /\ calls' = calls \ {c}
      BY <1>4, <2>1 DEF AgentRecords, OthersKeep
    <2>3. \A b \in Agents : /\ agent'[b].status # "planned"
                            /\ agent'[b].status = "absent" => agent'[b].remote = "none"
      BY <2>2 DEF CallsInv
    <2>4. ASSUME NEW d \in calls', d.exec \in Agents
          PROVE  CallOK(d)'
      <3>0. d \in calls /\ d # c /\ CallOK(d) /\ d.rev \in Nat /\ c.rev \in Nat
        BY <1>0, <2>2, <2>4 DEF CallRow
      <3>1. CASE d.exec # a
        BY <2>2, <2>4, <3>0, <3>1 DEF CallOK
      <3>2. CASE d.exec = a
        <4>1. d.rev # c.rev
          BY <2>1, <3>0, <3>2 DEF CallsInv
        <4>2. agent[a].version \in Nat /\ d.rev <= agent[a].version
          BY <1>0, <3>0, <3>2 DEF CallOK
        <4>3. d.rev # agent[a].version
          <5>1. CASE agent[a].version = c.rev
            BY <4>1, <5>1
          <5>2. CASE agent[a].status = "stopping" /\ agent[a].version = c.rev + 1
            BY <3>0, <3>2, <5>2 DEF CallOK
          <5> QED BY <2>2, <5>1, <5>2 DEF AwaitsSubmission, LateAfterStop
        <4>4. d.rev + 1 < agent'[a].version
          BY <2>2, <3>0, <4>2, <4>3
        <4> QED BY <2>2, <3>0, <3>2, <4>2, <4>4 DEF CallOK
      <3> QED BY <3>1, <3>2
    <2>5. \A d, e \in calls' : d.exec \in Agents /\ d.exec = e.exec /\ d.rev = e.rev => d = e
      BY <2>2 DEF CallsInv
    <2> QED BY <2>3, <2>4, <2>5 DEF CallsInv, CallOK
  <1> QED BY <1>1, <1>2, <1>3, <1>4 DEF AgentEffect

----------------------------------------------------------------------------
(***************************************************************************)
(* Agents: what is terminal is true, and what is known stays known.        *)
(***************************************************************************)

\* A remote Run that ended stays as it ended.
RemoteKept == \A a \in Agents : remote[a] \in RemoteTerminal => remote'[a] = remote[a]

\* Rows become terminal, and pollers hold terminal statuses, only as told.
RowsTold ==
  \A a \in Agents : agent'[a].status \in AgentTerminal =>
    \/ agent'[a] = agent[a] \/ EndedAs(a, agent'[a].status)
    \/ report'[a] = "made" /\ agent'[a].status = "succeeded"
    \/ agent'[a].remote = "none" /\ agent'[a].status # "succeeded"
HeldTold ==
  \A p \in Pollers :
    \/ polled'[p] = polled[p] \/ polled'[p] = Idle
    \/ /\ polled'[p].exec \in Agents
       /\ polled'[p].kind = "outcome" /\ polled'[p].status \in AgentTerminal
            => EndedAs(polled'[p].exec, polled'[p].status)

\* A terminal row is final and a remote identity is never forgotten.
AgentsFinal ==
  \A a \in Agents : /\ agent[a].status \in AgentTerminal => agent'[a] = agent[a]
                    /\ agent[a].remote = "known" => agent'[a].remote = "known"

TruthEffect == AgentEffect /\ RemoteKept /\ RowsTold /\ HeldTold /\ AgentsFinal

\* A report that was made stays made.
ReportKept == \A a \in Agents : report[a] = "made" => report'[a] = "made"

\* Truth through a step.
LEMMA TruthFollows ==
  ASSUME WorkInv, TruthInv, TruthEffect, ReportKept
  PROVE  TruthInv'
  <1>1. ASSUME NEW a \in Agents, NEW s, EndedAs(a, s)
        PROVE  remote'[a] \in RemoteTerminal /\ s = StatusProjection[remote'[a]]
    BY <1>1 DEF EndedAs, TruthEffect, RemoteKept
  <1>2. ASSUME NEW a \in Agents, agent'[a].status \in AgentTerminal
        PROVE  \/ /\ remote'[a] \in RemoteTerminal
                  /\ agent'[a].status = StatusProjection[remote'[a]]
               \/ report'[a] = "made" /\ agent'[a].status = "succeeded"
               \/ agent'[a].remote = "none" /\ agent'[a].status # "succeeded"
    <2>1. \/ EndedAs(a, agent'[a].status)
          \/ report'[a] = "made" /\ agent'[a].status = "succeeded"
          \/ agent'[a].remote = "none" /\ agent'[a].status # "succeeded"
      BY <1>2 DEF TruthInv, RowTrue, TruthEffect, RowsTold, ReportKept
    <2> QED BY <1>1, <2>1
  <1>3. ASSUME NEW p \in Pollers, polled'[p] # Idle, polled'[p].kind = "outcome",
               polled'[p].status \in AgentTerminal
        PROVE  /\ remote'[polled'[p].exec] \in RemoteTerminal
               /\ polled'[p].status = StatusProjection[remote'[polled'[p].exec]]
    <2>1. PICK h : h = polled'[p]
      OBVIOUS
    <2>2. h.exec \in Agents /\ EndedAs(h.exec, h.status)
      <3>1. CASE h = polled[p]
        <4>1. h \in OutcomeRow
          BY <1>3, <2>1, <3>1, HeldCandidate
        <4> QED BY <1>3, <2>1, <3>1, <4>1 DEF OutcomeRow, TruthInv
      <3>2. CASE h # polled[p]
        BY <1>3, <2>1, <3>2 DEF TruthEffect, HeldTold
      <3> QED BY <3>1, <3>2
    <2> QED BY <1>1, <2>1, <2>2
  <1> QED BY <1>2, <1>3 DEF TruthInv, RowTrue, EndedAs

\* Steps that do not touch Agents.
LEMMA OtherAgents ==
  ASSUME UNCHANGED <<agent, remote, polled>>, NoNewSubmission
  PROVE  TruthEffect
  BY DEF TruthEffect, AgentEffect, AgentsMove, RemoteKept, RowsTold, HeldTold, AgentsFinal

\* Steps that move one row on by a version.
LEMMA AgentRowMoves ==
  ASSUME WorkInv, NEW a \in Agents, NEW row, agent' = [agent EXCEPT ![a] = row],
         row.version = agent[a].version + 1, row.remote = agent[a].remote,
         row.status \notin {"absent", "planned"}, agent[a].status \notin AgentTerminal,
         row.status \in AgentTerminal =>
           EndedAs(a, row.status) \/ (report'[a] = "made" /\ row.status = "succeeded"),
         NoNewSubmission, RemoteKept, HeldTold
  PROVE  TruthEffect
  <1>1. agent'[a] = row /\ \A b \in Agents \ {a} : agent'[b] = agent[b]
    BY WorkTables DEF AgentTable
  <1>2. AgentMoved(a)
    BY <1>1 DEF AgentMoved
  <1>3. AgentEffect
    BY <1>1, <1>2 DEF AgentEffect, AgentsMove
  <1>4. RowsTold
    <2> SUFFICES ASSUME NEW b \in Agents, agent'[b].status \in AgentTerminal
                 PROVE  \/ agent'[b] = agent[b] \/ EndedAs(b, agent'[b].status)
                        \/ report'[b] = "made" /\ agent'[b].status = "succeeded"
      BY DEF RowsTold
    <2>1. CASE b = a
      BY <1>1, <2>1
    <2>2. CASE b # a
      BY <1>1, <2>2
    <2> QED BY <2>1, <2>2
  <1>5. AgentsFinal
    <2> SUFFICES ASSUME NEW b \in Agents
                 PROVE  /\ agent[b].status \in AgentTerminal => agent'[b] = agent[b]
                        /\ agent[b].remote = "known" => agent'[b].remote = "known"
      BY DEF AgentsFinal
    <2>1. CASE b = a
      BY <1>1, <2>1
    <2>2. CASE b # a
      BY <1>1, <2>2
    <2> QED BY <2>1, <2>2
  <1> QED BY <1>3, <1>4, <1>5 DEF TruthEffect

\* The Run's own transactions only ask executions to stop: none is planned.
LEMMA RunStepAgents ==
  ASSUME WorkInv, CallsInv, RunStep
  PROVE  TruthEffect
  <1>1. UNCHANGED <<calls, remote, polled>>
    BY DEF RunStep, workVars
  <1>2. ASSUME NEW a \in Agents
        PROVE  \/ agent'[a] = agent[a]
               \/ /\ agent[a].status \notin AgentTerminal
                  /\ agent'[a].status = "stopping" /\ AgentMoved(a)
    <2>1. /\ ControlledAgent(agent[a], agent'[a]) /\ agent[a] \in AgentRow
          /\ agent[a].status # "planned"
      BY RunStepIsNext, WorkTables, Controlled DEF SafeInv, CallsInv
    <2>2. CASE /\ agent[a].status \in {"submitting", "running"}
               /\ agent'[a] = [agent[a] EXCEPT !.status = "stopping", !.version = @ + 1]
      <3>1. /\ agent'[a].status = "stopping" /\ agent'[a].version = agent[a].version + 1
            /\ agent'[a].remote = agent[a].remote
        BY <2>1, <2>2 DEF AgentRow
      <3> QED BY <2>2, <3>1 DEF AgentMoved, AgentTerminal
    <2> QED BY <2>1, <2>2 DEF ControlledAgent
  <1>3. AgentEffect
    BY <1>1, <1>2 DEF AgentEffect, AgentsMove, NoNewSubmission
  <1>4. RowsTold /\ AgentsFinal
    BY <1>2 DEF RowsTold, AgentsFinal, AgentMoved, AgentTerminal
  <1> QED BY <1>1, <1>3, <1>4 DEF TruthEffect, RemoteKept, HeldTold

\* prepare_agent_execution.
LEMMA StartAgentAgents ==
  ASSUME WorkInv, NEW t, NEW k, NEW a \in Agents, StartAgent(t, k, a)
  PROVE  TruthEffect
  <1>1. /\ calls' = calls \cup {Call(a, agent[a].version)} /\ UNCHANGED <<remote, polled>>
    BY DEF StartAgent
  <1>2. agent[a].status = "absent" /\ agent' = [agent EXCEPT ![a].status = "submitting"]
    BY DEF StartAgent, PrepareAgentExecution, NewAgent
  <1>3. agent \in AgentTable /\ agent[a] \in AgentRow
    BY WorkTables
  <1>4. /\ agent'[a].status = "submitting" /\ agent'[a].version = agent[a].version
        /\ agent'[a].remote = agent[a].remote /\ \A b \in Agents \ {a} : agent'[b] = agent[b]
    BY <1>2, <1>3 DEF AgentTable, AgentRow
  <1>5. AgentEffect
    BY <1>1, <1>2, <1>4 DEF AgentEffect, AgentStarts, OthersKeep
  <1>6. RowsTold /\ AgentsFinal
    BY <1>2, <1>4 DEF RowsTold, AgentsFinal, AgentTerminal
  <1> QED BY <1>1, <1>5, <1>6 DEF TruthEffect, RemoteKept, HeldTold

\* begin_agent_resubmission.
LEMMA ResubmitAgentAgents ==
  ASSUME WorkInv, NEW q, NEW k, NEW a \in Agents, ResubmitAgent(q, k, a)
  PROVE  TruthEffect
  <1>1. UNCHANGED <<remote, polled>> /\ calls' = calls \cup {Call(a, agent'[a].version)}
    BY DEF ResubmitAgent
  <1>2. PICK v : v = agent[a].version
    OBVIOUS
  <1>3. PICK dbnow \in DbNow : BeginAgentResubmission(q, k, a, v)!(dbnow)
    BY <1>2 DEF ResubmitAgent, BeginAgentResubmission
  <1>4. PICK row : row = [agent[a] EXCEPT !.status = "outcome_unknown", !.version = v + 1,
                                          !.poll_at = Never]
    OBVIOUS
  <1>5. row.status = "outcome_unknown" /\ row.version = v + 1 /\ row.remote = agent[a].remote
    BY <1>4, WorkTables DEF AgentRow
  <1>6. /\ agent[a].status = "reconciling" /\ agent[a].remote = "none"
        /\ agent' = [agent EXCEPT ![a] = row]
    BY <1>3, <1>4
  <1>7. agent'[a] = row /\ \A b \in Agents \ {a} : agent'[b] = agent[b]
    BY <1>6, WorkTables DEF AgentTable
  <1>8. AgentEffect
    BY <1>1, <1>2, <1>5, <1>6, <1>7 DEF AgentEffect, AgentResubmits, OthersKeep
  <1>9. RowsTold /\ AgentsFinal
    BY <1>5, <1>6, <1>7 DEF RowsTold, AgentsFinal, AgentTerminal
  <1> QED BY <1>1, <1>8, <1>9 DEF TruthEffect, RemoteKept, HeldTold

\* A submission arrives; a remote Run that has ended is not started again.
LEMMA SubmitAgentAgents ==
  ASSUME WorkInv, NEW c \in calls, SubmitAgent(c)
  PROVE  TruthEffect
  <1>1. /\ UNCHANGED <<agent, polled>> /\ c.exec \in Agents
        /\ calls' = (calls \ {c}) \cup {[c EXCEPT !.phase = "sent"]}
        /\ remote' = [remote EXCEPT ![c.exec] = IF @ = "none" THEN "running" ELSE @]
    BY DEF SubmitAgent, vars
  <1>2. AgentEffect
    BY <1>1 DEF AgentEffect, AgentSends
  <1>3. RemoteKept
    BY <1>1 DEF RemoteKept, RemoteTerminal, WorkInv, ProcessTypes
  <1> QED BY <1>1, <1>2, <1>3 DEF TruthEffect, RowsTold, HeldTold, AgentsFinal

\* record_agent_submission: the row knew no remote Run, so none is forgotten, and
\* an outcome that ends the execution leaves no remote Run known.
LEMMA FinishSubmissionAgents ==
  ASSUME WorkInv, CallsInv, NEW c \in calls, NEW o \in SubmissionOutcomes, FinishSubmission(c, o)
  PROVE  TruthEffect
  <1>1. c.exec \in Agents /\ calls' = calls \ {c} /\ UNCHANGED <<remote, polled>>
    BY DEF FinishSubmission
  <1>2. PICK a \in Agents : a = c.exec
    BY <1>1
  <1>3. PICK v : v = c.rev
    OBVIOUS
  <1>4. PICK dbnow \in DbNow, d \in RetryDelays : RecordAgentSubmission(a, v, o)!(dbnow, d)
    BY <1>2, <1>3 DEF FinishSubmission, RecordAgentSubmission
  <1>5. PICK s : s = SubmittedStatus(a, v, o)
    OBVIOUS
  <1>6. /\ s \notin {"absent", "planned", "succeeded"}
        /\ s \in AgentTerminal => o # "accepted"
    BY <1>5 DEF SubmittedStatus, SubmissionProjection, SubmissionOutcomes, AgentTerminal
  <1>7. PICK row : row = [agent[a] EXCEPT !.status = s, !.version = @ + 1,
                            !.remote = IF o = "accepted" THEN "known" ELSE "none",
                            !.retry_at = IF o = "backoff" THEN dbnow + d ELSE Never,
                            !.poll_at = IF s = "running" THEN dbnow ELSE Never]
    OBVIOUS
  <1>8. /\ row.status = s /\ row.version = agent[a].version + 1
        /\ row.remote = IF o = "accepted" THEN "known" ELSE "none"
    BY <1>7, WorkTables DEF AgentRow
  <1>9. agent' = [agent EXCEPT ![a] = row] /\ AwaitsSubmission(a, v)
    BY <1>4, <1>5, <1>7, WorkTables DEF AgentRow
  <1>10. agent'[a] = row /\ \A b \in Agents \ {a} : agent'[b] = agent[b]
    BY <1>9, WorkTables DEF AgentTable
  <1>11. AgentEffect
    BY <1>1, <1>2, <1>3, <1>6, <1>8, <1>9, <1>10 DEF AgentEffect, AgentRecords, OthersKeep
  <1>12. agent[a].status \notin AgentTerminal /\ agent[a].remote = "none"
    <2>1. agent[a].version = v \/ agent[a].version = v + 1
      BY <1>9 DEF AwaitsSubmission, LateAfterStop
    <2>2. v \in Nat /\ agent[a].version <= v + 1
      BY <1>3, <2>1 DEF WorkInv, ProcessTypes, CallRow
    <2>3. agent[a].remote = "none"
      BY <1>2, <1>3, <2>2 DEF CallsInv
    <2> QED BY <1>9, <2>3 DEF AwaitsSubmission, LateAfterStop, AgentTerminal
  <1>13. RowsTold
    BY <1>6, <1>8, <1>10 DEF RowsTold
  <1>14. AgentsFinal
    BY <1>10, <1>12 DEF AgentsFinal
  <1> QED BY <1>1, <1>11, <1>13, <1>14 DEF TruthEffect, RemoteKept, HeldTold

\* A silent Agent execution is reconciled.
LEMMA MaintainAgentAgents ==
  ASSUME WorkInv, NEW a \in Agents, MaintainAgent(a)
  PROVE  TruthEffect
  <1>1. UNCHANGED <<calls, remote, polled>>
    BY DEF MaintainAgent, workVars
  <1>2. PICK dbnow \in DbNow : ApplyStaleAgent(a)!(dbnow)
    BY DEF MaintainAgent, ApplyStaleAgent
  <1>3. PICK row : row = [agent[a] EXCEPT !.status = "reconciling", !.version = @ + 1,
                            !.retry_at = IF agent[a].remote = "none" THEN dbnow ELSE Never,
                            !.poll_at = IF agent[a].remote = "known" THEN dbnow ELSE Never]
    OBVIOUS
  <1>4. /\ row.status = "reconciling" /\ row.version = agent[a].version + 1
        /\ row.remote = agent[a].remote
    BY <1>3, WorkTables DEF AgentRow
  <1>5. /\ agent' = [agent EXCEPT ![a] = row]
        /\ agent[a].status \in {"submitting", "running", "outcome_unknown"}
    BY <1>2, <1>3, WorkTables DEF AgentRow
  <1> QED BY <1>1, <1>4, <1>5, AgentRowMoves DEF NoNewSubmission, RemoteKept, HeldTold,
          AgentTerminal

\* apply_due_work consumes the retry of an Agent execution.
LEMMA SchedulerAgents ==
  ASSUME WorkInv, SchedulerApplies
  PROVE  TruthEffect
  <1>1. UNCHANGED <<calls, remote, polled>>
    BY DEF SchedulerApplies, workVars
  <1>2. PICK q \in RecoveryTasks : ApplyDueWork(hint, q)
    BY DEF SchedulerApplies, UnusedRecoveryTasks
  <1>3. ConsumeDueWork(hint)
    BY <1>2 DEF ApplyDueWork
  <1>4. CASE agent' = agent
    BY <1>1, <1>4, OtherAgents DEF NoNewSubmission
  <1>5. CASE agent' # agent
    <2>1. PICK a \in Agents : a = hint.exec
      BY <1>3, <1>5 DEF ConsumeDueWork
    <2>2. PICK row : row = [agent[a] EXCEPT !.version = @ + 1, !.retry_at = Never]
      OBVIOUS
    <2>3. /\ row.status = agent[a].status /\ row.version = agent[a].version + 1
          /\ row.remote = agent[a].remote
      BY <2>2, WorkTables DEF AgentRow
    <2>4. /\ agent[a].status = "reconciling" /\ agent' = [agent EXCEPT ![a] = row]
      BY <1>3, <1>5, <2>1, <2>2, WorkTables DEF ConsumeDueWork, AgentRow
    <2> QED BY <1>1, <2>3, <2>4, AgentRowMoves DEF NoNewSubmission, RemoteKept, HeldTold,
            AgentTerminal
  <1> QED BY <1>4, <1>5

\* The remote Run ends: it was running, so no row can have called it ended.
LEMMA RemoteEndsAgents ==
  ASSUME WorkInv, NEW a \in Agents, RemoteEnds(a)
  PROVE  TruthEffect
  <1>1. UNCHANGED <<agent, calls, polled>> /\ remote[a] = "running"
        /\ \E e \in RemoteTerminal : remote' = [remote EXCEPT ![a] = e]
    BY DEF RemoteEnds, vars
  <1>2. RemoteKept
    BY <1>1 DEF RemoteKept, RemoteTerminal, WorkInv, ProcessTypes
  <1> QED BY <1>1, <1>2 DEF TruthEffect, AgentEffect, AgentsMove, NoNewSubmission, RowsTold,
          HeldTold, AgentsFinal

\* A terminal answer of the remote is how it ended.
LEMMA AnswersTrue ==
  ASSUME WorkInv, NEW a \in Agents, agent[a].remote = "known",
         NEW s \in StopAnswers(a) \cup StatusAnswers(a), s \in AgentTerminal
  PROVE  EndedAs(a, s)
  <1>1. remote[a] \in {"running"} \cup RemoteTerminal
    BY AnswersTyped
  <1>2. s = StopProjection[remote[a]] \/ s = StatusProjection[remote[a]]
    BY DEF StopAnswers, StatusAnswers, Answers, AgentTerminal
  <1> QED BY <1>1, <1>2 DEF StopProjection, StatusProjection, EndedAs, RemoteTerminal,
          AgentTerminal

\* The pollers ask and hold what they are told.
LEMMA PollAgents ==
  ASSUME WorkInv, NEW p \in Pollers, NEW a \in Agents,
         PollStop(p, a) \/ PollStatus(p, a) \/ PollEvents(p, a)
  PROVE  TruthEffect
  <1>1. UNCHANGED <<agent, calls, remote>>
    BY DEF PollStop, PollStatus, PollEvents, vars
  <1>2. \E kind, status, batch :
          /\ Hold(p, a, kind, status, batch)
          /\ kind = "outcome" /\ status \in AgentTerminal => EndedAs(a, status)
    <2>1. CASE PollStop(p, a) \/ PollStatus(p, a)
      <3>1. agent[a].remote = "known"
        BY <2>1 DEF PollStop, PollStatus, StopCandidate, StatusCandidate
      <3>2. PICK s \in StopAnswers(a) \cup StatusAnswers(a) : Hold(p, a, "outcome", s, {})
        BY <2>1 DEF PollStop, PollStatus
      <3> QED BY <3>1, <3>2, AnswersTrue
    <2>2. CASE PollEvents(p, a)
      <3>1. PICK answer \in EventAnswers(a) : Hold(p, a, answer.kind, answer.status, answer.batch)
        BY <2>2 DEF PollEvents
      <3>2. answer.kind = "outcome" => answer.status \notin AgentTerminal
        <4>1. PICK told \in {"running", "reconciling"} :
                answer \in [kind : {"events"}, status : {told}, batch : RemoteBatches]
                  \cup [kind : {"events"}, status : {"running"}, batch : {{}}]
                  \cup [kind : {"outcome"}, status : {"reconciling", "manual_review"},
                        batch : {{}}]
          BY DEF EventAnswers
        <4> QED BY <4>1 DEF AgentTerminal
      <3> QED BY <3>1, <3>2
    <2> QED BY <2>1, <2>2
  <1>3. PICK kind, status, batch :
          /\ Hold(p, a, kind, status, batch)
          /\ kind = "outcome" /\ status \in AgentTerminal => EndedAs(a, status)
    BY <1>2
  <1>4. PICK row : row = [kind |-> kind, exec |-> a, version |-> agent[a].version,
                          cursor |-> agent[a].cursor, status |-> status, batch |-> batch]
    OBVIOUS
  <1>5. row.kind = kind /\ row.exec = a /\ row.status = status
    BY <1>4
  <1>6. polled' = [polled EXCEPT ![p] = row]
    BY <1>3, <1>4 DEF Hold
  <1>7. HeldTold
    BY <1>3, <1>5, <1>6 DEF HeldTold, WorkInv, ProcessTypes
  <1> QED BY <1>1, <1>7 DEF TruthEffect, AgentEffect, AgentsMove, NoNewSubmission, RemoteKept,
          RowsTold, AgentsFinal

\* A poller lets go of its candidate.
LEMMA LetsGo ==
  ASSUME WorkInv, NEW p \in Pollers, polled' = [polled EXCEPT ![p] = Idle]
  PROVE  HeldTold
  BY DEF HeldTold, WorkInv, ProcessTypes

\* record_agent_outcome of what a poller holds.
LEMMA RecordOutcomeAgents ==
  ASSUME WorkInv, TruthInv, NEW p \in Pollers, RecordPolled(p), RecordOutcome(polled[p])
  PROVE  TruthEffect
  <1>1. /\ polled[p] # Idle /\ polled' = [polled EXCEPT ![p] = Idle]
        /\ UNCHANGED <<calls, remote>>
    BY DEF RecordPolled
  <1>2. PICK c : c = polled[p]
    OBVIOUS
  <1>3. c \in OutcomeRow
    BY <1>1, <1>2, HeldCandidate DEF RecordOutcome
  <1>4. c.kind = "outcome" /\ c.exec \in Agents /\ c.status \in OutcomeStatus
    BY <1>3 DEF OutcomeRow
  <1>5. PICK dbnow \in DbNow, d \in RetryDelays :
          RecordAgentOutcome(c.exec, c.version, c.status)!(dbnow, d)
    BY <1>2 DEF RecordOutcome, RecordAgentOutcome
  <1>6. PICK a \in Agents : a = c.exec
    BY <1>4
  <1>7. PICK row : row = [agent[a] EXCEPT !.status = c.status, !.version = c.version + 1,
                            !.retry_at = Never,
                            !.poll_at = IF c.status = "reconciling" THEN dbnow + d ELSE Never]
    OBVIOUS
  <1>8. row.status = c.status /\ row.version = c.version + 1 /\ row.remote = agent[a].remote
    BY <1>7, WorkTables DEF AgentRow
  <1>9. /\ agent' = [agent EXCEPT ![a] = row] /\ agent[a].version = c.version
        /\ agent[a].status \in AcceptsOutcome
    BY <1>5, <1>6, <1>7
  <1>10. row.status \in AgentTerminal => EndedAs(a, row.status)
    BY <1>1, <1>2, <1>4, <1>6, <1>8 DEF TruthInv
  <1>11. row.status \notin {"absent", "planned"} /\ agent[a].status \notin AgentTerminal
    BY <1>4, <1>8, <1>9 DEF OutcomeStatus, AgentTerminal, AcceptsOutcome
  <1> QED BY <1>1, <1>8, <1>9, <1>10, <1>11, AgentRowMoves, LetsGo DEF NoNewSubmission,
          RemoteKept

\* append_agent_events leaves the status to the status poller.
LEMMA RecordEventsAgents ==
  ASSUME WorkInv, NEW p \in Pollers, RecordPolled(p), RecordEvents(polled[p])
  PROVE  TruthEffect
  <1>1. /\ polled[p] # Idle /\ polled' = [polled EXCEPT ![p] = Idle]
        /\ UNCHANGED <<calls, remote>>
    BY DEF RecordPolled
  <1>2. PICK c : c = polled[p]
    OBVIOUS
  <1>3. c \in EventsRow
    BY <1>1, <1>2, HeldCandidate DEF RecordEvents
  <1>4. PICK a \in Agents, terminal \in BOOLEAN :
          a = c.exec /\ terminal = (c.status = "reconciling")
    BY <1>3 DEF EventsRow
  <1>5. PICK dbnow \in DbNow, d \in RetryDelays :
          AppendAgentEvents(a, c.cursor, c.batch, terminal)!(dbnow, d)
    BY <1>2, <1>4 DEF RecordEvents, AppendAgentEvents
  <1>6. PICK row : row = AgentAfterEvents(agent[a], terminal, dbnow + d)
    OBVIOUS
  <1>7. agent[a].status = "running" /\ agent' = [agent EXCEPT ![a] = row]
    BY <1>5, <1>6
  <1>8. /\ row.status \in {"running", "reconciling"} /\ row.version = agent[a].version + 1
        /\ row.remote = agent[a].remote
    BY <1>6, <1>7, WorkTables DEF AgentAfterEvents, AgentRow
  <1> QED BY <1>1, <1>7, <1>8, AgentRowMoves, LetsGo DEF NoNewSubmission, RemoteKept,
          AgentTerminal

\* record_agent_outcome by the worker itself.
LEMMA WorkerReportsAgents ==
  ASSUME WorkInv, ReportInv, NEW a \in Agents, WorkerReports(a)
  PROVE  TruthEffect
  <1>1. UNCHANGED <<calls, remote, polled>> /\ report'[a] = "made"
    BY DEF WorkerReports, ReportInv
  <1>2. PICK v : v = PreparedVersion + 1
    OBVIOUS
  <1>3. PICK dbnow \in DbNow, d \in RetryDelays : RecordAgentOutcome(a, v, "succeeded")!(dbnow, d)
    BY <1>2 DEF WorkerReports, RecordAgentOutcome
  <1>4. PICK row : row = [agent[a] EXCEPT !.status = "succeeded", !.version = v + 1,
                            !.retry_at = Never, !.poll_at = Never]
    OBVIOUS
  <1>5. row.status = "succeeded" /\ row.version = v + 1 /\ row.remote = agent[a].remote
    BY <1>4, WorkTables DEF AgentRow
  <1>6. /\ agent' = [agent EXCEPT ![a] = row] /\ agent[a].version = v
        /\ agent[a].status \in AcceptsOutcome
    BY <1>3, <1>4
  <1>7. agent[a].status \notin AgentTerminal
    BY <1>6 DEF AgentTerminal, AcceptsOutcome
  <1> QED BY <1>1, <1>5, <1>6, <1>7, AgentRowMoves DEF NoNewSubmission, RemoteKept, HeldTold

\* A poller forgets a candidate.
LEMMA DropPolledAgents ==
  ASSUME WorkInv, NEW p \in Pollers, DropPolled(p)
  PROVE  TruthEffect
  <1>1. UNCHANGED <<agent, calls, remote>> /\ polled' = [polled EXCEPT ![p] = Idle]
    BY DEF DropPolled, vars
  <1> QED BY <1>1, LetsGo DEF TruthEffect, AgentEffect, AgentsMove, NoNewSubmission, RemoteKept,
          RowsTold, AgentsFinal

----------------------------------------------------------------------------
(***************************************************************************)
(* The worker's own outcome.                                               *)
(***************************************************************************)

\* No report; one becomes due with the outcome of a worker's submission; or the
\* worker makes it at the version it expects.
ReportEffect ==
  \/ report' = report
  \/ \E c \in calls :
       /\ AgentRecords(c) /\ c.rev = 0
       /\ agent'[c.exec].version = 1 => agent'[c.exec].status # "stopping"
       /\ report' = [report EXCEPT ![c.exec] = "due"]
  \/ \E a \in Agents :
       /\ report[a] = "due" /\ agent[a].version = 1
       /\ AgentsMove /\ calls' = calls /\ agent'[a].status # "absent"
       /\ report' = [report EXCEPT ![a] = "made"]

\* A report is made once: the call it waits for is in flight only before.
LEMMA ReportsKept ==
  ASSUME ReportInv, ReportEffect
  PROVE  ReportKept
  BY DEF ReportInv, ReportEffect, AgentRecords, ReportKept

\* Reports through a step.
LEMMA ReportsFollow ==
  ASSUME WorkInv, CallsInv, ReportInv, AgentEffect, ReportEffect
  PROVE  ReportInv'
  <1>0. /\ \A a \in Agents : agent[a].version \in Nat
        /\ calls \subseteq CallRow
    BY WorkTables DEF WorkInv, ProcessTypes
  <1>1. CASE report' = report
    <2>1. ASSUME NEW a \in Agents
          PROVE  /\ agent'[a].status = "absent" => report[a] = "none"
                 /\ report[a] = "due" => /\ agent'[a].version >= 1
                                         /\ agent'[a].version = 1 => agent'[a].status # "stopping"
      <3>1. \/ agent'[a] = agent[a]
            \/ /\ agent'[a].version = agent[a].version + 1 /\ agent'[a].status # "absent"
            \/ agent[a].status = "absent" /\ agent'[a].status = "submitting"
        BY DEF AgentEffect, AgentsMove, AgentMoved, AgentStarts, AgentResubmits, AgentSends,
               AgentRecords, OthersKeep
      <3>2. /\ agent[a].status = "absent" => report[a] = "none"
            /\ report[a] = "due" => /\ agent[a].version >= 1
                                    /\ agent[a].version = 1 => agent[a].status # "stopping"
        BY DEF ReportInv
      <3> QED BY <1>0, <3>1, <3>2
    <2>2. ASSUME NEW c \in calls', c.exec \in Agents, c.rev = 0
          PROVE  report[c.exec] = "none"
      <3>1. CASE AgentsMove
        BY <2>2, <3>1 DEF AgentsMove, NoNewSubmission, ReportInv
      <3>2. ASSUME NEW a \in Agents, AgentStarts(a)
            PROVE  report[c.exec] = "none"
        <4>1. CASE c \in calls
          BY <2>2, <4>1 DEF ReportInv
        <4>2. CASE c \notin calls
          BY <2>2, <3>2, <4>2 DEF AgentStarts, Call, ReportInv
        <4> QED BY <4>1, <4>2
      <3>3. ASSUME NEW a \in Agents, AgentResubmits(a)
            PROVE  report[c.exec] = "none"
        <4>1. Call(a, agent[a].version + 1).rev # 0
          BY <1>0 DEF Call
        <4>2. c \in calls
          BY <2>2, <3>3, <4>1 DEF AgentResubmits
        <4> QED BY <2>2, <4>2 DEF ReportInv
      <3>4. ASSUME NEW d \in calls, AgentSends(d)
            PROVE  report[c.exec] = "none"
        <4>1. /\ [d EXCEPT !.phase = "sent"].exec = d.exec
              /\ [d EXCEPT !.phase = "sent"].rev = d.rev
          BY <1>0 DEF CallRow
        <4> QED BY <2>2, <3>4, <4>1 DEF AgentSends, ReportInv
      <3>5. ASSUME NEW d \in calls, AgentRecords(d)
            PROVE  report[c.exec] = "none"
        BY <2>2, <3>5 DEF AgentRecords, ReportInv
      <3> QED BY <3>1, <3>2, <3>3, <3>4, <3>5 DEF AgentEffect
    <2> QED BY <1>1, <2>1, <2>2 DEF ReportInv
  <1>2. ASSUME NEW c \in calls, AgentRecords(c), c.rev = 0,
               agent'[c.exec].version = 1 => agent'[c.exec].status # "stopping",
               report' = [report EXCEPT ![c.exec] = "due"]
        PROVE  ReportInv'
    <2>1. PICK a \in Agents : a = c.exec
      BY <1>2 DEF AgentRecords
    <2>2. /\ report' \in [Agents -> {"none", "due", "made"}]
          /\ report'[a] = "due" /\ \A b \in Agents \ {a} : report'[b] = report[b]
      BY <1>2, <2>1 DEF ReportInv
    <2>3. /\ agent'[a].version = agent[a].version + 1 /\ agent'[a].status # "absent"
          /\ agent'[a].version = 1 => agent'[a].status # "stopping"
          /\ \A b \in Agents \ {a} : agent'[b] = agent[b]
          /\ calls' = calls \ {c}
      BY <1>2, <2>1 DEF AgentRecords, OthersKeep
    <2>4. ASSUME NEW b \in Agents
          PROVE  /\ agent'[b].status = "absent" => report'[b] = "none"
                 /\ report'[b] = "due" => /\ agent'[b].version >= 1
                                          /\ agent'[b].version = 1 => agent'[b].status # "stopping"
      <3>1. CASE b = a
        BY <1>0, <2>2, <2>3, <3>1
      <3>2. CASE b # a
        BY <2>2, <2>3, <3>2 DEF ReportInv
      <3> QED BY <3>1, <3>2
    <2>5. ASSUME NEW d \in calls', d.exec \in Agents, d.rev = 0
          PROVE  report'[d.exec] = "none"
      <3>1. d \in calls /\ d.exec # a
        BY <1>2, <2>1, <2>3, <2>5 DEF CallsInv
      <3> QED BY <2>2, <2>5, <3>1 DEF ReportInv
    <2> QED BY <2>2, <2>4, <2>5 DEF ReportInv
  <1>3. ASSUME NEW a \in Agents, report[a] = "due", AgentsMove, calls' = calls,
               agent'[a].status # "absent", report' = [report EXCEPT ![a] = "made"]
        PROVE  ReportInv'
    <2>1. /\ report' \in [Agents -> {"none", "due", "made"}]
          /\ report'[a] = "made" /\ \A b \in Agents \ {a} : report'[b] = report[b]
      BY <1>3 DEF ReportInv
    <2>2. ASSUME NEW b \in Agents
          PROVE  /\ agent'[b].status = "absent" => report'[b] = "none"
                 /\ report'[b] = "due" => /\ agent'[b].version >= 1
                                          /\ agent'[b].version = 1 => agent'[b].status # "stopping"
      <3>1. CASE b = a
        BY <1>3, <2>1, <3>1
      <3>2. CASE b # a
        <4>1. \/ agent'[b] = agent[b]
              \/ agent'[b].version = agent[b].version + 1 /\ agent'[b].status # "absent"
          BY <1>3 DEF AgentsMove, AgentMoved
        <4>2. report'[b] = report[b] /\ agent[b].version \in Nat
          BY <1>0, <2>1, <3>2
        <4> QED BY <4>1, <4>2 DEF ReportInv
      <3> QED BY <3>1, <3>2
    <2>3. ASSUME NEW d \in calls', d.exec \in Agents, d.rev = 0
          PROVE  report'[d.exec] = "none"
      BY <1>3, <2>1, <2>3 DEF ReportInv
    <2> QED BY <2>1, <2>2, <2>3 DEF ReportInv
  <1> QED BY <1>1, <1>2, <1>3 DEF ReportEffect

\* The worker's submission has an outcome: a stop that preceded it costs a version.
LEMMA FinishSubmissionReports ==
  ASSUME WorkInv, NEW c \in calls, NEW o \in SubmissionOutcomes, FinishSubmission(c, o)
  PROVE  ReportEffect
  <1>1. PreparedVersion = 0
    BY DEF PreparedVersion, AbsentAgent
  <1>2. CASE c.rev # 0
    BY <1>1, <1>2 DEF FinishSubmission, ReportEffect
  <1>3. CASE c.rev = 0
    <2>1. /\ c.exec \in Agents /\ calls' = calls \ {c}
          /\ report' = [report EXCEPT ![c.exec] = "due"]
      BY <1>1, <1>3 DEF FinishSubmission
    <2>2. PICK a \in Agents : a = c.exec
      BY <2>1
    <2>3. PICK dbnow \in DbNow, d \in RetryDelays : RecordAgentSubmission(a, 0, o)!(dbnow, d)
      BY <1>3, <2>2 DEF FinishSubmission, RecordAgentSubmission
    <2>4. PICK s : s = SubmittedStatus(a, 0, o)
      OBVIOUS
    <2>5. PICK row : row = [agent[a] EXCEPT !.status = s, !.version = @ + 1,
                              !.remote = IF o = "accepted" THEN "known" ELSE "none",
                              !.retry_at = IF o = "backoff" THEN dbnow + d ELSE Never,
                              !.poll_at = IF s = "running" THEN dbnow ELSE Never]
      OBVIOUS
    <2>6. row.status = s /\ row.version = agent[a].version + 1
      BY <2>5, WorkTables DEF AgentRow
    <2>7. agent' = [agent EXCEPT ![a] = row] /\ AwaitsSubmission(a, 0)
      BY <2>3, <2>4, <2>5, WorkTables DEF AgentRow
    <2>8. agent'[a] = row /\ \A b \in Agents \ {a} : agent'[b] = agent[b]
      BY <2>7, WorkTables DEF AgentTable
    <2>9. s \notin {"absent", "planned"} /\ (s = "stopping" => agent[a].version = 0 + 1)
      BY <2>4 DEF SubmittedStatus, LateAfterStop, SubmissionProjection, SubmissionOutcomes
    <2>10. AgentRecords(c)
      BY <1>3, <2>1, <2>2, <2>6, <2>7, <2>8, <2>9 DEF AgentRecords, OthersKeep
    <2>11. agent'[a].version = 1 => agent'[a].status # "stopping"
      BY <2>6, <2>8, <2>9
    <2> QED BY <1>3, <2>1, <2>2, <2>10, <2>11 DEF ReportEffect
  <1> QED BY <1>2, <1>3

\* The worker makes its report.
LEMMA WorkerReportsOnce ==
  ASSUME WorkInv, NEW a \in Agents, WorkerReports(a)
  PROVE  ReportEffect
  <1>1. /\ report[a] = "due" /\ report' = [report EXCEPT ![a] = "made"] /\ calls' = calls
        /\ RecordAgentOutcome(a, 1, "succeeded")
    <2>1. PreparedVersion + 1 = 1
      BY DEF PreparedVersion, AbsentAgent
    <2> QED BY <2>1 DEF WorkerReports
  <1>2. PICK dbnow \in DbNow, d \in RetryDelays : RecordAgentOutcome(a, 1, "succeeded")!(dbnow, d)
    BY <1>1 DEF RecordAgentOutcome
  <1>3. PICK row : row = [agent[a] EXCEPT !.status = "succeeded", !.version = 1 + 1,
                            !.retry_at = Never, !.poll_at = Never]
    OBVIOUS
  <1>4. row.status = "succeeded" /\ row.version = 1 + 1 /\ row.remote = agent[a].remote
    BY <1>3, WorkTables DEF AgentRow
  <1>5. agent[a].version = 1 /\ agent' = [agent EXCEPT ![a] = row]
    BY <1>2, <1>3
  <1>6. agent'[a] = row /\ \A b \in Agents \ {a} : agent'[b] = agent[b]
    BY <1>5, WorkTables DEF AgentTable
  <1>7. AgentsMove
    BY <1>1, <1>4, <1>5, <1>6 DEF AgentsMove, AgentMoved, NoNewSubmission
  <1> QED BY <1>1, <1>4, <1>5, <1>6, <1>7 DEF ReportEffect

----------------------------------------------------------------------------
(***************************************************************************)
(* The composed system.                                                    *)
(***************************************************************************)

\* Nothing was sent and nobody has begun anything.
LEMMA ExecInit == WorkInit => ExecInv
  <1> SUFFICES ASSUME WorkInit PROVE ExecInv
    OBVIOUS
  <1>1. WorkInv
    BY WorkInitInv
  <1>2. /\ tool = [x \in Tools |-> AbsentTool] /\ agent = [a \in Agents |-> AbsentAgent]
        /\ origin = [q \in RecoveryTasks |-> NoOrigin]
        /\ calls = {} /\ sent = [x \in Tools |-> [n \in 1 .. MaxToolAttempts |-> 0]]
        /\ polled = [p \in Pollers |-> Idle] /\ report = [a \in Agents |-> "none"]
    BY DEF WorkInit, ExternalInit, Init
  <1>3. \A x \in Tools : tool[x].status = "absent" /\ tool[x].attempt = 0
    BY <1>2 DEF AbsentTool
  <1>4. \A a \in Agents : agent[a].status = "absent" /\ agent[a].remote = "none"
    BY <1>2 DEF AbsentAgent
  <1>5. SentInv
    BY <1>2, <1>3, ExternalAssumption DEF SentInv
  <1>6. RecoveryInv
    <2>1. ASSUME NEW q \in RecoveryTasks
          PROVE  task[q].status # "succeeded"
      <3>1. task[q] = AbsentTask
        BY ExternalAssumption DEF WorkInit, ExternalInit, Init
      <3> QED BY <3>1 DEF AbsentTask, NewTask
    <2>2. \A x \in Tools : Done(x) = {}
      BY <2>1 DEF Done
    <2>3. IsFiniteSet({}) /\ Cardinality({}) = 0
      BY FS_EmptySet
    <2>4. {origin[q].revision : q \in {}} = 1 .. 0
      BY SMT
    <2> QED
      <3> SUFFICES ASSUME NEW x \in Tools
                   PROVE  /\ IsFiniteSet(Done(x))
                          /\ Cardinality(Done(x)) = IF tool[x].status = "absent" THEN 0
                                                    ELSE tool[x].attempt - 1
                          /\ {origin[q].revision : q \in Done(x)} = 1 .. Cardinality(Done(x))
        BY DEF RecoveryInv
      <3>1. PICK D : D = Done(x)
        OBVIOUS
      <3>2. D = {} /\ Cardinality(D) = 0
        BY <2>2, <2>3, <3>1
      <3> QED BY <1>3, <2>3, <2>4, <3>1, <3>2
  <1>7. CallsInv
    BY <1>2, <1>4 DEF CallsInv
  <1>8. TruthInv
    BY <1>2, <1>4 DEF TruthInv, AgentTerminal
  <1>9. ReportInv
    BY <1>2 DEF ReportInv
  <1> QED BY <1>1, <1>5, <1>6, <1>7, <1>8, <1>9 DEF ExecInv

\* Every step of the system has one of the shapes.
LEMMA StepEffects ==
  ASSUME ExecInv, [WorkNext]_allVars
  PROVE  ToolEffect /\ ToolsFinal /\ TruthEffect
  <1>0. WorkInv /\ SentInv /\ CallsInv /\ TruthInv /\ ReportInv /\ calls \subseteq CallRow
    BY DEF ExecInv, WorkInv, ProcessTypes
  <1>a. Tools \cap Agents = {}
    BY ExternalAssumption
  <1>1. CASE RunStep
    BY <1>0, <1>1, RunStepTools, RunStepAgents
  <1>2. ASSUME NEW t \in Tasks, NEW k, NEW x \in Tools, StartTool(t, k, x)
        PROVE  ToolEffect /\ ToolsFinal /\ TruthEffect
    <2>1. UNCHANGED <<agent, remote, polled>> /\ calls' = calls \cup {Call(x, 1)}
      BY <1>2 DEF StartTool, PrepareToolExecution
    <2>2. NoNewSubmission
      BY <1>a, <2>1 DEF NoNewSubmission, Call
    <2> QED BY <1>0, <1>2, <2>1, <2>2, StartToolTools, OtherAgents
  <1>3. ASSUME NEW t \in Tasks, NEW k, NEW a \in Agents, StartAgent(t, k, a)
        PROVE  ToolEffect /\ ToolsFinal /\ TruthEffect
    <2>1. /\ UNCHANGED <<tool, task, origin, sent>>
          /\ calls' = calls \cup {Call(a, agent[a].version)}
      BY <1>3 DEF StartAgent, PrepareAgentExecution, WorkflowUnchanged
    <2>2. \A c \in calls' \ calls : c.exec \notin Tools
      BY <1>a, <2>1 DEF Call
    <2> QED BY <1>0, <1>3, <2>1, <2>2, StartAgentAgents, OtherSteps
  <1>4. ASSUME NEW q \in RecoveryTasks, NEW k, NEW x \in Tools, RecoverTool(q, k, x)
        PROVE  ToolEffect /\ ToolsFinal /\ TruthEffect
    <2>1. UNCHANGED <<agent, remote, polled>> /\ calls' = calls \cup {Call(x, tool'[x].attempt)}
      BY <1>4 DEF RecoverTool, BeginToolRetryAttempt
    <2>2. NoNewSubmission
      BY <1>a, <2>1 DEF NoNewSubmission, Call
    <2> QED BY <1>0, <1>4, <2>1, <2>2, RecoverToolTools, OtherAgents
  <1>5. ASSUME NEW q \in RecoveryTasks, NEW k, NEW a \in Agents, ResubmitAgent(q, k, a)
        PROVE  ToolEffect /\ ToolsFinal /\ TruthEffect
    BY <1>0, <1>5, ResubmitAgentTools, ResubmitAgentAgents
  <1>6. ASSUME NEW c \in calls, SendTool(c)
        PROVE  ToolEffect /\ ToolsFinal /\ TruthEffect
    <2>1. /\ UNCHANGED <<agent, remote, polled>> /\ c.exec \in Tools
          /\ calls' = (calls \ {c}) \cup {[c EXCEPT !.phase = "sent"]}
      BY <1>6 DEF SendTool, vars
    <2>2. [c EXCEPT !.phase = "sent"].exec = c.exec
      BY <1>0, <1>6 DEF CallRow
    <2>3. NoNewSubmission
      BY <1>a, <2>1, <2>2 DEF NoNewSubmission
    <2> QED BY <1>6, <2>1, <2>3, SendToolTools, OtherAgents
  <1>7. ASSUME NEW c \in calls, NEW o \in ToolOutcomes, FinishTool(c, o)
        PROVE  ToolEffect /\ ToolsFinal /\ TruthEffect
    <2>1. UNCHANGED <<agent, remote, polled>> /\ calls' = calls \ {c}
      BY <1>7 DEF FinishTool, RecordToolOutcome
    <2> QED BY <1>0, <1>7, <2>1, FinishToolTools, OtherAgents DEF NoNewSubmission
  <1>8. ASSUME NEW c \in calls, SubmitAgent(c)
        PROVE  ToolEffect /\ ToolsFinal /\ TruthEffect
    <2>1. /\ UNCHANGED <<tool, task, origin, sent>> /\ c.exec \in Agents
          /\ calls' = (calls \ {c}) \cup {[c EXCEPT !.phase = "sent"]}
      BY <1>8 DEF SubmitAgent, vars, extVars
    <2>2. [c EXCEPT !.phase = "sent"].exec = c.exec
      BY <1>0, <1>8 DEF CallRow
    <2>3. \A d \in calls' \ calls : d.exec \notin Tools
      BY <1>a, <2>1, <2>2
    <2> QED BY <1>0, <1>8, <2>1, <2>3, SubmitAgentAgents, OtherSteps
  <1>9. ASSUME NEW c \in calls, NEW o \in SubmissionOutcomes, FinishSubmission(c, o)
        PROVE  ToolEffect /\ ToolsFinal /\ TruthEffect
    <2>1. UNCHANGED <<tool, task, origin, sent>> /\ calls' = calls \ {c}
      BY <1>9 DEF FinishSubmission, RecordAgentSubmission, WorkflowUnchanged
    <2> QED BY <1>0, <1>9, <2>1, FinishSubmissionAgents, OtherSteps
  <1>10. ASSUME NEW c \in calls, LoseCall(c)
         PROVE  ToolEffect /\ ToolsFinal /\ TruthEffect
    <2>1. UNCHANGED <<tool, task, origin, sent, agent, remote, polled>> /\ calls' = calls \ {c}
      BY <1>10 DEF LoseCall, vars, extVars
    <2> QED BY <2>1, OtherSteps, OtherAgents DEF NoNewSubmission
  <1>11. ASSUME NEW e \in Executions, ScanDueWork(e)
         PROVE  ToolEffect /\ ToolsFinal /\ TruthEffect
    <2>1. UNCHANGED <<tool, task, origin, sent, agent, remote, polled, calls>>
      BY <1>11 DEF ScanDueWork, vars, extVars
    <2> QED BY <2>1, OtherSteps, OtherAgents DEF NoNewSubmission
  <1>12. CASE SchedulerApplies
    BY <1>0, <1>12, SchedulerTools, SchedulerAgents
  <1>13. ASSUME NEW x \in Tools, MaintainTool(x)
         PROVE  ToolEffect /\ ToolsFinal /\ TruthEffect
    <2>1. UNCHANGED <<agent, remote, polled, calls>>
      BY <1>13 DEF MaintainTool, ApplyStaleTool, workVars
    <2> QED BY <1>0, <1>13, <2>1, MaintainToolTools, OtherAgents DEF NoNewSubmission
  <1>14. ASSUME NEW a \in Agents, MaintainAgent(a) \/ RemoteEnds(a) \/ WorkerReports(a)
         PROVE  ToolEffect /\ ToolsFinal /\ TruthEffect
    <2>1. UNCHANGED <<tool, task, origin, sent, calls>>
      BY <1>14 DEF MaintainAgent, ApplyStaleAgent, RemoteEnds, WorkerReports, RecordAgentOutcome,
           WorkflowUnchanged, workVars, vars, extVars
    <2> QED BY <1>0, <1>14, <2>1, MaintainAgentAgents, RemoteEndsAgents, WorkerReportsAgents,
            OtherSteps
  <1>15. ASSUME NEW p \in Pollers, NEW a \in Agents,
                PollStop(p, a) \/ PollStatus(p, a) \/ PollEvents(p, a)
         PROVE  ToolEffect /\ ToolsFinal /\ TruthEffect
    <2>1. UNCHANGED <<tool, task, origin, sent, calls>>
      BY <1>15 DEF PollStop, PollStatus, PollEvents, vars, extVars
    <2> QED BY <1>0, <1>15, <2>1, PollAgents, OtherSteps
  <1>16. ASSUME NEW p \in Pollers, RecordPolled(p)
         PROVE  ToolEffect /\ ToolsFinal /\ TruthEffect
    <2>1. RecordOutcome(polled[p]) \/ RecordEvents(polled[p])
      BY <1>16 DEF RecordPolled
    <2>2. UNCHANGED <<tool, task, origin>>
      BY <2>1 DEF RecordOutcome, RecordEvents, RecordAgentOutcome, AppendAgentEvents,
           WorkflowUnchanged
    <2>3. UNCHANGED <<sent, calls>>
      BY <1>16 DEF RecordPolled
    <2> QED BY <1>0, <1>16, <2>1, <2>2, <2>3, RecordOutcomeAgents, RecordEventsAgents, OtherSteps
  <1>17. ASSUME NEW p \in Pollers, DropPolled(p)
         PROVE  ToolEffect /\ ToolsFinal /\ TruthEffect
    <2>1. UNCHANGED <<tool, task, origin, sent, calls>>
      BY <1>17 DEF DropPolled, vars, extVars
    <2> QED BY <1>0, <1>17, <2>1, DropPolledAgents, OtherSteps
  <1>18. CASE UNCHANGED allVars
    <2>1. UNCHANGED <<tool, task, origin, sent, agent, remote, polled, calls>>
      BY <1>18 DEF allVars, vars, extVars, workVars
    <2> QED BY <2>1, OtherSteps, OtherAgents DEF NoNewSubmission
  <1> QED BY <1>1, <1>2, <1>3, <1>4, <1>5, <1>6, <1>7, <1>8, <1>9, <1>10, <1>11, <1>12, <1>13,
          <1>14, <1>15, <1>16, <1>17, <1>18 DEF WorkNext

\* Every step leaves the reports, or makes one due, or is one.
LEMMA StepReports ==
  ASSUME ExecInv, [WorkNext]_allVars
  PROVE  ReportEffect
  <1>0. WorkInv /\ ReportInv
    BY DEF ExecInv
  <1>1. ASSUME NEW c \in calls, NEW o \in SubmissionOutcomes, FinishSubmission(c, o)
        PROVE  ReportEffect
    BY <1>0, <1>1, FinishSubmissionReports
  <1>2. ASSUME NEW a \in Agents, WorkerReports(a)
        PROVE  ReportEffect
    BY <1>0, <1>2, WorkerReportsOnce
  <1>3. CASE RunStep \/ SchedulerApplies \/ UNCHANGED allVars
    BY <1>3 DEF RunStep, SchedulerApplies, workVars, allVars, ReportEffect
  <1>4. CASE \/ \E t \in Tasks \ RecoveryTasks : \E k \in AttemptNumbers(t) :
                 \/ \E x \in Tools : StartTool(t, k, x)
                 \/ \E a \in Agents : StartAgent(t, k, a)
             \/ \E q \in RecoveryTasks : \E k \in AttemptNumbers(q) :
                 \/ \E x \in Tools : RecoverTool(q, k, x)
                 \/ \E a \in Agents : ResubmitAgent(q, k, a)
    BY <1>4 DEF StartTool, StartAgent, RecoverTool, ResubmitAgent, ReportEffect
  <1>5. ASSUME NEW c \in calls,
               \/ SendTool(c) \/ SubmitAgent(c) \/ LoseCall(c)
               \/ \E o \in ToolOutcomes : FinishTool(c, o)
        PROVE  ReportEffect
    BY <1>5 DEF SendTool, SubmitAgent, LoseCall, FinishTool, ReportEffect
  <1>6. CASE \/ \E e \in Executions : ScanDueWork(e)
             \/ \E x \in Tools : MaintainTool(x)
             \/ \E a \in Agents : MaintainAgent(a) \/ RemoteEnds(a)
    BY <1>6 DEF ScanDueWork, MaintainTool, MaintainAgent, RemoteEnds, workVars, ReportEffect
  <1>7. ASSUME NEW p \in Pollers,
               \/ \E a \in Agents : PollStop(p, a) \/ PollStatus(p, a) \/ PollEvents(p, a)
               \/ RecordPolled(p)
               \/ DropPolled(p)
        PROVE  ReportEffect
    BY <1>7 DEF PollStop, PollStatus, PollEvents, RecordPolled, DropPolled, ReportEffect
  <1> QED BY <1>1, <1>2, <1>3, <1>4, <1>5, <1>6, <1>7 DEF WorkNext

\* The invariant is inductive.
LEMMA ExecStep == ExecInv /\ [WorkNext]_allVars => ExecInv'
  <1> SUFFICES ASSUME ExecInv, [WorkNext]_allVars PROVE ExecInv'
    OBVIOUS
  <1>1. ToolEffect /\ TruthEffect /\ ReportEffect
    BY StepEffects, StepReports
  <1>2. WorkInv'
    BY WorkStep, SidesMakeInv DEF ExecInv, AllSides
  <1>3. SentInv' /\ RecoveryInv'
    BY <1>1, RequestsCounted, RecoveryCounted DEF ExecInv
  <1>4. CallsInv'
    BY <1>1, CallsFollow DEF ExecInv, TruthEffect
  <1>5. ReportInv' /\ ReportKept
    BY <1>1, ReportsFollow, ReportsKept DEF ExecInv, TruthEffect
  <1>6. TruthInv'
    BY <1>1, <1>5, TruthFollows DEF ExecInv
  <1> QED BY <1>2, <1>3, <1>4, <1>5, <1>6 DEF ExecInv

\* The inductive invariant of the executions holds in every behaviour of the
\* composed system, for any number of Tools, Agents, pollers and crashes.
THEOREM ExecInvariant == WorkSpec => []ExecInv
  BY ExecInit, ExecStep, PTL DEF WorkSpec

\* A request goes out only for an attempt whose row is committed, and at most
\* once per attempt, whatever crashes, is retried or is found stale.
THEOREM SentOnce == WorkSpec => []AttemptSentOnce
  <1>1. ExecInv => AttemptSentOnce
    BY DEF ExecInv, SentInv, AttemptSentOnce
  <1> QED BY ExecInvariant, <1>1, PTL

\* Every further attempt of a Tool was begun by one recovery Task, and there is
\* one for each revision.
THEOREM RecoveryCorrect == WorkSpec => []RecoveryStartsOnce
  <1>1. ExecInv => RecoveryStartsOnce
    BY DEF ExecInv, RecoveryInv, RecoveryStartsOnce, Done
  <1> QED BY ExecInvariant, <1>1, PTL

\* An Agent execution is terminal only as its remote Run ended, as succeeded by
\* the report of its worker, or, with no remote Run known, as anything but
\* succeeded.
THEOREM AgentsAreTrue == WorkSpec => []AgentTruth
  <1>1. ExecInv => AgentTruth
    BY DEF ExecInv, TruthInv, RowTrue, AgentTruth, EndedAs
  <1> QED BY ExecInvariant, <1>1, PTL

\* An Agent execution that was asked to stop is not set running again by a late
\* acceptance, an outcome, maintenance or a batch of events, nor settled by the
\* worker that waited for its dispatch.
THEOREM StopIsKept == WorkSpec => StopSticks
  <1>1. ExecInv /\ [WorkNext]_allVars =>
          [\A a \in Agents : agent[a].status = "stopping" =>
             /\ agent'[a].status # "running"
             /\ report[a] = "due" => report'[a] = "due"]_allVars
    <2> SUFFICES ASSUME ExecInv, [WorkNext]_allVars, NEW a \in Agents,
                        agent[a].status = "stopping"
                 PROVE  /\ agent'[a].status # "running"
                        /\ report[a] = "due" => report'[a] = "due"
      OBVIOUS
    <2>1. agent'[a].status # "running"
      BY WorkStep DEF ExecInv, AllSides, AgentsSide
    <2>2. ASSUME report[a] = "due" PROVE report'[a] = "due"
      <3>1. ReportInv /\ ReportEffect
        BY StepReports DEF ExecInv
      <3> QED BY <2>2, <3>1 DEF ReportInv, ReportEffect
    <2> QED BY <2>1, <2>2
  <1> QED BY ExecInvariant, <1>1, PTL DEF WorkSpec, StopSticks

\* Terminal Tool and Agent rows are final, and a remote identity that is known
\* is never forgotten, not even by an outcome of a submission that comes late.
THEOREM ExecutionsAreFinal == WorkSpec => ExecutionFinal
  <1>1. ExecInv /\ [WorkNext]_allVars =>
          [/\ \A x \in Tools : tool[x].status \in ToolTerminal => tool'[x] = tool[x]
           /\ \A a \in Agents : agent[a].status \in AgentTerminal => agent'[a] = agent[a]
           /\ \A a \in Agents : agent[a].remote = "known"
                                  => agent'[a].remote = "known"]_allVars
    BY StepEffects DEF ToolsFinal, TruthEffect, AgentsFinal
  <1> QED BY ExecInvariant, <1>1, PTL DEF WorkSpec, ExecutionFinal

=============================================================================
