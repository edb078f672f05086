----------------------------- MODULE TaskGraph -----------------------------
(***************************************************************************)
(* Task dependencies: what terminal Tasks do to the Tasks that wait for    *)
(* them (resolve_dependent_tasks).  The code pops terminal Tasks off a     *)
(* worklist and re-evaluates every "scheduled" dependent of each; a        *)
(* dependent whose join can no longer be satisfied is skipped and joins    *)
(* the worklist.  Here the set of skipped Tasks is the least set closed    *)
(* under that rule, so no order of evaluation is fixed.                    *)
(***************************************************************************)
EXTENDS RunTables

Scheduled(tk) == {t \in Tasks : tk[t].status = "scheduled"}

\* Status of p once the Tasks of X have been skipped.
StatusUnder(tk, X, p) == IF p \in X THEN "skipped" ELSE tk[p].status

\* dependency_condition_satisfied: {} and {"status": s} compare the status,
\* result_equals also asks for the expected value at the JSON pointer.
ConditionSatisfied(tk, X, d, p) ==
  IF Condition[d][p] = "result_equals"
    THEN StatusUnder(tk, X, p) = "succeeded" /\ tk[p].result = Expected
    ELSE StatusUnder(tk, X, p) = Condition[d][p]

Ready(tk, X, d) ==
  IF d \in JoinAny
    THEN \E p \in Prereq[d] : ConditionSatisfied(tk, X, d, p)
    ELSE Prereq[d] # {} /\ \A p \in Prereq[d] : ConditionSatisfied(tk, X, d, p)

Settled(tk, X, d) == \A p \in Prereq[d] : StatusUnder(tk, X, p) \in TaskTerminal

\* The worklist holds the Tasks the caller starts from and the skipped ones.
Reached(X, d, starts) == Prereq[d] \cap (starts \cup X) # {}

Skips(tk, starts, X) ==
  {d \in Scheduled(tk) : Reached(X, d, starts) /\ Settled(tk, X, d) /\ ~Ready(tk, X, d)}

\* Mutant: skipping does not cascade.
SkippedDirectly(tk, starts) == Skips(tk, starts, {})

Skipped(tk, starts) ==
  {d \in Scheduled(tk) :
     \A X \in SUBSET Scheduled(tk) : Skips(tk, starts, X) \subseteq X => d \in X}

\* Mutant: every dependent that is reached is activated.
ActivatedEarly(tk, starts) ==
  LET X == Skipped(tk, starts)
  IN  {d \in Scheduled(tk) \ X : Reached(X, d, starts)}

Activated(tk, starts) ==
  LET X == Skipped(tk, starts)
  IN  {d \in Scheduled(tk) \ X : Reached(X, d, starts) /\ Ready(tk, X, d)}

\* resolve_dependent_tasks(starts): the Task rows afterwards.
ResolveDependents(tk, starts, dbnow) ==
  LET skip == Skipped(tk, starts)
      act  == Activated(tk, starts)
  IN  [d \in Tasks |->
         IF d \in skip THEN [tk[d] EXCEPT !.status = "skipped"]
         ELSE IF d \in act THEN [tk[d] EXCEPT !.status = "queued", !.available = dbnow]
         ELSE tk[d]]

=============================================================================
