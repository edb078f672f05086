----------------------------- MODULE RunStoreMC -----------------------------
(***************************************************************************)
(* Small instances of RunStore for TLC.  Identifiers are strings, workers  *)
(* are model values so that they can be permuted.                          *)
(***************************************************************************)
EXTENDS RunStore, TLC

WorkerSymmetry == Permutations(Workers)

\* Defaults: no dependency, no stage, no deadline, no Wait.
NoPrereq == [t \in Tasks |-> {}]
OnSuccess == [t \in Tasks |-> [p \in Tasks |-> "succeeded"]]
NoDeadlines == [t \in Tasks |-> Never]
NoStageOf == [t \in Tasks |-> NoStage]
NoWaits == [w \in {} |-> w]
NoDeadline == {Never}
SomeDeadline == {Never, 2}
OneAttempt == [t \in Tasks |-> 1]
TwoAttempts == [t \in Tasks |-> 2]

----------------------------------------------------------------------------
\* Instance "leases": the sibling Tasks t1 and t2, t1 with a second attempt; a
\* completion may add t3.
LeaseAttempts == [t \in Tasks |-> IF t = "t1" THEN 2 ELSE 1]

\* Instance "waits": the Tasks t1 (of stage s1) and t2 may open an approval w1
\* on s1 and an event Wait w2 with the same match key; r1 and r2 resume from
\* them.  w1 expires at time 1, r2 must start by time 2, and the Run may have a
\* deadline.
WaitsKey == [w \in Waits |-> "k"]
WaitsStage == [w \in Waits |-> IF w = "w1" THEN "s1" ELSE NoStage]
WaitsExpires == [w \in Waits |-> IF w = "w1" THEN 1 ELSE Never]
WaitsResume == [w \in Waits |-> IF w = "w1" THEN "r1" ELSE "r2"]
WaitsStageOf == [t \in Tasks |-> IF t = "t1" THEN "s1" ELSE NoStage]
WaitsDeadline == [t \in Tasks |-> IF t = "r2" THEN 2 ELSE Never]

\* Instance "graph": b runs when a succeeds, c when a fails (the fallback), d
\* joins any of b (with the expected result) and c; a plan revision may add e,
\* which runs when a is dead-lettered.
GraphPrereq == [t \in Tasks |-> CASE t \in {"b", "c", "e"} -> {"a"}
                                  [] t = "d" -> {"b", "c"}
                                  [] OTHER -> {}]
GraphCondition == [t \in Tasks |-> [p \in Tasks |->
                     CASE t = "c" -> "failed"
                       [] t = "e" -> "dead_lettered"
                       [] t = "d" /\ p = "b" -> "result_equals"
                       [] OTHER -> "succeeded"]]
\* Instance "plans": a plan revision may add x, which runs after t1; both may be
\* the fan-in Task of child Runs.
PlanPrereq == [t \in Tasks |-> IF t = "x" THEN {"t1"} ELSE {}]

GraphAttempts == [t \in Tasks |-> IF t = "a" THEN 2 ELSE 1]
=============================================================================
