--------------------------- MODULE ExternalWorkMC ---------------------------
(***************************************************************************)
(* Small instances of ExternalWork for TLC: one Task t1 that prepares one  *)
(* execution, and the recovery Tasks q1 and q2.                            *)
(***************************************************************************)
EXTENDS ExternalWork, TLC

PollerSymmetry == Permutations(Pollers)

NoPrereq == [t \in Tasks |-> {}]
OnSuccess == [t \in Tasks |-> [p \in Tasks |-> "succeeded"]]
NoDeadlines == [t \in Tasks |-> Never]
NoStageOf == [t \in Tasks |-> NoStage]
NoWaits == [w \in {} |-> w]
NoDeadline == {Never}
OneAttempt == [t \in Tasks |-> 1]
RecoveryAttempts == [t \in Tasks |-> IF t = "q1" THEN 2 ELSE 1]
=============================================================================
