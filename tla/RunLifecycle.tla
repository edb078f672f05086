---------------------------- MODULE RunLifecycle ----------------------------
(***************************************************************************)
(* What a Run promises to everyone who reads it: it is open, paused or     *)
(* ended; every change moves the version by one, so that a version names   *)
(* one state; the execution generation moves exactly when work is taken    *)
(* away from its workers; and an ended Run only collects late evidence.    *)
(***************************************************************************)
EXTENDS Naturals

CONSTANTS Open, Ended      \* the statuses of open and of ended Runs

VARIABLES status, version, generation, ending  \* ending: the terminal Event, 0 if none

lifeVars == <<status, version, generation, ending>>

LifeInit == status \in Open /\ version = 0 /\ generation = 0 /\ ending = 0

\* A worker, event, scheduler or maintenance transaction.
Progress ==
  /\ status \in Open /\ status' \in Open
  /\ version' = version + 1
  /\ UNCHANGED <<generation, ending>>

\* Evidence about external work, revisions and other Events of a paused or an
\* ended Run.
Note ==
  /\ version' = version + 1
  /\ UNCHANGED <<status, generation, ending>>

Pause ==
  /\ status \in Open /\ status' = "paused"
  /\ version' = version + 1 /\ generation' = generation + 1
  /\ UNCHANGED ending

Resume ==
  /\ status = "paused" /\ status' \in Open
  /\ version' = version + 1
  /\ UNCHANGED <<generation, ending>>

\* Completion, failure and time-out keep the generation, a cancel moves it.
End ==
  /\ status \in Open \cup {"paused"} /\ status' \in Ended
  /\ version' = version + 1 /\ generation' \in {generation, generation + 1}
  /\ ending = 0 /\ ending' > 0

LifeNext == Progress \/ Note \/ Pause \/ Resume \/ End

LifeSpec == LifeInit /\ [][LifeNext]_lifeVars
=============================================================================
