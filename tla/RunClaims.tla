----------------------------- MODULE RunClaims -----------------------------
(***************************************************************************)
(* What the repository's documents say of a Run and the transactions do    *)
(* not do, refuted by a run of its own.                                    *)
(***************************************************************************)
EXTENDS RunStoreMC

\* README.md:41: a dependent is switched to "queued" only when its condition is
\* met.  rebase_preserved_tasks queues every "scheduled" Task on resume.
OnlySatisfiedDependentsRun ==
  \A t \in Tasks : Prereq[t] # {} /\ task[t].status = "leased" => Ready(task, {}, t)

\* STORE_CONTRACT.md:570: the scheduler's scans cover the time-out of every Wait.
\* So a Run with nothing left to do does not keep a Wait with an expiry open for
\* ever.  scan_maintenance looks only at the Waits of parked and paused Runs; a
\* Run that the last of its Tasks left "running" is never looked at.
WaitTimesOut ==
  \A w \in Waits : []<>(\/ wait[w] # "open" \/ WaitExpires[w] = Never
                        \/ run.status \in RunTerminal
                        \/ \E t \in Tasks : task[t].status \in TaskOpen)
=============================================================================
