----------------------------- MODULE Schedules -----------------------------
(***************************************************************************)
(* One Schedule row, the scanners of several server processes, and the     *)
(* Runs they create.  A scanner reads the due row with the database time,  *)
(* asks for active Runs when overlap is forbidden, plans the fires of its  *)
(* misfire policy, creates their Runs one transaction at a time and then   *)
(* advances the cursor if the row is still the one it read.  It may stop   *)
(* between any two of these steps, and an operator may fire by hand.       *)
(*                                                                         *)
(* Cron is what the cron library returns: the instants next_after walks    *)
(* through.  GapFires are those of them that Schedule::includes does not   *)
(* match, the shifted instants of a daylight-saving gap.                   *)
(***************************************************************************)
EXTENDS Naturals, Sequences, FiniteSetsExt

CONSTANTS
  Scanners,
  Cron,          \* fire instants, one of them after MaxTime
  GapFires,      \* a subset of Cron
  ManualFires,   \* instants an operator fires by hand
  Misfires,      \* misfire policies: a subset of {"skip", "fire_once", "catch_up"}
  Overlaps,      \* concurrency policies: a subset of {"allow", "forbid"}
  Limits,        \* values of catch_up_limit
  MaxTime,       \* bound: the clock stops here
  MaxCrashes     \* bound: how often a scanner stops in the middle

Fires == Cron \cup ManualFires

ASSUME ScheduleAssumption ==
  /\ Cron \subseteq Nat \ {0} /\ ManualFires \subseteq Nat \ {0} /\ GapFires \subseteq Cron
  /\ Misfires \subseteq {"skip", "fire_once", "catch_up"}
  /\ Overlaps \subseteq {"allow", "forbid"}
  /\ Limits \subseteq 1 .. 100
  /\ MaxTime \in Nat /\ MaxCrashes \in Nat
  /\ \E f \in Cron : f > MaxTime

VARIABLES
  now,
  schedule,   \* [misfire, overlap, limit, next, version]: the Schedule row
  runs,       \* [Fires -> [active, ended]]: Runs by scheduled_fire_at
  scanner,    \* [Scanners -> [pc, at, version, cursor, fires, next]]: the row it read, its plan
  crashes

scheduleVars == <<now, schedule, runs, scanner, crashes>>

\* next_after: the first fire instant after t.
NextAfter(t) == Min({f \in Cron : f > t})

IdleScanner == [pc |-> "idle", at |-> 0, fires |-> <<>>, next |-> 0, version |-> 0, cursor |-> 0]

\* create_schedule, called at time 0.  last_fire_at is left out: it is only displayed.
ScheduleInit ==
  /\ now = 0
  /\ schedule \in [misfire : Misfires, overlap : Overlaps, limit : Limits,
                   next : {NextAfter(0)}, version : {0}]
  /\ runs = [f \in Fires |-> [active |-> 0, ended |-> 0]]
  /\ scanner = [s \in Scanners |-> IdleScanner]
  /\ crashes = 0

----------------------------------------------------------------------------
\* create_run with a schedule_id.

HasRun(f) == runs[f].active + runs[f].ended > 0

\* has_active_schedule_runs
ActiveRuns == \E f \in Fires : runs[f].active > 0

\* Mutant: overlap is only checked by the scanner, before the transaction.
RefusedNever(f) == FALSE

\* Under the lock of the Schedule row: "forbid" refuses a Run beside an active one.
Refused(f) == schedule.overlap = "forbid" /\ ActiveRuns

\* Mutant: neither the receipt nor the Run of the fire is looked up first.
CreateAlways(f) ==
  /\ ~Refused(f)
  /\ runs' = [runs EXCEPT ![f].active = @ + 1]

\* The receipt of the fire, or its Run, answers a repetition; otherwise the Run is
\* created.
CreateRun(f) ==
  IF HasRun(f) THEN UNCHANGED runs
  ELSE ~Refused(f) /\ runs' = [runs EXCEPT ![f].active = @ + 1]

----------------------------------------------------------------------------
\* dispatch_plan: the fires to create and where the cursor goes.

\* The first k fires from the cursor c that are not in the future.
CatchUp(c, at, k) ==
  LET due == {f \in Cron : c <= f /\ f <= at}
      Rank(f) == Cardinality({g \in due : g <= f})
  IN  [n \in 1 .. (IF Cardinality(due) < k THEN Cardinality(due) ELSE k) |->
         CHOOSE f \in due : Rank(f) = n]

\* Mutant: catching up moves the cursor past the present, whatever its limit.
DispatchPlanToNow(misfire, c, at, limit) ==
  CASE c \in GapFires \/ misfire = "skip" -> [fires |-> <<>>, next |-> NextAfter(at)]
    [] c \notin GapFires /\ misfire = "fire_once" -> [fires |-> <<c>>, next |-> NextAfter(at)]
    [] c \notin GapFires /\ misfire = "catch_up" ->
         [fires |-> CatchUp(c, at, limit), next |-> NextAfter(at)]

DispatchPlan(misfire, c, at, limit) ==
  CASE c \in GapFires \/ misfire = "skip" -> [fires |-> <<>>, next |-> NextAfter(at)]
    [] c \notin GapFires /\ misfire = "fire_once" -> [fires |-> <<c>>, next |-> NextAfter(at)]
    [] c \notin GapFires /\ misfire = "catch_up" ->
         LET fires == CatchUp(c, at, limit)
         IN  [fires |-> fires, next |-> NextAfter(fires[Len(fires)])]

----------------------------------------------------------------------------
\* scan_due_schedules: the due row and the time it was read at.
ScanDueSchedules(s) ==
  /\ scanner[s].pc = "idle" /\ schedule.next <= now
  /\ scanner' = [scanner EXCEPT ![s] =
       [IdleScanner EXCEPT !.pc = "plan", !.at = now, !.version = schedule.version,
                           !.cursor = schedule.next]]
  /\ UNCHANGED <<now, schedule, runs, crashes>>

\* Mutant: the policy is applied although a Run is active, and left to the transaction.
PlanUnblocked(s) ==
  LET plan == DispatchPlan(schedule.misfire, scanner[s].cursor, scanner[s].at, schedule.limit)
  IN  /\ scanner[s].pc = "plan"
      /\ scanner' = [scanner EXCEPT ![s].pc = "fire", ![s].fires = plan.fires,
                                    ![s].next = plan.next]
      /\ UNCHANGED <<now, schedule, runs, crashes>>

\* dispatch_due_schedule: with overlap forbidden and a Run active the fire is
\* skipped, whatever the misfire policy.
PlanDispatch(s) ==
  LET blocked == schedule.overlap = "forbid" /\ ActiveRuns
      plan == DispatchPlan(IF blocked THEN "skip" ELSE schedule.misfire,
                           scanner[s].cursor, scanner[s].at, schedule.limit)
  IN  /\ scanner[s].pc = "plan"
      /\ scanner' = [scanner EXCEPT ![s].pc = "fire", ![s].fires = plan.fires,
                                    ![s].next = plan.next]
      /\ UNCHANGED <<now, schedule, runs, crashes>>

\* dispatch_schedule_fire: one create_run transaction; the Run id, the command key
\* and the request are derived from the Schedule and the instant.
FireNext(s) ==
  LET fires == scanner[s].fires
  IN  /\ scanner[s].pc = "fire" /\ fires # <<>>
      /\ CreateRun(Head(fires))
      /\ scanner' = [scanner EXCEPT ![s].fires = Tail(fires)]
      /\ UNCHANGED <<now, schedule, crashes>>

\* The transaction refuses the Run: the dispatch ends with an error, the cursor stays.
FireRefused(s) ==
  LET fires == scanner[s].fires
  IN  /\ scanner[s].pc = "fire" /\ fires # <<>>
      /\ ~HasRun(Head(fires)) /\ Refused(Head(fires))
      /\ scanner' = [scanner EXCEPT ![s] = IdleScanner]
      /\ UNCHANGED <<now, schedule, runs, crashes>>

Unchanged(s) == schedule.version = scanner[s].version /\ schedule.next = scanner[s].cursor

\* advance_schedule: compare and set on version and cursor.
Advance(s) ==
  IF Unchanged(s)
  THEN schedule' = [schedule EXCEPT !.next = scanner[s].next, !.version = @ + 1]
  ELSE UNCHANGED schedule

AdvanceSchedule(s) ==
  /\ scanner[s].pc = "fire" /\ scanner[s].fires = <<>>
  /\ Advance(s)
  /\ scanner' = [scanner EXCEPT ![s] = IdleScanner]
  /\ UNCHANGED <<now, runs, crashes>>

\* The process stops, or a store call fails, before the dispatch is through.
StopScanner(s) ==
  /\ scanner[s].pc # "idle" /\ crashes < MaxCrashes
  /\ crashes' = crashes + 1
  /\ scanner' = [scanner EXCEPT ![s] = IdleScanner]
  /\ UNCHANGED <<now, schedule, runs>>

\* fire_schedule: an operator fires an instant that is not in the future.
FireSchedule(f) ==
  /\ f <= now /\ ~HasRun(f)
  /\ CreateRun(f)
  /\ UNCHANGED <<now, schedule, scanner, crashes>>

\* A Run reaches a terminal status.
EndRun(f) ==
  /\ runs[f].active > 0
  /\ runs' = [runs EXCEPT ![f].active = @ - 1, ![f].ended = @ + 1]
  /\ UNCHANGED <<now, schedule, scanner, crashes>>

ClockTick ==
  /\ now < MaxTime /\ now' = now + 1
  /\ UNCHANGED <<schedule, runs, scanner, crashes>>

----------------------------------------------------------------------------
ScannerStep(s) ==
  ScanDueSchedules(s) \/ PlanDispatch(s) \/ FireNext(s) \/ FireRefused(s) \/ AdvanceSchedule(s)

ScheduleNext ==
  \/ \E s \in Scanners : ScannerStep(s) \/ StopScanner(s)
  \/ \E f \in ManualFires : FireSchedule(f)
  \/ \E f \in Fires : EndRun(f)
  \/ ClockTick

\* The polling service calls the scanner again after every result; nothing is
\* assumed of Runs, operators and the clock.
ScheduleSpec ==
  /\ ScheduleInit /\ [][ScheduleNext]_scheduleVars
  /\ \A s \in Scanners : WF_scheduleVars(ScannerStep(s))

----------------------------------------------------------------------------
\* A fire has one Run, however many scanners, restarts and operators ask for it.
OneRunPerFire == \A f \in Fires : runs[f].active + runs[f].ended <= 1

\* "forbid" never lets two Runs of the Schedule be active together, not even
\* when two scanners and an operator looked before either created its Run.
ForbidExclusive ==
  schedule.overlap = "forbid" =>
    \A f, g \in Fires : runs[f].active > 0 /\ runs[g].active > 0 => f = g

\* With overlap allowed and misfires not skipped, the cursor leaves a fire behind
\* only when it has its Run; catching up leaves none behind.  This says nothing of
\* a step from a cursor on a gap fire: next_after put the cursor there and
\* Schedule::includes does not match it, so the plan made from it is empty and the
\* fires up to the present are passed over.
NoFireLost ==
  [][schedule.overlap = "allow" /\ schedule.misfire # "skip" =>
       \A f \in Cron \ GapFires :
         /\ schedule.next <= f /\ f < schedule'.next /\ schedule.next \notin GapFires
         /\ schedule.misfire = "catch_up" \/ f = schedule.next
         => HasRun(f)]_scheduleVars

\* A due Schedule is always brought forward, also after a crash in the middle of a
\* dispatch and while Runs of it stay active for ever.
CursorMoves ==
  \A c \in Cron : (schedule.next = c /\ c <= now) ~> (schedule.next > c)
=============================================================================
