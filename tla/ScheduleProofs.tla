--------------------------- MODULE ScheduleProofs ---------------------------
(***************************************************************************)
(* The safety of the Schedule dispatch, for every number of scanners, fire *)
(* instants, misfire policies, limits and crashes.                         *)
(*                                                                         *)
(* The first part is about the operators of the plan: NextAfter returns    *)
(* the least instant of the cron after a time, and CatchUp lists the first *)
(* due instants without a gap.  The second part is the inductive           *)
(* invariant: every instant that a scanner's plan leaves behind has its    *)
(* Run already or is still among the fires the scanner will create.        *)
(***************************************************************************)
EXTENDS Schedules, FiniteSetTheorems, FunctionTheorems, WellFoundedInduction, TLAPS

\* The instants from the cursor that are not in the future, and their order.
Due(c, at) == {f \in Cron : c <= f /\ f <= at}

RankOf(D, f) == Cardinality({g \in D : g <= f})

PlanLength(c, at, k) == IF Cardinality(Due(c, at)) < k THEN Cardinality(Due(c, at)) ELSE k

\* The plan does not leave f behind.
Planned(f, fires) == HasRun(f) \/ \E n \in 1 .. Len(fires) : fires[n] = f

ScannerRows ==
  [pc : {"idle", "plan", "fire"}, at : 0 .. MaxTime, fires : Seq(Cron), next : Cron \cup {0},
   version : Nat, cursor : Cron \cup {0}]

ScheduleTypes ==
  /\ now \in 0 .. MaxTime
  /\ schedule \in [misfire : Misfires, overlap : Overlaps, limit : Limits, next : Cron,
                   version : Nat]
  /\ runs \in [Fires -> [active : Nat, ended : Nat]]
  /\ scanner \in [Scanners -> ScannerRows]
  /\ crashes \in Nat

\* A scanner that has read the row read a due cursor.
ReadDue(s) ==
  scanner[s].pc # "idle" => scanner[s].cursor \in Cron /\ scanner[s].cursor <= scanner[s].at

\* With overlap allowed and misfires not skipped, the plan accounts for every instant
\* between the cursor and where the cursor will go.
PlanComplete(s) ==
  scanner[s].pc = "fire" =>
    /\ scanner[s].next \in Cron
    /\ schedule.overlap = "allow" /\ schedule.misfire # "skip" /\ scanner[s].cursor \notin GapFires
       => \A f \in Cron \ GapFires :
            /\ scanner[s].cursor <= f /\ f < scanner[s].next
            /\ schedule.misfire = "catch_up" \/ f = scanner[s].cursor
            => Planned(f, scanner[s].fires)

ScheduleInv ==
  /\ ScheduleTypes
  /\ \A s \in Scanners : ReadDue(s) /\ PlanComplete(s)
  /\ OneRunPerFire
  /\ ForbidExclusive

----------------------------------------------------------------------------
\* The operators of the plan.

\* A non-empty set of naturals has a least element.
LEMMA LeastNatural ==
  ASSUME NEW T \in SUBSET Nat, T # {}
  PROVE  \E x \in T : \A y \in T : x <= y
<1>1. PICK x \in T : \A y \in T : <<y, x>> \notin OpToRel(<, Nat)
  BY NatLessThanWellFounded, WFMin, Zenon
<1>2. \A y \in T : ~(y < x)
  BY <1>1 DEF OpToRel
<1>3. x \in Nat /\ \A y \in T : y \in Nat
  OBVIOUS
<1>4. \A y \in T : x <= y
  BY <1>2, <1>3
<1> QED
  BY <1>4

\* next_after: up to the bound of the clock there is a next instant, and it is the
\* least one.
LEMMA NextAfterIsLeast ==
  ASSUME NEW t \in 0 .. MaxTime
  PROVE  /\ NextAfter(t) \in Cron /\ NextAfter(t) > t
         /\ \A f \in Cron : f > t => NextAfter(t) <= f
<1> DEFINE T == {f \in Cron : f > t}
<1>0. PICK f \in Cron : f > MaxTime
  BY ScheduleAssumption
<1>1. T \in SUBSET Nat /\ T # {}
  <2>1. \A g \in Cron : g \in Nat
    BY ScheduleAssumption
  <2>2. f > t
    BY <2>1, <1>0, ScheduleAssumption
  <2> QED
    BY <2>1, <2>2
<1>2. \E x \in T : \A y \in T : x <= y
  BY <1>1, LeastNatural
<1>3. /\ Min(T) \in T
      /\ \A y \in T : Min(T) <= y
  BY <1>2 DEF Min
<1> QED
  BY <1>3 DEF NextAfter

\* The due instants are finitely many naturals.
LEMMA DueFinite ==
  ASSUME NEW c \in Cron, NEW at \in 0 .. MaxTime, c <= at
  PROVE  /\ Due(c, at) \in SUBSET Nat /\ Due(c, at) \subseteq Cron /\ c \in Due(c, at)
         /\ IsFiniteSet(Due(c, at)) /\ Cardinality(Due(c, at)) \in Nat
         /\ Cardinality(Due(c, at)) >= 1
         /\ \A f \in Due(c, at) : f <= at
<1> DEFINE D == Due(c, at)
<1>1. D \in SUBSET Nat /\ D \subseteq Cron /\ c \in D /\ \A f \in D : f <= at
  <2>1. \A g \in Cron : g \in Nat
    BY ScheduleAssumption
  <2> QED
    BY <2>1 DEF Due
<1>2. at \in Nat
  BY ScheduleAssumption
<1>3. IsFiniteSet(D)
  BY <1>1, <1>2, FS_BoundedSetOfNaturals
<1>4. Cardinality(D) \in Nat /\ Cardinality(D) # 0
  BY <1>1, <1>3, FS_CardinalityType, FS_EmptySet
<1> QED
  BY <1>1, <1>3, <1>4

\* A later instant has a higher rank.
LEMMA RankIncreases ==
  ASSUME NEW D \in SUBSET Nat, IsFiniteSet(D), NEW f \in D, NEW g \in D, f < g
  PROVE  RankOf(D, f) < RankOf(D, g)
<1> DEFINE F == {h \in D : h <= f}
           G == {h \in D : h <= g}
<1>0. \A h \in D : h \in Nat
  OBVIOUS
<1>1. F \in SUBSET G /\ g \in G /\ g \notin F /\ G \in SUBSET D
  <2>1. \A h \in D : h <= f => h <= g
    BY <1>0
  <2>2. ~(g <= f) /\ g <= g
    BY <1>0
  <2> QED
    BY <2>1, <2>2
<1>2. IsFiniteSet(G)
  BY <1>1, FS_Subset
<1>3. Cardinality(F) <= Cardinality(G) /\ Cardinality(F) # Cardinality(G) /\ IsFiniteSet(F)
  BY <1>1, <1>2, FS_Subset
<1>4. Cardinality(F) \in Nat /\ Cardinality(G) \in Nat
  BY <1>2, <1>3, FS_CardinalityType
<1> QED
  BY <1>3, <1>4 DEF RankOf

\* The ranks of a finite set of naturals are 1, 2, ... without a gap: every number up
\* to the cardinality is the rank of exactly one element.
LEMMA RankBijective ==
  ASSUME NEW D \in SUBSET Nat, IsFiniteSet(D)
  PROVE  /\ \A f \in D : RankOf(D, f) \in 1 .. Cardinality(D)
         /\ \A f, g \in D : RankOf(D, f) = RankOf(D, g) => f = g
         /\ \A n \in 1 .. Cardinality(D) : \E f \in D : RankOf(D, f) = n
<1> DEFINE N == Cardinality(D)
           R == [f \in D |-> RankOf(D, f)]
<1>1. N \in Nat
  BY FS_CardinalityType
<1>2. ASSUME NEW f \in D PROVE RankOf(D, f) \in 1 .. N
  <2> DEFINE F == {g \in D : g <= f}
  <2>1. F \in SUBSET D /\ f \in F
    OBVIOUS
  <2>2. IsFiniteSet(F) /\ Cardinality(F) <= N
    BY <2>1, FS_Subset
  <2>3. Cardinality(F) \in Nat /\ Cardinality(F) # 0
    BY <2>1, <2>2, FS_CardinalityType, FS_EmptySet
  <2> QED
    BY <1>1, <2>2, <2>3 DEF RankOf
<1>3. ASSUME NEW f \in D, NEW g \in D, RankOf(D, f) = RankOf(D, g) PROVE f = g
  <2>1. RankOf(D, f) \in Nat
    BY <1>2
  <2>2. ~(f < g)
    BY <1>3, <2>1, RankIncreases
  <2>3. ~(g < f)
    BY <1>3, <2>1, RankIncreases
  <2> QED
    BY <2>2, <2>3
<1>4. IsFiniteSet(1 .. N) /\ Cardinality(1 .. N) = N
  BY <1>1, FS_Interval
<1>5. R \in Injection(D, 1 .. N)
  BY <1>2, <1>3, Fun_IsInj
<1>6. R \in Surjection(D, 1 .. N)
  BY <1>4, <1>5, FS_Injection
<1>7. ASSUME NEW n \in 1 .. N PROVE \E f \in D : RankOf(D, f) = n
  <2>0. \A t \in 1 .. N : \E f \in D : R[f] = t
    <3> HIDE DEF N, R
    <3> QED
      BY <1>6, Fun_SurjectionProperties
  <2>1. \E f \in D : R[f] = n
    BY <2>0
  <2> QED
    BY <2>1
<1> QED
  BY <1>2, <1>3, <1>7

\* CatchUp lists due instants, at least one, and none is missing before its last.
LEMMA CatchUpHasNoGap ==
  ASSUME NEW c \in Cron, NEW at \in 0 .. MaxTime, c <= at, NEW k \in Nat \ {0}
  PROVE  LET fires == CatchUp(c, at, k)
         IN  /\ fires \in Seq(Cron) /\ Len(fires) \in Nat /\ Len(fires) >= 1
             /\ fires[Len(fires)] \in Cron /\ fires[Len(fires)] <= at
             /\ \A f \in Due(c, at) :
                  f <= fires[Len(fires)] => \E n \in 1 .. Len(fires) : fires[n] = f
<1> DEFINE D == Due(c, at)
           L == PlanLength(c, at, k)
           fires == CatchUp(c, at, k)
           Nth(n) == CHOOSE f \in D : RankOf(D, f) = n
<1>1. /\ D \in SUBSET Nat /\ D \subseteq Cron /\ IsFiniteSet(D) /\ Cardinality(D) \in Nat
      /\ Cardinality(D) >= 1 /\ \A f \in D : f <= at
  BY DueFinite
<1>r. /\ \A f \in D : RankOf(D, f) \in 1 .. Cardinality(D)
      /\ \A f, g \in D : RankOf(D, f) = RankOf(D, g) => f = g
      /\ \A f, g \in D : f < g => RankOf(D, f) < RankOf(D, g)
  <2> HIDE DEF D
  <2> QED
    BY <1>1, RankBijective, RankIncreases
<1>2. L \in Nat /\ L >= 1 /\ L <= Cardinality(D)
  BY <1>1 DEF PlanLength
<1>3. fires = [n \in 1 .. L |-> Nth(n)]
  BY DEF CatchUp, Due, RankOf, PlanLength
<1>4. ASSUME NEW n \in 1 .. L PROVE Nth(n) \in D /\ RankOf(D, Nth(n)) = n
  <2>1. n \in 1 .. Cardinality(D)
    BY <1>1, <1>2
  <2>2. \E f \in D : RankOf(D, f) = n
    BY <1>1, <2>1, RankBijective
  <2> QED
    BY <2>2
<1> HIDE DEF fires, D, L, Nth
<1>5. fires \in Seq(Cron) /\ Len(fires) = L
  <2>1. fires \in [1 .. L -> Cron]
    BY <1>1, <1>3, <1>4
  <2> QED
    BY <1>2, <2>1
<1>6. \A n \in 1 .. L : fires[n] = Nth(n)
  BY <1>3
<1>7. fires[L] \in D /\ RankOf(D, fires[L]) = L
  BY <1>2, <1>4, <1>6
<1>8. ASSUME NEW f \in D, f <= fires[L] PROVE \E n \in 1 .. L : fires[n] = f
  <2>1. RankOf(D, f) \in 1 .. Cardinality(D)
    BY <1>r
  <2>2. RankOf(D, f) <= L
    <3>1. CASE f = fires[L]
      BY <3>1, <1>2, <1>7
    <3>2. CASE f < fires[L]
      <4>1. RankOf(D, f) < L
        BY <3>2, <1>7, <1>r
      <4> QED
        BY <4>1, <2>1, <1>2, <1>1
    <3>3. f \in Nat /\ fires[L] \in Nat
      BY <1>1, <1>7
    <3> QED
      BY <3>1, <3>2, <3>3, <1>8
  <2>3. RankOf(D, f) \in 1 .. L
    BY <1>1, <1>2, <2>1, <2>2
  <2>4. Nth(RankOf(D, f)) \in D /\ RankOf(D, Nth(RankOf(D, f))) = RankOf(D, f)
    BY <2>3, <1>4
  <2>5. Nth(RankOf(D, f)) = f
    BY <2>4, <1>r
  <2> QED
    BY <2>3, <2>5, <1>6
<1> QED
  BY <1>1, <1>2, <1>5, <1>7, <1>8 DEF D, fires

\* dispatch_plan: the cursor goes to an instant of the cron, and with misfires not
\* skipped every instant it passes is among the fires.
LEMMA DispatchPlanIsComplete ==
  ASSUME NEW misfire \in {"skip", "fire_once", "catch_up"}, NEW c \in Cron,
         NEW at \in 0 .. MaxTime, c <= at, NEW limit \in Nat \ {0}
  PROVE  LET plan == DispatchPlan(misfire, c, at, limit)
         IN  /\ plan.fires \in Seq(Cron) /\ plan.next \in Cron
             /\ misfire # "skip" /\ c \notin GapFires =>
                  \A f \in Cron :
                    /\ c <= f /\ f < plan.next
                    /\ misfire = "catch_up" \/ f = c
                    => \E n \in 1 .. Len(plan.fires) : plan.fires[n] = f
<1> DEFINE plan == DispatchPlan(misfire, c, at, limit)
<1>0. \A f \in Cron : f \in Nat
  BY ScheduleAssumption
<1>1. NextAfter(at) \in Cron
  BY NextAfterIsLeast
<1>2. CASE c \in GapFires \/ misfire = "skip"
  <2>1. plan = [fires |-> <<>>, next |-> NextAfter(at)]
    BY <1>2 DEF DispatchPlan
  <2> QED
    BY <1>1, <1>2, <2>1
<1>3. CASE c \notin GapFires /\ misfire = "fire_once"
  <2>1. plan = [fires |-> <<c>>, next |-> NextAfter(at)]
    BY <1>3 DEF DispatchPlan
  <2>2. <<c>> \in Seq(Cron) /\ \E n \in 1 .. Len(<<c>>) : <<c>>[n] = c
    OBVIOUS
  <2>3. plan.fires = <<c>> /\ plan.next = NextAfter(at)
    BY <2>1
  <2>4. \A f \in Cron : misfire = "catch_up" \/ f = c => \E n \in 1 .. Len(<<c>>) : <<c>>[n] = f
    BY <1>3, <2>2
  <2> HIDE DEF plan
  <2>5. plan.fires \in Seq(Cron) /\ plan.next \in Cron
    BY <1>1, <2>2, <2>3
  <2>6. \A f \in Cron : misfire = "catch_up" \/ f = c =>
          \E n \in 1 .. Len(plan.fires) : plan.fires[n] = f
    BY <2>3, <2>4
  <2> QED
    BY <2>5, <2>6 DEF plan
<1>4. CASE c \notin GapFires /\ misfire = "catch_up"
  <2> DEFINE fires == CatchUp(c, at, limit)
             last == fires[Len(fires)]
  <2>1. plan = [fires |-> fires, next |-> NextAfter(last)]
    BY <1>4 DEF DispatchPlan
  <2>2. /\ fires \in Seq(Cron) /\ last \in Cron /\ last <= at
        /\ \A f \in Due(c, at) : f <= last => \E n \in 1 .. Len(fires) : fires[n] = f
    BY CatchUpHasNoGap
  <2> HIDE DEF fires
  <2>3. last \in 0 .. MaxTime
    <3>1. last \in Nat
      BY <2>2, <1>0
    <3>2. at \in Nat /\ at <= MaxTime /\ MaxTime \in Nat
      BY ScheduleAssumption
    <3> QED
      BY <3>1, <3>2, <2>2
  <2>4. /\ NextAfter(last) \in Cron
        /\ \A f \in Cron : f > last => NextAfter(last) <= f
    BY <2>3, NextAfterIsLeast
  <2>5. ASSUME NEW f \in Cron, c <= f, f < NextAfter(last)
        PROVE  \E n \in 1 .. Len(fires) : fires[n] = f
    <3>1. f <= last
      BY <1>0, <2>2, <2>4, <2>5
    <3>2. f \in Due(c, at)
      BY <3>1, <2>2, <2>5, <1>0 DEF Due
    <3> QED
      BY <3>1, <3>2, <2>2
  <2> QED
    BY <2>1, <2>2, <2>4, <2>5
<1> QED
  BY <1>2, <1>3, <1>4

----------------------------------------------------------------------------
\* The Runs.

\* The step of NoFireLost.
FireKept ==
  schedule.overlap = "allow" /\ schedule.misfire # "skip" =>
    \A f \in Cron \ GapFires :
      /\ schedule.next <= f /\ f < schedule'.next /\ schedule.next \notin GapFires
      /\ schedule.misfire = "catch_up" \/ f = schedule.next
      => HasRun(f)

RunsOK == OneRunPerFire /\ ForbidExclusive

RunsKept == \A f \in Fires : HasRun(f) => HasRun(f)'

\* create_run adds a Run where there was none, beside no other when overlap is forbidden.
LEMMA CreateRunStep ==
  ASSUME ScheduleInv, NEW f \in Fires, CreateRun(f), UNCHANGED schedule
  PROVE  /\ runs' \in [Fires -> [active : Nat, ended : Nat]]
         /\ RunsOK' /\ RunsKept /\ HasRun(f)'
<1>0. /\ runs \in [Fires -> [active : Nat, ended : Nat]] /\ OneRunPerFire /\ ForbidExclusive
  BY DEF ScheduleInv, ScheduleTypes
<1>1. CASE HasRun(f)
  BY <1>0, <1>1 DEF CreateRun, RunsOK, RunsKept, OneRunPerFire, ForbidExclusive, HasRun
<1>2. CASE ~HasRun(f)
  <2>1. /\ ~(schedule.overlap = "forbid" /\ \E g \in Fires : runs[g].active > 0)
        /\ runs' = [runs EXCEPT ![f].active = @ + 1]
    BY <1>2 DEF CreateRun, Refused, ActiveRuns
  <2>2. runs[f].active = 0 /\ runs[f].ended = 0
    BY <1>0, <1>2 DEF HasRun
  <2>3. /\ runs' \in [Fires -> [active : Nat, ended : Nat]]
        /\ runs'[f].active = 1 /\ runs'[f].ended = 0
        /\ \A g \in Fires : g # f => runs'[g] = runs[g]
    BY <1>0, <2>1, <2>2
  <2>4. OneRunPerFire'
    BY <1>0, <2>3 DEF OneRunPerFire
  <2>5. ForbidExclusive'
    BY <1>0, <2>1, <2>3 DEF ForbidExclusive
  <2>6. RunsKept /\ HasRun(f)'
    BY <1>0, <2>3 DEF RunsKept, HasRun
  <2> QED
    BY <2>3, <2>4, <2>5, <2>6 DEF RunsOK
<1> QED
  BY <1>1, <1>2

\* A plan that is not touched stays complete while Runs are kept.
LEMMA PlanKept ==
  ASSUME ScheduleInv, RunsKept, NEW s \in Scanners, scanner'[s] = scanner[s],
         schedule'.overlap = schedule.overlap, schedule'.misfire = schedule.misfire
  PROVE  ReadDue(s)' /\ PlanComplete(s)'
<1>1. ReadDue(s) /\ PlanComplete(s)
  BY DEF ScheduleInv
<1>2. \A f \in Cron : HasRun(f) => HasRun(f)'
  BY DEF RunsKept, Fires
<1> QED
  BY <1>1, <1>2 DEF ReadDue, PlanComplete, Planned

\* Steps that leave the Runs alone.
LEMMA QuietRuns ==
  ASSUME ScheduleInv, UNCHANGED runs, schedule'.overlap = schedule.overlap
  PROVE  RunsOK' /\ RunsKept
<1> QED
  BY DEF ScheduleInv, RunsOK, RunsKept, OneRunPerFire, ForbidExclusive, HasRun

\* Steps that leave the cursor alone.
LEMMA QuietCursor ==
  ASSUME ScheduleInv, UNCHANGED schedule
  PROVE  FireKept
<1>1. schedule.next \in Nat /\ \A f \in Cron : f \in Nat
  BY ScheduleAssumption DEF ScheduleInv, ScheduleTypes
<1> QED
  BY <1>1 DEF FireKept

\* The rows of the scanners.
LEMMA IdleScannerType ==
  IdleScanner \in ScannerRows
<1>1. 0 \in 0 .. MaxTime /\ <<>> \in Seq(Cron)
  BY ScheduleAssumption
<1> QED
  BY <1>1 DEF IdleScanner, ScannerRows

----------------------------------------------------------------------------
\* One lemma per action.

\* scan_due_schedules: the scanner reads a cursor that is due.
LEMMA ScanDueSchedulesStep ==
  ASSUME ScheduleInv, NEW s \in Scanners, ScanDueSchedules(s)
  PROVE  ScheduleInv' /\ FireKept
<1>0. UNCHANGED <<now, schedule, runs, crashes>>
  BY DEF ScanDueSchedules
<1>1. ScheduleTypes'
  <2>1. schedule.next \in Cron /\ schedule.version \in Nat /\ now \in 0 .. MaxTime
    BY DEF ScheduleInv, ScheduleTypes
  <2>2. [IdleScanner EXCEPT !.pc = "plan", !.at = now, !.version = schedule.version,
                            !.cursor = schedule.next] \in ScannerRows
    BY <2>1, IdleScannerType DEF ScannerRows
  <2>3. scanner' \in [Scanners -> ScannerRows]
    BY <2>2 DEF ScanDueSchedules, ScheduleInv, ScheduleTypes
  <2> QED
    BY <1>0, <2>3 DEF ScheduleInv, ScheduleTypes
<1>2. RunsOK' /\ RunsKept
  BY <1>0, QuietRuns
<1>3. ReadDue(s)' /\ PlanComplete(s)'
  <2>1. scanner'[s].pc = "plan" /\ scanner'[s].cursor = schedule.next /\ scanner'[s].at = now
    BY DEF ScanDueSchedules, IdleScanner, ScheduleInv, ScheduleTypes
  <2> QED
    BY <2>1 DEF ReadDue, PlanComplete, ScheduleInv, ScheduleTypes, ScanDueSchedules
<1>4. ASSUME NEW q \in Scanners, q # s PROVE ReadDue(q)' /\ PlanComplete(q)'
  <2>1. scanner'[q] = scanner[q]
    BY <1>4 DEF ScanDueSchedules, ScheduleInv, ScheduleTypes
  <2> QED
    BY <1>0, <1>2, <2>1, PlanKept
<1>5. FireKept
  BY <1>0, QuietCursor
<1> QED
  BY <1>1, <1>2, <1>3, <1>4, <1>5 DEF ScheduleInv, RunsOK

\* The plan leaves no instant behind that has no Run.
LEMMA PlanDispatchStep ==
  ASSUME ScheduleInv, NEW s \in Scanners, PlanDispatch(s)
  PROVE  ScheduleInv' /\ FireKept
<1> DEFINE misfire == IF schedule.overlap = "forbid" /\ ActiveRuns THEN "skip" ELSE schedule.misfire
           plan == DispatchPlan(misfire, scanner[s].cursor, scanner[s].at, schedule.limit)
<1>0. /\ UNCHANGED <<now, schedule, runs, crashes>>
      /\ scanner[s].pc = "plan"
      /\ scanner' = [scanner EXCEPT ![s].pc = "fire", ![s].fires = plan.fires,
                                    ![s].next = plan.next]
  BY Zenon DEF PlanDispatch
<1>1. /\ misfire \in {"skip", "fire_once", "catch_up"} /\ scanner[s].cursor \in Cron
      /\ scanner[s].at \in 0 .. MaxTime /\ scanner[s].cursor <= scanner[s].at
      /\ schedule.limit \in Nat \ {0}
  <2>1. schedule.misfire \in Misfires /\ schedule.limit \in Limits /\ scanner[s] \in ScannerRows
    BY DEF ScheduleInv, ScheduleTypes
  <2>2. scanner[s].cursor \in Cron /\ scanner[s].cursor <= scanner[s].at
    BY <1>0 DEF ScheduleInv, ReadDue
  <2>3. scanner[s].at \in 0 .. MaxTime
    BY <2>1 DEF ScannerRows
  <2>4. schedule.misfire \in {"skip", "fire_once", "catch_up"}
    BY <2>1, ScheduleAssumption
  <2>5. schedule.limit \in 1 .. 100
    BY <2>1, ScheduleAssumption
  <2>6. schedule.limit \in Nat \ {0}
    BY <2>5
  <2> QED
    BY <2>2, <2>3, <2>4, <2>6
<1>2. /\ plan.fires \in Seq(Cron) /\ plan.next \in Cron
      /\ misfire # "skip" /\ scanner[s].cursor \notin GapFires =>
           \A f \in Cron :
             /\ scanner[s].cursor <= f /\ f < plan.next
             /\ misfire = "catch_up" \/ f = scanner[s].cursor
             => \E n \in 1 .. Len(plan.fires) : plan.fires[n] = f
  <2> HIDE DEF misfire
  <2> QED
    BY <1>1, DispatchPlanIsComplete, SMTT(30)
<1>3. schedule.overlap = "allow" => misfire = schedule.misfire
  OBVIOUS
<1> HIDE DEF misfire, plan
<1>4. ScheduleTypes'
  <2>1. scanner[s] \in ScannerRows
    BY DEF ScheduleInv, ScheduleTypes
  <2>2. [scanner[s] EXCEPT !.pc = "fire", !.fires = plan.fires, !.next = plan.next] \in ScannerRows
    BY <2>1, <1>2 DEF ScannerRows
  <2>3. scanner' \in [Scanners -> ScannerRows]
    BY <2>2, <1>0 DEF ScheduleInv, ScheduleTypes
  <2> QED
    BY <1>0, <2>3 DEF ScheduleInv, ScheduleTypes
<1>5. RunsOK' /\ RunsKept
  BY <1>0, QuietRuns
<1>6. ReadDue(s)' /\ PlanComplete(s)'
  <2>1. /\ scanner'[s].pc = "fire" /\ scanner'[s].fires = plan.fires /\ scanner'[s].next = plan.next
        /\ scanner'[s].cursor = scanner[s].cursor /\ scanner'[s].at = scanner[s].at
    BY <1>0 DEF ScheduleInv, ScheduleTypes
  <2> QED
    BY <2>1, <1>0, <1>1, <1>2, <1>3 DEF ReadDue, PlanComplete, Planned
<1>7. ASSUME NEW q \in Scanners, q # s PROVE ReadDue(q)' /\ PlanComplete(q)'
  <2>1. scanner'[q] = scanner[q]
    BY <1>0, <1>7 DEF ScheduleInv, ScheduleTypes
  <2> QED
    BY <1>0, <1>5, <2>1, PlanKept
<1>8. FireKept
  BY <1>0, QuietCursor
<1> QED
  BY <1>4, <1>5, <1>6, <1>7, <1>8 DEF ScheduleInv, RunsOK

\* The fire leaves the plan in the transaction that gives it its Run.
LEMMA FireNextStep ==
  ASSUME ScheduleInv, NEW s \in Scanners, FireNext(s)
  PROVE  ScheduleInv' /\ FireKept
<1>0. /\ UNCHANGED <<now, schedule, crashes>>
      /\ scanner[s].pc = "fire" /\ scanner[s].fires # <<>> /\ scanner[s] \in ScannerRows
      /\ CreateRun(Head(scanner[s].fires))
      /\ scanner' = [scanner EXCEPT ![s].fires = Tail(scanner[s].fires)]
  BY DEF FireNext, ScheduleInv, ScheduleTypes
<1>1. PICK fires \in Seq(Cron) : fires = scanner[s].fires
  BY <1>0 DEF ScannerRows
<1>2. PICK head \in Cron, tail \in Seq(Cron) :
        /\ head = Head(fires) /\ tail = Tail(fires)
        /\ \A n \in 1 .. Len(fires) :
             fires[n] = head \/ \E m \in 1 .. Len(tail) : tail[m] = fires[n]
  <2>1. Head(fires) \in Cron /\ Tail(fires) \in Seq(Cron) /\ Len(fires) \in Nat
    BY <1>0, <1>1
  <2>2. ASSUME NEW n \in 1 .. Len(fires), n # 1
        PROVE  n - 1 \in 1 .. Len(Tail(fires)) /\ Tail(fires)[n - 1] = fires[n]
    BY <1>0, <1>1, <2>2
  <2>3. ASSUME NEW n \in 1 .. Len(fires)
        PROVE  fires[n] = Head(fires) \/ \E m \in 1 .. Len(Tail(fires)) : Tail(fires)[m] = fires[n]
    BY <1>0, <1>1, <2>2
  <2> QED
    BY <2>1, <2>3
<1>3. /\ runs' \in [Fires -> [active : Nat, ended : Nat]]
      /\ RunsOK' /\ RunsKept /\ HasRun(head)'
  <2>1. head \in Fires /\ CreateRun(head)
    BY <1>0, <1>1, <1>2 DEF Fires
  <2> QED
    BY <2>1, <1>0, CreateRunStep
<1>4. ScheduleTypes'
  <2>1. [scanner[s] EXCEPT !.fires = tail] \in ScannerRows
    BY <1>0 DEF ScannerRows
  <2>2. scanner' = [scanner EXCEPT ![s] = [scanner[s] EXCEPT !.fires = tail]]
    BY <1>0, <1>1, <1>2 DEF ScheduleInv, ScheduleTypes
  <2>3. scanner' \in [Scanners -> ScannerRows]
    BY <2>1, <2>2 DEF ScheduleInv, ScheduleTypes
  <2> QED
    BY <1>0, <1>3, <2>3 DEF ScheduleInv, ScheduleTypes
<1>5. ReadDue(s)' /\ PlanComplete(s)'
  <2>1. /\ scanner'[s].pc = "fire" /\ scanner'[s].fires = tail
        /\ scanner'[s].cursor = scanner[s].cursor /\ scanner'[s].at = scanner[s].at
        /\ scanner'[s].next = scanner[s].next
    BY <1>0, <1>1, <1>2 DEF ScheduleInv, ScheduleTypes, ScannerRows
  <2>2. ASSUME NEW f \in Cron, Planned(f, fires) PROVE Planned(f, tail)'
    <3>1. CASE HasRun(f)
      BY <3>1, <1>3 DEF Planned, RunsKept, Fires
    <3>2. CASE ~HasRun(f)
      <4>1. PICK n \in 1 .. Len(fires) : fires[n] = f
        BY <2>2, <3>2 DEF Planned
      <4>2. f = head \/ \E m \in 1 .. Len(tail) : tail[m] = f
        BY <4>1, <1>2
      <4> QED
        BY <4>2, <1>3 DEF Planned
    <3> QED
      BY <3>1, <3>2
  <2>3. ReadDue(s) /\ PlanComplete(s)
    BY DEF ScheduleInv
  <2> QED
    BY <2>1, <2>2, <2>3, <1>0, <1>1 DEF ReadDue, PlanComplete
<1>6. ASSUME NEW q \in Scanners, q # s PROVE ReadDue(q)' /\ PlanComplete(q)'
  <2>1. scanner'[q] = scanner[q]
    BY <1>0, <1>6 DEF ScheduleInv, ScheduleTypes
  <2> QED
    BY <1>0, <1>3, <2>1, PlanKept
<1>7. FireKept
  BY <1>0, QuietCursor
<1> QED
  BY <1>3, <1>4, <1>5, <1>6, <1>7 DEF ScheduleInv, RunsOK

\* A scanner that ends its dispatch without moving the cursor.
LEMMA ScannerEnds ==
  ASSUME ScheduleInv, NEW s \in Scanners, scanner' = [scanner EXCEPT ![s] = IdleScanner],
         UNCHANGED <<now, runs>>, crashes' \in Nat,
         schedule' \in [misfire : Misfires, overlap : Overlaps, limit : Limits, next : Cron,
                        version : Nat],
         schedule'.overlap = schedule.overlap, schedule'.misfire = schedule.misfire
  PROVE  ScheduleInv'
<1>1. ScheduleTypes'
  BY IdleScannerType DEF ScheduleInv, ScheduleTypes
<1>2. RunsOK' /\ RunsKept
  BY QuietRuns
<1>3. ASSUME NEW q \in Scanners PROVE ReadDue(q)' /\ PlanComplete(q)'
  <2>1. CASE q = s
    BY <2>1 DEF IdleScanner, ReadDue, PlanComplete, ScheduleInv, ScheduleTypes
  <2>2. CASE q # s
    BY <2>2, <1>2, PlanKept DEF ScheduleInv, ScheduleTypes
  <2> QED
    BY <2>1, <2>2
<1> QED
  BY <1>1, <1>2, <1>3 DEF ScheduleInv, RunsOK

\* A refused fire, or a scanner that stops, ends the dispatch before the cursor moves.
LEMMA FireRefusedStep ==
  ASSUME ScheduleInv, NEW s \in Scanners, FireRefused(s) \/ StopScanner(s)
  PROVE  ScheduleInv' /\ FireKept
<1>1. /\ scanner' = [scanner EXCEPT ![s] = IdleScanner] /\ UNCHANGED <<now, schedule, runs>>
      /\ crashes' \in Nat
  BY DEF FireRefused, StopScanner, ScheduleInv, ScheduleTypes
<1> QED
  BY <1>1, ScannerEnds, QuietCursor DEF ScheduleInv, ScheduleTypes

\* The cursor moves only past instants that have their Run.
LEMMA AdvanceScheduleStep ==
  ASSUME ScheduleInv, NEW s \in Scanners, AdvanceSchedule(s)
  PROVE  ScheduleInv' /\ FireKept
<1>0. /\ scanner[s].pc = "fire" /\ scanner[s].fires = <<>> /\ Advance(s)
      /\ scanner' = [scanner EXCEPT ![s] = IdleScanner] /\ UNCHANGED <<now, runs, crashes>>
      /\ scanner[s].next \in Cron
  BY DEF AdvanceSchedule, ScheduleInv, PlanComplete
<1>1. /\ schedule' \in [misfire : Misfires, overlap : Overlaps, limit : Limits, next : Cron,
                        version : Nat]
      /\ schedule'.overlap = schedule.overlap /\ schedule'.misfire = schedule.misfire
  <2>1. schedule \in [misfire : Misfires, overlap : Overlaps, limit : Limits, next : Cron,
                      version : Nat]
    BY DEF ScheduleInv, ScheduleTypes
  <2>2. CASE UNCHANGED schedule
    BY <2>1, <2>2
  <2>3. CASE schedule' = [schedule EXCEPT !.next = scanner[s].next, !.version = @ + 1]
    <3>1. schedule' = [misfire |-> schedule.misfire, overlap |-> schedule.overlap,
                       limit |-> schedule.limit, next |-> scanner[s].next,
                       version |-> schedule.version + 1]
      BY <2>1, <2>3
    <3>2. schedule.version + 1 \in Nat
      BY <2>1
    <3> QED
      BY <1>0, <2>1, <3>1, <3>2
  <2> QED
    BY <1>0, <2>2, <2>3 DEF Advance
<1>2. ScheduleInv'
  BY <1>0, <1>1, ScannerEnds DEF ScheduleInv, ScheduleTypes
<1>3. FireKept
  <2>1. CASE UNCHANGED schedule
    BY <2>1, QuietCursor
  <2>2. CASE Unchanged(s)
    <3>1. schedule.next = scanner[s].cursor /\ schedule'.next = scanner[s].next
      BY <2>2, <1>0 DEF Unchanged, Advance, ScheduleInv, ScheduleTypes
    <3>2. \A f : Planned(f, <<>>) => HasRun(f)
      BY DEF Planned
    <3>3. PlanComplete(s)
      BY DEF ScheduleInv
    <3> QED
      BY <1>0, <3>1, <3>2, <3>3 DEF FireKept, PlanComplete
  <2> QED
    BY <1>0, <2>1, <2>2 DEF Advance
<1> QED
  BY <1>2, <1>3

\* A step of an operator, a Run or the clock: no scanner moves.
LEMMA ScannersRest ==
  ASSUME ScheduleInv, UNCHANGED <<schedule, scanner, crashes>>, now' \in 0 .. MaxTime,
         runs' \in [Fires -> [active : Nat, ended : Nat]], RunsOK', RunsKept
  PROVE  ScheduleInv' /\ FireKept
<1>1. ScheduleTypes'
  BY DEF ScheduleInv, ScheduleTypes
<1>2. ASSUME NEW q \in Scanners PROVE ReadDue(q)' /\ PlanComplete(q)'
  BY PlanKept
<1> QED
  BY <1>1, <1>2, QuietCursor DEF ScheduleInv, RunsOK

\* A fire by hand adds a Run and leaves the cursor and the plans alone.
LEMMA FireScheduleStep ==
  ASSUME ScheduleInv, NEW f \in ManualFires, FireSchedule(f)
  PROVE  ScheduleInv' /\ FireKept
<1>1. f \in Fires /\ CreateRun(f) /\ UNCHANGED <<now, schedule, scanner, crashes>>
  BY DEF FireSchedule, Fires
<1>2. /\ runs' \in [Fires -> [active : Nat, ended : Nat]] /\ RunsOK' /\ RunsKept
  BY <1>1, CreateRunStep
<1> QED
  BY <1>1, <1>2, ScannersRest DEF ScheduleInv, ScheduleTypes

\* A Run that ends stays a Run of its fire.
LEMMA EndRunStep ==
  ASSUME ScheduleInv, NEW f \in Fires, EndRun(f)
  PROVE  ScheduleInv' /\ FireKept
<1>0. /\ runs \in [Fires -> [active : Nat, ended : Nat]] /\ OneRunPerFire /\ ForbidExclusive
      /\ runs[f].active > 0 /\ UNCHANGED <<now, schedule, scanner, crashes>>
      /\ runs' = [runs EXCEPT ![f].active = @ - 1, ![f].ended = @ + 1]
  BY DEF EndRun, ScheduleInv, ScheduleTypes
<1>1. /\ runs' \in [Fires -> [active : Nat, ended : Nat]]
      /\ runs'[f].active = runs[f].active - 1 /\ runs'[f].ended = runs[f].ended + 1
      /\ \A g \in Fires : g # f => runs'[g] = runs[g]
  BY <1>0
<1>2. RunsOK'
  BY <1>0, <1>1 DEF RunsOK, OneRunPerFire, ForbidExclusive
<1>3. RunsKept
  BY <1>0, <1>1 DEF RunsKept, HasRun
<1> QED
  BY <1>0, <1>1, <1>2, <1>3, ScannersRest DEF ScheduleInv, ScheduleTypes

\* Time that passes changes no row; a cursor that was due stays due.
LEMMA ClockTickStep ==
  ASSUME ScheduleInv, ClockTick
  PROVE  ScheduleInv' /\ FireKept
<1>1. UNCHANGED <<schedule, runs, scanner, crashes>> /\ now' \in 0 .. MaxTime
  BY ScheduleAssumption DEF ClockTick, ScheduleInv, ScheduleTypes
<1>2. RunsOK' /\ RunsKept
  BY <1>1, QuietRuns
<1> QED
  BY <1>1, <1>2, ScannersRest DEF ScheduleInv, ScheduleTypes

----------------------------------------------------------------------------
\* The induction.

\* The invariant holds of a new Schedule.
LEMMA ScheduleStart ==
  ScheduleInit => ScheduleInv
<1> SUFFICES ASSUME ScheduleInit PROVE ScheduleInv
  OBVIOUS
<1>0. 0 \in 0 .. MaxTime
  BY ScheduleAssumption
<1>1. NextAfter(0) \in Cron
  BY <1>0, NextAfterIsLeast
<1>2. ScheduleTypes
  BY <1>0, <1>1, IdleScannerType DEF ScheduleInit, ScheduleTypes
<1>3. \A s \in Scanners : ReadDue(s) /\ PlanComplete(s)
  BY DEF ScheduleInit, IdleScanner, ReadDue, PlanComplete
<1>4. OneRunPerFire /\ ForbidExclusive
  BY DEF ScheduleInit, OneRunPerFire, ForbidExclusive
<1> QED
  BY <1>2, <1>3, <1>4 DEF ScheduleInv

\* Every step keeps the invariant, and the cursor passes only instants that have a Run.
LEMMA ScheduleStep ==
  ScheduleInv /\ [ScheduleNext]_scheduleVars => ScheduleInv' /\ FireKept
<1> SUFFICES ASSUME ScheduleInv, [ScheduleNext]_scheduleVars PROVE ScheduleInv' /\ FireKept
  OBVIOUS
<1>1. ASSUME NEW s \in Scanners, ScannerStep(s) \/ StopScanner(s) PROVE ScheduleInv' /\ FireKept
  BY <1>1, ScanDueSchedulesStep, PlanDispatchStep, FireNextStep, FireRefusedStep,
     AdvanceScheduleStep DEF ScannerStep
<1>2. CASE UNCHANGED scheduleVars
  BY <1>2, QuietRuns, ScannersRest DEF scheduleVars, ScheduleInv, ScheduleTypes
<1> QED
  BY <1>1, <1>2, FireScheduleStep, EndRunStep, ClockTickStep DEF ScheduleNext

\* The inductive invariant holds in every reachable state, for every set of scanners,
\* instants and policies.
THEOREM ScheduleInvariant == ScheduleSpec => []ScheduleInv
<1> QED
  BY ScheduleStart, ScheduleStep, PTL DEF ScheduleSpec

\* A fire has at most one Run, however many scanners, restarts and operators ask for
\* it (create_run with a schedule_id).
THEOREM OneRun == ScheduleSpec => []OneRunPerFire
<1>1. ScheduleInv => OneRunPerFire
  BY DEF ScheduleInv
<1> QED
  BY <1>1, ScheduleInvariant, PTL

\* "forbid" never lets two Runs of the Schedule be active together.
THEOREM ForbidHolds == ScheduleSpec => []ForbidExclusive
<1>1. ScheduleInv => ForbidExclusive
  BY DEF ScheduleInv
<1> QED
  BY <1>1, ScheduleInvariant, PTL

\* With overlap allowed and misfires not skipped the cursor passes only instants that
\* have their Run, whatever scanners stop in the middle (dispatch_plan,
\* advance_schedule).
THEOREM FiresAreKept == ScheduleSpec => NoFireLost
<1>1. [][FireKept]_scheduleVars => NoFireLost
  BY DEF NoFireLost, FireKept
<1> QED
  BY <1>1, ScheduleInvariant, ScheduleStep, PTL DEF ScheduleSpec
=============================================================================
