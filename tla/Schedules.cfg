SPECIFICATION ScheduleSpec
CONSTANTS
  Scanners = {s1, s2}
  Cron = {1, 2, 3, 4}
  GapFires = {2}
  ManualFires = {1, 2}
  Misfires = {"skip", "fire_once", "catch_up"}
  Overlaps = {"allow", "forbid"}
  Limits = {2}
  MaxTime = 3
  MaxCrashes = 1
INVARIANTS OneRunPerFire ForbidExclusive
PROPERTIES NoFireLost CursorMoves
CHECK_DEADLOCK FALSE
