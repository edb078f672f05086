SPECIFICATION FairSpec
CONSTANTS
  Workers = {w}
  NoWorker = NoWorker
  Tasks = {"t1", "t2", "r1", "r2"}
  InitialTasks = {"t1", "t2"}
  PlanTasks = {}
  RevisionTasks = {}
  Prereq <- NoPrereq
  Condition <- OnSuccess
  JoinAny = {}
  Results = {"yes"}
  NoResult = NoResult
  Expected = "yes"
  MaxAttempts <- OneAttempt
  TaskDeadline <- WaitsDeadline
  Stages = {"s1"}
  NoStage = NoStage
  InitialStages = {"s1"}
  StageOf <- WaitsStageOf
  Waits = {"w1", "w2"}
  Approval = {"w1"}
  MatchKey <- WaitsKey
  WaitStage <- WaitsStage
  WaitExpires <- WaitsExpires
  ResumeTask <- WaitsResume
  Tools = {}
  Agents = {}
  Deadlines <- NoDeadline
  FinishStatuses = {"completed"}
  LeaseDuration = 1
  RenewBy = 1
  Delays = {0}
  MaxTime = 2
  MaxLag = 0
  MaxGeneration = 1
  MaxRevision = 1
  MaxChildren = 0
PROPERTY WaitTimesOut
CHECK_DEADLOCK FALSE
