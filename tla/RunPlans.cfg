SPECIFICATION Spec
CONSTANTS
  Workers = {w}
  NoWorker = NoWorker
  Tasks = {"t1", "x"}
  InitialTasks = {"t1"}
  PlanTasks = {}
  RevisionTasks = {"x"}
  Prereq <- PlanPrereq
  Condition <- OnSuccess
  JoinAny = {}
  Results = {"yes"}
  NoResult = NoResult
  Expected = "yes"
  MaxAttempts <- TwoAttempts
  TaskDeadline <- NoDeadlines
  Stages = {}
  NoStage = NoStage
  InitialStages = {}
  StageOf <- NoStageOf
  Waits = {}
  Approval = {}
  MatchKey <- NoWaits
  WaitStage <- NoWaits
  WaitExpires <- NoWaits
  ResumeTask <- NoWaits
  Tools = {}
  Agents = {}
  Deadlines <- NoDeadline
  FinishStatuses = {"completed"}
  LeaseDuration = 1
  RenewBy = 1
  Delays = {0}
  MaxTime = 1
  MaxLag = 0
  MaxGeneration = 1
  MaxRevision = 2
  MaxChildren = 2
INVARIANTS FanInGate GenerationGate
CHECK_DEADLOCK FALSE
