SPECIFICATION Spec
CONSTANTS
  Workers = {w}
  NoWorker = NoWorker
  Tasks = {"a", "b", "c", "d"}
  InitialTasks = {"a", "b", "c", "d"}
  PlanTasks = {}
  RevisionTasks = {}
  Prereq <- GraphPrereq
  Condition <- GraphCondition
  JoinAny = {"d"}
  Results = {"yes"}
  NoResult = NoResult
  Expected = "yes"
  MaxAttempts <- OneAttempt
  TaskDeadline <- NoDeadlines
  Stages = {}
  NoStage = NoStage
  InitialStages = {}
  StageOf <- NoStageOf
  Waits = {}
  Approval = {}
  MatchKey <- NoWaits
  WaitStage <- NoWaits
  WaitExpires <- NoWaits
  ResumeTask <- NoWaits
  Tools = {}
  Agents = {}
  Deadlines <- NoDeadline
  FinishStatuses = {"completed"}
  LeaseDuration = 1
  RenewBy = 1
  Delays = {0}
  MaxTime = 2
  MaxLag = 0
  MaxGeneration = 1
  MaxRevision = 1
  MaxChildren = 0
INVARIANT OnlySatisfiedDependentsRun
CHECK_DEADLOCK FALSE
