SPECIFICATION Spec
CONSTANTS
  Workers = {w}
  NoWorker = NoWorker
  Tasks = {"a", "b", "c", "d", "e"}
  InitialTasks = {"a", "b", "c", "d"}
  PlanTasks = {}
  RevisionTasks = {"e"}
  Prereq <- GraphPrereq
  Condition <- GraphCondition
  JoinAny = {"d"}
  Results = {"yes", "no"}
  NoResult = NoResult
  Expected = "yes"
  MaxAttempts <- GraphAttempts
  TaskDeadline <- NoDeadlines
  Stages = {}
  NoStage = NoStage
  InitialStages = {}
  StageOf <- NoStageOf
  Waits = {}
  Approval = {}
  MatchKey <- NoWaits
  WaitStage <- NoWaits
  WaitExpires <- NoWaits
  ResumeTask <- NoWaits
  Tools = {}
  Agents = {}
  Deadlines <- NoDeadline
  FinishStatuses = {"completed"}
  LeaseDuration = 1
  RenewBy = 1
  Delays = {0}
  MaxTime = 2
  MaxLag = 0
  MaxGeneration = 0
  MaxRevision = 2
  MaxChildren = 0
INVARIANTS DependencyGate DependentsResolved
CHECK_DEADLOCK FALSE
