SPECIFICATION WorkSpec
CONSTANTS
  Workers = {w}
  NoWorker = NoWorker
  Tasks = {"t1", "q1"}
  InitialTasks = {"t1"}
  PlanTasks = {}
  RevisionTasks = {}
  Prereq <- NoPrereq
  Condition <- OnSuccess
  JoinAny = {}
  Results = {"yes"}
  NoResult = NoResult
  Expected = "yes"
  MaxAttempts <- OneAttempt
  TaskDeadline <- NoDeadlines
  Stages = {}
  NoStage = NoStage
  InitialStages = {}
  StageOf <- NoStageOf
  Waits = {}
  Approval = {}
  MatchKey <- NoWaits
  WaitStage <- NoWaits
  WaitExpires <- NoWaits
  ResumeTask <- NoWaits
  Tools = {}
  Agents = {"a"}
  Deadlines <- NoDeadline
  FinishStatuses = {"completed"}
  LeaseDuration = 1
  RenewBy = 1
  Delays = {0}
  MaxTime = 2
  MaxLag = 0
  MaxGeneration = 1
  MaxRevision = 1
  MaxChildren = 0
  RecoveryTasks = {"q1"}
  RemoteEvents = {"e1"}
  Authoritative = {"e1"}
  RetryDelays = {0}
  StaleAfter = 1
  MaxToolAttempts = 1
  MaxAgentVersion = 3
  Pollers = {p}
  MaxCrashes = 0
INVARIANT RecoveryTaskCanStart
CHECK_DEADLOCK FALSE
