SPECIFICATION FairWorkSpec
CONSTANTS
  Workers = {w}
  NoWorker = NoWorker
  Tasks = {"t1", "q1"}
  InitialTasks = {"t1"}
  PlanTasks = {}
  RevisionTasks = {}
  Prereq <- NoPrereq
  Condition <- OnSuccess
  JoinAny = {}
  Results = {"yes"}
  NoResult = NoResult
  Expected = "yes"
  MaxAttempts <- OneAttempt
  TaskDeadline <- NoDeadlines
  Stages = {}
  NoStage = NoStage
  InitialStages = {}
  StageOf <- NoStageOf
  Waits = {}
  Approval = {}
  MatchKey <- NoWaits
  WaitStage <- NoWaits
  WaitExpires <- NoWaits
  ResumeTask <- NoWaits
  Tools = {}
  Agents = {"a"}
  Deadlines = {2}
  FinishStatuses = {"completed"}
  LeaseDuration = 1
  RenewBy = 1
  Delays = {0}
  MaxTime = 2
  MaxLag = 0
  MaxGeneration = 1
  MaxRevision = 1
  MaxChildren = 0
  RecoveryTasks = {"q1"}
  RemoteEvents = {"e1"}
  Authoritative = {"e1"}
  RetryDelays = {0}
  StaleAfter = 1
  MaxToolAttempts = 1
  MaxAgentVersion = 3
  Pollers = {p}
  MaxCrashes = 1
INVARIANTS AgentTruth EventLoggedOnce
PROPERTIES ExecutionFinal StopSticks StopSettles
CHECK_DEADLOCK FALSE
