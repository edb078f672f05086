SPECIFICATION FairWorkSpec
CONSTANTS
  Workers = {w}
  NoWorker = NoWorker
  Tasks = {"t1", "q1", "q2"}
  InitialTasks = {"t1"}
  PlanTasks = {}
  RevisionTasks = {}
  Prereq <- NoPrereq
  Condition <- OnSuccess
  JoinAny = {}
  Results = {"yes"}
  NoResult = NoResult
  Expected = "yes"
  MaxAttempts <- OneAttempt
  TaskDeadline <- NoDeadlines
  Stages = {}
  NoStage = NoStage
  InitialStages = {}
  StageOf <- NoStageOf
  Waits = {}
  Approval = {}
  MatchKey <- NoWaits
  WaitStage <- NoWaits
  WaitExpires <- NoWaits
  ResumeTask <- NoWaits
  Tools = {"x"}
  Agents = {}
  Deadlines = {2}
  FinishStatuses = {"completed"}
  LeaseDuration = 1
  RenewBy = 1
  Delays = {0}
  MaxTime = 2
  MaxLag = 0
  MaxGeneration = 1
  MaxRevision = 1
  MaxChildren = 0
  RecoveryTasks = {"q1", "q2"}
  RemoteEvents = {}
  Authoritative = {}
  RetryDelays = {0}
  StaleAfter = 1
  MaxToolAttempts = 3
  MaxAgentVersion = 0
  Pollers = {}
  MaxCrashes = 1
INVARIANTS AttemptSentOnce RecoveryStartsOnce RetryTimesValid
PROPERTIES RunKeepsLifecycle EndedRunKeepsWork ToolRecovers
CHECK_DEADLOCK FALSE
