SPECIFICATION Spec
CONSTANTS
  Workers = {v, w}
  NoWorker = NoWorker
  Tasks = {"t1", "t2", "t3"}
  InitialTasks = {"t1", "t2"}
  PlanTasks = {"t3"}
  RevisionTasks = {}
  Prereq <- NoPrereq
  Condition <- OnSuccess
  JoinAny = {}
  Results = {"yes"}
  NoResult = NoResult
  Expected = "yes"
  MaxAttempts <- LeaseAttempts
  TaskDeadline <- NoDeadlines
  Stages = {}
  NoStage = NoStage
  InitialStages = {}
  StageOf <- NoStageOf
  Waits = {}
  Approval = {}
  MatchKey <- NoWaits
  WaitStage <- NoWaits
  WaitExpires <- NoWaits
  ResumeTask <- NoWaits
  Tools = {}
  Agents = {}
  Deadlines = {3}
  FinishStatuses = {"completed"}
  LeaseDuration = 1
  RenewBy = 1
  Delays = {0, 1}
  MaxTime = 3
  MaxLag = 1
  MaxGeneration = 1
  MaxRevision = 1
  MaxChildren = 0
SYMMETRY WorkerSymmetry
INVARIANTS AttemptLedger LeaseFence OnlyLastProofPasses TerminalClosed
PROPERTIES TerminalFinal FinishedIsFinal
CHECK_DEADLOCK FALSE
