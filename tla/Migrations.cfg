SPECIFICATION MigrationSpec
CONSTANTS
  Runners = {"old", "new", "edited"}
  NoRunner = NoRunner
  Providers = {"postgres", "mysql"}
  Count = 3
  Build <- Releases
  Statements <- FileSizes
  NoDigest = NoDigest
  MaxStarts = 4
INVARIANTS JournalTruth DdlRunsOnce ReadyIsMigrated
PROPERTIES RunnersFinish
CHECK_DEADLOCK FALSE
