CONSTANTS
  Parts = {"aof", "always", "snapshots", "rdb"}
  Clients = {c1}
  DbNum = 2
  Fsync = "everysec"
  NoFsyncOnRewrite = TRUE
  Pipelining = FALSE
  Reconfigures = FALSE
  WithRdb = TRUE
  PowerFails = TRUE
  RenameBarrier = FALSE
  MaxWrites = 2
  MaxFaults = 1
  MaxCrashes = 1
  MaxJobs = 0
  never = never
  SavePoints <- MCSavePoints
  RetryDelay = 1
  MaxChanges = 3
  MaxTime = 2
  MaxSaveFaults = 2
SPECIFICATION MCSpec
INVARIANTS FileWhole AlwaysDurable DirtyCovers LoadedExactly
PROPERTY DumpNeverOlder
CHECK_DEADLOCK FALSE
