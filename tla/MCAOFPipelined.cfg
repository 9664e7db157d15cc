CONSTANTS
  Parts = {"aof"}
  Clients = {c1}
  DbNum = 2
  Fsync = "always"
  NoFsyncOnRewrite = FALSE
  Pipelining = TRUE
  Reconfigures = FALSE
  WithRdb = FALSE
  PowerFails = TRUE
  RenameBarrier = TRUE
  MaxWrites = 2
  MaxFaults = 0
  MaxCrashes = 1
  MaxJobs = 0
  never = never
  SavePoints <- MCSavePoints
  RetryDelay = 1
  MaxChanges = 3
  MaxTime = 2
  MaxSaveFaults = 2
SPECIFICATION MCSpec
INVARIANT AckedDurable
CHECK_DEADLOCK FALSE
