CONSTANTS
  Parts = {"aof", "bio"}
  Clients = {c1}
  DbNum = 2
  Fsync = "everysec"
  NoFsyncOnRewrite = FALSE
  Pipelining = FALSE
  Reconfigures = TRUE
  WithRdb = FALSE
  PowerFails = FALSE
  RenameBarrier = FALSE
  MaxWrites = 2
  MaxFaults = 1
  MaxCrashes = 0
  MaxJobs = 0
  JobType = {"fsync"}
  MaxBioJobs = 3
SPECIFICATION LiveSpec
INVARIANTS NothingMissing NothingOverlooked
PROPERTIES AofSettles BackgroundJobsFinish
CHECK_DEADLOCK FALSE
