CONSTANTS
  Parts = {"sentinels", "no overlap"}
  Slaves = {s1, s2}
  Conns = {c1, c2}
  DBs = {0}
  BacklogSize = 2
  ForkMayFail = TRUE
  ChildMayBeKilled = FALSE
  MaxWrites = 2
  MaxFaults = 1
  Sent = {t1, t2, t3}
  Inst <- MCInst
  Master0 = 1
  Quorum = 2
  ParallelSyncs = 1
  Priority <- MCPriority
  ReplOffset <- MCReplOffset
  SentinelScenario <- MCScenario
SPECIFICATION MCSpec
INVARIANTS PartialResyncExact OneLeaderPerEpoch SameEpochSameMaster
SYMMETRY Symmetry
CHECK_DEADLOCK FALSE
