CONSTANTS
  Parts = {"overlap", "acks"}
  Slaves = {s1}
  Conns = {c1, c2}
  DBs = {0, 1}
  BacklogSize = 2
  ForkMayFail = FALSE
  ChildMayBeKilled = FALSE
  MaxWrites = 2
  MaxFaults = 2
  s1 = s1
  s2 = s2
  c1 = c1
  c2 = c2
  c = c
  d = d
  Waiter = {c, d}
  Replica = {s1, s2}
  AckPlan <- MCAckPlan
SPECIFICATION MCSpec
INVARIANTS SlavesServed WaitTruthful
PROPERTY WritesHaveGoodSlaves
SYMMETRY Symmetry
CHECK_DEADLOCK FALSE
