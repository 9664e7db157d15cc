CONSTANTS
  Parts = {"bus", "failures", "resharding"}
  Node <- MCNode
  Slot <- MCSlot
  Scenario <- MCScenario
  Process = {1, 2, 3, 4}
  Net <- MCNet
  Env <- MCReshardEnv
  Source = m1
  Target = m2
  Third = m3
  SlotKey = {k1, k2}
  MaxVal = 2
  MaxBeats = 1
  m1 = m1
  m2 = m2
  m3 = m3
  k1 = k1
  k2 = k2
SPECIFICATION MCSpec
INVARIANTS OneWinnerPerEpoch ManualFailoverKeepsWrites QuietIsConverged
           FailuresSound KeysFollowSlot
PROPERTY NoOlderOwner
SYMMETRY Symmetry
CHECK_DEADLOCK FALSE
