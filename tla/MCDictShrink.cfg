CONSTANTS
  Structures = {"dict"}
  v1 = v1
  v2 = v2
  ZElem = {1, 2, 3, 4}
  ZScore = {1, 2}
  ZMaxLevel = 2
  MinText = 100
  MaxText = 99
  ZOrder = {"score", "lex"}
  DKey = {1, 2, 3, 4}
  DVal = {v1, v2}
  None = none
  HashOf <- MCHash
  HashBits = 4
  InitialSize = 1
  MinFill = 30
  ForceRatio = 1
  CronSteps = 2
  DMode <- MCDShrink
  IntVal <- MCIntVal
  FitsOne = 2
  FitsTwo = 4
  ZlItem <- MCZlItem
  ZlMax = 4
  ZlLenMax = 3
  HllKey = {"a", "b"}
  HllRegisters = 6
  MergeDst = {"a"}
  ElementsOf <- MCElements
  ZeroMax = 2
  XzeroMax = 5
  ValMaxLen = 3
  ValMax = 2
  SparseMaxBytes = 5
  CacheBit = 128
  bk = bk
  bl = bl
  BitKey = {bk, bl}
  ListKey = "list"
  ByteBits = 2
  WordBytes = 2
  Unroll = 1
  MaxFast = 2
  MaxBytes = 3
  MaxSources = 3
  Sizes = {1, 2, 3}
  MaxLen = 4
  MaxOffset = 6
SPECIFICATION MCSpec
INVARIANT ScanComplete
CHECK_DEADLOCK FALSE
