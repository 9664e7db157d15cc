CONSTANTS
  Parts = {"blocked", "clients", "scripts", "loop"}
  ListClients = {c1, c2}
  ListKeys = {l1, l2}
  NoKey = NoKey
  MaxPush = 3
  MaxBlock = 3
  a = a
  b = b
  ClientPlan <- MCClientPlan
  Script = {"write", "random", "fail"}
  Lua <- MCLua
  Follower = {"f", "g"}
  CacheSize = 1
  SavePoints = {"f"}
  MaxScripts = 3
  MaxEvents = 3
  Fd = {1, 2, 3, 4}
  LoopPlan <- MCLoopPlan
  Sec = 3
SPECIFICATION MCSpec
INVARIANTS NoMissedWakeup EachElementOnce ReplicaAgrees ClientsServed ClientsSound
           ScriptsReplicated LoopSound
SYMMETRY Symmetry
CHECK_DEADLOCK FALSE
