SPECIFICATION MCSpec
CONSTANTS
 Parts = {"commands", "multi"}
 Clients = {c1, c2}
 DBs = {0, 1}
 Keys = {k1}
 MaxVersion <- MCMaxVersion
 MaxQueue = 1
 Key <- MCKey
 Second = 2
 MaxLL = 7
 MaxDouble = 9
 MaxStr = 3
 Elem = {1, 2, 3}
 IntElem = {1, 2}
 LongElem = {3}
 MaxEntries = 2
 MaxValue = 1
 Inf = 2
 CommandScenario <- MCCommandScenario
 ReloadTime = 9
 Ttl <- MCTtl
 Bytes <- MCBytes
 Eles <- MCEles
INVARIANTS PropagationExact KeysSignalled WatchListsAgree WatchSound
PROPERTY TransactionsWhole
SYMMETRY Symmetry
CHECK_DEADLOCK FALSE
