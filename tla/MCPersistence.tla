--------------------------- MODULE MCPersistence ---------------------------
(* What persistence keeps of the data set: the append only file, snapshots  *)
(* and the RDB format. A behaviour is one of one of these, with one choice  *)
(* of its parameters; what is not part of it stays in one state.            *)
EXTENDS AOF, Snapshots, TLC

CONSTANTS Parts,   \* "aof", "always", "snapshots", "rdb"
          never
VARIABLES part, saved, rdbFile, at, loader, db, expiretime, loaded, status

dumpVars == <<saved, rdbFile, at, loader, db, expiretime, loaded, status>>
persistenceVars == <<part, vars, snapshotVars, dumpVars>>

\* appendfsync always, without BGSAVEs
A2 == INSTANCE AOF WITH
  Fsync <- "always", NoFsyncOnRewrite <- FALSE, WithRdb <- FALSE, RenameBarrier <- TRUE, MaxWrites <- 3

\* no save points, one, and two
MCSavePoints == {{}, {<<0, 1>>}, {<<1, 2>>, <<2, 1>>}}

-----------------------------------------------------------------------------
(* The RDB file: every type in its encodings, the edges of the integers,    *)
(* keys that expire.                                                        *)

Dec(v) == [t |-> "int", v |-> v]
Text(id, n, lzf) == [t |-> "text", v |-> id, len |-> n, lzf |-> lzf]
Object(type, enc, ele) == [type |-> type, enc |-> enc, ele |-> ele]
E(o, t) == [o |-> o, expire |-> t]
Plain(t) == Object("string", "string", t)
K(n) == Text(n, 1, FALSE)
Long == Text("long", 70, TRUE)
Rough == Text("rough", 70, FALSE)
Huge == Text("huge", 20000, FALSE)
Ints == {-2147483647 - 1, -32769, -32768, -129, -128, -1, 0, 127, 128, 32767, 32768, 65536, 2147483647}

StringData ==
  <<(K("a") :> E(Plain(Long), 1)) @@ (K("b") :> E(Plain(Text("", 0, FALSE)), never)),
    <<>>,
    (Dec(7) :> E(Plain(Huge), 2)) @@ (K("c") :> E(Plain(Rough), never))>>
ListData ==
  <<<<>>, (K("l") :> E(Object("list", "linkedlist", <<Dec(5), Long, Dec(5)>>), never))
          @@ (K("m") :> E(Object("list", "ziplist", <<Dec(5), K("x")>>), 1))>>
SetData ==
  <<(K("s") :> E(Object("set", "ht", [x \in {Dec(5), K("x")} |-> TRUE]), never))
    @@ (K("t") :> E(Object("set", "intset", [x \in {Dec(5), Dec(-9)} |-> TRUE]), never))>>
ZsetData ==
  <<(K("z") :> E(Object("zset", "skiplist", (Dec(5) :> "+inf") @@ (Long :> "2.5")), never))
    @@ (K("y") :> E(Object("zset", "ziplist", (Dec(5) :> "-inf")), 0))>>
HashData ==
  <<(K("h") :> E(Object("hash", "ht", (Dec(5) :> Long) @@ (K("g") :> Dec(1000))), never))
    @@ (K("i") :> E(Object("hash", "ziplist", (K("f") :> Dec(300))), 2))>>
IntData == {<<(K("n") :> E(Plain(Dec(v)), never))>> : v \in Ints}

MCDataSets == {StringData, ListData, SetData, ZsetData, HashData} \cup IntData
MCLimits == {[entries |-> 1, value |-> 3, intset |-> 1], [entries |-> 3, value |-> 64, intset |-> 4],
             [entries |-> 3, value |-> 80, intset |-> 4]}

D == INSTANCE RdbFormat WITH
  DataSets <- MCDataSets, Limits <- MCLimits, MaxTime <- 2, NoExpire <- never, file <- rdbFile

-----------------------------------------------------------------------------
NoDump == /\ saved = 0 /\ rdbFile = <<>> /\ at = 0 /\ loader = 0
          /\ db = 0 /\ expiretime = 0 /\ loaded = 0 /\ status = "none"

MCInit ==
  /\ part \in Parts
  /\ Init
  /\ SnapshotInit /\ (part # "snapshots" => snapshot.points = {} /\ ~ snapshot.stop_writes)
  /\ IF part = "rdb" THEN D!RdbInit ELSE NoDump

MCNext ==
  /\ UNCHANGED part
  /\ \/ part = "aof" /\ Next /\ UNCHANGED <<snapshotVars, dumpVars>>
     \/ part = "always" /\ A2!Next /\ UNCHANGED <<snapshotVars, dumpVars>>
     \/ part = "snapshots" /\ SnapshotNext /\ UNCHANGED <<vars, dumpVars>>
     \/ part = "rdb" /\ D!RdbNext /\ UNCHANGED <<vars, snapshotVars>>

MCSpec == MCInit /\ [][MCNext]_persistenceVars

-----------------------------------------------------------------------------
\* appendfsync always: a write the client was told of survives a power failure.
AlwaysDurable == part = "always" => A2!AckedDurable

\* A server that starts from an RDB file, whole or cut anywhere, has every key that has not
\* expired, with its value and its time of expiry, or it exits (rdbSave, rdbLoad).
LoadedExactly == part = "rdb" => D!LoadedExactly
=============================================================================
