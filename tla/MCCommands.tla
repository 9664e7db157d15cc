----------------------------- MODULE MCCommands -----------------------------
(* The commands on the keyspace, on two keys of one database and one of     *)
(* another, each scenario being a family of commands with the number of     *)
(* calls and of clock ticks; and the transactions of two clients. A         *)
(* behaviour is one of one of these; the other stays in one state.           *)
EXTENDS Commands, Multi, TLC

CONSTANT Parts   \* "commands", "multi"
VARIABLE part

MCMaxVersion == [k \in WKeys |-> IF k[1] = 0 THEN 2 ELSE 1]
MCKey == {<<0, "a">>, <<0, "b">>, <<1, "a">>}
MCBytes == {<<7>>, <<Letter>>}
MCTtl == {-1, 1}
MCEles == {<<1>>, <<3>>, <<1, 2>>}

Expires == {"EXPIRE", "PEXPIRE", "EXPIREAT", "PEXPIREAT"}
Generic == {"DEL", "READ", "FLUSHDB", "FLUSHALL", "RENAME", "MOVE", "PERSIST"}
StringCmds == {"GETSET", "SETRANGE", "MSET", "INCRBY", "DECRBY", "APPEND"}
ListCmds == {"PUSH", "PUSHX", "LINSERT", "LSET", "POP", "LTRIM", "LREM", "RPOPLPUSH"}
SetCmds == {"SADD", "SREM", "SMOVE", "SPOP", "SINTERSTORE", "SUNIONSTORE", "SDIFFSTORE"}
HashCmds == {"HSET", "HSETNX", "HINCRBY", "HINCRBYFLOAT", "HDEL"}
ZsetCmds == {"ZADD", "ZINCRBY", "ZREM", "ZREMRANGEBYRANK", "ZREMRANGEBYSCORE", "ZUNIONSTORE", "ZINTERSTORE"}

About(names, ticks, policy) ==
  [names |-> names, keys |-> {<<0, "a">>, <<0, "b">>}, calls |-> 3, ticks |-> ticks, lag |-> IF ticks = 0 THEN 1 ELSE 3, drifts |-> {0}, policy |-> policy]
Near(s) == [s EXCEPT !.lag = 2]
Short(s) == [s EXCEPT !.calls = 2]
OneKey(s) == [s EXCEPT !.keys = {<<0, "a">>}]

GenericKeys == Near(About(Generic \cup {"SET", "PSETEX"}, 2, "volatile-ttl"))
Times == Near(OneKey(About(Expires \cup {"SET", "SETEX", "PSETEX", "PERSIST", "READ", "INCRBY"}, 3, "volatile")))
Options == OneKey(About({"SET", "SETOPTION"}, 3, "noeviction"))
StringValues == About(StringCmds \cup {"SET", "INCRBYFLOAT"}, 0, "noeviction")
Lists == OneKey(About(ListCmds, 0, "noeviction"))
TwoLists == About({"PUSH", "POP", "LREM", "RPOPLPUSH"}, 0, "noeviction")
SetsExpire == About(SetCmds \cup {"PEXPIRE"}, 2, "noeviction")
Hashes == OneKey(About(HashCmds, 0, "allkeys"))
SortedSets == About({"ZADD", "ZREMRANGEBYRANK", "ZUNIONSTORE", "ZINTERSTORE"}, 0, "noeviction")
Mixed == Short(OneKey(About(ListCmds \cup SetCmds \cup HashCmds \cup ZsetCmds \cup {"SET", "INCRBY"}, 0, "noeviction")))

MCCommandScenario == {GenericKeys, Times, Options, StringValues, Lists, TwoLists, SetsExpire, Hashes, SortedSets, Mixed}

\* a key with an expiration time is incremented by a float
MCFloat == {OneKey(About({"SET", "PEXPIRE", "INCRBYFLOAT"}, 0, "noeviction"))}
\* the clock moves while a command runs
MCDrift == {[OneKey(About({"SET", "PEXPIRE"}, 2, "noeviction")) EXCEPT !.drifts = {0, 1}]}

-----------------------------------------------------------------------------
MCInit ==
  /\ part \in Parts
  /\ IF part = "commands" THEN CmdInit
     ELSE scenario = 0 /\ calls = 0 /\ now = 0 /\ data = 0 /\ queue = 0 /\ missed = FALSE
  /\ Init /\ (part # "multi" => stable /\ ~masterhost /\ \A k \in WKeys : ~exists[k])

MCNext ==
  /\ UNCHANGED part
  /\ \/ part = "commands" /\ CmdNext /\ UNCHANGED vars
     \/ part = "multi" /\ Next /\ UNCHANGED cmdVars

MCSpec == MCInit /\ [][MCNext]_<<part, cmdVars, vars>>

\* The clients of transactions are interchangeable.
Symmetry == Permutations(Clients)

-----------------------------------------------------------------------------
\* A slave that has executed the whole stream has the values of its master, with expiration
\* times for the same keys, whatever the two clocks say (propagateExpire, the rewriting of
\* commands before they are propagated).
SlaveExact == part = "commands" => SlaveAgrees

\* And so has a server that replays the AOF, at whatever time (catAppendOnlyExpireAtCommand).
PropagationExact == part = "commands" => SlaveAgrees /\ AofReplayAgrees

\* No command changes a key without telling the clients that WATCH it (signalModifiedKey), and
\* none leaves an empty aggregate, an expiration time without a key, or an encoding past its limits.
KeysSignalled == part = "commands" => WatchersTold /\ KeyspaceSane
=============================================================================
