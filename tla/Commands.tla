------------------------------ MODULE Commands ------------------------------
(***************************************************************************)
(* call() of redis.c around the commands: a master executes commands of    *)
(* its clients, propagates what they changed to a slave and to the AOF,    *)
(* expires and evicts keys, while time passes.  The slave applies the      *)
(* stream later, at its own time; the server "loading" has what a replay   *)
(* of the AOF at ReloadTime would give.                                    *)
(***************************************************************************)
EXTENDS Aggregates, TLC

CONSTANTS CommandScenario,  \* [names, keys, calls, ticks, lag, drifts, policy]: lag is how many commands the slave may be behind
          ReloadTime,       \* when the AOF is replayed
          Ttl,              \* arguments of the expire commands
          Bytes,            \* strings that clients send
          Eles              \* lists of elements that clients send

Server == {"master", "slave", "loading"}

VARIABLES scenario,   \* what this run is about
          calls,      \* commands executed so far
          now,        \* the time
          data,       \* the values and expiration times of every server
          queue,      \* commands the slave and the replay have still to execute
          missed      \* a key changed and no client that watches it was told

cmdVars == <<scenario, calls, now, data, queue, missed>>

Execute(x, c) ==
  CASE c.name = "DEL" -> delCommand(x, c)
    [] c.name = "READ" -> ReadCommand(x, c)
    [] c.name = "FLUSHDB" -> flushdbCommand(x, c)
    [] c.name = "FLUSHALL" -> flushallCommand(x, c)
    [] c.name = "RENAME" -> renameGenericCommand(x, c)
    [] c.name = "MOVE" -> moveCommand(x, c)
    [] c.name \in {"EXPIRE", "PEXPIRE", "EXPIREAT", "PEXPIREAT"} -> expireGenericCommand(x, c)
    [] c.name = "PERSIST" -> persistCommand(x, c)
    [] c.name \in {"SET", "SETEX", "PSETEX"} -> setGenericCommand(x, c)
    [] c.name = "GETSET" -> getsetCommand(x, c)
    [] c.name = "SETRANGE" -> setrangeCommand(x, c)
    [] c.name = "MSET" -> msetGenericCommand(x, c)
    [] c.name \in {"INCRBY", "DECRBY"} -> incrDecrCommand(x, c)
    [] c.name = "INCRBYFLOAT" -> incrbyfloatCommand(x, c)
    [] c.name = "APPEND" -> appendCommand(x, c)
    [] c.name = "PUSH" -> pushGenericCommand(x, c)
    [] c.name \in {"PUSHX", "LINSERT"} -> pushxGenericCommand(x, c)
    [] c.name = "LSET" -> lsetCommand(x, c)
    [] c.name = "POP" -> popGenericCommand(x, c)
    [] c.name = "LTRIM" -> ltrimCommand(x, c)
    [] c.name = "LREM" -> lremCommand(x, c)
    [] c.name = "RPOPLPUSH" -> rpoplpushCommand(x, c)
    [] c.name = "SADD" -> saddCommand(x, c)
    [] c.name = "SREM" -> sremCommand(x, c)
    [] c.name = "SMOVE" -> smoveCommand(x, c)
    [] c.name = "SPOP" -> spopCommand(x, c)
    [] c.name = "SINTERSTORE" -> sinterGenericCommand(x, c)
    [] c.name \in {"SUNIONSTORE", "SDIFFSTORE"} -> sunionDiffGenericCommand(x, c)
    [] c.name \in {"HSET", "HSETNX"} -> hsetCommand(x, c)
    [] c.name = "HINCRBY" -> hincrbyCommand(x, c)
    [] c.name = "HINCRBYFLOAT" -> hincrbyfloatCommand(x, c)
    [] c.name = "HDEL" -> hdelCommand(x, c)
    [] c.name = "ZADD" -> zaddGenericCommand(x, c)
    [] c.name = "ZREM" -> zremCommand(x, c)
    [] c.name \in {"ZREMRANGEBYRANK", "ZREMRANGEBYSCORE"} -> zremrangeGenericCommand(x, c)
    [] c.name \in {"ZUNIONSTORE", "ZINTERSTORE"} -> zunionInterGenericCommand(x, c)

\* the encoding does not count
SameValue(a, b) == a.type = b.type /\ a.v = b.v

Data(x) == [val |-> x.val, exp |-> x.exp]

-----------------------------------------------------------------------------
(* Propagation. *)
DelOf(k) == [name |-> "DEL", keys |-> <<k>>]

\* the DELs of expired keys, then the command if it changed something
Propagated(x) ==
  [i \in DOMAIN x.dels |-> DelOf(x.dels[i])] \o (IF x.dirty > 0 THEN <<x.cmd>> ELSE <<>>)

catAppendOnlyExpireAtCommand(c, t) ==
  LET arg == IF c.name \in {"SETEX", "PSETEX"} THEN c.expire ELSE c.arg
      base == IF c.name = "EXPIREAT" THEN 0 ELSE t
  IN [name |-> "PEXPIREAT", keys |-> c.keys, arg |-> base + arg * Unit(c)]

\* mutant: every command is logged as it is
LogVerbatim(c, t) == <<c>>

\* relative expiration times are written as absolute ones
feedAppendOnlyFile(c, t) ==
  CASE c.name \in {"EXPIRE", "PEXPIRE", "EXPIREAT"} -> <<catAppendOnlyExpireAtCommand(c, t)>>
    [] c.name \in {"SETEX", "PSETEX"} ->
         <<[c EXCEPT !.name = "SET", !.expire = 0], catAppendOnlyExpireAtCommand(c, t)>>
    [] OTHER -> <<c>>

\* what a call, or the server by itself, leaves behind
Leaves(x) ==
  LET out == Propagated(x)
      log == FlattenSeq([i \in DOMAIN out |-> feedAppendOnlyFile(out[i], x.now)])
  IN /\ queue["loading"] = <<>>
     /\ Len(queue["slave"]) + Len(out) <= scenario.lag
     /\ data' = [data EXCEPT !["master"] = Data(x)]
     /\ queue' = [queue EXCEPT !["slave"] = @ \o out, !["loading"] = log]
     /\ now' = x.now
     /\ missed' = (missed \/ \E k \in Key : /\ ~ SameValue(x.val[k], data["master"].val[k])
                                            /\ k \notin x.sig /\ ~ Contains(x.dels, k)
                                            /\ x.cmd.name # "MOVE")
     /\ UNCHANGED scenario

\* a command of a client, with the move of the clock during it
call(c, drift) ==
  /\ calls < scenario.calls
  /\ calls' = calls + 1
  /\ Leaves(Execute(Context(data["master"], "master", now, drift, c), c))

-----------------------------------------------------------------------------
(* The commands that clients send, by name. *)
Where == {"head", "tail"}

Arguments(n) ==
  LET keys == scenario.keys
      keys1 == {<<k>> : k \in keys}
      keys2 == keys \X keys
      keys3 == keys \X keys \X keys
  IN CASE n = "SET" -> [name : {n}, keys : keys1, v : Bytes, flag : {"", "nx", "xx"}, expire : {0}]
       [] n = "SETOPTION" -> [name : {"SET"}, keys : keys1, v : Bytes, flag : {"", "nx", "xx"}, expire : Ttl]
       [] n \in {"SETEX", "PSETEX"} -> [name : {n}, keys : keys1, v : Bytes, flag : {""}, expire : Ttl]
       [] n = "DEL" -> [name : {n}, keys : keys2]
       [] n = "RENAME" -> [name : {n}, keys : keys2, nx : BOOLEAN]
       [] n \in {"READ", "PERSIST"} -> [name : {n}, keys : keys1]
       [] n = "MOVE" -> [name : {n}, keys : keys1, db : DbId]
       [] n \in {"FLUSHDB", "FLUSHALL"} -> [name : {n}, keys : {<<>>}, db : DbId]
       [] n \in {"EXPIRE", "PEXPIRE", "EXPIREAT", "PEXPIREAT"} -> [name : {n}, keys : keys1, arg : Ttl]
       [] n \in {"GETSET", "APPEND"} -> [name : {n}, keys : keys1, v : Bytes]
       [] n = "SETRANGE" -> [name : {n}, keys : keys1, v : Bytes \cup {<<>>}, arg : 0..2]
       [] n = "MSET" -> [name : {n}, keys : keys2, v : Bytes, flag : {"", "nx"}]
       [] n \in {"INCRBY", "DECRBY"} -> [name : {n}, keys : keys1, arg : {1, -1, MaxLL, MinLL}]
       [] n = "INCRBYFLOAT" -> [name : {n}, keys : keys1, arg : {1, -1, MaxLL}]
       [] n = "PUSH" -> [name : {n}, keys : keys1, eles : Eles, where : Where]
       [] n \in {"PUSHX", "LINSERT"} -> [name : {n}, keys : keys1, ele : Elem, pivot : Elem, where : Where]
       [] n = "LSET" -> [name : {n}, keys : keys1, ele : Elem, arg : -2..2]
       [] n = "POP" -> [name : {n}, keys : keys1, where : Where]
       [] n = "LTRIM" -> [name : {n}, keys : keys1, start : -2..2, end : -2..2]
       [] n = "LREM" -> [name : {n}, keys : keys1, ele : Elem, arg : -1..2]
       [] n = "RPOPLPUSH" -> [name : {n}, keys : keys2]
       [] n \in {"SADD", "SREM", "HDEL", "ZREM"} -> [name : {n}, keys : keys1, eles : Eles]
       [] n = "SMOVE" -> [name : {n}, keys : keys2, ele : Elem]
       [] n = "SPOP" -> [name : {n}, keys : keys1, ele : Elem]
       [] n \in {"SINTERSTORE", "SUNIONSTORE", "SDIFFSTORE"} -> [name : {n}, keys : keys3]
       [] n = "HSET" -> [name : {n}, keys : keys1, eles : Eles, v : Bytes]
       [] n = "HSETNX" -> [name : {n}, keys : keys1, eles : {<<e>> : e \in Elem}, v : Bytes]
       [] n \in {"HINCRBY", "HINCRBYFLOAT"} -> [name : {n}, keys : keys1, ele : Elem, arg : {1, MaxLL}]
       [] n = "ZADD" -> [name : {n}, keys : keys1, eles : Eles, score : {-Inf, 1, Inf}, incr : {FALSE}]
       [] n = "ZINCRBY" -> [name : {"ZADD"}, keys : keys1, eles : {<<e>> : e \in Elem}, score : {-Inf, 1, Inf}, incr : {TRUE}]
       [] n \in {"ZREMRANGEBYRANK", "ZREMRANGEBYSCORE"} -> [name : {n}, keys : keys1, start : -1..1, end : -1..1]
       [] n \in {"ZUNIONSTORE", "ZINTERSTORE"} ->
            [name : {n}, keys : keys3, weight : {0, 1}, aggregate : {"sum", "min", "max"}]

ClientCommand == \E n \in scenario.names : \E c \in Arguments(n), d \in scenario.drifts : call(c, d)

-----------------------------------------------------------------------------
(* What happens besides the commands. *)
Itself == Context(data["master"], "master", now, 0, [name |-> "READ", keys |-> <<>>])

\* the slave executes the next command of the stream; what the AOF replay would do is
\* computed before anything else happens
Follow(s) ==
  LET c == Head(queue[s])
      time == IF s = "loading" THEN ReloadTime ELSE now
  IN /\ queue[s] # <<>>
     /\ s = "slave" => queue["loading"] = <<>>
     /\ data' = [data EXCEPT ![s] = Data(Execute(Context(@, s, time, 0, c), c))]
     /\ queue' = [queue EXCEPT ![s] = Tail(@)]
     /\ UNCHANGED <<scenario, calls, now, missed>>

Tick ==
  /\ now < scenario.ticks
  /\ queue["loading"] = <<>>
  /\ now' = now + 1
  /\ UNCHANGED <<scenario, calls, data, queue, missed>>

ActiveExpire ==
  /\ \E sampled \in SUBSET {k \in Key : getExpire(Itself, k) # NoTTL} :
        sampled # {} /\ Leaves(activeExpireCycle(Itself, sampled))
  /\ UNCHANGED calls

Evict ==
  /\ \E sampled \in SUBSET Key : \E db \in DbId, k \in sampled :
        k \in BestKeys(Itself, db, scenario.policy, sampled) /\ Leaves(freeMemoryIfNeeded(Itself, k))
  /\ UNCHANGED calls

CmdInit ==
  /\ scenario \in CommandScenario
  /\ calls = 0
  /\ now = 0
  /\ data = [s \in Server |-> EmptyData]
  /\ queue = [s \in {"slave", "loading"} |-> <<>>]
  /\ missed = FALSE

CmdNext == ClientCommand \/ (\E s \in {"slave", "loading"} : Follow(s)) \/ Tick \/ ActiveExpire \/ Evict

CmdSpec == CmdInit /\ [][CmdNext]_cmdVars

-----------------------------------------------------------------------------
\* A slave that has applied the whole stream has the values of its master, and a key of
\* it has an expiration time exactly when the key of the master has one: although the
\* slave never expires a key itself, executes every command at a later time, and meets
\* commands that the master rewrote or did not propagate (call, propagateExpire,
\* rewriteClientCommandVector).
SlaveAgrees ==
  queue["slave"] = <<>> =>
    \A k \in Key : /\ SameValue(data["slave"].val[k], data["master"].val[k])
                   /\ data["slave"].exp[k] = NoTTL <=> data["master"].exp[k] = NoTTL

\* A replay of the AOF at any later time gives the values of the master and the same
\* absolute expiration times: feedAppendOnlyFile writes no relative time.  SET with EX is
\* the exception, and is left out by looking at the runs without it.
AofReplayAgrees ==
  queue["loading"] = <<>> =>
    /\ \A k \in Key : SameValue(data["loading"].val[k], data["master"].val[k])
    /\ "SETOPTION" \notin scenario.names => data["loading"].exp = data["master"].exp

\* No command and no deletion changes the value of a key without telling the clients
\* that WATCH it (signalModifiedKey); MOVE, which never does, is left out.
WatchersTold == ~ missed

\* No command leaves an empty aggregate behind, an expiration time without a key, or an
\* encoding past its limits (dbDelete after the last element, the conversions).
KeyspaceSane ==
  \A k \in Key :
    LET o == data["master"].val[k]
    IN /\ o.type = "none" => data["master"].exp[k] = NoTTL
       /\ o.type = "list" => /\ o.v # <<>>
                             /\ o.enc = "ziplist" => Len(o.v) <= MaxEntries /\ Range(o.v) \cap LongElem = {}
       /\ o.type = "set" => /\ o.v # {}
                            /\ o.enc = "intset" => o.v \subseteq IntElem /\ Cardinality(o.v) <= MaxEntries
       /\ o.type = "hash" => /\ DOMAIN o.v # {}
                             /\ o.enc = "ziplist" => Cardinality(DOMAIN o.v) <= MaxEntries
       /\ o.type = "zset" => /\ DOMAIN o.v # {}
                             /\ o.enc = "ziplist" => Cardinality(DOMAIN o.v) <= MaxEntries /\ DOMAIN o.v \cap LongElem = {}
=============================================================================
