------------------------------ MODULE Keyspace ------------------------------
(***************************************************************************)
(* The keyspace of db.c: values and expiration times of the keys of every  *)
(* database, lookups that delete a key whose time has come, and the        *)
(* commands on keys of any type.                                           *)
(*                                                                         *)
(* A command is an operator from the context it runs in to the context it  *)
(* leaves.  A context x is a record:                                       *)
(*   val, exp   the value and the expiration time of every key;            *)
(*   role       "master", "slave" (applies the stream of its master) or    *)
(*              "loading" (replays the AOF);                               *)
(*   now, drift mstime(), and how far it moves after the first lookup;     *)
(*   dirty, sig what the command added to server.dirty, the keys it        *)
(*              signalled as modified;                                     *)
(*   dels       the keys deleted as expired, in order: a DEL of each was   *)
(*              propagated before the command itself;                      *)
(*   cmd        the command as call() will propagate it.                   *)
(* A key is a pair of a database and a name.  A command is a record with   *)
(* its name, its keys and its other arguments.                             *)
(***************************************************************************)
EXTENDS Integers, Sequences, FiniteSets, SequencesExt

CONSTANTS Key,       \* pairs of a database and a name
          Second     \* milliseconds of a second

DbId == {k[1] : k \in Key}

None == [type |-> "none", enc |-> "", v |-> <<>>]
NoTTL == -1

\* what a server is before its first command
EmptyData == [val |-> [k \in Key |-> None], exp |-> [k \in Key |-> NoTTL]]

Context(data, role, now, drift, cmd) ==
  [val |-> data.val, exp |-> data.exp, role |-> role, now |-> now, drift |-> drift,
   dirty |-> 0, sig |-> {}, dels |-> <<>>, cmd |-> cmd]

-----------------------------------------------------------------------------
Exists(x, k) == x.val[k].type # "none"

signalModifiedKey(x, k) == [x EXCEPT !.sig = @ \cup {k}]

\* server.dirty += n and signalModifiedKey
Modified(x, k, n) == [signalModifiedKey(x, k) EXCEPT !.dirty = @ + n]

dbAdd(x, k, v) == [x EXCEPT !.val[k] = v]
dbOverwrite(x, k, v) == [x EXCEPT !.val[k] = v]
dbDelete(x, k) == [x EXCEPT !.val[k] = None, !.exp[k] = NoTTL]

removeExpire(x, k) == [x EXCEPT !.exp[k] = NoTTL]
setExpire(x, k, when) == [x EXCEPT !.exp[k] = when]
getExpire(x, k) == x.exp[k]

\* mutant: a key expires and nobody is told
ExpireSilently(x, k) == [x EXCEPT !.dels = <<>>]

propagateExpire(x, k) == [x EXCEPT !.dels = Append(@, k)]

\* only a master deletes; time goes on after the test
expireIfNeeded(x, k) ==
  LET due == getExpire(x, k) # NoTTL /\ x.role = "master" /\ x.now > getExpire(x, k)
      y == IF due THEN dbDelete(propagateExpire(x, k), k) ELSE x
  IN [y EXCEPT !.now = @ + x.drift, !.drift = 0]

lookupKeyRead(x, k) == expireIfNeeded(x, k)
lookupKeyWrite(x, k) == expireIfNeeded(x, k)

\* checkType: a missing key has every type
HasType(x, k, type) == x.val[k].type \in {type, "none"}

setKey(x, k, v) ==
  LET y == lookupKeyWrite(x, k)
      z == IF Exists(y, k) THEN dbOverwrite(y, k, v) ELSE dbAdd(y, k, v)
  IN signalModifiedKey(removeExpire(z, k), k)

-----------------------------------------------------------------------------
(* The commands. *)
delCommand(x, c) ==
  LET Del(y, k) == LET z == expireIfNeeded(y, k)
                   IN IF Exists(z, k) THEN Modified(dbDelete(z, k), k, 1) ELSE z
  IN FoldLeft(Del, x, c.keys)

\* EXISTS, TYPE, TTL, GET, ...: all that a read changes is what its lookups expire
ReadCommand(x, c) == FoldLeft(lookupKeyRead, x, c.keys)

DbSize(x, db) == Cardinality({k \in Key : k[1] = db /\ Exists(x, k)})

EmptyDb(x, dbs) ==
  [x EXCEPT !.val = [k \in Key |-> IF k[1] \in dbs THEN None ELSE @[k]],
            !.exp = [k \in Key |-> IF k[1] \in dbs THEN NoTTL ELSE @[k]],
            !.sig = @ \cup {k \in Key : k[1] \in dbs}]

flushdbCommand(x, c) == [EmptyDb(x, {c.db}) EXCEPT !.dirty = @ + DbSize(x, c.db)]

flushallCommand(x, c) == [EmptyDb(x, DbId) EXCEPT !.dirty = @ + 1]

\* mutant: only the new name is signalled
RenameSignalsTarget(x, c) ==
  LET from == c.keys[1]
      y == lookupKeyWrite(x, from)
      z == lookupKeyWrite(y, c.keys[2])
  IN IF from = c.keys[2] \/ ~ Exists(y, from) THEN y
     ELSE Modified(dbDelete(dbAdd(z, c.keys[2], y.val[from]), from), c.keys[2], 1)

renameGenericCommand(x, c) ==
  LET from == c.keys[1]
      to == c.keys[2]
      y == lookupKeyWrite(x, from)
      expire == getExpire(y, from)
      z == lookupKeyWrite(y, to)
      moved == dbAdd(dbDelete(z, to), to, y.val[from])
      timed == IF expire # NoTTL THEN setExpire(moved, to, expire) ELSE moved
  IN IF from = to THEN x
     ELSE IF ~ Exists(y, from) THEN y
     ELSE IF c.nx /\ Exists(z, to) THEN z
     ELSE Modified(signalModifiedKey(dbDelete(timed, from), from), to, 1)

\* no signalModifiedKey, and the expiration time is not carried over
moveCommand(x, c) ==
  LET from == c.keys[1]
      to == <<c.db, from[2]>>
      y == lookupKeyWrite(x, from)
      z == lookupKeyWrite(y, to)
  IN IF from = to \/ to \notin Key THEN x
     ELSE IF ~ Exists(y, from) THEN y
     ELSE IF Exists(z, to) THEN z
     ELSE [dbDelete(dbAdd(z, to, z.val[from]), from) EXCEPT !.dirty = @ + 1]

\* EXPIRE, PEXPIRE, EXPIREAT and PEXPIREAT by the base and the unit of their argument
BaseTime(x, c) == IF c.name \in {"EXPIRE", "PEXPIRE"} THEN x.now ELSE 0
Unit(c) == IF c.name \in {"EXPIRE", "EXPIREAT", "SETEX", "SET"} THEN Second ELSE 1

expireGenericCommand(x, c) ==
  LET k == c.keys[1]
      when == BaseTime(x, c) + c.arg * Unit(c)
      y == lookupKeyRead(x, k)
  IN IF ~ Exists(y, k) THEN y
     ELSE IF when <= y.now /\ y.role = "master"
          THEN [Modified(dbDelete(y, k), k, 1) EXCEPT !.cmd = [name |-> "DEL", keys |-> <<k>>]]
          ELSE Modified(setExpire(y, k, when), k, 1)

\* looks at the dictionary directly: an expired key is not deleted first
persistCommand(x, c) ==
  LET k == c.keys[1]
  IN IF Exists(x, k) /\ getExpire(x, k) # NoTTL
     THEN [removeExpire(x, k) EXCEPT !.dirty = @ + 1]
     ELSE x

-----------------------------------------------------------------------------
(* Keys deleted by the server itself. *)

\* the active expire cycle looks at some of the keys that have an expiration time
activeExpireCycle(x, sampled) ==
  LET TryExpire(y, k) == IF getExpire(y, k) # NoTTL /\ y.now > getExpire(y, k)
                         THEN dbDelete(propagateExpire(y, k), k) ELSE y
  IN FoldLeft(TryExpire, x, SetToSeq(sampled))

\* what the maxmemory policy may pick as the best key of a database among the keys it
\* sampled; the idle times the lru policies go by are abstracted, so they pick any of them
BestKeys(x, db, policy, sampled) ==
  LET keys == {k \in sampled : k[1] = db /\ Exists(x, k)}
      volatile == {k \in keys : getExpire(x, k) # NoTTL}
  IN CASE policy = "allkeys" -> keys
       [] policy = "volatile" -> volatile
       [] policy = "noeviction" -> {}
       [] policy = "volatile-ttl" -> {k \in volatile : \A j \in volatile : getExpire(x, k) <= getExpire(x, j)}

\* freeMemoryIfNeeded deletes the best key of a database until enough is freed
freeMemoryIfNeeded(x, k) == dbDelete(propagateExpire(x, k), k)
=============================================================================
