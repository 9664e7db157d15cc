----------------------------- MODULE Aggregates -----------------------------
(***************************************************************************)
(* The commands of t_list.c, t_set.c, t_hash.c and t_zset.c that change a  *)
(* key.  A list is a sequence, a set a set, a hash a function from fields  *)
(* to strings, a sorted set a function from elements to scores; enc is the *)
(* encoding the code keeps it in.  Elements are integers, so that they are *)
(* ordered; the ones in IntElem have the text of a long long, the ones in  *)
(* LongElem are longer than the ziplist limits.                            *)
(***************************************************************************)
EXTENDS Strings

CONSTANTS Elem, IntElem, LongElem,
          MaxEntries,   \* *_max_ziplist_entries, set_max_intset_entries
          MaxValue,     \* hash_max_ziplist_value for values
          Inf           \* a score is in -Inf..Inf, and the two ends are the infinities

Val(x, k) == x.val[k].v
Enc(x, k) == x.val[k].enc

\* the indices, from 0, that start and end select in a sequence of length len
RangeOf(start, end, len) ==
  LET s == IF start < 0 THEN len + start ELSE start
      e == IF end < 0 THEN len + end ELSE end
  IN {i \in 0..(len - 1) : s <= i /\ i <= e}

-----------------------------------------------------------------------------
(* Lists. *)
List(enc, s) == [type |-> "list", enc |-> enc, v |-> s]
EmptyList == List("ziplist", <<>>)

listTypeTryConversion(o, e) == IF e \in LongElem THEN [o EXCEPT !.enc = "linkedlist"] ELSE o

\* past the limit of the ziplist when n elements are in it
Grown(o, n) == IF n > MaxEntries THEN [o EXCEPT !.enc = "linkedlist"] ELSE o

listTypePush(o, e, where) ==
  LET p == Grown(listTypeTryConversion(o, e), Len(o.v) + 1)
  IN [p EXCEPT !.v = IF where = "head" THEN <<e>> \o @ ELSE Append(@, e)]

ListAt(x, k) == IF Exists(x, k) THEN x.val[k] ELSE EmptyList

\* a list that has become empty is deleted
StoreList(x, k, o) == IF o.v = <<>> THEN dbDelete(x, k) ELSE dbOverwrite(x, k, o)

pushGenericCommand(x, c) ==
  LET k == c.keys[1]
      y == lookupKeyWrite(x, k)
      Push(o, e) == listTypePush(o, e, c.where)
  IN IF ~ HasType(y, k, "list") THEN y
     ELSE Modified(dbOverwrite(y, k, FoldLeft(Push, ListAt(y, k), c.eles)), k, Len(c.eles))

\* LPUSHX, RPUSHX, and LINSERT when there is a pivot
pushxGenericCommand(x, c) ==
  LET k == c.keys[1]
      y == lookupKeyRead(x, k)
      o == y.val[k]
      at == CHOOSE i \in DOMAIN o.v : o.v[i] = c.pivot /\ \A j \in 1..(i - 1) : o.v[j] # c.pivot
      p == listTypeTryConversion(o, c.ele)
      inserted == [p EXCEPT !.v = InsertAt(@, IF c.where = "tail" THEN at + 1 ELSE at, c.ele)]
  IN IF y.val[k].type # "list" THEN y
     ELSE IF c.name = "PUSHX" THEN Modified(dbOverwrite(y, k, listTypePush(o, c.ele, c.where)), k, 1)
     ELSE IF ~ Contains(o.v, c.pivot) THEN dbOverwrite(y, k, p)
     ELSE Modified(dbOverwrite(y, k, Grown(inserted, Len(inserted.v))), k, 1)

lsetCommand(x, c) ==
  LET k == c.keys[1]
      y == lookupKeyWrite(x, k)
      o == listTypeTryConversion(y.val[k], c.ele)
      at == IF c.arg < 0 THEN Len(o.v) + c.arg ELSE c.arg
  IN IF y.val[k].type # "list" THEN y
     ELSE IF at + 1 \notin DOMAIN o.v THEN dbOverwrite(y, k, o)
     ELSE Modified(dbOverwrite(y, k, [o EXCEPT !.v[at + 1] = c.ele]), k, 1)

popGenericCommand(x, c) ==
  LET k == c.keys[1]
      y == lookupKeyWrite(x, k)
      o == y.val[k]
  IN IF o.type # "list" THEN y
     ELSE Modified(StoreList(y, k, [o EXCEPT !.v = IF c.where = "head" THEN Tail(@) ELSE Front(@)]), k, 1)

ltrimCommand(x, c) ==
  LET k == c.keys[1]
      y == lookupKeyWrite(x, k)
      o == y.val[k]
      keep == RangeOf(c.start, c.end, Len(o.v))
      kept == [i \in 1..Cardinality(keep) |-> o.v[(CHOOSE m \in keep : \A n \in keep : m <= n) + i]]
  IN IF o.type # "list" THEN y
     ELSE Modified(StoreList(y, k, [o EXCEPT !.v = kept]), k, 1)

\* without the first n elements equal to e, or without all of them when n is 0
RemoveN(s, e, n) ==
  LET Step(l, f) == IF f # e \/ (n > 0 /\ l.removed = n) THEN [l EXCEPT !.left = Append(@, f)]
                    ELSE [l EXCEPT !.removed = @ + 1]
  IN FoldLeft(Step, [left |-> <<>>, removed |-> 0], s).left

lremCommand(x, c) ==
  LET k == c.keys[1]
      y == lookupKeyWrite(x, k)
      o == y.val[k]
      left == IF c.arg < 0 THEN Reverse(RemoveN(Reverse(o.v), c.ele, -c.arg)) ELSE RemoveN(o.v, c.ele, c.arg)
      removed == Len(o.v) - Len(left)
      z == StoreList(y, k, [o EXCEPT !.v = left])
  IN IF o.type # "list" THEN y
     ELSE IF removed > 0 THEN Modified(z, k, removed) ELSE z

rpoplpushCommand(x, c) ==
  LET src == c.keys[1]
      dst == c.keys[2]
      y == lookupKeyWrite(x, src)
      z == lookupKeyWrite(y, dst)
      ele == Last(Val(y, src))
      popped == dbOverwrite(z, src, [z.val[src] EXCEPT !.v = Front(@)])
      pushed == dbOverwrite(popped, dst, listTypePush(ListAt(popped, dst), ele, "head"))
      left == IF Val(pushed, src) = <<>> THEN dbDelete(pushed, src) ELSE pushed
  IN IF y.val[src].type # "list" THEN y
     ELSE IF ~ HasType(z, dst, "list") THEN z
     ELSE Modified(signalModifiedKey(left, dst), src, 1)

-----------------------------------------------------------------------------
(* Sets. *)
Set(enc, s) == [type |-> "set", enc |-> enc, v |-> s]

setTypeCreate(e) == Set(IF e \in IntElem THEN "intset" ELSE "ht", {})

setTypeAdd(o, e) ==
  LET s == o.v \cup {e}
  IN Set(IF o.enc = "intset" /\ (e \notin IntElem \/ Cardinality(s) > MaxEntries) THEN "ht" ELSE o.enc, s)

setTypeRemove(o, e) == [o EXCEPT !.v = @ \ {e}]

SetAt(x, k, e) == IF Exists(x, k) THEN x.val[k] ELSE setTypeCreate(e)
\* mutant: an empty set stays
StoreEmptySet(x, k, o) == dbOverwrite(x, k, o)

StoreSet(x, k, o) == IF o.v = {} THEN dbDelete(x, k) ELSE dbOverwrite(x, k, o)

saddCommand(x, c) ==
  LET k == c.keys[1]
      y == lookupKeyWrite(x, k)
      o == SetAt(y, k, c.eles[1])
      new == FoldLeft(setTypeAdd, o, c.eles)
      added == Cardinality(new.v) - Cardinality(o.v)
      z == dbOverwrite(y, k, new)
  IN IF ~ HasType(y, k, "set") THEN y
     ELSE IF added > 0 THEN Modified(z, k, added) ELSE z

sremCommand(x, c) ==
  LET k == c.keys[1]
      y == lookupKeyWrite(x, k)
      new == FoldLeft(setTypeRemove, y.val[k], c.eles)
      deleted == Cardinality(Val(y, k)) - Cardinality(new.v)
  IN IF y.val[k].type # "set" THEN y
     ELSE IF deleted > 0 THEN Modified(StoreSet(y, k, new), k, deleted) ELSE y

smoveCommand(x, c) ==
  LET src == c.keys[1]
      dst == c.keys[2]
      y == lookupKeyWrite(x, src)
      z == lookupKeyWrite(y, dst)
      removed == StoreSet(z, src, setTypeRemove(z.val[src], c.ele))
      target == SetAt(removed, dst, c.ele)
      added == dbOverwrite(removed, dst, setTypeAdd(target, c.ele))
  IN IF y.val[src].type # "set" \/ ~ HasType(z, dst, "set") \/ src = dst THEN z
     ELSE IF c.ele \notin Val(z, src) THEN z
     ELSE Modified(signalModifiedKey(added, dst), src, IF c.ele \in target.v THEN 1 ELSE 2)

\* pops any element, and is propagated as SREM of that element
spopCommand(x, c) ==
  LET k == c.keys[1]
      y == lookupKeyWrite(x, k)
  IN IF y.val[k].type # "set" \/ c.ele \notin Val(y, k) THEN y
     ELSE [Modified(StoreSet(y, k, setTypeRemove(y.val[k], c.ele)), k, 1) EXCEPT
             !.cmd = [name |-> "SREM", keys |-> <<k>>, eles |-> <<c.ele>>]]

\* looks the keys up in order, and stops at the first whose type ends the command
LookupUntil(x, keys, types) ==
  LET Step(l, k) == LET y == lookupKeyWrite(l.x, k)
                    IN IF l.at # <<>> THEN l ELSE [x |-> y, at |-> IF y.val[k].type \in types THEN <<>> ELSE <<k>>]
  IN FoldLeft(Step, [x |-> x, at |-> <<>>], keys)

\* SINTERSTORE, SUNIONSTORE and SDIFFSTORE: the result replaces the destination
StoreResult(x, dst, built, result) ==
  LET enc == IF built \subseteq IntElem /\ Cardinality(built) <= MaxEntries THEN "intset" ELSE "ht"
      y == dbDelete(x, dst)
  IN Modified(IF result = {} THEN y ELSE dbAdd(y, dst, Set(enc, result)), dst, 1)

sinterGenericCommand(x, c) ==
  LET dst == c.keys[1]
      l == LookupUntil(x, Tail(c.keys), {"set"})
      y == l.x
      inter == {e \in Elem : \A i \in 2..Len(c.keys) : e \in Val(y, c.keys[i])}
  IN IF l.at # <<>>
     THEN IF Exists(y, l.at[1]) \/ ~ Exists(y, dst) THEN y ELSE Modified(dbDelete(y, dst), dst, 1)
     ELSE StoreResult(y, dst, inter, inter)

sunionDiffGenericCommand(x, c) ==
  LET dst == c.keys[1]
      l == LookupUntil(x, Tail(c.keys), {"none", "set"})
      y == l.x
      sets == [i \in 2..Len(c.keys) |-> IF Exists(y, c.keys[i]) THEN Val(y, c.keys[i]) ELSE {}]
      union == UNION {sets[i] : i \in DOMAIN sets}
      diff == {e \in sets[2] : \A i \in DOMAIN sets \ {2} : e \notin sets[i]}
      present == {i \in DOMAIN sets : Exists(y, c.keys[i])}
      work1 == (Cardinality(present) * Cardinality(sets[2])) \div 2
      work2 == FoldLeft(LAMBDA n, i : n + Cardinality(sets[i]), 0, SetToSeq(present))
  IN IF l.at # <<>> THEN y
     ELSE IF c.name = "SUNIONSTORE" THEN StoreResult(y, dst, union, union)
     ELSE StoreResult(y, dst, IF work1 <= work2 THEN diff ELSE sets[2], diff)

-----------------------------------------------------------------------------
(* Hashes. *)
Hash(enc, h) == [type |-> "hash", enc |-> enc, v |-> h]
EmptyHash == Hash("ziplist", <<>>)

IsLong(f, v) == f \in LongElem \/ Len(v) > MaxValue
hashTypeTryConversion(o, f, v) == IF IsLong(f, v) THEN [o EXCEPT !.enc = "ht"] ELSE o

Put(h, f, v) == [g \in DOMAIN h \cup {f} |-> IF g = f THEN v ELSE h[g]]
Without(h, f) == [g \in DOMAIN h \ {f} |-> h[g]]

hashTypeSet(o, f, v) ==
  LET h == Put(o.v, f, v)
  IN Hash(IF Cardinality(DOMAIN h) > MaxEntries THEN "ht" ELSE o.enc, h)

\* hashTypeLookupWriteOrCreate: a missing key becomes an empty hash at once
LookupOrCreate(x, k) ==
  LET y == lookupKeyWrite(x, k) IN IF Exists(y, k) THEN y ELSE dbAdd(y, k, EmptyHash)

\* HSET, HSETNX and HMSET (which sets all its fields to one value here)
hsetCommand(x, c) ==
  LET k == c.keys[1]
      y == LookupOrCreate(x, k)
      Convert(o, f) == hashTypeTryConversion(o, f, c.v)
      SetField(o, f) == hashTypeSet(o, f, c.v)
      o == FoldLeft(Convert, y.val[k], c.eles)
  IN IF y.val[k].type # "hash" THEN y
     ELSE IF c.name = "HSETNX" /\ c.eles[1] \in DOMAIN o.v THEN dbOverwrite(y, k, o)
     ELSE Modified(dbOverwrite(y, k, FoldLeft(SetField, o, c.eles)), k, 1)

\* no hashTypeTryConversion here: a long field name goes into the ziplist
hincrbyCommand(x, c) ==
  LET k == c.keys[1]
      y == LookupOrCreate(x, k)
      h == Val(y, k)
      current == IF c.ele \in DOMAIN h THEN h[c.ele] ELSE Text(0)
      value == NumberOf(current) + c.arg
  IN IF y.val[k].type # "hash" THEN y
     ELSE IF ~ IsLongLong(current) THEN y
     ELSE IF Overflows(NumberOf(current), c.arg) THEN y
     ELSE Modified(dbOverwrite(y, k, hashTypeSet(y.val[k], c.ele, Text(value))), k, 1)

\* propagated as HSET with the result
hincrbyfloatCommand(x, c) ==
  LET k == c.keys[1]
      y == LookupOrCreate(x, k)
      h == Val(y, k)
      current == IF c.ele \in DOMAIN h THEN h[c.ele] ELSE Text(0)
      value == NumberOf(current) + c.arg
  IN IF y.val[k].type # "hash" THEN y
     ELSE IF ~ IsLongDouble(current) \/ value \notin -MaxDouble..MaxDouble THEN y
     ELSE [Modified(dbOverwrite(y, k, hashTypeSet(y.val[k], c.ele, Text(value))), k, 1) EXCEPT
             !.cmd = [name |-> "HSET", keys |-> <<k>>, eles |-> <<c.ele>>, v |-> Text(value)]]

hdelCommand(x, c) ==
  LET k == c.keys[1]
      y == lookupKeyWrite(x, k)
      o == y.val[k]
      h == FoldLeft(Without, o.v, c.eles)
      deleted == Cardinality(DOMAIN o.v) - Cardinality(DOMAIN h)
      z == IF DOMAIN h = {} THEN dbDelete(y, k) ELSE dbOverwrite(y, k, [o EXCEPT !.v = h])
  IN IF o.type # "hash" THEN y
     ELSE IF deleted > 0 THEN Modified(z, k, deleted) ELSE y

-----------------------------------------------------------------------------
(* Sorted sets. *)
Zset(enc, z) == [type |-> "zset", enc |-> enc, v |-> z]

NaN == Inf + 1
Clip(n) == IF n > Inf THEN Inf ELSE IF n < -Inf THEN -Inf ELSE n
AddScore(a, b) == IF {a, b} = {Inf, -Inf} \/ NaN \in {a, b} THEN NaN
                  ELSE IF a \in {Inf, -Inf} THEN a ELSE IF b \in {Inf, -Inf} THEN b ELSE Clip(a + b)
MulScore(a, w) == IF w = 0 /\ a \in {Inf, -Inf} THEN NaN ELSE Clip(a * w)
ZeroIfNaN(s) == IF s = NaN THEN 0 ELSE s

\* a new sorted set is a ziplist unless its first element is long
ZsetAt(x, k, e) ==
  IF Exists(x, k) THEN x.val[k]
  ELSE Zset(IF MaxEntries = 0 \/ e \in LongElem THEN "skiplist" ELSE "ziplist", <<>>)

ZsetPut(o, e, s) ==
  LET z == Put(o.v, e, s)
      new == e \notin DOMAIN o.v
  IN Zset(IF new /\ (Cardinality(DOMAIN z) > MaxEntries \/ e \in LongElem) THEN "skiplist" ELSE o.enc, z)

\* ZADD of several elements with one score, ZINCRBY of one
zaddGenericCommand(x, c) ==
  LET k == c.keys[1]
      y == lookupKeyWrite(x, k)
      o == ZsetAt(y, k, c.eles[1])
      Score(p, e) == IF c.incr /\ e \in DOMAIN p.v THEN AddScore(c.score, p.v[e]) ELSE c.score
      Add(p, e) == IF e \in DOMAIN p.v /\ Score(p, e) = p.v[e] THEN p ELSE ZsetPut(p, e, Score(p, e))
      new == FoldLeft(Add, o, c.eles)
      changed == {e \in DOMAIN new.v : e \notin DOMAIN o.v \/ o.v[e] # new.v[e]}
      z == dbOverwrite(y, k, new)
  IN IF ~ HasType(y, k, "zset") THEN y
     ELSE IF Score(o, c.eles[1]) = NaN THEN dbOverwrite(y, k, o)
     ELSE IF changed = {} THEN z ELSE Modified(z, k, Cardinality(changed))

StoreZset(x, k, o) == IF DOMAIN o.v = {} THEN dbDelete(x, k) ELSE dbOverwrite(x, k, o)

\* elements leave a sorted set, and the key goes with the last one
ZsetRemove(y, k, gone) ==
  LET o == y.val[k]
      deleted == Cardinality(gone \cap DOMAIN o.v)
      z == StoreZset(y, k, [o EXCEPT !.v = [e \in DOMAIN o.v \ gone |-> o.v[e]]])
  IN IF deleted = 0 THEN y ELSE Modified(z, k, deleted)

zremCommand(x, c) ==
  LET y == lookupKeyWrite(x, c.keys[1])
  IN IF y.val[c.keys[1]].type # "zset" THEN y ELSE ZsetRemove(y, c.keys[1], Range(c.eles))

\* by score, and elements of one score by name
SortedElements(z) == SetToSortSeq(DOMAIN z, LAMBDA a, b : z[a] < z[b] \/ (z[a] = z[b] /\ a < b))

zremrangeGenericCommand(x, c) ==
  LET k == c.keys[1]
      y == lookupKeyWrite(x, k)
      z == Val(y, k)
      byRank == {SortedElements(z)[i + 1] : i \in RangeOf(c.start, c.end, Cardinality(DOMAIN z))}
      byScore == {e \in DOMAIN z : c.start <= z[e] /\ z[e] <= c.end}
  IN IF y.val[k].type # "zset" THEN y
     ELSE ZsetRemove(y, k, IF c.name = "ZREMRANGEBYRANK" THEN byRank ELSE byScore)

zunionInterAggregate(a, b, how) ==
  CASE how = "sum" -> ZeroIfNaN(AddScore(a, b))
    [] how = "min" -> IF b # NaN /\ b < a THEN b ELSE a
    [] how = "max" -> IF b # NaN /\ b > a THEN b ELSE a

\* the elements of an input; those of a plain set have score 1
zuiElements(o) ==
  CASE o.type = "none" -> <<>>
    [] o.type = "set" -> [e \in o.v |-> 1]
    [] o.type = "zset" -> o.v

\* the result of two inputs, the smaller one first
ZuiResult(a, b, c) ==
  LET w == [e \in DOMAIN a \cap DOMAIN b |->
              zunionInterAggregate(ZeroIfNaN(MulScore(a[e], c.weight)), MulScore(b[e], c.weight), c.aggregate)]
  IN IF c.name = "ZINTERSTORE" THEN w
     ELSE [e \in DOMAIN a \cup DOMAIN b |->
             IF e \in DOMAIN w THEN w[e]
             ELSE ZeroIfNaN(MulScore(IF e \in DOMAIN a THEN a[e] ELSE b[e], c.weight))]

ZuiSorted(a, b, c) ==
  IF Cardinality(DOMAIN b) < Cardinality(DOMAIN a) THEN ZuiResult(b, a, c) ELSE ZuiResult(a, b, c)

ZuiStore(y, dst, z) ==
  LET enc == IF Cardinality(DOMAIN z) <= MaxEntries /\ DOMAIN z \cap LongElem = {} THEN "ziplist" ELSE "skiplist"
      gone == IF Exists(y, dst) THEN Modified(dbDelete(y, dst), dst, 1) ELSE y
  IN IF DOMAIN z = {} THEN gone ELSE Modified(dbAdd(gone, dst, Zset(enc, z)), dst, 1)

\* ZUNIONSTORE and ZINTERSTORE of two keys
zunionInterGenericCommand(x, c) ==
  LET l == LookupUntil(x, Tail(c.keys), {"none", "zset", "set"})
      Elements(k) == zuiElements(l.x.val[k])
  IN IF l.at # <<>> THEN l.x
     ELSE ZuiStore(l.x, c.keys[1], ZuiSorted(Elements(c.keys[2]), Elements(c.keys[3]), c))
=============================================================================
