----------------------------- MODULE RdbFormat -----------------------------
(***************************************************************************)
(* The RDB file (rdb.c): what rdbSave() writes and rdbLoad() reads back,   *)
(* under another configuration, at a later time, as master or as slave,    *)
(* from a file that may have been cut short.                               *)
(*                                                                         *)
(* A file is a sequence of cells: bytes, where the format computes with    *)
(* them (types, lengths, integers), and payloads read in one piece         *)
(* (characters, a ziplist or intset, a number in text, a time).  A string  *)
(* is the decimal text of an integer of 32 bits, or a text with a length   *)
(* that compresses or not.                                                 *)
(***************************************************************************)
EXTENDS Integers, Sequences, FiniteSets, SequencesExt, TLC

CONSTANTS DataSets,     \* databases: sequences of functions from keys to [o |-> object, expire |-> time or NoExpire]
          Limits,       \* configurations: [entries, value, intset] of the compact encodings
          MaxTime, NoExpire

VARIABLES saved,        \* the databases that were saved, when and how: [dbs, now, compress, checksum]
          file, at,     \* the file and the place of the next cell
          loader,       \* [slave, now, limits, checksum]
          db, expiretime, loaded, status
rdbVars == <<saved, file, at, loader, db, expiretime, loaded, status>>

-----------------------------------------------------------------------------
(* Strings and objects *)
Dec(v) == [t |-> "int", v |-> v]
Text(id, len, lzf) == [t |-> "text", v |-> id, len |-> len, lzf |-> lzf]
Blob(ele) == [t |-> "blob", v |-> ele, len |-> 22, lzf |-> Cardinality(DOMAIN ele) > 1]
Digits(v) == LET a == IF v < 0 THEN -(v + 1) ELSE v
             IN (IF v < 0 THEN 1 ELSE 0) + Cardinality({d \in 0 .. 9 : d = 0 \/ a \div (10 ^ d) > 0})
StrLen(s) == IF s.t = "int" THEN Digits(s.v) ELSE s.len

\* ele: a sequence of strings, or a function from strings to strings, scores or TRUE
Object(type, enc, ele) == [type |-> type, enc |-> enc, ele |-> ele]

TypeCode == [list |-> 1, set |-> 2, zset |-> 3, hash |-> 4]
CompactCode == [list |-> 10, set |-> 11, zset |-> 12, hash |-> 13]
Compact == [list |-> "ziplist", set |-> "intset", zset |-> "ziplist", hash |-> "ziplist"]
Large == [list |-> "linkedlist", set |-> "ht", zset |-> "skiplist", hash |-> "ht"]
TypeOf(code, codes) == CHOOSE t \in DOMAIN codes : codes[t] = code

-----------------------------------------------------------------------------
(* Saving *)
SELECTDB == 254
EOFOP == 255
EXPIRETIME_MS == 252

rdbSaveLen(n) ==
  IF n < 64 THEN <<n>>
  ELSE IF n < 16384 THEN <<64 + n \div 256, n % 256>>
  ELSE <<128, n \div 16777216, (n \div 65536) % 256, (n \div 256) % 256, n % 256>>

rdbEncodeInteger(v) ==
  LET Byte(i) == (v \div 256 ^ i) % 256
  IN IF v >= -128 /\ v <= 127 THEN <<192, Byte(0)>>
     ELSE IF v >= -32768 /\ v <= 32767 THEN <<193, Byte(0), Byte(1)>>
     ELSE <<194, Byte(0), Byte(1), Byte(2), Byte(3)>>

ApplyToAll(Op(_), seq) == [i \in DOMAIN seq |-> Op(seq[i])]
Concat(seqs) == FoldLeft(LAMBDA a, b : a \o b, <<>>, seqs)

\* the cells of a string, and what has to be written as lengths before its payload
rdbSaveLzfStringObject(s) == [first |-> <<195>>, lens |-> <<s.len - 5, s.len>>, rest |-> <<[lzf |-> s]>>]

\* an integer as such, a long text compressed if that makes it shorter, any other text as it is
rdbSaveRawString(s, compress) ==
  IF s.t = "int" THEN [first |-> rdbEncodeInteger(s.v), lens |-> <<>>, rest |-> <<>>]
  ELSE IF compress /\ s.len > 20 /\ s.lzf THEN rdbSaveLzfStringObject(s)
  ELSE [first |-> <<>>, lens |-> <<s.len>>, rest |-> IF s.len > 0 THEN <<[raw |-> s]>> ELSE <<>>]

rdbSaveDoubleValue(score) ==
  CASE score = "+inf" -> <<254>> [] score = "-inf" -> <<255>> [] OTHER -> <<3, [num |-> score]>>

\* the parts of an object: strings, lengths and scores, one after the other
Str(s) == [k |-> "str", v |-> s]
Length(n) == [k |-> "len", v |-> n]
Score(d) == [k |-> "double", v |-> d]
Code(c) == [k |-> "code", v |-> c]
Cells(w) == w.first \o Concat([i \in DOMAIN w.lens |-> rdbSaveLen(w.lens[i])]) \o w.rest
Part(p, compress) ==
  Cells(CASE p.k = "str" -> rdbSaveRawString(p.v, compress)
          [] p.k = "len" -> [first |-> <<>>, lens |-> <<p.v>>, rest |-> <<>>]
          [] p.k = "double" -> [first |-> rdbSaveDoubleValue(p.v), lens |-> <<>>, rest |-> <<>>]
          [] p.k = "code" -> [first |-> p.v, lens |-> <<>>, rest |-> <<>>])

rdbSaveObject(o) ==
  LET dom == SetToSeq(DOMAIN o.ele)
  IN IF o.type = "string" THEN <<Str(o.ele)>>
     ELSE IF o.enc = Compact[o.type] THEN <<Str(Blob(o.ele))>>
     ELSE <<Length(Len(dom))>> \o
          Concat([i \in DOMAIN dom |-> CASE o.type = "list" -> <<Str(o.ele[i])>>
                                         [] o.type = "set" -> <<Str(dom[i])>>
                                         [] o.type = "zset" -> <<Str(dom[i]), Score(o.ele[dom[i]])>>
                                         [] o.type = "hash" -> <<Str(dom[i]), Str(o.ele[dom[i]])>>])

rdbSaveObjectType(o) ==
  CASE o.type = "string" -> 0 [] o.enc = Compact[o.type] -> CompactCode[o.type] [] OTHER -> TypeCode[o.type]

rdbSaveKeyValuePair(k, e, now) ==
  IF e.expire # NoExpire /\ e.expire < now THEN <<>>
  ELSE (IF e.expire # NoExpire THEN <<Code(<<EXPIRETIME_MS, [time |-> e.expire]>>)>> ELSE <<>>)
       \o <<Code(<<rdbSaveObjectType(e.o)>>), Str(k)>> \o rdbSaveObject(e.o)

SaveDb(j, d, now) ==
  LET keys == SetToSeq(DOMAIN d)
  IN IF d = <<>> THEN <<>>
     ELSE <<Code(<<SELECTDB>>), Length(j - 1)>> \o Concat([i \in DOMAIN keys |-> rdbSaveKeyValuePair(keys[i], d[keys[i]], now)])

rdbSave(s) ==
  <<"REDIS0006">>
  \o Concat([j \in DOMAIN s.dbs |-> Concat(LET Write(p) == Part(p, s.compress) IN ApplyToAll(Write, SaveDb(j, s.dbs[j], s.now)))])
  \o <<EOFOP, IF s.checksum THEN "checksum" ELSE "zero">>

-----------------------------------------------------------------------------
(* Reading.  A reader takes a place and returns a value and the next place; *)
(* beyond the end of the file it fails, and so does what called it.         *)
Short == [ok |-> FALSE]
Got(v, i) == [ok |-> TRUE, v |-> v, at |-> i]
Cell(i) == IF i <= Len(file) THEN Got(file[i], i + 1) ELSE Short
Payload(i, field) == IF i <= Len(file) THEN Got(file[i][field], i + 1) ELSE Short

rdbLoadLen(i) ==
  IF ~ Cell(i).ok THEN Short
  ELSE LET b == file[i]
           kind == b \div 64
       IN CASE kind = 3 -> Got([encoded |-> TRUE, n |-> b % 64], i + 1)
            [] kind = 0 -> Got([encoded |-> FALSE, n |-> b % 64], i + 1)
            [] kind = 1 -> IF i + 1 > Len(file) THEN Short ELSE Got([encoded |-> FALSE, n |-> (b % 64) * 256 + file[i + 1]], i + 2)
            [] kind = 2 -> IF i + 4 > Len(file) THEN Short
                           ELSE Got([encoded |-> FALSE, n |-> file[i + 1] * 16777216 + file[i + 2] * 65536 + file[i + 3] * 256 + file[i + 4]], i + 5)

rdbLoadIntegerObject(i, enctype) ==
  LET n == CASE enctype = 0 -> 1 [] enctype = 1 -> 2 [] enctype = 2 -> 4
      top == file[i + n - 1]
  IN IF i + n - 1 > Len(file) THEN Short
     ELSE Got(Dec(FoldLeft(LAMBDA v, j : v * 256 + file[i + n - 1 - j], IF top >= 128 THEN top - 256 ELSE top, [j \in 1 .. n - 1 |-> j])), i + n)

LzfPayload(l) == IF l.ok THEN Payload(l.at, "lzf") ELSE Short
rdbLoadLzfStringObject(c) == IF c.ok THEN LzfPayload(rdbLoadLen(c.at)) ELSE Short

\* l: the length in front
rdbGenericLoadStringObject(l) ==
  IF ~ l.ok THEN Short
  ELSE IF l.v.encoded
  THEN IF l.v.n = 3 THEN rdbLoadLzfStringObject(rdbLoadLen(l.at)) ELSE rdbLoadIntegerObject(l.at, l.v.n)
  ELSE IF l.v.n = 0 THEN Got(Text("", 0, FALSE), l.at)
  ELSE Payload(l.at, "raw")

rdbLoadDoubleValue(i) ==
  IF ~ Cell(i).ok THEN Short
  ELSE CASE file[i] = 255 -> Got("-inf", i + 1) [] file[i] = 254 -> Got("+inf", i + 1)
         [] OTHER -> Payload(i + 1, "num")

LengthOnly(l) == IF l.ok THEN Got(l.v.n, l.at) ELSE Short
LoadPart(kind, i) ==
  CASE kind = "double" -> rdbLoadDoubleValue(i)
    [] kind = "len" -> LengthOnly(rdbLoadLen(i))
    [] kind = "str" -> rdbGenericLoadStringObject(rdbLoadLen(i))

\* the parts of the given kinds, from place i: the sequence of what they are
LoadParts(kinds, i) ==
  LET Extend(acc, r) == IF r.ok THEN Got(Append(acc.v, r.v), r.at) ELSE Short
  IN FoldLeft(LAMBDA acc, kind : IF acc.ok THEN Extend(acc, LoadPart(kind, acc.at)) ELSE Short, Got(<<>>, i), kinds)

\* the encoding an object that was saved element by element is given; integers are measured in hashes only
ChosenEncoding(type, strs, n) ==
  LET fits == \A s \in strs : (s.t = "int" /\ type # "hash") \/ StrLen(s) <= loader.limits.value
  IN CASE type = "set" -> IF n <= loader.limits.intset /\ \A s \in strs : s.t = "int" THEN "intset" ELSE "ht"
       [] type # "set" -> IF n <= loader.limits.entries /\ fits THEN Compact[type] ELSE Large[type]

\* elements read one by one: n of them, or of pairs
Elements(type, n, v) ==
  CASE type = "list" -> v [] type = "set" -> [x \in Range(v) |-> TRUE]
    [] OTHER -> [x \in {v[2 * j - 1] : j \in 1 .. n} |-> v[2 * (CHOOSE j \in 1 .. n : v[2 * j - 1] = x)]]
Strings(type, ele) == CASE type = "hash" -> DOMAIN ele \cup Range(ele) [] type = "list" -> Range(ele) [] OTHER -> DOMAIN ele
Build(type, n, ele) == Object(type, ChosenEncoding(type, Strings(type, ele), n), ele)
Kinds(type, n) ==
  CASE type = "zset" -> [j \in 1 .. 2 * n |-> IF j % 2 = 1 THEN "str" ELSE "double"]
    [] type = "hash" -> [j \in 1 .. 2 * n |-> "str"]
    [] OTHER -> [j \in 1 .. n |-> "str"]
LoadElements(type, key, n, r) ==
  IF r.ok THEN [ok |-> TRUE, key |-> key, o |-> Build(type, n, Elements(type, n, r.v)), at |-> r.at] ELSE Short

\* a ziplist or intset that is too long for this server is converted
LoadCompact(type, ele) ==
  Object(type, IF Cardinality(DOMAIN ele) > (IF type = "set" THEN loader.limits.intset ELSE loader.limits.entries) THEN Large[type] ELSE Compact[type], ele)

\* l: what follows the type, the key, and a string or the number of elements
rdbLoadObject(code, l) ==
  IF ~ l.ok THEN Short
  ELSE IF code = 0 THEN [ok |-> TRUE, key |-> l.v[1], o |-> Object("string", "string", l.v[2]), at |-> l.at]
  ELSE IF code >= 10 THEN [ok |-> TRUE, key |-> l.v[1], o |-> LoadCompact(TypeOf(code, CompactCode), l.v[2].v), at |-> l.at]
  ELSE LET type == TypeOf(code, TypeCode) IN LoadElements(type, l.v[1], l.v[2], LoadParts(Kinds(type, l.v[2]), l.at))

-----------------------------------------------------------------------------
RdbInit ==
  /\ \E dbs \in DataSets, t \in 0 .. MaxTime, c \in BOOLEAN, k \in BOOLEAN :
       saved = [dbs |-> dbs, now |-> t, compress |-> c, checksum |-> k]
  /\ file = rdbSave(saved)
  /\ at = 0
  /\ \E t \in saved.now .. MaxTime, s \in BOOLEAN, l \in Limits, k \in BOOLEAN :
       loader = [slave |-> s, now |-> t, limits |-> l, checksum |-> k]
  /\ db = 1 /\ expiretime = NoExpire
  /\ loaded = [j \in DOMAIN saved.dbs |-> <<>>]
  /\ status = "none"

\* the file was copied while it was written, or the disk was full
Cut ==
  /\ status = "none" /\ at = 0
  /\ \E n \in 0 .. Len(file) - 1 : file' = SubSeq(file, 1, n)
  /\ at' = 1
  /\ UNCHANGED <<saved, loader, db, expiretime, loaded, status>>

Fails == status' = "exit" /\ UNCHANGED <<at, db, expiretime, loaded>>

startLoading ==
  /\ status = "none"
  /\ IF file = <<>> THEN Fails
     ELSE status' = "loading" /\ at' = 2 /\ UNCHANGED <<db, expiretime, loaded>>
  /\ UNCHANGED <<saved, file, loader>>

\* a key that has expired is not kept by a master
AddPair(p, expire) ==
  IF ~ p.ok THEN Fails
  ELSE /\ at' = p.at
       /\ loaded' = IF ~ loader.slave /\ expire # NoExpire /\ expire < loader.now THEN loaded
                    ELSE [loaded EXCEPT ![db] = (p.key :> [o |-> p.o, expire |-> expire]) @@ @]
       /\ expiretime' = expire
       /\ UNCHANGED <<db, status>>
LoadPair(code, i, expire) ==
  AddPair(rdbLoadObject(code, LoadParts(<<"str", IF code \in {0} \cup 10 .. 13 THEN "str" ELSE "len">>, i)), expire)

\* mutant: the time is forgotten only when a key was added
LoadNextKeepsTime ==
  LET type == Cell(at)
      timed == type.ok /\ type.v = EXPIRETIME_MS
      time == IF timed THEN Payload(at + 1, "time") ELSE Got(expiretime, at)
      op == IF ~ time.ok THEN Short ELSE Cell(time.at)
  IN /\ status = "loading"
     /\ IF ~ op.ok THEN Fails
        ELSE IF op.v = EOFOP THEN status' = "eof" /\ at' = op.at /\ UNCHANGED <<db, expiretime, loaded>>
        ELSE IF op.v = SELECTDB
        THEN LET n == rdbLoadLen(op.at)
             IN IF n.ok THEN at' = n.at /\ db' = n.v.n + 1 /\ UNCHANGED <<expiretime, loaded, status>> ELSE Fails
        ELSE LoadPair(op.v, op.at, time.v)
     /\ UNCHANGED <<saved, file, loader>>

\* one round of the loop of rdbLoad()
LoadNext ==
  LET type == Cell(at)
      timed == type.ok /\ type.v = EXPIRETIME_MS
      time == IF timed THEN Payload(at + 1, "time") ELSE Got(NoExpire, at)
      op == IF ~ time.ok THEN Short ELSE Cell(time.at)
  IN /\ status = "loading"
     /\ IF ~ op.ok THEN Fails
        ELSE IF op.v = EOFOP THEN status' = "eof" /\ at' = op.at /\ UNCHANGED <<db, expiretime, loaded>>
        ELSE IF op.v = SELECTDB
        THEN LET n == rdbLoadLen(op.at)
             IN IF n.ok THEN at' = n.at /\ db' = n.v.n + 1 /\ UNCHANGED <<expiretime, loaded, status>> ELSE Fails
        ELSE LoadPair(op.v, op.at, time.v)
     /\ UNCHANGED <<saved, file, loader>>

\* the sum is compared if this server checks sums and the file has one
stopLoading ==
  /\ status = "eof"
  /\ IF loader.checksum /\ ~ Cell(at).ok THEN Fails
     ELSE status' = "ok" /\ UNCHANGED <<at, db, expiretime, loaded>>
  /\ UNCHANGED <<saved, file, loader>>

RdbNext == Cut \/ startLoading \/ LoadNext \/ stopLoading
RdbSpec == RdbInit /\ [][RdbNext]_rdbVars

-----------------------------------------------------------------------------
Alive(d, now) == {k \in DOMAIN d : d[k].expire = NoExpire \/ d[k].expire >= now}

(* A server that starts from an RDB file, whole or cut anywhere, has every  *)
(* key that has not expired, in its database, with its value and its time   *)
(* of expiry, whatever the limits and options it was saved and is loaded    *)
(* with; or it exits (rdbSave and rdbLoad).                                 *)
LoadedExactly ==
  status = "ok" => \A j \in DOMAIN saved.dbs :
    /\ Alive(loaded[j], loader.now) = Alive(saved.dbs[j], loader.now)
    /\ \A k \in Alive(loaded[j], loader.now) : /\ loaded[j][k].expire = saved.dbs[j][k].expire
                                               /\ loaded[j][k].o.type = saved.dbs[j][k].o.type
                                               /\ loaded[j][k].o.ele = saved.dbs[j][k].o.ele
=============================================================================
