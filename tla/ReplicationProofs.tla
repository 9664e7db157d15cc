-------------------------- MODULE ReplicationProofs --------------------------
(***************************************************************************)
(* What is proved about replication.  A full resynchronisation loses       *)
(* nothing, and a slave that resumes a stream has the data set of its      *)
(* master, for every set of slaves, connections and databases and every    *)
(* number of writes and failures.  The answers of WAIT are truthful, and a *)
(* write that min-slaves-to-write lets through has its good slaves, for    *)
(* every set of clients and slaves, every sequence of requests and every   *)
(* bound.                                                                  *)
(***************************************************************************)
EXTENDS Replication, Acks, FiniteSetTheorems, SequenceTheorems, NaturalsInduction, WellFoundedInduction, TLAPS

(***************************************************************************)
(* The data sets of master and slaves (module Replication).                *)
(***************************************************************************)

LEMMA Least ==
  ASSUME NEW T \in SUBSET Nat, T # {}
  PROVE  \E n \in T : \A k \in Nat : k < n => k \notin T
<1> DEFINE Less == OpToRel(<, Nat)
<1>1. IsWellFoundedOn(Less, Nat) /\ \A p \in Nat \X Nat : p[1] < p[2] => p \in Less
  BY NatLessThanWellFounded DEF OpToRel
<1> HIDE DEF Less
<1>2. PICK x \in T : \A y \in T : ~ (<<y, x>> \in Less)
  BY <1>1, WFMin
<1>3. ASSUME NEW y \in T, y < x PROVE FALSE
  <2> DEFINE yx == <<y, x>>
  <2>1. yx \in Nat \X Nat /\ yx[1] = y /\ yx[2] = x /\ yx \notin Less
    BY <1>2
  <2> HIDE DEF yx
  <2> QED BY <1>1, <1>3, <2>1
<1> QED BY <1>3

-----------------------------------------------------------------------------
(* What reading a stream does                                              *)

\* The states of a reader, up to the n-th item of a stream.
Reading(s, st, n, f) == f = [i \in 0..n |-> IF i = 0 THEN st ELSE Reads(f[i - 1], s[i])]

LEMMA ReadingExists ==
  ASSUME NEW s, NEW st
  PROVE  \A n \in Nat : \E f : Reading(s, st, n, f)
<1> DEFINE T == {n \in Nat : ~ \E f : Reading(s, st, n, f)}
<1> SUFFICES ASSUME T # {} PROVE FALSE
  OBVIOUS
<1>1. PICK n \in T : \A k \in Nat : k < n => k \notin T
  <2>1. T \in SUBSET Nat
    OBVIOUS
  <2> HIDE DEF T
  <2> QED BY <2>1, Least
<1>2. n # 0
  <2> DEFINE h == [i \in 0..0 |-> st]
  <2>1. h = [i \in 0..0 |-> IF i = 0 THEN st ELSE Reads(h[i - 1], s[i])]
    OBVIOUS
  <2> HIDE DEF h
  <2>2. Reading(s, st, 0, h)
    BY <2>1 DEF Reading
  <2> QED BY <2>2
<1>3. n - 1 \in Nat /\ n - 1 < n
  BY <1>2
<1>4. PICK f : Reading(s, st, n - 1, f)
  BY <1>1, <1>3
<1> DEFINE h == [i \in 0..n |-> IF i = n THEN Reads(f[n - 1], s[n]) ELSE f[i]]
<1>5. ASSUME NEW i \in 0..n PROVE h[i] = IF i = 0 THEN st ELSE Reads(h[i - 1], s[i])
  <2>1. CASE i = n
    BY <2>1, <1>2, <1>3
  <2>2. CASE i # n
    <3>1. i \in 0..(n - 1) /\ (i # 0 => i - 1 \in 0..n /\ i - 1 # n)
      BY <2>2, <1>3
    <3>2. h[i] = f[i] /\ (i # 0 => h[i - 1] = f[i - 1])
      BY <3>1, <2>2
    <3>3. f[i] = IF i = 0 THEN st ELSE Reads(f[i - 1], s[i])
      BY <1>4, <3>1 DEF Reading
    <3> HIDE DEF h
    <3> QED BY <3>1, <3>2, <3>3
  <2> QED BY <2>1, <2>2
<1>6. h = [i \in 0..n |-> h[i]]
  OBVIOUS
<1> HIDE DEF h
<1>7. Reading(s, st, n, h)
  BY <1>5, <1>6 DEF Reading
<1> QED BY <1>7, <1>1

LEMMA EndingReads ==
  ASSUME NEW s, NEW st, Len(s) \in Nat
  PROVE  \E f : Reading(s, st, Len(s), f) /\ Ending(s, st) = f[Len(s)]
<1>1. \E f : Reading(s, st, Len(s), f)
  BY ReadingExists
<1> QED BY <1>1 DEF Reading, Ending

\* Whatever goes through the states of a reader ends where the reader does.
LEMMA EndingIs ==
  ASSUME NEW s, NEW st, NEW n \in Nat, Len(s) = n,
         NEW g, g[0] = st, \A i \in 1..n : g[i] = Reads(g[i - 1], s[i])
  PROVE  Ending(s, st) = g[n]
<1>1. PICK f : Reading(s, st, n, f) /\ Ending(s, st) = f[n]
  BY EndingReads
<1> DEFINE T == {i \in 0..n : f[i] # g[i]}
<1>2. T = {}
  <2> SUFFICES ASSUME T # {} PROVE FALSE
    OBVIOUS
  <2>1. PICK i \in T : \A k \in Nat : k < i => k \notin T
    <3>1. T \in SUBSET Nat
      OBVIOUS
    <3> HIDE DEF T
    <3> QED BY <3>1, Least
  <2>2. i \in 0..n /\ f[i] = IF i = 0 THEN st ELSE Reads(f[i - 1], s[i])
    BY <1>1 DEF Reading
  <2>3. CASE i = 0
    BY <2>1, <2>2, <2>3
  <2>4. CASE i # 0
    <3>1. i - 1 \in 0..n /\ i - 1 \in Nat /\ i - 1 < i /\ i \in 1..n
      BY <2>2, <2>4
    <3>2. f[i - 1] = g[i - 1]
      BY <2>1, <3>1
    <3> QED BY <2>1, <2>2, <2>4, <3>1, <3>2
  <2> QED BY <2>3, <2>4
<1>3. n \in 0..n
  OBVIOUS
<1> QED BY <1>1, <1>2, <1>3

LEMMA EndingEmpty == ASSUME NEW st PROVE Ending(<< >>, st) = st
<1>1. Len(<< >>) = 0 /\ 0 \in Nat /\ 0 \in 0..0
  OBVIOUS
<1>2. PICK s : s = << >>
  OBVIOUS
<1>3. PICK f : Reading(s, st, 0, f) /\ Ending(s, st) = f[0]
  <2>1. Len(s) = 0
    BY <1>1, <1>2
  <2> QED BY <1>1, <2>1, EndingReads
<1>4. f[0] = st
  BY <1>1, <1>3 DEF Reading
<1> QED BY <1>2, <1>3, <1>4

LEMMA EndingAppend ==
  ASSUME NEW S, NEW s \in Seq(S), NEW x \in S, NEW st
  PROVE  Ending(Append(s, x), st) = Reads(Ending(s, st), x)
<1> DEFINE n == Len(s)
           t == Append(s, x)
<1>1. n \in Nat /\ n + 1 \in Nat /\ Len(t) = n + 1 /\ t[n + 1] = x /\ \A i \in 1..n : t[i] = s[i]
  OBVIOUS
<1>2. PICK f : Reading(s, st, n, f) /\ Ending(s, st) = f[n]
  BY <1>1, EndingReads
<1> HIDE DEF n, t
<1> DEFINE g == [i \in 0..(n + 1) |-> IF i = n + 1 THEN Reads(f[n], x) ELSE f[i]]
<1>3. f[0] = st /\ \A i \in 1..n : f[i] = Reads(f[i - 1], s[i])
  <2>1. 0 \in 0..n /\ \A i \in 1..n : i \in 0..n /\ i # 0
    BY <1>1
  <2> QED BY <1>2, <2>1 DEF Reading
<1>4. g[0] = st
  BY <1>1, <1>3
<1>5. ASSUME NEW i \in 1..(n + 1) PROVE g[i] = Reads(g[i - 1], t[i])
  <2>1. CASE i = n + 1
    BY <1>1, <2>1
  <2>2. CASE i # n + 1
    <3>1. i \in 1..n /\ i \in 0..(n + 1) /\ i - 1 \in 0..(n + 1) /\ i - 1 # n + 1
      BY <1>1, <2>2
    <3>2. g[i] = f[i] /\ g[i - 1] = f[i - 1]
      BY <2>2, <3>1
    <3> HIDE DEF g
    <3> QED BY <1>1, <1>3, <3>1, <3>2
  <2> QED BY <2>1, <2>2
<1>6. g[n + 1] = Reads(f[n], x)
  BY <1>1
<1> HIDE DEF g
<1>7. Ending(t, st) = g[n + 1]
  <2>1. PICK m \in Nat : m = n + 1
    BY <1>1
  <2>2. \A i \in 1..m : g[i] = Reads(g[i - 1], t[i])
    BY <1>5, <2>1
  <2>3. Len(t) = m /\ m \in Nat
    BY <1>1, <2>1
  <2>4. Ending(t, st) = g[m]
    BY <1>4, <2>2, <2>3, EndingIs
  <2> QED BY <2>1, <2>4
<1> QED BY <1>2, <1>6, <1>7 DEF t

LEMMA EndingTail ==
  ASSUME NEW S, NEW s \in Seq(S), s # << >>, NEW st
  PROVE  Ending(s, st) = Ending(Tail(s), Reads(st, Head(s)))
<1> DEFINE n == Len(s)
           t == Tail(s)
<1>1. n \in Nat /\ n # 0 /\ n - 1 \in Nat /\ Len(t) = n - 1 /\ Head(s) = s[1] /\ \A i \in 1..(n - 1) : t[i] = s[i + 1]
  OBVIOUS
<1>2. PICK f : Reading(s, st, n, f) /\ Ending(s, st) = f[n]
  BY <1>1, EndingReads
<1> HIDE DEF n, t
<1> DEFINE g == [i \in 0..(n - 1) |-> f[i + 1]]
<1>3. f[0] = st /\ \A i \in 1..n : f[i] = Reads(f[i - 1], s[i])
  <2>1. 0 \in 0..n /\ \A i \in 1..n : i \in 0..n /\ i # 0
    BY <1>1
  <2> QED BY <1>2, <2>1 DEF Reading
<1>4. g[0] = Reads(st, Head(s))
  <2>1. 0 \in 0..(n - 1) /\ 1 \in 1..n /\ 0 + 1 = 1 /\ 1 - 1 = 0
    BY <1>1
  <2>2. g[0] = f[1]
    BY <2>1
  <2>3. f[1] = Reads(f[1 - 1], s[1])
    BY <1>3, <2>1
  <2> QED BY <1>1, <1>3, <2>1, <2>2, <2>3
<1>5. ASSUME NEW i \in 1..(n - 1) PROVE g[i] = Reads(g[i - 1], t[i])
  <2>1. i \in 0..(n - 1) /\ i - 1 \in 0..(n - 1) /\ i + 1 \in 1..n /\ (i - 1) + 1 = i /\ (i + 1) - 1 = i
    BY <1>1
  <2>2. g[i] = f[i + 1] /\ g[i - 1] = f[(i - 1) + 1]
    BY <2>1
  <2>3. f[i + 1] = Reads(f[(i + 1) - 1], s[i + 1])
    BY <1>3, <2>1
  <2> HIDE DEF g
  <2> QED BY <1>1, <2>1, <2>2, <2>3
<1>6. g[n - 1] = f[n]
  <2>1. n - 1 \in 0..(n - 1) /\ (n - 1) + 1 = n
    BY <1>1
  <2> QED BY <2>1
<1> HIDE DEF g
<1>7. Ending(t, Reads(st, Head(s))) = g[n - 1]
  <2>1. PICK m \in Nat : m = n - 1
    BY <1>1
  <2>2. \A i \in 1..m : g[i] = Reads(g[i - 1], t[i])
    BY <1>5, <2>1
  <2>3. Len(t) = m /\ m \in Nat
    BY <1>1, <2>1
  <2>4. Ending(t, Reads(st, Head(s))) = g[m]
    BY <1>4, <2>2, <2>3, EndingIs
  <2> QED BY <2>1, <2>4
<1> QED BY <1>2, <1>6, <1>7 DEF t

-----------------------------------------------------------------------------
(* Lists of connections                                                    *)

LEMMA RangeAppend ==
  ASSUME NEW S, NEW s \in Seq(S), NEW x \in S
  PROVE  /\ Append(s, x) \in Seq(S) /\ Range(Append(s, x)) = Range(s) \cup {x}
         /\ Append(s, x) # << >>
<1>1. Append(s, x) \in Seq(S) /\ Append(s, x) # << >> /\ Append(s, x)[Len(s) + 1] = x /\ DOMAIN Append(s, x) = 1..(Len(s) + 1)
      /\ (\A i \in 1..Len(s) : Append(s, x)[i] = s[i]) /\ DOMAIN s = 1..Len(s) /\ Len(s) \in Nat
  OBVIOUS
<1> DEFINE t == Append(s, x)
<1> HIDE DEF t
<1>2. \A i \in 1..(Len(s) + 1) : i = Len(s) + 1 \/ i \in 1..Len(s)
  BY <1>1
<1>3. \A i \in 1..Len(s) : i \in 1..(Len(s) + 1)
  BY <1>1
<1>4. Len(s) + 1 \in 1..(Len(s) + 1)
  BY <1>1
<1>5. Range(Append(s, x)) = Range(s) \cup {x}
  BY <1>1, <1>2, <1>3, <1>4 DEF Range
<1> QED BY <1>1, <1>5

LEMMA RangeEmpty ==
  ASSUME NEW S, NEW s \in Seq(S)
  PROVE  Range(s) \subseteq S /\ (s = << >> <=> Range(s) = {})
<1>1. Len(s) \in Nat /\ DOMAIN s = 1..Len(s) /\ (\A i \in 1..Len(s) : s[i] \in S) /\ (s = << >> <=> Len(s) = 0)
  OBVIOUS
<1>2. Len(s) # 0 => 1 \in DOMAIN s
  BY <1>1
<1>3. Len(s) = 0 => DOMAIN s = {}
  BY <1>1
<1> QED BY <1>1, <1>2, <1>3 DEF Range

\* The list without some nodes, as far as the n-th.
Cutting(s, gone, n, f) ==
  f = [i \in 0..n |-> IF i = 0 THEN << >> ELSE IF s[i] \in gone THEN f[i - 1] ELSE Append(f[i - 1], s[i])]

LEMMA CuttingExists ==
  ASSUME NEW s, NEW gone
  PROVE  \A n \in Nat : \E f : Cutting(s, gone, n, f)
<1> DEFINE T == {n \in Nat : ~ \E f : Cutting(s, gone, n, f)}
           Next1(r, x) == IF x \in gone THEN r ELSE Append(r, x)
<1> SUFFICES ASSUME T # {} PROVE FALSE
  OBVIOUS
<1>1. PICK n \in T : \A k \in Nat : k < n => k \notin T
  <2>1. T \in SUBSET Nat
    OBVIOUS
  <2> HIDE DEF T
  <2> QED BY <2>1, Least
<1>2. n # 0
  <2> DEFINE h == [i \in 0..0 |-> << >>]
  <2>1. h = [i \in 0..0 |-> IF i = 0 THEN << >> ELSE IF s[i] \in gone THEN h[i - 1] ELSE Append(h[i - 1], s[i])]
    OBVIOUS
  <2> HIDE DEF h
  <2>2. Cutting(s, gone, 0, h)
    BY <2>1 DEF Cutting
  <2> QED BY <2>2
<1>3. n - 1 \in Nat /\ n - 1 < n
  BY <1>2
<1>4. PICK f : Cutting(s, gone, n - 1, f)
  BY <1>1, <1>3
<1> DEFINE h == [i \in 0..n |-> IF i = n THEN Next1(f[n - 1], s[n]) ELSE f[i]]
<1>5. ASSUME NEW i \in 0..n
      PROVE h[i] = IF i = 0 THEN << >> ELSE IF s[i] \in gone THEN h[i - 1] ELSE Append(h[i - 1], s[i])
  <2>1. CASE i = n
    BY <2>1, <1>2, <1>3
  <2>2. CASE i # n
    <3>1. i \in 0..(n - 1) /\ (i # 0 => i - 1 \in 0..n /\ i - 1 # n)
      BY <2>2, <1>3
    <3>2. h[i] = f[i] /\ (i # 0 => h[i - 1] = f[i - 1])
      BY <3>1, <2>2
    <3>3. f[i] = IF i = 0 THEN << >> ELSE IF s[i] \in gone THEN f[i - 1] ELSE Append(f[i - 1], s[i])
      BY <1>4, <3>1 DEF Cutting
    <3> HIDE DEF h
    <3> QED BY <3>1, <3>2, <3>3
  <2> QED BY <2>1, <2>2
<1>6. h = [i \in 0..n |-> h[i]]
  OBVIOUS
<1> HIDE DEF h
<1>7. Cutting(s, gone, n, h)
  BY <1>5, <1>6 DEF Cutting
<1> QED BY <1>7, <1>1

\* What is left of a list are its nodes but those.
LEMMA WithoutLeaves ==
  ASSUME NEW S, NEW s \in Seq(S), NEW gone
  PROVE  Without(s, gone) \in Seq(S) /\ Range(Without(s, gone)) = Range(s) \ gone
<1> DEFINE n == Len(s)
           First(i) == {s[j] : j \in 1..i} \ gone
<1>1. n \in Nat /\ (\A i \in 1..n : s[i] \in S) /\ DOMAIN s = 1..n
  OBVIOUS
<1>2. PICK f : Cutting(s, gone, n, f) /\ Without(s, gone) = f[n]
  <2>1. PICK f : Cutting(s, gone, n, f)
    BY <1>1, CuttingExists
  <2> QED BY <2>1 DEF Cutting, Without
<1> HIDE DEF n
<1> DEFINE T == {i \in 0..n : ~ (f[i] \in Seq(S) /\ Range(f[i]) = First(i))}
<1>3. T = {}
  <2> SUFFICES ASSUME T # {} PROVE FALSE
    OBVIOUS
  <2>1. PICK i \in T : \A k \in Nat : k < i => k \notin T
    <3>1. T \in SUBSET Nat
      BY <1>1
    <3> HIDE DEF T
    <3> QED BY <3>1, Least
  <2>2. i \in 0..n /\ f[i] = IF i = 0 THEN << >> ELSE IF s[i] \in gone THEN f[i - 1] ELSE Append(f[i - 1], s[i])
    BY <1>2 DEF Cutting
  <2>3. CASE i = 0
    <3>0. << >> \in Seq(S)
      OBVIOUS
    <3>1. f[i] = << >> /\ << >> \in Seq(S) /\ Range(<< >>) = {}
      BY <2>2, <2>3, <3>0, RangeEmpty
    <3>2. First(i) = {}
      BY <2>3
    <3> QED BY <2>1, <3>1, <3>2
  <2>4. CASE i # 0
    <3>1. i - 1 \in 0..n /\ i - 1 \in Nat /\ i - 1 < i /\ i \in 1..n
      BY <1>1, <2>2, <2>4
    <3>2. f[i - 1] \in Seq(S) /\ Range(f[i - 1]) = First(i - 1)
      BY <2>1, <3>1
    <3>3. {s[j] : j \in 1..i} = {s[j] : j \in 1..(i - 1)} \cup {s[i]}
      <4>1. \A j : j \in 1..i <=> (j \in 1..(i - 1) \/ j = i)
        BY <3>1
      <4> QED BY <4>1
    <3>4. f[i] \in Seq(S) /\ Range(f[i]) = First(i)
      <4>1. CASE s[i] \in gone
        BY <2>2, <2>4, <3>2, <3>3, <4>1
      <4>2. CASE s[i] \notin gone
        <5>1. f[i] = Append(f[i - 1], s[i]) /\ s[i] \in S
          BY <1>1, <2>2, <2>4, <3>1, <4>2
        <5>2. f[i] \in Seq(S) /\ Range(f[i]) = Range(f[i - 1]) \cup {s[i]}
          BY <3>2, <5>1, RangeAppend
        <5> QED BY <3>2, <3>3, <4>2, <5>2
      <4> QED BY <4>1, <4>2
    <3> QED BY <2>1, <3>4
  <2> QED BY <2>3, <2>4
<1>4. f[n] \in Seq(S) /\ Range(f[n]) = First(n)
  <2>1. n \in 0..n
    BY <1>1
  <2> QED BY <1>3, <2>1
<1>5. Range(s) = {s[j] : j \in 1..n}
  BY <1>1 DEF Range
<1> QED BY <1>2, <1>4, <1>5

-----------------------------------------------------------------------------
(* Types                                                                   *)
Plain == [t : {"select"}, db : DBs] \cup [t : {"cmd"}, id : Nat]
DataSet == Seq(Nat \X DBs)
Item == Plain \cup [t : {"rdb"}, snap : DataSet]
ReplState == {None, "WAIT_BGSAVE_START", "WAIT_BGSAVE_END", "SEND_BULK", "ONLINE"}
ClientRec == [replstate : ReplState, out : Seq(Item), file : DataSet]

LEMMA DBNumbers == DBs \subseteq Nat /\ 0 \in DBs /\ \A x \in DBs : x # -1
BY ReplicationAssumption

LEMMA NoConn == None \notin Conns
BY ReplicationAssumption DEF None

LEMMA Items ==
  /\ \A x \in DBs : Select(x) \in Plain /\ Select(x).t = "select" /\ Select(x).db = x
  /\ \A i \in Nat : Cmd(i) \in Plain /\ Cmd(i).t = "cmd" /\ Cmd(i).id = i
  /\ \A x \in DataSet : Load(x) \in Item /\ Load(x).t = "rdb" /\ Load(x).snap = x
  /\ Plain \subseteq Item
  /\ \A x \in Plain : x.t # "rdb" /\ (x.t = "select" => x.db \in DBs) /\ (x.t # "select" => x.t = "cmd" /\ x.id \in Nat)
BY DEF Select, Cmd, Load, Plain, Item

LEMMA PlainStreams == ASSUME NEW s \in Seq(Plain) PROVE s \in Seq(Item)
BY Items

LEMMA ReadsItem ==
  ASSUME NEW st
  PROVE  /\ \A x \in DBs : Reads(st, Select(x)) = <<st[1], x>>
         /\ \A i \in Nat : Reads(st, Cmd(i)) = <<Append(st[1], <<i, st[2]>>), st[2]>>
         /\ \A x \in DataSet : Reads(st, Load(x)) = <<x, 0>>
BY DEF Reads, Select, Cmd, Load

\* A write is appended to a stream, after a SELECT unless the reader is in its database.
FedEnds(out, st, x, id, sel) ==
  /\ out \o sel \o <<Cmd(id)>> \in Seq(Item) /\ out \o sel \o << >> \in Seq(Item)
  /\ Ending(out \o sel \o <<Cmd(id)>>, st)[1] = Append(Ending(out, st)[1], <<id, x>>)
  /\ Ending(out \o sel \o <<Cmd(id)>>, st)[2] = x
  /\ Ending(out \o sel \o << >>, st)[1] = Ending(out, st)[1]
  /\ Ending(out \o sel \o << >>, st)[2] = x

LEMMA EndingFed ==
  ASSUME NEW out \in Seq(Item), NEW st, NEW x \in DBs, NEW id \in Nat, NEW sel,
         sel = <<Select(x)>> \/ (sel = << >> /\ Ending(out, st)[2] = x)
  PROVE  FedEnds(out, st, x, id, sel)
<1> DEFINE with == out \o sel
<1>1. with \in Seq(Item) /\ with \o << >> = with /\ Cmd(id) \in Item /\ with \o <<Cmd(id)>> = Append(with, Cmd(id))
  <2>1. Select(x) \in Item /\ Cmd(id) \in Item
    BY Items
  <2>2. sel \in Seq(Item)
    <3>1. CASE sel = <<Select(x)>>
      BY <2>1, <3>1
    <3>2. CASE sel = << >>
      BY <3>2
    <3> QED BY <3>1, <3>2
  <2>3. with \in Seq(Item)
    BY <2>2
  <2> HIDE DEF with
  <2> QED BY <2>1, <2>3
<1>2. Ending(with, st)[1] = Ending(out, st)[1] /\ Ending(with, st)[2] = x
  <2>1. CASE sel = << >> /\ Ending(out, st)[2] = x
    BY <2>1
  <2>2. CASE sel = <<Select(x)>>
    <3>1. with = Append(out, Select(x)) /\ Select(x) \in Item
      BY <2>2, Items
    <3>2. Ending(with, st) = Reads(Ending(out, st), Select(x))
      BY <3>1, EndingAppend
    <3>3. Reads(Ending(out, st), Select(x)) = <<Ending(out, st)[1], x>>
      BY ReadsItem
    <3> HIDE DEF with
    <3> QED BY <3>2, <3>3
  <2> QED BY <2>1, <2>2
<1> HIDE DEF with
<1>3. Ending(Append(with, Cmd(id)), st) = Reads(Ending(with, st), Cmd(id))
  BY <1>1, EndingAppend
<1>4. Reads(Ending(with, st), Cmd(id)) = <<Append(Ending(out, st)[1], <<id, x>>), x>>
  BY <1>2, ReadsItem
<1>5. /\ with \o <<Cmd(id)>> \in Seq(Item) /\ with \o << >> \in Seq(Item)
      /\ Ending(with \o <<Cmd(id)>>, st) = <<Append(Ending(out, st)[1], <<id, x>>), x>>
      /\ Ending(with \o << >>, st) = Ending(with, st)
  <2>1. Append(with, Cmd(id)) \in Seq(Item)
    BY <1>1
  <2>2. PICK fed : fed = with \o <<Cmd(id)>>
    OBVIOUS
  <2>3. PICK same : same = with \o << >>
    OBVIOUS
  <2>4. fed = Append(with, Cmd(id)) /\ same = with
    BY <1>1, <2>2, <2>3
  <2> QED BY <1>1, <1>3, <1>4, <2>1, <2>2, <2>3, <2>4, Zenon
<1> QED BY <1>2, <1>5 DEF with, FedEnds

-----------------------------------------------------------------------------
(* Connections and what is on them                                         *)
SlaveState == {"CONNECT", "CONNECTING", "RECEIVE_PONG", "TRANSFER", "CONNECTED"}

MasterTypes ==
  /\ runid \in Nat /\ nwrites \in Nat /\ log \in DataSet /\ rdb \in DataSet
  /\ child \subseteq DataSet
  /\ repl_backlog \in BOOLEAN /\ hist \in Seq(Plain)
  /\ master_repl_offset \in Nat /\ slaveseldb \in DBs \cup {-1}
  /\ slaves \in Seq(Conns)
  /\ client \in [Conns -> ClientRec]

SlaveTypes ==
  /\ repl_state \in [Slaves -> SlaveState]
  /\ link \in [Slaves -> Conns \cup {None}]
  /\ data \in [Slaves -> DataSet]
  /\ cached \in [Slaves -> BOOLEAN]
  /\ reploff \in [Slaves -> Int]
  /\ replrunid \in [Slaves -> Nat]
  /\ db \in [Slaves -> DBs]
  /\ initial \in [Slaves -> [runid : Nat, off : Int]]
  /\ partial \in [Slaves -> BOOLEAN]

(* server.slaves lists the clients that are slaves; what they are sent     *)
(* before the file holds no file; there is a backlog to feed.              *)
Listed ==
  /\ Range(slaves) = {c \in Conns : client[c].replstate # None}
  /\ slaves # << >> => repl_backlog
  /\ ~ repl_backlog => hist = << >>
  /\ \A c \in Conns :
       /\ client[c].replstate = None => client[c] = NoClient
       /\ client[c].replstate \in {"WAIT_BGSAVE_START", "WAIT_BGSAVE_END", "SEND_BULK"} => client[c].out \in Seq(Plain)
  /\ \A x, y \in child : x = y

(* A connection has one slave at most; a slave that waits for a file finds *)
(* it in front of the stream, one that has it finds the stream alone.      *)
Linked ==
  /\ \A s, t \in Slaves : link[s] = link[t] /\ link[s] # None => s = t
  /\ \A s \in Slaves :
       /\ repl_state[s] \in {"TRANSFER", "CONNECTED"} <=> link[s] # None
       /\ cached[s] => link[s] = None
       /\ repl_state[s] = "TRANSFER" /\ Alive(s) =>
            /\ client[link[s]].out # << >> /\ Head(client[link[s]].out).t = "rdb"
            /\ Head(client[link[s]].out).snap \in DataSet /\ Tail(client[link[s]].out) \in Seq(Plain)
       /\ repl_state[s] = "CONNECTED" =>
            client[link[s]].replstate \in {None, "ONLINE"} /\ client[link[s]].out \in Seq(Plain)

Shape == MasterTypes /\ SlaveTypes /\ Listed /\ Linked

LEMMA NoClientRec == NoClient \in ClientRec /\ NoClient.replstate = None /\ NoClient.out \in Seq(Plain)
<1>1. << >> \in Seq(Item) /\ << >> \in DataSet /\ << >> \in Seq(Plain)
  BY DEF DataSet
<1> QED BY <1>1 DEF NoClient, ClientRec, ReplState

LEMMA ShapeInit == Init => Shape
<1> SUFFICES ASSUME Init PROVE Shape
  OBVIOUS
<1>1. MasterTypes
  <2>1. << >> \in Seq(Plain) /\ << >> \in DataSet /\ << >> \in Seq(Conns)
    BY DEF DataSet
  <2>2. client \in [Conns -> ClientRec]
    BY NoClientRec DEF Init
  <2> QED BY <2>1, <2>2 DEF Init, MasterTypes
<1>2. SlaveTypes
  <2>1. << >> \in DataSet
    BY DEF DataSet
  <2> QED BY <2>1, DBNumbers DEF Init, SlaveTypes, SlaveState
<1>3. Listed
  <2>1. Range(slaves) = {}
    BY RangeEmpty, <1>1 DEF Init, MasterTypes
  <2> QED BY <2>1, NoClientRec DEF Init, Listed, None
<1>4. Linked
  BY DEF Init, Linked
<1> QED BY <1>1, <1>2, <1>3, <1>4 DEF Shape

\* The fields of a client; what a set of connections keeps of its types.
LEMMA ClientFields ==
  ASSUME MasterTypes, NEW c \in Conns
  PROVE  /\ client[c] \in ClientRec /\ client[c].replstate \in ReplState
         /\ client[c].out \in Seq(Item) /\ client[c].file \in DataSet
BY DEF MasterTypes, ClientRec

-----------------------------------------------------------------------------
(* A write                                                                 *)
Sel(x) == IF slaveseldb # x THEN <<Select(x)>> ELSE << >>
Written == <<Cmd(nwrites + 1)>>

LEMMA FedStreams ==
  ASSUME MasterTypes, NEW x \in DBs
  PROVE  /\ \A out \in Seq(Plain) : /\ out \o Sel(x) \o Written \in Seq(Plain) /\ out \o Sel(x) \o << >> \in Seq(Plain)
                                    /\ out # << >> => out \o Sel(x) \o << >> # << >>
         /\ \A out \in Seq(Item) : /\ out \o Sel(x) \o Written \in Seq(Item) /\ out \o Sel(x) \o << >> \in Seq(Item)
<1>1. Select(x) \in Plain /\ Cmd(nwrites + 1) \in Plain /\ Plain \subseteq Item
  BY Items DEF MasterTypes
<1>2. /\ Sel(x) \in Seq(Plain) /\ Written \in Seq(Plain)
      /\ Sel(x) \in Seq(Item) /\ Written \in Seq(Item)
  BY <1>1 DEF Sel, Written
<1> QED BY <1>2

LEMMA RecentPlain == ASSUME NEW s \in Seq(Plain) PROVE Recent(s) \in Seq(Plain)
<1>1. BacklogSize \in Nat /\ BacklogSize # 0
  BY ReplicationAssumption
<1> QED BY <1>1 DEF Recent

LEMMA FedClients ==
  ASSUME MasterTypes, Listed, NEW x \in DBs, replicationFeedSlaves(x)
  PROVE  /\ log' = Append(log, <<nwrites + 1, x>>) /\ nwrites' = nwrites + 1
         /\ UNCHANGED <<runid, rdb, child, repl_backlog, slaves, svars>>
         /\ client' \in [Conns -> ClientRec]
         /\ \A c \in Conns :
              /\ client'[c].replstate = client[c].replstate /\ client'[c].file = client[c].file
              /\ client[c].replstate = None => client'[c] = client[c]
              /\ client[c].replstate \notin {None, "WAIT_BGSAVE_START"} => client'[c].out = client[c].out \o Sel(x) \o Written
              /\ client[c].replstate = "WAIT_BGSAVE_START" => client'[c].out = client[c].out \o Sel(x) \o << >>
         /\ IF ~ repl_backlog /\ slaves = << >> THEN UNCHANGED <<hist, master_repl_offset, slaveseldb>>
            ELSE /\ hist' = Recent(hist \o Sel(x) \o Written) /\ slaveseldb' = x
                 /\ master_repl_offset' = master_repl_offset + Len(Sel(x)) + 1
<1>1. CASE ~ repl_backlog /\ slaves = << >>
  <2>1. Range(slaves) = {}
    BY <1>1, RangeEmpty DEF MasterTypes
  <2>2. \A c \in Conns : client[c].replstate = None
    BY <2>1 DEF Listed
  <2>3. /\ UNCHANGED <<hist, master_repl_offset, slaveseldb, client>>
        /\ log' = Append(log, <<nwrites + 1, x>>) /\ nwrites' = nwrites + 1
        /\ UNCHANGED <<runid, rdb, child, repl_backlog, slaves, svars>>
    BY <1>1 DEF replicationFeedSlaves
  <2> QED BY <1>1, <2>2, <2>3 DEF MasterTypes, None
<1>2. CASE ~ (~ repl_backlog /\ slaves = << >>)
  <2>1. /\ log' = Append(log, <<nwrites + 1, x>>) /\ nwrites' = nwrites + 1
        /\ UNCHANGED <<runid, rdb, child, repl_backlog, slaves, svars>>
        /\ hist' = Recent(hist \o Sel(x) \o Written) /\ slaveseldb' = x
        /\ master_repl_offset' = master_repl_offset + Len(Sel(x)) + 1
        /\ client' = [c \in Conns |->
                        IF c \in Range(slaves) THEN [client[c] EXCEPT !.out = Fed(c, Sel(x), Written)] ELSE client[c]]
    BY <1>2 DEF replicationFeedSlaves, Sel, Written
  <2>2. ASSUME NEW c \in Conns
        PROVE /\ client'[c] \in ClientRec
              /\ client'[c].replstate = client[c].replstate /\ client'[c].file = client[c].file
              /\ client[c].replstate = None => client'[c] = client[c]
              /\ client[c].replstate \notin {None, "WAIT_BGSAVE_START"} => client'[c].out = client[c].out \o Sel(x) \o Written
              /\ client[c].replstate = "WAIT_BGSAVE_START" => client'[c].out = client[c].out \o Sel(x) \o << >>
    <3>0. client[c] \in ClientRec /\ client[c].out \in Seq(Item)
      BY ClientFields
    <3>1. CASE c \notin Range(slaves)
      BY <2>1, <3>0, <3>1 DEF Listed, None
    <3>2. CASE c \in Range(slaves)
      <4>1. client'[c] = [client[c] EXCEPT !.out = Fed(c, Sel(x), Written)]
        BY <2>1, <3>2
      <4>2. Fed(c, Sel(x), Written) \in Seq(Item)
        BY <3>0, FedStreams DEF Fed
      <4>3. client[c].replstate # None
        BY <3>2 DEF Listed
      <4>4. client'[c] \in ClientRec /\ client'[c].replstate = client[c].replstate /\ client'[c].file = client[c].file
            /\ client'[c].out = Fed(c, Sel(x), Written)
        BY <3>0, <4>1, <4>2 DEF ClientRec
      <4> QED BY <4>3, <4>4 DEF Fed
    <3> QED BY <3>1, <3>2
  <2>3. client' \in [Conns -> ClientRec]
    <3>1. client' = [c \in Conns |-> client'[c]]
      BY <2>1
    <3> QED BY <2>2, <3>1
  <2> QED BY <1>2, <2>1, <2>2, <2>3
<1> QED BY <1>1, <1>2

LEMMA FeedShape == ASSUME Shape, NEW x \in DBs, replicationFeedSlaves(x) PROVE Shape'
<1>1. MasterTypes /\ SlaveTypes /\ Listed /\ Linked
  BY DEF Shape
<1>3. MasterTypes'
  <2>1. /\ nwrites + 1 \in Nat /\ log \in DataSet
    BY <1>1 DEF MasterTypes
  <2>2. log' \in DataSet
    <3>1. log' = Append(log, <<nwrites + 1, x>>)
      BY <1>1, FedClients
    <3>2. <<nwrites + 1, x>> \in Nat \X DBs
      BY <2>1
    <3> QED BY <2>1, <3>1, <3>2 DEF DataSet
  <2>3. hist' \in Seq(Plain) /\ master_repl_offset' \in Nat /\ slaveseldb' \in DBs \cup {-1}
    <3>1. Recent(hist \o Sel(x) \o Written) \in Seq(Plain) /\ Len(Sel(x)) \in Nat
      <4>1. Len(Sel(x)) \in Nat
        BY DEF Sel
      <4> QED BY <1>1, <4>1, FedStreams, RecentPlain DEF MasterTypes
    <3>2. \/ UNCHANGED <<hist, master_repl_offset, slaveseldb>>
          \/ /\ hist' = Recent(hist \o Sel(x) \o Written) /\ slaveseldb' = x
             /\ master_repl_offset' = master_repl_offset + Len(Sel(x)) + 1
      BY <1>1, FedClients
    <3>3. hist \in Seq(Plain) /\ master_repl_offset \in Nat /\ slaveseldb \in DBs \cup {-1}
      BY <1>1 DEF MasterTypes
    <3>4. CASE UNCHANGED <<hist, master_repl_offset, slaveseldb>>
      BY <3>3, <3>4
    <3>5. CASE /\ hist' = Recent(hist \o Sel(x) \o Written) /\ slaveseldb' = x
               /\ master_repl_offset' = master_repl_offset + Len(Sel(x)) + 1
      <4>1. master_repl_offset + Len(Sel(x)) + 1 \in Nat
        BY <3>1, <3>3
      <4> QED BY <3>1, <3>5, <4>1
    <3> QED BY <3>2, <3>4, <3>5
  <2> QED BY <1>1, <2>1, <2>2, <2>3, FedClients DEF MasterTypes
<1>4. SlaveTypes'
  BY <1>1, FedClients DEF SlaveTypes, svars
<1>5. Listed'
  <2>1. \A c \in Conns : client[c].replstate \in {"WAIT_BGSAVE_START", "WAIT_BGSAVE_END", "SEND_BULK"} => client'[c].out \in Seq(Plain)
    BY <1>1, FedClients, FedStreams DEF Listed, None
  <2>2. ~ repl_backlog' => hist' = << >>
    BY <1>1, FedClients DEF Listed
  <2> QED BY <1>1, <2>1, <2>2, FedClients DEF Listed
<1>6. Linked'
  <2>1. UNCHANGED <<link, repl_state, cached>>
    BY <1>1, FedClients DEF svars
  <2>2. ASSUME NEW s \in Slaves, link[s] # None
        PROVE /\ repl_state[s] = "TRANSFER" /\ client'[link[s]].replstate = "ONLINE" =>
                   /\ client'[link[s]].out # << >> /\ Head(client'[link[s]].out).t = "rdb"
                   /\ Head(client'[link[s]].out).snap \in DataSet /\ Tail(client'[link[s]].out) \in Seq(Plain)
              /\ repl_state[s] = "CONNECTED" =>
                   client'[link[s]].replstate \in {None, "ONLINE"} /\ client'[link[s]].out \in Seq(Plain)
    <3> DEFINE c == link[s]
    <3>1. c \in Conns /\ client'[c].replstate = client[c].replstate /\ client[c].out \in Seq(Item)
      BY <1>1, <2>2, FedClients, ClientFields DEF SlaveTypes
    <3>2. CASE client[c].replstate = "ONLINE"
      <4>1. client'[c].out = client[c].out \o Sel(x) \o Written
        BY <1>1, <3>1, <3>2, FedClients DEF None
      <4>2. CASE repl_state[s] = "TRANSFER"
        <5>1. /\ client[c].out # << >> /\ Head(client[c].out).t = "rdb"
              /\ Head(client[c].out).snap \in DataSet /\ Tail(client[c].out) \in Seq(Plain)
          BY <1>1, <2>2, <3>2, <4>2 DEF Linked, Alive
        <5>2. Sel(x) \in Seq(Item) /\ Written \in Seq(Item)
          BY <1>1, Items DEF Sel, Written, MasterTypes
        <5>3. \A out \in Seq(Item) : out # << >> => /\ out \o Sel(x) \o Written # << >>
                                                     /\ Head(out \o Sel(x) \o Written) = Head(out)
                                                     /\ Tail(out \o Sel(x) \o Written) = Tail(out) \o Sel(x) \o Written
          BY <5>2
        <5>4. Tail(client[c].out) \o Sel(x) \o Written \in Seq(Plain)
          BY <1>1, <5>1, FedStreams
        <5>5. /\ client'[c].out # << >> /\ Head(client'[c].out) = Head(client[c].out)
              /\ Tail(client'[c].out) = Tail(client[c].out) \o Sel(x) \o Written
          BY <3>1, <4>1, <5>1, <5>3
        <5> QED BY <4>2, <5>1, <5>4, <5>5
      <4>3. CASE repl_state[s] = "CONNECTED"
        BY <1>1, <3>1, <3>2, <4>1, <4>3, FedStreams DEF Linked
      <4> QED BY <4>2, <4>3
    <3>3. CASE client[c].replstate # "ONLINE"
      BY <1>1, <3>1, <3>3, FedClients DEF Linked
    <3> QED BY <3>2, <3>3
  <2> QED BY <1>1, <2>1, <2>2 DEF Linked, Alive
<1> QED BY <1>3, <1>4, <1>5, <1>6 DEF Shape

-----------------------------------------------------------------------------
(* The other steps of the master                                           *)
Others == UNCHANGED <<runid, log, nwrites, repl_backlog, hist, master_repl_offset, slaveseldb, svars>>

LEMMA SaveDone ==
  ASSUME MasterTypes, Listed, NEW how \in {"saved", "error", "killed"}, NEW forked \in BOOLEAN,
         backgroundSaveDoneHandler(how, forked)
  PROVE  /\ how = "killed" => ChildMayBeKilled
         /\ ~ forked => ForkMayFail
         /\ how = "saved" => rdb' \in child
         /\ child # {} /\ rdb' \in DataSet /\ Others
         /\ slaves' \in Seq(Conns)
         /\ Range(slaves') = IF how = "error" THEN Range(slaves) \ Waiting("WAIT_BGSAVE_END") ELSE Range(slaves)
         /\ client' \in [Conns -> ClientRec]
         /\ \A c \in Conns :
              /\ client[c].replstate = "WAIT_BGSAVE_END" /\ how = "error" => client'[c] = NoClient
              /\ client[c].replstate = "WAIT_BGSAVE_END" /\ how # "error" =>
                   client'[c] = [replstate |-> "SEND_BULK", out |-> client[c].out, file |-> rdb']
              /\ client[c].replstate = "WAIT_BGSAVE_START" =>
                   client'[c] = [replstate |-> "WAIT_BGSAVE_END", out |-> client[c].out, file |-> client[c].file]
              /\ client[c].replstate \notin {"WAIT_BGSAVE_START", "WAIT_BGSAVE_END"} => client'[c] = client[c]
         /\ child' = IF Waiting("WAIT_BGSAVE_START") = {} \/ ~ forked THEN {} ELSE {log}
<1> DEFINE ok == how # "error"
           gone == IF ok THEN {} ELSE Waiting("WAIT_BGSAVE_END")
           Client(c) == CASE c \in gone -> NoClient
             [] c \in Waiting("WAIT_BGSAVE_START") -> [client[c] EXCEPT !.replstate = "WAIT_BGSAVE_END"]
             [] c \in Waiting("WAIT_BGSAVE_END") \ gone -> [client[c] EXCEPT !.replstate = "SEND_BULK", !.file = rdb']
             [] OTHER -> client[c]
<1>1. PICK snap \in child : rdb' = (IF how = "saved" THEN snap ELSE rdb) /\ updateSlavesWaitingBgsave(ok, rdb', forked)
  BY DEF backgroundSaveDoneHandler
<1>2. Others /\ (how = "killed" => ChildMayBeKilled) /\ (~ forked => ForkMayFail)
  BY DEF backgroundSaveDoneHandler, Others
<1>3. rdb' \in DataSet /\ (how = "saved" => rdb' \in child) /\ child # {}
  BY <1>1 DEF MasterTypes
<1>4. /\ slaves' = Without(slaves, gone)
      /\ client' = [c \in Conns |-> Client(c)]
      /\ child' = IF Waiting("WAIT_BGSAVE_START") = {} \/ ~ forked THEN {} ELSE {log}
  BY <1>1 DEF updateSlavesWaitingBgsave, rdbSaveBackground
<1>5. slaves' \in Seq(Conns) /\ Range(slaves') = Range(slaves) \ gone
  BY <1>4, WithoutLeaves DEF MasterTypes
<1>6. ASSUME NEW c \in Conns
      PROVE /\ client'[c] \in ClientRec
            /\ client[c].replstate = "WAIT_BGSAVE_END" /\ how = "error" => client'[c] = NoClient
            /\ client[c].replstate = "WAIT_BGSAVE_END" /\ how # "error" =>
                 client'[c] = [replstate |-> "SEND_BULK", out |-> client[c].out, file |-> rdb']
            /\ client[c].replstate = "WAIT_BGSAVE_START" =>
                 client'[c] = [replstate |-> "WAIT_BGSAVE_END", out |-> client[c].out, file |-> client[c].file]
            /\ client[c].replstate \notin {"WAIT_BGSAVE_START", "WAIT_BGSAVE_END"} => client'[c] = client[c]
  <2>1. /\ client[c] \in ClientRec /\ client[c].replstate \in ReplState
        /\ c \in Waiting("WAIT_BGSAVE_START") <=> client[c].replstate = "WAIT_BGSAVE_START"
        /\ c \in Waiting("WAIT_BGSAVE_END") <=> client[c].replstate = "WAIT_BGSAVE_END"
    BY ClientFields DEF Listed, Waiting, None
  <2>2. client'[c] = Client(c)
    BY <1>4
  <2>3. CASE client[c].replstate = "WAIT_BGSAVE_END"
    <3>1. CASE how = "error"
      BY <2>1, <2>2, <2>3, <3>1, NoClientRec
    <3>2. CASE how # "error"
      <4>1. client'[c] = [client[c] EXCEPT !.replstate = "SEND_BULK", !.file = rdb']
        BY <2>1, <2>2, <2>3, <3>2
      <4> QED BY <1>3, <2>1, <2>3, <3>2, <4>1 DEF ClientRec, ReplState
    <3> QED BY <3>1, <3>2
  <2>4. CASE client[c].replstate = "WAIT_BGSAVE_START"
    <3>1. client'[c] = [client[c] EXCEPT !.replstate = "WAIT_BGSAVE_END"]
      BY <2>1, <2>2, <2>4
    <3> QED BY <2>1, <2>4, <3>1 DEF ClientRec, ReplState
  <2>5. CASE client[c].replstate \notin {"WAIT_BGSAVE_START", "WAIT_BGSAVE_END"}
    BY <2>1, <2>2, <2>5
  <2> QED BY <2>3, <2>4, <2>5
<1>7. client' \in [Conns -> ClientRec]
  <2> HIDE DEF Client
  <2>1. client' = [c \in Conns |-> client'[c]]
    BY <1>4
  <2> QED BY <1>6, <2>1
<1> QED BY <1>2, <1>3, <1>4, <1>5, <1>6, <1>7

LEMMA SaveDoneShape ==
  ASSUME Shape, NEW how \in {"saved", "error", "killed"}, NEW forked \in BOOLEAN, backgroundSaveDoneHandler(how, forked)
  PROVE  Shape'
<1>1. MasterTypes /\ SlaveTypes /\ Listed /\ Linked
  BY DEF Shape
<1>2. MasterTypes'
  BY <1>1, SaveDone DEF MasterTypes, Others
<1>3. SlaveTypes'
  BY <1>1, SaveDone DEF SlaveTypes, Others, svars
<1>4. ASSUME NEW c \in Conns
      PROVE \/ client[c].replstate \notin {"WAIT_BGSAVE_START", "WAIT_BGSAVE_END"} /\ client'[c] = client[c]
            \/ client[c].replstate = "WAIT_BGSAVE_END" /\ how = "error" /\ client'[c] = NoClient
            \/ /\ client[c].replstate = "WAIT_BGSAVE_END" /\ how # "error"
               /\ client'[c].replstate = "SEND_BULK" /\ client'[c].out = client[c].out
            \/ /\ client[c].replstate = "WAIT_BGSAVE_START"
               /\ client'[c].replstate = "WAIT_BGSAVE_END" /\ client'[c].out = client[c].out
  <2>1. /\ client[c].replstate = "WAIT_BGSAVE_END" /\ how = "error" => client'[c] = NoClient
        /\ client[c].replstate = "WAIT_BGSAVE_END" /\ how # "error" =>
             client'[c] = [replstate |-> "SEND_BULK", out |-> client[c].out, file |-> rdb']
        /\ client[c].replstate = "WAIT_BGSAVE_START" =>
             client'[c] = [replstate |-> "WAIT_BGSAVE_END", out |-> client[c].out, file |-> client[c].file]
        /\ client[c].replstate \notin {"WAIT_BGSAVE_START", "WAIT_BGSAVE_END"} => client'[c] = client[c]
    BY <1>1, SaveDone
  <2> QED BY <2>1
<1>5. Listed'
  <2>1. Range(slaves') = {c \in Conns : client'[c].replstate # None}
    <3>1. \A c \in Conns : client'[c].replstate # None <=>
                             client[c].replstate # None /\ ~ (how = "error" /\ client[c].replstate = "WAIT_BGSAVE_END")
      BY <1>4, NoClientRec DEF None
    <3>2. Waiting("WAIT_BGSAVE_END") = {c \in Conns : client[c].replstate = "WAIT_BGSAVE_END"}
      BY <1>1 DEF Waiting, Listed, None
    <3>3. Range(slaves') = IF how = "error" THEN Range(slaves) \ Waiting("WAIT_BGSAVE_END") ELSE Range(slaves)
      BY <1>1, SaveDone
    <3> QED BY <1>1, <3>1, <3>2, <3>3 DEF Listed
  <2>2. slaves' # << >> => repl_backlog'
    <3>1. slaves' # << >> => slaves # << >>
      <4>1. Range(slaves') \subseteq Range(slaves)
        BY <1>1, SaveDone
      <4> QED BY <1>1, <1>2, <4>1, RangeEmpty DEF MasterTypes
    <3> QED BY <1>1, <3>1, SaveDone DEF Listed, Others
  <2>3. ASSUME NEW c \in Conns
        PROVE /\ client'[c].replstate = None => client'[c] = NoClient
              /\ client'[c].replstate \in {"WAIT_BGSAVE_START", "WAIT_BGSAVE_END", "SEND_BULK"} => client'[c].out \in Seq(Plain)
    BY <1>1, <1>4, NoClientRec DEF Listed, None
  <2>4. \A x, y \in child' : x = y
    BY <1>1, SaveDone
  <2>5. ~ repl_backlog' => hist' = << >>
    BY <1>1, SaveDone DEF Listed, Others
  <2> QED BY <2>1, <2>2, <2>3, <2>4, <2>5 DEF Listed
<1>6. Linked'
  <2>1. UNCHANGED <<link, repl_state, cached>>
    BY <1>1, SaveDone DEF Others, svars
  <2>2. \A c \in Conns : client'[c].replstate \in {None, "ONLINE"} => client'[c] = client[c] \/ client'[c] = NoClient
    BY <1>4 DEF None
  <2>3. ASSUME NEW s \in Slaves, link[s] # None
        PROVE /\ repl_state[s] = "TRANSFER" /\ client'[link[s]].replstate = "ONLINE" => client'[link[s]] = client[link[s]]
              /\ repl_state[s] = "CONNECTED" => client'[link[s]] = client[link[s]]
    <3>1. link[s] \in Conns
      BY <1>1, <2>3 DEF SlaveTypes
    <3> QED BY <1>1, <1>4, <2>3, <3>1, NoClientRec DEF Linked, None
  <2> QED BY <1>1, <2>1, <2>3 DEF Linked, Alive
<1> QED BY <1>2, <1>3, <1>5, <1>6 DEF Shape

LEMMA BgsaveShape == ASSUME Shape, bgsaveCommand PROVE Shape'
<1>1. /\ child' = {log}
      /\ UNCHANGED <<runid, log, nwrites, rdb, repl_backlog, hist, master_repl_offset, slaveseldb, slaves, client, svars>>
  BY DEF bgsaveCommand, rdbSaveBackground
<1> QED BY <1>1 DEF Shape, MasterTypes, SlaveTypes, Listed, Linked, Alive, svars

LEMMA SendBulk ==
  ASSUME MasterTypes, Listed, NEW c \in Conns, sendBulkToSlave(c)
  PROVE  /\ client[c].replstate = "SEND_BULK" /\ client[c].out \in Seq(Plain) /\ client[c].file \in DataSet
         /\ client' \in [Conns -> ClientRec]
         /\ \A x \in Conns : x # c => client'[x] = client[x]
         /\ client'[c].replstate = "ONLINE" /\ client'[c].out # << >>
         /\ Head(client'[c].out) = Load(client[c].file) /\ Tail(client'[c].out) = client[c].out
         /\ UNCHANGED <<runid, log, nwrites, rdb, child, repl_backlog, hist, master_repl_offset, slaveseldb, slaves, svars>>
<1> DEFINE whole == <<Load(client[c].file)>> \o client[c].out
           new == [replstate |-> "ONLINE", file |-> << >>, out |-> whole]
<1>1. /\ client[c].replstate = "SEND_BULK" /\ client' = [client EXCEPT ![c] = new]
      /\ UNCHANGED <<runid, log, nwrites, rdb, child, repl_backlog, hist, master_repl_offset, slaveseldb, slaves, svars>>
  BY DEF sendBulkToSlave
<1>2. client[c].out \in Seq(Plain) /\ client[c].file \in DataSet
  BY <1>1, ClientFields DEF Listed
<1>3. Load(client[c].file) \in Item
  BY <1>2, Items
<1>4. whole \in Seq(Item) /\ whole # << >> /\ Head(whole) = Load(client[c].file) /\ Tail(whole) = client[c].out
  BY <1>2, <1>3, PlainStreams
<1> HIDE DEF whole
<1>5. new \in ClientRec
  <2>1. << >> \in DataSet
    BY DEF DataSet
  <2> QED BY <1>4, <2>1 DEF ClientRec, ReplState
<1>6. client' \in [Conns -> ClientRec] /\ client'[c] = new /\ \A x \in Conns : x # c => client'[x] = client[x]
  BY <1>1, <1>5 DEF MasterTypes
<1> QED BY <1>1, <1>2, <1>4, <1>6

LEMMA SendBulkShape == ASSUME Shape, NEW c \in Conns, sendBulkToSlave(c) PROVE Shape'
<1>1. MasterTypes /\ SlaveTypes /\ Listed /\ Linked
  BY DEF Shape
<1>2. MasterTypes'
  BY <1>1, SendBulk DEF MasterTypes
<1>3. SlaveTypes'
  BY <1>1, SendBulk DEF SlaveTypes, svars
<1>4. Listed'
  <2>1. \A x \in Conns : client'[x].replstate # None <=> client[x].replstate # None
    BY <1>1, SendBulk DEF None
  <2>2. Range(slaves') = {x \in Conns : client'[x].replstate # None}
    BY <1>1, <2>1, SendBulk DEF Listed
  <2>3. ASSUME NEW x \in Conns
        PROVE /\ client'[x].replstate = None => client'[x] = NoClient
              /\ client'[x].replstate \in {"WAIT_BGSAVE_START", "WAIT_BGSAVE_END", "SEND_BULK"} => client'[x].out \in Seq(Plain)
    BY <1>1, SendBulk DEF Listed, None
  <2> QED BY <1>1, <2>2, <2>3, SendBulk DEF Listed
<1>5. Linked'
  <2>1. UNCHANGED <<link, repl_state, cached>>
    BY <1>1, SendBulk DEF svars
  <2>2. ASSUME NEW s \in Slaves, link[s] # None
        PROVE /\ repl_state[s] = "TRANSFER" /\ client'[link[s]].replstate = "ONLINE" =>
                   /\ client'[link[s]].out # << >> /\ Head(client'[link[s]].out).t = "rdb"
                   /\ Head(client'[link[s]].out).snap \in DataSet /\ Tail(client'[link[s]].out) \in Seq(Plain)
              /\ repl_state[s] = "CONNECTED" => client'[link[s]] = client[link[s]]
    <3>1. link[s] \in Conns
      BY <1>1, <2>2 DEF SlaveTypes
    <3>2. CASE link[s] # c
      BY <1>1, <2>2, <3>1, <3>2, SendBulk DEF Linked, Alive
    <3>3. CASE link[s] = c
      <4>1. repl_state[s] # "CONNECTED"
        BY <1>1, <3>3, SendBulk DEF Linked, None
      <4>2. Head(client'[c].out).t = "rdb" /\ Head(client'[c].out).snap = client[c].file
        BY <1>1, SendBulk, Items
      <4> QED BY <1>1, <3>3, <4>1, <4>2, SendBulk
    <3> QED BY <3>2, <3>3
  <2> QED BY <1>1, <2>1, <2>2 DEF Linked, Alive
<1> QED BY <1>2, <1>3, <1>4, <1>5 DEF Shape

LEMMA Freed ==
  ASSUME MasterTypes, NEW c \in Conns, freeClient(c)
  PROVE  /\ client' \in [Conns -> ClientRec] /\ client'[c] = NoClient
         /\ \A x \in Conns : x # c => client'[x] = client[x]
         /\ slaves' \in Seq(Conns) /\ Range(slaves') = Range(slaves) \ {c}
         /\ UNCHANGED <<runid, log, nwrites, rdb, child, repl_backlog, hist, master_repl_offset, slaveseldb, svars>>
<1>1. /\ slaves' = Without(slaves, {c}) /\ client' = [client EXCEPT ![c] = NoClient]
      /\ UNCHANGED <<runid, log, nwrites, rdb, child, repl_backlog, hist, master_repl_offset, slaveseldb, svars>>
  BY DEF freeClient
<1>2. slaves' \in Seq(Conns) /\ Range(slaves') = Range(slaves) \ {c}
  BY <1>1, WithoutLeaves DEF MasterTypes
<1> QED BY <1>1, <1>2, NoClientRec DEF MasterTypes

LEMMA FreedShape == ASSUME Shape, NEW c \in Conns, freeClient(c) PROVE Shape'
<1>1. MasterTypes /\ SlaveTypes /\ Listed /\ Linked
  BY DEF Shape
<1>2. MasterTypes'
  BY <1>1, Freed DEF MasterTypes
<1>3. SlaveTypes'
  BY <1>1, Freed DEF SlaveTypes, svars
<1>4. Listed'
  <2>1. Range(slaves') = {x \in Conns : client'[x].replstate # None}
    BY <1>1, Freed, NoClientRec DEF Listed
  <2>2. slaves' # << >> => slaves # << >>
    BY <1>1, <1>2, Freed, RangeEmpty DEF MasterTypes
  <2>3. ASSUME NEW x \in Conns
        PROVE /\ client'[x].replstate = None => client'[x] = NoClient
              /\ client'[x].replstate \in {"WAIT_BGSAVE_START", "WAIT_BGSAVE_END", "SEND_BULK"} => client'[x].out \in Seq(Plain)
    BY <1>1, Freed, NoClientRec DEF Listed, None
  <2> QED BY <1>1, <2>1, <2>2, <2>3, Freed DEF Listed
<1>5. Linked'
  <2>1. UNCHANGED <<link, repl_state, cached>>
    BY <1>1, Freed DEF svars
  <2>2. \A x \in Conns : client'[x] = client[x] \/ client'[x] = NoClient
    BY <1>1, Freed
  <2> QED BY <1>1, <2>1, <2>2, NoClientRec DEF Linked, Alive, SlaveTypes, None
<1> QED BY <1>2, <1>3, <1>4, <1>5 DEF Shape

LEMMA BacklogFreedShape == ASSUME Shape, freeReplicationBacklog PROVE Shape'
<1>1. << >> \in Seq(Plain)
  OBVIOUS
<1> QED BY <1>1 DEF freeReplicationBacklog, Shape, MasterTypes, SlaveTypes, Listed, Linked, Alive, svars

LEMMA RestartShape == ASSUME Shape, MasterRestart PROVE Shape'
<1>1. /\ runid' = runid + 1 /\ log' = rdb /\ child' = {} /\ repl_backlog' = FALSE /\ hist' = << >>
      /\ master_repl_offset' = 0 /\ slaveseldb' = -1 /\ slaves' = << >> /\ client' = [c \in Conns |-> NoClient]
      /\ UNCHANGED <<nwrites, rdb, svars>>
  BY DEF MasterRestart
<1>2. << >> \in Seq(Plain) /\ << >> \in Seq(Conns)
  OBVIOUS
<1>3. MasterTypes'
  <2>1. client' \in [Conns -> ClientRec]
    BY <1>1, NoClientRec
  <2>2. runid' \in Nat /\ nwrites' \in Nat /\ log' \in DataSet /\ rdb' \in DataSet
    BY <1>1 DEF Shape, MasterTypes
  <2> QED BY <1>1, <1>2, <2>1, <2>2 DEF MasterTypes
<1>4. SlaveTypes'
  BY <1>1 DEF Shape, SlaveTypes, svars
<1>5. Listed'
  <2>1. Range(slaves') = {}
    BY <1>1, <1>2, RangeEmpty
  <2> QED BY <1>1, <2>1, NoClientRec DEF Listed, None
<1>6. Linked'
  <2>1. \A s \in Slaves : link[s] # None => client'[link[s]] = NoClient
    BY <1>1 DEF Shape, SlaveTypes
  <2> QED BY <1>1, <2>1, NoClientRec DEF Shape, Linked, Alive, svars, None
<1> QED BY <1>3, <1>4, <1>5, <1>6 DEF Shape

-----------------------------------------------------------------------------
(* A slave asks for a resynchronisation                                    *)

LEMMA NewSlave ==
  ASSUME MasterTypes, Listed, NEW c \in Conns, client[c] = NoClient,
         NEW new \in ClientRec, new.replstate # None,
         client' = [client EXCEPT ![c] = new], slaves' = Append(slaves, c)
  PROVE  /\ client' \in [Conns -> ClientRec] /\ client'[c] = new
         /\ \A x \in Conns : x # c => client'[x] = client[x]
         /\ slaves' \in Seq(Conns) /\ slaves' # << >>
         /\ Range(slaves') = {x \in Conns : client'[x].replstate # None}
<1>1. /\ client' \in [Conns -> ClientRec] /\ client'[c] = new
      /\ \A x \in Conns : x # c => client'[x] = client[x]
  BY DEF MasterTypes
<1>2. slaves' \in Seq(Conns) /\ Range(slaves') = Range(slaves) \cup {c} /\ slaves' # << >>
  BY RangeAppend DEF MasterTypes
<1> QED BY <1>1, <1>2 DEF Listed

LEMMA PartialAccepted ==
  ASSUME MasterTypes, Listed, NEW s \in Slaves, reploff[s] \in Int, NEW c \in Conns, client[c] = NoClient, AcceptPartial(s, c)
  PROVE  /\ CanPartialResync(s)
         /\ client' \in [Conns -> ClientRec]
         /\ client'[c].replstate = "ONLINE" /\ client'[c].out \in Seq(Plain)
         /\ client'[c].out = SubSeq(hist, (reploff[s] + 1) - repl_backlog_off + 1, Len(hist))
         /\ \A x \in Conns : x # c => client'[x] = client[x]
         /\ slaves' \in Seq(Conns) /\ slaves' # << >>
         /\ Range(slaves') = {x \in Conns : client'[x].replstate # None}
         /\ UNCHANGED <<runid, log, nwrites, rdb, child, repl_backlog, hist, master_repl_offset, slaveseldb>>
<1> DEFINE rest == SubSeq(hist, (reploff[s] + 1) - repl_backlog_off + 1, Len(hist))
           new == [replstate |-> "ONLINE", file |-> << >>, out |-> rest]
<1>1. /\ CanPartialResync(s) /\ slaves' = Append(slaves, c) /\ client' = [client EXCEPT ![c] = new]
      /\ UNCHANGED <<runid, log, nwrites, rdb, child, repl_backlog, hist, master_repl_offset, slaveseldb>>
  <2>1. psync_offset(s) = reploff[s] + 1
    BY DEF psync_offset
  <2>2. /\ CanPartialResync(s) /\ slaves' = Append(slaves, c)
        /\ UNCHANGED <<runid, log, nwrites, rdb, child, repl_backlog, hist, master_repl_offset, slaveseldb>>
    BY DEF AcceptPartial
  <2>3. client' = [client EXCEPT ![c] =
                  [replstate |-> "ONLINE", file |-> << >>,
                   out |-> SubSeq(hist, psync_offset(s) - repl_backlog_off + 1, Len(hist))]]
    BY DEF AcceptPartial
  <2>4. SubSeq(hist, psync_offset(s) - repl_backlog_off + 1, Len(hist)) = rest
    BY <2>1
  <2> QED BY <2>2, <2>3, <2>4
<1>2. rest \in Seq(Plain)
  <2>1. reploff[s] + 1 >= repl_backlog_off /\ repl_backlog_off \in Int /\ hist \in Seq(Plain)
    BY <1>1 DEF CanPartialResync, psync_offset, repl_backlog_off, MasterTypes
  <2> HIDE DEF new
  <2> QED BY <2>1
<1> HIDE DEF rest
<1>3. new \in ClientRec /\ new.replstate # None
  <2>1. rest \in Seq(Item) /\ << >> \in DataSet
    BY <1>2, PlainStreams DEF DataSet
  <2> QED BY <2>1 DEF ClientRec, ReplState, None
<1>4. new.replstate = "ONLINE" /\ new.out = rest
  OBVIOUS
<1> HIDE DEF new
<1> QED BY <1>1, <1>2, <1>3, <1>4, NewSlave DEF rest

LEMMA CopiedBuffer ==
  ASSUME MasterTypes, Listed, Waiting("WAIT_BGSAVE_END") # {}
  PROVE  \E x \in Conns : client[x].replstate = "WAIT_BGSAVE_END" /\ copyClientOutputBuffer = client[x].out
<1> DEFINE First(i) == /\ i \in DOMAIN slaves /\ client[slaves[i]].replstate = "WAIT_BGSAVE_END"
                       /\ \A j \in 1..(i - 1) : client[slaves[j]].replstate # "WAIT_BGSAVE_END"
           T == {i \in DOMAIN slaves : client[slaves[i]].replstate = "WAIT_BGSAVE_END"}
<1>1. DOMAIN slaves = 1..Len(slaves) /\ Len(slaves) \in Nat /\ \A i \in DOMAIN slaves : slaves[i] \in Conns
  BY DEF MasterTypes
<1>2. T # {}
  BY DEF Waiting, Range
<1>3. PICK i \in T : \A k \in Nat : k < i => k \notin T
  <2>1. T \in SUBSET Nat
    BY <1>1
  <2> HIDE DEF T
  <2> QED BY <1>2, <2>1, Least
<1>4. First(i)
  <2>1. ASSUME NEW j \in 1..(i - 1) PROVE client[slaves[j]].replstate # "WAIT_BGSAVE_END"
    <3>1. j \in DOMAIN slaves /\ j \in Nat /\ j < i
      BY <1>1, <1>3
    <3> QED BY <1>3, <3>1
  <2> QED BY <1>3, <2>1
<1>5. PICK k : k = (CHOOSE n \in DOMAIN slaves : /\ client[slaves[n]].replstate = "WAIT_BGSAVE_END"
                                                 /\ \A j \in 1..(n - 1) : client[slaves[j]].replstate # "WAIT_BGSAVE_END")
  OBVIOUS
<1>6. First(k)
  BY <1>4, <1>5
<1>7. copyClientOutputBuffer = client[slaves[k]].out
  BY <1>5 DEF copyClientOutputBuffer
<1> QED BY <1>1, <1>6, <1>7

LEMMA FullAccepted ==
  ASSUME MasterTypes, Listed, NEW c \in Conns, client[c] = NoClient, AcceptFull(c)
  PROVE  /\ client' \in [Conns -> ClientRec]
         /\ client'[c].out \in Seq(Plain)
         /\ \/ /\ child = {} /\ child' = {log}
               /\ client'[c].replstate = "WAIT_BGSAVE_END" /\ client'[c].out = << >>
            \/ /\ child # {} /\ child' = child /\ client'[c].replstate = "WAIT_BGSAVE_END"
               /\ \E x \in Conns : x # c /\ client[x].replstate = "WAIT_BGSAVE_END" /\ client'[c].out = client[x].out
            \/ /\ child # {} /\ child' = child
               /\ client'[c].replstate = "WAIT_BGSAVE_START" /\ client'[c].out = << >>
         /\ \A x \in Conns : x # c => client'[x] = client[x]
         /\ slaves' \in Seq(Conns) /\ slaves' # << >>
         /\ Range(slaves') = {x \in Conns : client'[x].replstate # None}
         /\ slaveseldb' = -1 /\ repl_backlog' = TRUE /\ hist' = hist
         /\ master_repl_offset' = master_repl_offset + IF repl_backlog THEN 0 ELSE 1
         /\ UNCHANGED <<runid, log, nwrites, rdb>>
<1> DEFINE state == IF child = {} \/ Waiting("WAIT_BGSAVE_END") # {} THEN "WAIT_BGSAVE_END" ELSE "WAIT_BGSAVE_START"
           out == IF child # {} /\ Waiting("WAIT_BGSAVE_END") # {} THEN copyClientOutputBuffer ELSE << >>
<1>1. /\ state \in {"WAIT_BGSAVE_END", "WAIT_BGSAVE_START"}
      /\ client' = [client EXCEPT ![c] = [replstate |-> state, file |-> << >>, out |-> out]]
      /\ \/ child = {} /\ state = "WAIT_BGSAVE_END" /\ out = << >> /\ child' = {log}
         \/ /\ child # {} /\ child' = child /\ state = "WAIT_BGSAVE_END"
            /\ Waiting("WAIT_BGSAVE_END") # {} /\ out = copyClientOutputBuffer
         \/ child # {} /\ child' = child /\ state = "WAIT_BGSAVE_START" /\ out = << >>
  <2>1. CASE child = {}
    BY <2>1 DEF AcceptFull, rdbSaveBackground
  <2>2. CASE child # {} /\ Waiting("WAIT_BGSAVE_END") # {}
    BY <2>2 DEF AcceptFull
  <2>3. CASE child # {} /\ Waiting("WAIT_BGSAVE_END") = {}
    BY <2>3 DEF AcceptFull
  <2> QED BY <2>1, <2>2, <2>3
<1> HIDE DEF state, out
<1>2. /\ slaves' = Append(slaves, c) /\ slaveseldb' = -1
      /\ repl_backlog' = (repl_backlog \/ (slaves = << >> /\ ~repl_backlog))
      /\ hist' = IF slaves = << >> /\ ~repl_backlog THEN << >> ELSE hist
      /\ master_repl_offset' = master_repl_offset + IF slaves = << >> /\ ~repl_backlog THEN 1 ELSE 0
      /\ UNCHANGED <<runid, log, nwrites, rdb>>
  BY DEF AcceptFull
<1> DEFINE new == [replstate |-> state, file |-> << >>, out |-> out]
<1>3. /\ out \in Seq(Plain)
      /\ \/ child = {} /\ state = "WAIT_BGSAVE_END" /\ out = << >> /\ child' = {log}
         \/ /\ child # {} /\ child' = child /\ state = "WAIT_BGSAVE_END"
            /\ \E x \in Conns : x # c /\ client[x].replstate = "WAIT_BGSAVE_END" /\ out = client[x].out
         \/ child # {} /\ child' = child /\ state = "WAIT_BGSAVE_START" /\ out = << >>
  <2>1. CASE out = << >>
    BY <1>1, <2>1, CopiedBuffer, NoClientRec DEF None
  <2>2. CASE Waiting("WAIT_BGSAVE_END") # {} /\ out = copyClientOutputBuffer
    <3>1. PICK x \in Conns : client[x].replstate = "WAIT_BGSAVE_END" /\ out = client[x].out
      BY <2>2, CopiedBuffer
    <3>2. x # c /\ out \in Seq(Plain)
      BY <3>1, NoClientRec DEF Listed, None
    <3> QED BY <1>1, <3>1, <3>2
  <2> QED BY <1>1, <2>1, <2>2
<1>4. new \in ClientRec /\ new.replstate # None /\ new.replstate = state /\ new.out = out
  <2>1. out \in Seq(Item) /\ << >> \in DataSet
    BY <1>3, PlainStreams DEF DataSet
  <2> QED BY <1>1, <2>1 DEF ClientRec, ReplState, None
<1>5. client' = [client EXCEPT ![c] = new]
  BY <1>1
<1> HIDE DEF new
<1>6. /\ client' \in [Conns -> ClientRec] /\ client'[c] = new
      /\ \A x \in Conns : x # c => client'[x] = client[x]
      /\ slaves' \in Seq(Conns) /\ slaves' # << >>
      /\ Range(slaves') = {x \in Conns : client'[x].replstate # None}
  BY <1>2, <1>4, <1>5, NewSlave
<1>7. /\ slaveseldb' = -1 /\ repl_backlog' = TRUE /\ hist' = hist
      /\ master_repl_offset' = master_repl_offset + IF repl_backlog THEN 0 ELSE 1
      /\ UNCHANGED <<runid, log, nwrites, rdb>>
  BY <1>2 DEF Listed, MasterTypes
<1>8. client'[c].replstate = state /\ client'[c].out = out
  BY <1>4, <1>6
<1> QED BY <1>3, <1>6, <1>7, <1>8

LEMMA PsyncConn ==
  ASSUME Shape, NEW s \in Slaves, NEW c \in Conns, PsyncSent(s, c)
  PROVE  /\ client[c] = NoClient /\ \A t \in Slaves : link[t] # c
         /\ repl_state[s] = "RECEIVE_PONG" /\ link[s] = None /\ reploff[s] \in Int
         /\ MasterTypes /\ SlaveTypes /\ Listed /\ Linked
BY DEF PsyncSent, FreeConn, Shape, SlaveTypes, Linked

\* What the master keeps when it accepts a slave.
LEMMA AcceptedShape ==
  ASSUME Shape, NEW s \in Slaves, NEW c \in Conns, PsyncSent(s, c),
         AcceptPartial(s, c) \/ AcceptFull(c)
  PROVE  /\ MasterTypes' /\ Listed'
         /\ \A x \in Conns : x # c => client'[x] = client[x]
         /\ client'[c].out \in Seq(Plain) /\ client'[c].replstate # None
         /\ AcceptPartial(s, c) => client'[c].replstate = "ONLINE"
         /\ AcceptFull(c) => client'[c].replstate # "ONLINE"
<1>1. /\ client[c] = NoClient /\ reploff[s] \in Int /\ MasterTypes /\ Listed
  BY PsyncConn
<1>2. CASE AcceptPartial(s, c)
  <2>1. /\ client' \in [Conns -> ClientRec]
        /\ client'[c].replstate = "ONLINE" /\ client'[c].out \in Seq(Plain)
        /\ \A x \in Conns : x # c => client'[x] = client[x]
        /\ slaves' \in Seq(Conns) /\ slaves' # << >>
        /\ Range(slaves') = {x \in Conns : client'[x].replstate # None}
        /\ UNCHANGED <<runid, log, nwrites, rdb, child, repl_backlog, hist, master_repl_offset, slaveseldb>>
        /\ repl_backlog
    BY <1>1, <1>2, PartialAccepted DEF CanPartialResync
  <2>2. MasterTypes'
    BY <1>1, <2>1 DEF MasterTypes
  <2>3. \A x \in Conns : client'[x].replstate = None => client'[x] = NoClient
    BY <1>1, <2>1 DEF Listed, None
  <2>4. \A x \in Conns : client'[x].replstate \in {"WAIT_BGSAVE_START", "WAIT_BGSAVE_END", "SEND_BULK"} =>
                           client'[x].out \in Seq(Plain)
    BY <1>1, <2>1 DEF Listed
  <2>5. Listed'
    BY <1>1, <2>1, <2>3, <2>4 DEF Listed
  <2>6. ~ AcceptFull(c)
    <3>1. AcceptFull(c) => client'[c].replstate # "ONLINE"
      BY <1>1, FullAccepted
    <3> QED BY <2>1, <3>1
  <2> QED BY <2>1, <2>2, <2>5, <2>6 DEF None
<1>3. CASE AcceptFull(c)
  <2>1. /\ client' \in [Conns -> ClientRec]
        /\ client'[c].replstate \in {"WAIT_BGSAVE_START", "WAIT_BGSAVE_END"} /\ client'[c].out \in Seq(Plain)
        /\ child' = child \/ child' = {log}
        /\ \A x \in Conns : x # c => client'[x] = client[x]
        /\ slaves' \in Seq(Conns) /\ slaves' # << >>
        /\ Range(slaves') = {x \in Conns : client'[x].replstate # None}
        /\ slaveseldb' = -1 /\ repl_backlog' = TRUE /\ hist' = hist
        /\ UNCHANGED <<runid, log, nwrites, rdb>>
    BY <1>1, <1>3, FullAccepted
  <2>2. master_repl_offset' \in Nat
    <3>1. master_repl_offset' = master_repl_offset + IF repl_backlog THEN 0 ELSE 1
      BY <1>1, <1>3, FullAccepted
    <3> QED BY <1>1, <3>1 DEF MasterTypes
  <2>3. MasterTypes'
    BY <1>1, <2>1, <2>2 DEF MasterTypes
  <2>4. \A x \in Conns : client'[x].replstate = None => client'[x] = NoClient
    BY <1>1, <2>1 DEF Listed, None
  <2>5. \A x \in Conns : client'[x].replstate \in {"WAIT_BGSAVE_START", "WAIT_BGSAVE_END", "SEND_BULK"} =>
                           client'[x].out \in Seq(Plain)
    BY <1>1, <2>1 DEF Listed
  <2>6. \A x, y \in child' : x = y
    BY <1>1, <2>1 DEF Listed
  <2>7. Listed'
    BY <2>1, <2>4, <2>5, <2>6 DEF Listed
  <2>8. ~ AcceptPartial(s, c)
    <3>1. AcceptPartial(s, c) => client'[c].replstate = "ONLINE"
      BY <1>1, PartialAccepted
    <3> QED BY <2>1, <3>1
  <2> QED BY <2>1, <2>3, <2>7, <2>8 DEF None
<1> QED BY <1>2, <1>3

LEMMA PartialShape == ASSUME Shape, NEW s \in Slaves, NEW c \in Conns, PartialResync(s, c) PROVE Shape'
<1>1. PsyncSent(s, c) /\ AcceptPartial(s, c)
  BY DEF PartialResync
<1>2. /\ repl_state' = [repl_state EXCEPT ![s] = "CONNECTED"] /\ link' = [link EXCEPT ![s] = c]
      /\ cached' = [cached EXCEPT ![s] = FALSE] /\ partial' = [partial EXCEPT ![s] = TRUE]
      /\ UNCHANGED <<data, reploff, replrunid, db, initial>>
  BY DEF PartialResync
<1>3. /\ \A t \in Slaves : link[t] # c
      /\ SlaveTypes /\ Linked
  BY <1>1, PsyncConn
<1>4. MasterTypes' /\ Listed' /\ (\A x \in Conns : x # c => client'[x] = client[x])
      /\ client'[c].out \in Seq(Plain) /\ client'[c].replstate = "ONLINE"
  BY <1>1, AcceptedShape
<1>5. SlaveTypes'
  BY <1>2, <1>3 DEF SlaveTypes, SlaveState
<1>6. Linked'
  <2>1. c # None
    BY NoConn
  <2>2. ASSUME NEW t \in Slaves, t # s
        PROVE /\ link'[t] = link[t] /\ repl_state'[t] = repl_state[t] /\ cached'[t] = cached[t] /\ link[t] # c
              /\ link[t] # None => client'[link[t]] = client[link[t]]
    BY <1>2, <1>3, <1>4, <2>2 DEF SlaveTypes
  <2>3. link'[s] = c /\ repl_state'[s] = "CONNECTED" /\ cached'[s] = FALSE
    BY <1>2, <1>3 DEF SlaveTypes
  <2> QED BY <1>3, <1>4, <2>1, <2>2, <2>3 DEF Linked, Alive
<1> QED BY <1>4, <1>5, <1>6 DEF Shape

LEMMA FullShape == ASSUME Shape, NEW s \in Slaves, NEW c \in Conns, FullResync(s, c) PROVE Shape'
<1>1. PsyncSent(s, c) /\ AcceptFull(c)
  BY DEF FullResync
<1>2. /\ repl_state' = [repl_state EXCEPT ![s] = "TRANSFER"] /\ link' = [link EXCEPT ![s] = c]
      /\ cached' = [cached EXCEPT ![s] = FALSE]
      /\ initial' = [initial EXCEPT ![s] = [runid |-> runid, off |-> master_repl_offset + IF repl_backlog THEN 0 ELSE 1]]
      /\ UNCHANGED <<data, reploff, replrunid, db, partial>>
  BY DEF FullResync
<1>3. /\ \A t \in Slaves : link[t] # c
      /\ SlaveTypes /\ Linked /\ MasterTypes
  BY <1>1, PsyncConn
<1>4. MasterTypes' /\ Listed' /\ (\A x \in Conns : x # c => client'[x] = client[x])
      /\ client'[c].replstate # "ONLINE"
  BY <1>1, AcceptedShape
<1>5. SlaveTypes'
  <2>1. [runid |-> runid, off |-> master_repl_offset + IF repl_backlog THEN 0 ELSE 1] \in [runid : Nat, off : Int]
    BY <1>3 DEF MasterTypes
  <2> QED BY <1>2, <1>3, <2>1 DEF SlaveTypes, SlaveState
<1>6. Linked'
  <2>1. c # None
    BY NoConn
  <2>2. ASSUME NEW t \in Slaves, t # s
        PROVE /\ link'[t] = link[t] /\ repl_state'[t] = repl_state[t] /\ cached'[t] = cached[t] /\ link[t] # c
              /\ link[t] # None => client'[link[t]] = client[link[t]]
    BY <1>2, <1>3, <1>4, <2>2 DEF SlaveTypes
  <2>3. link'[s] = c /\ repl_state'[s] = "TRANSFER" /\ cached'[s] = FALSE
    BY <1>2, <1>3 DEF SlaveTypes
  <2> QED BY <1>3, <1>4, <2>1, <2>2, <2>3 DEF Linked, Alive
<1> QED BY <1>4, <1>5, <1>6 DEF Shape

LEMMA LostShape == ASSUME Shape, NEW s \in Slaves, NEW c \in Conns, PsyncReplyLost(s, c) PROVE Shape'
<1>1. PsyncSent(s, c) /\ (AcceptPartial(s, c) \/ AcceptFull(c))
  BY DEF PsyncReplyLost
<1>2. /\ repl_state' = [repl_state EXCEPT ![s] = "CONNECT"] /\ cached' = [cached EXCEPT ![s] = FALSE]
      /\ UNCHANGED <<link, data, reploff, replrunid, db, initial, partial>>
  BY DEF PsyncReplyLost
<1>3. /\ (\A t \in Slaves : link[t] # c) /\ link[s] = None
      /\ SlaveTypes /\ Linked
  BY <1>1, PsyncConn
<1>4. MasterTypes' /\ Listed' /\ (\A x \in Conns : x # c => client'[x] = client[x])
  BY <1>1, AcceptedShape
<1>5. SlaveTypes'
  BY <1>2, <1>3 DEF SlaveTypes, SlaveState
<1>6. Linked'
  <2>1. ASSUME NEW t \in Slaves, t # s
        PROVE /\ repl_state'[t] = repl_state[t] /\ cached'[t] = cached[t] /\ link[t] # c
              /\ link[t] # None => client'[link[t]] = client[link[t]]
    BY <1>2, <1>3, <1>4, <2>1 DEF SlaveTypes
  <2>2. link'[s] = None /\ repl_state'[s] = "CONNECT" /\ cached'[s] = FALSE /\ link' = link
    BY <1>2, <1>3 DEF SlaveTypes
  <2> QED BY <1>3, <1>4, <2>1, <2>2 DEF Linked, Alive
<1> QED BY <1>4, <1>5, <1>6 DEF Shape

-----------------------------------------------------------------------------
(* The steps of a slave                                                    *)

LEMMA ReceivedItem ==
  ASSUME Shape, NEW s \in Slaves, Alive(s), client[link[s]].out # << >>, Received(s), MasterUnchanged
  PROVE  /\ link[s] \in Conns /\ client' \in [Conns -> ClientRec]
         /\ client'[link[s]].replstate = "ONLINE" /\ client'[link[s]].out = Tail(client[link[s]].out)
         /\ \A x \in Conns : x # link[s] => client'[x] = client[x]
         /\ MasterTypes' /\ Listed'
<1> DEFINE c == link[s]
<1>1. MasterTypes /\ SlaveTypes /\ Listed
  BY DEF Shape
<1>2. c \in Conns /\ client[c].replstate = "ONLINE"
  BY <1>1 DEF Alive, SlaveTypes
<1>3. client[c] \in ClientRec /\ client[c].out \in Seq(Item)
  BY <1>1, <1>2, ClientFields
<1>4. Tail(client[c].out) \in Seq(Item)
  BY <1>3
<1>5. client' = [client EXCEPT ![c].out = Tail(client[c].out)]
  BY <1>1, <1>2 DEF Received, MasterTypes
<1> HIDE DEF c
<1>6. /\ client' \in [Conns -> ClientRec]
      /\ client'[c].replstate = "ONLINE" /\ client'[c].out = Tail(client[c].out)
      /\ \A x \in Conns : x # c => client'[x] = client[x]
  <2>1. [client[c] EXCEPT !.out = Tail(client[c].out)] \in ClientRec
    BY <1>3, <1>4 DEF ClientRec
  <2> QED BY <1>1, <1>2, <1>3, <1>5, <2>1 DEF MasterTypes, ClientRec
<1>7. MasterTypes'
  BY <1>1, <1>6 DEF MasterTypes, MasterUnchanged
<1>8. Listed'
  <2>1. \A x \in Conns : client'[x].replstate # None <=> client[x].replstate # None
    BY <1>2, <1>6 DEF None
  <2>2. \A x \in Conns : /\ client'[x].replstate = None => client'[x] = NoClient
                         /\ client'[x].replstate \in {"WAIT_BGSAVE_START", "WAIT_BGSAVE_END", "SEND_BULK"} =>
                              client'[x].out \in Seq(Plain)
    BY <1>1, <1>2, <1>6 DEF Listed, None
  <2> QED BY <1>1, <2>1, <2>2 DEF Listed, MasterUnchanged
<1> QED BY <1>2, <1>6, <1>7, <1>8 DEF c

LEMMA LoadShape == ASSUME Shape, NEW s \in Slaves, readSyncBulkPayload(s) PROVE Shape'
<1> DEFINE c == link[s]
<1>1. /\ repl_state[s] = "TRANSFER" /\ Alive(s) /\ client[c].out # << >> /\ Received(s) /\ MasterUnchanged
      /\ data' = [data EXCEPT ![s] = Head(client[c].out).snap]
      /\ repl_state' = [repl_state EXCEPT ![s] = "CONNECTED"]
      /\ reploff' = [reploff EXCEPT ![s] = initial[s].off]
      /\ replrunid' = [replrunid EXCEPT ![s] = initial[s].runid]
      /\ db' = [db EXCEPT ![s] = 0] /\ partial' = [partial EXCEPT ![s] = FALSE]
      /\ UNCHANGED <<link, cached, initial>>
  BY DEF readSyncBulkPayload
<1>2. /\ c \in Conns /\ client'[c].replstate = "ONLINE" /\ client'[c].out = Tail(client[c].out)
      /\ \A x \in Conns : x # c => client'[x] = client[x]
      /\ MasterTypes' /\ Listed'
  BY <1>1, ReceivedItem
<1>3. Head(client[c].out).snap \in DataSet /\ Tail(client[c].out) \in Seq(Plain)
  BY <1>1 DEF Shape, Linked
<1>4. SlaveTypes'
  <2>1. initial[s].off \in Int /\ initial[s].runid \in Nat /\ 0 \in DBs
    BY DBNumbers DEF Shape, SlaveTypes
  <2> QED BY <1>1, <1>3, <2>1 DEF Shape, SlaveTypes, SlaveState
<1>5. Linked'
  <2>1. ASSUME NEW t \in Slaves, t # s
        PROVE /\ repl_state'[t] = repl_state[t] /\ cached'[t] = cached[t]
              /\ link[t] # None => link[t] \in Conns /\ link[t] # c /\ client'[link[t]] = client[link[t]]
    BY <1>1, <1>2, <2>1 DEF Shape, SlaveTypes, Linked, Alive
  <2>2. repl_state'[s] = "CONNECTED" /\ link[s] # None
    BY <1>1 DEF Shape, SlaveTypes, Alive
  <2>3. ASSUME NEW t \in Slaves
        PROVE /\ repl_state'[t] \in {"TRANSFER", "CONNECTED"} <=> link[t] # None
              /\ cached[t] => link[t] = None
              /\ repl_state'[t] = "TRANSFER" /\ link[t] # None /\ client'[link[t]].replstate = "ONLINE" =>
                   /\ client'[link[t]].out # << >> /\ Head(client'[link[t]].out).t = "rdb"
                   /\ Head(client'[link[t]].out).snap \in DataSet /\ Tail(client'[link[t]].out) \in Seq(Plain)
              /\ repl_state'[t] = "CONNECTED" =>
                   client'[link[t]].replstate \in {None, "ONLINE"} /\ client'[link[t]].out \in Seq(Plain)
    <3>1. CASE t = s
      <4>1. client'[link[s]].replstate = "ONLINE" /\ client'[link[s]].out \in Seq(Plain)
        BY <1>2, <1>3
      <4>2. cached[s] => link[s] = None
        BY DEF Shape, Linked
      <4> QED BY <2>2, <3>1, <4>1, <4>2
    <3>2. CASE t # s
      <4>1. CASE link[t] = None
        BY <2>1, <3>2, <4>1 DEF Shape, Linked
      <4>2. CASE link[t] # None
        BY <2>1, <3>2, <4>2 DEF Shape, Linked, Alive
      <4> QED BY <4>1, <4>2
    <3> QED BY <3>1, <3>2
  <2>4. link' = link /\ cached' = cached /\ \A t, u \in Slaves : link[t] = link[u] /\ link[t] # None => t = u
    BY <1>1 DEF Shape, Linked
  <2> HIDE DEF c
  <2> QED BY <2>3, <2>4 DEF Linked, Alive
<1> QED BY <1>2, <1>4, <1>5 DEF Shape

LEMMA ReadShape == ASSUME Shape, NEW s \in Slaves, readQueryFromClient(s) PROVE Shape'
<1> DEFINE c == link[s]
           item == Head(client[c].out)
<1>1. /\ repl_state[s] = "CONNECTED" /\ Alive(s) /\ client[c].out # << >> /\ Received(s) /\ MasterUnchanged
      /\ reploff' = [reploff EXCEPT ![s] = @ + 1]
      /\ IF item.t = "select"
         THEN db' = [db EXCEPT ![s] = item.db] /\ UNCHANGED data
         ELSE data' = [data EXCEPT ![s] = Append(@, <<item.id, db[s]>>)] /\ UNCHANGED db
      /\ UNCHANGED <<repl_state, link, cached, replrunid, initial, partial>>
  BY DEF readQueryFromClient
<1>2. /\ c \in Conns /\ client'[c].replstate = "ONLINE" /\ client'[c].out = Tail(client[c].out)
      /\ \A x \in Conns : x # c => client'[x] = client[x]
      /\ MasterTypes' /\ Listed'
  BY <1>1, ReceivedItem
<1>3. client[c].out \in Seq(Plain)
  BY <1>1 DEF Shape, Linked
<1>4. item \in Plain /\ Tail(client[c].out) \in Seq(Plain)
  BY <1>1, <1>3
<1>5. SlaveTypes'
  <2>1. data[s] \in DataSet /\ db[s] \in DBs /\ reploff[s] + 1 \in Int
    BY DEF Shape, SlaveTypes
  <2>2. item.t = "select" => item.db \in DBs
    BY <1>4, Items
  <2>3. item.t # "select" => Append(data[s], <<item.id, db[s]>>) \in DataSet
    <3>1. item.t # "select" => <<item.id, db[s]>> \in Nat \X DBs
      BY <1>4, <2>1, Items
    <3> HIDE DEF item
    <3> QED BY <2>1, <3>1 DEF DataSet
  <2> HIDE DEF item
  <2>4. db' \in [Slaves -> DBs] /\ data' \in [Slaves -> DataSet]
    BY <1>1, <2>1, <2>2, <2>3 DEF Shape, SlaveTypes
  <2>5. reploff' \in [Slaves -> Int]
    BY <1>1, <2>1 DEF Shape, SlaveTypes
  <2> QED BY <1>1, <2>4, <2>5 DEF Shape, SlaveTypes
<1>6. Linked'
  <2>1. ASSUME NEW t \in Slaves, t # s
        PROVE link[t] # None => link[t] \in Conns /\ link[t] # c /\ client'[link[t]] = client[link[t]]
    BY <1>1, <1>2, <2>1 DEF Shape, SlaveTypes, Linked, Alive
  <2>3. ASSUME NEW t \in Slaves
        PROVE /\ repl_state[t] \in {"TRANSFER", "CONNECTED"} <=> link[t] # None
              /\ cached[t] => link[t] = None
              /\ repl_state[t] = "TRANSFER" /\ link[t] # None /\ client'[link[t]].replstate = "ONLINE" =>
                   /\ client'[link[t]].out # << >> /\ Head(client'[link[t]].out).t = "rdb"
                   /\ Head(client'[link[t]].out).snap \in DataSet /\ Tail(client'[link[t]].out) \in Seq(Plain)
              /\ repl_state[t] = "CONNECTED" =>
                   client'[link[t]].replstate \in {None, "ONLINE"} /\ client'[link[t]].out \in Seq(Plain)
    <3>1. CASE t = s
      <4>1. client'[link[s]].replstate = "ONLINE" /\ client'[link[s]].out \in Seq(Plain)
        BY <1>2, <1>4
      <4>2. (cached[s] => link[s] = None) /\ repl_state[s] = "CONNECTED" /\ link[s] # None
        BY <1>1 DEF Shape, Linked, Alive
      <4> QED BY <1>1, <3>1, <4>1, <4>2
    <3>2. CASE t # s
      <4>1. CASE link[t] = None
        BY <2>1, <3>2, <4>1 DEF Shape, Linked
      <4>2. CASE link[t] # None
        BY <2>1, <3>2, <4>2 DEF Shape, Linked, Alive
      <4> QED BY <4>1, <4>2
    <3> QED BY <3>1, <3>2
  <2>4. link' = link /\ cached' = cached /\ \A t, u \in Slaves : link[t] = link[u] /\ link[t] # None => t = u
    BY <1>1 DEF Shape, Linked
  <2> HIDE DEF c
  <2>5. repl_state' = repl_state
    BY <1>1
  <2> QED BY <2>3, <2>4, <2>5 DEF Linked, Alive
<1> QED BY <1>2, <1>5, <1>6 DEF Shape

\* Steps of a slave the master does not see.
Handshakes(s) == connectWithMaster(s) \/ syncWithMaster(s) \/ HandshakeFails(s)
Gives(s) == \/ LoadFails(s) \/ replicationCacheMaster(s) \/ MasterClosed(s) \/ FreeMaster(s)
            \/ \E c \in Conns : FullResyncForkFails(s, c)

LEMMA HandshakeShape == ASSUME Shape, NEW s \in Slaves, Handshakes(s) PROVE Shape'
<1>1. /\ \E st \in {"CONNECT", "CONNECTING", "RECEIVE_PONG"} : repl_state' = [repl_state EXCEPT ![s] = st]
      /\ repl_state[s] \in {"CONNECT", "CONNECTING", "RECEIVE_PONG"}
      /\ UNCHANGED <<mvars, link, data, cached, reploff, replrunid, db, initial, partial>>
  BY DEF Handshakes, connectWithMaster, syncWithMaster, HandshakeFails
<1>2. UNCHANGED <<runid, log, nwrites, rdb, child, repl_backlog, hist, master_repl_offset, slaveseldb, slaves, client>>
  BY <1>1 DEF mvars
<1>3. MasterTypes' /\ Listed'
  BY <1>2 DEF Shape, MasterTypes, Listed
<1>4. SlaveTypes'
  BY <1>1 DEF Shape, SlaveTypes, SlaveState
<1>5. Linked'
  BY <1>1, <1>2 DEF Shape, SlaveTypes, Linked, Alive
<1> QED BY <1>3, <1>4, <1>5 DEF Shape

LEMMA GivesShape == ASSUME Shape, NEW s \in Slaves, Gives(s) PROVE Shape'
<1>1. /\ repl_state' = [repl_state EXCEPT ![s] = "CONNECT"]
      /\ (link' = link /\ link[s] = None) \/ link' = [link EXCEPT ![s] = None]
      /\ (cached' = cached /\ ~ cached[s]) \/ \E b \in BOOLEAN : cached' = [cached EXCEPT ![s] = b]
      /\ data' = data \/ data' = [data EXCEPT ![s] = << >>]
      /\ UNCHANGED <<mvars, reploff, replrunid, db, initial, partial>>
  <2>1. repl_state[s] = "RECEIVE_PONG" => link[s] = None
    BY DEF Shape, Linked
  <2>2. repl_state[s] = "TRANSFER" => ~ cached[s]
    BY DEF Shape, SlaveTypes, Linked
  <2>3. CASE LoadFails(s)
    BY <2>2, <2>3 DEF LoadFails
  <2>4. CASE replicationCacheMaster(s) \/ MasterClosed(s) \/ FreeMaster(s)
    BY <2>4 DEF replicationCacheMaster, MasterClosed, FreeMaster, LinkEnds
  <2>5. CASE \E c \in Conns : FullResyncForkFails(s, c)
    BY <2>1, <2>5 DEF FullResyncForkFails, PsyncSent
  <2> QED BY <2>3, <2>4, <2>5 DEF Gives
<1>2. UNCHANGED <<runid, log, nwrites, rdb, child, repl_backlog, hist, master_repl_offset, slaveseldb, slaves, client>>
  BY <1>1 DEF mvars
<1>3. MasterTypes' /\ Listed'
  BY <1>2 DEF Shape, MasterTypes, Listed
<1>4. SlaveTypes'
  <2>1. << >> \in DataSet
    BY DEF DataSet
  <2> QED BY <1>1, <2>1 DEF Shape, SlaveTypes, SlaveState
<1>5. Linked'
  <2>1. repl_state'[s] = "CONNECT" /\ link'[s] = None
    BY <1>1 DEF Shape, SlaveTypes
  <2>2. \A t \in Slaves : t # s => link'[t] = link[t] /\ repl_state'[t] = repl_state[t] /\ cached'[t] = cached[t]
    BY <1>1 DEF Shape, SlaveTypes
  <2> QED BY <1>2, <2>1, <2>2 DEF Shape, Linked, Alive
<1> QED BY <1>3, <1>4, <1>5 DEF Shape

LEMMA ShapeStep == Shape /\ [Next]_vars => Shape'
<1> SUFFICES ASSUME Shape, [Next]_vars PROVE Shape'
  OBVIOUS
<1>1. CASE MasterStep
  BY <1>1, FeedShape, BgsaveShape, SaveDoneShape, SendBulkShape, FreedShape, BacklogFreedShape, RestartShape DEF MasterStep
<1>2. ASSUME NEW s \in Slaves, SlaveStep(s) PROVE Shape'
  BY <1>2, PartialShape, LostShape, LoadShape, ReadShape, HandshakeShape, GivesShape DEF SlaveStep, Handshakes, Gives
<1>3. ASSUME NEW s \in Slaves, NEW c \in Conns, FullResync(s, c) PROVE Shape'
  BY <1>3, FullShape
<1>4. CASE UNCHANGED vars
  BY <1>4 DEF vars, mvars, svars, Shape, MasterTypes, SlaveTypes, Listed, Linked, Alive
<1> QED BY <1>1, <1>2, <1>3, <1>4 DEF Next

LEMMA ShapeAlways == Spec => []Shape
<1>1. Init => Shape
  BY ShapeInit
<1>2. Shape /\ [Next]_vars => Shape'
  BY ShapeStep
<1> QED BY <1>1, <1>2, PTL DEF Spec

-----------------------------------------------------------------------------
(* Full resynchronisation                                                  *)

\* A reader in state st that reads out ends with the data set lg, in the database sel.
Whole(out, st, lg, sel) == Ending(out, st)[1] = lg /\ (sel # -1 => Ending(out, st)[2] = sel)

(* What a client that waits for a file, or is being sent one, will be      *)
(* worth; a slave that waits for the next BGSAVE registers no write.       *)
ClientServed(c) ==
  /\ client[c].replstate = "WAIT_BGSAVE_START" =>
       \A X \in DataSet : Whole(client[c].out, <<X, 0>>, X, slaveseldb)
  /\ client[c].replstate = "WAIT_BGSAVE_END" =>
       child # {} /\ \A snap \in child : Whole(client[c].out, <<snap, 0>>, log, slaveseldb)
  /\ client[c].replstate = "SEND_BULK" => Whole(client[c].out, <<client[c].file, 0>>, log, slaveseldb)

ReaderServed(s) ==
  Alive(s) =>
    /\ repl_state[s] = "TRANSFER" =>
         Whole(Tail(client[link[s]].out), <<Head(client[link[s]].out).snap, 0>>, log, slaveseldb)
    /\ repl_state[s] = "CONNECTED" /\ ~ partial[s] =>
         Whole(client[link[s]].out, <<data[s], db[s]>>, log, slaveseldb)

Served == (\A c \in Conns : ClientServed(c)) /\ (\A s \in Slaves : ReaderServed(s))

\* A write reaches whoever is to have it, in its database.
LEMMA FedWhole ==
  ASSUME MasterTypes, NEW x \in DBs, NEW out \in Seq(Item), NEW st, NEW lg, Whole(out, st, lg, slaveseldb)
  PROVE  /\ Whole(out \o Sel(x) \o Written, st, Append(lg, <<nwrites + 1, x>>), x)
         /\ Whole(out \o Sel(x) \o << >>, st, lg, x)
<1>1. nwrites + 1 \in Nat
  BY DEF MasterTypes
<1>2. Sel(x) = <<Select(x)>> \/ (Sel(x) = << >> /\ Ending(out, st)[2] = x)
  BY DBNumbers DEF Sel, Whole
<1>3. /\ Ending(out \o Sel(x) \o <<Cmd(nwrites + 1)>>, st)[1] = Append(Ending(out, st)[1], <<nwrites + 1, x>>)
      /\ Ending(out \o Sel(x) \o <<Cmd(nwrites + 1)>>, st)[2] = x
      /\ Ending(out \o Sel(x) \o << >>, st)[1] = Ending(out, st)[1]
      /\ Ending(out \o Sel(x) \o << >>, st)[2] = x
  <2>1. FedEnds(out, st, x, nwrites + 1, Sel(x))
    BY <1>1, <1>2, EndingFed
  <2> QED BY <2>1 DEF FedEnds
<1>4. Ending(out, st)[1] = lg
  BY DEF Whole
<1> QED BY <1>3, <1>4 DEF Whole, Written

LEMMA FeedServed == ASSUME Shape, Served, NEW x \in DBs, replicationFeedSlaves(x) PROVE Served'
<1>1. MasterTypes /\ SlaveTypes /\ Listed /\ Linked
  BY DEF Shape
<1>2. /\ log' = Append(log, <<nwrites + 1, x>>)
      /\ UNCHANGED <<child, link, repl_state, data, db, partial>>
      /\ \A c \in Conns :
              /\ client'[c].replstate = client[c].replstate /\ client'[c].file = client[c].file
              /\ client[c].replstate = None => client'[c] = client[c]
              /\ client[c].replstate \notin {None, "WAIT_BGSAVE_START"} => client'[c].out = client[c].out \o Sel(x) \o Written
              /\ client[c].replstate = "WAIT_BGSAVE_START" => client'[c].out = client[c].out \o Sel(x) \o << >>
  BY <1>1, FedClients DEF svars
<1>3. ASSUME NEW c \in Conns, client[c].replstate # None PROVE slaveseldb' = x
  <2>1. slaves # << >>
    BY <1>1, <1>3, RangeEmpty DEF Listed, MasterTypes
  <2> QED BY <1>1, <2>1, FedClients DEF Listed
<1>4. ASSUME NEW c \in Conns PROVE ClientServed(c)'
  <2>1. client[c].out \in Seq(Item)
    BY <1>1, ClientFields
  <2>2. CASE client[c].replstate = "WAIT_BGSAVE_START"
    <3>1. \A X \in DataSet : Whole(client[c].out, <<X, 0>>, X, slaveseldb)
      BY <2>2 DEF Served, ClientServed
    <3>2. \A X \in DataSet : Whole(client[c].out \o Sel(x) \o << >>, <<X, 0>>, X, x)
      BY <1>1, <2>1, <3>1, FedWhole
    <3>3. slaveseldb' = x /\ client'[c].out = client[c].out \o Sel(x) \o << >> /\ client'[c].replstate = "WAIT_BGSAVE_START"
      BY <1>2, <1>3, <2>2 DEF None
    <3> QED BY <3>2, <3>3 DEF ClientServed
  <2>3. CASE client[c].replstate = "WAIT_BGSAVE_END"
    <3>1. child # {} /\ \A snap \in child : Whole(client[c].out, <<snap, 0>>, log, slaveseldb)
      BY <2>3 DEF Served, ClientServed
    <3>2. \A snap \in child : Whole(client[c].out \o Sel(x) \o Written, <<snap, 0>>, log', x)
      BY <1>1, <1>2, <2>1, <3>1, FedWhole
    <3>3. slaveseldb' = x /\ client'[c].out = client[c].out \o Sel(x) \o Written /\ client'[c].replstate = "WAIT_BGSAVE_END"
      BY <1>2, <1>3, <2>3 DEF None
    <3> QED BY <1>2, <3>1, <3>2, <3>3 DEF ClientServed
  <2>4. CASE client[c].replstate = "SEND_BULK"
    <3>1. Whole(client[c].out, <<client[c].file, 0>>, log, slaveseldb)
      BY <2>4 DEF Served, ClientServed
    <3>2. Whole(client[c].out \o Sel(x) \o Written, <<client[c].file, 0>>, log', x)
      BY <1>1, <1>2, <2>1, <3>1, FedWhole
    <3>3. slaveseldb' = x /\ client'[c].out = client[c].out \o Sel(x) \o Written /\ client'[c].replstate = "SEND_BULK"
          /\ client'[c].file = client[c].file
      BY <1>2, <1>3, <2>4 DEF None
    <3> QED BY <3>2, <3>3 DEF ClientServed
  <2>5. CASE client[c].replstate \notin {"WAIT_BGSAVE_START", "WAIT_BGSAVE_END", "SEND_BULK"}
    BY <1>2, <2>5 DEF ClientServed
  <2> QED BY <2>2, <2>3, <2>4, <2>5
<1>5. ASSUME NEW s \in Slaves, Alive(s)' PROVE ReaderServed(s)'
  <2> DEFINE c == link[s]
  <2>1. c \in Conns /\ link'[s] = c /\ client[c].replstate = "ONLINE" /\ client[c].out \in Seq(Item) /\ Alive(s)
    BY <1>1, <1>2, <1>5, ClientFields DEF Alive, SlaveTypes
  <2>2. slaveseldb' = x /\ client'[c].out = client[c].out \o Sel(x) \o Written
    BY <1>2, <1>3, <2>1 DEF None
  <2>3. CASE repl_state[s] = "TRANSFER"
    <3>1. client[c].out # << >> /\ Tail(client[c].out) \in Seq(Item)
          /\ Whole(Tail(client[c].out), <<Head(client[c].out).snap, 0>>, log, slaveseldb)
      BY <1>1, <2>1, <2>3, PlainStreams DEF Served, ReaderServed, Linked
    <3>2. Whole(Tail(client[c].out) \o Sel(x) \o Written, <<Head(client[c].out).snap, 0>>, log', x)
      BY <1>1, <1>2, <3>1, FedWhole
    <3>3. Sel(x) \in Seq(Item) /\ Written \in Seq(Item)
      BY <1>1, Items DEF Sel, Written, MasterTypes
    <3>4. \A out \in Seq(Item) : out # << >> => /\ Head(out \o Sel(x) \o Written) = Head(out)
                                                 /\ Tail(out \o Sel(x) \o Written) = Tail(out) \o Sel(x) \o Written
      BY <3>3
    <3>5. /\ Head(client'[c].out) = Head(client[c].out)
          /\ Tail(client'[c].out) = Tail(client[c].out) \o Sel(x) \o Written
      BY <2>1, <2>2, <3>1, <3>4
    <3>6. Whole(Tail(client'[c].out), <<Head(client'[c].out).snap, 0>>, log', slaveseldb')
      BY <2>2, <3>2, <3>5
    <3> QED BY <1>2, <2>1, <2>3, <3>6 DEF ReaderServed
  <2>4. CASE repl_state[s] = "CONNECTED" /\ ~ partial[s]
    <3>1. Whole(client[c].out, <<data[s], db[s]>>, log, slaveseldb)
      BY <2>1, <2>4 DEF Served, ReaderServed
    <3>2. Whole(client[c].out \o Sel(x) \o Written, <<data[s], db[s]>>, log', x)
      BY <1>1, <1>2, <2>1, <3>1, FedWhole
    <3>3. Whole(client'[c].out, <<data[s], db[s]>>, log', slaveseldb')
      BY <2>2, <3>2
    <3> QED BY <1>2, <2>1, <2>4, <3>3 DEF ReaderServed
  <2>5. CASE repl_state[s] # "TRANSFER" /\ ~ (repl_state[s] = "CONNECTED" /\ ~ partial[s])
    BY <1>2, <2>5 DEF ReaderServed
  <2> QED BY <2>3, <2>4, <2>5
<1>6. ASSUME NEW s \in Slaves, ~ Alive(s)' PROVE ReaderServed(s)'
  BY <1>6 DEF ReaderServed
<1> QED BY <1>4, <1>5, <1>6 DEF Served

\* Steps of the master that leave its data set and the child alone.
LEMMA SaveDoneServed ==
  ASSUME Shape, Served, ~ ForkMayFail, ~ ChildMayBeKilled,
         NEW how \in {"saved", "error", "killed"}, NEW forked \in BOOLEAN, backgroundSaveDoneHandler(how, forked)
  PROVE  Served'
<1>1. MasterTypes /\ SlaveTypes /\ Listed /\ Linked
  BY DEF Shape
<1>2. /\ how \in {"saved", "error"} /\ forked = TRUE
      /\ how = "saved" => rdb' \in child
      /\ UNCHANGED <<log, slaveseldb, link, repl_state, data, db, partial>>
      /\ child' = IF Waiting("WAIT_BGSAVE_START") = {} THEN {} ELSE {log}
      /\ log \in DataSet
  BY <1>1, SaveDone DEF Others, svars, MasterTypes
<1>3. \A c \in Conns :
              /\ client[c].replstate = "WAIT_BGSAVE_END" /\ how = "error" => client'[c] = NoClient
              /\ client[c].replstate = "WAIT_BGSAVE_END" /\ how # "error" =>
                   client'[c] = [replstate |-> "SEND_BULK", out |-> client[c].out, file |-> rdb']
              /\ client[c].replstate = "WAIT_BGSAVE_START" =>
                   client'[c] = [replstate |-> "WAIT_BGSAVE_END", out |-> client[c].out, file |-> client[c].file]
              /\ client[c].replstate \notin {"WAIT_BGSAVE_START", "WAIT_BGSAVE_END"} => client'[c] = client[c]
  BY <1>1, SaveDone
<1>4. ASSUME NEW c \in Conns PROVE ClientServed(c)'
  <2>1. CASE client[c].replstate = "WAIT_BGSAVE_START"
    <3>1. c \in Waiting("WAIT_BGSAVE_START")
      BY <1>1, <2>1 DEF Waiting, Listed, None
    <3>2. Whole(client[c].out, <<log, 0>>, log, slaveseldb)
      BY <1>2, <2>1 DEF Served, ClientServed
    <3>3. child' = {log} /\ log' = log /\ slaveseldb' = slaveseldb
      BY <1>2, <3>1
    <3>4. client'[c] = [replstate |-> "WAIT_BGSAVE_END", out |-> client[c].out, file |-> client[c].file]
      BY <1>3, <2>1
    <3> QED BY <3>2, <3>3, <3>4 DEF ClientServed
  <2>2. CASE client[c].replstate = "WAIT_BGSAVE_END" /\ how = "saved"
    <3>1. Whole(client[c].out, <<rdb', 0>>, log, slaveseldb)
      BY <1>2, <2>2 DEF Served, ClientServed
    <3>2. client'[c] = [replstate |-> "SEND_BULK", out |-> client[c].out, file |-> rdb']
      BY <1>3, <2>2
    <3> QED BY <1>2, <3>1, <3>2 DEF ClientServed
  <2>3. CASE client[c].replstate = "WAIT_BGSAVE_END" /\ how = "error"
    BY <1>3, <2>3, NoClientRec DEF ClientServed, None
  <2>4. CASE client[c].replstate \notin {"WAIT_BGSAVE_START", "WAIT_BGSAVE_END"}
    <3>1. client'[c] = client[c]
      BY <1>3, <2>4
    <3> QED BY <1>2, <2>4, <3>1 DEF Served, ClientServed
  <2> QED BY <1>2, <2>1, <2>2, <2>3, <2>4
<1>5. ASSUME NEW s \in Slaves, Alive(s)' PROVE ReaderServed(s)'
  <2>1. link[s] \in Conns /\ link'[s] = link[s] /\ client'[link[s]].replstate = "ONLINE"
    BY <1>1, <1>2, <1>5 DEF Alive, SlaveTypes
  <2>2. client'[link[s]] = client[link[s]]
    <3>1. ASSUME client[link[s]].replstate = "WAIT_BGSAVE_START" PROVE FALSE
      <4>1. client'[link[s]] = [replstate |-> "WAIT_BGSAVE_END", out |-> client[link[s]].out, file |-> client[link[s]].file]
        BY <1>3, <2>1, <3>1
      <4> QED BY <2>1, <4>1
    <3>2. client[link[s]].replstate = "WAIT_BGSAVE_END" => how = "saved"
      BY <1>2, <1>3, <2>1, NoClientRec DEF None
    <3>3. ASSUME client[link[s]].replstate = "WAIT_BGSAVE_END", how = "saved" PROVE FALSE
      <4>1. client'[link[s]] = [replstate |-> "SEND_BULK", out |-> client[link[s]].out, file |-> rdb']
        BY <1>3, <2>1, <3>3
      <4> QED BY <2>1, <4>1
    <3> QED BY <1>3, <2>1, <3>1, <3>2, <3>3
  <2> QED BY <1>2, <1>5, <2>1, <2>2 DEF Served, ReaderServed, Alive
<1>6. ASSUME NEW s \in Slaves, ~ Alive(s)' PROVE ReaderServed(s)'
  BY <1>6 DEF ReaderServed
<1> QED BY <1>4, <1>5, <1>6 DEF Served

LEMMA BgsaveServed == ASSUME Served, bgsaveCommand PROVE Served'
<1>1. /\ child = {}
      /\ UNCHANGED <<log, slaveseldb, client, link, repl_state, data, db, partial>>
  BY DEF bgsaveCommand, svars
<1>2. \A c \in Conns : client[c].replstate # "WAIT_BGSAVE_END"
  BY <1>1 DEF Served, ClientServed
<1> QED BY <1>1, <1>2 DEF Served, ClientServed, ReaderServed, Alive

LEMMA SendBulkServed == ASSUME Shape, Served, NEW c \in Conns, sendBulkToSlave(c) PROVE Served'
<1>1. MasterTypes /\ SlaveTypes /\ Listed /\ Linked
  BY DEF Shape
<1>2. /\ client[c].replstate = "SEND_BULK" /\ client[c].file \in DataSet
      /\ \A x \in Conns : x # c => client'[x] = client[x]
      /\ client'[c].replstate = "ONLINE"
      /\ Head(client'[c].out).snap = client[c].file /\ Tail(client'[c].out) = client[c].out
      /\ UNCHANGED <<log, child, slaveseldb, link, repl_state, data, db, partial>>
  BY <1>1, SendBulk, Items DEF svars
<1>3. ASSUME NEW x \in Conns PROVE ClientServed(x)'
  <2>1. CASE x = c
    BY <1>2, <2>1 DEF ClientServed
  <2>2. CASE x # c
    <3>1. client'[x] = client[x]
      BY <1>2, <2>2
    <3> QED BY <1>2, <3>1 DEF Served, ClientServed
  <2> QED BY <2>1, <2>2
<1>4. ASSUME NEW s \in Slaves, Alive(s)' PROVE ReaderServed(s)'
  <2>1. link[s] \in Conns /\ link'[s] = link[s] /\ link[s] # None
    BY <1>1, <1>2, <1>4 DEF Alive, SlaveTypes
  <2>2. CASE link[s] = c
    <3>1. repl_state[s] # "CONNECTED"
      BY <1>1, <1>2, <2>2 DEF Linked, None
    <3>2. Whole(client[c].out, <<client[c].file, 0>>, log, slaveseldb)
      BY <1>2 DEF Served, ClientServed
    <3>3. Whole(Tail(client'[c].out), <<Head(client'[c].out).snap, 0>>, log', slaveseldb')
      BY <1>2, <3>2
    <3> QED BY <1>2, <2>2, <3>1, <3>3 DEF ReaderServed
  <2>3. CASE link[s] # c
    <3>1. client'[link[s]] = client[link[s]]
      BY <1>2, <2>1, <2>3
    <3> QED BY <1>2, <1>4, <2>1, <3>1 DEF Served, ReaderServed, Alive
  <2> QED BY <2>2, <2>3
<1>5. ASSUME NEW s \in Slaves, ~ Alive(s)' PROVE ReaderServed(s)'
  BY <1>5 DEF ReaderServed
<1> QED BY <1>3, <1>4, <1>5 DEF Served

\* Clients go, nothing else changes: a client freed, or the backlog.
LEMMA FreedServed ==
  ASSUME Shape, Served, UNCHANGED <<log, child, slaveseldb, link, repl_state, data, db, partial>>,
         \A c \in Conns : client'[c] = client[c] \/ client'[c] = NoClient
  PROVE  Served'
<1>1. MasterTypes /\ SlaveTypes /\ Listed /\ Linked
  BY DEF Shape
<1>2. ASSUME NEW c \in Conns PROVE ClientServed(c)'
  <2>1. CASE client'[c] = client[c]
    BY <2>1 DEF Served, ClientServed
  <2>2. CASE client'[c] = NoClient
    BY <2>2, NoClientRec DEF ClientServed, None
  <2> QED BY <2>1, <2>2
<1>3. ASSUME NEW s \in Slaves, Alive(s)' PROVE ReaderServed(s)'
  <2>1. link[s] \in Conns /\ link'[s] = link[s] /\ client'[link[s]].replstate = "ONLINE"
    BY <1>1, <1>3 DEF Alive, SlaveTypes
  <2>2. client'[link[s]] = client[link[s]]
    BY <2>1, NoClientRec DEF None
  <2> QED BY <1>3, <2>1, <2>2 DEF Served, ReaderServed, Alive
<1>4. ASSUME NEW s \in Slaves, ~ Alive(s)' PROVE ReaderServed(s)'
  BY <1>4 DEF ReaderServed
<1> QED BY <1>2, <1>3, <1>4 DEF Served

LEMMA RestartServed == ASSUME Shape, MasterRestart PROVE Served'
<1>1. client' = [c \in Conns |-> NoClient] /\ UNCHANGED link /\ link \in [Slaves -> Conns \cup {None}]
  BY DEF MasterRestart, svars, Shape, SlaveTypes
<1>2. \A c \in Conns : client'[c].replstate = None
  BY <1>1, NoClientRec
<1>3. \A s \in Slaves : ~ Alive(s)'
  BY <1>1, <1>2 DEF Alive, None
<1>4. \A c \in Conns : ClientServed(c)'
  BY <1>2 DEF ClientServed, None
<1>5. \A s \in Slaves : ReaderServed(s)'
  BY <1>3 DEF ReaderServed
<1> QED BY <1>4, <1>5 DEF Served

\* The slave that was answered, and the clients and slaves that were not.
LEMMA FullServed ==
  ASSUME Shape, Served, NEW c \in Conns, client[c] = NoClient, AcceptFull(c),
         UNCHANGED <<data, db, partial>>,
         \A s \in Slaves : link[s] # c
  PROVE  /\ \A x \in Conns : ClientServed(x)'
         /\ \A s \in Slaves : link'[s] = link[s] /\ repl_state'[s] = repl_state[s] => ReaderServed(s)'
         /\ \A s \in Slaves : link'[s] = c => ReaderServed(s)'
<1>1. MasterTypes /\ SlaveTypes /\ Listed /\ Linked
  BY DEF Shape
<1>2. /\ \/ /\ child = {} /\ child' = {log}
            /\ client'[c].replstate = "WAIT_BGSAVE_END" /\ client'[c].out = << >>
         \/ /\ child # {} /\ child' = child /\ client'[c].replstate = "WAIT_BGSAVE_END"
            /\ \E x \in Conns : x # c /\ client[x].replstate = "WAIT_BGSAVE_END" /\ client'[c].out = client[x].out
         \/ /\ child # {} /\ child' = child
            /\ client'[c].replstate = "WAIT_BGSAVE_START" /\ client'[c].out = << >>
      /\ \A x \in Conns : x # c => client'[x] = client[x]
      /\ slaveseldb' = -1 /\ log' = log
  BY <1>1, FullAccepted
<1>3. \A out, st, lg : Whole(out, st, lg, slaveseldb) => Whole(out, st, lg, -1)
  BY DEF Whole
<1>4. \A X : Whole(<< >>, <<X, 0>>, X, -1)
  BY EndingEmpty DEF Whole
<1>5. ASSUME NEW x \in Conns, x # c PROVE ClientServed(x)'
  <2>1. client'[x] = client[x] /\ ClientServed(x) /\ slaveseldb' = -1 /\ log' = log
    BY <1>2, <1>5 DEF Served
  <2>2. client[x].replstate = "WAIT_BGSAVE_END" => child' = child
    BY <1>2, <2>1 DEF ClientServed
  <2> QED BY <1>3, <2>1, <2>2 DEF ClientServed
<1>6. ClientServed(c)'
  <2>1. CASE child = {} /\ child' = {log} /\ client'[c].replstate = "WAIT_BGSAVE_END" /\ client'[c].out = << >>
    BY <1>2, <1>4, <2>1 DEF ClientServed
  <2>2. CASE /\ child # {} /\ child' = child /\ client'[c].replstate = "WAIT_BGSAVE_END"
             /\ \E x \in Conns : x # c /\ client[x].replstate = "WAIT_BGSAVE_END" /\ client'[c].out = client[x].out
    <3>1. PICK x \in Conns : client[x].replstate = "WAIT_BGSAVE_END" /\ client'[c].out = client[x].out
      BY <2>2
    <3>2. \A snap \in child : Whole(client[x].out, <<snap, 0>>, log, slaveseldb)
      BY <3>1 DEF Served, ClientServed
    <3> QED BY <1>2, <1>3, <2>2, <3>1, <3>2 DEF ClientServed
  <2>3. CASE child # {} /\ child' = child /\ client'[c].replstate = "WAIT_BGSAVE_START" /\ client'[c].out = << >>
    BY <1>2, <1>4, <2>3 DEF ClientServed
  <2> QED BY <1>2, <2>1, <2>2, <2>3
<1>7. ASSUME NEW s \in Slaves, link'[s] = link[s] /\ repl_state'[s] = repl_state[s], Alive(s)' PROVE ReaderServed(s)'
  <2>1. link[s] \in Conns /\ link[s] # c
    BY <1>1, <1>7 DEF Alive, SlaveTypes
  <2>2. client'[link[s]] = client[link[s]] /\ slaveseldb' = -1 /\ log' = log
    BY <1>2, <2>1
  <2>3. Alive(s)
    BY <1>7, <2>2 DEF Alive
  <2>4. ReaderServed(s)
    BY DEF Served
  <2> QED BY <1>3, <1>7, <2>2, <2>3, <2>4 DEF ReaderServed
<1>8. ASSUME NEW s \in Slaves, link'[s] = c PROVE ReaderServed(s)'
  BY <1>2, <1>8 DEF ReaderServed, Alive
<1>9. \A s \in Slaves : ~ Alive(s)' => ReaderServed(s)'
  BY DEF ReaderServed
<1> QED BY <1>5, <1>6, <1>7, <1>8, <1>9

LEMMA PartialServed ==
  ASSUME Shape, Served, NEW s \in Slaves, NEW c \in Conns, client[c] = NoClient, AcceptPartial(s, c),
         UNCHANGED <<data, db>>, \A t \in Slaves : link[t] # c
  PROVE  /\ \A x \in Conns : ClientServed(x)'
         /\ \A t \in Slaves : link'[t] = link[t] /\ repl_state'[t] = repl_state[t] /\ partial'[t] = partial[t] => ReaderServed(t)'
<1>1. MasterTypes /\ SlaveTypes /\ Listed /\ Linked
  BY DEF Shape
<1>2. /\ client'[c].replstate = "ONLINE" /\ (\A x \in Conns : x # c => client'[x] = client[x])
      /\ UNCHANGED <<log, child, slaveseldb>>
  <2>1. reploff[s] \in Int
    BY <1>1 DEF SlaveTypes
  <2> QED BY <1>1, <2>1, PartialAccepted
<1>3. ASSUME NEW x \in Conns PROVE ClientServed(x)'
  <2>1. CASE x = c
    BY <1>2, <2>1 DEF ClientServed
  <2>2. CASE x # c
    <3>1. client'[x] = client[x]
      BY <1>2, <2>2
    <3> QED BY <1>2, <3>1 DEF Served, ClientServed
  <2> QED BY <2>1, <2>2
<1>4. ASSUME NEW t \in Slaves, link'[t] = link[t] /\ repl_state'[t] = repl_state[t] /\ partial'[t] = partial[t], Alive(t)'
      PROVE ReaderServed(t)'
  <2>1. link[t] \in Conns /\ link[t] # c
    BY <1>1, <1>4 DEF Alive, SlaveTypes
  <2>2. client'[link[t]] = client[link[t]]
    BY <1>2, <2>1
  <2>3. Alive(t) /\ ReaderServed(t)
    BY <1>4, <2>2 DEF Alive, Served
  <2> QED BY <1>2, <1>4, <2>2, <2>3 DEF ReaderServed
<1>5. \A t \in Slaves : ~ Alive(t)' => ReaderServed(t)'
  BY DEF ReaderServed
<1> QED BY <1>3, <1>4, <1>5

LEMMA AnsweredServed ==
  ASSUME Shape, Served, NEW s \in Slaves, NEW c \in Conns,
         PartialResync(s, c) \/ FullResync(s, c) \/ PsyncReplyLost(s, c)
  PROVE  Served'
<1>1. PsyncSent(s, c)
  BY DEF PartialResync, FullResync, PsyncReplyLost
<1>2. client[c] = NoClient /\ (\A t \in Slaves : link[t] # c) /\ SlaveTypes /\ link[s] = None
  BY <1>1, PsyncConn
<1>3. CASE PartialResync(s, c)
  <2>1. /\ AcceptPartial(s, c) /\ UNCHANGED <<data, db>>
        /\ \A t \in Slaves : t # s => link'[t] = link[t] /\ repl_state'[t] = repl_state[t] /\ partial'[t] = partial[t]
        /\ repl_state'[s] = "CONNECTED" /\ partial'[s] = TRUE
    BY <1>2, <1>3 DEF PartialResync, SlaveTypes
  <2>2. ReaderServed(s)'
    BY <2>1 DEF ReaderServed
  <2> QED BY <1>2, <2>1, <2>2, PartialServed DEF Served
<1>4. CASE FullResync(s, c)
  <2>1. /\ AcceptFull(c) /\ UNCHANGED <<data, db, partial>>
        /\ \A t \in Slaves : t # s => link'[t] = link[t] /\ repl_state'[t] = repl_state[t]
        /\ link'[s] = c
    BY <1>2, <1>4 DEF FullResync, SlaveTypes
  <2> QED BY <1>2, <2>1, FullServed DEF Served
<1>5. CASE PsyncReplyLost(s, c)
  <2>1. /\ AcceptFull(c) \/ AcceptPartial(s, c)
        /\ UNCHANGED <<data, db, partial, link>>
        /\ \A t \in Slaves : t # s => repl_state'[t] = repl_state[t]
    BY <1>2, <1>5 DEF PsyncReplyLost, SlaveTypes
  <2>2. ReaderServed(s)'
    BY <1>2, <2>1 DEF ReaderServed, Alive
  <2>3. CASE AcceptFull(c)
    BY <1>2, <2>1, <2>2, <2>3, FullServed DEF Served
  <2>4. CASE AcceptPartial(s, c)
    BY <1>2, <2>1, <2>2, <2>4, PartialServed DEF Served
  <2> QED BY <2>1, <2>3, <2>4
<1> QED BY <1>3, <1>4, <1>5

LEMMA ReadServed ==
  ASSUME Shape, Served, NEW s \in Slaves, readSyncBulkPayload(s) \/ readQueryFromClient(s)
  PROVE  Served'
<1> DEFINE c == link[s]
           item == Head(client[c].out)
<1>1. /\ Alive(s) /\ client[c].out # << >> /\ Received(s) /\ MasterUnchanged /\ link' = link
      /\ MasterTypes /\ SlaveTypes /\ Listed /\ Linked
  BY DEF readSyncBulkPayload, readQueryFromClient, Shape
<1>2. /\ c \in Conns /\ client'[c].replstate = "ONLINE" /\ client'[c].out = Tail(client[c].out)
      /\ \A x \in Conns : x # c => client'[x] = client[x]
      /\ UNCHANGED <<log, child, slaveseldb>>
  <2>1. c \in Conns /\ client'[c].replstate = "ONLINE" /\ client'[c].out = Tail(client[c].out)
        /\ \A x \in Conns : x # c => client'[x] = client[x]
    BY <1>1, ReceivedItem
  <2> QED BY <1>1, <2>1 DEF MasterUnchanged
<1>3. \A t \in Slaves : t # s => repl_state'[t] = repl_state[t] /\ data'[t] = data[t] /\ db'[t] = db[t] /\ partial'[t] = partial[t]
  BY <1>1 DEF readSyncBulkPayload, readQueryFromClient, SlaveTypes
<1>4. ASSUME NEW x \in Conns PROVE ClientServed(x)'
  <2>1. CASE x = c
    BY <1>2, <2>1 DEF ClientServed
  <2>2. CASE x # c
    <3>1. client'[x] = client[x]
      BY <1>2, <2>2
    <3> QED BY <1>2, <3>1 DEF Served, ClientServed
  <2> QED BY <2>1, <2>2
<1>5. ASSUME NEW t \in Slaves, t # s, Alive(t)' PROVE ReaderServed(t)'
  <2>1. link[t] \in Conns /\ link[t] # c
    BY <1>1, <1>5 DEF Alive, SlaveTypes, Linked
  <2>2. client'[link[t]] = client[link[t]]
    BY <1>2, <2>1
  <2>3. Alive(t) /\ ReaderServed(t)
    BY <1>1, <1>5, <2>2 DEF Alive, Served
  <2> QED BY <1>1, <1>2, <1>3, <1>5, <2>2, <2>3 DEF ReaderServed
<1>6. \A t \in Slaves : ~ Alive(t)' => ReaderServed(t)'
  BY DEF ReaderServed
<1>7. ReaderServed(s)'
  <2>1. CASE readSyncBulkPayload(s)
    <3>1. /\ repl_state[s] = "TRANSFER" /\ repl_state'[s] = "CONNECTED"
          /\ data'[s] = item.snap /\ db'[s] = 0
      BY <1>1, <2>1 DEF readSyncBulkPayload, SlaveTypes
    <3>2. Whole(Tail(client[c].out), <<item.snap, 0>>, log, slaveseldb)
      BY <1>1, <3>1 DEF Served, ReaderServed
    <3>3. Whole(client'[c].out, <<data'[s], db'[s]>>, log', slaveseldb')
      BY <1>2, <3>1, <3>2
    <3> QED BY <1>1, <3>1, <3>3 DEF ReaderServed
  <2>2. CASE readQueryFromClient(s)
    <3>1. /\ repl_state[s] = "CONNECTED" /\ repl_state'[s] = "CONNECTED" /\ partial'[s] = partial[s]
          /\ IF item.t = "select"
             THEN db' = [db EXCEPT ![s] = item.db] /\ UNCHANGED data
             ELSE data' = [data EXCEPT ![s] = Append(@, <<item.id, db[s]>>)] /\ UNCHANGED db
      BY <2>2 DEF readQueryFromClient
    <3>2. client[c].out \in Seq(Plain)
      BY <1>1, <3>1 DEF Linked
    <3>3. item \in Plain
      BY <1>1, <3>2
    <3>4. Ending(client[c].out, <<data[s], db[s]>>) = Ending(Tail(client[c].out), Reads(<<data[s], db[s]>>, item))
      BY <1>1, <3>2, EndingTail
    <3>5. item.t # "rdb"
      BY <3>3, Items
    <3> HIDE DEF item, c
    <3>6. Reads(<<data[s], db[s]>>, item) = <<data'[s], db'[s]>>
      <4>1. CASE item.t = "select"
        BY <1>1, <3>1, <4>1 DEF Reads, SlaveTypes
      <4>2. CASE item.t # "select"
        BY <1>1, <3>1, <3>5, <4>2 DEF Reads, SlaveTypes
      <4> QED BY <4>1, <4>2
    <3>7. ~ partial[s] => Whole(client[c].out, <<data[s], db[s]>>, log, slaveseldb)
      BY <1>1, <3>1 DEF Served, ReaderServed, c
    <3>8. ~ partial[s] => Whole(client'[c].out, <<data'[s], db'[s]>>, log', slaveseldb')
      BY <1>2, <3>4, <3>6, <3>7 DEF Whole
    <3> QED BY <1>1, <3>1, <3>8 DEF ReaderServed, c
  <2> QED BY <2>1, <2>2
<1> QED BY <1>4, <1>5, <1>6, <1>7 DEF Served

LEMMA HandshakeServed == ASSUME Shape, Served, NEW s \in Slaves, Handshakes(s) \/ Gives(s) PROVE Served'
<1>1. /\ UNCHANGED <<mvars, db, partial>>
      /\ repl_state'[s] \notin {"TRANSFER", "CONNECTED"}
      /\ \A t \in Slaves : t # s => repl_state'[t] = repl_state[t] /\ data'[t] = data[t] /\ link'[t] = link[t]
  BY DEF Handshakes, connectWithMaster, syncWithMaster, HandshakeFails, Gives, LoadFails, replicationCacheMaster,
         MasterClosed, FreeMaster, LinkEnds, FullResyncForkFails, Shape, SlaveTypes
<1>2. UNCHANGED <<log, child, slaveseldb, client>>
  BY <1>1 DEF mvars
<1>3. \A x \in Conns : ClientServed(x)'
  BY <1>2 DEF Served, ClientServed
<1>4. ReaderServed(s)'
  BY <1>1 DEF ReaderServed
<1>5. \A t \in Slaves : t # s => ReaderServed(t)'
  BY <1>1, <1>2 DEF Served, ReaderServed, Alive
<1> QED BY <1>3, <1>4, <1>5 DEF Served

LEMMA ServedInit == Init => Served
<1>1. Init => (\A c \in Conns : client[c].replstate = None) /\ (\A s \in Slaves : link[s] = None)
  BY NoClientRec DEF Init
<1> QED BY <1>1 DEF Served, ClientServed, ReaderServed, Alive, None

LEMMA ServedStep == ~ ForkMayFail /\ ~ ChildMayBeKilled /\ Shape /\ Served /\ [Next]_vars => Served'
<1> SUFFICES ASSUME ~ ForkMayFail, ~ ChildMayBeKilled, Shape, Served, [Next]_vars PROVE Served'
  OBVIOUS
<1>1. CASE MasterStep
  <2>1. ASSUME NEW c \in Conns, freeClient(c) PROVE Served'
    <3>1. /\ client'[c] = NoClient /\ (\A x \in Conns : x # c => client'[x] = client[x])
          /\ UNCHANGED <<log, child, slaveseldb, link, repl_state, data, db, partial>>
      BY <2>1, Freed DEF Shape, svars
    <3> QED BY <3>1, FreedServed
  <2>2. CASE freeReplicationBacklog
    <3>1. UNCHANGED <<client, log, child, slaveseldb, link, repl_state, data, db, partial>>
      BY <2>2 DEF freeReplicationBacklog, svars
    <3> QED BY <3>1, FreedServed
  <2> QED BY <1>1, <2>1, <2>2, FeedServed, BgsaveServed, SaveDoneServed, SendBulkServed, RestartServed DEF MasterStep
<1>2. ASSUME NEW s \in Slaves, SlaveStep(s) PROVE Served'
  BY <1>2, AnsweredServed, ReadServed, HandshakeServed DEF SlaveStep, Handshakes, Gives
<1>3. ASSUME NEW s \in Slaves, NEW c \in Conns, FullResync(s, c) PROVE Served'
  BY <1>3, AnsweredServed
<1>4. CASE UNCHANGED vars
  BY <1>4 DEF vars, mvars, svars, Served, ClientServed, ReaderServed, Alive
<1> QED BY <1>1, <1>2, <1>3, <1>4 DEF Next

\* When every fork succeeds and no BGSAVE child dies of a signal, a full
\* resynchronisation loses nothing, whatever the slaves that share a child, the
\* failures of links and children and the restarts of the master; a slave that waits
\* for a file has a child that writes it; a master with slaves has a backlog.
THEOREM SlavesServedAlways ==
  ASSUME ~ ForkMayFail, ~ ChildMayBeKilled
  PROVE  Spec => []SlavesServed
<1>1. Init => Shape /\ Served
  BY ShapeInit, ServedInit
<1>2. Shape /\ Served /\ [Next]_vars => (Shape /\ Served)'
  BY ShapeStep, ServedStep
<1>3. Shape /\ Served => SlavesServed
  <2> SUFFICES ASSUME Shape, Served PROVE SlavesServed
    OBVIOUS
  <2>1. \A c \in Range(slaves) : c \in Conns
    BY DEF Shape, Listed
  <2>2. FullResyncExact
    BY <2>1 DEF Served, ClientServed, ReaderServed, Whole, Replay, FullResyncExact
  <2>3. WaitersHaveChild
    BY <2>1 DEF Served, ClientServed, WaitersHaveChild, Waiting
  <2>4. BacklogForSlaves
    BY DEF Shape, Listed, BacklogForSlaves
  <2> QED BY <2>2, <2>3, <2>4 DEF SlavesServed
<1> QED BY <1>1, <1>2, <1>3, PTL DEF Spec

-----------------------------------------------------------------------------
(* Partial resynchronisation                                               *)

\* Two streams end alike, as far as the shorter goes.
SameTail(out, h) == \A i \in 1..Len(out) : i <= Len(h) => out[Len(out) - i + 1] = h[Len(h) - i + 1]

\* The unread commands of a slave in state st and at offset off of the stream.
Fits(out, off, st, lg, sel, mro, h) == Whole(out, st, lg, sel) /\ Len(out) = mro - off /\ SameTail(out, h)

LEMMA ConcatPlain ==
  \A p, q \in Seq(Plain) : p \o q \in Seq(Plain) /\ Len(p \o q) = Len(p) + Len(q)
OBVIOUS

LEMMA SameTailConcat ==
  ASSUME NEW out \in Seq(Plain), NEW h \in Seq(Plain), NEW t \in Seq(Plain), SameTail(out, h)
  PROVE  SameTail(out \o t, h \o t)
<1>1. /\ Len(out) \in Nat /\ Len(h) \in Nat /\ Len(t) \in Nat
      /\ Len(out \o t) = Len(out) + Len(t) /\ Len(h \o t) = Len(h) + Len(t)
      /\ \A j \in 1..Len(t) : (out \o t)[Len(out) + j] = t[j] /\ (h \o t)[Len(h) + j] = t[j]
      /\ \A j \in 1..Len(out) : (out \o t)[j] = out[j]
      /\ \A j \in 1..Len(h) : (h \o t)[j] = h[j]
  OBVIOUS
<1>2. PICK a, b, m, n, k : a = out \o t /\ b = h \o t /\ m = Len(out) /\ n = Len(h) /\ k = Len(t)
  OBVIOUS
<1>3. ASSUME NEW i \in 1..(m + k), i <= n + k PROVE a[(m + k) - i + 1] = b[(n + k) - i + 1]
  <2>1. CASE i <= k
    <3>1. (k - i) + 1 \in 1..k /\ (m + k) - i + 1 = m + ((k - i) + 1) /\ (n + k) - i + 1 = n + ((k - i) + 1)
      BY <1>1, <1>2, <2>1
    <3> QED BY <1>1, <1>2, <3>1
  <2>2. CASE ~ i <= k
    <3>1. /\ i - k \in 1..m /\ i - k <= n
          /\ (m + k) - i + 1 = m - (i - k) + 1 /\ (n + k) - i + 1 = n - (i - k) + 1
          /\ m - (i - k) + 1 \in 1..m /\ n - (i - k) + 1 \in 1..n
      BY <1>1, <1>2, <1>3, <2>2
    <3>2. out[m - (i - k) + 1] = h[n - (i - k) + 1]
      BY <1>2, <3>1 DEF SameTail
    <3> QED BY <1>1, <1>2, <3>1, <3>2
  <2> QED BY <2>1, <2>2
<1>4. Len(a) = m + k /\ Len(b) = n + k
  BY <1>1, <1>2
<1>5. SameTail(a, b)
  BY <1>3, <1>4 DEF SameTail
<1> QED BY <1>2, <1>5

LEMMA SameTailRecent ==
  ASSUME NEW out \in Seq(Plain), NEW h \in Seq(Plain), SameTail(out, h)
  PROVE  SameTail(out, Recent(h)) /\ Len(Recent(h)) <= Len(h) /\ Len(Recent(h)) \in Nat
<1>1. BacklogSize \in Nat /\ BacklogSize # 0 /\ Len(h) \in Nat /\ Len(out) \in Nat
  BY ReplicationAssumption
<1>2. CASE Len(h) <= BacklogSize
  BY <1>1, <1>2 DEF Recent
<1>3. CASE ~ Len(h) <= BacklogSize
  <2>1. PICK r, m, n, B : r = Recent(h) /\ m = Len(out) /\ n = Len(h) /\ B = BacklogSize
    OBVIOUS
  <2>2. r = SubSeq(h, n - B + 1, n)
    BY <1>3, <2>1 DEF Recent
  <2>3. Len(r) = B /\ \A j \in 1..B : r[j] = h[(n - B + 1) + j - 1]
    <3>1. n - B + 1 \in 1..(n + 1) /\ n \in Nat /\ n = Len(h) /\ B \in Nat /\ n - (n - B + 1) + 1 = B
      BY <1>1, <1>3, <2>1
    <3>2. n \in (n - B + 1 - 1)..Len(h)
      BY <3>1
    <3>3. PICK k : k = n - B + 1
      OBVIOUS
    <3>4. /\ SubSeq(h, k, n) \in Seq(Plain) /\ Len(SubSeq(h, k, n)) = n - k + 1
          /\ \A j \in 1..(n - k + 1) : SubSeq(h, k, n)[j] = h[k + j - 1]
      BY <3>1, <3>3, <1>1
    <3> QED BY <2>2, <3>1, <3>3, <3>4
  <2>4. ASSUME NEW i \in 1..m, i <= B PROVE out[m - i + 1] = r[B - i + 1]
    <3>1. i <= n /\ B - i + 1 \in 1..B /\ (n - B + 1) + (B - i + 1) - 1 = n - i + 1
      BY <1>1, <1>3, <2>1, <2>4
    <3>2. out[m - i + 1] = h[n - i + 1]
      BY <2>1, <3>1 DEF SameTail
    <3> QED BY <2>3, <3>1, <3>2
  <2>5. SameTail(out, r)
    BY <2>1, <2>3, <2>4 DEF SameTail
  <2> QED BY <1>1, <1>3, <2>1, <2>3, <2>5
<1> QED BY <1>2, <1>3

\* A stream that fits still does with the next write.
LEMMA FedFits ==
  ASSUME MasterTypes, NEW x \in DBs, NEW out \in Seq(Plain), NEW off \in Int, NEW st,
         Fits(out, off, st, log, slaveseldb, master_repl_offset, hist)
  PROVE  /\ out \o Sel(x) \o Written \in Seq(Plain)
         /\ Fits(out \o Sel(x) \o Written, off, st, Append(log, <<nwrites + 1, x>>), x,
                 master_repl_offset + Len(Sel(x)) + 1, Recent(hist \o Sel(x) \o Written))
<1>1. /\ Sel(x) \in Seq(Plain) /\ Written \in Seq(Plain) /\ Len(Written) = 1 /\ Len(Sel(x)) \in Nat
      /\ hist \in Seq(Plain) /\ master_repl_offset \in Nat
  BY Items DEF Sel, Written, MasterTypes
<1>2. Whole(out \o Sel(x) \o Written, st, Append(log, <<nwrites + 1, x>>), x)
  BY FedWhole, PlainStreams DEF Fits
<1>3. /\ out \o Sel(x) \in Seq(Plain) /\ hist \o Sel(x) \in Seq(Plain)
      /\ out \o Sel(x) \o Written \in Seq(Plain) /\ hist \o Sel(x) \o Written \in Seq(Plain)
      /\ Len(out \o Sel(x) \o Written) = Len(out) + Len(Sel(x)) + 1
  <2>1. PICK a, b : a = Sel(x) /\ b = Written
    OBVIOUS
  <2>2. a \in Seq(Plain) /\ b \in Seq(Plain) /\ Len(b) = 1
    BY <1>1, <2>1
  <2>3. /\ out \o a \in Seq(Plain) /\ hist \o a \in Seq(Plain) /\ Len(out \o a) = Len(out) + Len(a)
    BY <1>1, <2>2
  <2>4. /\ out \o a \o b \in Seq(Plain) /\ hist \o a \o b \in Seq(Plain)
        /\ Len(out \o a \o b) = Len(out \o a) + 1
    <3>1. PICK oa, ha : oa = out \o a /\ ha = hist \o a
      OBVIOUS
    <3>2. oa \in Seq(Plain) /\ ha \in Seq(Plain)
      BY <2>3, <3>1
    <3>3. oa \o b \in Seq(Plain) /\ ha \o b \in Seq(Plain) /\ Len(oa \o b) = Len(oa) + Len(b)
      BY <2>2, <3>2, ConcatPlain
    <3> QED BY <2>2, <3>1, <3>3
  <2> QED BY <2>1, <2>3, <2>4
<1>4. SameTail(out \o Sel(x), hist \o Sel(x))
  BY <1>1, SameTailConcat DEF Fits
<1>5. SameTail(out \o Sel(x) \o Written, hist \o Sel(x) \o Written)
  BY <1>1, <1>3, <1>4, SameTailConcat
<1>6. SameTail(out \o Sel(x) \o Written, Recent(hist \o Sel(x) \o Written))
  BY <1>3, <1>5, SameTailRecent
<1>7. Len(out) = master_repl_offset - off
  BY DEF Fits
<1>8. Len(out \o Sel(x) \o Written) = (master_repl_offset + Len(Sel(x)) + 1) - off
  BY <1>1, <1>3, <1>7
<1> QED BY <1>2, <1>3, <1>6, <1>8 DEF Fits

\* What the backlog holds from an offset on is the stream that fits there.
LEMMA FitsBacklog ==
  ASSUME NEW w \in Seq(Plain), NEW h \in Seq(Plain), NEW off \in Int, NEW mro \in Int,
         SameTail(w, h), Len(w) = mro - off, off + 1 >= mro - Len(h) + 1
  PROVE  SubSeq(h, (off + 1) - (mro - Len(h) + 1) + 1, Len(h)) = w
<1>1. PICK n, m : n = Len(h) /\ m = Len(w)
  OBVIOUS
<1>2. n \in Nat /\ m \in Nat /\ m <= n /\ (off + 1) - (mro - n + 1) + 1 = n - m + 1
  BY <1>1
<1> DEFINE r == SubSeq(h, n - m + 1, n)
<1>3. r \in Seq(Plain) /\ Len(r) = m /\ \A j \in 1..m : r[j] = h[(n - m + 1) + j - 1]
  BY <1>1, <1>2
<1> HIDE DEF r
<1>4. ASSUME NEW j \in 1..m PROVE r[j] = w[j]
  <2>1. m - j + 1 \in 1..m /\ m - j + 1 <= n /\ m - (m - j + 1) + 1 = j /\ n - (m - j + 1) + 1 = (n - m + 1) + j - 1
    BY <1>2
  <2>2. w[m - (m - j + 1) + 1] = h[n - (m - j + 1) + 1]
    BY <1>1, <2>1 DEF SameTail
  <2>3. w[j] = h[(n - m + 1) + j - 1]
    BY <2>1, <2>2
  <2> QED BY <1>3, <2>3
<1>5. r = w
  <2>1. Len(w) = m
    BY <1>1
  <2> QED BY <1>2, <1>3, <1>4, <2>1, SeqEqual
<1> QED BY <1>1, <1>2, <1>5 DEF r

(* A slave that waits for its file waits for a child that writes it; the   *)
(* offset it was promised is that of the file.                             *)
FileOf(s) ==
  LET x == client[link[s]] IN
  repl_state[s] = "TRANSFER" =>
    /\ x.replstate # None => initial[s].runid = runid
    /\ x.replstate # "WAIT_BGSAVE_START"
    /\ x.replstate = "WAIT_BGSAVE_END" =>
         child # {} /\ \A snap \in child : Fits(x.out, initial[s].off, <<snap, 0>>, log, slaveseldb, master_repl_offset, hist)
    /\ x.replstate = "SEND_BULK" => Fits(x.out, initial[s].off, <<x.file, 0>>, log, slaveseldb, master_repl_offset, hist)
    /\ x.replstate = "ONLINE" =>
         Fits(Tail(x.out), initial[s].off, <<Head(x.out).snap, 0>>, log, slaveseldb, master_repl_offset, hist)

StreamOf(s) ==
  repl_state[s] = "CONNECTED" /\ Alive(s) =>
    /\ replrunid[s] = runid
    /\ Fits(client[link[s]].out, reploff[s], <<data[s], db[s]>>, log, slaveseldb, master_repl_offset, hist)

(* A slave whose offset is in the backlog has missed what the backlog holds *)
(* from there on.                                                          *)
Resumable(s) == /\ cached[s] \/ repl_state[s] = "CONNECTED"
                /\ replrunid[s] = runid /\ repl_backlog
                /\ reploff[s] + 1 >= master_repl_offset - Len(hist) + 1
Missing(s) ==
  Resumable(s) => \E w \in Seq(Plain) :
                    Fits(w, reploff[s], <<data[s], db[s]>>, log, slaveseldb, master_repl_offset, hist)

Offsets(s) ==
  /\ replrunid[s] <= runid /\ initial[s].runid <= runid
  /\ replrunid[s] = runid => reploff[s] <= master_repl_offset

Continued(s) == FileOf(s) /\ StreamOf(s) /\ Missing(s) /\ Offsets(s)
Continues == \A s \in Slaves : Continued(s)

SameSlave(s) ==
  /\ link'[s] = link[s] /\ repl_state'[s] = repl_state[s] /\ data'[s] = data[s] /\ cached'[s] = cached[s]
  /\ reploff'[s] = reploff[s] /\ replrunid'[s] = replrunid[s] /\ db'[s] = db[s] /\ initial'[s] = initial[s]

LEMMA AllSame == ASSUME UNCHANGED svars, NEW s \in Slaves PROVE SameSlave(s)
BY DEF svars, SameSlave

LEMMA Numbers ==
  ASSUME Shape, NEW s \in Slaves
  PROVE  /\ runid \in Nat /\ replrunid[s] \in Nat /\ initial[s].runid \in Nat
         /\ reploff[s] \in Int /\ initial[s].off \in Int /\ master_repl_offset \in Nat
         /\ hist \in Seq(Plain) /\ Len(hist) \in Nat /\ repl_backlog \in BOOLEAN /\ log \in DataSet
         /\ link[s] \in Conns \cup {None} /\ cached[s] \in BOOLEAN
         /\ slaveseldb \in DBs \cup {-1}
BY DEF Shape, MasterTypes, SlaveTypes

\* Nothing happened to this slave, but its connection may have been closed.
LEMMA SameContinued ==
  ASSUME Shape, NEW s \in Slaves, Continued(s), SameSlave(s),
         UNCHANGED <<runid, log, child, repl_backlog, hist, master_repl_offset, slaveseldb>>,
         link[s] # None => client'[link[s]] = client[link[s]] \/ client'[link[s]] = NoClient
  PROVE  Continued(s)'
<1>1. Missing(s)' /\ Offsets(s)'
  BY DEF Continued, Missing, Resumable, Offsets, SameSlave
<1>2. CASE link[s] = None
  <2>1. repl_state[s] \notin {"TRANSFER", "CONNECTED"}
    BY <1>2 DEF Shape, Linked
  <2>2. repl_state'[s] \notin {"TRANSFER", "CONNECTED"}
    BY <2>1 DEF SameSlave
  <2> QED BY <1>1, <2>2 DEF Continued, FileOf, StreamOf
<1>3. CASE link[s] # None /\ client'[link[s]] = NoClient
  <2>1. link'[s] = link[s] /\ client'[link[s]].replstate = None
    BY <1>3, NoClientRec DEF SameSlave
  <2>2. FileOf(s)' /\ StreamOf(s)'
    BY <2>1 DEF FileOf, StreamOf, Alive, None
  <2> QED BY <1>1, <2>2 DEF Continued
<1>4. CASE link[s] # None /\ client'[link[s]] = client[link[s]]
  <2>1. FileOf(s)'
    BY <1>4 DEF Continued, FileOf, SameSlave
  <2>2. StreamOf(s)'
    BY <1>4 DEF Continued, StreamOf, Alive, SameSlave
  <2> QED BY <1>1, <2>1, <2>2 DEF Continued
<1> QED BY <1>2, <1>3, <1>4

LEMMA FeedContinued == ASSUME Shape, NEW s \in Slaves, Continued(s), NEW x \in DBs, replicationFeedSlaves(x) PROVE Continued(s)'
<1>1. MasterTypes /\ SlaveTypes /\ Listed /\ Linked
  BY DEF Shape
<1>2. /\ log' = Append(log, <<nwrites + 1, x>>)
      /\ UNCHANGED <<runid, child, repl_backlog>> /\ UNCHANGED svars
      /\ \A c \in Conns :
              /\ client'[c].replstate = client[c].replstate /\ client'[c].file = client[c].file
              /\ client[c].replstate \notin {None, "WAIT_BGSAVE_START"} => client'[c].out = client[c].out \o Sel(x) \o Written
      /\ IF ~ repl_backlog /\ slaves = << >> THEN UNCHANGED <<hist, master_repl_offset, slaveseldb>>
            ELSE /\ hist' = Recent(hist \o Sel(x) \o Written) /\ slaveseldb' = x
                 /\ master_repl_offset' = master_repl_offset + Len(Sel(x)) + 1
  BY <1>1, FedClients
<1>3. SameSlave(s)
  BY <1>2, AllSame
<1>4. Sel(x) \in Seq(Plain) /\ Written \in Seq(Plain) /\ Len(Sel(x)) \in Nat /\ Len(Written) = 1
  BY <1>1, Items DEF Sel, Written, MasterTypes
<1>5. CASE ~ repl_backlog
  <2>1. slaves = << >> /\ UNCHANGED <<hist, master_repl_offset, slaveseldb>>
    BY <1>1, <1>2, <1>5 DEF Listed
  <2>2. \A c \in Conns : client[c].replstate = None /\ client'[c].replstate = None
    BY <1>1, <1>2, <2>1, RangeEmpty DEF Listed, MasterTypes
  <2>3. FileOf(s)' /\ StreamOf(s)'
    <3>1. link[s] \in Conns => client'[link[s]].replstate = None
      BY <2>2
    <3>2. repl_state[s] \in {"TRANSFER", "CONNECTED"} => link[s] \in Conns
      BY <1>1 DEF Linked, SlaveTypes
    <3> QED BY <1>3, <3>1, <3>2 DEF FileOf, StreamOf, SameSlave, Alive, None
  <2>4. Missing(s)'
    BY <1>2, <1>5 DEF Missing, Resumable
  <2>5. Offsets(s)'
    BY <1>2, <1>3, <2>1 DEF Continued, Offsets, SameSlave
  <2> QED BY <2>3, <2>4, <2>5 DEF Continued
<1>6. CASE repl_backlog
  <2>1. /\ hist' = Recent(hist \o Sel(x) \o Written) /\ slaveseldb' = x
        /\ master_repl_offset' = master_repl_offset + Len(Sel(x)) + 1
    BY <1>2, <1>6
  <2>2. \A out \in Seq(Plain), off \in Int : \A st :
          Fits(out, off, st, log, slaveseldb, master_repl_offset, hist) =>
            /\ out \o Sel(x) \o Written \in Seq(Plain)
            /\ Fits(out \o Sel(x) \o Written, off, st, log', slaveseldb', master_repl_offset', hist')
    BY <1>1, <1>2, <2>1, FedFits
  <2>3. ASSUME repl_state[s] = "TRANSFER" PROVE FileOf(s)'
    <3> DEFINE c == link[s]
    <3>1. c \in Conns /\ link'[s] = c /\ initial'[s] = initial[s] /\ repl_state'[s] = "TRANSFER" /\ initial[s].off \in Int /\ c # None
      BY <1>1, <1>3, <2>3, Numbers DEF SlaveTypes, Linked, SameSlave
    <3>2. /\ client'[c].replstate = client[c].replstate /\ client'[c].file = client[c].file
          /\ client[c].replstate \notin {None, "WAIT_BGSAVE_START"} => client'[c].out = client[c].out \o Sel(x) \o Written
      BY <1>2, <3>1
    <3>3. client[c].replstate # None => initial[s].runid = runid
      BY <2>3 DEF Continued, FileOf
    <3>4. client[c].replstate # "WAIT_BGSAVE_START"
      BY <2>3 DEF Continued, FileOf
    <3>5. ASSUME client[c].replstate = "WAIT_BGSAVE_END"
          PROVE child' # {} /\ \A snap \in child' : Fits(client'[c].out, initial[s].off, <<snap, 0>>, log', slaveseldb', master_repl_offset', hist')
      <4>1. child # {} /\ \A snap \in child : Fits(client[c].out, initial[s].off, <<snap, 0>>, log, slaveseldb, master_repl_offset, hist)
        BY <2>3, <3>5 DEF Continued, FileOf
      <4>2. client[c].out \in Seq(Plain) /\ client'[c].out = client[c].out \o Sel(x) \o Written
        BY <1>1, <3>1, <3>2, <3>5 DEF Listed, None
      <4> QED BY <1>2, <2>2, <3>1, <4>1, <4>2
    <3>6. ASSUME client[c].replstate = "SEND_BULK"
          PROVE Fits(client'[c].out, initial[s].off, <<client'[c].file, 0>>, log', slaveseldb', master_repl_offset', hist')
      <4>1. Fits(client[c].out, initial[s].off, <<client[c].file, 0>>, log, slaveseldb, master_repl_offset, hist)
        BY <2>3, <3>6 DEF Continued, FileOf
      <4>2. client[c].out \in Seq(Plain) /\ client'[c].out = client[c].out \o Sel(x) \o Written /\ client'[c].file = client[c].file
        BY <1>1, <3>1, <3>2, <3>6 DEF Listed, None
      <4> QED BY <2>2, <3>1, <4>1, <4>2
    <3>7. ASSUME client[c].replstate = "ONLINE"
          PROVE Fits(Tail(client'[c].out), initial[s].off, <<Head(client'[c].out).snap, 0>>, log', slaveseldb', master_repl_offset', hist')
      <4>1. Fits(Tail(client[c].out), initial[s].off, <<Head(client[c].out).snap, 0>>, log, slaveseldb, master_repl_offset, hist)
        BY <2>3, <3>7 DEF Continued, FileOf
      <4>2. client[c].out \in Seq(Item) /\ client[c].out # << >> /\ Tail(client[c].out) \in Seq(Plain)
            /\ client'[c].out = client[c].out \o Sel(x) \o Written
        BY <1>1, <2>3, <3>1, <3>2, <3>7, ClientFields DEF Linked, Alive, None
      <4>3. Sel(x) \in Seq(Item) /\ Written \in Seq(Item)
        BY <1>4, PlainStreams
      <4>4. \A out \in Seq(Item) : out # << >> => /\ Head(out \o Sel(x) \o Written) = Head(out)
                                                   /\ Tail(out \o Sel(x) \o Written) = Tail(out) \o Sel(x) \o Written
        BY <4>3
      <4>5. Head(client'[c].out) = Head(client[c].out) /\ Tail(client'[c].out) = Tail(client[c].out) \o Sel(x) \o Written
        BY <4>2, <4>4
      <4> QED BY <2>2, <3>1, <4>1, <4>2, <4>5
    <3> QED BY <1>2, <3>1, <3>2, <3>3, <3>4, <3>5, <3>6, <3>7 DEF FileOf
  <2>4. ASSUME repl_state[s] = "CONNECTED", Alive(s)' PROVE StreamOf(s)'
    <3>1. link[s] \in Conns /\ link'[s] = link[s] /\ Alive(s) /\ client[link[s]].replstate = "ONLINE"
      BY <1>1, <1>2, <1>3, <2>4 DEF SlaveTypes, SameSlave, Alive
    <3>2. /\ replrunid[s] = runid /\ client[link[s]].out \in Seq(Plain)
          /\ Fits(client[link[s]].out, reploff[s], <<data[s], db[s]>>, log, slaveseldb, master_repl_offset, hist)
      BY <1>1, <2>4, <3>1 DEF Continued, StreamOf, Linked
    <3>3. client'[link[s]].out = client[link[s]].out \o Sel(x) \o Written
      BY <1>2, <3>1 DEF None
    <3>4. Fits(client'[link[s]].out, reploff[s], <<data[s], db[s]>>, log', slaveseldb', master_repl_offset', hist')
      BY <2>2, <3>2, <3>3, Numbers
    <3> QED BY <1>2, <1>3, <3>1, <3>2, <3>4 DEF StreamOf, SameSlave
  <2>5. ASSUME Resumable(s)' PROVE Missing(s)'
    <3>1. Len(hist \o Sel(x) \o Written) = Len(hist) + Len(Sel(x)) + 1 /\ hist \o Sel(x) \o Written \in Seq(Plain)
      <4>1. PICK a, h : a = Sel(x) /\ h = hist \o a
        OBVIOUS
      <4>2. h \in Seq(Plain) /\ Len(h) = Len(hist) + Len(a)
        BY <1>4, <4>1, Numbers
      <4>3. h \o Written \in Seq(Plain) /\ Len(h \o Written) = Len(h) + 1
        BY <1>4, <4>2, ConcatPlain
      <4> QED BY <4>1, <4>2, <4>3
    <3>2. Len(hist') <= Len(hist) + Len(Sel(x)) + 1 /\ Len(hist') \in Nat
      <4>1. SameTail(hist \o Sel(x) \o Written, hist \o Sel(x) \o Written)
        BY DEF SameTail
      <4> QED BY <2>1, <3>1, <4>1, SameTailRecent
    <3>3. Resumable(s)
      <4>1. reploff[s] + 1 >= master_repl_offset' - Len(hist') + 1 /\ (cached[s] \/ repl_state[s] = "CONNECTED") /\ replrunid[s] = runid
        BY <1>2, <1>3, <2>5 DEF Resumable, SameSlave
      <4>2. reploff[s] + 1 >= master_repl_offset - Len(hist) + 1
        <5>1. master_repl_offset' = master_repl_offset + Len(Sel(x)) + 1 /\ Len(Sel(x)) \in Nat
          BY <1>4, <2>1
        <5>2. reploff[s] \in Int /\ master_repl_offset \in Nat /\ Len(hist) \in Nat
          BY Numbers
        <5>3. \A o \in Int, m, n, k, r \in Nat : r <= n + k + 1 /\ o + 1 >= (m + k + 1) - r + 1 => o + 1 >= m - n + 1
          OBVIOUS
        <5> QED BY <3>2, <4>1, <5>1, <5>2, <5>3
      <4> QED BY <1>6, <4>1, <4>2 DEF Resumable
    <3>4. PICK w \in Seq(Plain) : Fits(w, reploff[s], <<data[s], db[s]>>, log, slaveseldb, master_repl_offset, hist)
      BY <3>3 DEF Continued, Missing
    <3>5. /\ w \o Sel(x) \o Written \in Seq(Plain)
          /\ Fits(w \o Sel(x) \o Written, reploff[s], <<data[s], db[s]>>, log', slaveseldb', master_repl_offset', hist')
      BY <2>2, <3>4, Numbers
    <3>6. /\ w \o Sel(x) \o Written \in Seq(Plain)
          /\ Fits(w \o Sel(x) \o Written, reploff'[s], <<data'[s], db'[s]>>, log', slaveseldb', master_repl_offset', hist')
      BY <1>3, <3>5 DEF SameSlave
    <3> QED BY <3>6 DEF Missing
  <2>6. Offsets(s)'
    BY <1>2, <1>3, <1>4, <2>1, Numbers DEF Continued, Offsets, SameSlave
  <2>7. repl_state[s] # "TRANSFER" => FileOf(s)'
    BY <1>3 DEF FileOf, SameSlave
  <2>8. ~ (repl_state[s] = "CONNECTED" /\ Alive(s)') => StreamOf(s)'
    BY <1>3 DEF StreamOf, SameSlave
  <2>9. ~ Resumable(s)' => Missing(s)'
    BY DEF Missing
  <2> QED BY <2>3, <2>4, <2>5, <2>6, <2>7, <2>8, <2>9 DEF Continued
<1> QED BY <1>1, <1>5, <1>6 DEF MasterTypes

\* A BGSAVE ends, by itself: the slaves that wait for it are sent the file or dropped.
LEMMA SaveDoneContinued ==
  ASSUME Shape, NEW s \in Slaves, Continued(s), ~ ChildMayBeKilled,
         NEW how \in {"saved", "error", "killed"}, NEW forked \in BOOLEAN, backgroundSaveDoneHandler(how, forked)
  PROVE  Continued(s)'
<1>1. MasterTypes /\ SlaveTypes /\ Listed /\ Linked
  BY DEF Shape
<1>2. /\ how \in {"saved", "error"}
      /\ how = "saved" => rdb' \in child
      /\ UNCHANGED <<runid, log, repl_backlog, hist, master_repl_offset, slaveseldb>> /\ UNCHANGED svars
  BY <1>1, SaveDone DEF Others
<1>3. SameSlave(s)
  BY <1>2, AllSame
<1>4. Missing(s)' /\ Offsets(s)'
  BY <1>2, <1>3 DEF Continued, Missing, Resumable, Offsets, SameSlave
<1>5. ASSUME repl_state[s] = "TRANSFER" PROVE FileOf(s)'
  <2> DEFINE c == link[s]
  <2>1. c \in Conns
    BY <1>1, <1>5 DEF Linked, SlaveTypes
  <2>2. link'[s] = c /\ repl_state'[s] = "TRANSFER" /\ initial'[s] = initial[s]
    BY <1>3, <1>5 DEF SameSlave
  <2>3. client[c].replstate # "WAIT_BGSAVE_START" /\ (client[c].replstate # None => initial[s].runid = runid)
    BY <1>5 DEF Continued, FileOf
  <2>4. CASE client[c].replstate = "WAIT_BGSAVE_END" /\ how = "error"
    <3>1. client'[c] = NoClient
      BY <1>1, <2>1, <2>4, SaveDone
    <3>2. client'[c].replstate = None
      BY <3>1, NoClientRec
    <3> QED BY <2>2, <3>2 DEF FileOf, None
  <2>5. CASE client[c].replstate = "WAIT_BGSAVE_END" /\ how = "saved"
    <3>1. client'[c] = [replstate |-> "SEND_BULK", out |-> client[c].out, file |-> rdb']
      BY <1>1, <2>1, <2>5, SaveDone
    <3>2. client'[c].replstate = "SEND_BULK" /\ client'[c].out = client[c].out /\ client'[c].file = rdb'
      BY <3>1
    <3>3. Fits(client[c].out, initial[s].off, <<rdb', 0>>, log, slaveseldb, master_repl_offset, hist)
      BY <1>2, <1>5, <2>5 DEF Continued, FileOf
    <3>4. client[c].replstate # None
      BY <2>5 DEF None
    <3> HIDE DEF c
    <3> QED BY <1>2, <2>2, <2>3, <3>2, <3>3, <3>4 DEF FileOf
  <2>6. CASE client[c].replstate # "WAIT_BGSAVE_END"
    <3>1. client'[c] = client[c]
      BY <1>1, <2>1, <2>3, <2>6, SaveDone
    <3> QED BY <1>2, <1>5, <2>2, <2>6, <3>1 DEF Continued, FileOf
  <2> QED BY <1>2, <2>4, <2>5, <2>6
<1>6. ASSUME repl_state[s] = "CONNECTED" PROVE StreamOf(s)'
  <2>1. link[s] \in Conns /\ client[link[s]].replstate \in {None, "ONLINE"}
    BY <1>1, <1>6 DEF Linked, SlaveTypes
  <2>2. client'[link[s]] = client[link[s]]
    BY <1>1, <2>1, SaveDone DEF None
  <2> QED BY <1>2, <1>3, <2>2 DEF Continued, StreamOf, Alive, SameSlave
<1>7. repl_state[s] # "TRANSFER" => FileOf(s)'
  BY <1>3 DEF FileOf, SameSlave
<1>8. repl_state[s] # "CONNECTED" => StreamOf(s)'
  BY <1>3 DEF StreamOf, SameSlave
<1> QED BY <1>4, <1>5, <1>6, <1>7, <1>8 DEF Continued

LEMMA BgsaveContinued == ASSUME Shape, NEW s \in Slaves, Continued(s), bgsaveCommand PROVE Continued(s)'
<1>1. /\ child = {}
      /\ UNCHANGED <<runid, log, repl_backlog, hist, master_repl_offset, slaveseldb, client>> /\ UNCHANGED svars
  BY DEF bgsaveCommand
<1>2. SameSlave(s)
  BY <1>1, AllSame
<1>3. Missing(s)' /\ Offsets(s)'
  BY <1>1, <1>2 DEF Continued, Missing, Resumable, Offsets, SameSlave
<1>4. FileOf(s)'
  <2>1. repl_state[s] = "TRANSFER" => client[link[s]].replstate # "WAIT_BGSAVE_END"
    BY <1>1 DEF Continued, FileOf
  <2> QED BY <1>1, <1>2, <2>1 DEF Continued, FileOf, SameSlave
<1>5. StreamOf(s)'
  BY <1>1, <1>2 DEF Continued, StreamOf, Alive, SameSlave
<1> QED BY <1>3, <1>4, <1>5 DEF Continued

LEMMA SendBulkContinued ==
  ASSUME Shape, NEW s \in Slaves, Continued(s), NEW c \in Conns, sendBulkToSlave(c)
  PROVE  Continued(s)'
<1>1. MasterTypes /\ SlaveTypes /\ Listed /\ Linked
  BY DEF Shape
<1>2. /\ client[c].replstate = "SEND_BULK"
      /\ \A x \in Conns : x # c => client'[x] = client[x]
      /\ client'[c].replstate = "ONLINE"
      /\ Head(client'[c].out).snap = client[c].file /\ Tail(client'[c].out) = client[c].out
      /\ UNCHANGED <<runid, log, child, repl_backlog, hist, master_repl_offset, slaveseldb>> /\ UNCHANGED svars
  BY <1>1, SendBulk, Items
<1>3. SameSlave(s)
  BY <1>2, AllSame
<1>4. CASE link[s] # c
  <2>1. link[s] # None => client'[link[s]] = client[link[s]]
    BY <1>1, <1>2, <1>4 DEF SlaveTypes
  <2> QED BY <1>2, <1>3, <2>1, SameContinued
<1>5. CASE link[s] = c
  <2>1. repl_state[s] # "CONNECTED"
    BY <1>1, <1>2, <1>5 DEF Linked, None
  <2>2. Missing(s)' /\ Offsets(s)' /\ StreamOf(s)'
    BY <1>2, <1>3, <2>1 DEF Continued, Missing, Resumable, Offsets, StreamOf, SameSlave
  <2>3. ASSUME repl_state[s] = "TRANSFER" PROVE FileOf(s)'
    <3>1. initial[s].runid = runid /\ Fits(client[c].out, initial[s].off, <<client[c].file, 0>>, log, slaveseldb, master_repl_offset, hist)
      BY <1>2, <1>5, <2>3 DEF Continued, FileOf, None
    <3>2. Fits(Tail(client'[c].out), initial'[s].off, <<Head(client'[c].out).snap, 0>>, log', slaveseldb', master_repl_offset', hist')
      BY <1>2, <1>3, <3>1 DEF SameSlave
    <3>3. link'[s] = c /\ initial'[s].runid = runid'
      BY <1>2, <1>3, <1>5, <3>1 DEF SameSlave
    <3> QED BY <1>2, <3>2, <3>3 DEF FileOf
  <2>4. repl_state[s] # "TRANSFER" => FileOf(s)'
    BY <1>3 DEF FileOf, SameSlave
  <2> QED BY <2>2, <2>3, <2>4 DEF Continued
<1> QED BY <1>4, <1>5

LEMMA FreedContinued ==
  ASSUME Shape, NEW s \in Slaves, Continued(s), NEW c \in Conns, freeClient(c)
  PROVE  Continued(s)'
<1>1. MasterTypes /\ SlaveTypes
  BY DEF Shape
<1>2. /\ client'[c] = NoClient /\ (\A x \in Conns : x # c => client'[x] = client[x])
      /\ UNCHANGED <<runid, log, child, repl_backlog, hist, master_repl_offset, slaveseldb>> /\ UNCHANGED svars
  BY <1>1, Freed
<1>3. SameSlave(s)
  BY <1>2, AllSame
<1>4. link[s] # None => client'[link[s]] = client[link[s]] \/ client'[link[s]] = NoClient
  BY <1>1, <1>2 DEF SlaveTypes
<1> QED BY <1>2, <1>3, <1>4, SameContinued

LEMMA BacklogFreedContinued ==
  ASSUME Shape, NEW s \in Slaves, Continued(s), freeReplicationBacklog
  PROVE  Continued(s)'
<1>1. /\ slaves = << >> /\ repl_backlog' = FALSE
      /\ UNCHANGED <<runid, master_repl_offset, client>> /\ UNCHANGED svars
  BY DEF freeReplicationBacklog
<1>2. SameSlave(s)
  BY <1>1, AllSame
<1>3. \A c \in Conns : client[c].replstate = None
  BY <1>1, RangeEmpty DEF Shape, Listed, MasterTypes
<1>4. repl_state[s] \in {"TRANSFER", "CONNECTED"} => client[link[s]].replstate = None
  BY <1>3 DEF Shape, Linked, SlaveTypes
<1>5. FileOf(s)' /\ StreamOf(s)'
  BY <1>1, <1>2, <1>4 DEF FileOf, StreamOf, Alive, SameSlave, None
<1>6. Missing(s)' /\ Offsets(s)'
  BY <1>1, <1>2 DEF Continued, Missing, Resumable, Offsets, SameSlave
<1> QED BY <1>5, <1>6 DEF Continued

LEMMA RestartContinued ==
  ASSUME Shape, NEW s \in Slaves, Continued(s), MasterRestart
  PROVE  Continued(s)'
<1>1. /\ runid' = runid + 1 /\ repl_backlog' = FALSE /\ client' = [c \in Conns |-> NoClient] /\ UNCHANGED svars
  BY DEF MasterRestart
<1>2. SameSlave(s)
  BY <1>1, AllSame
<1>3. repl_state[s] \in {"TRANSFER", "CONNECTED"} => client'[link[s]].replstate = None
  BY <1>1, NoClientRec DEF Shape, Linked, SlaveTypes
<1>4. FileOf(s)' /\ StreamOf(s)'
  BY <1>2, <1>3 DEF FileOf, StreamOf, Alive, SameSlave, None
<1>5. Missing(s)'
  BY <1>1 DEF Missing, Resumable
<1>6. Offsets(s)'
  <2>1. replrunid[s] <= runid /\ initial[s].runid <= runid
    BY DEF Continued, Offsets
  <2> QED BY <1>1, <1>2, <2>1, Numbers DEF Offsets, SameSlave
<1> QED BY <1>4, <1>5, <1>6 DEF Continued

LEMMA FullContinued ==
  ASSUME Shape, NEW s \in Slaves, Continued(s), SameSlave(s), NEW c \in Conns, client[c] = NoClient, link[s] # c,
         AcceptFull(c)
  PROVE  Continued(s)'
<1>1. MasterTypes /\ SlaveTypes /\ Listed /\ Linked
  BY DEF Shape
<1>2. /\ child = {} \/ child' = child
      /\ \A x \in Conns : x # c => client'[x] = client[x]
      /\ slaveseldb' = -1 /\ repl_backlog' = TRUE /\ hist' = hist
      /\ master_repl_offset' = master_repl_offset + IF repl_backlog THEN 0 ELSE 1
      /\ UNCHANGED <<runid, log>>
  BY <1>1, FullAccepted
<1>3. link[s] # None => client'[link[s]] = client[link[s]]
  BY <1>1, <1>2 DEF SlaveTypes
<1>4. Offsets(s)'
  <2>1. master_repl_offset' >= master_repl_offset /\ master_repl_offset' \in Nat
    BY <1>1, <1>2 DEF MasterTypes
  <2>2. replrunid[s] = runid => reploff[s] <= master_repl_offset'
    <3>1. replrunid[s] = runid => reploff[s] <= master_repl_offset
      BY DEF Continued, Offsets
    <3>2. reploff[s] \in Int /\ master_repl_offset \in Nat
      BY Numbers
    <3> QED BY <2>1, <3>1, <3>2
  <2> QED BY <1>2, <2>2 DEF Continued, Offsets, SameSlave
<1>5. CASE ~ repl_backlog
  <2>1. slaves = << >> /\ hist = << >>
    BY <1>1, <1>5 DEF Listed
  <2>2. \A x \in Conns : client[x].replstate = None
    BY <1>1, <2>1, RangeEmpty DEF Listed, MasterTypes
  <2>3. repl_state[s] \in {"TRANSFER", "CONNECTED"} => client'[link[s]].replstate = None
    BY <1>1, <1>3, <2>2 DEF Linked, SlaveTypes
  <2>4. FileOf(s)' /\ StreamOf(s)'
    BY <2>3 DEF FileOf, StreamOf, Alive, SameSlave, None
  <2>5. ~ Resumable(s)'
    <3>1. reploff[s] \in Int /\ master_repl_offset \in Nat /\ master_repl_offset' = master_repl_offset + 1 /\ Len(hist') = 0
      BY <1>2, <1>5, <2>1, Numbers
    <3>2. replrunid[s] = runid => reploff[s] <= master_repl_offset
      BY DEF Continued, Offsets
    <3>3. \A o \in Int, m \in Nat : o <= m => ~ (o + 1 >= (m + 1) - 0 + 1)
      OBVIOUS
    <3>4. replrunid[s] = runid => ~ (reploff[s] + 1 >= master_repl_offset' - Len(hist') + 1)
      BY <3>1, <3>2, <3>3
    <3> QED BY <1>2, <3>4 DEF Resumable, SameSlave
  <2> QED BY <1>4, <2>4, <2>5 DEF Continued, Missing
<1>6. CASE repl_backlog
  <2>1. master_repl_offset' = master_repl_offset
    BY <1>1, <1>2, <1>6 DEF MasterTypes
  <2>2. \A out, off, st : Fits(out, off, st, log, slaveseldb, master_repl_offset, hist) =>
                            Fits(out, off, st, log', slaveseldb', master_repl_offset', hist')
    BY <1>2, <2>1 DEF Fits, Whole
  <2>3. Missing(s)'
    BY <1>2, <1>6, <2>1, <2>2 DEF Continued, Missing, Resumable, SameSlave
  <2>4. repl_state[s] = "TRANSFER" => FileOf(s)'
    <3>1. ASSUME repl_state[s] = "TRANSFER" PROVE FileOf(s)'
      <4>1. link[s] # None /\ client'[link[s]] = client[link[s]]
        BY <1>1, <1>3, <3>1 DEF Linked
      <4>2. link'[s] = link[s] /\ initial'[s] = initial[s] /\ runid' = runid
        BY <1>2 DEF SameSlave
      <4>3. client[link[s]].replstate = "WAIT_BGSAVE_END" => child' = child
        BY <1>2, <3>1 DEF Continued, FileOf
      <4> QED BY <2>2, <3>1, <4>1, <4>2, <4>3 DEF Continued, FileOf
    <3> QED BY <3>1
  <2>5. StreamOf(s)'
    <3>1. repl_state[s] = "CONNECTED" => link[s] # None /\ client'[link[s]] = client[link[s]]
      BY <1>1, <1>3 DEF Linked
    <3> QED BY <1>2, <2>2, <3>1 DEF Continued, StreamOf, Alive, SameSlave
  <2>6. repl_state[s] # "TRANSFER" => FileOf(s)'
    BY DEF FileOf, SameSlave
  <2> QED BY <1>4, <2>3, <2>4, <2>5, <2>6 DEF Continued
<1> QED BY <1>1, <1>5, <1>6 DEF MasterTypes

\* A slave that is neither connected nor able to resume.
LEMMA GoneContinued ==
  ASSUME Shape, NEW s \in Slaves, Continued(s),
         repl_state'[s] \notin {"TRANSFER", "CONNECTED"}, cached'[s] = FALSE,
         reploff'[s] = reploff[s], replrunid'[s] = replrunid[s], initial'[s] = initial[s],
         runid' = runid, master_repl_offset' >= master_repl_offset, master_repl_offset' \in Nat
  PROVE  Continued(s)'
<1>1. FileOf(s)' /\ StreamOf(s)' /\ Missing(s)'
  BY DEF FileOf, StreamOf, Missing, Resumable
<1>2. Offsets(s)'
  <2>1. reploff[s] \in Int /\ master_repl_offset \in Nat
    BY Numbers
  <2>2. replrunid[s] <= runid /\ initial[s].runid <= runid /\ (replrunid[s] = runid => reploff[s] <= master_repl_offset)
    BY DEF Continued, Offsets
  <2> QED BY <2>1, <2>2 DEF Offsets
<1> QED BY <1>1, <1>2 DEF Continued

LEMMA AnsweredContinued ==
  ASSUME Shape, Continues, NEW s \in Slaves, NEW c \in Conns,
         PartialResync(s, c) \/ (child = {} /\ FullResync(s, c)) \/ PsyncReplyLost(s, c)
  PROVE  Continues'
<1>1. PsyncSent(s, c)
  BY DEF PartialResync, FullResync, PsyncReplyLost
<1>2. /\ client[c] = NoClient /\ (\A t \in Slaves : link[t] # c) /\ link[s] = None
      /\ MasterTypes /\ SlaveTypes /\ Listed /\ reploff[s] \in Int
  BY <1>1, PsyncConn
<1>3. \A t \in Slaves : t # s => SameSlave(t)
  BY <1>2 DEF PartialResync, FullResync, PsyncReplyLost, SameSlave, SlaveTypes
<1>4. /\ AcceptPartial(s, c) \/ AcceptFull(c)
      /\ AcceptPartial(s, c) => /\ \A x \in Conns : x # c => client'[x] = client[x]
                                /\ UNCHANGED <<runid, log, child, repl_backlog, hist, master_repl_offset, slaveseldb>>
      /\ AcceptFull(c) => /\ runid' = runid /\ log' = log
                          /\ master_repl_offset' = master_repl_offset + IF repl_backlog THEN 0 ELSE 1
  BY <1>2, PartialAccepted, FullAccepted DEF PartialResync, FullResync, PsyncReplyLost
<1>5. ASSUME NEW t \in Slaves, t # s PROVE Continued(t)'
  <2>1. Continued(t) /\ SameSlave(t) /\ link[t] # c
    BY <1>2, <1>3, <1>5 DEF Continues
  <2>2. CASE AcceptPartial(s, c)
    <3>1. link[t] # None => client'[link[t]] = client[link[t]]
      BY <1>2, <1>4, <2>1, <2>2 DEF SlaveTypes
    <3> QED BY <1>4, <2>1, <2>2, <3>1, SameContinued
  <2>3. CASE AcceptFull(c)
    BY <1>2, <2>1, <2>3, FullContinued
  <2> QED BY <1>4, <2>2, <2>3
<1>6. runid' = runid /\ master_repl_offset' >= master_repl_offset /\ master_repl_offset' \in Nat
  BY <1>2, <1>4 DEF MasterTypes
<1>7. CASE PsyncReplyLost(s, c)
  <2>1. /\ repl_state'[s] = "CONNECT" /\ cached'[s] = FALSE
        /\ reploff'[s] = reploff[s] /\ replrunid'[s] = replrunid[s] /\ initial'[s] = initial[s]
    BY <1>2, <1>7 DEF PsyncReplyLost, SlaveTypes
  <2>2. Continued(s)'
    BY <1>6, <2>1, GoneContinued DEF Continues
  <2> QED BY <1>5, <2>2 DEF Continues
<1>8. CASE child = {} /\ FullResync(s, c)
  <2>1. /\ AcceptFull(c) /\ repl_state'[s] = "TRANSFER" /\ cached'[s] = FALSE /\ link'[s] = c
        /\ reploff'[s] = reploff[s] /\ replrunid'[s] = replrunid[s]
        /\ initial'[s] = [runid |-> runid, off |-> master_repl_offset + IF repl_backlog THEN 0 ELSE 1]
    BY <1>2, <1>8 DEF FullResync, SlaveTypes
  <2>2. /\ client'[c].replstate = "WAIT_BGSAVE_END" /\ client'[c].out = << >> /\ child' = {log}
        /\ slaveseldb' = -1
    BY <1>2, <1>8, <2>1, FullAccepted
  <2>3. initial'[s].off = master_repl_offset' /\ initial'[s].runid = runid'
    BY <1>4, <2>1
  <2>4. Fits(<< >>, master_repl_offset', <<log', 0>>, log', slaveseldb', master_repl_offset', hist')
    <3>1. Len(<< >>) = master_repl_offset' - master_repl_offset'
      <4>1. Len(<< >>) = 0 /\ \A m \in Nat : m - m = 0
        OBVIOUS
      <4> QED BY <1>6, <4>1
    <3>2. Whole(<< >>, <<log', 0>>, log', slaveseldb')
      <4>1. PICK lg, sel : lg = log' /\ sel = slaveseldb'
        OBVIOUS
      <4>2. Ending(<< >>, <<lg, 0>>) = <<lg, 0>> /\ sel = -1
        BY <2>2, <4>1, EndingEmpty
      <4>3. Whole(<< >>, <<lg, 0>>, lg, sel)
        BY <4>2 DEF Whole
      <4> QED BY <4>1, <4>3
    <3>3. SameTail(<< >>, hist')
      BY DEF SameTail
    <3> QED BY <3>1, <3>2, <3>3 DEF Fits
  <2>5. FileOf(s)'
    BY <1>4, <2>1, <2>2, <2>3, <2>4 DEF FileOf, None
  <2>6. StreamOf(s)' /\ Missing(s)'
    BY <2>1 DEF StreamOf, Missing, Resumable
  <2>7. Offsets(s)'
    <3>1. replrunid[s] <= runid /\ (replrunid[s] = runid => reploff[s] <= master_repl_offset)
      BY DEF Continues, Continued, Offsets
    <3>2. reploff[s] \in Int /\ master_repl_offset \in Nat /\ runid \in Nat
      BY Numbers
    <3> QED BY <1>6, <2>1, <2>3, <3>1, <3>2 DEF Offsets
  <2> QED BY <1>5, <2>5, <2>6, <2>7 DEF Continues, Continued
<1>9. CASE PartialResync(s, c)
  <2>1. /\ AcceptPartial(s, c) /\ repl_state'[s] = "CONNECTED" /\ link'[s] = c
        /\ data'[s] = data[s] /\ reploff'[s] = reploff[s] /\ replrunid'[s] = replrunid[s]
        /\ db'[s] = db[s] /\ initial'[s] = initial[s]
    BY <1>2, <1>9 DEF PartialResync, SlaveTypes
  <2>2. /\ CanPartialResync(s)
        /\ client'[c].replstate = "ONLINE"
        /\ client'[c].out = SubSeq(hist, (reploff[s] + 1) - repl_backlog_off + 1, Len(hist))
        /\ UNCHANGED <<runid, log, child, repl_backlog, hist, master_repl_offset, slaveseldb>>
    BY <1>2, <2>1, PartialAccepted
  <2>3. Resumable(s) /\ replrunid[s] = runid
    BY <2>2 DEF CanPartialResync, Resumable, psync_offset, repl_backlog_off
  <2>4. PICK w \in Seq(Plain) : Fits(w, reploff[s], <<data[s], db[s]>>, log, slaveseldb, master_repl_offset, hist)
    BY <2>3 DEF Continues, Continued, Missing
  <2>5. client'[c].out = w
    <3>1. SubSeq(hist, (reploff[s] + 1) - (master_repl_offset - Len(hist) + 1) + 1, Len(hist)) = w
      <4>1. PICK h, o, m : h = hist /\ o = reploff[s] /\ m = master_repl_offset
        OBVIOUS
      <4>2. h \in Seq(Plain) /\ o \in Int /\ m \in Int /\ SameTail(w, h) /\ Len(w) = m - o /\ o + 1 >= m - Len(h) + 1
        BY <2>3, <2>4, <4>1, Numbers DEF Fits, Resumable
      <4>3. SubSeq(h, (o + 1) - (m - Len(h) + 1) + 1, Len(h)) = w
        BY <4>2, FitsBacklog
      <4> QED BY <4>1, <4>3
    <3> QED BY <2>2, <3>1 DEF repl_backlog_off
  <2>6. Fits(w, reploff'[s], <<data'[s], db'[s]>>, log', slaveseldb', master_repl_offset', hist')
    BY <2>1, <2>2, <2>4
  <2>7. FileOf(s)'
    BY <2>1 DEF FileOf
  <2>8. StreamOf(s)'
    BY <2>1, <2>2, <2>3, <2>5, <2>6 DEF StreamOf
  <2>9. Missing(s)'
    BY <2>6 DEF Missing
  <2>10. Offsets(s)'
    BY <2>1, <2>2 DEF Continues, Continued, Offsets
  <2> QED BY <1>5, <2>7, <2>8, <2>9, <2>10 DEF Continues, Continued
<1> QED BY <1>7, <1>8, <1>9

LEMMA SameTailTail ==
  ASSUME NEW out \in Seq(Plain), out # << >>, NEW h \in Seq(Plain), SameTail(out, h)
  PROVE  Tail(out) \in Seq(Plain) /\ Len(Tail(out)) = Len(out) - 1 /\ SameTail(Tail(out), h)
<1>1. PICK r, m, n : r = Tail(out) /\ m = Len(out) /\ n = Len(h)
  OBVIOUS
<1>2. m \in Nat /\ m # 0 /\ n \in Nat /\ r \in Seq(Plain) /\ Len(r) = m - 1 /\ \A j \in 1..(m - 1) : r[j] = out[j + 1]
  BY <1>1
<1>3. ASSUME NEW i \in 1..(m - 1), i <= n PROVE r[(m - 1) - i + 1] = h[n - i + 1]
  <2>1. PICK j : j = (m - 1) - i + 1
    OBVIOUS
  <2>2. i \in 1..m /\ j \in 1..(m - 1) /\ j + 1 = m - i + 1
    BY <1>2, <2>1
  <2>3. out[m - i + 1] = h[n - i + 1]
    BY <1>1, <1>3, <2>2 DEF SameTail
  <2>4. r[j] = out[j + 1]
    BY <1>2, <2>2
  <2> QED BY <2>1, <2>2, <2>3, <2>4
<1>4. SameTail(r, h)
  BY <1>1, <1>2, <1>3 DEF SameTail
<1> QED BY <1>1, <1>2, <1>4

LEMMA ReadContinued ==
  ASSUME Shape, Continues, NEW s \in Slaves, readSyncBulkPayload(s) \/ readQueryFromClient(s)
  PROVE  Continues'
<1> DEFINE c == link[s]
           item == Head(client[c].out)
<1>1. /\ Alive(s) /\ client[c].out # << >> /\ Received(s) /\ MasterUnchanged /\ link' = link /\ initial' = initial
      /\ MasterTypes /\ SlaveTypes /\ Listed /\ Linked
  BY DEF readSyncBulkPayload, readQueryFromClient, Shape
<1>2. /\ c \in Conns /\ client'[c].replstate = "ONLINE" /\ client'[c].out = Tail(client[c].out)
      /\ \A x \in Conns : x # c => client'[x] = client[x]
      /\ UNCHANGED <<runid, log, child, repl_backlog, hist, master_repl_offset, slaveseldb>>
  <2>1. c \in Conns /\ client'[c].replstate = "ONLINE" /\ client'[c].out = Tail(client[c].out)
        /\ \A x \in Conns : x # c => client'[x] = client[x]
    BY <1>1, ReceivedItem
  <2> QED BY <1>1, <2>1 DEF MasterUnchanged
<1>3. ASSUME NEW t \in Slaves, t # s PROVE Continued(t)'
  <2>1. SameSlave(t)
    BY <1>1, <1>3 DEF readSyncBulkPayload, readQueryFromClient, SameSlave, SlaveTypes
  <2>2. link[t] # None => client'[link[t]] = client[link[t]]
    <3>1. link[t] # None => link[t] \in Conns /\ link[t] # c
      BY <1>1, <1>3 DEF Alive, SlaveTypes, Linked
    <3> QED BY <1>2, <3>1
  <2> QED BY <1>2, <2>1, <2>2, SameContinued DEF Continues
<1>4. ASSUME NEW out \in Seq(Plain), client'[c].out = out, repl_state'[s] = "CONNECTED", replrunid'[s] = runid,
             reploff'[s] \in Int,
             Fits(out, reploff'[s], <<data'[s], db'[s]>>, log, slaveseldb, master_repl_offset, hist)
      PROVE  Continued(s)'
  <2>1. Fits(out, reploff'[s], <<data'[s], db'[s]>>, log', slaveseldb', master_repl_offset', hist')
    BY <1>2, <1>4
  <2>2. FileOf(s)'
    BY <1>4 DEF FileOf
  <2>3. StreamOf(s)'
    BY <1>1, <1>2, <1>4, <2>1 DEF StreamOf
  <2>4. Missing(s)'
    BY <2>1 DEF Missing
  <2>5. Offsets(s)'
    <3>1. Len(out) \in Nat /\ Len(out) = master_repl_offset - reploff'[s]
      BY <1>4 DEF Fits
    <3>2. initial[s].runid <= runid /\ runid \in Nat /\ master_repl_offset \in Nat
      BY Numbers DEF Continues, Continued, Offsets
    <3>3. \A o \in Int, m, n \in Nat : n = m - o => o <= m
      OBVIOUS
    <3>4. reploff'[s] <= master_repl_offset
      BY <1>4, <3>1, <3>2, <3>3
    <3>5. runid <= runid
      BY <3>2
    <3> QED BY <1>1, <1>2, <1>4, <3>2, <3>4, <3>5 DEF Offsets
  <2> QED BY <2>2, <2>3, <2>4, <2>5 DEF Continued
<1>5. Continued(s)'
  <2>1. CASE readSyncBulkPayload(s)
    <3>1. /\ repl_state[s] = "TRANSFER" /\ repl_state'[s] = "CONNECTED"
          /\ data'[s] = item.snap /\ db'[s] = 0 /\ reploff'[s] = initial[s].off /\ replrunid'[s] = initial[s].runid
      BY <1>1, <2>1 DEF readSyncBulkPayload, SlaveTypes
    <3>2. client[c].replstate = "ONLINE" /\ Tail(client[c].out) \in Seq(Plain)
      BY <1>1, <3>1 DEF Linked, Alive
    <3>3. /\ initial[s].runid = runid /\ initial[s].off \in Int
          /\ Fits(Tail(client[c].out), initial[s].off, <<item.snap, 0>>, log, slaveseldb, master_repl_offset, hist)
      BY <3>1, <3>2, Numbers DEF Continues, Continued, FileOf, None
    <3>4. Fits(Tail(client[c].out), reploff'[s], <<data'[s], db'[s]>>, log, slaveseldb, master_repl_offset, hist)
      BY <3>1, <3>3
    <3> QED BY <1>2, <1>4, <3>1, <3>2, <3>3, <3>4
  <2>2. CASE readQueryFromClient(s)
    <3>1. /\ repl_state[s] = "CONNECTED" /\ repl_state'[s] = "CONNECTED"
          /\ reploff'[s] = reploff[s] + 1 /\ replrunid'[s] = replrunid[s]
          /\ IF item.t = "select"
             THEN db' = [db EXCEPT ![s] = item.db] /\ UNCHANGED data
             ELSE data' = [data EXCEPT ![s] = Append(@, <<item.id, db[s]>>)] /\ UNCHANGED db
      BY <1>1, <2>2 DEF readQueryFromClient, SlaveTypes
    <3>2. client[c].out \in Seq(Plain)
      BY <1>1, <3>1 DEF Linked
    <3>3. item \in Plain
      BY <1>1, <3>2
    <3>4. Ending(client[c].out, <<data[s], db[s]>>) = Ending(Tail(client[c].out), Reads(<<data[s], db[s]>>, item))
      BY <1>1, <3>2, EndingTail
    <3>5. item.t # "rdb"
      BY <3>3, Items
    <3>6. /\ replrunid[s] = runid
          /\ Fits(client[c].out, reploff[s], <<data[s], db[s]>>, log, slaveseldb, master_repl_offset, hist)
      BY <1>1, <3>1 DEF Continues, Continued, StreamOf
    <3>7. /\ Tail(client[c].out) \in Seq(Plain) /\ Len(Tail(client[c].out)) = Len(client[c].out) - 1
          /\ SameTail(Tail(client[c].out), hist)
      BY <1>1, <3>2, <3>6, Numbers, SameTailTail DEF Fits
    <3> HIDE DEF item, c
    <3>8. Reads(<<data[s], db[s]>>, item) = <<data'[s], db'[s]>>
      <4>1. CASE item.t = "select"
        BY <1>1, <3>1, <4>1 DEF Reads, SlaveTypes
      <4>2. CASE item.t # "select"
        BY <1>1, <3>1, <3>5, <4>2 DEF Reads, SlaveTypes
      <4> QED BY <4>1, <4>2
    <3>9. Whole(Tail(client[c].out), <<data'[s], db'[s]>>, log, slaveseldb)
      BY <3>4, <3>6, <3>8 DEF Fits, Whole
    <3>10. reploff[s] \in Int /\ Len(Tail(client[c].out)) = master_repl_offset - reploff'[s]
      <4>1. Len(client[c].out) = master_repl_offset - reploff[s]
        BY <3>6 DEF Fits
      <4>2. reploff[s] \in Int /\ master_repl_offset \in Nat
        BY Numbers
      <4>3. \A o \in Int, m \in Nat : (m - o) - 1 = m - (o + 1)
        OBVIOUS
      <4> QED BY <3>1, <3>7, <4>1, <4>2, <4>3
    <3>11. Fits(Tail(client[c].out), reploff'[s], <<data'[s], db'[s]>>, log, slaveseldb, master_repl_offset, hist)
      BY <3>7, <3>9, <3>10 DEF Fits
    <3>12. client'[c].out = Tail(client[c].out) /\ reploff'[s] \in Int
      BY <1>2, <3>1, <3>10
    <3> QED BY <1>4, <3>1, <3>6, <3>7, <3>11, <3>12 DEF c
  <2> QED BY <2>1, <2>2
<1> QED BY <1>3, <1>5 DEF Continues

LEMMA HandshakeContinued == ASSUME Shape, Continues, NEW s \in Slaves, Handshakes(s) \/ Gives(s) PROVE Continues'
<1>1. /\ UNCHANGED <<mvars, reploff, replrunid, initial, db>>
      /\ repl_state'[s] \notin {"TRANSFER", "CONNECTED"}
      /\ \A t \in Slaves : t # s => SameSlave(t)
  BY DEF Handshakes, connectWithMaster, syncWithMaster, HandshakeFails, Gives, LoadFails, replicationCacheMaster,
         MasterClosed, FreeMaster, LinkEnds, FullResyncForkFails, Shape, SlaveTypes, SameSlave
<1>2. UNCHANGED <<runid, log, child, repl_backlog, hist, master_repl_offset, slaveseldb, client>>
  BY <1>1 DEF mvars
<1>3. \A t \in Slaves : t # s => Continued(t)'
  BY <1>1, <1>2, SameContinued DEF Continues
<1>4. Offsets(s)'
  BY <1>1, <1>2 DEF Continues, Continued, Offsets
<1>5. FileOf(s)' /\ StreamOf(s)'
  BY <1>1 DEF FileOf, StreamOf
<1>6. Missing(s)'
  <2>1. cached'[s] => (cached[s] \/ repl_state[s] = "CONNECTED") /\ data'[s] = data[s]
    <3>1. repl_state[s] = "TRANSFER" => ~ cached[s]
      BY DEF Shape, Linked
    <3> QED BY <3>1 DEF Handshakes, connectWithMaster, syncWithMaster, HandshakeFails, Gives, LoadFails, replicationCacheMaster,
         MasterClosed, FreeMaster, LinkEnds, FullResyncForkFails, Shape, SlaveTypes
  <2>2. Resumable(s)' => cached'[s] /\ Resumable(s)
    BY <1>1, <1>2, <2>1 DEF Resumable
  <2> QED BY <1>1, <1>2, <2>1, <2>2 DEF Continues, Continued, Missing
<1> QED BY <1>3, <1>4, <1>5, <1>6 DEF Continues, Continued

LEMMA ContinuesInit == Init => Continues
BY DEF Init, Continues, Continued, FileOf, StreamOf, Missing, Resumable, Offsets

LEMMA ContinuesStep == ~ ChildMayBeKilled /\ Shape /\ Continues /\ [NextNoOverlap]_vars => Continues'
<1> SUFFICES ASSUME ~ ChildMayBeKilled, Shape, Continues, [NextNoOverlap]_vars PROVE Continues'
  OBVIOUS
<1>1. CASE MasterStep
  <2>1. ASSUME NEW s \in Slaves PROVE Continued(s)'
    BY <1>1, <2>1, FeedContinued, BgsaveContinued, SaveDoneContinued, SendBulkContinued, FreedContinued,
       BacklogFreedContinued, RestartContinued DEF MasterStep, Continues
  <2> QED BY <2>1 DEF Continues
<1>2. ASSUME NEW s \in Slaves, SlaveStep(s) PROVE Continues'
  BY <1>2, AnsweredContinued, ReadContinued, HandshakeContinued DEF SlaveStep, Handshakes, Gives
<1>3. ASSUME NEW s \in Slaves, NEW c \in Conns, child = {}, FullResync(s, c) PROVE Continues'
  BY <1>3, AnsweredContinued
<1>4. CASE UNCHANGED vars
  <2>1. UNCHANGED <<runid, log, child, repl_backlog, hist, master_repl_offset, slaveseldb, client>> /\ UNCHANGED svars
    BY <1>4 DEF vars, mvars
  <2>2. ASSUME NEW s \in Slaves PROVE Continued(s)'
    BY <2>1, AllSame, SameContinued DEF Continues
  <2> QED BY <2>2 DEF Continues
<1> QED BY <1>1, <1>2, <1>3, <1>4 DEF NextNoOverlap

\* When no full resynchronisation overlaps a BGSAVE that another request, or a user,
\* started and no BGSAVE child dies of a signal, a slave that is connected, and one that
\* was answered +CONTINUE above all, ends with the data set of the master by reading
\* what is on its way, whatever fails, restarts or is resumed.
THEOREM PartialResyncExactAlways ==
  ASSUME ~ ChildMayBeKilled
  PROVE  NoOverlapSpec => []PartialResyncExact
<1>1. Init => Shape /\ Continues
  BY ShapeInit, ContinuesInit
<1>2. Shape /\ Continues /\ [NextNoOverlap]_vars => (Shape /\ Continues)'
  <2>1. NextNoOverlap => Next
    BY DEF NextNoOverlap, Next
  <2> QED BY <2>1, ShapeStep, ContinuesStep
<1>3. Shape /\ Continues => PartialResyncExact
  BY DEF Continues, Continued, StreamOf, Fits, Whole, Replay, PartialResyncExact
<1> QED BY <1>1, <1>2, <1>3, PTL DEF NoOverlapSpec

(***************************************************************************)
(* WAIT and the acknowledgements of the slaves (module Acks).              *)
(***************************************************************************)
WaitRec == [off : Nat, num : Nat, timeout : Nat]
SlaveRec == [online : BOOLEAN, ackOff : Nat, ackTime : Nat]
WaiterRec == [woff : Nat, wrote : Nat, wait : WaitRec, sent : Nat]
ReplicaRec == [read : Nat, done : Nat, paused : BOOLEAN]
ToldRec == [n : Nat, read : Nat, done : Nat]
Command == {"write", "getack", "ping"}
Primary == [now : Nat, loops : Nat, cron : Nat, stream : Seq(Command), slaves : [Replica -> SlaveRec], clients : [Waiter -> WaiterRec],
            waiting : Seq(Waiter), getack : BOOLEAN, good : Nat, faults : Nat]

AckTypes ==
  /\ ackPlan \in AckPlan
  /\ primary \in Primary
  /\ replica \in [Replica -> ReplicaRec]
  /\ acks \in [Replica -> Seq(Nat)]
  /\ told \in ToldRec

(* A slave has read what it acknowledged, also what is still under way. *)
Acknowledged ==
  \A s \in Replica :
    /\ primary.slaves[s].ackOff <= replica[s].read
    /\ \A i \in 1..Len(acks[s]) : acks[s][i] <= replica[s].read

(* The offset a client asks for is past its last write, and so is the one  *)
(* it waits for: while it waits it sends nothing.                          *)
Waits(m) ==
  \A c \in Waiter :
    /\ m.clients[c].wrote <= m.clients[c].woff
    /\ m.clients[c].woff <= Len(m.stream)
    /\ c \in Range(m.waiting) => m.clients[c].wrote <= m.clients[c].wait.off

(* The attached slaves heard of within lag of the last turn of             *)
(* replicationCron(), or since: the count, made at that turn or later, is  *)
(* of some of them.                                                        *)
GoodSlaves(m, lag) == {s \in Replica : m.slaves[s].online /\ m.cron - m.slaves[s].ackTime <= lag}
Counted(m, p) == m.cron <= m.now /\ (p.minSlaves > 0 /\ p.maxLag > 0 => m.good <= Cardinality(GoodSlaves(m, p.maxLag)))

Truthful(t) == t.n <= t.read
AckInv == AckTypes /\ Acknowledged /\ Waits(primary) /\ Counted(primary, ackPlan) /\ Truthful(told)

-----------------------------------------------------------------------------
(* Counts *)

\* A set of naturals that is not empty has a first element.
LEMMA HasFirst ==
  ASSUME NEW T, T \subseteq Nat, T # {}
  PROVE  \E x \in T : \A y \in Nat : y < x => y \notin T
<1> DEFINE Less == OpToRel(<, Nat)
<1>1. /\ IsWellFoundedOn(Less, Nat)
      /\ \A p \in Nat \X Nat : p[1] < p[2] => p \in Less
  BY NatLessThanWellFounded DEF OpToRel
<1> HIDE DEF Less
<1>2. PICK x \in T : \A y \in T : ~ (<<y, x>> \in Less)
  BY <1>1, WFMin
<1>3. ASSUME NEW y \in T, y < x PROVE FALSE
  <2> DEFINE yx == <<y, x>>
  <2>1. yx \notin Less
    BY <1>2
  <2>2. yx \in Nat \X Nat /\ yx[1] = y /\ yx[2] = x
    OBVIOUS
  <2> HIDE DEF yx
  <2>3. yx \in Less
    BY <2>2, <1>1, <1>3
  <2> QED BY <2>1, <2>3
<1> QED BY <1>3

\* Fewer slaves, a smaller count.
LEMMA Fewer ==
  ASSUME NEW S, NEW T, S \subseteq T, T \subseteq Replica
  PROVE  /\ Cardinality(S) \in Nat /\ Cardinality(T) \in Nat
         /\ Cardinality(S) <= Cardinality(T)
BY AckAssumption, FS_Subset, FS_CardinalityType

Acked(m, off) == {s \in Replica : m.slaves[s].online /\ m.slaves[s].ackOff >= off}

\* The slaves that acknowledged an offset past a client's last write have read that write.
LEMMA AckedRead ==
  ASSUME AckTypes, NEW m \in Primary, m.slaves = primary.slaves, Acknowledged, NEW c \in Waiter, NEW off \in Nat,
         m.clients[c].wrote <= off, NEW n \in Nat, n <= Cardinality(Acked(m, off))
  PROVE  Tell(m, c, n) \in ToldRec /\ Truthful(Tell(m, c, n))
<1> DEFINE W == m.clients[c].wrote
           R == {s \in Replica : replica[s].read >= W}
           D == {s \in Replica : replica[s].done >= W}
<1>1. W \in Nat
  BY DEF Primary, WaiterRec
<1>2. Acked(m, off) \subseteq R
  <2> SUFFICES ASSUME NEW s \in Replica, m.slaves[s].ackOff >= off PROVE replica[s].read >= W
    BY DEF Acked
  <2>1. m.slaves[s].ackOff \in Nat /\ replica[s].read \in Nat
    BY DEF AckTypes, Primary, SlaveRec, ReplicaRec
  <2> QED BY <2>1, <1>1 DEF Acknowledged
<1>3. Cardinality(R) \in Nat /\ Cardinality(D) \in Nat /\ Cardinality(Acked(m, off)) \in Nat
      /\ Cardinality(Acked(m, off)) <= Cardinality(R)
  BY <1>2, Fewer
<1>4. Tell(m, c, n) = [n |-> n, read |-> Cardinality(R), done |-> Cardinality(D)]
  BY DEF Tell
<1> HIDE DEF R, D, W
<1>5. n <= Cardinality(R)
  BY <1>3
<1> QED BY <1>3, <1>4, <1>5 DEF ToldRec, Truthful

-----------------------------------------------------------------------------
(* The loops over the clients that wait *)

LoopRec == [kept : Seq(Waiter), off : Nat, num : Nat, told : ToldRec]

\* What holds between two turns of a loop.
LoopInv(m, r) ==
  /\ r \in LoopRec
  /\ Range(r.kept) \subseteq Range(m.waiting)
  /\ r.num <= Cardinality(Acked(m, r.off))
  /\ Truthful(r.told)

\* What a loop needs of the master it starts with.
LoopReady(m) == AckTypes /\ Acknowledged /\ m \in Primary /\ m.slaves = primary.slaves /\ Waits(m)

LEMMA LoopStarts ==
  ASSUME NEW m, LoopReady(m)
  PROVE  LoopInv(m, LoopStart)
<1>1. Cardinality(Acked(m, 0)) \in Nat
  BY Fewer DEF Acked
<1>2. LoopStart \in LoopRec /\ Range(LoopStart.kept) = {} /\ LoopStart.num = 0 /\ LoopStart.off = 0 /\ Truthful(LoopStart.told)
  BY DEF LoopStart, LoopRec, ToldRec, Nothing, Range, Truthful
<1> QED BY <1>1, <1>2 DEF LoopInv

LEMMA AppendRange ==
  ASSUME NEW S, NEW q \in Seq(S), NEW c \in S
  PROVE  Append(q, c) \in Seq(S) /\ Range(Append(q, c)) \subseteq Range(q) \cup {c}
<1>1. /\ Append(q, c) \in Seq(S) /\ Len(q) \in Nat
      /\ Len(Append(q, c)) = Len(q) + 1
      /\ Append(q, c)[Len(q) + 1] = c
      /\ \A i \in 1..Len(q) : Append(q, c)[i] = q[i]
  BY AppendProperties, LenProperties
<1>2. DOMAIN Append(q, c) = 1..(Len(q) + 1) /\ DOMAIN q = 1..Len(q)
  BY <1>1, LenProperties
<1>3. ASSUME NEW i \in 1..(Len(q) + 1) PROVE Append(q, c)[i] \in Range(q) \cup {c}
  <2>1. CASE i = Len(q) + 1
    BY <2>1, <1>1
  <2>2. CASE i # Len(q) + 1
    <3>1. i \in 1..Len(q)
      BY <2>2, <1>1
    <3> QED BY <3>1, <1>1, <1>2 DEF Range
  <2> QED BY <2>1, <2>2
<1> QED BY <1>1, <1>2, <1>3 DEF Range

\* A client that is not answered is kept.
LEMMA LoopKeeps ==
  ASSUME NEW m, NEW r, LoopReady(m), LoopInv(m, r), NEW c \in Range(m.waiting)
  PROVE  LoopInv(m, [r EXCEPT !.kept = Append(@, c)])
<1> DEFINE t == [r EXCEPT !.kept = Append(@, c)]
<1>0. c \in Waiter
  BY DEF LoopReady, Primary, Range
<1>1. r \in LoopRec /\ r.kept \in Seq(Waiter)
  BY DEF LoopInv, LoopRec
<1>2. t \in LoopRec /\ t.kept = Append(r.kept, c) /\ t.off = r.off /\ t.num = r.num /\ t.told = r.told
  BY <1>0, <1>1 DEF LoopRec
<1>3. Range(Append(r.kept, c)) \subseteq Range(r.kept) \cup {c}
  BY <1>1, <1>0, AppendRange
<1> QED BY <1>2, <1>3 DEF LoopInv

LEMMA WakeKeeps ==
  ASSUME NEW m, NEW r, LoopReady(m), LoopInv(m, r), NEW c \in Range(m.waiting)
  PROVE  LoopInv(m, WakeWaiter(m, r, c))
<1> DEFINE w == m.clients[c].wait
           short == r.off > 0 /\ r.off > w.off /\ r.num > w.num
           n == IF short THEN r.num ELSE Cardinality(Acked(m, w.off))
           u == [kept |-> r.kept, off |-> IF short THEN r.off ELSE w.off, num |-> n,
                 told |-> IF r.told.n > r.told.done THEN r.told ELSE Tell(m, c, n)]
<1>0. c \in Waiter
  BY DEF LoopReady, Primary, Range
<1>1. w \in WaitRec /\ w.off \in Nat /\ w.num \in Nat /\ m.clients[c].wrote \in Nat
  BY <1>0 DEF LoopReady, Primary, WaiterRec, WaitRec
<1>2. r.kept \in Seq(Waiter) /\ r.off \in Nat /\ r.num \in Nat /\ r.told \in ToldRec
  BY DEF LoopInv, LoopRec
<1>3. Cardinality(Acked(m, w.off)) \in Nat /\ Cardinality(Acked(m, r.off)) \in Nat
  BY Fewer DEF Acked
<1>4. n \in Nat /\ n <= Cardinality(Acked(m, w.off))
  <2>1. CASE short
    <3>1. Acked(m, r.off) \subseteq Acked(m, w.off)
      <4> SUFFICES ASSUME NEW s \in Replica, m.slaves[s].ackOff >= r.off PROVE m.slaves[s].ackOff >= w.off
        BY DEF Acked
      <4>1. m.slaves[s].ackOff \in Nat
        BY DEF LoopReady, Primary, SlaveRec
      <4> QED BY <4>1, <1>1, <1>2, <2>1
    <3>2. Cardinality(Acked(m, r.off)) <= Cardinality(Acked(m, w.off))
      BY <3>1, Fewer DEF Acked
    <3>3. r.num <= Cardinality(Acked(m, r.off))
      BY DEF LoopInv
    <3> HIDE DEF w
    <3> QED BY <3>2, <3>3, <1>2, <1>3, <2>1
  <2>2. CASE ~ short
    BY <2>2, <1>3
  <2> QED BY <2>1, <2>2
<1>5. m.clients[c].wrote <= w.off
  BY <1>0 DEF LoopReady, Waits
<1>6. Tell(m, c, n) \in ToldRec /\ Truthful(Tell(m, c, n))
  <2> HIDE DEF n
  <2>1. AckTypes /\ m \in Primary /\ m.slaves = primary.slaves /\ Acknowledged
    BY DEF LoopReady
  <2> QED BY <2>1, <1>0, <1>1, <1>4, <1>5, AckedRead
<1>7. WakeWaiter(m, r, c) = IF n < w.num THEN [r EXCEPT !.kept = Append(@, c)] ELSE u
  BY DEF WakeWaiter, replicationCountAcksByOffset, Acked
<1>8. LoopInv(m, u)
  <2>1. Truthful(r.told) /\ r.num <= Cardinality(Acked(m, r.off)) /\ Range(r.kept) \subseteq Range(m.waiting)
    BY DEF LoopInv
  <2>2. n <= Cardinality(Acked(m, u.off))
    BY <1>4, <2>1
  <2>3. u.kept = r.kept /\ u.off \in Nat /\ u.num = n
    BY <1>1, <1>2
  <2>4. u.told \in ToldRec /\ Truthful(u.told)
    <3> HIDE DEF n
    <3> QED BY <1>2, <1>6, <2>1
  <2>5. u = [kept |-> u.kept, off |-> u.off, num |-> u.num, told |-> u.told]
    OBVIOUS
  <2> HIDE DEF u, n
  <2> QED BY <2>1, <2>2, <2>3, <2>4, <2>5, <1>2, <1>4 DEF LoopInv, LoopRec
<1>9. LoopInv(m, [r EXCEPT !.kept = Append(@, c)])
  BY LoopKeeps
<1> DEFINE k == [r EXCEPT !.kept = Append(@, c)]
           left == n < w.num
<1>10. WakeWaiter(m, r, c) = IF left THEN k ELSE u
  BY <1>7
<1> HIDE DEF left, k, u
<1>11. LoopInv(m, k)
  BY <1>9 DEF k
<1> QED BY <1>8, <1>10, <1>11

LEMMA ExpireKeeps ==
  ASSUME NEW m, NEW r, LoopReady(m), LoopInv(m, r), NEW c \in Range(m.waiting)
  PROVE  LoopInv(m, ExpireWaiter(m, r, c))
<1> DEFINE w == m.clients[c].wait
           n == Cardinality(Acked(m, w.off))
           t == IF r.told.n > r.told.done THEN r.told ELSE Tell(m, c, n)
           u == [r EXCEPT !.told = t]
<1>0. c \in Waiter
  BY DEF LoopReady, Primary, Range
<1>1. w \in WaitRec /\ w.off \in Nat /\ m.clients[c].wrote \in Nat
  BY <1>0 DEF LoopReady, Primary, WaiterRec, WaitRec
<1>2. n \in Nat
  BY Fewer DEF Acked
<1>3. m.clients[c].wrote <= w.off
  BY <1>0 DEF LoopReady, Waits
<1>4. Tell(m, c, n) \in ToldRec /\ Truthful(Tell(m, c, n))
  <2>1. AckTypes /\ m \in Primary /\ m.slaves = primary.slaves /\ Acknowledged
    BY DEF LoopReady
  <2>2. n <= Cardinality(Acked(m, w.off))
    BY <1>2
  <2> HIDE DEF n
  <2> QED BY <2>1, <2>2, <1>0, <1>1, <1>2, <1>3, AckedRead
<1>5. t \in ToldRec /\ Truthful(t)
  <2> HIDE DEF n
  <2> QED BY <1>4 DEF LoopInv, LoopRec
<1>6. ExpireWaiter(m, r, c) = IF w.timeout = 0 \/ w.timeout > m.now THEN [r EXCEPT !.kept = Append(@, c)] ELSE u
  BY DEF ExpireWaiter, replicationCountAcksByOffset, Acked
<1>7. LoopInv(m, u)
  <2> HIDE DEF t
  <2>1. r \in LoopRec
    BY DEF LoopInv
  <2>2. u \in LoopRec /\ u.kept = r.kept /\ u.off = r.off /\ u.num = r.num /\ u.told = t
    BY <2>1, <1>5 DEF LoopRec
  <2> QED BY <2>2, <1>5 DEF LoopInv
<1> HIDE DEF u, w
<1> QED BY <1>6, <1>7, LoopKeeps

\* The loop of processClientsWaitingReplicas(), as far as turn n.
Wakes(m, n, g) == g = [i \in 0..n |-> IF i = 0 THEN LoopStart ELSE WakeWaiter(m, g[i - 1], m.waiting[i])]

LEMMA WakesExist ==
  ASSUME NEW m
  PROVE  \A n \in Nat : \E g : Wakes(m, n, g)
<1> DEFINE T == {n \in Nat : ~ \E g : Wakes(m, n, g)}
<1> SUFFICES ASSUME T # {} PROVE FALSE
  OBVIOUS
<1>1. PICK n \in T : \A k \in Nat : k < n => k \notin T
  BY HasFirst
<1>2. n # 0
  <2> DEFINE h == [i \in 0..0 |-> LoopStart]
  <2>1. h = [i \in 0..0 |-> IF i = 0 THEN LoopStart ELSE WakeWaiter(m, h[i - 1], m.waiting[i])]
    OBVIOUS
  <2> HIDE DEF h
  <2>2. Wakes(m, 0, h)
    BY <2>1 DEF Wakes
  <2> QED BY <2>2
<1>3. n - 1 \in Nat /\ n - 1 < n
  BY <1>2
<1>4. PICK g : Wakes(m, n - 1, g)
  BY <1>1, <1>3
<1> DEFINE h == [i \in 0..n |-> IF i = n THEN WakeWaiter(m, g[n - 1], m.waiting[n]) ELSE g[i]]
<1>5. ASSUME NEW i \in 0..n PROVE h[i] = IF i = 0 THEN LoopStart ELSE WakeWaiter(m, h[i - 1], m.waiting[i])
  <2>1. CASE i = n
    BY <2>1, <1>2, <1>3
  <2>2. CASE i # n
    <3>1. i \in 0..(n - 1) /\ (i # 0 => i - 1 \in 0..n /\ i - 1 # n)
      BY <2>2, <1>3
    <3>2. h[i] = g[i] /\ (i # 0 => h[i - 1] = g[i - 1])
      BY <3>1, <2>2
    <3>3. g[i] = IF i = 0 THEN LoopStart ELSE WakeWaiter(m, g[i - 1], m.waiting[i])
      BY <1>4, <3>1 DEF Wakes
    <3> HIDE DEF h
    <3> QED BY <3>1, <3>2, <3>3
  <2> QED BY <2>1, <2>2
<1>6. h = [i \in 0..n |-> h[i]]
  OBVIOUS
<1> HIDE DEF h
<1>7. Wakes(m, n, h)
  BY <1>5, <1>6 DEF Wakes
<1> QED BY <1>7, <1>1

LEMMA WakesAll ==
  ASSUME NEW m, LoopReady(m)
  PROVE  LoopInv(m, processClientsWaitingReplicas(m))
<1> DEFINE N == Len(m.waiting)
<1>1. N \in Nat /\ DOMAIN m.waiting = 1..N
  BY DEF LoopReady, Primary
<1>2. PICK g : Wakes(m, N, g) /\ processClientsWaitingReplicas(m) = g[N]
  <2>1. \E g : Wakes(m, N, g)
    BY <1>1, WakesExist
  <2> QED BY <2>1 DEF Wakes, processClientsWaitingReplicas
<1> HIDE DEF N
<1> DEFINE T == {i \in 0..N : ~ LoopInv(m, g[i])}
<1>3. T = {}
  <2> SUFFICES ASSUME T # {} PROVE FALSE
    OBVIOUS
  <2>0. T \subseteq Nat
    BY <1>1
  <2>1. PICK i \in T : \A k \in Nat : k < i => k \notin T
    <3> HIDE DEF T
    <3> QED BY <2>0, HasFirst
  <2>2. g[i] = IF i = 0 THEN LoopStart ELSE WakeWaiter(m, g[i - 1], m.waiting[i])
    BY <1>2 DEF Wakes
  <2>3. i # 0
    BY <2>1, <2>2, LoopStarts
  <2>4. i - 1 \in 0..N /\ i - 1 \in Nat /\ i - 1 < i /\ i \in 1..N
    BY <2>3, <1>1
  <2>5. LoopInv(m, g[i - 1])
    BY <2>1, <2>4
  <2>6. m.waiting[i] \in Range(m.waiting)
    BY <2>4, <1>1 DEF Range
  <2>7. LoopInv(m, WakeWaiter(m, g[i - 1], m.waiting[i]))
    BY <2>5, <2>6, WakeKeeps
  <2> QED BY <2>1, <2>2, <2>3, <2>7
<1>4. N \in 0..N
  BY <1>1
<1> QED BY <1>2, <1>3, <1>4
\* The loop of clientsCron(), as far as turn n.
Expires(m, n, g) == g = [i \in 0..n |-> IF i = 0 THEN LoopStart ELSE ExpireWaiter(m, g[i - 1], m.waiting[i])]

LEMMA ExpiresExist ==
  ASSUME NEW m
  PROVE  \A n \in Nat : \E g : Expires(m, n, g)
<1> DEFINE T == {n \in Nat : ~ \E g : Expires(m, n, g)}
<1> SUFFICES ASSUME T # {} PROVE FALSE
  OBVIOUS
<1>1. PICK n \in T : \A k \in Nat : k < n => k \notin T
  BY HasFirst
<1>2. n # 0
  <2> DEFINE h == [i \in 0..0 |-> LoopStart]
  <2>1. h = [i \in 0..0 |-> IF i = 0 THEN LoopStart ELSE ExpireWaiter(m, h[i - 1], m.waiting[i])]
    OBVIOUS
  <2> HIDE DEF h
  <2>2. Expires(m, 0, h)
    BY <2>1 DEF Expires
  <2> QED BY <2>2
<1>3. n - 1 \in Nat /\ n - 1 < n
  BY <1>2
<1>4. PICK g : Expires(m, n - 1, g)
  BY <1>1, <1>3
<1> DEFINE h == [i \in 0..n |-> IF i = n THEN ExpireWaiter(m, g[n - 1], m.waiting[n]) ELSE g[i]]
<1>5. ASSUME NEW i \in 0..n PROVE h[i] = IF i = 0 THEN LoopStart ELSE ExpireWaiter(m, h[i - 1], m.waiting[i])
  <2>1. CASE i = n
    BY <2>1, <1>2, <1>3
  <2>2. CASE i # n
    <3>1. i \in 0..(n - 1) /\ (i # 0 => i - 1 \in 0..n /\ i - 1 # n)
      BY <2>2, <1>3
    <3>2. h[i] = g[i] /\ (i # 0 => h[i - 1] = g[i - 1])
      BY <3>1, <2>2
    <3>3. g[i] = IF i = 0 THEN LoopStart ELSE ExpireWaiter(m, g[i - 1], m.waiting[i])
      BY <1>4, <3>1 DEF Expires
    <3> HIDE DEF h
    <3> QED BY <3>1, <3>2, <3>3
  <2> QED BY <2>1, <2>2
<1>6. h = [i \in 0..n |-> h[i]]
  OBVIOUS
<1> HIDE DEF h
<1>7. Expires(m, n, h)
  BY <1>5, <1>6 DEF Expires
<1> QED BY <1>7, <1>1

LEMMA ExpiresAll ==
  ASSUME NEW m, LoopReady(m)
  PROVE  LoopInv(m, clientsCron(m))
<1> DEFINE N == Len(m.waiting)
<1>1. N \in Nat /\ DOMAIN m.waiting = 1..N
  BY DEF LoopReady, Primary
<1>2. PICK g : Expires(m, N, g) /\ clientsCron(m) = g[N]
  <2>1. \E g : Expires(m, N, g)
    BY <1>1, ExpiresExist
  <2> QED BY <2>1 DEF Expires, clientsCron
<1> HIDE DEF N
<1> DEFINE T == {i \in 0..N : ~ LoopInv(m, g[i])}
<1>3. T = {}
  <2> SUFFICES ASSUME T # {} PROVE FALSE
    OBVIOUS
  <2>0. T \subseteq Nat
    BY <1>1
  <2>1. PICK i \in T : \A k \in Nat : k < i => k \notin T
    <3> HIDE DEF T
    <3> QED BY <2>0, HasFirst
  <2>2. g[i] = IF i = 0 THEN LoopStart ELSE ExpireWaiter(m, g[i - 1], m.waiting[i])
    BY <1>2 DEF Expires
  <2>3. i # 0
    BY <2>1, <2>2, LoopStarts
  <2>4. i - 1 \in 0..N /\ i - 1 \in Nat /\ i - 1 < i /\ i \in 1..N
    BY <2>3, <1>1
  <2>5. LoopInv(m, g[i - 1])
    BY <2>1, <2>4
  <2>6. m.waiting[i] \in Range(m.waiting)
    BY <2>4, <1>1 DEF Range
  <2>7. LoopInv(m, ExpireWaiter(m, g[i - 1], m.waiting[i]))
    BY <2>5, <2>6, ExpireKeeps
  <2> QED BY <2>1, <2>2, <2>3, <2>7
<1>4. N \in 0..N
  BY <1>1
<1> QED BY <1>2, <1>3, <1>4
-----------------------------------------------------------------------------
(* The helpers *)

LEMMA RefreshCounts ==
  ASSUME NEW m \in Primary, m.cron <= m.now, AckTypes
  PROVE  LET f == refreshGoodSlavesCount(m)
         IN /\ f \in Primary /\ Counted(f, ackPlan) /\ f.now = m.now /\ f.cron = m.cron
            /\ f.slaves = m.slaves /\ f.clients = m.clients /\ f.waiting = m.waiting /\ f.stream = m.stream
<1> DEFINE lag == ackPlan.maxLag
           G == {s \in Replica : m.slaves[s].online /\ m.now - m.slaves[s].ackTime <= lag}
           f == [m EXCEPT !.good = Cardinality(G)]
<1>1. CASE ~ Guarded
  <2>1. refreshGoodSlavesCount(m) = m
    BY <1>1 DEF refreshGoodSlavesCount
  <2>2. Counted(m, ackPlan)
    BY <1>1 DEF Guarded, Counted
  <2> QED BY <2>1, <2>2
<1>2. CASE Guarded
  <2>1. refreshGoodSlavesCount(m) = f
    BY <1>2 DEF refreshGoodSlavesCount
  <2>2. G \subseteq GoodSlaves(m, lag)
    <3> SUFFICES ASSUME NEW s \in Replica, m.now - m.slaves[s].ackTime <= lag PROVE m.cron - m.slaves[s].ackTime <= lag
      BY DEF GoodSlaves
    <3>1. m.now \in Nat /\ m.cron \in Nat /\ m.slaves[s].ackTime \in Nat
      BY DEF Primary, SlaveRec
    <3>2. lag \in Nat
      BY AckAssumption DEF AckTypes
    <3> HIDE DEF lag
    <3> QED BY <3>1, <3>2
  <2>3. /\ Cardinality(G) \in Nat /\ Cardinality(GoodSlaves(m, lag)) \in Nat
        /\ Cardinality(G) <= Cardinality(GoodSlaves(m, lag))
    BY <2>2, Fewer DEF GoodSlaves
  <2> HIDE DEF G
  <2>4. /\ f \in Primary /\ f.good = Cardinality(G) /\ f.now = m.now /\ f.cron = m.cron
        /\ f.slaves = m.slaves /\ f.clients = m.clients /\ f.waiting = m.waiting /\ f.stream = m.stream
    BY <2>3 DEF Primary
  <2> HIDE DEF f
  <2>5. GoodSlaves(f, lag) = GoodSlaves(m, lag)
    BY <2>4 DEF GoodSlaves
  <2>6. Counted(f, ackPlan)
    BY <2>3, <2>4, <2>5 DEF Counted
  <2> QED BY <2>1, <2>4, <2>6
<1> QED BY <1>1, <1>2

LEMMA FreedForgotten ==
  ASSUME NEW m \in Primary, m.cron <= m.now, AckTypes, NEW S
  PROVE  LET f == freeSlaves(m, S)
         IN /\ f \in Primary /\ Counted(f, ackPlan) /\ f.now = m.now /\ f.cron = m.cron
            /\ f.clients = m.clients /\ f.waiting = m.waiting /\ f.stream = m.stream
            /\ \A s \in Replica : f.slaves[s].ackOff <= m.slaves[s].ackOff
<1> DEFINE Gone == [online |-> FALSE, ackOff |-> 0, ackTime |-> 0]
           T == [s \in Replica |-> IF s \in S THEN Gone ELSE m.slaves[s]]
           g == [m EXCEPT !.slaves = T]
<1>1. freeSlaves(m, S) = refreshGoodSlavesCount(g)
  BY DEF freeSlaves
<1>2. m.slaves \in [Replica -> SlaveRec]
  BY DEF Primary
<1>3. T \in [Replica -> SlaveRec]
  BY <1>2 DEF SlaveRec
<1>4. ASSUME NEW s \in Replica PROVE T[s].ackOff <= m.slaves[s].ackOff
  BY <1>2 DEF SlaveRec
<1> HIDE DEF T
<1>5. g \in Primary /\ g.slaves = T /\ g.clients = m.clients /\ g.waiting = m.waiting /\ g.stream = m.stream
      /\ g.now = m.now /\ g.cron = m.cron
  BY <1>3 DEF Primary
<1> HIDE DEF g
<1> QED BY <1>1, <1>4, <1>5, RefreshCounts

LEMMA UnblockKeeps ==
  ASSUME NEW m \in Primary, Waits(m), NEW kept \in Seq(Waiter), Range(kept) \subseteq Range(m.waiting)
  PROVE  LET f == unblockClientWaitingReplicas(m, kept)
         IN /\ f \in Primary /\ Waits(f)
            /\ f.slaves = m.slaves /\ f.stream = m.stream /\ f.good = m.good /\ f.now = m.now /\ f.cron = m.cron /\ f.waiting = kept
<1> DEFINE C == [c \in Waiter |-> [m.clients[c] EXCEPT !.wait = IF c \in Range(kept) THEN @ ELSE NoWait]]
           f == [m EXCEPT !.waiting = kept, !.clients = C]
<1>1. unblockClientWaitingReplicas(m, kept) = f
  BY DEF unblockClientWaitingReplicas
<1>2. m.clients \in [Waiter -> WaiterRec]
  BY DEF Primary
<1>3. ASSUME NEW c \in Waiter
      PROVE  /\ C[c] \in WaiterRec /\ C[c].woff = m.clients[c].woff /\ C[c].wrote = m.clients[c].wrote
             /\ c \in Range(kept) => C[c].wait = m.clients[c].wait
  BY <1>2 DEF WaiterRec, WaitRec, NoWait
<1>4. C \in [Waiter -> WaiterRec]
  <2>1. C = [c \in Waiter |-> C[c]]
    OBVIOUS
  <2> HIDE DEF C
  <2> QED BY <1>3, <2>1
<1> HIDE DEF C
<1>5. /\ f \in Primary /\ f.clients = C /\ f.waiting = kept
      /\ f.slaves = m.slaves /\ f.stream = m.stream /\ f.good = m.good /\ f.now = m.now /\ f.cron = m.cron
  BY <1>4 DEF Primary
<1> HIDE DEF f
<1>6. Waits(f)
  BY <1>3, <1>5 DEF Waits
<1> QED BY <1>1, <1>5, <1>6

-----------------------------------------------------------------------------
(* The steps *)

LEMMA AckInitInv == AckInit => AckInv
<1> SUFFICES ASSUME AckInit PROVE AckInv
  OBVIOUS
<1> DEFINE Gone == [online |-> FALSE, ackOff |-> 0, ackTime |-> 0]
           New == [woff |-> 0, wrote |-> 0, wait |-> NoWait, sent |-> 0]
<1>1. Gone \in SlaveRec /\ New \in WaiterRec /\ Nothing \in ToldRec /\ Truthful(Nothing)
  BY DEF SlaveRec, WaiterRec, WaitRec, NoWait, ToldRec, Nothing, Truthful
<1>2. /\ primary \in Primary /\ primary.stream = <<>> /\ primary.waiting = <<>> /\ primary.good = 0
      /\ primary.now = 0 /\ primary.cron = 0
      /\ primary.slaves = [s \in Replica |-> Gone] /\ primary.clients = [c \in Waiter |-> New]
  <2> HIDE DEF Gone, New
  <2>1. primary = [now |-> 0, loops |-> 0, cron |-> 0, stream |-> <<>>, slaves |-> [s \in Replica |-> Gone], clients |-> [c \in Waiter |-> New],
                   waiting |-> <<>>, getack |-> FALSE, good |-> 0, faults |-> 0]
    BY DEF AckInit, Gone, New
  <2> QED BY <2>1, <1>1 DEF Primary
<1>3. AckTypes
  BY <1>1, <1>2 DEF AckInit, AckTypes, ReplicaRec
<1>4. Acknowledged
  BY <1>2 DEF AckInit, Acknowledged
<1>5. Waits(primary)
  BY <1>2 DEF Waits, Range
<1>6. Counted(primary, ackPlan)
  <2>1. Cardinality(GoodSlaves(primary, ackPlan.maxLag)) \in Nat
    BY Fewer DEF GoodSlaves
  <2> QED BY <2>1, <1>2 DEF Counted
<1> QED BY <1>1, <1>3, <1>4, <1>5, <1>6 DEF AckInv, AckInit

\* The parts of the invariant that a step of a client, or of the event loop, has to show:
\* slaves and acknowledgements are as before.
LEMMA ClientStep ==
  ASSUME AckInv, UNCHANGED <<ackPlan, replica, acks>>, primary' \in Primary, told' \in ToldRec, Truthful(told'),
         primary'.slaves = primary.slaves, primary'.now = primary.now, primary'.cron = primary.cron, primary'.good = primary.good, Waits(primary')
  PROVE  AckInv'
<1>1. AckTypes'
  BY DEF AckInv, AckTypes
<1>2. Acknowledged'
  BY DEF AckInv, Acknowledged
<1>3. GoodSlaves(primary', ackPlan.maxLag) = GoodSlaves(primary, ackPlan.maxLag)
  BY DEF GoodSlaves
<1>4. Counted(primary', ackPlan')
  BY <1>3 DEF AckInv, Counted
<1> QED BY <1>1, <1>2, <1>4 DEF AckInv

LEMMA NothingTold == Nothing \in ToldRec /\ Truthful(Nothing)
BY DEF Nothing, ToldRec, Truthful

LEMMA WriteInv ==
  ASSUME AckInv, UNCHANGED ackPlan, NEW c \in Waiter, WriteCommand(c)
  PROVE  AckInv'
<1> DEFINE m == primary
           t == Append(m.stream, "write")
           k == [woff |-> Len(m.stream) + 1, wrote |-> Len(m.stream) + 1, wait |-> NoWait, sent |-> m.clients[c].sent + 1]
           C == [m.clients EXCEPT ![c] = k]
           f == [m EXCEPT !.stream = t, !.clients = C]
<1>1. m \in Primary /\ m.clients \in [Waiter -> WaiterRec] /\ m.stream \in Seq(Command) /\ Waits(m)
  BY DEF AckInv, AckTypes, Primary
<1>2. c \notin Range(m.waiting) /\ primary' = f /\ UNCHANGED <<replica, acks>> /\ told' = Nothing
  BY DEF WriteCommand, NextRequest, Offset
<1>3. t \in Seq(Command) /\ Len(t) = Len(m.stream) + 1 /\ Len(m.stream) \in Nat
  BY <1>1 DEF Command
<1>4. k \in WaiterRec /\ k.wrote = Len(t) /\ k.woff = Len(t)
  BY <1>1, <1>3 DEF WaiterRec, WaitRec, NoWait
<1> HIDE DEF k, t
<1>5. C \in [Waiter -> WaiterRec] /\ C[c] = k /\ \A d \in Waiter \ {c} : C[d] = m.clients[d]
  BY <1>1, <1>4
<1> HIDE DEF C
<1>6. f \in Primary /\ f.stream = t /\ f.clients = C /\ f.waiting = m.waiting
      /\ f.slaves = m.slaves /\ f.now = m.now /\ f.cron = m.cron /\ f.good = m.good
  BY <1>1, <1>3, <1>5 DEF Primary
<1> HIDE DEF f
<1>7. Waits(f)
  <2> SUFFICES ASSUME NEW d \in Waiter
               PROVE  /\ f.clients[d].wrote <= f.clients[d].woff
                      /\ f.clients[d].woff <= Len(f.stream)
                      /\ d \in Range(f.waiting) => f.clients[d].wrote <= f.clients[d].wait.off
    BY DEF Waits
  <2>1. CASE d = c
    BY <2>1, <1>2, <1>3, <1>4, <1>5, <1>6
  <2>2. CASE d # c
    <3>1. f.clients[d] = m.clients[d] /\ m.clients[d].woff \in Nat
      BY <2>2, <1>1, <1>5, <1>6 DEF WaiterRec
    <3> QED BY <3>1, <1>1, <1>3, <1>6 DEF Waits
  <2> QED BY <2>1, <2>2
<1> QED BY <1>2, <1>6, <1>7, ClientStep, NothingTold

LEMMA WaitInv ==
  ASSUME AckInv, UNCHANGED ackPlan, NEW c \in Waiter, waitCommand(c)
  PROVE  AckInv'
<1> DEFINE m == primary
           n == replicationCountAcksByOffset(m, m.clients[c].woff)
<1>1. m \in Primary /\ m.clients \in [Waiter -> WaiterRec] /\ Waits(m) /\ m.waiting \in Seq(Waiter)
      /\ m.now \in Nat /\ m.stream \in Seq(Command)
  BY DEF AckInv, AckTypes, Primary
<1>2. m.clients[c].woff \in Nat /\ m.clients[c].wrote \in Nat /\ m.clients[c].sent \in Nat /\ m.clients[c].wait \in WaitRec
      /\ Len(m.stream) \in Nat
  BY <1>1 DEF WaiterRec
<1>3. PICK q \in NextRequest(c) :
        /\ q.num > 0
        /\ IF n >= q.num
           THEN /\ told' = Tell(m, c, n)
                /\ primary' = [m EXCEPT !.clients[c].woff = Len(m.stream), !.clients[c].sent = @ + 1]
           ELSE /\ primary' = [m EXCEPT
                     !.clients[c] = [woff |-> Len(m.stream), wrote |-> @.wrote, sent |-> @.sent + 1,
                                     wait |-> [off |-> @.woff, num |-> q.num,
                                               timeout |-> IF q.timeout = 0 THEN 0 ELSE m.now + q.timeout]],
                     !.waiting = Append(@, c), !.getack = TRUE]
                /\ told' = Nothing
        /\ UNCHANGED <<replica, acks>>
  BY DEF waitCommand, Offset
<1>4. q.num \in Nat /\ q.timeout \in Nat
  <2>1. ackPlan \in AckPlan
    BY DEF AckInv, AckTypes
  <2>2. ackPlan.requests[c] \in Seq([num : Nat, timeout : Nat])
    BY <2>1, AckAssumption
  <2>3. PICK i \in DOMAIN ackPlan.requests[c] : q = ackPlan.requests[c][i]
    BY DEF NextRequest
  <2>4. q \in [num : Nat, timeout : Nat]
    <3>1. i \in 1..Len(ackPlan.requests[c])
      BY <2>2, <2>3, LenProperties
    <3> QED BY <2>2, <2>3, <3>1, ElementOfSeq
  <2> QED BY <2>4
<1>5. CASE n >= q.num
  <2> DEFINE k == [m.clients[c] EXCEPT !.woff = Len(m.stream), !.sent = @ + 1]
             C == [m.clients EXCEPT ![c] = k]
             f == [m EXCEPT !.clients = C]
  <2>1. primary' = f /\ told' = Tell(m, c, n)
    <3>1. primary' = [m EXCEPT !.clients[c].woff = Len(m.stream), !.clients[c].sent = @ + 1] /\ told' = Tell(m, c, n)
      BY <1>3, <1>5
    <3> HIDE DEF n
    <3> QED BY <3>1, <1>1
  <2>2. k \in WaiterRec /\ k.woff = Len(m.stream) /\ k.wrote = m.clients[c].wrote /\ k.wait = m.clients[c].wait
    <3> DEFINE x == m.clients[c]
    <3>1. x \in WaiterRec /\ x.sent \in Nat /\ Len(m.stream) \in Nat
      BY <1>1, <1>2
    <3> HIDE DEF x
    <3>2. [x EXCEPT !.woff = Len(m.stream), !.sent = @ + 1] \in WaiterRec
      <4> DEFINE l == Len(m.stream)
                 e == x.sent + 1
      <4>1. l \in Nat /\ e \in Nat
        BY <3>1
      <4> HIDE DEF l, e
      <4>2. [x EXCEPT !.woff = l, !.sent = e] \in WaiterRec
        BY <3>1, <4>1 DEF WaiterRec
      <4> QED BY <4>2 DEF l, e
    <3>3. LET y == [x EXCEPT !.woff = Len(m.stream), !.sent = @ + 1]
          IN y.woff = Len(m.stream) /\ y.wrote = x.wrote /\ y.wait = x.wait
      BY <3>1 DEF WaiterRec
    <3> QED BY <3>2, <3>3 DEF x
  <2> HIDE DEF k
  <2>3. C \in [Waiter -> WaiterRec] /\ C[c] = k /\ \A d \in Waiter \ {c} : C[d] = m.clients[d]
    BY <1>1, <2>2
  <2> HIDE DEF C
  <2>4. f \in Primary /\ f.stream = m.stream /\ f.clients = C /\ f.waiting = m.waiting
        /\ f.slaves = m.slaves /\ f.now = m.now /\ f.cron = m.cron /\ f.good = m.good
    BY <1>1, <2>3 DEF Primary
  <2> HIDE DEF f
  <2>5. Waits(f)
    BY <1>1, <1>2, <2>2, <2>3, <2>4 DEF Waits
  <2>6. told' \in ToldRec /\ Truthful(told')
    <3>1. n = Cardinality(Acked(m, m.clients[c].woff)) /\ n \in Nat
      BY Fewer DEF replicationCountAcksByOffset, Acked
    <3>2. AckTypes /\ Acknowledged /\ m.clients[c].wrote <= m.clients[c].woff /\ n <= Cardinality(Acked(m, m.clients[c].woff))
      BY <3>1, <1>1 DEF AckInv, Waits
    <3> HIDE DEF n
    <3> QED BY <2>1, <3>1, <3>2, <1>1, <1>2, AckedRead
  <2>7. UNCHANGED <<replica, acks>>
    BY <1>3
  <2> QED BY <2>1, <2>4, <2>5, <2>6, <2>7, ClientStep
<1>6. CASE ~ (n >= q.num)
  <2> DEFINE w == [off |-> m.clients[c].woff, num |-> q.num, timeout |-> IF q.timeout = 0 THEN 0 ELSE m.now + q.timeout]
             k == [woff |-> Len(m.stream), wrote |-> m.clients[c].wrote, sent |-> m.clients[c].sent + 1, wait |-> w]
             C == [m.clients EXCEPT ![c] = k]
             Q == Append(m.waiting, c)
             f == [m EXCEPT !.clients = C, !.waiting = Q, !.getack = TRUE]
  <2>1. primary' = f /\ told' = Nothing
    <3>1. /\ told' = Nothing
          /\ primary' = [m EXCEPT
                     !.clients[c] = [woff |-> Len(m.stream), wrote |-> @.wrote, sent |-> @.sent + 1,
                                     wait |-> [off |-> @.woff, num |-> q.num,
                                               timeout |-> IF q.timeout = 0 THEN 0 ELSE m.now + q.timeout]],
                     !.waiting = Append(@, c), !.getack = TRUE]
      BY <1>3, <1>6
    <3> HIDE DEF n
    <3> QED BY <3>1, <1>1
  <2>2. w \in WaitRec /\ w.off = m.clients[c].woff
    BY <1>1, <1>2, <1>4 DEF WaitRec
  <2> HIDE DEF w
  <2>3. k \in WaiterRec /\ k.woff = Len(m.stream) /\ k.wrote = m.clients[c].wrote /\ k.wait = w
    BY <1>2, <2>2 DEF WaiterRec
  <2> HIDE DEF k
  <2>4. C \in [Waiter -> WaiterRec] /\ C[c] = k /\ \A d \in Waiter \ {c} : C[d] = m.clients[d]
    BY <1>1, <2>3
  <2> HIDE DEF C
  <2>5. Q \in Seq(Waiter) /\ Range(Q) \subseteq Range(m.waiting) \cup {c}
    BY <1>1, AppendRange
  <2> HIDE DEF Q
  <2>6. f \in Primary /\ f.stream = m.stream /\ f.clients = C /\ f.waiting = Q
        /\ f.slaves = m.slaves /\ f.now = m.now /\ f.cron = m.cron /\ f.good = m.good
    BY <1>1, <2>4, <2>5 DEF Primary
  <2> HIDE DEF f
  <2>7. Waits(f)
    <3> SUFFICES ASSUME NEW d \in Waiter
                 PROVE  /\ f.clients[d].wrote <= f.clients[d].woff
                        /\ f.clients[d].woff <= Len(f.stream)
                        /\ d \in Range(f.waiting) => f.clients[d].wrote <= f.clients[d].wait.off
      BY DEF Waits
    <3>1. CASE d = c
      BY <3>1, <1>1, <1>2, <2>2, <2>3, <2>4, <2>6 DEF Waits
    <3>2. CASE d # c
      BY <3>2, <1>1, <2>4, <2>5, <2>6 DEF Waits
    <3> QED BY <3>1, <3>2
  <2>8. UNCHANGED <<replica, acks>>
    BY <1>3
  <2> QED BY <2>1, <2>6, <2>7, <2>8, ClientStep, NothingTold
<1> QED BY <1>5, <1>6

LEMMA RemoveRange ==
  ASSUME NEW S, NEW q \in Seq(S), NEW i \in 1..Len(q)
  PROVE  RemoveAt(q, i) \in Seq(S) /\ Range(RemoveAt(q, i)) \subseteq Range(q)
<1> DEFINE R == Range(q)
<1>1. Len(q) \in Nat /\ DOMAIN q = 1..Len(q) /\ \A j \in 1..Len(q) : q[j] \in R
  BY LenProperties DEF Range
<1>2. R \subseteq S
  BY <1>1, ElementOfSeq DEF Range
<1> HIDE DEF R
<1>3. SubSeq(q, 1, i - 1) \in Seq(R) /\ SubSeq(q, i + 1, Len(q)) \in Seq(R)
  BY <1>1, SubSeqProperties
<1>4. RemoveAt(q, i) \in Seq(R)
  BY <1>3, ConcatProperties DEF RemoveAt
<1>5. Range(RemoveAt(q, i)) \subseteq R
  BY <1>4, LenProperties, ElementOfSeq DEF Range
<1>6. RemoveAt(q, i) \in Seq(S)
  BY <1>2, <1>4
<1> QED BY <1>5, <1>6 DEF R

LEMMA ClosesInv ==
  ASSUME AckInv, UNCHANGED ackPlan, NEW c \in Waiter, WaiterCloses(c)
  PROVE  AckInv'
<1> DEFINE m == primary
           q == m.waiting
           kept == IF c \in Range(q) THEN RemoveAt(q, CHOOSE i \in DOMAIN q : q[i] = c) ELSE q
           u == unblockClientWaitingReplicas(m, kept)
           x == m.faults + 1
           k == [woff |-> 0, wrote |-> 0, wait |-> NoWait, sent |-> Len(ackPlan.requests[c])]
           C == [u.clients EXCEPT ![c] = k]
           f == [u EXCEPT !.faults = x, !.clients = C]
<1>1. m \in Primary /\ Waits(m) /\ q \in Seq(Waiter) /\ m.faults \in Nat
  BY DEF AckInv, AckTypes, Primary
<1>2. kept \in Seq(Waiter) /\ Range(kept) \subseteq Range(q)
  <2>1. CASE c \in Range(q)
    <3> DEFINE i == CHOOSE i \in DOMAIN q : q[i] = c
    <3>1. i \in 1..Len(q)
      BY <2>1, <1>1, LenProperties DEF Range
    <3> HIDE DEF i
    <3> QED BY <3>1, <2>1, <1>1, RemoveRange DEF i
  <2>2. CASE c \notin Range(q)
    BY <2>2, <1>1
  <2> QED BY <2>1, <2>2
<1> HIDE DEF kept
<1>3. /\ u \in Primary /\ Waits(u)
      /\ u.slaves = m.slaves /\ u.stream = m.stream /\ u.good = m.good /\ u.now = m.now /\ u.cron = m.cron
  BY <1>1, <1>2, UnblockKeeps
<1>4. u.faults = m.faults
  BY <1>1 DEF unblockClientWaitingReplicas, Primary
<1>5. primary' = f /\ told' = Nothing /\ UNCHANGED <<replica, acks>>
  <2>1. /\ primary' = [u EXCEPT !.faults = @ + 1,
                 !.clients[c] = [woff |-> 0, wrote |-> 0, wait |-> NoWait, sent |-> Len(ackPlan.requests[c])]]
        /\ told' = Nothing /\ UNCHANGED <<replica, acks>>
    BY DEF WaiterCloses, kept
  <2> HIDE DEF u
  <2> QED BY <2>1, <1>3, <1>4
<1>6. k \in WaiterRec
  <2>1. ackPlan \in AckPlan
    BY DEF AckInv, AckTypes
  <2>2. Len(ackPlan.requests[c]) \in Nat
    BY <2>1, AckAssumption, LenProperties
  <2> QED BY <2>2 DEF WaiterRec, WaitRec, NoWait
<1> HIDE DEF u
<1>7. u.clients \in [Waiter -> WaiterRec] /\ Len(u.stream) \in Nat
  BY <1>3 DEF Primary
<1>8. C \in [Waiter -> WaiterRec] /\ C[c] = k /\ \A d \in Waiter \ {c} : C[d] = u.clients[d]
  BY <1>6, <1>7
<1>9. k.woff = 0 /\ k.wrote = 0 /\ k.wait.off = 0
  BY DEF NoWait
<1> HIDE DEF k, C
<1>10. x \in Nat
  BY <1>1
<1> HIDE DEF x
<1>11. f \in Primary /\ f.stream = u.stream /\ f.clients = C /\ f.waiting = u.waiting
       /\ f.slaves = u.slaves /\ f.now = u.now /\ f.cron = u.cron /\ f.good = u.good
  BY <1>3, <1>8, <1>10 DEF Primary
<1> HIDE DEF f
<1>12. Waits(f)
  <2> SUFFICES ASSUME NEW d \in Waiter
               PROVE  /\ f.clients[d].wrote <= f.clients[d].woff
                      /\ f.clients[d].woff <= Len(f.stream)
                      /\ d \in Range(f.waiting) => f.clients[d].wrote <= f.clients[d].wait.off
    BY DEF Waits
  <2>1. CASE d = c
    BY <2>1, <1>7, <1>8, <1>9, <1>11
  <2>2. CASE d # c
    BY <2>2, <1>3, <1>8, <1>11 DEF Waits
  <2> QED BY <2>1, <2>2
<1> QED BY <1>3, <1>5, <1>11, <1>12, ClientStep, NothingTold

LEMMA StreamGrows ==
  ASSUME NEW m \in Primary, Waits(m), NEW x \in Command, NEW g \in BOOLEAN
  PROVE  LET f == [m EXCEPT !.stream = Append(@, x), !.getack = g]
         IN /\ f \in Primary /\ Waits(f)
            /\ f.stream = Append(m.stream, x) /\ f.waiting = m.waiting /\ f.clients = m.clients
            /\ f.slaves = m.slaves /\ f.now = m.now /\ f.cron = m.cron /\ f.good = m.good
<1> DEFINE t == Append(m.stream, x)
           f == [m EXCEPT !.stream = t, !.getack = g]
<1>1. m.stream \in Seq(Command) /\ Len(m.stream) \in Nat /\ m.clients \in [Waiter -> WaiterRec]
  BY DEF Primary
<1>2. t \in Seq(Command) /\ Len(t) = Len(m.stream) + 1
  BY <1>1
<1> HIDE DEF t
<1>3. f \in Primary /\ f.stream = t /\ f.waiting = m.waiting /\ f.clients = m.clients
      /\ f.slaves = m.slaves /\ f.now = m.now /\ f.cron = m.cron /\ f.good = m.good
  BY <1>2 DEF Primary
<1> HIDE DEF f
<1>4. Waits(f)
  BY <1>1, <1>2, <1>3 DEF Waits, WaiterRec
<1> QED BY <1>3, <1>4 DEF f, t

LEMMA SleepInv ==
  ASSUME AckInv, UNCHANGED ackPlan, BeforeSleep
  PROVE  AckInv'
<1> DEFINE m == IF primary.getack THEN [primary EXCEPT !.stream = Append(@, "getack"), !.getack = FALSE] ELSE primary
           r == processClientsWaitingReplicas(m)
<1>1. primary \in Primary /\ Waits(primary) /\ AckTypes /\ Acknowledged
  BY DEF AckInv, AckTypes
<1>2. m \in Primary /\ Waits(m) /\ m.slaves = primary.slaves /\ m.now = primary.now /\ m.cron = primary.cron /\ m.good = primary.good
  <2>1. CASE primary.getack
    <3>1. "getack" \in Command
      BY DEF Command
    <3> QED BY <2>1, <3>1, <1>1, StreamGrows
  <2>2. CASE ~ primary.getack
    BY <2>2, <1>1
  <2> QED BY <2>1, <2>2
<1>3. primary' = unblockClientWaitingReplicas(m, r.kept) /\ told' = r.told /\ UNCHANGED <<replica, acks>>
  BY DEF BeforeSleep
<1> HIDE DEF m
<1>4. LoopInv(m, r)
  BY <1>1, <1>2, WakesAll DEF LoopReady
<1> HIDE DEF r
<1>5. r.kept \in Seq(Waiter) /\ Range(r.kept) \subseteq Range(m.waiting) /\ r.told \in ToldRec /\ Truthful(r.told)
  BY <1>4 DEF LoopInv, LoopRec
<1>6. LET f == unblockClientWaitingReplicas(m, r.kept)
      IN f \in Primary /\ Waits(f) /\ f.slaves = m.slaves /\ f.good = m.good /\ f.now = m.now /\ f.cron = m.cron
  BY <1>2, <1>5, UnblockKeeps
<1> QED BY <1>2, <1>3, <1>5, <1>6, ClientStep

\* What replicationCron() leaves of the master.
LEMMA CronCounts ==
  ASSUME AckTypes, NEW m \in Primary, Waits(m), m.cron <= m.now, NEW ping \in BOOLEAN
  PROVE  LET f == replicationCron(m, ping)
         IN /\ f \in Primary /\ Waits(f) /\ Counted(f, ackPlan)
            /\ f.stream = m.stream \/ f.stream = Append(m.stream, "ping")
            /\ \A s \in Replica : f.slaves[s].ackOff <= m.slaves[s].ackOff
<1> DEFINE fed == IF ping THEN [m EXCEPT !.stream = Append(@, "ping")] ELSE m
           late == LateSlaves(m)
           u == freeSlaves(fed, late)
           t == m.now
           g == [u EXCEPT !.cron = t]
           f == refreshGoodSlavesCount(g)
<1>1. replicationCron(m, ping) = f
  BY DEF replicationCron
<1>2. /\ fed \in Primary /\ Waits(fed) /\ fed.slaves = m.slaves /\ fed.now = m.now /\ fed.cron = m.cron
      /\ fed.stream = m.stream \/ fed.stream = Append(m.stream, "ping")
  <2>1. CASE ping
    <3> DEFINE k == [m EXCEPT !.stream = Append(@, "ping"), !.getack = m.getack]
    <3>1. m.getack \in BOOLEAN /\ "ping" \in Command
      BY DEF Primary, Command
    <3>2. /\ k \in Primary /\ Waits(k) /\ k.stream = Append(m.stream, "ping")
          /\ k.slaves = m.slaves /\ k.now = m.now /\ k.cron = m.cron
      BY <3>1, StreamGrows
    <3>3. fed = k
      BY <2>1 DEF Primary
    <3> HIDE DEF k, fed
    <3> QED BY <3>2, <3>3
  <2>2. CASE ~ ping
    BY <2>2
  <2> QED BY <2>1, <2>2
<1> HIDE DEF fed, late
<1>3. /\ u \in Primary /\ u.now = m.now /\ u.clients = fed.clients /\ u.waiting = fed.waiting /\ u.stream = fed.stream
      /\ \A s \in Replica : u.slaves[s].ackOff <= m.slaves[s].ackOff
  BY <1>2, FreedForgotten
<1> HIDE DEF u
<1>4. t \in Nat /\ t = m.now
  BY DEF Primary
<1> HIDE DEF t
<1>5. /\ g \in Primary /\ g.now = t /\ g.cron = t /\ g.slaves = u.slaves
      /\ g.clients = u.clients /\ g.waiting = u.waiting /\ g.stream = u.stream
  BY <1>3, <1>4 DEF Primary
<1> HIDE DEF g
<1>6. /\ f \in Primary /\ Counted(f, ackPlan)
      /\ f.slaves = g.slaves /\ f.clients = g.clients /\ f.waiting = g.waiting /\ f.stream = g.stream
  BY <1>4, <1>5, RefreshCounts
<1> HIDE DEF f
<1>7. Waits(f)
  BY <1>2, <1>3, <1>5, <1>6 DEF Waits
<1> QED BY <1>1, <1>2, <1>3, <1>5, <1>6, <1>7

\* What a turn of serverCron() leaves of the master, of the clients' answers and of the links.
LEMMA CronTurn ==
  ASSUME AckInv, UNCHANGED ackPlan, NEW passed \in Nat, NEW ping \in BOOLEAN, ServerCron(passed, ping)
  PROVE  /\ primary' \in Primary /\ Waits(primary') /\ Counted(primary', ackPlan)
         /\ primary'.stream = primary.stream \/ primary'.stream = Append(primary.stream, "ping")
         /\ \A s \in Replica : primary'.slaves[s].ackOff <= primary.slaves[s].ackOff
         /\ told' \in ToldRec /\ Truthful(told') /\ UNCHANGED replica
         /\ \A s \in Replica : acks'[s] = acks[s] \/ acks'[s] = <<>>
         /\ acks' \in [Replica -> Seq(Nat)]
<1> DEFINE x == primary.now + passed
           m == [primary EXCEPT !.now = x]
           r == clientsCron(m)
           late == LateSlaves(m)
           rest == unblockClientWaitingReplicas(m, r.kept)
           due == primary.loops = 0
           next == IF due THEN replicationCron(rest, ping) ELSE rest
           l == (next.loops + 1) % ackPlan.period
           f == [next EXCEPT !.loops = l]
<1>1. /\ primary \in Primary /\ Waits(primary) /\ AckTypes /\ Acknowledged /\ Counted(primary, ackPlan)
      /\ primary.now \in Nat /\ x \in Nat /\ x >= primary.now
  BY DEF AckInv, AckTypes, Primary
<1>2. /\ primary' = f /\ told' = r.told /\ UNCHANGED replica
      /\ acks' = [s \in Replica |-> IF due /\ s \in late THEN <<>> ELSE acks[s]]
  BY DEF ServerCron
<1> HIDE DEF x
<1>3. /\ m \in Primary /\ m.slaves = primary.slaves /\ m.waiting = primary.waiting /\ m.stream = primary.stream
      /\ m.good = primary.good /\ m.now = x /\ m.cron = primary.cron /\ Waits(m)
  <2>1. m \in Primary /\ m.slaves = primary.slaves /\ m.clients = primary.clients /\ m.waiting = primary.waiting
        /\ m.stream = primary.stream /\ m.good = primary.good /\ m.now = x /\ m.cron = primary.cron
    BY <1>1 DEF Primary
  <2> HIDE DEF m
  <2> QED BY <2>1, <1>1 DEF Waits
<1> HIDE DEF m, late
<1>4. LoopInv(m, r)
  BY <1>1, <1>3, ExpiresAll DEF LoopReady
<1> HIDE DEF r
<1>5. r.kept \in Seq(Waiter) /\ Range(r.kept) \subseteq Range(m.waiting) /\ r.told \in ToldRec /\ Truthful(r.told)
  BY <1>4 DEF LoopInv, LoopRec
<1>6. /\ rest \in Primary /\ Waits(rest) /\ rest.slaves = m.slaves /\ rest.stream = m.stream
      /\ rest.good = m.good /\ rest.now = m.now /\ rest.cron = m.cron
  BY <1>3, <1>5, UnblockKeeps
<1> HIDE DEF rest
<1>7. rest.cron <= rest.now /\ Counted(rest, ackPlan)
  <2>1. rest.cron <= rest.now
    <3>1. primary.cron \in Nat /\ primary.cron <= primary.now
      BY <1>1 DEF Counted, Primary
    <3> QED BY <3>1, <1>1, <1>3, <1>6
  <2>2. GoodSlaves(rest, ackPlan.maxLag) = GoodSlaves(primary, ackPlan.maxLag)
    BY <1>3, <1>6 DEF GoodSlaves
  <2> QED BY <2>1, <2>2, <1>1, <1>3, <1>6 DEF Counted
<1>8. /\ next \in Primary /\ Waits(next) /\ Counted(next, ackPlan)
      /\ next.stream = primary.stream \/ next.stream = Append(primary.stream, "ping")
      /\ \A s \in Replica : next.slaves[s].ackOff <= primary.slaves[s].ackOff
  <2>1. CASE due
    BY <2>1, <1>1, <1>3, <1>6, <1>7, CronCounts
  <2>2. CASE ~ due
    <3>1. \A s \in Replica : primary.slaves[s].ackOff \in Nat
      BY <1>1 DEF Primary, SlaveRec
    <3> QED BY <2>2, <3>1, <1>3, <1>6, <1>7
  <2> QED BY <2>1, <2>2
<1> HIDE DEF next
<1>9. l \in Nat
  <2>1. next.loops + 1 \in Nat /\ ackPlan.period \in Nat \ {0}
    BY <1>1, <1>8, AckAssumption DEF Primary, AckTypes
  <2> QED BY <2>1
<1> HIDE DEF l
<1>10. f \in Primary /\ f.now = next.now /\ f.cron = next.cron /\ f.good = next.good /\ f.slaves = next.slaves
       /\ f.clients = next.clients /\ f.waiting = next.waiting /\ f.stream = next.stream
  BY <1>8, <1>9 DEF Primary
<1> HIDE DEF f
<1>11. Waits(f) /\ Counted(f, ackPlan)
  BY <1>8, <1>10 DEF Waits, Counted, GoodSlaves
<1>12. acks' \in [Replica -> Seq(Nat)] /\ \A s \in Replica : acks'[s] = acks[s] \/ acks'[s] = <<>>
  BY <1>1, <1>2 DEF AckTypes
<1> QED BY <1>2, <1>5, <1>8, <1>10, <1>11, <1>12

LEMMA CronInv ==
  ASSUME AckInv, UNCHANGED ackPlan, NEW passed \in Nat, NEW ping \in BOOLEAN, ServerCron(passed, ping)
  PROVE  AckInv'
<1>1. primary \in Primary /\ AckTypes /\ Acknowledged
  BY DEF AckInv, AckTypes
<1>2. /\ primary' \in Primary /\ Waits(primary') /\ Counted(primary', ackPlan)
      /\ \A s \in Replica : primary'.slaves[s].ackOff <= primary.slaves[s].ackOff
      /\ told' \in ToldRec /\ Truthful(told') /\ UNCHANGED replica
      /\ \A s \in Replica : acks'[s] = acks[s] \/ acks'[s] = <<>>
      /\ acks' \in [Replica -> Seq(Nat)]
  BY CronTurn
<1>3. AckTypes'
  BY <1>1, <1>2 DEF AckTypes
<1>4. Acknowledged'
  <2> SUFFICES ASSUME NEW s \in Replica
               PROVE  /\ primary'.slaves[s].ackOff <= replica'[s].read
                      /\ \A i \in 1..Len(acks'[s]) : acks'[s][i] <= replica'[s].read
    BY DEF Acknowledged
  <2>1. primary'.slaves[s].ackOff \in Nat /\ primary.slaves[s].ackOff \in Nat /\ replica[s].read \in Nat
    BY <1>1, <1>2 DEF Primary, SlaveRec, AckTypes, ReplicaRec
  <2>2. primary'.slaves[s].ackOff <= replica[s].read
    BY <2>1, <1>1, <1>2 DEF Acknowledged
  <2>3. \A i \in 1..Len(acks'[s]) : acks'[s][i] <= replica[s].read
    BY <1>1, <1>2 DEF Acknowledged
  <2> QED BY <2>2, <2>3, <1>2
<1> QED BY <1>2, <1>3, <1>4 DEF AckInv

\* The parts of the invariant that a step of a slave has to show: the stream, and what the
\* master knows of its clients, are as before.
LEMMA SlaveMoves ==
  ASSUME AckInv, UNCHANGED ackPlan, told' = Nothing, primary' \in Primary,
         primary'.clients = primary.clients, primary'.waiting = primary.waiting, primary'.stream = primary.stream,
         Counted(primary', ackPlan), replica' \in [Replica -> ReplicaRec], acks' \in [Replica -> Seq(Nat)],
         \A s \in Replica : /\ primary'.slaves[s].ackOff <= replica'[s].read
                            /\ \A i \in 1..Len(acks'[s]) : acks'[s][i] <= replica'[s].read
  PROVE  AckInv'
<1>1. AckTypes'
  BY NothingTold DEF AckInv, AckTypes
<1>2. Acknowledged'
  BY DEF Acknowledged
<1>3. Waits(primary')
  BY DEF AckInv, Waits
<1>4. Counted(primary', ackPlan') /\ Truthful(told')
  BY NothingTold
<1> QED BY <1>1, <1>2, <1>3, <1>4 DEF AckInv

LEMMA OnlineInv ==
  ASSUME AckInv, UNCHANGED ackPlan, NEW s \in Replica, SlaveOnline(s)
  PROVE  AckInv'
<1> DEFINE k == [online |-> TRUE, ackOff |-> 0, ackTime |-> primary.now]
           T == [primary.slaves EXCEPT ![s] = k]
           g == [primary EXCEPT !.slaves = T]
           f == refreshGoodSlavesCount(g)
<1>1. primary \in Primary /\ primary.slaves \in [Replica -> SlaveRec] /\ primary.now \in Nat /\ AckTypes /\ Acknowledged
      /\ primary.cron <= primary.now
  BY DEF AckInv, AckTypes, Primary, Counted
<1>2. primary' = f /\ UNCHANGED <<replica, acks>> /\ told' = Nothing
  BY <1>1 DEF SlaveOnline
<1>3. k \in SlaveRec /\ k.ackOff = 0
  BY <1>1 DEF SlaveRec
<1> HIDE DEF k
<1>4. T \in [Replica -> SlaveRec] /\ \A x \in Replica : T[x] = IF x = s THEN k ELSE primary.slaves[x]
  BY <1>1, <1>3
<1> HIDE DEF T
<1>5. g \in Primary /\ g.slaves = T /\ g.clients = primary.clients /\ g.waiting = primary.waiting /\ g.stream = primary.stream
      /\ g.now = primary.now /\ g.cron = primary.cron
  BY <1>1, <1>4 DEF Primary
<1> HIDE DEF g
<1>6. f \in Primary /\ Counted(f, ackPlan) /\ f.slaves = T
      /\ f.clients = primary.clients /\ f.waiting = primary.waiting /\ f.stream = primary.stream
  BY <1>1, <1>5, RefreshCounts
<1> HIDE DEF f
<1>7. ASSUME NEW x \in Replica
      PROVE  /\ primary'.slaves[x].ackOff <= replica'[x].read
             /\ \A i \in 1..Len(acks'[x]) : acks'[x][i] <= replica'[x].read
  <2>1. replica[x].read \in Nat
    BY <1>1 DEF AckTypes, ReplicaRec
  <2> QED BY <2>1, <1>1, <1>2, <1>3, <1>4, <1>6 DEF Acknowledged
<1> QED BY <1>1, <1>2, <1>6, <1>7, SlaveMoves DEF AckTypes

LEMMA FreedInv ==
  ASSUME AckInv, UNCHANGED ackPlan, NEW s \in Replica, SlaveFreed(s)
  PROVE  AckInv'
<1> DEFINE g == freeSlaves(primary, {s})
           x == g.faults + 1
           f == [g EXCEPT !.faults = x]
<1>1. primary \in Primary /\ AckTypes /\ Acknowledged /\ primary.cron <= primary.now
  BY DEF AckInv, AckTypes, Counted
<1>2. primary' = f /\ acks' = [acks EXCEPT ![s] = <<>>] /\ UNCHANGED replica /\ told' = Nothing
  BY DEF SlaveFreed
<1>3. /\ g \in Primary /\ Counted(g, ackPlan)
      /\ g.clients = primary.clients /\ g.waiting = primary.waiting /\ g.stream = primary.stream
      /\ \A d \in Replica : g.slaves[d].ackOff <= primary.slaves[d].ackOff
  BY <1>1, FreedForgotten
<1> HIDE DEF g
<1>4. x \in Nat
  BY <1>3 DEF Primary
<1> HIDE DEF x
<1>5. f \in Primary /\ f.slaves = g.slaves /\ f.now = g.now /\ f.cron = g.cron /\ f.good = g.good
      /\ f.clients = g.clients /\ f.waiting = g.waiting /\ f.stream = g.stream
  BY <1>3, <1>4 DEF Primary
<1> HIDE DEF f
<1>6. Counted(f, ackPlan)
  BY <1>3, <1>5 DEF Counted, GoodSlaves
<1>7. ASSUME NEW d \in Replica
      PROVE  /\ primary'.slaves[d].ackOff <= replica'[d].read
             /\ \A i \in 1..Len(acks'[d]) : acks'[d][i] <= replica'[d].read
  <2>1. f.slaves[d].ackOff \in Nat /\ primary.slaves[d].ackOff \in Nat /\ replica[d].read \in Nat
    BY <1>1, <1>5 DEF Primary, SlaveRec, AckTypes, ReplicaRec
  <2>2. acks'[d] = acks[d] \/ acks'[d] = <<>>
    BY <1>1, <1>2 DEF AckTypes
  <2>3. \A i \in 1..Len(acks'[d]) : acks'[d][i] <= replica[d].read
    BY <2>2, <1>1 DEF Acknowledged
  <2> QED BY <2>1, <2>3, <1>1, <1>2, <1>3, <1>5 DEF Acknowledged
<1>8. acks' \in [Replica -> Seq(Nat)] /\ replica' \in [Replica -> ReplicaRec]
  BY <1>1, <1>2 DEF AckTypes
<1> QED BY <1>2, <1>3, <1>5, <1>6, <1>7, <1>8, SlaveMoves

LEMMA AckArrivesInv ==
  ASSUME AckInv, UNCHANGED ackPlan, NEW s \in Replica, replconfAck(s)
  PROVE  AckInv'
<1> DEFINE a == Head(acks[s])
           p == primary.slaves[s]
           k == [p EXCEPT !.ackOff = IF a > p.ackOff THEN a ELSE p.ackOff, !.ackTime = primary.now]
           T == [primary.slaves EXCEPT ![s] = k]
           f == [primary EXCEPT !.slaves = T]
<1>1. primary \in Primary /\ primary.slaves \in [Replica -> SlaveRec] /\ primary.now \in Nat /\ AckTypes /\ Acknowledged
      /\ acks \in [Replica -> Seq(Nat)] /\ Counted(primary, ackPlan)
      /\ primary.cron \in Nat /\ primary.cron <= primary.now
  BY DEF AckInv, AckTypes, Primary, Counted
<1>2. acks[s] # <<>> /\ acks[s] \in Seq(Nat) /\ acks' = [acks EXCEPT ![s] = Tail(acks[s])] /\ UNCHANGED replica /\ told' = Nothing
  BY <1>1 DEF replconfAck
<1>3. primary' = f
  BY <1>1 DEF replconfAck
<1>4. Len(acks[s]) \in Nat \ {0} /\ a = acks[s][1] /\ a \in Nat /\ Tail(acks[s]) \in Seq(Nat)
      /\ Len(Tail(acks[s])) = Len(acks[s]) - 1 /\ \A i \in 1..(Len(acks[s]) - 1) : Tail(acks[s])[i] = acks[s][i + 1]
  BY <1>2
<1>5. p \in SlaveRec /\ p.ackOff \in Nat
  BY <1>1 DEF SlaveRec
<1> HIDE DEF a, p
<1>6. k \in SlaveRec /\ k.online = p.online /\ k.ackTime = primary.now /\ (k.ackOff = a \/ k.ackOff = p.ackOff)
  <2> DEFINE o == IF a > p.ackOff THEN a ELSE p.ackOff
             t == primary.now
  <2>1. o \in Nat /\ t \in Nat /\ (o = a \/ o = p.ackOff)
    BY <1>1, <1>4, <1>5
  <2> HIDE DEF o, t
  <2>2. LET y == [p EXCEPT !.ackOff = o, !.ackTime = t] IN y \in SlaveRec /\ y.online = p.online /\ y.ackTime = t /\ y.ackOff = o
    BY <1>5, <2>1 DEF SlaveRec
  <2> QED BY <2>1, <2>2 DEF o, t
<1> HIDE DEF k
<1>7. T \in [Replica -> SlaveRec] /\ \A x \in Replica : T[x] = IF x = s THEN k ELSE primary.slaves[x]
  BY <1>1, <1>6
<1> HIDE DEF T
<1>8. f \in Primary /\ f.slaves = T /\ f.good = primary.good /\ f.now = primary.now /\ f.cron = primary.cron
      /\ f.clients = primary.clients /\ f.waiting = primary.waiting /\ f.stream = primary.stream
  BY <1>1, <1>7 DEF Primary
<1> HIDE DEF f
<1>9. Counted(f, ackPlan)
  <2> DEFINE G == GoodSlaves(primary, ackPlan.maxLag)
             H == GoodSlaves(f, ackPlan.maxLag)
  <2>1. ackPlan.maxLag \in Nat
    BY <1>1, AckAssumption DEF AckTypes
  <2>2. G \subseteq H
    <3> SUFFICES ASSUME NEW x \in Replica, primary.slaves[x].online, primary.cron - primary.slaves[x].ackTime <= ackPlan.maxLag
                 PROVE  f.slaves[x].online /\ f.cron - f.slaves[x].ackTime <= ackPlan.maxLag
      BY DEF GoodSlaves
    <3>1. CASE x = s
      <4>1. f.slaves[x] = k /\ f.cron = primary.cron /\ k.online /\ k.ackTime = primary.now
        BY <3>1, <1>6, <1>7, <1>8 DEF p
      <4>2. primary.cron - primary.now <= ackPlan.maxLag
        <5> DEFINE lag == ackPlan.maxLag
        <5> HIDE DEF lag
        <5>1. lag \in Nat
          BY <2>1 DEF lag
        <5>2. primary.cron - primary.now <= lag
          BY <5>1, <1>1
        <5> QED BY <5>2 DEF lag
      <4> QED BY <4>1, <4>2
    <3>2. CASE x # s
      BY <3>2, <1>7, <1>8
    <3> QED BY <3>1, <3>2
  <2>3. H \subseteq Replica
    BY DEF GoodSlaves
  <2>4. Cardinality(G) <= Cardinality(H) /\ Cardinality(G) \in Nat /\ Cardinality(H) \in Nat
    BY <2>2, <2>3, Fewer
  <2>5. primary.good \in Nat
    BY <1>1 DEF Primary
  <2> QED BY <2>4, <2>5, <1>1, <1>8 DEF Counted
<1>10. ASSUME NEW x \in Replica
       PROVE  /\ primary'.slaves[x].ackOff <= replica'[x].read
              /\ \A i \in 1..Len(acks'[x]) : acks'[x][i] <= replica'[x].read
  <2>1. CASE x = s
    <3>1. a <= replica[s].read /\ p.ackOff <= replica[s].read
      BY <1>1, <1>4 DEF Acknowledged, p
    <3>2. f.slaves[s].ackOff <= replica[s].read
      BY <3>1, <1>6, <1>7, <1>8
    <3>3. acks'[s] = Tail(acks[s])
      BY <1>1, <1>2
    <3>4. ASSUME NEW i \in 1..Len(acks'[s]) PROVE acks'[s][i] <= replica[s].read
      <4> DEFINE q == acks[s]
      <4>1. i \in 1..(Len(q) - 1) /\ i + 1 \in 1..Len(q) /\ acks'[s][i] = q[i + 1]
        BY <3>3, <1>4
      <4> QED BY <4>1, <1>1 DEF Acknowledged
    <3> QED BY <2>1, <3>2, <3>4, <1>2, <1>3
  <2>2. CASE x # s
    BY <2>2, <1>1, <1>2, <1>3, <1>7, <1>8 DEF Acknowledged
  <2> QED BY <2>1, <2>2
<1>11. acks' \in [Replica -> Seq(Nat)] /\ replica' \in [Replica -> ReplicaRec]
  BY <1>1, <1>2, <1>4 DEF AckTypes
<1> QED BY <1>2, <1>3, <1>8, <1>9, <1>10, <1>11, SlaveMoves

\* A slave whose acknowledgement is put on the link has read that much.
LEMMA SendAck ==
  ASSUME AckInv, NEW s \in Replica, NEW r \in ReplicaRec, replica[s].read <= r.read
  PROVE  LET q == replicationSendAck(s, r)
         IN q \in Seq(Nat) /\ \A i \in 1..Len(q) : q[i] <= r.read
<1> DEFINE a == acks[s]
           x == r.read
           q == IF Len(a) < ackPlan.maxAcks THEN Append(a, x) ELSE a
<1>1. replicationSendAck(s, r) = q
  BY DEF replicationSendAck
<1>2. a \in Seq(Nat) /\ x \in Nat /\ replica[s].read \in Nat /\ \A i \in 1..Len(a) : a[i] \in Nat /\ a[i] <= replica[s].read
  BY DEF AckInv, AckTypes, Acknowledged, ReplicaRec
<1> HIDE DEF a
<1>3. Append(a, x) \in Seq(Nat) /\ Len(Append(a, x)) = Len(a) + 1 /\ Append(a, x)[Len(a) + 1] = x
      /\ \A i \in 1..Len(a) : Append(a, x)[i] = a[i]
  BY <1>2, AppendProperties
<1>4. ASSUME NEW i \in 1..(Len(a) + 1) PROVE Append(a, x)[i] <= x
  <2>1. CASE i = Len(a) + 1
    BY <2>1, <1>2, <1>3
  <2>2. CASE i # Len(a) + 1
    <3>1. i \in 1..Len(a)
      BY <2>2, <1>2
    <3> QED BY <3>1, <1>2, <1>3
  <2> QED BY <2>1, <2>2
<1>5. \A i \in 1..Len(a) : a[i] <= x
  BY <1>2
<1> QED BY <1>1, <1>2, <1>3, <1>4, <1>5

\* A step of one slave: it has read as much as before or more, and what is on its link says no more.
LEMMA ReplicaStep ==
  ASSUME AckInv, UNCHANGED ackPlan, told' = Nothing, NEW s \in Replica, NEW r \in ReplicaRec, replica[s].read <= r.read,
         replica' = [replica EXCEPT ![s] = r],
         acks' = acks \/ acks' = [acks EXCEPT ![s] = replicationSendAck(s, r)],
         primary' = primary \/ primary' = [primary EXCEPT !.faults = @ + 1]
  PROVE  AckInv'
<1>1. primary \in Primary /\ AckTypes /\ Acknowledged /\ acks \in [Replica -> Seq(Nat)] /\ replica \in [Replica -> ReplicaRec]
      /\ Counted(primary, ackPlan)
  BY DEF AckInv, AckTypes
<1>2. /\ primary' \in Primary /\ primary'.slaves = primary.slaves /\ primary'.now = primary.now /\ primary'.cron = primary.cron
      /\ primary'.good = primary.good /\ primary'.clients = primary.clients /\ primary'.waiting = primary.waiting /\ primary'.stream = primary.stream
  <2>1. CASE primary' = primary
    BY <2>1, <1>1
  <2>2. CASE primary' = [primary EXCEPT !.faults = @ + 1]
    <3> DEFINE x == primary.faults + 1
    <3>1. primary' = [primary EXCEPT !.faults = x] /\ x \in Nat
      BY <2>2, <1>1 DEF Primary
    <3> HIDE DEF x
    <3> QED BY <3>1, <1>1 DEF Primary
  <2> QED BY <2>1, <2>2
<1>3. Counted(primary', ackPlan)
  BY <1>1, <1>2 DEF Counted, GoodSlaves
<1> DEFINE q == replicationSendAck(s, r)
<1>4. q \in Seq(Nat) /\ \A i \in 1..Len(q) : q[i] <= r.read
  BY SendAck
<1> HIDE DEF q
<1>5. acks' \in [Replica -> Seq(Nat)] /\ (acks'[s] = acks[s] \/ acks'[s] = q) /\ \A x \in Replica \ {s} : acks'[x] = acks[x]
  <2>1. acks' = acks \/ acks' = [acks EXCEPT ![s] = q]
    BY DEF q
  <2> QED BY <2>1, <1>1, <1>4
<1>6. replica' \in [Replica -> ReplicaRec] /\ replica'[s] = r /\ \A x \in Replica \ {s} : replica'[x] = replica[x]
  BY <1>1
<1>7. ASSUME NEW x \in Replica
      PROVE  /\ primary'.slaves[x].ackOff <= replica'[x].read
             /\ \A i \in 1..Len(acks'[x]) : acks'[x][i] <= replica'[x].read
  <2>0. primary.slaves[x].ackOff \in Nat /\ replica[x].read \in Nat /\ r.read \in Nat
        /\ \A i \in 1..Len(acks[x]) : acks[x][i] \in Nat /\ acks[x][i] <= replica[x].read
    <3>1. primary.slaves[x].ackOff \in Nat /\ replica[x].read \in Nat /\ r.read \in Nat
      BY <1>1 DEF Primary, SlaveRec, ReplicaRec
    <3>2. acks[x] \in Seq(Nat)
      BY <1>1
    <3>3. \A i \in 1..Len(acks[x]) : acks[x][i] \in Nat
      BY <3>2, ElementOfSeq
    <3> QED BY <3>1, <3>3, <1>1 DEF Acknowledged
  <2>1. primary.slaves[x].ackOff <= replica[x].read
    BY <1>1 DEF Acknowledged
  <2>2. CASE x = s
    <3>1. \A i \in 1..Len(acks[s]) : acks[s][i] <= r.read
      BY <2>0, <2>2
    <3>2. \A i \in 1..Len(acks'[s]) : acks'[s][i] <= r.read
      BY <3>1, <1>4, <1>5
    <3>3. primary'.slaves[s].ackOff <= r.read
      BY <2>0, <2>1, <2>2, <1>2
    <3> QED BY <3>2, <3>3, <2>2, <1>6
  <2>3. CASE x # s
    BY <2>3, <2>0, <2>1, <1>2, <1>5, <1>6
  <2> QED BY <2>2, <2>3
<1> QED BY <1>2, <1>3, <1>5, <1>6, <1>7, SlaveMoves

LEMMA ReplicaSet ==
  ASSUME NEW r \in ReplicaRec, NEW x \in Nat, NEW y \in Nat, NEW z \in BOOLEAN
  PROVE  /\ r.read \in Nat /\ r.done \in Nat /\ r.paused \in BOOLEAN
         /\ [r EXCEPT !.read = x, !.done = y] \in ReplicaRec /\ [r EXCEPT !.read = x, !.done = y].read = x
         /\ [r EXCEPT !.paused = z, !.done = y] \in ReplicaRec /\ [r EXCEPT !.paused = z, !.done = y].read = r.read
         /\ [r EXCEPT !.paused = z] \in ReplicaRec /\ [r EXCEPT !.paused = z].read = r.read
BY DEF ReplicaRec

LEMMA ReadsInv ==
  ASSUME AckInv, UNCHANGED ackPlan, NEW s \in Replica, NEW n \in 1..ackPlan.maxStream, SlaveReads(s, n)
  PROVE  AckInv'
<1> DEFINE r == replica[s]
           read == r.read + n
           done == IF r.paused THEN r.done ELSE read
           new == [r EXCEPT !.read = read, !.done = done]
<1>1. r \in ReplicaRec /\ r.read \in Nat /\ r.done \in Nat /\ r.paused \in BOOLEAN /\ n \in Nat
  <2>1. ackPlan.maxStream \in Nat
    BY AckAssumption DEF AckInv, AckTypes
  <2> QED BY <2>1 DEF AckInv, AckTypes, ReplicaRec
<1>2. /\ replica' = [replica EXCEPT ![s] = new]
      /\ acks' = acks \/ acks' = [acks EXCEPT ![s] = replicationSendAck(s, new)]
      /\ primary' = primary /\ told' = Nothing
  BY DEF SlaveReads
<1>3. new \in ReplicaRec /\ r.read <= new.read
  <2>1. read \in Nat /\ done \in Nat /\ r.read <= read /\ TRUE \in BOOLEAN
    BY <1>1
  <2> HIDE DEF read, done, r
  <2>2. r \in ReplicaRec
    BY <1>1
  <2>3. new \in ReplicaRec /\ new.read = read
    BY <2>1, <2>2 DEF ReplicaRec
  <2> QED BY <2>1, <2>3
<1> HIDE DEF new
<1> QED BY <1>2, <1>3, ReplicaStep

LEMMA SlaveCronInv ==
  ASSUME AckInv, UNCHANGED ackPlan, NEW s \in Replica, SlaveCron(s)
  PROVE  AckInv'
<1> DEFINE r == replica[s]
<1>1. r \in ReplicaRec /\ r.read <= r.read /\ replica = [replica EXCEPT ![s] = r]
  BY DEF AckInv, AckTypes, ReplicaRec
<1>2. replica' = replica /\ acks' = [acks EXCEPT ![s] = replicationSendAck(s, r)] /\ primary' = primary /\ told' = Nothing
  BY DEF SlaveCron
<1> HIDE DEF r
<1>3. replica[s].read <= r.read
  BY <1>1 DEF r
<1>4. replica' = [replica EXCEPT ![s] = r]
  BY <1>1, <1>2
<1> QED BY <1>1, <1>2, <1>3, <1>4, ReplicaStep

LEMMA PausedInv ==
  ASSUME AckInv, UNCHANGED ackPlan, NEW s \in Replica, SlavePaused(s)
  PROVE  AckInv'
<1> DEFINE r == [replica[s] EXCEPT !.paused = TRUE]
<1>1. r \in ReplicaRec /\ replica[s].read <= r.read
  <2>1. replica[s] \in ReplicaRec /\ 0 \in Nat /\ TRUE \in BOOLEAN
    BY DEF AckInv, AckTypes
  <2>2. r \in ReplicaRec /\ r.read = replica[s].read /\ replica[s].read \in Nat
    BY <2>1, ReplicaSet
  <2> QED BY <2>2
<1>2. /\ replica' = [replica EXCEPT ![s] = r] /\ acks' = acks /\ told' = Nothing
      /\ primary' = [primary EXCEPT !.faults = @ + 1]
  BY DEF SlavePaused, AckInv, AckTypes
<1> HIDE DEF r
<1> QED BY <1>1, <1>2, ReplicaStep

LEMMA ResumesInv ==
  ASSUME AckInv, UNCHANGED ackPlan, NEW s \in Replica, SlaveResumes(s)
  PROVE  AckInv'
<1> DEFINE r == replica[s]
           new == [r EXCEPT !.paused = FALSE, !.done = r.read]
<1>1. r \in ReplicaRec /\ new \in ReplicaRec /\ r.read <= new.read /\ new.read = r.read
  <2>1. r \in ReplicaRec
    BY DEF AckInv, AckTypes
  <2>2. r.read \in Nat /\ FALSE \in BOOLEAN
    BY <2>1, ReplicaSet
  <2> HIDE DEF r
  <2>3. new \in ReplicaRec /\ new.read = r.read
    BY <2>1, <2>2, ReplicaSet
  <2> QED BY <2>1, <2>2, <2>3
<1>2. /\ replica' = [replica EXCEPT ![s] = new] /\ primary' = primary /\ told' = Nothing
      /\ acks' = acks \/ acks' = [acks EXCEPT ![s] = replicationSendAck(s, r)]
  BY DEF SlaveResumes
<1>3. replicationSendAck(s, r) = replicationSendAck(s, new)
  BY <1>1 DEF replicationSendAck
<1> HIDE DEF new
<1> QED BY <1>1, <1>2, <1>3, ReplicaStep

LEMMA StutterInv == AckInv /\ UNCHANGED ackVars => AckInv'
BY DEF AckInv, AckTypes, Acknowledged, Waits, Counted, GoodSlaves, Truthful, ackVars

LEMMA AckNextInv == AckInv /\ [AckNext]_ackVars => AckInv'
<1> SUFFICES ASSUME AckInv, [AckNext]_ackVars PROVE AckInv'
  OBVIOUS
<1>1. CASE UNCHANGED ackVars
  BY <1>1, StutterInv
<1>2. CASE AckNext
  <2>0. UNCHANGED ackPlan
    BY <1>2 DEF AckNext
  <2>1. ASSUME NEW c \in Waiter, WriteCommand(c) \/ waitCommand(c) \/ WaiterCloses(c) PROVE AckInv'
    BY <2>0, <2>1, WriteInv, WaitInv, ClosesInv
  <2>2. CASE BeforeSleep
    BY <2>0, <2>2, SleepInv
  <2>3. ASSUME NEW passed \in 0..ackPlan.maxTime, NEW ping \in BOOLEAN, ServerCron(passed, ping) PROVE AckInv'
    <3>1. passed \in Nat
      BY AckAssumption DEF AckInv, AckTypes
    <3> QED BY <2>0, <2>3, <3>1, CronInv
  <2>4. ASSUME NEW s \in Replica,
               SlaveOnline(s) \/ SlaveFreed(s) \/ replconfAck(s) \/ SlaveCron(s) \/ SlavePaused(s) \/ SlaveResumes(s)
        PROVE  AckInv'
    BY <2>0, <2>4, OnlineInv, FreedInv, AckArrivesInv, SlaveCronInv, PausedInv, ResumesInv
  <2>5. ASSUME NEW s \in Replica, NEW n \in 1..ackPlan.maxStream, SlaveReads(s, n) PROVE AckInv'
    BY <2>0, <2>5, ReadsInv
  <2> QED BY <1>2, <2>1, <2>2, <2>3, <2>4, <2>5 DEF AckNext
<1> QED BY <1>1, <1>2

-----------------------------------------------------------------------------
(* The theorems *)

(* An answer n of WAIT is true of n slaves: they had read the client's     *)
(* last write when it was told, whether it was answered at once, out of    *)
(* the loop of processClientsWaitingReplicas() or because its time was     *)
(* over.                                                                   *)
THEOREM WaitIsTruthful == AckSpec => []WaitTruthful
<1>1. AckInit => AckInv
  BY AckInitInv
<1>2. AckInv /\ [AckNext]_ackVars => AckInv'
  BY AckNextInv
<1>3. AckInv => WaitTruthful
  BY DEF AckInv, Truthful, WaitTruthful
<1> QED BY <1>1, <1>2, <1>3, PTL DEF AckSpec

\* What a client's or the loop's bookkeeping does to the stream: nothing.
LEMMA StreamKept ==
  ASSUME NEW m \in Primary
  PROVE  /\ \A kept : unblockClientWaitingReplicas(m, kept).stream = m.stream
         /\ \A kept, S : freeSlaves(unblockClientWaitingReplicas(m, kept), S).stream = m.stream
         /\ \A S : freeSlaves(m, S).stream = m.stream
         /\ refreshGoodSlavesCount(m).stream = m.stream
BY DEF unblockClientWaitingReplicas, freeSlaves, refreshGoodSlavesCount, Primary

\* What is added to the stream by other steps than WriteCommand() is no write.
LEMMA OthersWriteNothing ==
  ASSUME AckInv, [AckNext]_ackVars, ~ \E c \in Waiter : WriteCommand(c)
  PROVE  \/ primary'.stream = primary.stream
         \/ \E x \in Command \ {"write"} : primary'.stream = Append(primary.stream, x)
<1> DEFINE t == primary.stream
<1>1. primary \in Primary
  BY DEF AckInv, AckTypes
<1>2. CASE UNCHANGED ackVars
  BY <1>2 DEF ackVars
<1>3. ASSUME NEW c \in Waiter, waitCommand(c) PROVE primary'.stream = t
  BY <1>1, <1>3 DEF waitCommand, Primary
<1>4. ASSUME NEW c \in Waiter, WaiterCloses(c) PROVE primary'.stream = t
  <2> DEFINE q == primary.waiting
             kept == IF c \in Range(q) THEN RemoveAt(q, CHOOSE i \in DOMAIN q : q[i] = c) ELSE q
             k == [woff |-> 0, wrote |-> 0, wait |-> NoWait, sent |-> Len(ackPlan.requests[c])]
  <2>1. primary' = [unblockClientWaitingReplicas(primary, kept) EXCEPT !.faults = @ + 1, !.clients[c] = k]
    BY <1>4 DEF WaiterCloses
  <2> HIDE DEF kept, k
  <2>2. unblockClientWaitingReplicas(primary, kept).stream = t /\ "stream" \in DOMAIN unblockClientWaitingReplicas(primary, kept)
    BY <1>1 DEF unblockClientWaitingReplicas, Primary
  <2> QED BY <2>1, <2>2
<1>5. CASE BeforeSleep
  <2> DEFINE m == IF primary.getack THEN [primary EXCEPT !.stream = Append(@, "getack"), !.getack = FALSE] ELSE primary
             r == processClientsWaitingReplicas(m)
  <2>1. primary' = unblockClientWaitingReplicas(m, r.kept)
    BY <1>5 DEF BeforeSleep
  <2>2. "getack" \in Command \ {"write"}
    BY DEF Command
  <2>3. m \in Primary /\ (m.stream = t \/ m.stream = Append(t, "getack"))
    <3>1. Waits(primary)
      BY DEF AckInv
    <3>2. CASE primary.getack
      BY <3>1, <3>2, <1>1, <2>2, StreamGrows
    <3>3. CASE ~ primary.getack
      BY <3>3, <1>1
    <3> QED BY <3>2, <3>3
  <2> HIDE DEF m, r
  <2> QED BY <2>1, <2>2, <2>3, StreamKept
<1>6. ASSUME NEW passed \in 0..ackPlan.maxTime, NEW ping \in BOOLEAN, ServerCron(passed, ping)
      PROVE  primary'.stream = t \/ primary'.stream = Append(t, "ping")
  <2>1. passed \in Nat
    BY AckAssumption DEF AckInv, AckTypes
  <2>2. UNCHANGED ackPlan
    BY DEF AckNext, ackVars
  <2> QED BY <1>6, <2>1, <2>2, CronTurn
<1>7. ASSUME NEW s \in Replica, SlaveOnline(s) PROVE primary'.stream = t
  BY <1>1, <1>7 DEF SlaveOnline, refreshGoodSlavesCount, Primary
<1>8. ASSUME NEW s \in Replica, SlaveFreed(s) PROVE primary'.stream = t
  BY <1>1, <1>8 DEF SlaveFreed, freeSlaves, refreshGoodSlavesCount, Primary
<1>9. ASSUME NEW s \in Replica, replconfAck(s) \/ SlavePaused(s) PROVE primary'.stream = t
  BY <1>1, <1>9 DEF replconfAck, SlavePaused, Primary
<1>10. ASSUME NEW s \in Replica, SlaveCron(s) \/ SlaveResumes(s) PROVE primary'.stream = t
  BY <1>10 DEF SlaveCron, SlaveResumes
<1>11. ASSUME NEW s \in Replica, NEW n \in 1..ackPlan.maxStream, SlaveReads(s, n) PROVE primary'.stream = t
  BY <1>11 DEF SlaveReads
<1>12. "ping" \in Command \ {"write"}
  BY DEF Command
<1> HIDE DEF t
<1>13. primary'.stream = t \/ \E x \in Command \ {"write"} : primary'.stream = Append(t, x)
  <2>1. CASE UNCHANGED ackVars
    BY <2>1, <1>2 DEF t
  <2>2. CASE AckNext
    BY <2>2, <1>3, <1>4, <1>5, <1>6, <1>7, <1>8, <1>9, <1>10, <1>11, <1>12 DEF AckNext, t
  <2> QED BY <2>1, <2>2
<1> QED BY <1>13 DEF t

(* With min-slaves-to-write, the stream grows by a write only while so     *)
(* many slaves are attached that were heard of within min-slaves-max-lag   *)
(* of the last turn of replicationCron(). processCommand() looks at the    *)
(* count that refreshGoodSlavesCount() made at that turn or later: time    *)
(* has passed since, but a slave that leaves is no longer counted and one  *)
(* that is heard of again is only better.                                  *)
THEOREM WritesAreGuarded == AckSpec => WritesHaveGoodSlaves
<1> DEFINE G == GoodAt(primary.cron)
           Enough == WriteAccepted => Cardinality(G) >= ackPlan.minSlaves
<1>1. AckInit => AckInv
  BY AckInitInv
<1>2. AckInv /\ [AckNext]_ackVars => AckInv'
  BY AckNextInv
<1>3. ASSUME AckInv, [AckNext]_ackVars PROVE Enough
  <2> DEFINE t == primary.stream
  <2> SUFFICES ASSUME WriteAccepted PROVE Cardinality(G) >= ackPlan.minSlaves
    OBVIOUS
  <2>1. t \in Seq(Command) /\ Len(t) \in Nat /\ primary.good \in Nat /\ ackPlan.minSlaves \in Nat /\ Guarded
    BY <1>3, AckAssumption DEF AckInv, AckTypes, Primary, WriteAccepted
  <2>2. Cardinality(G) \in Nat /\ primary.good <= Cardinality(G)
    <3>1. G = GoodSlaves(primary, ackPlan.maxLag)
      BY DEF GoodAt, GoodSlaves
    <3>2. primary.good <= Cardinality(GoodSlaves(primary, ackPlan.maxLag))
      BY <1>3, <2>1 DEF AckInv, Counted, Guarded
    <3>3. Cardinality(GoodSlaves(primary, ackPlan.maxLag)) \in Nat
      BY Fewer DEF GoodSlaves
    <3> QED BY <3>1, <3>2, <3>3
  <2> HIDE DEF G
  <2>3. CASE \E c \in Waiter : WriteCommand(c)
    BY <2>1, <2>2, <2>3 DEF WriteCommand
  <2>4. CASE ~ \E c \in Waiter : WriteCommand(c)
    <3>1. CASE primary'.stream = t
      BY <3>1, <2>1 DEF Offset, WriteAccepted
    <3>2. ASSUME NEW x \in Command \ {"write"}, primary'.stream = Append(t, x) PROVE FALSE
      BY <2>1, <3>2 DEF WriteAccepted
    <3>3. primary'.stream = t \/ \E x \in Command \ {"write"} : primary'.stream = Append(t, x)
      BY <1>3, <2>4, OthersWriteNothing
    <3> QED BY <3>1, <3>2, <3>3
  <2> QED BY <2>3, <2>4
<1>4. AckInv /\ [AckNext]_ackVars => [Enough]_ackVars
  BY <1>3
<1> QED BY <1>1, <1>2, <1>4, PTL DEF AckSpec, WritesHaveGoodSlaves
=============================================================================
