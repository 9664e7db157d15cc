-------------------------------- MODULE Dict --------------------------------
(***************************************************************************)
(* The hash table of dict.c: two tables while it is being rehashed, one    *)
(* bucket moved by every operation, resizing that can be disabled, safe    *)
(* iterators that hold the rehashing back, and SCAN cursors that live      *)
(* across it.  A bucket is a set of entries: the order of a chain decides  *)
(* nothing but which entry comes next in it.                               *)
(***************************************************************************)
EXTENDS Integers, FiniteSets

CONSTANTS DKey, DVal, None,
          HashOf,        \* the hash of a key
          HashBits,      \* its width
          InitialSize,   \* DICT_HT_INITIAL_SIZE
          MinFill,       \* HASHTABLE_MIN_FILL, in percent
          ForceRatio,    \* dict_force_resize_ratio
          CronSteps,     \* the buckets the cron moves in one call
          DMode          \* what clients do beside adding and deleting: does is "map", "iterate" or
                         \* "scan", keys and vals what they use, shrinks whether a table may shrink
                         \* while a scan is under way

MaxSize == InitialSize * 2^HashBits   \* the largest table

\* a table can hold twice the keys there are: the code's sizes go up to LONG_MAX
ASSUME DictAssumption ==
  /\ IsFiniteSet(DKey) /\ None \notin DVal /\ HashBits \in Nat
  /\ HashOf \in [DKey -> 0..(2^HashBits - 1)]
  /\ InitialSize \in {2^i : i \in 0..HashBits} /\ MaxSize \in Nat
  /\ InitialSize \in 1..MaxSize /\ 2 * Cardinality(DKey) <= MaxSize
  /\ CronSteps \in Nat
  /\ \A m \in DMode : m.keys \subseteq DKey /\ m.vals \subseteq DVal

VARIABLES d,          \* ht0, ht1, rehashidx, iterators
          canResize,  \* dict_can_resize
          answered,      \* what the last operation answered
          it,         \* the safe iterator of a command
          scan,       \* a SCAN of a client, between two of its calls
          mode        \* one of DMode

dictVars == <<d, canResize, answered, it, scan, mode>>

NoTable == [size |-> 0, table |-> [i \in {} |-> {}], used |-> 0]
Fresh(n) == [size |-> n, table |-> [i \in 0..(n - 1) |-> {}], used |-> 0]
Entry == [key : DKey, val : DVal]

dictIsRehashing(x) == x.rehashidx # -1
Bucket(t, k) == HashOf[k] % t.size

AllIn(t) == UNION {t.table[i] : i \in DOMAIN t.table}
Entries(x) == AllIn(x.ht0) \cup AllIn(x.ht1)
Keys(x) == {e.key : e \in Entries(x)}

dictCreate == [ht0 |-> NoTable, ht1 |-> NoTable, rehashidx |-> -1, iterators |-> 0]

NoIterator == [open |-> FALSE, started |-> FALSE, table |-> 0, index |-> -1, entry |-> None, rest |-> {}, seen |-> {}, must |-> {}, twice |-> FALSE]
NoScan == [on |-> FALSE, cursor |-> 0, seen |-> {}, must |-> {}, missed |-> {}]

-----------------------------------------------------------------------------
(* Resizing and rehashing. *)
TableSizes == {n \in 1..MaxSize : \E i \in 0..HashBits : n = InitialSize * 2^i}

_dictNextPower(size) == CHOOSE n \in TableSizes : n >= size /\ \A m \in TableSizes : m >= size => n <= m

dictExpand(x, size) ==
  IF dictIsRehashing(x) \/ x.ht0.used > size THEN x
  ELSE IF x.ht0.size = 0 THEN [x EXCEPT !.ht0 = Fresh(_dictNextPower(size))]
  ELSE [x EXCEPT !.ht1 = Fresh(_dictNextPower(size)), !.rehashidx = 0]

_dictExpandIfNeeded(x) ==
  IF dictIsRehashing(x) THEN x
  ELSE IF x.ht0.size = 0 THEN dictExpand(x, InitialSize)
  ELSE IF x.ht0.used >= x.ht0.size /\ (canResize \/ x.ht0.used \div x.ht0.size > ForceRatio)
       THEN dictExpand(x, x.ht0.used * 2) ELSE x

dictResize(x) ==
  IF ~ canResize \/ dictIsRehashing(x) THEN x
  ELSE dictExpand(x, IF x.ht0.used < InitialSize THEN InitialSize ELSE x.ht0.used)

htNeedsResize(x) ==
  LET size == x.ht0.size + x.ht1.size
  IN x.ht0.used + x.ht1.used > 0 /\ size > InitialSize /\ ((x.ht0.used + x.ht1.used) * 100) \div size < MinFill

\* the entries of the buckets B of the first table go to the second
Moved(x, B) ==
  LET es == UNION {x.ht0.table[i] : i \in B}
      Here(i) == {e \in es : Bucket(x.ht1, e.key) = i}
      Left(t) == [t EXCEPT !.table = [i \in DOMAIN @ |-> IF i \in B THEN {} ELSE @[i]], !.used = @ - Cardinality(es)]
      Joined(t) == [t EXCEPT !.table = [i \in DOMAIN @ |-> @[i] \cup Here(i)], !.used = @ + Cardinality(es)]
  IN [x EXCEPT !.ht0 = Left(@), !.ht1 = Joined(@),
               !.rehashidx = IF B = {} THEN @ ELSE 1 + CHOOSE i \in B : \A j \in B : j <= i]

\* n rounds: each moves the next bucket that is not empty; the one that finds no entry left swaps the tables
dictRehash(x, n) ==
  LET full == {i \in DOMAIN x.ht0.table : i >= x.rehashidx /\ x.ht0.table[i] # {}}
      next == {i \in full : Cardinality({j \in full : j < i}) < n}
      y == Moved(x, next)
  IN IF ~ dictIsRehashing(x) THEN x
     ELSE IF y.ht0.used = 0 /\ Cardinality(next) < n THEN [y EXCEPT !.ht0 = y.ht1, !.ht1 = NoTable, !.rehashidx = -1]
     ELSE y

RehashOne(x) == dictRehash(x, 1)

\* mutant: the iterators are not looked at
RehashStepAlways(x) == RehashOne(x)

_dictRehashStep(x) == IF x.iterators = 0 THEN RehashOne(x) ELSE x

-----------------------------------------------------------------------------
(* The operations. *)

\* mutant: only the first table is searched
FindFirstOnly(x, k) == {e \in (IF x.ht0.size = 0 THEN {} ELSE x.ht0.table[Bucket(x.ht0, k)]) : e.key = k}

\* the entry of k: in its bucket of the first table, and of the second when there is one
Found(x, k) ==
  {e \in (IF x.ht0.size = 0 THEN {} ELSE x.ht0.table[Bucket(x.ht0, k)])
         \cup (IF dictIsRehashing(x) THEN x.ht1.table[Bucket(x.ht1, k)] ELSE {}) : e.key = k}

PutIn(t, e) == [t EXCEPT !.table[Bucket(t, e.key)] = @ \cup {e}, !.used = @ + 1]
TakeFrom(t, S) == [t EXCEPT !.table = [i \in DOMAIN @ |-> @[i] \ S], !.used = @ - Cardinality(S \cap AllIn(t))]

\* a new entry goes to the second table during a rehash
Inserted(x, k, v) ==
  IF dictIsRehashing(x) THEN [x EXCEPT !.ht1 = PutIn(@, [key |-> k, val |-> v])]
  ELSE [x EXCEPT !.ht0 = PutIn(@, [key |-> k, val |-> v])]

\* dictAddRaw up to the insertion: the step, then _dictKeyIndex, which expands before it looks
Prepared(x) == _dictExpandIfNeeded(_dictRehashStep(x))

\* mutant: the value is changed where the key was before the step of dictFind
RevaluedInFirst(x, k, v) ==
  [x EXCEPT !.ht0.table = [i \in DOMAIN @ |-> {IF e.key = k THEN [e EXCEPT !.val = v] ELSE e : e \in @[i]}]]

\* the entry of k is the same one with another value, in the table that holds it
Revalued(x, k, v) ==
  LET At(t) == [t EXCEPT !.table = [i \in DOMAIN @ |-> {IF e.key = k THEN [e EXCEPT !.val = v] ELSE e : e \in @[i]}]]
  IN [x EXCEPT !.ht0 = At(@), !.ht1 = At(@)]

\* a key that is gone, or that has just come, is not one a scan or an iterator has to return
Watched(k) ==
  /\ it' = [it EXCEPT !.must = @ \ {k}, !.seen = @ \ {k}, !.rest = {e \in @ : e.key # k}]
  /\ scan' = [scan EXCEPT !.must = @ \ {k}]

dictAdd(k, v) ==
  LET x == Prepared(d)
      there == Found(x, k) # {}
  IN /\ d' = IF there THEN x ELSE Inserted(x, k, v)
     /\ answered' = IF there THEN <<k, "err">> ELSE <<k, "ok", v>>
     /\ UNCHANGED <<canResize, it, scan>>

\* dictAdd first, and dictFind with its own step when the key was there
dictReplace(k, v) ==
  LET x == Prepared(d)
      there == Found(x, k) # {}
  IN /\ d' = IF there THEN Revalued(_dictRehashStep(x), k, v) ELSE Inserted(x, k, v)
     /\ answered' = <<k, IF there THEN "replaced" ELSE "added", v>>
     /\ UNCHANGED <<canResize, it, scan>>

\* deleting, and what the callers do after it: a table that is too large is resized.
\* While a command iterates it deletes only the entry it was given.
dictGenericDelete(k) ==
  LET x == _dictRehashStep(d)
      gone == Found(x, k)
      left == [x EXCEPT !.ht0 = TakeFrom(@, gone), !.ht1 = TakeFrom(@, gone)]
  IN /\ it.open => it.entry = k
     /\ IF d.ht0.size = 0 THEN UNCHANGED d /\ answered' = <<k, "err">>
        ELSE /\ d' \in {left} \cup (IF htNeedsResize(left) /\ (mode.shrinks \/ ~ scan.on) THEN {dictResize(left)} ELSE {})
             /\ answered' = <<k, IF gone = {} THEN "err" ELSE "ok">>
     /\ Watched(k)
     /\ UNCHANGED canResize

dictFind(k) ==
  LET x == _dictRehashStep(d)
      found == Found(x, k)
  IN /\ d' = IF d.ht0.size = 0 THEN d ELSE x
     /\ answered' = <<k, IF found = {} THEN None ELSE (CHOOSE e \in found : TRUE).val>>
     /\ UNCHANGED <<canResize, it, scan>>

dictGetRandomKey ==
  /\ d.ht0.used + d.ht1.used > 0
  /\ d' = _dictRehashStep(d)
  /\ UNCHANGED <<canResize, answered, it, scan>>

dictEmpty ==
  /\ ~ it.open
  /\ d' = dictCreate
  /\ answered' = None
  /\ scan' = [scan EXCEPT !.must = {}]
  /\ UNCHANGED <<canResize, it>>

\* serverCron, between commands: shrink, and move some buckets
tryResizeHashTables ==
  /\ ~ it.open /\ (mode.shrinks \/ ~ scan.on)
  /\ htNeedsResize(d)
  /\ d' = dictResize(d)
  /\ UNCHANGED <<canResize, answered, it, scan>>

incrementallyRehash ==
  /\ ~ it.open
  /\ dictIsRehashing(d)
  /\ d' = dictRehash(d, CronSteps)
  /\ UNCHANGED <<canResize, answered, it, scan>>

\* a child that saves the dataset is started or ends
updateDictResizePolicy == canResize' = ~ canResize /\ UNCHANGED <<d, answered, it, scan>>

-----------------------------------------------------------------------------
(* Safe iterators. *)
dictGetSafeIterator ==
  /\ mode.does = "iterate" /\ ~ it.open
  /\ it' = [NoIterator EXCEPT !.open = TRUE, !.must = Keys(d)]
  /\ UNCHANGED <<d, canResize, answered, scan>>

\* the buckets that are left, in order: those of the first table, then those of the second
Position(table, index) == IF table = 0 THEN index ELSE d.ht0.size + index
BucketAt(p) == IF p < d.ht0.size THEN d.ht0.table[p] ELSE d.ht1.table[p - d.ht0.size]
Ahead(iter) == {p \in 0..(d.ht0.size + (IF dictIsRehashing(d) THEN d.ht1.size ELSE 0) - 1) :
                 p > Position(iter.table, iter.index) /\ BucketAt(p) # {}}

Visit(iter, e, rest) ==
  it' = [iter EXCEPT !.entry = e.key, !.rest = rest, !.seen = @ \cup {e.key}, !.twice = @ \/ e.key \in iter.seen]

\* the entry the last call left behind as the next one, or the first entry of the next bucket
dictNext ==
  /\ it.open
  /\ \/ /\ it.rest # {}
        /\ \E e \in it.rest : Visit(it, e, it.rest \ {e})
        /\ UNCHANGED d
     \/ LET ahead == Ahead(it)
            p == CHOOSE q \in ahead : \A r \in ahead : q <= r
            at == [it EXCEPT !.started = TRUE, !.table = IF p < d.ht0.size THEN 0 ELSE 1,
                             !.index = IF p < d.ht0.size THEN p ELSE p - d.ht0.size]
        IN /\ it.rest = {} /\ ahead # {}
           /\ \E e \in BucketAt(p) : Visit(at, e, BucketAt(p) \ {e})
           /\ d' = [d EXCEPT !.iterators = IF it.started THEN @ ELSE @ + 1]
  /\ UNCHANGED <<canResize, answered, scan>>

\* dictNext has returned NULL, and the iterator is released
dictReleaseIterator ==
  /\ it.open /\ it.rest = {} /\ Ahead(it) = {}
  /\ it' = [NoIterator EXCEPT !.must = it.must \ it.seen, !.twice = it.twice]
  /\ d' = [d EXCEPT !.iterators = IF it.started THEN @ - 1 ELSE @]
  /\ UNCHANGED <<canResize, answered, scan>>

-----------------------------------------------------------------------------
(* SCAN. *)
Bit(v, i) == (v \div 2^i) % 2
Reversed ==
  [v \in 0..(2^HashBits - 1) |->
     LET sum[i \in 0..HashBits] == IF i = 0 THEN 0 ELSE sum[i - 1] + Bit(v, i - 1) * 2^(HashBits - i)
     IN sum[HashBits]]
rev(v) == Reversed[v]

\* the cursor after index v of a table of the given size: 1 is added to the reversed index
NextCursor(v, size) == rev((rev((v % size) + 2^HashBits - size) + 1) % 2^HashBits)

\* mutant: only the index of the cursor itself
ExpansionOfOne(v, small, large) == {v % large}

\* the indices of the larger table that share the low bits of the cursor, from the cursor on
Expansion(v, small, large) == {(v % small) + small * j : j \in ((v % large) \div small)..(large \div small - 1)}

\* what one call of dictScan with cursor v hands to its caller
Scanned(x, v) ==
  IF ~ dictIsRehashing(x) THEN x.ht0.table[v % x.ht0.size]
  ELSE LET t0 == IF x.ht0.size > x.ht1.size THEN x.ht1 ELSE x.ht0
           t1 == IF x.ht0.size > x.ht1.size THEN x.ht0 ELSE x.ht1
       IN t0.table[v % t0.size] \cup UNION {t1.table[i] : i \in Expansion(v, t0.size, t1.size)}

SmallerSize(x) == IF dictIsRehashing(x) /\ x.ht1.size < x.ht0.size THEN x.ht1.size ELSE x.ht0.size

scanGenericCommand ==
  LET empty == d.ht0.used + d.ht1.used = 0
      begin == ~ scan.on
      v == IF begin THEN 0 ELSE scan.cursor
      next == IF empty THEN 0 ELSE NextCursor(v, SmallerSize(d))
      seen == (IF begin THEN {} ELSE scan.seen) \cup (IF empty THEN {} ELSE {e.key : e \in Scanned(d, v)})
      must == IF begin THEN Keys(d) ELSE scan.must
  IN /\ mode.does = "scan" /\ ~ it.open
     /\ scan' = IF next = 0 THEN [NoScan EXCEPT !.missed = must \ seen]
                ELSE [NoScan EXCEPT !.on = TRUE, !.cursor = next, !.seen = seen, !.must = must]
     /\ UNCHANGED <<d, canResize, answered, it>>

-----------------------------------------------------------------------------
DictInit == d = dictCreate /\ canResize = TRUE /\ answered = None /\ it = NoIterator /\ scan = NoScan /\ mode \in DMode

DictStep ==
  \/ \E k \in mode.keys, v \in mode.vals : dictAdd(k, v)
  \/ \E k \in mode.keys, v \in mode.vals : mode.does = "map" /\ dictReplace(k, v)
  \/ \E k \in mode.keys : dictGenericDelete(k)
  \/ \E k \in mode.keys : mode.does = "map" /\ dictFind(k)
  \/ dictGetRandomKey
  \/ dictEmpty
  \/ tryResizeHashTables
  \/ incrementallyRehash
  \/ mode.does = "map" /\ updateDictResizePolicy
  \/ dictGetSafeIterator
  \/ dictNext
  \/ dictReleaseIterator
  \/ scanGenericCommand

DictNext == DictStep /\ UNCHANGED mode

DictSpec == DictInit /\ [][DictNext]_dictVars

-----------------------------------------------------------------------------
(* Properties. *)

(* The tables of dict.c are those of one hash table: an entry is in the    *)
(* bucket its hash selects, no key is in both tables or twice, what is     *)
(* before rehashidx has moved, the counters are right.                     *)
TablesSound ==
  /\ \A t \in {d.ht0, d.ht1} :
       /\ \A i \in DOMAIN t.table : \A e \in t.table[i] : Bucket(t, e.key) = i
       /\ t.used = Cardinality(AllIn(t))
  /\ \A e, f \in Entries(d) : e.key = f.key => e = f
  /\ AllIn(d.ht0) \cap AllIn(d.ht1) = {}
  /\ ~ dictIsRehashing(d) => d.ht1 = NoTable
  /\ \A i \in DOMAIN d.ht0.table : i < d.rehashidx => d.ht0.table[i] = {}

(* A safe iterator returns every key that was there from its start to its  *)
(* end, and none twice, whatever is added, and whichever entry it has just *)
(* returned is deleted, meanwhile.                                         *)
IteratorComplete == ~ it.twice /\ (~ it.open => it.must = {})

(* A full iteration of SCAN, from cursor 0 to cursor 0, has returned every *)
(* key that was in the table all along, although the table is resized and  *)
(* rehashed between its calls.                                             *)
ScanComplete == scan.missed = {}

(* Neither a safe iterator nor a SCAN loses a key that was there all along. *)
IterationsComplete == IteratorComplete /\ ScanComplete

(* dict.c implements a map: every operation answers and changes the union  *)
(* of the two tables as the map would, and everything else stutters.       *)
Contents == [k \in Keys(d) |-> (CHOOSE e \in Entries(d) : e.key = k).val]
Abstract == INSTANCE DictMap WITH map <- Contents, answer <- answered
ImplementsMap == Abstract!MapSpec
=============================================================================
