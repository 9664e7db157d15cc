---------------------------- MODULE MCStructures ----------------------------
(* The data structures: the sorted set, the hash table, the intset, the      *)
(* ziplist, the HyperLogLog, bitmaps and the replication backlog. A behaviour is one  *)
(* of one of these; the others stay in their first state.                    *)
EXTENDS SortedSet, Dict, Intset, Ziplist, HyperLogLog, Bitops, ReplBacklog

CONSTANTS Structures,   \* "zset", "dict", "intset", "ziplist", "hll", "bits", "backlog"
          v1, v2,       \* the values of the hash table
          bk, bl        \* the keys of bitmaps
VARIABLE structure

structureVars == <<structure, zsVars, dictVars, intsetVars, zlVars, hllVars, bitVars, vars>>

\* keys 1 and 4 collide in every table
MCHash == [k \in DKey |-> IF k = 4 THEN 1 ELSE k]

\* a map under every operation; a safe iterator while keys come; SCAN while the table grows
MCDMode ==
  {[does |-> "map", keys |-> {1, 3, 4}, vals |-> {v1, v2}, shrinks |-> FALSE],
   [does |-> "iterate", keys |-> {1, 2, 3}, vals |-> {v1}, shrinks |-> FALSE],
   [does |-> "scan", keys |-> {1, 2, 3}, vals |-> {v1}, shrinks |-> FALSE]}

\* SCAN while the table grows and shrinks
MCDShrink == {[does |-> "scan", keys |-> {1, 2, 3}, vals |-> {v1}, shrinks |-> TRUE]}

\* values that need one, two and four cells, of either sign
MCIntVal == {-7, -3, -1, 0, 1, 3, 7}

\* strings short, and long enough for the next entry's field to widen; integers of two widths
Str(n) == [kind |-> "str", n |-> n]
Num(n) == [kind |-> "int", n |-> n]
MCZlItem == {Str(3), Str(248), Str(260), Num(200), Num(-40000)}

\* an integer small enough that its insertion may make the block smaller
MCTiny == {Num(5), Str(248), Str(260)}

\* counts for all registers of one key, one of them too large for a VAL opcode; one of the other
MCElements ==
  [k \in HllKey |-> IF k = "a" THEN {<<r, 1>> : r \in Reg} \cup {<<1, 2>>, <<2, 2>>, <<0, 3>>} ELSE {<<4, 3>>}]

-----------------------------------------------------------------------------
MCInit ==
  /\ structure \in Structures
  /\ ZsInit /\ (structure # "zset" => zs.order = "score")
  /\ DictInit /\ (structure # "dict" => mode = CHOOSE m \in DMode : TRUE)
  /\ IsInit /\ ZlInit /\ HllInit /\ BitInit
  /\ Init /\ (structure # "backlog" => repl_backlog_size = 1)

MCNext ==
  /\ UNCHANGED structure
  /\ \/ structure = "zset" /\ ZsNext /\ UNCHANGED <<dictVars, intsetVars, zlVars, hllVars, bitVars, vars>>
     \/ structure = "dict" /\ DictNext /\ UNCHANGED <<zsVars, intsetVars, zlVars, hllVars, bitVars, vars>>
     \/ structure = "intset" /\ IsNext /\ UNCHANGED <<zsVars, dictVars, zlVars, hllVars, bitVars, vars>>
     \/ structure = "ziplist" /\ ZlNext /\ UNCHANGED <<zsVars, dictVars, intsetVars, hllVars, bitVars, vars>>
     \/ structure = "hll" /\ HllNext /\ UNCHANGED <<zsVars, dictVars, intsetVars, zlVars, bitVars, vars>>
     \/ structure = "bits" /\ BitNext /\ UNCHANGED <<zsVars, dictVars, intsetVars, zlVars, hllVars, vars>>
     \/ structure = "backlog" /\ Next /\ UNCHANGED <<zsVars, dictVars, intsetVars, zlVars, hllVars, bitVars>>

MCSpec == MCInit /\ [][MCNext]_structureVars

\* The values of the hash table and the keys of bitmaps are interchangeable.
Symmetry == Permutations({v1, v2}) \cup Permutations({bk, bl})

-----------------------------------------------------------------------------
\* The sorted set of t_zset.c is exact in both encodings: the skip list and the ziplist hold the
\* reference order, and every range query answers from it.
SortedSetExact == structure = "zset" => SkiplistExact /\ QueriesAgree

\* The compact encodings hold what was put into them: the integers of intset.c, the entries of
\* ziplist.c, the registers of hyperloglog.c, the bits and integers of bitops.c and the numbers of
\* keys in both tables of dict.c.
EncodingsExact ==
  /\ structure = "intset" => IntsetExact
  /\ structure = "ziplist" => ZiplistSound
  /\ structure = "hll" => HllExact /\ CountCurrent
  /\ structure = "bits" => BitopsExact
  /\ structure = "dict" => TablesSound
=============================================================================
