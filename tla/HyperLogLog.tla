---------------------------- MODULE HyperLogLog ----------------------------
(***************************************************************************)
(* PFADD, PFCOUNT and PFMERGE (hyperloglog.c): registers kept as a string  *)
(* of run-length opcodes, ZERO, XZERO and VAL, until it grows too long or  *)
(* a register too large; then as an array of fixed width.  The cardinality *)
(* is cached in the header, one bit of which says that it is stale.        *)
(*                                                                         *)
(* An element is what its hash selects: a register and a count.  The limits*)
(* of the opcodes are constants, scaled down from 64, 16384, 4 and 32.     *)
(***************************************************************************)
EXTENDS Integers, Sequences, FiniteSetsExt, SequencesExt

CONSTANTS HllKey, HllRegisters, MergeDst,   \* keys, registers, the destinations of PFMERGE
          ElementsOf,            \* the elements that are added to a key: <<register, count>>
          ZeroMax, XzeroMax,     \* HLL_SPARSE_ZERO_MAX_LEN, HLL_SPARSE_XZERO_MAX_LEN
          ValMaxLen, ValMax,     \* HLL_SPARSE_VAL_MAX_LEN, HLL_SPARSE_VAL_MAX_VALUE
          SparseMaxBytes,        \* hll-sparse-max-bytes, less the header
          CacheBit               \* the bit of the cached cardinality that says it is stale

VARIABLES hll,        \* of every key: None, or encoding, opcodes or registers, cached cardinality
          added,      \* of every key: the greatest count that was added to each register, by PFADD or PFMERGE
          counted,    \* the key of the last command, if that was a PFCOUNT of one key
          miscounted  \* PFCOUNT has answered something else than the estimate for the elements

hllVars == <<hll, added, counted, miscounted>>

NoHll == [enc |-> "none"]
Reg == 0 .. HllRegisters - 1
TopCount == Max({e[2] : e \in UNION {ElementsOf[k] : k \in HllKey}})

-----------------------------------------------------------------------------
(* Opcodes *)
Zero(len) == [t |-> "zero", len |-> len]
Xzero(len) == [t |-> "xzero", len |-> len]
Val(val, len) == [t |-> "val", val |-> val, len |-> len]
Bytes(ops) == FoldSeq(LAMBDA o, n : n + (IF o.t = "xzero" THEN 2 ELSE 1), 0, ops)
Span(ops) == FoldSeq(LAMBDA o, n : n + o.len, 0, ops)
Zeros(len) == IF len = 0 THEN <<>> ELSE IF len > ZeroMax THEN <<Xzero(len)>> ELSE <<Zero(len)>>
Vals(val, len) == IF len = 0 THEN <<>> ELSE <<Val(val, len)>>

\* the register r of a string of opcodes
OpAt(ops, r) == CHOOSE i \in 1 .. Len(ops) : Span(SubSeq(ops, 1, i - 1)) <= r /\ r < Span(SubSeq(ops, 1, i))
SparseReg(ops, r) == LET o == ops[OpAt(ops, r)] IN IF o.t = "val" THEN o.val ELSE 0

hllSparseToDense(o) ==
  IF o.enc = "dense" THEN o ELSE [enc |-> "dense", regs |-> [r \in Reg |-> SparseReg(o.ops, r)], card |-> o.card]

Registers(o) == IF o.enc = "none" THEN [r \in Reg |-> 0] ELSE hllSparseToDense(o).regs

\* HLL_VALID_CACHE, HLL_INVALIDATE_CACHE: one bit of the lowest byte; the others do not matter once it is set
ValidCache(card) == (card \div CacheBit) % 2 = 0
InvalidateCache(o) == [o EXCEPT !.card = CacheBit]

-----------------------------------------------------------------------------
(* Adding *)
hllDenseAdd(o, e) ==
  IF e[2] > o.regs[e[1]] THEN [ret |-> 1, o |-> [o EXCEPT !.regs[e[1]] = e[2]]] ELSE [ret |-> 0, o |-> o]

\* at most `scan' opcodes from i on: a VAL is joined with the VAL behind it when their values are equal and the sum fits
MergeAdjacent(ops, i, scan) ==
  LET Step(s, n) ==
        LET here == s.ops[s.i]
            next == s.ops[s.i + 1]
        IN IF s.i > Len(s.ops) THEN s
           ELSE IF here.t = "val" /\ s.i < Len(s.ops)
           THEN IF next.t = "val" /\ next.val = here.val /\ here.len + next.len <= ValMaxLen
                THEN [s EXCEPT !.ops = SubSeq(@, 1, s.i - 1) \o <<Val(here.val, here.len + next.len)>> \o SubSeq(@, s.i + 2, Len(@))]
                ELSE [s EXCEPT !.i = @ + 1]
           ELSE [s EXCEPT !.i = @ + 1]
  IN FoldLeft(Step, [ops |-> ops, i |-> i], [n \in 1 .. scan |-> n]).ops

Promoted(o, e) == LET d == hllDenseAdd(hllSparseToDense(o), e) IN [ret |-> d.ret, o |-> d.o]

\* mutant: what follows the register in a run of zeros is one register too long
SplitTooLong(op, at, count) ==
  IF op.t = "val" THEN Vals(op.val, at) \o <<Val(count, 1)>> \o Vals(op.val, op.len - at - 1)
  ELSE Zeros(at) \o <<Val(count, 1)>> \o Zeros(op.len - at)

\* the opcodes that replace op when the register at place `at' of its run gets a value
SplitRun(op, at, count) ==
  IF op.t = "val" THEN Vals(op.val, at) \o <<Val(count, 1)>> \o Vals(op.val, op.len - at - 1)
  ELSE Zeros(at) \o <<Val(count, 1)>> \o Zeros(op.len - at - 1)

hllSparseAdd(o, e) ==
  LET i == OpAt(o.ops, e[1])
      op == o.ops[i]
      at == e[1] - Span(SubSeq(o.ops, 1, i - 1))
      seq == SplitRun(op, at, e[2])
      deltalen == Bytes(seq) - Bytes(<<op>>)
      ops == SubSeq(o.ops, 1, i - 1) \o seq \o SubSeq(o.ops, i + 1, Len(o.ops))
  IN IF e[2] > ValMax THEN Promoted(o, e)
     ELSE IF op.t = "val" /\ op.val >= e[2] THEN [ret |-> 0, o |-> o]
     ELSE IF deltalen > 0 /\ Bytes(o.ops) + deltalen > SparseMaxBytes THEN Promoted(o, e)
     ELSE [ret |-> 1, o |-> InvalidateCache([o EXCEPT !.ops = MergeAdjacent(ops, IF i > 1 THEN i - 1 ELSE 1, 5)])]

hllAdd(o, e) == IF o.enc = "dense" THEN hllDenseAdd(o, e) ELSE hllSparseAdd(o, e)

createHLLObject ==
  [enc |-> "sparse", card |-> 0,
   ops |-> [i \in 1 .. ((HllRegisters + XzeroMax - 1) \div XzeroMax) |->
              Xzero(IF i * XzeroMax <= HllRegisters THEN XzeroMax ELSE HllRegisters % XzeroMax)]]

-----------------------------------------------------------------------------
(* Counting.  The estimate depends on the sum of 2 ^ -register and on the  *)
(* number of zeros; one number that tells both stands for it here.         *)
PE(r) == 2 ^ (TopCount - r)
Estimate(sum, ez) == sum * (HllRegisters + 1) + ez

hllDenseSum(regs) ==
  Estimate(MapThenSumSet(LAMBDA r : PE(regs[r]), Reg), Cardinality({r \in Reg : regs[r] = 0}))
hllSparseSum(ops) ==
  LET E == FoldSeq(LAMBDA o, n : n + (IF o.t = "val" THEN PE(o.val) * o.len ELSE 0), 0, ops)
      ez == FoldSeq(LAMBDA o, n : n + (IF o.t = "val" THEN 0 ELSE o.len), 0, ops)
  IN Estimate(E + PE(0) * ez, ez)
hllRawSum(max) ==
  LET ez == Cardinality({r \in Reg : max[r] = 0})
  IN Estimate(MapThenSumSet(LAMBDA r : PE(max[r]), {r \in Reg : max[r] # 0}) + PE(0) * ez, ez)

hllCount(o) == IF o.enc = "dense" THEN hllDenseSum(o.regs) ELSE hllSparseSum(o.ops)

hllMerge(max, o) ==
  LET regs == Registers(o) IN [r \in Reg |-> IF regs[r] > max[r] THEN regs[r] ELSE max[r]]
Merged(keys) == FoldSet(LAMBDA k, max : hllMerge(max, hll[k]), [r \in Reg |-> 0], keys)

-----------------------------------------------------------------------------
HllInit == /\ hll = [k \in HllKey |-> NoHll]
           /\ added = [k \in HllKey |-> [r \in Reg |-> 0]]
           /\ counted = {}
           /\ miscounted = FALSE

\* mutant: a cached cardinality survives what makes it stale
pfaddKeepsCache(k, elements) ==
  LET new == hll[k] = NoHll
      r == FoldLeft(LAMBDA s, e : LET a == hllAdd(s.o, e) IN [o |-> [a.o EXCEPT !.card = s.o.card], updated |-> s.updated + a.ret],
                    [o |-> IF new THEN createHLLObject ELSE hll[k], updated |-> IF new THEN 1 ELSE 0], elements)
  IN hll' = [hll EXCEPT ![k] = r.o]

pfaddCommand(k, elements) ==
  LET new == hll[k] = NoHll
      r == FoldLeft(LAMBDA s, e : LET a == hllAdd(s.o, e) IN [o |-> a.o, updated |-> s.updated + a.ret],
                    [o |-> IF new THEN createHLLObject ELSE hll[k], updated |-> IF new THEN 1 ELSE 0], elements)
  IN hll' = [hll EXCEPT ![k] = IF r.updated > 0 THEN InvalidateCache(r.o) ELSE r.o]

\* with one key the answer comes from the cache, or goes there
pfcountCommand(keys) ==
  IF Cardinality(keys) > 1 THEN [hll |-> hll, card |-> hllRawSum(Merged(keys))]
  ELSE LET k == CHOOSE x \in keys : TRUE
           card == IF ValidCache(hll[k].card) THEN hll[k].card ELSE hllCount(hll[k])
       IN [hll |-> [hll EXCEPT ![k].card = card], card |-> card]

pfmergeCommand(dst, keys) ==
  LET max == Merged(keys \cup {dst})
      o == hllSparseToDense(IF hll[dst] = NoHll THEN createHLLObject ELSE hll[dst])
  IN hll' = [hll EXCEPT ![dst] = InvalidateCache([o EXCEPT !.regs = max])]

\* what the registers should be
AddedTo(keys) == [r \in Reg |-> Max({0} \cup {added[k][r] : k \in keys})]

HllNext ==
  \/ \E k \in HllKey : \E elements \in {<<>>} \cup {<<e>> : e \in ElementsOf[k]} :
       /\ pfaddCommand(k, elements)
       /\ added' = [added EXCEPT ![k] = [r \in Reg |-> Max({@[r]} \cup {e[2] : e \in {x \in Range(elements) : x[1] = r}})]]
       /\ counted' = {} /\ UNCHANGED miscounted
  \/ \E keys \in (SUBSET {k \in HllKey : hll[k] # NoHll}) \ {{}} :
       LET r == pfcountCommand(keys)
       IN /\ hll' = r.hll
          /\ counted' = IF Cardinality(keys) = 1 THEN keys ELSE {}
          /\ miscounted' = (miscounted \/ r.card # hllDenseSum(AddedTo(keys)))
          /\ UNCHANGED added
  \/ \E dst \in MergeDst, keys \in SUBSET HllKey :
       /\ pfmergeCommand(dst, keys)
       /\ added' = [added EXCEPT ![dst] = AddedTo(keys \cup {dst})]
       /\ counted' = {} /\ UNCHANGED miscounted

HllSpec == HllInit /\ [][HllNext]_hllVars

-----------------------------------------------------------------------------
(* However the opcodes are split, joined, promoted and merged, they cover   *)
(* the registers exactly, respect their limits, and every register has the  *)
(* greatest count that was added to it (hllSparseAdd and hllMerge).         *)
HllExact ==
  \A k \in HllKey : hll[k] # NoHll =>
    /\ Registers(hll[k]) = added[k]
    /\ hll[k].enc = "sparse" =>
         /\ Span(hll[k].ops) = HllRegisters
         /\ \A i \in DOMAIN hll[k].ops : LET o == hll[k].ops[i]
                                         IN o.len \in 1 .. CASE o.t = "zero" -> ZeroMax [] o.t = "xzero" -> XzeroMax [] o.t = "val" -> ValMaxLen

(* PFCOUNT answers what the elements that were added give, from the cache,  *)
(* from either encoding or from the union of several keys (pfcountCommand   *)
(* and every writer that must make the cache stale).                        *)
CountCurrent == ~ miscounted

(* PFCOUNT leaves the cardinality it has computed for the next PFCOUNT.     *)
CacheStays == \A k \in counted : ValidCache(hll[k].card)
=============================================================================
