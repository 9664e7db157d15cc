------------------------------- MODULE Intset -------------------------------
(***************************************************************************)
(* The sorted array of integers of intset.c, cell by cell: values are one, *)
(* two or four cells wide (2, 4 and 8 bytes in the code), and adding one   *)
(* that is too wide widens all of them in place, over the memory they are  *)
(* read from.                                                              *)
(***************************************************************************)
EXTENDS Integers, FiniteSets, SequencesExt

CONSTANTS IntVal,     \* the values that are added
          FitsOne,    \* a value is one cell wide below this, in either direction: INT16_MAX + 1
          FitsTwo     \* and two cells wide below this: INT32_MAX + 1

VARIABLE intset   \* encoding, length, the cells, and ref, the set that was built

intsetVars == <<intset>>

Garbage == [v |-> 0, width |-> 0, part |-> 0]

_intsetValueEncoding(v) ==
  IF v >= - FitsOne /\ v < FitsOne THEN 1 ELSE IF v >= - FitsTwo /\ v < FitsTwo THEN 2 ELSE 4

\* the value at a position, when its cells still belong to one value; none otherwise
_intsetGetEncoded(mem, pos, enc) ==
  LET cells == [i \in 0..(enc - 1) |-> mem[pos * enc + i + 1]]
      whole == \A i \in 0..(enc - 1) : cells[i] = [v |-> cells[0].v, width |-> enc, part |-> i]
  IN IF whole THEN [ok |-> TRUE, v |-> cells[0].v] ELSE [ok |-> FALSE, v |-> 0]

_intsetGet(is, pos) == _intsetGetEncoded(is.mem, pos, is.enc)

_intsetSet(mem, pos, enc, value) ==
  [i \in DOMAIN mem |-> IF (i - 1) \div enc = pos THEN [v |-> value, width |-> enc, part |-> (i - 1) % enc] ELSE mem[i]]

intsetNew == [enc |-> 1, len |-> 0, mem |-> <<>>]

intsetResize(mem, len, enc) ==
  [i \in 1..(len * enc) |-> IF i \in DOMAIN mem THEN mem[i] ELSE Garbage]

RECURSIVE Bisect(_, _, _, _)
Bisect(is, value, min, max) ==
  LET mid == (min + max) \div 2
      cur == _intsetGet(is, mid).v
  IN IF max < min THEN [found |-> FALSE, pos |-> min]
     ELSE IF value > cur THEN Bisect(is, value, mid + 1, max)
     ELSE IF value < cur THEN Bisect(is, value, min, mid - 1)
     ELSE [found |-> TRUE, pos |-> mid]

intsetSearch(is, value) ==
  IF is.len = 0 THEN [found |-> FALSE, pos |-> 0]
  ELSE IF value > _intsetGet(is, is.len - 1).v THEN [found |-> FALSE, pos |-> is.len]
  ELSE IF value < _intsetGet(is, 0).v THEN [found |-> FALSE, pos |-> 0]
  ELSE Bisect(is, value, 0, is.len - 1)

\* mutant: the values are widened from the front
WidenForwards(mem, len, prepend, old, new) ==
  LET Widen(m, pos) == _intsetSet(m, pos + prepend, new, _intsetGetEncoded(m, pos, old).v)
  IN FoldLeft(Widen, mem, [i \in 1..len |-> i - 1])

\* every value is read in the old encoding and written in the new one, the last one first
Widened(mem, len, prepend, old, new) ==
  LET Widen(m, pos) == _intsetSet(m, pos + prepend, new, _intsetGetEncoded(m, pos, old).v)
  IN FoldLeft(Widen, mem, [i \in 1..len |-> len - i])

\* the new value is out of the old range, so it goes to one of the ends
intsetUpgradeAndAdd(is, value) ==
  LET new == _intsetValueEncoding(value)
      prepend == IF value < 0 THEN 1 ELSE 0
      mem == Widened(intsetResize(is.mem, is.len + 1, new), is.len, prepend, is.enc, new)
  IN [enc |-> new, len |-> is.len + 1, mem |-> _intsetSet(mem, IF prepend = 1 THEN 0 ELSE is.len, new, value)]

\* the cells from position from on are moved, as a block, to position to
intsetMoveTail(mem, len, enc, from, to) ==
  [i \in DOMAIN mem |-> LET src == i - (to - from) * enc
                        IN IF i > to * enc /\ src <= len * enc /\ src > from * enc THEN mem[src] ELSE mem[i]]

intsetAdd(is, value) ==
  LET at == intsetSearch(is, value)
      mem == intsetResize(is.mem, is.len + 1, is.enc)
      moved == IF at.pos < is.len THEN intsetMoveTail(mem, is.len, is.enc, at.pos, at.pos + 1) ELSE mem
  IN IF _intsetValueEncoding(value) > is.enc THEN intsetUpgradeAndAdd(is, value)
     ELSE IF at.found THEN is
     ELSE [is EXCEPT !.mem = _intsetSet(moved, at.pos, is.enc, value), !.len = @ + 1]

intsetFind(is, value) == _intsetValueEncoding(value) <= is.enc /\ intsetSearch(is, value).found

intsetRemove(is, value) ==
  LET pos == intsetSearch(is, value).pos
      moved == IF pos < is.len - 1 THEN intsetMoveTail(is.mem, is.len, is.enc, pos + 1, pos) ELSE is.mem
  IN IF ~ intsetFind(is, value) THEN is
     ELSE [is EXCEPT !.mem = intsetResize(moved, is.len - 1, is.enc), !.len = @ - 1]

IsInit == intset = [is |-> intsetNew, ref |-> {}]
IsNext == \E v \in IntVal :
  \/ intset' = [is |-> intsetAdd(intset.is, v), ref |-> intset.ref \cup {v}]
  \/ intset' = [is |-> intsetRemove(intset.is, v), ref |-> intset.ref \ {v}]
IsSpec == IsInit /\ [][IsNext]_intsetVars

(* After any additions and removals, in whichever encoding, the array of   *)
(* intset.c holds the values of the set in order, each one whole in its    *)
(* cells, and intsetFind finds just those.                                 *)
IntsetExact ==
  LET is == intset.is
      sorted == SetToSortSeq(intset.ref, LAMBDA a, b : a < b)
  IN /\ is.len = Len(sorted) /\ Len(is.mem) = is.len * is.enc
     /\ \A i \in 1..Len(sorted) : _intsetGet(is, i - 1) = [ok |-> TRUE, v |-> sorted[i]]
     /\ \A v \in IntVal : intsetFind(is, v) <=> v \in intset.ref
=============================================================================
