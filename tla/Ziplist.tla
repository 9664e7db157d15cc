------------------------------- MODULE Ziplist -------------------------------
(***************************************************************************)
(* The ziplist of ziplist.c: one block of memory in which every entry      *)
(* begins with the size of the entry before it, in one byte or in five.    *)
(* Inserting or deleting an entry may change the size of that field in the *)
(* next one, and so the size of the next one, and so on.  An entry is a    *)
(* record, its place is the sum of the sizes before it.                    *)
(***************************************************************************)
EXTENDS Integers, FiniteSets, SequencesExt

CONSTANTS ZlItem,    \* what is inserted: kind "str" with a length, or "int" with a value
          ZlMax,     \* the most entries a list gets
          ZlLenMax   \* UINT16_MAX, at which the length field stops counting

VARIABLE zl   \* the entries, the header (bytes, tail, len), whether the block was overrun; and ref

zlVars == <<zl>>

ZIP_BIGLEN == 254
ZIPLIST_HEADER_SIZE == 10

-----------------------------------------------------------------------------
(* Integers: the narrowest encoding, the bits that are stored, and back. *)
Bits == [imm |-> 0, int8 |-> 8, int16 |-> 16, int24 |-> 24]

zipTryEncoding(value) ==
  IF value >= 0 /\ value <= 12 THEN "imm"
  ELSE IF value >= -128 /\ value <= 127 THEN "int8"
  ELSE IF value >= -32768 /\ value <= 32767 THEN "int16" ELSE "int24"

zipIntSize(enc) == Bits[enc] \div 8

\* an immediate is 1 more than its value, in four bits of the encoding; the others are two's complement
zipSaveInteger(value, enc) == IF enc = "imm" THEN value + 1 ELSE value % 2^Bits[enc]
zipLoadInteger(bits, enc) ==
  IF enc = "imm" THEN bits - 1
  ELSE IF bits >= 2^(Bits[enc] - 1) THEN bits - 2^Bits[enc] ELSE bits

\* the bytes of the encoding and, for a string, of its length
zipEncodeLength(len) == IF len <= 63 THEN 1 ELSE IF len <= 16383 THEN 2 ELSE 5

\* an entry without the field for the one before it
Encoded(item) ==
  IF item.kind = "str" THEN [enc |-> "str", body |-> zipEncodeLength(item.n) + item.n, bits |-> item.n]
  ELSE LET enc == zipTryEncoding(item.n)
       IN [enc |-> enc, body |-> 1 + zipIntSize(enc), bits |-> zipSaveInteger(item.n, enc)]

ziplistGet(e) == IF e.enc = "str" THEN [kind |-> "str", n |-> e.bits] ELSE [kind |-> "int", n |-> zipLoadInteger(e.bits, e.enc)]

-----------------------------------------------------------------------------
zipPrevEncodeLength(len) == IF len < ZIP_BIGLEN THEN 1 ELSE 5

zipRawEntryLength(e) == e.prevsize + e.body

\* where entry i begins, and where the block ends
OffsetOf(es, i) == FoldLeft(LAMBDA n, e : n + zipRawEntryLength(e), ZIPLIST_HEADER_SIZE, SubSeq(es, 1, i - 1))
ziplistNew == [es |-> <<>>, bytes |-> ZIPLIST_HEADER_SIZE + 1, tail |-> ZIPLIST_HEADER_SIZE, len |-> 0, overrun |-> FALSE]

IncrLength(len, n) == IF len < ZlLenMax THEN len + n ELSE len

\* the tail moves with the entries, unless it is entry i itself that has grown
TailMoved(z, i, n) == IF z.tail # OffsetOf(z.es, i) THEN z.tail + n ELSE z.tail

\* mutant: the next entry is widened, but what follows it is not looked at
CascadeOnce(z, i) ==
  IF i >= Len(z.es) THEN z
  ELSE LET raw == zipRawEntryLength(z.es[i])
           extra == zipPrevEncodeLength(raw) - z.es[i + 1].prevsize
       IN IF z.es[i + 1].prev = raw THEN z
          ELSE IF extra > 0
          THEN [z EXCEPT !.es[i + 1].prevsize = @ + extra, !.es[i + 1].prev = raw, !.bytes = @ + extra,
                         !.tail = TailMoved(z, i + 1, extra)]
          ELSE [z EXCEPT !.es[i + 1].prev = raw]

\* the field of entry i + 1 is made right, wider if it has to be, never narrower; a wider one changes its entry
RECURSIVE __ziplistCascadeUpdate(_, _)
__ziplistCascadeUpdate(z, i) ==
  IF i >= Len(z.es) THEN z
  ELSE LET raw == zipRawEntryLength(z.es[i])
           extra == zipPrevEncodeLength(raw) - z.es[i + 1].prevsize
       IN IF z.es[i + 1].prev = raw THEN z
          ELSE IF extra > 0
          THEN __ziplistCascadeUpdate(
                 [z EXCEPT !.es[i + 1].prevsize = @ + extra, !.es[i + 1].prev = raw, !.bytes = @ + extra,
                           !.tail = TailMoved(z, i + 1, extra)], i + 1)
          ELSE [z EXCEPT !.es[i + 1].prev = raw]

\* num entries from entry i on, or those that are left
__ziplistDelete(z, i, num) ==
  LET n == IF i + num - 1 > Len(z.es) THEN Len(z.es) - i + 1 ELSE num
      first == z.es[i]
      totlen == OffsetOf(z.es, i + n) - OffsetOf(z.es, i)
      atEnd == i + n > Len(z.es)
      nextdiff == IF atEnd THEN 0 ELSE zipPrevEncodeLength(first.prev) - z.es[i + n].prevsize
      next == [z.es[i + n] EXCEPT !.prevsize = @ + nextdiff, !.prev = first.prev]
      es == SubSeq(z.es, 1, i - 1) \o (IF atEnd THEN <<>> ELSE <<next>> \o SubSeq(z.es, i + n + 1, Len(z.es)))
      tail == IF atEnd THEN OffsetOf(z.es, i) - first.prev
              ELSE z.tail - totlen + (IF i + n = Len(z.es) THEN 0 ELSE nextdiff)
      left == [z EXCEPT !.es = es, !.tail = tail, !.bytes = @ - totlen + nextdiff, !.len = IncrLength(@, -n)]
  IN IF nextdiff # 0 THEN __ziplistCascadeUpdate(left, i) ELSE left

\* the entry the tail field points at
TailEntry(z) == z.es[CHOOSE i \in DOMAIN z.es : OffsetOf(z.es, i) = z.tail]

\* in front of entry i, or at the end.  The block is given its new size before anything is moved: when
\* that is smaller, the bytes that are still to be moved are cut off.
__ziplistInsert(z, i, item) ==
  LET atEnd == i > Len(z.es)
      prevlen == IF ~ atEnd THEN z.es[i].prev ELSE IF z.es = <<>> THEN 0 ELSE zipRawEntryLength(TailEntry(z))
      new == [prevsize |-> zipPrevEncodeLength(prevlen), prev |-> prevlen] @@ Encoded(item)
      reqlen == zipRawEntryLength(new)
      nextdiff == IF atEnd THEN 0 ELSE zipPrevEncodeLength(reqlen) - z.es[i].prevsize
      next == [z.es[i] EXCEPT !.prevsize = @ + nextdiff, !.prev = reqlen]
      es == SubSeq(z.es, 1, i - 1) \o (IF atEnd THEN <<new>> ELSE <<new, next>> \o SubSeq(z.es, i + 1, Len(z.es)))
      tail == IF atEnd THEN OffsetOf(z.es, i) ELSE z.tail + reqlen + (IF i = Len(z.es) THEN 0 ELSE nextdiff)
      grown == [z EXCEPT !.es = es, !.tail = tail, !.bytes = @ + reqlen + nextdiff, !.len = IncrLength(@, 1),
                         !.overrun = @ \/ reqlen + nextdiff < 0]
  IN IF nextdiff # 0 THEN __ziplistCascadeUpdate(grown, i + 1) ELSE grown

\* the length field when it still counts; otherwise the entries are counted, and the field is mended
ziplistLen(z) == IF z.len < ZlLenMax THEN z.len ELSE Len(z.es)
LenMended(z) == IF z.len >= ZlLenMax /\ Len(z.es) < ZlLenMax THEN [z EXCEPT !.len = Len(z.es)] ELSE z

\* the offset of the entry index from the end, by the fields for the entries before
RECURSIVE Backwards(_, _, _)
Backwards(z, offset, index) ==
  LET at == {i \in DOMAIN z.es : OffsetOf(z.es, i) = offset}
  IN IF at = {} THEN 0
     ELSE LET i == CHOOSE j \in at : TRUE
          IN IF index = 0 THEN i ELSE IF z.es[i].prev = 0 THEN 0 ELSE Backwards(z, offset - z.es[i].prev, index - 1)

\* from entry i on, the first of every skip + 1 entries that is the item
ziplistFind(z, i, item, skip) ==
  LET hits == {j \in i..Len(z.es) : (j - i) % (skip + 1) = 0 /\ ziplistGet(z.es[j]) = item}
  IN IF hits = {} THEN 0 ELSE CHOOSE j \in hits : \A k \in hits : j <= k

-----------------------------------------------------------------------------
ZlInit == zl = [z |-> ziplistNew, ref |-> <<>>]

ZlInsert == \E item \in ZlItem : \E i \in 1..(Len(zl.ref) + 1) :
  /\ Len(zl.ref) < ZlMax
  /\ zl' = [z |-> __ziplistInsert(zl.z, i, item), ref |-> InsertAt(zl.ref, i, item)]

ZlDelete == \E i \in DOMAIN zl.ref : \E num \in 1..2 :
  zl' = [z |-> __ziplistDelete(zl.z, i, num), ref |-> SubSeq(zl.ref, 1, i - 1) \o SubSeq(zl.ref, i + num, Len(zl.ref))]

ZlLen == LenMended(zl.z) # zl.z /\ zl' = [zl EXCEPT !.z = LenMended(@)]

ZlNext == ~ zl.z.overrun /\ (ZlInsert \/ ZlDelete \/ ZlLen)

ZlSpec == ZlInit /\ [][ZlNext]_zlVars

(* After any insertions and deletions the block is the list: every field   *)
(* of ziplist.c for an entry before says that entry's size, and is wide    *)
(* enough for it; the tail offset is that of the last entry, the total and *)
(* the number of entries are right; the values come back as they went in,  *)
(* forwards, backwards and by ziplistFind.                                 *)
ZiplistSound ==
  LET z == zl.z
      n == Len(zl.ref)
  IN /\ Len(z.es) = n
     /\ \A i \in 1..n : /\ ziplistGet(z.es[i]) = zl.ref[i]
                        /\ z.es[i].prev = IF i = 1 THEN 0 ELSE zipRawEntryLength(z.es[i - 1])
                        /\ z.es[i].prevsize \in {1, 5} /\ z.es[i].prevsize >= zipPrevEncodeLength(z.es[i].prev)
                        /\ Backwards(z, z.tail, n - i) = i
     /\ z.tail = IF n = 0 THEN ZIPLIST_HEADER_SIZE ELSE OffsetOf(z.es, n)
     /\ z.bytes = OffsetOf(z.es, n + 1) + 1
     /\ ziplistLen(z) = n
     /\ \A i \in 1..n, skip \in 0..1 : LET j == ziplistFind(z, i, zl.ref[n], skip)
                                       IN j # 0 => zl.ref[j] = zl.ref[n] /\ (j - i) % (skip + 1) = 0

(* The memory of the block is never cut off below what it holds: the next  *)
(* entry can hold the new entry's length in its field.                     *)
InsertInBounds == ~ zl.z.overrun
=============================================================================
