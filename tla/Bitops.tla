------------------------------- MODULE Bitops -------------------------------
(***************************************************************************)
(* The bitmap commands of bitops.c on the bytes of strings.  BITCOUNT,     *)
(* BITPOS and BITOP take whole words where the address and the lengths     *)
(* allow it and single bytes at the ends; the model keeps those loops with *)
(* narrower bytes and words.  Counting the bits inside a word by           *)
(* multiplication (redis's 0x55555555 trick) is abstracted to their sum.   *)
(***************************************************************************)
EXTENDS Integers, SequencesExt

CONSTANTS BitKey, ListKey,   \* the keys of strings, and one that holds a list
          ByteBits,          \* bits of a byte: 8
          WordBytes,         \* bytes of a word: sizeof(unsigned long)
          Unroll,            \* words taken by one round of the fast loops: 4
          MaxFast,           \* BITOP takes words only up to so many sources: 16
          MaxBytes,          \* bound: the bytes of a string; the code refuses offsets past 512MB
          MaxSources         \* bound: the sources of one BITOP

VARIABLES bits,     \* each key's bytes, a byte being its bits from the highest one; NoString if missing
          bitRef    \* each key's length and the set of its positions that are on

bitVars == <<bits, bitRef>>

NoString == << <<>> >>   \* no string is one byte of no bits
BitKeys == BitKey \cup {ListKey}
Byte == [1..ByteBits -> {0, 1}]
ZeroByte == [i \in 1..ByteBits |-> 0]
UnknownByte == [i \in 1..ByteBits |-> 2]   \* read past the end of a string

BytesOf(k) == IF bits[k] = NoString THEN <<>> ELSE bits[k]

-----------------------------------------------------------------------------

redisPopcount(s, align) ==
  LET SumBits(from, to) ==
        FoldLeft(LAMBDA n, i : n + FoldLeft(+, 0, s[i]), 0, [i \in 1..(to - from) |-> from + i])
      head == LET h == (WordBytes - align) % WordBytes IN IF h < Len(s) THEN h ELSE Len(s)
      body == head + ((Len(s) - head) \div (WordBytes * Unroll)) * WordBytes * Unroll
  IN SumBits(0, head) + SumBits(head, body) + SumBits(body, Len(s))

\* The first position of the bit, or one past the end of the string for a clear bit
\* when all are set; -1 when no bit is set.
redisBitpos(s, align, bit) ==
  LET count == Len(s)
      Skipped(i) == s[i] = [b \in 1..ByteBits |-> 1 - bit]
      head == LET h == (WordBytes - align) % WordBytes IN IF h < count THEN h ELSE count
      c == Max({j \in 0..head : \A i \in 1..j : Skipped(i)})
      w == Max({n \in 0..((count - c) \div WordBytes) : \A i \in (c + 1)..(c + n * WordBytes) : Skipped(i)})
      from == c + w * WordBytes
      word == FlattenSeq([j \in 1..WordBytes |-> IF from + j <= count THEN s[from + j] ELSE ZeroByte])
      hits == {p \in DOMAIN word : word[p] = bit}
  IN IF hits = {} THEN -1 ELSE from * ByteBits + Min(hits) - 1

\* mutant: a range that ends past the string is not cut
UncutRange(start, end, len) ==
  LET s == IF start < 0 THEN len + start ELSE start
      e == IF end < 0 THEN len + end ELSE end
  IN <<IF s < 0 THEN 0 ELSE s, IF e < 0 THEN 0 ELSE IF e > len THEN len - 1 ELSE e>>

\* negative indexes count from the end; both ends are cut to the string
CutRange(start, end, len) ==
  LET s == IF start < 0 THEN len + start ELSE start
      e == IF end < 0 THEN len + end ELSE end
      f == IF e < 0 THEN 0 ELSE e
  IN <<IF s < 0 THEN 0 ELSE s, IF f >= len THEN len - 1 ELSE f>>

BitsBetween(s, range) == [i \in 1..(range[2] - range[1] + 1) |-> IF range[1] + i <= Len(s) THEN s[range[1] + i] ELSE UnknownByte]

bitcountCommand(s, start, end, align) ==
  LET range == CutRange(start, end, Len(s))
  IN IF range[1] > range[2] THEN 0
     ELSE redisPopcount(BitsBetween(s, range), (align + range[1]) % WordBytes)

\* endGiven: the command names its end.  Without one, a string of ones is taken to be
\* followed by zeroes.
bitposCommand(s, bit, start, end, endGiven, align) ==
  LET range == CutRange(start, IF endGiven THEN end ELSE Len(s) - 1, Len(s))
      bytes == range[2] - range[1] + 1
      pos == redisBitpos(BitsBetween(s, range), (align + range[1]) % WordBytes, bit)
  IN IF range[1] > range[2] THEN -1
     ELSE IF endGiven /\ bit = 0 /\ pos = bytes * ByteBits THEN -1
     ELSE IF pos = -1 THEN -1 ELSE pos + range[1] * ByteBits

getbitCommand(s, offset) ==
  LET byte == offset \div ByteBits
  IN IF byte < Len(s) THEN s[byte + 1][1 + (offset % ByteBits)] ELSE 0

setbitCommand(s, offset, on) ==
  LET byte == offset \div ByteBits + 1
      grown == [i \in 1..(IF byte > Len(s) THEN byte ELSE Len(s)) |-> IF i <= Len(s) THEN s[i] ELSE ZeroByte]
  IN [grown EXCEPT ![byte][1 + (offset % ByteBits)] = on]

Combine(op, a, b) ==
  [i \in 1..ByteBits |->
     IF a[i] = 2 \/ b[i] = 2 THEN 2
     ELSE CASE op = "and" -> a[i] * b[i]
            [] op = "or"  -> IF a[i] + b[i] > 0 THEN 1 ELSE 0
            [] op = "xor" -> (a[i] + b[i]) % 2]

\* mutant: a missing source does not set the common length back to zero
MinLenOfPresent(sources) ==
  LET present == SelectSeq(sources, LAMBDA s : s # NoString)
  IN IF present = <<>> THEN 0 ELSE Min({Len(present[i]) : i \in DOMAIN present})

\* the bytes all sources have: zero once one is missing
MinLen(sources) ==
  IF \E i \in DOMAIN sources : sources[i] = NoString THEN 0
  ELSE Min({Len(sources[i]) : i \in DOMAIN sources})

\* The result of BITOP: whole rounds of words as far as all sources reach, then byte by
\* byte, with zeroes for the ones that are shorter.
bitopResult(op, sources) ==
  LET src == [i \in DOMAIN sources |-> IF sources[i] = NoString THEN <<>> ELSE sources[i]]
      maxlen == Max({Len(src[i]) : i \in DOMAIN src})
      round == WordBytes * Unroll
      fast == IF Len(src) <= MaxFast THEN (MinLen(sources) \div round) * round ELSE 0
      At(i, j) == IF j <= Len(src[i]) THEN src[i][j] ELSE IF j <= fast THEN UnknownByte ELSE ZeroByte
      First(j) == IF op = "not" THEN [b \in 1..ByteBits |-> 1 - At(1, j)[b]] ELSE At(1, j)
  IN [j \in 1..maxlen |-> FoldLeft(LAMBDA out, i : Combine(op, out, At(i, j)), First(j),
                                   [i \in 1..(Len(src) - 1) |-> i + 1])]

-----------------------------------------------------------------------------

NoRef == [len |-> 0, on |-> {}]

BitInit == bits = [k \in BitKey |-> NoString] /\ bitRef = [k \in BitKey |-> NoRef]

Setbit(k, offset, on) ==
  /\ bits' = [bits EXCEPT ![k] = setbitCommand(BytesOf(k), offset, on)]
  /\ bitRef' = [bitRef EXCEPT ![k] = [len |-> Max({@.len, offset \div ByteBits + 1}),
                                      on  |-> IF on = 1 THEN @.on \cup {offset} ELSE @.on \ {offset}]]

\* A source of another type refuses the command; an empty result deletes the target.
bitopCommand(op, target, sources) ==
  /\ op = "not" => Len(sources) = 1
  /\ ListKey \notin Range(sources)
  /\ LET result == bitopResult(op, [i \in DOMAIN sources |-> bits[sources[i]]])
         refs == [i \in DOMAIN sources |-> bitRef[sources[i]]]
         len == Max({refs[i].len : i \in DOMAIN refs})
         Holders(p) == {i \in DOMAIN refs : p \in refs[i].on}
         on == {p \in 0..(len * ByteBits - 1) :
                  CASE op = "and" -> Holders(p) = DOMAIN refs
                    [] op = "or"  -> Holders(p) # {}
                    [] op = "xor" -> Cardinality(Holders(p)) % 2 = 1
                    [] op = "not" -> Holders(p) = {}}
     IN /\ bits' = [bits EXCEPT ![target] = IF result = <<>> THEN NoString ELSE result]
        /\ bitRef' = [bitRef EXCEPT ![target] = [len |-> len, on |-> on]]

BitNext ==
  \/ \E k \in BitKey, offset \in 0..(MaxBytes * ByteBits - 1), on \in {0, 1} : Setbit(k, offset, on)
  \/ \E op \in {"and", "or", "xor", "not"}, target \in BitKey, n \in 1..MaxSources :
       \E sources \in [1..n -> BitKeys] : bitopCommand(op, target, sources)

BitSpec == BitInit /\ [][BitNext]_bitVars

-----------------------------------------------------------------------------

\* what is answered for a key depends on that key alone, so ranges are compared while it is the only one
OnlyKey(k) == bits[k] # NoString /\ \A l \in BitKey \ {k} : bits[l] = NoString

(* After any SETBIT and BITOP of bitops.c a string holds exactly the bits  *)
(* those commands turned on, and GETBIT, BITCOUNT and BITPOS answer, for   *)
(* every range and every alignment of the string in memory, what the set   *)
(* of those bits says.                                                     *)
BitopsExact ==
  \A k \in BitKey :
    LET s == BytesOf(k)  r == bitRef[k]
        ends == (- MaxBytes - 1)..MaxBytes
        In(start, end) ==
          LET At(i) == IF i >= 0 THEN i ELSE Max({0, r.len + i})
          IN {b \in 0..(r.len - 1) : At(start) <= b /\ b <= At(end)}
    IN /\ Len(s) = r.len
       /\ \A p \in 0..(MaxBytes * ByteBits) : getbitCommand(s, p) = (IF p \in r.on THEN 1 ELSE 0)
       /\ OnlyKey(k) => \A start \in ends, end \in ends, align \in 0..(WordBytes - 1) :
            LET bytes == In(start, end)
                ones == {p \in r.on : p \div ByteBits \in bytes}
                zeros == {p \in 0..(r.len * ByteBits - 1) : p \div ByteBits \in bytes} \ r.on
                FirstOf(ps) == IF ps = {} THEN -1 ELSE Min(ps)
                rest == In(start, -1)
                clear == {p \in 0..(r.len * ByteBits) : p \div ByteBits \in rest \cup {r.len}} \ r.on
            IN /\ bitcountCommand(s, start, end, align) = Cardinality(ones)
               /\ bitposCommand(s, 1, start, end, TRUE, align) = FirstOf(ones)
               /\ bitposCommand(s, 0, start, end, TRUE, align) = FirstOf(zeros)
               /\ rest # {} => bitposCommand(s, 0, start, 0, FALSE, align) = Min(clear)
=============================================================================
