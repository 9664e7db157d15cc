------------------------------- MODULE Strings -------------------------------
(***************************************************************************)
(* The string commands of t_string.c.  A string is a sequence of bytes: a  *)
(* decimal digit is its own value, Minus, Letter and Nul stand for '-',    *)
(* for any byte that is no part of a number, and for the zero byte.        *)
(* Integers are short: MinLL..MaxLL for LLONG_MIN..LLONG_MAX, and a double *)
(* is an integer in -MaxDouble..MaxDouble.                                 *)
(***************************************************************************)
EXTENDS Keyspace

CONSTANTS MaxLL,       \* LLONG_MAX
          MaxDouble,   \* the largest double; beyond it is infinity
          MaxStr       \* the longest string (512 MB)

MinLL == -MaxLL - 1

Minus == 10
Letter == 11
Nul == 12

Str(bytes) == [type |-> "string", enc |-> "raw", v |-> bytes]
StrOf(x, k) == IF Exists(x, k) THEN x.val[k].v ELSE <<>>

\* ll2string
Text(n) == IF n < 0 THEN <<Minus, -n>> ELSE <<n>>

\* the bytes a C function sees: up to the first zero byte
CString(s) ==
  LET nul == {i \in DOMAIN s : s[i] = Nul}
  IN IF nul = {} THEN s ELSE SubSeq(s, 1, (CHOOSE i \in nul : \A j \in nul : i <= j) - 1)

DigitsValue(s) == FoldLeft(LAMBDA n, d : 10 * n + d, 0, s)
AllDigits(s) == s # <<>> /\ \A i \in DOMAIN s : s[i] \in 0..9

\* strtoll and strtold: the empty string is zero, leading zeros are fine
Numeral(s) == s = <<>> \/ AllDigits(s) \/ (s[1] = Minus /\ AllDigits(Tail(s)))
NumeralValue(s) ==
  IF s = <<>> THEN 0 ELSE IF s[1] = Minus THEN -DigitsValue(Tail(s)) ELSE DigitsValue(s)

IsLongLong(s) == LET t == CString(s) IN Numeral(t) /\ NumeralValue(t) \in MinLL..MaxLL
IsLongDouble(s) == LET t == CString(s) IN Numeral(t) /\ NumeralValue(t) \in -MaxDouble..MaxDouble
NumberOf(s) == NumeralValue(CString(s))

Negate(n) == IF n = MinLL THEN MinLL ELSE -n      \* two's complement
Overflows(old, incr) ==
  \/ incr < 0 /\ old < 0 /\ incr < MinLL - old
  \/ incr > 0 /\ old > 0 /\ incr > MaxLL - old

-----------------------------------------------------------------------------
\* SET with NX and XX, SETNX, SETEX, PSETEX
setGenericCommand(x, c) ==
  LET k == c.keys[1]
      checked == IF c.flag = "" THEN x ELSE lookupKeyWrite(x, k)
      refused == (c.flag = "nx" /\ Exists(checked, k)) \/ (c.flag = "xx" /\ ~ Exists(checked, k))
      y == setKey(checked, k, Str(c.v))
      z == IF c.expire = 0 THEN y ELSE setExpire(y, k, y.now + c.expire * Unit(c))
  IN IF c.expire < 0 THEN x ELSE IF refused THEN checked ELSE [z EXCEPT !.dirty = @ + 1]

getsetCommand(x, c) ==
  LET y == lookupKeyRead(x, c.keys[1])
  IN IF ~ HasType(y, c.keys[1], "string") THEN y
     ELSE [setKey(y, c.keys[1], Str(c.v)) EXCEPT !.dirty = @ + 1]

GrowZero(s, n) == s \o [i \in 1..(n - Len(s)) |-> Nul]
Overwritten(s, offset, v) ==
  [i \in DOMAIN s |-> IF i - offset \in DOMAIN v THEN v[i - offset] ELSE s[i]]

setrangeCommand(x, c) ==
  LET k == c.keys[1]
      y == lookupKeyWrite(x, k)
      new == Overwritten(GrowZero(StrOf(y, k), c.arg + Len(c.v)), c.arg, c.v)
  IN IF \/ ~ HasType(y, k, "string") \/ c.v = <<>> \/ c.arg + Len(c.v) > MaxStr THEN y
     ELSE Modified(dbOverwrite(y, k, Str(new)), k, 1)

msetGenericCommand(x, c) ==
  LET y == IF c.flag = "nx" THEN FoldLeft(lookupKeyWrite, x, c.keys) ELSE x
      busy == c.flag = "nx" /\ \E i \in DOMAIN c.keys : Exists(y, c.keys[i])
      Set(z, k) == setKey(z, k, Str(c.v))
  IN IF busy THEN y ELSE [FoldLeft(Set, y, c.keys) EXCEPT !.dirty = @ + Len(c.keys)]

IncrDecr(x, k, incr) ==
  LET y == lookupKeyWrite(x, k)
      old == NumberOf(StrOf(y, k))
  IN IF ~ HasType(y, k, "string") THEN y
     ELSE IF ~ IsLongLong(StrOf(y, k)) THEN y
     ELSE IF Overflows(old, incr) THEN y
     ELSE Modified(dbOverwrite(y, k, Str(Text(old + incr))), k, 1)

\* INCR, DECR, INCRBY; DECRBY negates its argument first
incrDecrCommand(x, c) == IncrDecr(x, c.keys[1], IF c.name = "DECRBY" THEN Negate(c.arg) ELSE c.arg)

\* propagated as SET with the result
incrbyfloatCommand(x, c) ==
  LET k == c.keys[1]
      y == lookupKeyWrite(x, k)
      value == NumberOf(StrOf(y, k)) + c.arg
  IN IF ~ HasType(y, k, "string") THEN y
     ELSE IF ~ IsLongDouble(StrOf(y, k)) THEN y
     ELSE IF value \notin -MaxDouble..MaxDouble THEN y
     ELSE [Modified(dbOverwrite(y, k, Str(Text(value))), k, 1) EXCEPT
             !.cmd = [name |-> "SET", keys |-> <<k>>, v |-> Text(value), flag |-> "", expire |-> 0]]

appendCommand(x, c) ==
  LET k == c.keys[1]
      y == lookupKeyWrite(x, k)
      new == StrOf(y, k) \o c.v
  IN IF ~ HasType(y, k, "string") THEN y
     ELSE IF Exists(y, k) /\ Len(new) > MaxStr THEN y
     ELSE Modified(dbOverwrite(y, k, Str(new)), k, 1)
=============================================================================
