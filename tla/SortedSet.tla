----------------------------- MODULE SortedSet -----------------------------
(***************************************************************************)
(* The two encodings of a sorted set, t_zset.c: a skip list whose links    *)
(* carry the number of nodes they jump over, and a ziplist that keeps the  *)
(* elements in order.  Both get every operation and answer every query; a  *)
(* node of the skip list is named by its element, and the level that       *)
(* zslRandomLevel draws is chosen freely.                                  *)
(***************************************************************************)
EXTENDS Integers, FiniteSets, SequencesExt

CONSTANTS ZElem,      \* elements, positive integers ordered as their strings are
          ZScore,     \* scores
          ZMaxLevel,  \* ZSKIPLIST_MAXLEVEL
          MinText,    \* the text of shared.minstring, MaxText the one of shared.maxstring
          MaxText,
          ZOrder      \* the families of operations: by "score" or by "lex", all at one score

ASSUME SortedSetAssumption == ZElem \subseteq Int /\ ZMaxLevel \in Nat \ {0} /\ ZOrder \subseteq {"score", "lex"}

VARIABLE zs   \* zsl, the skip list; zzl, the ziplist; ref, what was added; order

zsVars == <<zs>>

Header == 0
Nil == -1
NodeOrNil == ZElem \cup {Nil}
Levels == 1..ZMaxLevel
Unbounded == Cardinality(ZElem) + 1

zslCreate ==
  [fwd |-> [n \in ZElem \cup {Header} |-> [i \in Levels |-> Nil]],
   span |-> [n \in ZElem \cup {Header} |-> [i \in Levels |-> 0]],
   back |-> [n \in ZElem |-> Nil],
   score |-> [n \in ZElem |-> 0],
   dict |-> [n \in {} |-> 0],       \* the hash table beside it, element to score
   tail |-> Nil, length |-> 0, level |-> 1]

-----------------------------------------------------------------------------
(* The skip list. *)

\* level i of a search: forward while the next node is in before and the rank stays below limit
RECURSIVE Advance(_, _, _, _, _)
Advance(z, i, at, before, limit) ==
  LET next == z.fwd[at.node][i]
      rank == at.rank + z.span[at.node][i]
  IN IF next \in before /\ rank < limit THEN Advance(z, i, [node |-> next, rank |-> rank], before, limit)
     ELSE at

\* update[] and rank[]: where a search from the header, top level first, leaves each level
RECURSIVE Search(_, _, _, _)
Search(z, i, before, limit) ==
  IF i > z.level THEN [j \in {k \in Levels : k > z.level} |-> [node |-> Header, rank |-> 0]]
  ELSE LET above == Search(z, i + 1, before, limit)
           from == IF i = z.level THEN [node |-> Header, rank |-> 0] ELSE above[i + 1]
       IN [j \in {i} \cup DOMAIN above |-> IF j = i THEN Advance(z, i, from, before, limit) ELSE above[j]]

\* the nodes that are smaller than element e with score s
Before(z, s, e) == {n \in ZElem : z.score[n] < s \/ (z.score[n] = s /\ n < e)}

\* mutant: the levels above the new node keep their span
SpanWithForgetsUpper(z, e, lv, update, n, i) ==
  LET old == IF i > z.level THEN z.length ELSE z.span[update[i].node][i]
      jumped == update[1].rank - update[i].rank
  IN IF n = e /\ i <= lv THEN old - jumped
     ELSE IF n = update[i].node /\ i <= lv THEN jumped + 1 ELSE z.span[n][i]

\* how many nodes the link at level i of the node n jumps, once e is linked at the levels up to lv;
\* a level that is new starts at the header, with the length as its span
SpanWith(z, e, lv, update, n, i) ==
  LET old == IF i > z.level THEN z.length ELSE z.span[update[i].node][i]
      jumped == update[1].rank - update[i].rank
  IN IF n = e /\ i <= lv THEN old - jumped
     ELSE IF n # update[i].node THEN z.span[n][i]
     ELSE IF i <= lv THEN jumped + 1
     ELSE IF i <= z.level THEN z.span[n][i] + 1 ELSE z.span[n][i]

\* the new node e is linked at the levels up to lv, behind the nodes of update
zslLink(z, s, e, lv, update) ==
  LET next == z.fwd[update[1].node][1]
      fwd == [n \in DOMAIN z.fwd |-> [i \in Levels |->
               IF i > lv THEN z.fwd[n][i]
               ELSE IF n = e THEN z.fwd[update[i].node][i]
               ELSE IF n = update[i].node THEN e ELSE z.fwd[n][i]]]
      span == [n \in DOMAIN z.span |-> [i \in Levels |-> SpanWith(z, e, lv, update, n, i)]]
      back == [n \in ZElem |-> IF n = e THEN (IF update[1].node = Header THEN Nil ELSE update[1].node)
                               ELSE IF n = next THEN e ELSE z.back[n]]
  IN [z EXCEPT !.fwd = fwd, !.span = span, !.back = back, !.score[e] = s, !.length = @ + 1,
               !.level = IF lv > @ THEN lv ELSE @, !.tail = IF next = Nil THEN e ELSE @]

zslInsert(z, s, e, lv) == zslLink(z, s, e, lv, Search(z, 1, Before(z, s, e), Unbounded))

\* the highest level the header still has a link at
TopLevel(z, fwd) == CHOOSE l \in 1..z.level :
  /\ l = 1 \/ fwd[Header][l] # Nil
  /\ \A m \in (l + 1)..z.level : fwd[Header][m] = Nil

zslDeleteNode(z, x, update) ==
  LET On(n, i) == i <= z.level /\ n = update[i].node
      fwd == [n \in DOMAIN z.fwd |-> [i \in Levels |->
               IF On(n, i) /\ z.fwd[n][i] = x THEN z.fwd[x][i] ELSE z.fwd[n][i]]]
      span == [n \in DOMAIN z.span |-> [i \in Levels |->
                IF ~ On(n, i) THEN z.span[n][i]
                ELSE IF z.fwd[n][i] = x THEN z.span[n][i] + z.span[x][i] - 1 ELSE z.span[n][i] - 1]]
      next == z.fwd[x][1]
  IN [z EXCEPT !.fwd = [fwd EXCEPT ![x] = [i \in Levels |-> Nil]],
               !.span = [span EXCEPT ![x] = [i \in Levels |-> 0]],
               !.back = [n \in ZElem |-> IF n = x THEN Nil ELSE IF n = next THEN z.back[x] ELSE z.back[n]],
               !.score[x] = 0, !.level = TopLevel(z, fwd), !.length = @ - 1,
               !.tail = IF next = Nil THEN z.back[x] ELSE @]

zslDelete(z, s, e) ==
  LET update == Search(z, 1, Before(z, s, e), Unbounded)
      x == z.fwd[update[1].node][1]
  IN IF x = e /\ z.score[x] = s THEN zslDeleteNode(z, x, update) ELSE z

dictDelete(z, e) == [z EXCEPT !.dict = [n \in DOMAIN @ \ {e} |-> @[n]]]

\* the nodes behind update go, while they are in within and n of them are left to delete
RECURSIVE DeleteWhile(_, _, _, _)
DeleteWhile(z, update, within, n) ==
  LET x == z.fwd[update[1].node][1]
  IN IF x \in within /\ n > 0 THEN DeleteWhile(dictDelete(zslDeleteNode(z, x, update), x), update, within, n - 1)
     ELSE z

-----------------------------------------------------------------------------
(* Ranges.  A score range has integer ends, a lexicographic one has texts  *)
(* or the shared objects for "-" and "+".                                  *)
Text(t) == [kind |-> "text", text |-> t]
MinString == [kind |-> "min", text |-> MinText]
MaxString == [kind |-> "max", text |-> MaxText]

zslValueGteMin(value, r) == IF r.minex THEN value > r.min ELSE value >= r.min
zslValueLteMax(value, r) == IF r.maxex THEN value < r.max ELSE value <= r.max

compareStringObjectsForLexRange(a, b) ==
  IF a.kind = b.kind /\ a.kind # "text" THEN 0
  ELSE IF a.kind = "min" \/ b.kind = "max" THEN -1
  ELSE IF a.kind = "max" \/ b.kind = "min" THEN 1
  ELSE a.text - b.text

zslLexValueGteMin(value, r) ==
  LET c == compareStringObjectsForLexRange(Text(value), r.min) IN IF r.minex THEN c > 0 ELSE c >= 0
zslLexValueLteMax(value, r) ==
  LET c == compareStringObjectsForLexRange(Text(value), r.max) IN IF r.maxex THEN c < 0 ELSE c <= 0

\* the ranges that are taken for empty before the set is looked at
ScoreRangeEmpty(r) == r.min > r.max \/ (r.min = r.max /\ (r.minex \/ r.maxex))
LexRangeEmpty(r) == \/ compareStringObjectsForLexRange(r.min, r.max) > 1
                    \/ r.min.text = r.max.text /\ (r.minex \/ r.maxex)

\* the elements, with their scores, that are not below and not above a range
ScoreGte(score, r) == {n \in DOMAIN score : zslValueGteMin(score[n], r)}
ScoreLte(score, r) == {n \in DOMAIN score : zslValueLteMax(score[n], r)}
LexGte(score, r) == {n \in DOMAIN score : zslLexValueGteMin(n, r)}
LexLte(score, r) == {n \in DOMAIN score : zslLexValueLteMax(n, r)}

zslIsInRange(z, r) ==
  /\ ~ ScoreRangeEmpty(r)
  /\ z.tail \in ScoreGte(z.score, r)
  /\ z.fwd[Header][1] \in ScoreLte(z.score, r)

zslIsInLexRange(z, r) ==
  /\ ~ LexRangeEmpty(r)
  /\ z.tail \in LexGte(z.score, r)
  /\ z.fwd[Header][1] \in LexLte(z.score, r)

\* the node behind the last one that is not in gte, the last node of lte; Nil when it is out of range
FirstIn(z, gte, lte) ==
  LET x == z.fwd[Search(z, 1, ZElem \ gte, Unbounded)[1].node][1] IN IF x \in lte THEN x ELSE Nil
LastIn(z, gte, lte) ==
  LET x == Search(z, 1, lte, Unbounded)[1].node IN IF x \in gte THEN x ELSE Nil

zslFirstInRange(z, r) == IF zslIsInRange(z, r) THEN FirstIn(z, ScoreGte(z.score, r), ScoreLte(z.score, r)) ELSE Nil
zslLastInRange(z, r) == IF zslIsInRange(z, r) THEN LastIn(z, ScoreGte(z.score, r), ScoreLte(z.score, r)) ELSE Nil
zslFirstInLexRange(z, r) == IF zslIsInLexRange(z, r) THEN FirstIn(z, LexGte(z.score, r), LexLte(z.score, r)) ELSE Nil
zslLastInLexRange(z, r) == IF zslIsInLexRange(z, r) THEN LastIn(z, LexGte(z.score, r), LexLte(z.score, r)) ELSE Nil

zslDeleteRangeByScore(z, r) ==
  DeleteWhile(z, Search(z, 1, ZElem \ ScoreGte(z.score, r), Unbounded), ScoreLte(z.score, r), Unbounded)

zslDeleteRangeByLex(z, r) ==
  DeleteWhile(z, Search(z, 1, ZElem \ LexGte(z.score, r), Unbounded), LexLte(z.score, r), Unbounded)

\* from the rank start to the rank end, from 1
zslDeleteRangeByRank(z, start, end) ==
  LET update == Search(z, 1, ZElem, start) IN DeleteWhile(z, update, ZElem, end - update[1].rank)

\* the search stops at the first level that leaves it on the element
zslGetRank(z, s, e) ==
  LET path == Search(z, 1, Before(z, s, e) \cup {e}, Unbounded)
      hits == {i \in 1..z.level : path[i].node = e}
  IN IF hits = {} THEN 0 ELSE path[CHOOSE i \in hits : \A j \in hits : j <= i].rank

\* mutant: the walk stops one node early
zslGetElementBefore(z, rank) ==
  LET path == Search(z, 1, ZElem, rank)
      hits == {i \in 1..z.level : path[i].rank = rank}
  IN IF hits = {} THEN Nil ELSE path[CHOOSE i \in hits : \A j \in hits : j <= i].node

zslGetElementByRank(z, rank) ==
  LET path == Search(z, 1, ZElem, rank + 1)
      hits == {i \in 1..z.level : path[i].rank = rank}
  IN IF hits = {} THEN Nil ELSE path[CHOOSE i \in hits : \A j \in hits : j <= i].node

-----------------------------------------------------------------------------
(* The ziplist: a sequence of elements with their scores. *)
ScoreIn(zl) == [e \in {zl[i].ele : i \in DOMAIN zl} |-> (CHOOSE p \in Range(zl) : p.ele = e).score]

\* the first, or the last, index whose element is in S
FirstAt(zl, S) == LET at == {i \in DOMAIN zl : zl[i].ele \in S}
                  IN IF at = {} THEN 0 ELSE CHOOSE i \in at : \A j \in at : i <= j
LastAt(zl, S) == LET at == {i \in DOMAIN zl : zl[i].ele \in S}
                 IN IF at = {} THEN 0 ELSE CHOOSE i \in at : \A j \in at : j <= i

zzlInsert(zl, e, s) ==
  LET after == {i \in DOMAIN zl : zl[i].score > s \/ (zl[i].score = s /\ zl[i].ele > e)}
      at == IF after = {} THEN Len(zl) + 1 ELSE CHOOSE i \in after : \A j \in after : i <= j
  IN InsertAt(zl, at, [ele |-> e, score |-> s])

zzlFind(zl, e) == FirstAt(zl, {e})

zzlDelete(zl, e) == RemoveAt(zl, zzlFind(zl, e))

zzlIsInRange(zl, r) ==
  /\ ~ ScoreRangeEmpty(r)
  /\ zl # <<>>
  /\ zslValueGteMin(zl[Len(zl)].score, r)
  /\ zslValueLteMax(zl[1].score, r)

zzlIsInLexRange(zl, r) ==
  /\ ~ LexRangeEmpty(r)
  /\ zl # <<>>
  /\ zslLexValueGteMin(zl[Len(zl)].ele, r)
  /\ zslLexValueLteMax(zl[1].ele, r)

\* index i when its element is in S, 0 for none
Checked(zl, i, S) == IF i # 0 /\ zl[i].ele \in S THEN i ELSE 0

zzlFirstInRange(zl, r) ==
  LET sc == ScoreIn(zl) IN IF zzlIsInRange(zl, r) THEN Checked(zl, FirstAt(zl, ScoreGte(sc, r)), ScoreLte(sc, r)) ELSE 0
zzlLastInRange(zl, r) ==
  LET sc == ScoreIn(zl) IN IF zzlIsInRange(zl, r) THEN Checked(zl, LastAt(zl, ScoreLte(sc, r)), ScoreGte(sc, r)) ELSE 0
zzlFirstInLexRange(zl, r) ==
  LET sc == ScoreIn(zl) IN IF zzlIsInLexRange(zl, r) THEN Checked(zl, FirstAt(zl, LexGte(sc, r)), LexLte(sc, r)) ELSE 0
zzlLastInLexRange(zl, r) ==
  LET sc == ScoreIn(zl) IN IF zzlIsInLexRange(zl, r) THEN Checked(zl, LastAt(zl, LexLte(sc, r)), LexGte(sc, r)) ELSE 0

\* from index first up to the first element that is not in lte
CutFrom(zl, first, lte) ==
  LET kept == {i \in DOMAIN zl : i > first /\ zl[i].ele \notin lte}
      next == IF kept = {} THEN Len(zl) + 1 ELSE CHOOSE i \in kept : \A j \in kept : i <= j
  IN IF first = 0 THEN zl ELSE SubSeq(zl, 1, first - 1) \o SubSeq(zl, next, Len(zl))

zzlDeleteRangeByScore(zl, r) == CutFrom(zl, zzlFirstInRange(zl, r), ScoreLte(ScoreIn(zl), r))

zzlDeleteRangeByLex(zl, r) == CutFrom(zl, zzlFirstInLexRange(zl, r), LexLte(ScoreIn(zl), r))

zzlDeleteRangeByRank(zl, start, end) == SubSeq(zl, 1, start - 1) \o SubSeq(zl, end + 1, Len(zl))

-----------------------------------------------------------------------------
(* The commands.  zsl and zzl are the same sorted set in its two encodings. *)
Less(ref, a, b) == ref[a] < ref[b] \/ (ref[a] = ref[b] /\ a < b)
Sorted(ref) == SetToSortSeq(DOMAIN ref, LAMBDA a, b : Less(ref, a, b))

\* what the sorted set is, whatever its encoding
In(ref, r) == {e \in DOMAIN ref : IF r.by = "score" THEN zslValueGteMin(ref[e], r) /\ zslValueLteMax(ref[e], r)
                                  ELSE /\ r.min.kind = "min" \/ (r.min.kind = "text" /\ (e > r.min.text \/ (e = r.min.text /\ ~ r.minex)))
                                       /\ r.max.kind = "max" \/ (r.max.kind = "text" /\ (e < r.max.text \/ (e = r.max.text /\ ~ r.maxex)))}

Ends == IF zs.order = "score" THEN ZScore ELSE {Text(e) : e \in ZElem \cup {0}} \cup {MinString, MaxString}
Shared(b) == zs.order = "lex" /\ b.kind # "text"
ZRanges == {r \in [by : {zs.order}, min : Ends, max : Ends, minex : BOOLEAN, maxex : BOOLEAN] :
             (Shared(r.min) => ~ r.minex) /\ (Shared(r.max) => ~ r.maxex)}

ZsInit == zs \in [zsl : {zslCreate}, zzl : {<<>>}, ref : {[e \in {} |-> 0]}, order : ZOrder]

Added(f, e, s) == [n \in DOMAIN f \cup {e} |-> IF n = e THEN s ELSE f[n]]
Without(f, S) == [n \in DOMAIN f \ S |-> f[n]]

\* an element whose score changes is taken out and put back
zaddSkiplist(z, e, s, lv) ==
  IF e \notin DOMAIN z.dict THEN [zslInsert(z, s, e, lv) EXCEPT !.dict = Added(@, e, s)]
  ELSE IF z.dict[e] = s THEN z
  ELSE [zslInsert(zslDelete(z, z.dict[e], e), s, e, lv) EXCEPT !.dict[e] = s]

zaddZiplist(zl, e, s) ==
  LET at == zzlFind(zl, e)
  IN IF at = 0 THEN zzlInsert(zl, e, s)
     ELSE IF zl[at].score = s THEN zl ELSE zzlInsert(zzlDelete(zl, e), e, s)

zaddCommand(e, s, lv) ==
  zs' = [zs EXCEPT !.zsl = zaddSkiplist(@, e, s, lv), !.zzl = zaddZiplist(@, e, s), !.ref = Added(@, e, s)]

zremCommand(e) ==
  /\ e \in DOMAIN zs.ref
  /\ zs' = [zs EXCEPT !.zsl = dictDelete(zslDelete(@, @.dict[e], e), e), !.zzl = zzlDelete(@, e), !.ref = Without(@, {e})]

zremrangebyscoreCommand(r) ==
  /\ r.by = "score"
  /\ zs' = [zs EXCEPT !.zsl = zslDeleteRangeByScore(@, r), !.zzl = zzlDeleteRangeByScore(@, r),
                      !.ref = Without(@, In(@, r))]

zremrangebylexCommand(r) ==
  /\ r.by = "lex"
  /\ zs' = [zs EXCEPT !.zsl = zslDeleteRangeByLex(@, r), !.zzl = zzlDeleteRangeByLex(@, r),
                      !.ref = Without(@, In(@, r))]

\* start and end as the client gives them: from 0, negative from the end
FromEnd(i, len) == IF i < 0 THEN len + i ELSE i
Sanitized(start, end, len) ==
  LET s == FromEnd(start, len)
      e == FromEnd(end, len)
  IN [start |-> IF s < 0 THEN 0 ELSE s, end |-> IF e >= len THEN len - 1 ELSE e]
NothingIn(w, len) == w.start > w.end \/ w.start >= len
Indices == (- Cardinality(ZElem) - 1)..Cardinality(ZElem)

zremrangebyrankCommand(start, end) ==
  LET w == Sanitized(start, end, zs.zsl.length)
      gone == {Sorted(zs.ref)[i] : i \in (w.start + 1)..(w.end + 1)}
  IN /\ ~ NothingIn(w, zs.zsl.length)
     /\ zs' = [zs EXCEPT !.zsl = zslDeleteRangeByRank(@, w.start + 1, w.end + 1),
                         !.zzl = zzlDeleteRangeByRank(@, w.start + 1, w.end + 1), !.ref = Without(@, gone)]

\* the nodes from n on, by the links of the lowest level or by the backward links
RECURSIVE Walk(_, _, _, _)
Walk(z, n, reverse, left) ==
  IF n = Nil \/ left = 0 THEN <<>> ELSE <<n>> \o Walk(z, IF reverse THEN z.back[n] ELSE z.fwd[n][1], reverse, left - 1)

\* the skip list is built again from the ziplist, and the ziplist from the skip list
zsetConvert(lv) ==
  LET Add(z, p) == [zslInsert(z, p.score, p.ele, lv[p.ele]) EXCEPT !.dict = Added(@, p.ele, p.score)]
      nodes == Walk(zs.zsl, zs.zsl.fwd[Header][1], FALSE, Unbounded)
  IN /\ zs.zzl # <<>>
     /\ zs' = [zs EXCEPT !.zsl = FoldLeft(Add, zslCreate, zs.zzl),
                         !.zzl = [i \in DOMAIN nodes |-> [ele |-> nodes[i], score |-> zs.zsl.score[nodes[i]]]]]

ZsNext ==
  \/ \E e \in ZElem, s \in (IF zs.order = "score" THEN ZScore ELSE {1}), lv \in Levels : zaddCommand(e, s, lv)
  \/ \E e \in ZElem : zremCommand(e)
  \/ \E r \in ZRanges : zremrangebyscoreCommand(r)
  \/ \E r \in ZRanges : zremrangebylexCommand(r)
  \/ \E start, end \in Indices : zremrangebyrankCommand(start, end)
  \/ \E lv \in [ZElem -> Levels] : zsetConvert(lv)

ZsSpec == ZsInit /\ [][ZsNext]_zsVars

-----------------------------------------------------------------------------
(* The queries. *)
Elements(zl) == [i \in DOMAIN zl |-> zl[i].ele]
Taken(s, n) == SubSeq(s, 1, IF n < Len(s) THEN n ELSE Len(s))
From(s, i) == IF i = 0 THEN <<>> ELSE SubSeq(s, i, Len(s))

\* up to the first element that is not in S
RECURSIVE TakeWhile(_, _)
TakeWhile(s, S) == IF s = <<>> \/ Head(s) \notin S THEN <<>> ELSE <<Head(s)>> \o TakeWhile(Tail(s), S)

\* LIMIT: a negative offset runs to the end, a negative limit never runs out
Limited(s, offset, limit) ==
  LET rest == IF offset < 0 THEN <<>> ELSE SubSeq(s, offset + 1, Len(s))
  IN IF limit < 0 THEN rest ELSE Taken(rest, limit)

zrangeSkiplist(z, w, reverse) ==
  LET ln == IF reverse THEN (IF w.start > 0 THEN zslGetElementByRank(z, z.length - w.start) ELSE z.tail)
            ELSE (IF w.start > 0 THEN zslGetElementByRank(z, w.start + 1) ELSE z.fwd[Header][1])
  IN Walk(z, ln, reverse, w.end - w.start + 1)

zrangeZiplist(zl, w, reverse) ==
  Taken(From(IF reverse THEN Reverse(Elements(zl)) ELSE Elements(zl), w.start + 1), w.end - w.start + 1)

zrangebyscoreSkiplist(z, r, reverse, offset, limit) ==
  LET ln == IF reverse THEN zslLastInRange(z, r) ELSE zslFirstInRange(z, r)
  IN TakeWhile(Limited(Walk(z, ln, reverse, Unbounded), offset, limit),
               IF reverse THEN ScoreGte(z.score, r) ELSE ScoreLte(z.score, r))

zrangebylexSkiplist(z, r, reverse, offset, limit) ==
  LET ln == IF reverse THEN zslLastInLexRange(z, r) ELSE zslFirstInLexRange(z, r)
  IN TakeWhile(Limited(Walk(z, ln, reverse, Unbounded), offset, limit),
               IF reverse THEN LexGte(z.score, r) ELSE LexLte(z.score, r))

\* the elements from index i on, or from index i backwards
WalkZiplist(zl, i, reverse) == IF reverse THEN Reverse(SubSeq(Elements(zl), 1, i)) ELSE From(Elements(zl), i)

zrangebyscoreZiplist(zl, r, reverse, offset, limit) ==
  LET eptr == IF reverse THEN zzlLastInRange(zl, r) ELSE zzlFirstInRange(zl, r)
  IN TakeWhile(Limited(WalkZiplist(zl, eptr, reverse), offset, limit),
               IF reverse THEN ScoreGte(ScoreIn(zl), r) ELSE ScoreLte(ScoreIn(zl), r))

zrangebylexZiplist(zl, r, reverse, offset, limit) ==
  LET eptr == IF reverse THEN zzlLastInLexRange(zl, r) ELSE zzlFirstInLexRange(zl, r)
  IN TakeWhile(Limited(WalkZiplist(zl, eptr, reverse), offset, limit),
               IF reverse THEN LexGte(ScoreIn(zl), r) ELSE LexLte(ScoreIn(zl), r))

\* from the ranks of the two ends
Between(z, first, last) ==
  LET from == z.length - (zslGetRank(z, z.score[first], first) - 1)
  IN IF first = Nil THEN 0
     ELSE IF last = Nil THEN from ELSE from - (z.length - zslGetRank(z, z.score[last], last))

zcountSkiplist(z, r) == Between(z, zslFirstInRange(z, r), zslLastInRange(z, r))
zlexcountSkiplist(z, r) == Between(z, zslFirstInLexRange(z, r), zslLastInLexRange(z, r))

zcountZiplist(zl, r) == Len(TakeWhile(From(Elements(zl), zzlFirstInRange(zl, r)), ScoreLte(ScoreIn(zl), r)))
zlexcountZiplist(zl, r) == Len(TakeWhile(From(Elements(zl), zzlFirstInLexRange(zl, r)), LexLte(ScoreIn(zl), r)))

zrankSkiplist(z, e) == IF e \in DOMAIN z.dict THEN zslGetRank(z, z.dict[e], e) ELSE 0

-----------------------------------------------------------------------------
(* What the links, the spans and the back pointers of t_zset.c have to say *)
(* after any operations, deletions of ranges included: every level is the  *)
(* sorted set without some elements, each span is the number of nodes its  *)
(* link jumps, the rank from the header is kept on the last link of a      *)
(* level too, and the hash table has the same scores.                      *)
SkiplistExact ==
  LET z == zs.zsl
      order == Sorted(zs.ref)
      Pos(n) == IF n = Header THEN 0 ELSE IF n = Nil THEN Len(order) ELSE CHOOSE i \in DOMAIN order : order[i] = n
      OnLevel(i) == {Header} \cup {n \in DOMAIN zs.ref : \E m \in DOMAIN zs.ref \cup {Header} : z.fwd[m][i] = n}
  IN /\ z.dict = zs.ref
     /\ \A e \in DOMAIN zs.ref : z.score[e] = zs.ref[e]
     /\ Walk(z, z.fwd[Header][1], FALSE, Unbounded) = order
     /\ Walk(z, z.tail, TRUE, Unbounded) = Reverse(order)
     /\ z.length = Len(order)
     /\ \A i \in 1..z.level : \A n \in OnLevel(i) :
          /\ z.span[n][i] = Pos(z.fwd[n][i]) - Pos(n)
          /\ z.fwd[n][i] # Nil => Pos(n) < Pos(z.fwd[n][i])
     /\ \A i \in Levels : i > z.level => z.fwd[Header][i] = Nil

\* the answer a query has to give, in either direction
Answer(S, reverse) ==
  LET s == SelectSeq(Sorted(zs.ref), LAMBDA e : e \in S) IN IF reverse THEN Reverse(s) ELSE s

(* ZRANGE, ZRANGEBYSCORE, ZRANGEBYLEX, their reverses with a LIMIT,        *)
(* ZCOUNT, ZLEXCOUNT, ZRANK and ZSCORE give the answer the set of elements *)
(* and scores determines, and the same in both encodings.                  *)
QueriesAgree ==
  /\ Elements(zs.zzl) = Sorted(zs.ref) /\ ScoreIn(zs.zzl) = zs.ref
  /\ \A start, end \in Indices, reverse \in BOOLEAN :
       LET w == Sanitized(start, end, Len(zs.zzl))
           a == SubSeq(Answer(DOMAIN zs.ref, reverse), w.start + 1, w.end + 1)
       IN ~ NothingIn(w, Len(zs.zzl)) => /\ zrangeSkiplist(zs.zsl, w, reverse) = a
                                        /\ zrangeZiplist(zs.zzl, w, reverse) = a
  /\ \A r \in ZRanges, reverse \in BOOLEAN, l \in {<<0, -1>>, <<1, 1>>} :
       LET a == Limited(Answer(In(zs.ref, r), reverse), l[1], l[2])
       IN IF r.by = "score"
          THEN /\ zrangebyscoreSkiplist(zs.zsl, r, reverse, l[1], l[2]) = a
               /\ zrangebyscoreZiplist(zs.zzl, r, reverse, l[1], l[2]) = a
          ELSE /\ zrangebylexSkiplist(zs.zsl, r, reverse, l[1], l[2]) = a
               /\ zrangebylexZiplist(zs.zzl, r, reverse, l[1], l[2]) = a
  /\ \A r \in ZRanges :
       LET n == Cardinality(In(zs.ref, r))
       IN IF r.by = "score" THEN zcountSkiplist(zs.zsl, r) = n /\ zcountZiplist(zs.zzl, r) = n
          ELSE zlexcountSkiplist(zs.zsl, r) = n /\ zlexcountZiplist(zs.zzl, r) = n
  /\ \A e \in ZElem : zrankSkiplist(zs.zsl, e) = zzlFind(zs.zzl, e)
=============================================================================
