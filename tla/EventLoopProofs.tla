-------------------------- MODULE EventLoopProofs --------------------------
(***************************************************************************)
(* Proofs about EventLoop, for any descriptors, plans and length of a      *)
(* second.                                                                 *)
(*                                                                         *)
(* That a handler runs for its own connection rests on the agreement of    *)
(* the table of events with what epoll watches and with the connections    *)
(* behind the descriptors, which every operation of ae.c keeps.  That the  *)
(* timer is not late needs an account of the time that has passed and the  *)
(* time that is left, which a clock that is set may exceed once.           *)
(***************************************************************************)
EXTENDS EventLoop, FiniteSetTheorems, WellFoundedInduction, TLAPS

-----------------------------------------------------------------------------
(* Least and greatest descriptors *)

LEMMA LeastOf ==
  ASSUME NEW T \in SUBSET Nat, T # {}
  PROVE  Min(T) \in T /\ \A y \in T : Min(T) <= y
<1> DEFINE Less == OpToRel(<, Nat)
<1>1. IsWellFoundedOn(Less, Nat) /\ \A p \in Nat \X Nat : p[1] < p[2] => p \in Less
  BY NatLessThanWellFounded DEF OpToRel
<1> HIDE DEF Less
<1>2. PICK x \in T : \A y \in T : ~ (<<y, x>> \in Less)
  BY <1>1, WFMin
<1>3. ASSUME NEW y \in T PROVE x <= y
  <2> DEFINE yx == <<y, x>>
  <2>1. x \in Nat /\ y \in Nat /\ yx \notin Less
    BY <1>2
  <2>2. yx \in Nat \X Nat /\ yx[1] = y /\ yx[2] = x
    BY <2>1
  <2> HIDE DEF yx
  <2> QED BY <1>1, <2>1, <2>2
<1> QED BY <1>3 DEF Min

\* What the greatest of a bounded set is, and that there is one.
IsMax(m, T) == m \in T /\ \A y \in T : m >= y

LEMMA GreatestOf ==
  ASSUME NEW n \in Nat, NEW T \in SUBSET (0..n), T # {}
  PROVE  IsMax(Max(T), T)
<1> DEFINE U == {n - i : i \in T}
<1>1. U \in SUBSET Nat /\ U # {}
  <2>1. \A i \in T : n - i \in Nat
    OBVIOUS
  <2> QED BY <2>1
<1>2. Min(U) \in U /\ \A y \in U : Min(U) <= y
  BY <1>1, LeastOf
<1>3. PICK i \in T : Min(U) = n - i
  BY <1>2
<1>4. ASSUME NEW j \in T PROVE i >= j
  <2>1. n - j \in U
    OBVIOUS
  <2>2. n - i <= n - j
    BY <1>2, <1>3, <2>1
  <2>3. j \in Int /\ i \in Int
    OBVIOUS
  <2> QED BY <2>2, <2>3
<1> QED BY <1>4 DEF Max, IsMax

LEMMA MaxIsUnique ==
  ASSUME NEW T \in SUBSET Nat, NEW m, IsMax(m, T)
  PROVE  Max(T) = m
<1>1. IsMax(Max(T), T)
  BY DEF Max, IsMax
<1>2. m \in Nat /\ Max(T) \in Nat /\ m >= Max(T) /\ Max(T) >= m
  BY <1>1 DEF IsMax
<1> QED BY <1>2

Used(events) == {0} \cup {f \in Fd : events[f].mask # {}}

LEMMA FdNat == (\E n \in Nat : Fd = 1..n) /\ 1 \in Fd
<1>1. Cardinality(Fd) \in Nat
  BY LoopAssumption, FS_CardinalityType
<1> QED BY <1>1, LoopAssumption

LEMMA FdPositive == \A f \in Fd : f \in Nat /\ f > 0
  BY FdNat

LEMMA MaxUsed ==
  ASSUME NEW events PROVE IsMax(Max(Used(events)), Used(events)) /\ Used(events) \in SUBSET Nat
<1>1. PICK n \in Nat : Fd = 1..n
  BY FdNat
<1>2. Used(events) \in SUBSET (0..n) /\ Used(events) # {}
  BY <1>1 DEF Used
<1>3. Used(events) \in SUBSET Nat
  BY <1>2
<1> HIDE DEF Used
<1> QED BY <1>2, <1>3, GreatestOf

-----------------------------------------------------------------------------
(* The table, epoll and the connections *)

Mask == SUBSET {"r", "w"}
EventTable == [Fd -> [mask : Mask, data : Nat]]
LoopState == [setsize : Int, maxfd : Nat, pc : {"poll", "read", "write"}, fired : Seq([fd : Fd, mask : Mask]),
              stale : BOOLEAN, events : EventTable, when : Nat, lastTime : Nat]
KernelState == [watched : [Fd -> Mask], conn : [Fd -> Nat], next : Nat \ {0}]
State == [l : LoopState, k : KernelState]

\* What is watched is what is registered, for the connection that has the descriptor; the
\* listening socket is only ever read, and what else is registered has room in the table.
Agree(s) ==
  /\ s \in State
  /\ \A f \in Fd : /\ s.k.watched[f] = s.l.events[f].mask
                   /\ s.l.events[f].mask # {} => s.l.events[f].data = s.k.conn[f] /\ s.k.conn[f] # 0
                   /\ f # 1 /\ s.l.events[f].mask # {} => f <= s.l.setsize
  /\ s.l.maxfd = Max(Used(s.l.events))
  /\ s.l.events[1].mask = {"r"}

\* The loop goes on where it was.
Frame(s, t) == t.l.pc = s.l.pc /\ t.l.fired = s.l.fired /\ t.l.when = s.l.when /\ t.l.lastTime = s.l.lastTime

\* A table in which one entry has changed, and the maxfd that follows from it.
LEMMA MaxAfterAdd ==
  ASSUME NEW events, NEW fd \in Fd, NEW e, NEW after, after = [events EXCEPT ![fd] = e], DOMAIN events = Fd, e.mask # {}
  PROVE  Max(Used(after)) = IF fd > Max(Used(events)) THEN fd ELSE Max(Used(events))
<1>1. IsMax(Max(Used(events)), Used(events)) /\ Used(events) \in SUBSET Nat /\ Used(after) \in SUBSET Nat
  BY MaxUsed
<1>2. Used(after) = Used(events) \cup {fd}
  BY DEF Used
<1> DEFINE M == Max(Used(events))
           m == IF fd > M THEN fd ELSE M
<1> HIDE DEF M
<1>3. IsMax(m, Used(after))
  <2>1. M \in Used(events) /\ M \in Nat /\ fd \in Nat /\ \A y \in Used(events) : y \in Nat /\ M >= y
    BY <1>1, FdPositive DEF IsMax, M
  <2>2. m \in Used(after)
    BY <1>2, <2>1
  <2>3. ASSUME NEW y \in Used(after) PROVE m >= y
    <3>1. CASE y = fd
      BY <2>1, <3>1
    <3>2. CASE y \in Used(events)
      <4>1. y \in Nat /\ M >= y /\ M \in Nat /\ fd \in Nat
        BY <2>1, <3>2
      <4>2. (fd > M => fd >= y) /\ (~ (fd > M) => M >= y)
        BY <4>1
      <4> QED BY <4>2
    <3> QED BY <1>2, <3>1, <3>2
  <2> QED BY <2>2, <2>3 DEF IsMax
<1> HIDE DEF m
<1>4. Max(Used(after)) = m
  BY <1>1, <1>3, MaxIsUnique
<1> QED BY <1>4 DEF m, M

LEMMA MaxAfterDelete ==
  ASSUME NEW events, NEW fd \in Fd, NEW e, NEW after, after = [events EXCEPT ![fd] = e], DOMAIN events = Fd, events[fd].mask # {}
  PROVE  MaxfdAfterDelete(after, Max(Used(events)), fd) = Max(Used(after))
<1>1. IsMax(Max(Used(events)), Used(events)) /\ Used(events) \in SUBSET Nat
  BY MaxUsed
<1>2. IsMax(Max(Used(after)), Used(after)) /\ Used(after) \in SUBSET Nat
  BY MaxUsed
<1>3. \A f \in Fd \ {fd} : after[f] = events[f]
  OBVIOUS
<1>4. CASE e.mask # {}
  <2>1. Used(after) = Used(events)
    BY <1>3, <1>4 DEF Used
  <2>2. after[fd].mask # {}
    BY <1>4
  <2> QED BY <2>1, <2>2 DEF MaxfdAfterDelete
<1>5. CASE e.mask = {} /\ fd = Max(Used(events))
  <2>1. after[fd].mask = {}
    BY <1>5
  <2>2. ASSUME NEW f \in Fd PROVE f < fd \/ f = fd \/ after[f].mask = {}
    <3>1. f \in Used(events) => fd >= f
      BY <1>1, <1>5 DEF IsMax
    <3>2. f \in Nat /\ fd \in Nat
      BY FdPositive
    <3> QED BY <1>3, <3>1, <3>2 DEF Used
  <2>3. {0} \cup {f \in Fd : f < fd /\ after[f].mask # {}} = Used(after)
    BY <2>1, <2>2 DEF Used
  <2> QED BY <1>5, <2>1, <2>3 DEF MaxfdAfterDelete
<1>6. CASE e.mask = {} /\ fd # Max(Used(events))
  <2>1. Used(after) = Used(events) \ {fd}
    BY <1>3, <1>6, FdPositive DEF Used
  <2>2. IsMax(Max(Used(events)), Used(after))
    BY <1>1, <1>6, <2>1 DEF IsMax
  <2>3. Max(Used(after)) = Max(Used(events))
    BY <1>2, <2>2, MaxIsUnique
  <2> QED BY <1>6, <2>3 DEF MaxfdAfterDelete
<1> QED BY <1>4, <1>5, <1>6

LEMMA LoopSize == ASSUME NEW s, Agree(s) PROVE s.l.setsize \in Int
  BY DEF Agree, State, LoopState

LEMMA CreateAgrees ==
  ASSUME NEW s, Agree(s), NEW fd \in Fd \ {1}, NEW mask \in Mask \ {{}}, NEW data, data = s.k.conn[fd], data # 0,
         NEW t, t = aeCreateFileEvent(s, fd, mask, data)
  PROVE  /\ t.ok \in BOOLEAN /\ Agree([l |-> t.l, k |-> t.k]) /\ Frame(s, t) /\ t.k.conn = s.k.conn /\ t.k.next = s.k.next
         /\ ~ t.ok => t.l = s.l /\ t.k = s.k
<1> DEFINE old == s.l.events[fd].mask
           new == [mask |-> old \cup mask, data |-> data]
           events == [s.l.events EXCEPT ![fd] = new]
           watched == [s.k.watched EXCEPT ![fd] = old \cup mask]
           maxfd == IF fd > s.l.maxfd THEN fd ELSE s.l.maxfd
           l == [s.l EXCEPT !.events = events, !.maxfd = maxfd]
           k == [s.k EXCEPT !.watched = watched]
           op == IF old = {} THEN "add" ELSE "mod"
           ctl == epoll_ctl(s.k, op, fd, old \cup mask)
<1>1. s.l \in LoopState /\ s.k \in KernelState /\ s.l.events \in EventTable /\ s.k.watched \in [Fd -> Mask]
      /\ s.l.maxfd \in Nat /\ fd \in Nat /\ s.k.watched[fd] = old /\ old \in Mask /\ data \in Nat
  BY FdNat DEF Agree, State, LoopState, KernelState, EventTable
<1>2. ctl = [ok |-> TRUE, k |-> k]
  BY <1>1 DEF epoll_ctl
<1>3. CASE fd > s.l.setsize
  <2>1. t = [ok |-> FALSE, l |-> s.l, k |-> s.k]
    BY <1>3 DEF aeCreateFileEvent
  <2>2. [l |-> t.l, k |-> t.k] = s
    BY <2>1 DEF Agree, State
  <2> QED BY <2>1, <2>2 DEF Frame
<1>4. CASE ~ (fd > s.l.setsize)
  <2>1. t = [ok |-> TRUE, k |-> k, l |-> l]
    <3>1. l = [s.l EXCEPT !.events[fd] = new, !.maxfd = IF fd > @ THEN fd ELSE @]
      BY <1>1 DEF LoopState
    <3> HIDE DEF l, k
    <3>2. ctl.ok /\ ctl.k = k
      BY <1>2
    <3> HIDE DEF ctl
    <3> QED BY <1>4, <3>1, <3>2 DEF aeCreateFileEvent, ctl
  <2>2. old \cup mask \in Mask /\ old \cup mask # {} /\ new \in [mask : Mask, data : Nat] /\ new.mask = old \cup mask /\ new.data = data
    BY <1>1 DEF Mask
  <2> HIDE DEF new, old
  <2>3. /\ events \in EventTable /\ events[fd] = new /\ \A f \in Fd \ {fd} : events[f] = s.l.events[f]
        /\ watched \in [Fd -> Mask] /\ watched[fd] = old \cup mask /\ \A f \in Fd \ {fd} : watched[f] = s.k.watched[f]
    BY <1>1, <2>2 DEF EventTable
  <2>4. Max(Used(events)) = maxfd /\ maxfd \in Nat
    BY <1>1, <2>2, MaxAfterAdd DEF Agree, EventTable
  <2> HIDE DEF events, watched, maxfd
  <2>5. /\ l \in LoopState /\ k \in KernelState /\ l.events = events /\ l.maxfd = maxfd /\ k.watched = watched
        /\ l.setsize = s.l.setsize /\ l.pc = s.l.pc /\ l.fired = s.l.fired /\ l.when = s.l.when /\ l.lastTime = s.l.lastTime
        /\ k.conn = s.k.conn /\ k.next = s.k.next
    BY <1>1, <2>3, <2>4 DEF LoopState, KernelState
  <2> HIDE DEF l, k
  <2>6. 1 \in Fd \ {fd}
    BY FdNat
  <2>7. Agree([l |-> l, k |-> k])
    <3> DEFINE u == [l |-> l, k |-> k]
    <3>1. u \in State /\ u.l = l /\ u.k = k
      BY <2>5 DEF State
    <3> HIDE DEF u
    <3>2. ASSUME NEW f \in Fd
          PROVE  /\ u.k.watched[f] = u.l.events[f].mask
                 /\ u.l.events[f].mask # {} => u.l.events[f].data = u.k.conn[f] /\ u.k.conn[f] # 0
                 /\ f # 1 /\ u.l.events[f].mask # {} => f <= u.l.setsize
      <4>1. CASE f = fd
        <5>1. fd <= s.l.setsize
          BY <1>1, <1>4, LoopSize DEF Agree
        <5> QED BY <2>2, <2>3, <2>5, <3>1, <4>1, <5>1
      <4>2. CASE f # fd
        BY <2>3, <2>5, <3>1, <4>2 DEF Agree
      <4> QED BY <4>1, <4>2
    <3>3. u.l.maxfd = Max(Used(u.l.events))
      BY <2>4, <2>5, <3>1
    <3>4. u.l.events[1].mask = {"r"}
      BY <2>3, <2>5, <2>6, <3>1 DEF Agree
    <3>5. Agree(u)
      BY <3>1, <3>2, <3>3, <3>4 DEF Agree
    <3> QED BY <3>5 DEF u
  <2> QED BY <2>1, <2>5, <2>7 DEF Frame
<1> QED BY <1>3, <1>4

LEMMA DeleteAgrees ==
  ASSUME NEW s, Agree(s), NEW fd \in Fd \ {1}, NEW mask \in Mask, NEW t, t = aeDeleteFileEvent(s, fd, mask)
  PROVE  /\ Agree(t) /\ Frame(s, t) /\ t.k.conn = s.k.conn /\ t.k.next = s.k.next
         /\ t.l.events[fd].mask = s.l.events[fd].mask \ mask
<1> DEFINE old == s.l.events[fd].mask
           new == [s.l.events[fd] EXCEPT !.mask = old \ mask]
           events == [s.l.events EXCEPT ![fd] = new]
           watched == [s.k.watched EXCEPT ![fd] = old \ mask]
           maxfd == MaxfdAfterDelete(events, s.l.maxfd, fd)
           l == [s.l EXCEPT !.events = events, !.maxfd = maxfd]
           k == [s.k EXCEPT !.watched = watched]
<1>1. /\ s \in State /\ s.l \in LoopState /\ s.k \in KernelState /\ s.l.events \in EventTable /\ s.k.watched \in [Fd -> Mask]
      /\ s.l.maxfd \in Nat /\ fd \in Nat /\ old \in Mask /\ s.l.events[fd] \in [mask : Mask, data : Nat]
  BY FdPositive DEF Agree, State, LoopState, KernelState, EventTable
<1>2. CASE fd > s.l.setsize \/ old = {}
  <2>1. t = s
    BY <1>2 DEF aeDeleteFileEvent
  <2>2. old = {}
    BY <1>1, <1>2, LoopSize DEF Agree
  <2> QED BY <2>1, <2>2 DEF Frame
<1>3. CASE ~ (fd > s.l.setsize \/ old = {})
  <2>1. old \ mask \in Mask /\ new \in [mask : Mask, data : Nat] /\ new.mask = old \ mask /\ new.data = s.l.events[fd].data
    BY <1>1 DEF Mask
  <2>2. events = [s.l.events EXCEPT ![fd].mask = @ \ mask] /\ events[fd].mask = old \ mask
    BY <1>1 DEF EventTable
  <2>3. t = [s EXCEPT !.l = l, !.k = k]
    <3>1. t = [s EXCEPT !.l = [s.l EXCEPT !.events = events, !.maxfd = MaxfdAfterDelete(events, @, fd)],
                        !.k.watched[fd] = events[fd].mask]
      BY <1>3, <2>2 DEF aeDeleteFileEvent
    <3> HIDE DEF events
    <3>2. l = [s.l EXCEPT !.events = events, !.maxfd = MaxfdAfterDelete(events, @, fd)]
      BY <1>1 DEF LoopState
    <3>3. k = [s.k EXCEPT !.watched[fd] = events[fd].mask]
      BY <2>2
    <3> HIDE DEF l, k
    <3> QED BY <1>1, <3>1, <3>2, <3>3 DEF State
  <2> HIDE DEF new
  <2>4. /\ events \in EventTable /\ events[fd] = new /\ \A f \in Fd \ {fd} : events[f] = s.l.events[f]
        /\ watched \in [Fd -> Mask] /\ watched[fd] = old \ mask /\ \A f \in Fd \ {fd} : watched[f] = s.k.watched[f]
    BY <1>1, <2>1 DEF EventTable
  <2>5. maxfd = Max(Used(events)) /\ maxfd \in Nat
    <3>1. maxfd = Max(Used(events))
      <4>1. DOMAIN s.l.events = Fd /\ s.l.events[fd].mask # {} /\ s.l.maxfd = Max(Used(s.l.events))
        BY <1>1, <1>3 DEF Agree, EventTable, old
      <4>2. events = [s.l.events EXCEPT ![fd] = new]
        OBVIOUS
      <4> HIDE DEF events, new
      <4> QED BY <4>1, <4>2, MaxAfterDelete
    <3> QED BY <3>1, MaxUsed DEF IsMax
  <2> HIDE DEF old, events, watched, maxfd
  <2>6. /\ l \in LoopState /\ k \in KernelState /\ l.events = events /\ l.maxfd = maxfd /\ k.watched = watched
        /\ l.setsize = s.l.setsize /\ l.pc = s.l.pc /\ l.fired = s.l.fired /\ l.when = s.l.when /\ l.lastTime = s.l.lastTime
        /\ k.conn = s.k.conn /\ k.next = s.k.next
    BY <1>1, <2>4, <2>5 DEF LoopState, KernelState
  <2> HIDE DEF l, k
  <2>7. t \in State /\ t.l = l /\ t.k = k
    BY <1>1, <2>3, <2>6 DEF State
  <2>8. 1 \in Fd \ {fd}
    BY FdNat
  <2>9. ASSUME NEW f \in Fd
        PROVE  /\ t.k.watched[f] = t.l.events[f].mask
               /\ t.l.events[f].mask # {} => t.l.events[f].data = t.k.conn[f] /\ t.k.conn[f] # 0
               /\ f # 1 /\ t.l.events[f].mask # {} => f <= t.l.setsize
    <3>1. CASE f = fd
      BY <2>1, <2>4, <2>6, <2>7, <3>1 DEF Agree, old
    <3>2. CASE f # fd
      BY <2>4, <2>6, <2>7, <3>2 DEF Agree
    <3> QED BY <3>1, <3>2
  <2>10. t.l.maxfd = Max(Used(t.l.events)) /\ t.l.events[1].mask = {"r"}
    BY <2>4, <2>5, <2>6, <2>7, <2>8 DEF Agree
  <2>11. Agree(t)
    BY <2>7, <2>9, <2>10 DEF Agree
  <2>12. t.l.events[fd].mask = s.l.events[fd].mask \ mask
    BY <2>1, <2>4, <2>6, <2>7 DEF old
  <2> QED BY <2>6, <2>7, <2>11, <2>12 DEF Frame
<1> QED BY <1>2, <1>3

LEMMA FreeAgrees ==
  ASSUME NEW s, Agree(s), NEW fd \in Fd \ {1}, NEW u, u = freeConn(s, fd)
  PROVE  Agree(u) /\ Frame(s, u)
<1> DEFINE r == aeDeleteFileEvent(s, fd, {"r"})
           t == aeDeleteFileEvent(r, fd, {"w"})
<1>1. {"r"} \in Mask /\ {"w"} \in Mask
  BY DEF Mask
<1>2. Agree(r) /\ Frame(s, r) /\ r.l.events[fd].mask = s.l.events[fd].mask \ {"r"}
  BY <1>1, DeleteAgrees
<1> HIDE DEF r
<1>3. Agree(t) /\ Frame(r, t) /\ t.l.events[fd].mask = r.l.events[fd].mask \ {"w"}
  BY <1>1, <1>2, DeleteAgrees
<1>4. u = [t EXCEPT !.k.watched[fd] = {}, !.k.conn[fd] = 0]
  BY DEF freeConn, r
<1> HIDE DEF t
<1>5. s.l.events[fd].mask \in Mask
  BY DEF Agree, State, LoopState, EventTable
<1>6. t.l.events[fd].mask = {}
  BY <1>2, <1>3, <1>5 DEF Mask
<1> DEFINE watched == [t.k.watched EXCEPT ![fd] = {}]
           conn == [t.k.conn EXCEPT ![fd] = 0]
           k == [t.k EXCEPT !.watched = watched, !.conn = conn]
<1>7. t \in State /\ t.l \in LoopState /\ t.k \in KernelState /\ t.k.watched \in [Fd -> Mask] /\ t.k.conn \in [Fd -> Nat] /\ {} \in Mask
  BY <1>3 DEF Agree, State, KernelState, Mask
<1>8. u = [t EXCEPT !.k = k]
  BY <1>4, <1>7 DEF State, KernelState
<1>9. /\ watched \in [Fd -> Mask] /\ watched[fd] = {} /\ \A f \in Fd \ {fd} : watched[f] = t.k.watched[f]
      /\ conn \in [Fd -> Nat] /\ conn[fd] = 0 /\ \A f \in Fd \ {fd} : conn[f] = t.k.conn[f]
  BY <1>7
<1> HIDE DEF watched, conn
<1>10. k \in KernelState /\ k.watched = watched /\ k.conn = conn
  BY <1>7, <1>9 DEF KernelState
<1> HIDE DEF k
<1>11. u \in State /\ u.l = t.l /\ u.k = k
  BY <1>7, <1>8, <1>10 DEF State
<1>12. ASSUME NEW f \in Fd
       PROVE  /\ u.k.watched[f] = u.l.events[f].mask
              /\ u.l.events[f].mask # {} => u.l.events[f].data = u.k.conn[f] /\ u.k.conn[f] # 0
              /\ f # 1 /\ u.l.events[f].mask # {} => f <= u.l.setsize
  <2>1. CASE f = fd
    BY <1>6, <1>9, <1>10, <1>11, <2>1
  <2>2. CASE f # fd
    BY <1>3, <1>9, <1>10, <1>11, <2>2 DEF Agree
  <2> QED BY <2>1, <2>2
<1>13. u.l.maxfd = Max(Used(u.l.events)) /\ u.l.events[1].mask = {"r"}
  BY <1>3, <1>11 DEF Agree
<1>14. Agree(u)
  BY <1>11, <1>12, <1>13 DEF Agree
<1> QED BY <1>2, <1>3, <1>11, <1>14 DEF Frame

LEMMA ResizeAgrees ==
  ASSUME NEW s, Agree(s), NEW t, t = aeResizeSetSize(s)
  PROVE  Agree(t) /\ Frame(s, t)
<1>1. s \in State /\ s.l \in LoopState /\ s.l.setsize \in Int
  BY LoopSize DEF Agree, State
<1> DEFINE size == s.l.setsize + 1
           l == [s.l EXCEPT !.setsize = size, !.stale = TRUE]
<1>2. size \in Int /\ size > s.l.setsize
  BY <1>1
<1>3. l = [s.l EXCEPT !.setsize = @ + 1, !.stale = TRUE]
  BY <1>1 DEF LoopState
<1>4. t = [s EXCEPT !.l = l]
  BY <1>1 DEF aeResizeSetSize, State, LoopState
<1> HIDE DEF size
<1>5. l \in LoopState /\ l.setsize = size /\ l.pc = s.l.pc /\ l.fired = s.l.fired /\ l.when = s.l.when
      /\ l.lastTime = s.l.lastTime /\ l.events = s.l.events /\ l.maxfd = s.l.maxfd
  BY <1>1, <1>2 DEF LoopState
<1> HIDE DEF l
<1>6. t \in State /\ t.l = l /\ t.k = s.k
  BY <1>1, <1>4, <1>5 DEF State
<1>7. ASSUME NEW f \in Fd, f <= s.l.setsize PROVE f <= size
  BY <1>1, <1>2, <1>7, FdPositive
<1>8. Agree(t)
  BY <1>5, <1>6, <1>7 DEF Agree
<1> QED BY <1>5, <1>6, <1>8 DEF Frame

\* A descriptor that is free is not registered.
LEMMA AcceptAgrees ==
  ASSUME NEW s, Agree(s), \E f \in Fd : s.k.conn[f] = 0, NEW t, t = Accepted(s)
  PROVE  Agree(t) /\ Frame(s, t)
<1> DEFINE free == {f \in Fd : s.k.conn[f] = 0}
           fd == Min(free)
           n == s.k.next
           conn == [s.k.conn EXCEPT ![fd] = n]
           more == n + 1
           k == [s.k EXCEPT !.conn = conn, !.next = more]
           u == [s EXCEPT !.k = k]
           c == aeCreateFileEvent(u, fd, {"r"}, n)
           kf == [s.k EXCEPT !.next = more]
<1>1. /\ s \in State /\ s.l \in LoopState /\ s.k \in KernelState /\ s.k.conn \in [Fd -> Nat] /\ n \in Nat \ {0} /\ more \in Nat \ {0}
      /\ s.l.events[1].mask = {"r"}
  BY DEF Agree, State, KernelState
<1>2. fd \in Fd /\ s.k.conn[fd] = 0
  <2>1. free \in SUBSET Nat /\ free # {}
    BY FdPositive
  <2> HIDE DEF free
  <2>2. fd \in free
    BY <2>1, LeastOf
  <2> QED BY <2>2 DEF free
<1>3. fd # 1 /\ s.l.events[fd].mask = {}
  BY <1>1, <1>2, FdNat DEF Agree
<1>4. u = [s EXCEPT !.k.conn[fd] = n, !.k.next = @ + 1]
  BY <1>1 DEF State, KernelState
<1>5. t = IF c.ok THEN [l |-> c.l, k |-> c.k] ELSE [l |-> s.l, k |-> kf]
  BY <1>4 DEF Accepted
<1> HIDE DEF fd, more, n
<1>6. conn \in [Fd -> Nat] /\ conn[fd] = n /\ \A f \in Fd \ {fd} : conn[f] = s.k.conn[f]
  BY <1>1, <1>2
<1> HIDE DEF conn
<1>7. k \in KernelState /\ k.conn = conn /\ k.watched = s.k.watched /\ k.next = more
  BY <1>1, <1>6 DEF KernelState
<1> HIDE DEF k
<1>8. u \in State /\ u.l = s.l /\ u.k = k
  BY <1>1, <1>7 DEF State
<1> HIDE DEF u
<1>9. ASSUME NEW f \in Fd
      PROVE  /\ u.k.watched[f] = u.l.events[f].mask
             /\ u.l.events[f].mask # {} => u.l.events[f].data = u.k.conn[f] /\ u.k.conn[f] # 0
             /\ f # 1 /\ u.l.events[f].mask # {} => f <= u.l.setsize
  <2>1. CASE f = fd
    BY <1>3, <1>7, <1>8, <2>1 DEF Agree
  <2>2. CASE f # fd
    BY <1>6, <1>7, <1>8, <2>2 DEF Agree
  <2> QED BY <2>1, <2>2
<1>10. Agree(u)
  BY <1>8, <1>9 DEF Agree
<1>11. fd \in Fd \ {1} /\ {"r"} \in Mask \ {{}} /\ u.k.conn[fd] = n /\ n # 0
  BY <1>1, <1>2, <1>3, <1>6, <1>7, <1>8 DEF Mask
<1>12. Agree([l |-> c.l, k |-> c.k]) /\ Frame(u, c) /\ c.ok \in BOOLEAN
  BY <1>10, <1>11, CreateAgrees
<1>13. CASE c.ok
  BY <1>5, <1>8, <1>12, <1>13 DEF Frame
<1>14. CASE ~ c.ok
  <2>1. kf \in KernelState /\ kf.conn = s.k.conn /\ kf.watched = s.k.watched
    BY <1>1 DEF KernelState
  <2> HIDE DEF kf, c
  <2>2. t = [l |-> s.l, k |-> kf]
    BY <1>5, <1>14
  <2>3. t \in State /\ t.l = s.l /\ t.k = kf
    BY <1>1, <2>1, <2>2 DEF State
  <2>4. Agree(t)
    BY <2>1, <2>3 DEF Agree
  <2> QED BY <2>3, <2>4 DEF Frame
<1> QED BY <1>13, <1>14

LEMMA ReadKeeps ==
  ASSUME NEW s, Agree(s), NEW fd \in Fd \ {1}, s.l.events[fd].mask # {}, NEW t \in AfterRead(s, fd)
  PROVE  Agree(t) /\ Frame(s, t)
<1> DEFINE answer == aeCreateFileEvent(s, fd, {"w"}, s.k.conn[fd])
<1>1. s.k.conn[fd] # 0 /\ {"w"} \in Mask \ {{}}
  BY DEF Agree, Mask
<1>2. Agree([l |-> answer.l, k |-> answer.k]) /\ Frame(s, answer)
  BY <1>1, CreateAgrees
<1>3. t = [l |-> answer.l, k |-> answer.k] => Agree(t) /\ Frame(s, t)
  BY <1>2 DEF Frame
<1>4. t = s => Agree(t) /\ Frame(s, t)
  BY DEF Frame
<1>5. ASSUME NEW f \in Fd \ {1}, t = freeConn(s, f) PROVE Agree(t) /\ Frame(s, t)
  BY <1>5, FreeAgrees
<1>6. t = aeResizeSetSize(s) => Agree(t) /\ Frame(s, t)
  BY ResizeAgrees
<1>7. \/ t = s \/ t = [l |-> answer.l, k |-> answer.k] \/ t = aeResizeSetSize(s)
      \/ \E f \in Fd \ {1} : t = freeConn(s, f)
  BY DEF AfterRead
<1> QED BY <1>3, <1>4, <1>5, <1>6, <1>7

LEMMA WriteKeeps ==
  ASSUME NEW s, Agree(s), NEW fd \in Fd \ {1}, NEW t \in AfterWrite(s, fd)
  PROVE  Agree(t) /\ Frame(s, t)
<1>1. {"w"} \in Mask
  BY DEF Mask
<1>2. t = s => Agree(t) /\ Frame(s, t)
  BY DEF Frame
<1>3. t = aeDeleteFileEvent(s, fd, {"w"}) => Agree(t) /\ Frame(s, t)
  BY <1>1, DeleteAgrees
<1>4. t = freeConn(s, fd) => Agree(t) /\ Frame(s, t)
  BY FreeAgrees
<1> QED BY <1>2, <1>3, <1>4 DEF AfterWrite

-----------------------------------------------------------------------------
(* The right handlers *)

Handled ==
  /\ Agree(S) /\ loopPlan \in LoopPlan
  /\ wall \in [now : Nat, late : Nat, set : Nat]
  /\ loop.pc = "write" => loop.fired # << >>
  /\ \A c \in called : c[1] = c[2]

LEMMA HandledInit == LoopInit => Handled
<1> SUFFICES ASSUME LoopInit PROVE Handled
  OBVIOUS
<1> DEFINE size == Cardinality(Fd) - 1
           events == [f \in Fd |-> IF f = 1 THEN [mask |-> {"r"}, data |-> 1] ELSE None]
           watched == [f \in Fd |-> IF f = 1 THEN {"r"} ELSE {}]
           conn == [f \in Fd |-> IF f = 1 THEN 1 ELSE 0]
           poll == "poll"
           one == 1
           two == 2
           zero == 0
<1>1. size \in Int /\ 1 \in Fd
  BY LoopAssumption, FS_CardinalityType
<1>2. events \in EventTable /\ events[1].mask = {"r"} /\ events[1].data = 1 /\ \A f \in Fd \ {1} : events[f].mask = {}
  BY <1>1 DEF EventTable, Mask, None
<1>3. watched \in [Fd -> Mask] /\ watched[1] = {"r"} /\ \A f \in Fd \ {1} : watched[f] = {}
  BY <1>1 DEF Mask
<1>4. conn \in [Fd -> Nat] /\ conn[1] = 1
  BY <1>1
<1>5. one = Max(Used(events))
  <2>1. Used(events) = {0, 1}
    BY <1>1, <1>2 DEF Used
  <2>2. IsMax(1, Used(events)) /\ Used(events) \in SUBSET Nat
    BY <2>1 DEF IsMax
  <2> QED BY <2>2, MaxIsUnique
<1>6. << >> \in Seq([fd : Fd, mask : Mask]) /\ one \in Nat /\ two \in Nat \ {0} /\ zero \in Nat /\ poll \in {"poll", "read", "write"}
  OBVIOUS
<1>7. loop = [setsize |-> size, maxfd |-> one, pc |-> poll, fired |-> << >>, stale |-> FALSE, events |-> events,
              when |-> one, lastTime |-> zero]
      /\ kernel = [watched |-> watched, conn |-> conn, next |-> two] /\ wall = [now |-> zero, late |-> zero, set |-> zero]
      /\ called = {} /\ loopPlan \in LoopPlan /\ loop.pc = "poll"
  BY DEF LoopInit
<1> HIDE DEF size, events, watched, conn, one, two, zero, poll
<1>8. /\ loop \in LoopState /\ kernel \in KernelState /\ loop.events = events /\ kernel.watched = watched /\ kernel.conn = conn
      /\ loop.maxfd = one
  BY <1>1, <1>2, <1>3, <1>4, <1>6, <1>7 DEF LoopState, KernelState
<1>9. S \in State /\ S.l = loop /\ S.k = kernel
  BY <1>8 DEF S, State
<1>10. Agree(S)
  <2>1. ASSUME NEW f \in Fd
        PROVE  /\ watched[f] = events[f].mask
               /\ events[f].mask # {} => events[f].data = conn[f] /\ conn[f] # 0
               /\ f # 1 /\ events[f].mask # {} => f <= loop.setsize
    <3>1. CASE f = 1
      BY <1>2, <1>3, <1>4, <3>1
    <3>2. CASE f # 1
      BY <1>2, <1>3, <3>2
    <3> QED BY <3>1, <3>2
  <2> QED BY <1>2, <1>5, <1>8, <1>9, <2>1 DEF Agree
<1>11. wall \in [now : Nat, late : Nat, set : Nat]
  BY <1>6, <1>7
<1> QED BY <1>7, <1>10, <1>11 DEF Handled

\* S itself.
LEMMA StateOf == S.l = loop /\ S.k = kernel /\ (Agree(S) => loop \in LoopState /\ kernel \in KernelState)
  BY DEF S, Agree, State

LEMMA Succeeds ==
  ASSUME NEW t, Agree(t), Becomes(t) PROVE S' = t /\ loop' = t.l /\ kernel' = t.k
<1>1. t = [l |-> t.l, k |-> t.k]
  BY DEF Agree, State
<1> QED BY <1>1 DEF S, Becomes

\* Nothing but the progress of the loop changes.
LEMMA SameTable ==
  ASSUME NEW s, Agree(s), NEW t \in State, t.k = s.k, t.l.events = s.l.events, t.l.maxfd = s.l.maxfd, t.l.setsize = s.l.setsize
  PROVE  Agree(t)
  BY DEF Agree

LEMMA WritingAgrees ==
  ASSUME NEW s, Agree(s), NEW t, t = [s EXCEPT !.l.pc = "write"]
  PROVE  /\ Agree(t) /\ t.l.pc = "write" /\ t.l.fired = s.l.fired /\ t.l.when = s.l.when /\ t.l.lastTime = s.l.lastTime
         /\ t.l.events = s.l.events /\ t.k = s.k
<1> DEFINE l == [s.l EXCEPT !.pc = "write"]
<1>1. s \in State /\ s.l \in LoopState /\ s.k \in KernelState /\ t = [s EXCEPT !.l = l]
  BY DEF Agree, State
<1>2. l \in LoopState /\ l.pc = "write" /\ l.fired = s.l.fired /\ l.when = s.l.when /\ l.lastTime = s.l.lastTime
      /\ l.events = s.l.events /\ l.maxfd = s.l.maxfd /\ l.setsize = s.l.setsize
  BY <1>1 DEF LoopState
<1> HIDE DEF l
<1>3. t \in State /\ t.l = l /\ t.k = s.k
  BY <1>1, <1>2 DEF State
<1> QED BY <1>2, <1>3, SameTable

LEMMA NextFiredAgrees ==
  ASSUME NEW s, Agree(s), s.l.fired # << >>, NEW t, t = NextFired(s)
  PROVE  Agree(t) /\ t.l.pc = "read" /\ t.l.when = s.l.when /\ t.l.lastTime = s.l.lastTime
         /\ t.l.events = s.l.events /\ t.k = s.k
<1> DEFINE rest == Tail(s.l.fired)
           l == [s.l EXCEPT !.fired = rest, !.pc = "read", !.stale = FALSE]
<1>1. s \in State /\ s.l \in LoopState /\ s.k \in KernelState /\ s.l.fired \in Seq([fd : Fd, mask : Mask])
  BY DEF Agree, State, LoopState
<1>2. l = [s.l EXCEPT !.fired = Tail(@), !.pc = "read", !.stale = FALSE]
  BY <1>1 DEF LoopState
<1>3. t = [s EXCEPT !.l = l]
  BY <1>1 DEF NextFired, State, LoopState
<1>4. rest \in Seq([fd : Fd, mask : Mask])
  BY <1>1
<1> HIDE DEF rest
<1>5. l \in LoopState /\ l.pc = "read" /\ l.when = s.l.when /\ l.lastTime = s.l.lastTime
      /\ l.events = s.l.events /\ l.maxfd = s.l.maxfd /\ l.setsize = s.l.setsize
  BY <1>1, <1>4 DEF LoopState
<1> HIDE DEF l
<1>6. t \in State /\ t.l = l /\ t.k = s.k
  BY <1>1, <1>3, <1>5 DEF State
<1> QED BY <1>5, <1>6, SameTable

LEMMA HeadIn == ASSUME NEW E, NEW q \in Seq(E), q # << >> PROVE Head(q) \in E /\ Tail(q) \in Seq(E)
<1>1. Len(q) > 0
  OBVIOUS
<1> QED BY <1>1

\* What the head of a batch is.
LEMMA FiredHead ==
  ASSUME Agree(S), loop.fired # << >> PROVE Head(loop.fired) \in [fd : Fd, mask : Mask]
<1>1. loop.fired \in Seq([fd : Fd, mask : Mask])
  BY StateOf DEF LoopState
<1> QED BY <1>1, HeadIn

\* A registered event is for the connection that has the descriptor.
LEMMA CallOwner ==
  ASSUME Agree(S), NEW fd \in Fd, loop.events[fd].mask # {}, Call(fd)
  PROVE  \A c \in called' : c[1] = c[2]
<1>1. loop.events[fd].data = kernel.conn[fd]
  BY StateOf DEF Agree
<1> DEFINE d == loop.events[fd].data
           c == <<d, kernel.conn[fd]>>
<1>2. called' = {c}
  BY DEF Call
<1>3. c[1] = c[2]
  BY <1>1
<1> HIDE DEF c
<1> QED BY <1>2, <1>3

\* What a step leaves of the timer.
TimerKept == loop'.when = loop.when /\ loop'.lastTime = loop.lastTime /\ wall' = wall

LEMMA Elapsed == ASSUME NEW n, NEW i \in 0..n PROVE i \in Nat
  OBVIOUS

LEMMA PollHandled == ASSUME Handled, aeApiPoll PROVE Handled' /\ loop'.pc = "read"
<1>1. /\ loop \in LoopState /\ kernel \in KernelState /\ Agree(S) /\ S.l = loop /\ S.k = kernel
      /\ wall \in [now : Nat, late : Nat, set : Nat] /\ loop.when \in Nat
  BY StateOf DEF Handled, LoopState
<1>2. PICK slept \in 0..PollTimeout, ready \in SUBSET {e \in Fd \X {"r", "w"} : e[2] \in kernel.watched[e[1]]} :
        /\ wall' = [wall EXCEPT !.now = @ + slept, !.late = @ + slept]
        /\ \E order \in SetToSeqs({r[1] : r \in ready}) :
             loop' = [loop EXCEPT !.pc = "read", !.fired = [i \in DOMAIN order |->
                          [fd |-> order[i], mask |-> {r[2] : r \in {q \in ready : q[1] = order[i]}}]]]
  BY DEF aeApiPoll
<1>3. PICK order \in SetToSeqs({r[1] : r \in ready}) :
        loop' = [loop EXCEPT !.pc = "read", !.fired = [i \in DOMAIN order |->
                          [fd |-> order[i], mask |-> {r[2] : r \in {q \in ready : q[1] = order[i]}}]]]
  BY <1>2
<1> DEFINE T == {r[1] : r \in ready}
           fired == [i \in DOMAIN order |-> [fd |-> order[i], mask |-> {r[2] : r \in {q \in ready : q[1] = order[i]}}]]
<1>4. T \in SUBSET Fd /\ ready \in SUBSET (Fd \X {"r", "w"})
  OBVIOUS
<1>5. Cardinality(T) \in Nat
  BY <1>4, LoopAssumption, FS_Subset, FS_CardinalityType
<1>6. order \in [1..Cardinality(T) -> T]
  BY <1>3 DEF SetToSeqs
<1> HIDE DEF T
<1>7. fired \in Seq([fd : Fd, mask : Mask])
  <2> DEFINE m(i) == {r[2] : r \in {q \in ready : q[1] = order[i]}}
             entry(i) == [fd |-> order[i], mask |-> m(i)]
  <2>1. \A i \in 1..Cardinality(T) : order[i] \in Fd /\ m(i) \in Mask
    <3>1. \A r \in ready : r[2] \in {"r", "w"}
      BY <1>4
    <3>2. \A i \in 1..Cardinality(T) : m(i) \in Mask
      BY <3>1 DEF Mask
    <3> HIDE DEF m
    <3> QED BY <1>4, <1>6, <3>2
  <2>2. fired = [i \in 1..Cardinality(T) |-> entry(i)]
    BY <1>6
  <2> HIDE DEF fired, m
  <2>3. \A i \in 1..Cardinality(T) : entry(i) \in [fd : Fd, mask : Mask]
    BY <2>1
  <2> DEFINE R == [fd : Fd, mask : Mask]
             n == Cardinality(T)
  <2> HIDE DEF entry, R, n
  <2>4. fired \in [1..n -> R] /\ n \in Nat
    BY <1>5, <2>2, <2>3 DEF R, n
  <2>5. fired \in Seq(R)
    BY <2>4
  <2> QED BY <2>5 DEF R
<1> HIDE DEF fired
<1>8. loop' = [loop EXCEPT !.pc = "read", !.fired = fired]
  BY <1>3 DEF fired
<1>9. /\ loop' \in LoopState /\ loop'.pc = "read" /\ loop'.events = loop.events /\ loop'.maxfd = loop.maxfd
      /\ loop'.setsize = loop.setsize
  BY <1>1, <1>7, <1>8 DEF LoopState
<1>10. kernel' = kernel /\ loopPlan' = loopPlan /\ called' = {}
  BY DEF aeApiPoll
<1>11. S' \in State /\ S'.l = loop' /\ S'.k = kernel
  BY <1>1, <1>9, <1>10 DEF S, State
<1>12. Agree(S')
  BY <1>1, <1>9, <1>11, SameTable
<1>13. wall' \in [now : Nat, late : Nat, set : Nat]
  <2>1. slept \in Nat
    BY Elapsed
  <2>2. wall.now + slept \in Nat /\ wall.late + slept \in Nat
    BY <1>1, <2>1
  <2> QED BY <1>1, <1>2, <2>2
<1> QED BY <1>9, <1>10, <1>12, <1>13 DEF Handled

LEMMA ReadHandled == ASSUME Handled, ReadHalf PROVE Handled' /\ loop'.pc = "write" /\ TimerKept
<1> DEFINE e == Head(loop.fired)
           s == [S EXCEPT !.l.pc = "write"]
<1>1. /\ Agree(s) /\ s.l.pc = "write" /\ s.l.fired = loop.fired /\ s.l.when = loop.when /\ s.l.lastTime = loop.lastTime
      /\ s.l.events = loop.events /\ s.k = kernel
  BY StateOf, WritingAgrees DEF Handled
<1>2. loop.fired # << >> /\ wall' = wall /\ loopPlan' = loopPlan
  BY DEF ReadHalf
<1>3. e.fd \in Fd
  BY <1>2, FiredHead DEF Handled
<1>4. /\ called' = {} \/ (loop.events[e.fd].mask # {} /\ Call(e.fd))
      /\ \/ Becomes(s)
         \/ (\E f \in Fd : kernel.conn[f] = 0) /\ Becomes(Accepted(s))
         \/ e.fd # 1 /\ loop.events[e.fd].mask # {} /\ \E t \in AfterRead(s, e.fd) : Becomes(t)
  BY DEF ReadHalf
<1> HIDE DEF s, e
<1>5. ASSUME NEW t, Agree(t), Frame(s, t), Becomes(t) PROVE Handled' /\ loop'.pc = "write" /\ TimerKept
  <2>1. S' = t /\ loop' = t.l /\ kernel' = t.k
    BY <1>5, Succeeds
  <2>2. loop'.pc = "write" /\ loop'.fired = loop.fired /\ TimerKept
    BY <1>1, <1>2, <1>5, <2>1 DEF Frame, TimerKept
  <2>3. \A c \in called' : c[1] = c[2]
    BY <1>3, <1>4, CallOwner DEF Handled
  <2> QED BY <1>2, <1>5, <2>1, <2>2, <2>3 DEF Handled
<1>6. Frame(s, s)
  BY DEF Frame
<1>7. CASE Becomes(s)
  BY <1>1, <1>5, <1>6, <1>7
<1>8. CASE (\E f \in Fd : kernel.conn[f] = 0) /\ Becomes(Accepted(s))
  BY <1>1, <1>5, <1>8, AcceptAgrees
<1>9. CASE e.fd # 1 /\ loop.events[e.fd].mask # {} /\ \E t \in AfterRead(s, e.fd) : Becomes(t)
  <2>1. PICK t \in AfterRead(s, e.fd) : Becomes(t)
    BY <1>9
  <2>2. e.fd \in Fd \ {1} /\ s.l.events[e.fd].mask # {}
    BY <1>1, <1>3, <1>9
  <2> QED BY <1>1, <1>5, <2>1, <2>2, ReadKeeps
<1> QED BY <1>4, <1>7, <1>8, <1>9

LEMMA WriteHandled == ASSUME Handled, WriteHalf PROVE Handled' /\ loop'.pc = "read" /\ TimerKept
<1> DEFINE e == Head(loop.fired)
           s == NextFired(S)
<1>1. loop.fired # << >> /\ wall' = wall /\ loopPlan' = loopPlan
  BY DEF WriteHalf, Handled
<1>2. /\ Agree(s) /\ s.l.pc = "read" /\ s.l.when = loop.when /\ s.l.lastTime = loop.lastTime
      /\ s.l.events = loop.events /\ s.k = kernel
  BY <1>1, StateOf, NextFiredAgrees DEF Handled
<1>3. e.fd \in Fd
  BY <1>1, FiredHead DEF Handled
<1>4. /\ called' = {} \/ (loop.events[e.fd].mask # {} /\ Call(e.fd))
      /\ Becomes(s) \/ ("w" \in loop.events[e.fd].mask /\ \E t \in AfterWrite(s, e.fd) : Becomes(t))
  BY DEF WriteHalf
<1> HIDE DEF s, e
<1>5. ASSUME NEW t, Agree(t), Frame(s, t), Becomes(t) PROVE Handled' /\ loop'.pc = "read" /\ TimerKept
  <2>1. S' = t /\ loop' = t.l /\ kernel' = t.k
    BY <1>5, Succeeds
  <2>2. loop'.pc = "read" /\ TimerKept
    BY <1>1, <1>2, <1>5, <2>1 DEF Frame, TimerKept
  <2>3. \A c \in called' : c[1] = c[2]
    BY <1>3, <1>4, CallOwner DEF Handled
  <2> QED BY <1>1, <1>5, <2>1, <2>2, <2>3 DEF Handled
<1>6. Frame(s, s)
  BY DEF Frame
<1>7. CASE Becomes(s)
  BY <1>2, <1>5, <1>6, <1>7
<1>8. CASE "w" \in loop.events[e.fd].mask /\ \E t \in AfterWrite(s, e.fd) : Becomes(t)
  <2>1. PICK t \in AfterWrite(s, e.fd) : Becomes(t)
    BY <1>8
  <2>2. loop.events[1].mask = {"r"}
    BY StateOf DEF Agree, Handled
  <2>3. e.fd \in Fd \ {1}
    BY <1>3, <1>8, <2>2
  <2> QED BY <1>2, <1>5, <2>1, <2>3, WriteKeeps
<1> QED BY <1>4, <1>7, <1>8

-----------------------------------------------------------------------------
(* Time *)

LEMMA DivMod ==
  ASSUME NEW x \in Nat
  PROVE  /\ x \div Sec \in Nat /\ x % Sec \in Nat /\ x % Sec < Sec
         /\ x = (x \div Sec) * Sec + (x % Sec)
  BY LoopAssumption

LEMMA DivOrder ==
  ASSUME NEW x \in Nat, NEW y \in Nat, x >= y
  PROVE  x \div Sec >= y \div Sec
  BY LoopAssumption

\* The time-out is the time that is left.
LEMMA TimeoutExact ==
  ASSUME loop.when \in Nat, wall.now \in Nat, loop.when >= wall.now
  PROVE  PollTimeout = loop.when - wall.now
<1> DEFINE a == loop.when \div Sec
           b == wall.now \div Sec
           r == loop.when % Sec
           q == wall.now % Sec
           sec == a - b
           rest == r - q
           s == IF rest < 0 THEN sec - 1 ELSE sec
<1>1. /\ a \in Nat /\ b \in Nat /\ r \in Nat /\ q \in Nat /\ r < Sec /\ q < Sec /\ Sec \in Nat /\ a >= b
      /\ loop.when = a * Sec + r /\ wall.now = b * Sec + q
  BY DivMod, DivOrder, LoopAssumption
<1>2. PollTimeout = (IF s < 0 THEN 0 ELSE s) * Sec + (IF rest < 0 THEN rest + Sec ELSE rest)
  BY DEF PollTimeout
<1> HIDE DEF a, b, r, q
<1>3. a = b => rest >= 0
  BY <1>1
<1>4. ~ (s < 0)
  BY <1>1, <1>3
<1>5. sec * Sec = a * Sec - b * Sec /\ (sec - 1) * Sec = a * Sec - b * Sec - Sec
  BY <1>1
<1>6. a * Sec \in Int /\ b * Sec \in Int
  BY <1>1
<1>7. CASE rest < 0
  BY <1>1, <1>2, <1>4, <1>5, <1>6, <1>7
<1>8. CASE ~ (rest < 0)
  BY <1>1, <1>2, <1>4, <1>5, <1>6, <1>8
<1> QED BY <1>7, <1>8

\* What the loop may be late by, for each time the clock was set.
Slack == loopPlan.period + Sec
Allowed(n) == n * Slack

LEMMA AllowedGrows ==
  ASSUME loopPlan \in LoopPlan, NEW n \in Nat
  PROVE  /\ Slack \in Nat /\ Allowed(n) \in Nat /\ Allowed(n + 1) = Allowed(n) + Slack
         /\ loopPlan.period \in Nat /\ Sec \in Nat /\ Slack = loopPlan.period + Sec
<1>1. loopPlan.period \in Nat /\ Sec \in Nat
  BY LoopAssumption
<1>2. Slack \in Nat /\ Slack = loopPlan.period + Sec
  BY <1>1 DEF Slack
<1> DEFINE q == Slack
<1> HIDE DEF q
<1>3. q \in Nat
  BY <1>2 DEF q
<1>4. n * q \in Nat /\ (n + 1) * q = n * q + q
  BY <1>3
<1> QED BY <1>1, <1>2, <1>4 DEF Allowed, q

\* The time that has passed and the time that is left are together within what is allowed,
\* unless the clock was set since the poll; then the time that has passed is within what was
\* allowed before. No timer is further away than a period from the end of the second in which
\* it was last looked at.
OnTime ==
  /\ loop.when <= loop.lastTime * Sec + Slack
  /\ loop.pc = "poll" => /\ loop.when >= wall.now
                         /\ wall.late + (loop.when - wall.now) <= Allowed(wall.set + 1)
  /\ \/ wall.late <= Allowed(wall.set)
     \/ /\ wall.late <= Allowed(wall.set + 1)
        /\ wall.late + (loop.when - wall.now) <= Allowed(wall.set + 1)

TimeTypes ==
  /\ loop.when \in Nat /\ loop.lastTime \in Nat /\ wall.now \in Nat /\ wall.late \in Nat /\ wall.set \in Nat
  /\ loopPlan \in LoopPlan /\ loop \in LoopState /\ wall \in [now : Nat, late : Nat, set : Nat]

LEMMA HandledTypes == Handled => TimeTypes
  BY StateOf DEF Handled, TimeTypes, LoopState

LEMMA OnTimeInit == LoopInit => OnTime
<1> SUFFICES ASSUME LoopInit PROVE OnTime
  OBVIOUS
<1>1. loop.when = 1 /\ loop.lastTime = 0 /\ wall.now = 0 /\ wall.late = 0 /\ wall.set = 0 /\ loopPlan \in LoopPlan
  BY DEF LoopInit
<1>2. Allowed(0) \in Nat /\ Allowed(1) = Allowed(0) + Slack /\ Slack >= 1 /\ Slack \in Nat /\ Sec \in Nat
  <2>1. Allowed(0) \in Nat /\ Allowed(0 + 1) = Allowed(0) + Slack /\ Slack = loopPlan.period + Sec /\ loopPlan.period \in Nat
    BY <1>1, AllowedGrows
  <2>2. Sec \in Nat /\ Sec >= 1 /\ 0 + 1 = 1
    BY LoopAssumption
  <2> HIDE DEF Slack
  <2>3. Slack \in Nat /\ Slack >= 1
    BY <2>1, <2>2
  <2> QED BY <2>1, <2>2, <2>3
<1>3. Allowed(1) \in Nat /\ Allowed(1) >= 1 /\ loop.lastTime * Sec = 0
  BY <1>1, <1>2
<1> QED BY <1>1, <1>2, <1>3 DEF OnTime

LEMMA OnTimeCron == ASSUME TimeTypes, OnTime, processTimeEvents PROVE OnTime'
<1> DEFINE w == Skewed(loop.when, wall.now, loop.lastTime)
           sec == wall.now \div Sec
           due == wall.now >= w
           next == IF due THEN wall.now + loopPlan.period ELSE w
           late == IF due THEN 0 ELSE wall.late
           b == sec * Sec
           A == Allowed(wall.set)
           B == Allowed(wall.set + 1)
           last == loop.lastTime * Sec
<1>1. loop' = [loop EXCEPT !.pc = "poll", !.lastTime = sec, !.when = next] /\ wall' = [wall EXCEPT !.late = late]
      /\ loopPlan' = loopPlan /\ loop.pc = "read"
  BY DEF processTimeEvents
<1>2. /\ loop.when \in Nat /\ loop.lastTime \in Nat /\ wall.now \in Nat /\ wall.late \in Nat /\ loopPlan.period \in Nat
      /\ A \in Nat /\ B = A + Slack /\ Slack = loopPlan.period + Sec /\ Sec \in Nat
  BY AllowedGrows DEF TimeTypes
<1>3. /\ sec \in Nat /\ b \in Nat /\ last \in Nat /\ b <= wall.now /\ wall.now <= b + Sec
  <2>1. sec \in Nat /\ wall.now % Sec \in Nat /\ wall.now % Sec < Sec /\ wall.now = b + (wall.now % Sec)
    BY <1>2, DivMod
  <2>2. \A x, y \in Nat : x * y \in Nat
    OBVIOUS
  <2>3. b \in Nat /\ last \in Nat
    BY <1>2, <2>1, <2>2
  <2> HIDE DEF b, sec, last
  <2> QED BY <1>2, <2>1, <2>3
<1>4. w \in Nat /\ w <= loop.when /\ w <= b + Slack
  <2>1. CASE sec < loop.lastTime
    <3>1. w = loop.when % Sec
      BY <2>1 DEF Skewed
    <3>2. loop.when % Sec \in Nat /\ loop.when % Sec < Sec /\ loop.when % Sec <= loop.when
      <4>1. loop.when \div Sec \in Nat /\ loop.when % Sec \in Nat /\ loop.when % Sec < Sec
            /\ loop.when = (loop.when \div Sec) * Sec + (loop.when % Sec)
        BY <1>2, DivMod
      <4>2. (loop.when \div Sec) * Sec \in Nat
        BY <1>2, <4>1
      <4> QED BY <1>2, <4>1, <4>2
    <3> HIDE DEF w, b
    <3> QED BY <1>2, <1>3, <3>1, <3>2
  <2>2. CASE ~ (sec < loop.lastTime)
    <3>1. w = loop.when
      BY <2>2 DEF Skewed
    <3>2. sec >= loop.lastTime
      BY <1>2, <1>3, <2>2
    <3>3. \A x, y, z \in Nat : x >= y => x * z >= y * z
      OBVIOUS
    <3>4. b >= last
      BY <1>2, <1>3, <3>2, <3>3
    <3>5. loop.when <= last + Slack
      BY DEF OnTime
    <3> HIDE DEF w, b, last
    <3> QED BY <1>2, <1>3, <3>1, <3>4, <3>5
  <2> QED BY <2>1, <2>2
<1>5. (wall.late <= A \/ wall.late + (loop.when - wall.now) <= B) /\ wall.late <= B
  BY <1>2 DEF OnTime
<1> HIDE DEF w, b, sec, A, B, last
<1>6. next \in Nat /\ late \in Nat /\ next <= b + Slack /\ next >= wall.now /\ late + (next - wall.now) <= B /\ late <= B
  <2>1. CASE due
    <3>1. next = wall.now + loopPlan.period /\ late = 0
      BY <2>1
    <3> HIDE DEF next, late
    <3> QED BY <1>2, <1>3, <3>1
  <2>2. CASE ~ due
    <3>1. next = w /\ late = wall.late /\ wall.now < w
      BY <1>2, <1>4, <2>2
    <3> HIDE DEF next, late
    <3>2. CASE wall.late <= A
      <4>1. w <= wall.now + Slack
        BY <1>2, <1>3, <1>4
      <4> QED BY <1>2, <1>3, <1>4, <3>1, <3>2, <4>1
    <3>3. CASE wall.late + (loop.when - wall.now) <= B
      BY <1>2, <1>3, <1>4, <1>5, <3>1, <3>3
    <3> QED BY <1>5, <3>2, <3>3
  <2> QED BY <2>1, <2>2
<1> HIDE DEF next, late, due
<1>7. /\ loop'.when = next /\ loop'.lastTime = sec /\ wall'.now = wall.now /\ wall'.set = wall.set /\ wall'.late = late
  BY <1>1, <1>3, <1>6 DEF TimeTypes, LoopState
<1>8. Allowed(wall.set)' = A /\ Allowed(wall.set + 1)' = B /\ Slack' = Slack
  BY <1>1, <1>7 DEF A, B, Allowed, Slack
<1>9. (loop.lastTime * Sec)' = b
  BY <1>7 DEF b
<1> QED BY <1>6, <1>7, <1>8, <1>9 DEF OnTime

LEMMA OnTimePoll == ASSUME TimeTypes, OnTime, aeApiPoll, loop'.pc = "read" PROVE OnTime'
<1>1. PICK slept \in 0..PollTimeout : wall' = [wall EXCEPT !.now = @ + slept, !.late = @ + slept]
  BY DEF aeApiPoll
<1>2. /\ loop.when \in Nat /\ loop.lastTime \in Nat /\ wall.now \in Nat /\ wall.late \in Nat
      /\ loop.pc = "poll" /\ loop.when >= wall.now /\ wall.late + (loop.when - wall.now) <= Allowed(wall.set + 1)
  BY DEF TimeTypes, OnTime, aeApiPoll
<1>3. slept \in Nat /\ slept <= loop.when - wall.now
  <2>1. PollTimeout = loop.when - wall.now
    BY <1>2, TimeoutExact
  <2> QED BY <1>2, <2>1
<1>4. wall'.now = wall.now + slept /\ wall'.late = wall.late + slept /\ wall'.set = wall.set /\ loopPlan' = loopPlan
  BY <1>1, <1>2, <1>3 DEF TimeTypes, aeApiPoll
<1>5. loop'.when = loop.when /\ loop'.lastTime = loop.lastTime
  BY DEF TimeTypes, LoopState, aeApiPoll
<1>6. Allowed(wall.set + 1)' = Allowed(wall.set + 1) /\ Slack' = Slack /\ Allowed(wall.set)' = Allowed(wall.set)
  BY <1>4 DEF Allowed, Slack
<1>7. Allowed(wall.set + 1) \in Nat
  <2>1. wall.set \in Nat /\ loopPlan \in LoopPlan
    BY DEF TimeTypes
  <2>2. wall.set + 1 \in Nat
    BY <2>1
  <2> QED BY <2>1, <2>2, AllowedGrows
<1>8. wall'.late <= Allowed(wall.set + 1) /\ wall'.late + (loop.when - wall'.now) <= Allowed(wall.set + 1)
  BY <1>2, <1>3, <1>4, <1>7
<1> QED BY <1>5, <1>6, <1>8 DEF OnTime

LEMMA OnTimeSet ==
  ASSUME TimeTypes, OnTime, SetClock, ~ loopPlan.window PROVE OnTime'
<1>1. PICK now \in 0..loopPlan.clock : wall' = [wall EXCEPT !.now = now, !.set = @ + 1]
  BY DEF SetClock
<1>2. loop.pc # "poll" /\ loop' = loop /\ loopPlan' = loopPlan
  BY DEF SetClock
<1>3. wall'.set = wall.set + 1 /\ wall'.late = wall.late /\ wall.set \in Nat /\ wall.late \in Nat
  BY <1>1 DEF TimeTypes
<1>4. wall.late <= Allowed(wall.set + 1)
  <2>1. Allowed(wall.set) \in Nat /\ Allowed(wall.set + 1) = Allowed(wall.set) + Slack /\ Slack \in Nat
    BY <1>3, AllowedGrows DEF TimeTypes
  <2> QED BY <1>3, <2>1 DEF OnTime
<1>5. Allowed(wall.set)' = Allowed(wall.set + 1) /\ Slack' = Slack
  BY <1>2, <1>3 DEF Allowed, Slack
<1> QED BY <1>2, <1>3, <1>4, <1>5 DEF OnTime

LEMMA OnTimeKept ==
  ASSUME OnTime, TimerKept, loopPlan' = loopPlan, loop'.pc # "poll" PROVE OnTime'
<1>1. Allowed(wall.set)' = Allowed(wall.set) /\ Allowed(wall.set + 1)' = Allowed(wall.set + 1) /\ Slack' = Slack
  BY DEF TimerKept, Allowed, Slack
<1> QED BY <1>1 DEF OnTime, TimerKept

LEMMA OnTimeLate == ASSUME TimeTypes, OnTime PROVE CronNotLate
<1>1. /\ wall.set \in Nat /\ wall.late \in Nat /\ loopPlan \in LoopPlan
      /\ Allowed(wall.set) \in Nat /\ Allowed(wall.set + 1) = Allowed(wall.set) + Slack /\ Slack \in Nat
  BY AllowedGrows DEF TimeTypes
<1>2. wall.late <= Allowed(wall.set + 1)
  BY <1>1 DEF OnTime
<1> QED BY <1>2 DEF CronNotLate, Allowed, Slack

-----------------------------------------------------------------------------
(* The theorems *)

LEMMA CronHandled == ASSUME Handled, processTimeEvents PROVE Handled'
<1>1. Agree(S) /\ S.l = loop /\ S.k = kernel /\ TimeTypes /\ loop \in LoopState /\ wall \in [now : Nat, late : Nat, set : Nat]
  BY StateOf, HandledTypes DEF Handled
<1>2. PICK when, late :
        /\ when = loop.when \/ when = loop.when % Sec \/ when = wall.now + loopPlan.period
        /\ late = 0 \/ late = wall.late
        /\ loop' = [loop EXCEPT !.pc = "poll", !.lastTime = wall.now \div Sec, !.when = when]
        /\ wall' = [wall EXCEPT !.late = late]
  BY DEF processTimeEvents, Skewed
<1>3. kernel' = kernel /\ loopPlan' = loopPlan /\ called' = {}
  BY DEF processTimeEvents
<1>4. wall.now \in Nat /\ wall.late \in Nat /\ loop.when \in Nat /\ loopPlan.period \in Nat
  BY AllowedGrows, <1>1 DEF TimeTypes
<1> DEFINE sec == wall.now \div Sec
<1>5. when \in Nat /\ late \in Nat /\ sec \in Nat
  BY <1>2, <1>4, DivMod
<1> HIDE DEF sec
<1>6. loop' = [loop EXCEPT !.pc = "poll", !.lastTime = sec, !.when = when]
  BY <1>2 DEF sec
<1>7. /\ loop' \in LoopState /\ loop'.pc = "poll" /\ loop'.events = loop.events /\ loop'.maxfd = loop.maxfd
      /\ loop'.setsize = loop.setsize
  BY <1>1, <1>5, <1>6 DEF LoopState
<1>8. S' \in State /\ S'.l = loop' /\ S'.k = kernel
  BY <1>1, <1>3, <1>7, StateOf DEF S, State
<1>9. Agree(S')
  BY <1>1, <1>7, <1>8, SameTable
<1>10. wall' \in [now : Nat, late : Nat, set : Nat]
  BY <1>1, <1>2, <1>5
<1> QED BY <1>3, <1>7, <1>9, <1>10 DEF Handled

LEMMA ClockHandled == ASSUME Handled, SetClock PROVE Handled'
<1>1. PICK now \in 0..loopPlan.clock : wall' = [wall EXCEPT !.now = now, !.set = @ + 1]
  BY DEF SetClock
<1>2. now \in Nat
  BY Elapsed
<1>3. wall' \in [now : Nat, late : Nat, set : Nat]
  <2>1. wall \in [now : Nat, late : Nat, set : Nat] /\ wall.set + 1 \in Nat
    BY DEF Handled
  <2> QED BY <1>1, <1>2, <2>1
<1> QED BY <1>3 DEF SetClock, Handled, S, Agree

LEMMA HandledStep == ASSUME Handled, [LoopNext]_loopVars PROVE Handled'
<1>1. CASE UNCHANGED loopVars
  BY <1>1 DEF loopVars, Handled, S, Agree
<1> QED BY <1>1, PollHandled, ReadHandled, WriteHandled, CronHandled, ClockHandled DEF LoopNext

LEMMA HandledOwners == Handled => HandlersOfOwners
<1> SUFFICES ASSUME Handled PROVE HandlersOfOwners
  OBVIOUS
<1> QED BY StateOf DEF Handled, Agree, Used, HandlersOfOwners

(* A handler is only called with the data of the connection that has the   *)
(* descriptor, and what epoll watches, the table of events and its maxfd   *)
(* agree (aeProcessEvents, aeCreateFileEvent, aeDeleteFileEvent), whatever *)
(* the handlers before it in the batch closed or accepted, and also when   *)
(* the table is resized by one of them or the clock is set at any time.    *)
THEOREM OwnersHandled == LoopSpec => []HandlersOfOwners
<1>1. LoopInit => Handled
  BY HandledInit
<1>2. Handled /\ [LoopNext]_loopVars => Handled'
  BY HandledStep
<1>3. Handled => HandlersOfOwners
  BY HandledOwners
<1> QED BY <1>1, <1>2, <1>3, PTL DEF LoopSpec

(* And serverCron() is late by no more than its period and a second, for   *)
(* each time the clock was set and once more (aeProcessEvents,             *)
(* processTimeEvents), provided that the clock is never set between the    *)
(* computation of a time-out and the poll: there it can be later.          *)
THEOREM LoopIsSound ==
  ASSUME \A p \in LoopPlan : ~ p.window
  PROVE  LoopSpec => []LoopSound
<1> DEFINE Inv == Handled /\ OnTime
<1>1. LoopInit => Inv
  BY HandledInit, OnTimeInit
<1>2. Inv /\ [LoopNext]_loopVars => Inv'
  <2> SUFFICES ASSUME Inv, [LoopNext]_loopVars PROVE Inv'
    OBVIOUS
  <2>1. Handled' /\ TimeTypes /\ ~ loopPlan.window
    BY HandledStep, HandledTypes DEF Handled
  <2>2. CASE aeApiPoll
    BY <2>1, <2>2, PollHandled, OnTimePoll
  <2>3. CASE ReadHalf
    <3>1. loop'.pc = "write" /\ TimerKept /\ loopPlan' = loopPlan
      BY <2>3, ReadHandled DEF ReadHalf
    <3> QED BY <2>1, <3>1, OnTimeKept
  <2>4. CASE WriteHalf
    <3>1. loop'.pc = "read" /\ TimerKept /\ loopPlan' = loopPlan
      BY <2>4, WriteHandled DEF WriteHalf
    <3> QED BY <2>1, <3>1, OnTimeKept
  <2>5. CASE processTimeEvents
    BY <2>1, <2>5, OnTimeCron
  <2>6. CASE SetClock
    BY <2>1, <2>6, OnTimeSet
  <2>7. CASE UNCHANGED loopVars
    BY <2>1, <2>7 DEF loopVars, OnTime, Allowed, Slack
  <2> QED BY <2>2, <2>3, <2>4, <2>5, <2>6, <2>7 DEF LoopNext
<1>3. Inv => LoopSound
  <2> SUFFICES ASSUME Inv PROVE LoopSound
    OBVIOUS
  <2> QED BY HandledOwners, HandledTypes, OnTimeLate DEF LoopSound
<1> HIDE DEF Inv
<1> QED BY <1>1, <1>2, <1>3, PTL DEF LoopSpec
=============================================================================
