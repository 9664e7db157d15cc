------------------------------ MODULE EventLoop ------------------------------
(***************************************************************************)
(* The event loop of ae.c over epoll (ae_epoll.c): the table of registered *)
(* events, the batch that one poll returns and whose handlers may close    *)
(* connections or open new ones on the same descriptors, and the one timer *)
(* of the server, serverCron, under a wall clock that may be set.          *)
(***************************************************************************)
EXTENDS Integers, FiniteSets, SequencesExt

CONSTANTS Fd,          \* descriptors, 1 is the one that listens
          LoopPlan,    \* the instances, see below
          Sec          \* units of time in a second
\* An instance is a record of
\*   conns    bound: connections accepted        resize   CONFIG SET maxclients is used
\*   period   1000/hz                            times    bound: how often the clock is set
\*   clock    bound: the largest time            window   the clock may be set just before the poll

ASSUME LoopAssumption ==
  /\ IsFiniteSet(Fd) /\ Fd = 1..Cardinality(Fd) /\ 1 \in Fd /\ Sec \in Nat \ {0}
  /\ \A p \in LoopPlan : {p.conns, p.period, p.times, p.clock} \subseteq Nat /\ {p.resize, p.window} \subseteq BOOLEAN

VARIABLES loopPlan,   \* the instance that is run
          loop,       \* aeEventLoop: setsize, maxfd, events, fired, when and lastTime of the timer; pc
          kernel,     \* what epoll watches, and the connection behind each descriptor (0: closed)
          wall,       \* wall: the clock, late: time really elapsed since serverCron ran, set: times it was set
          called      \* the connections whose handler ran in this step, and those it was registered for

loopVars == <<loopPlan, loop, kernel, wall, called>>

None == [mask |-> {}, data |-> 0]

MaxfdAfterDelete(events, maxfd, fd) ==
  IF fd = maxfd /\ events[fd].mask = {} THEN Max({0} \cup {f \in Fd : f < fd /\ events[f].mask # {}}) ELSE maxfd

\* aeApiAddEvent: registered already, as far as the table says, or new
epoll_ctl(k, op, fd, mask) ==
  IF (op = "add") = (k.watched[fd] # {}) THEN [ok |-> FALSE, k |-> k]
  ELSE [ok |-> TRUE, k |-> [k EXCEPT !.watched[fd] = mask]]

\* s is a pair of loop and kernel
aeCreateFileEvent(s, fd, mask, data) ==
  LET old == s.l.events[fd].mask
      ctl == epoll_ctl(s.k, IF old = {} THEN "add" ELSE "mod", fd, old \cup mask)
  IN IF fd > s.l.setsize \/ ~ ctl.ok THEN [ok |-> FALSE, l |-> s.l, k |-> s.k]
     ELSE [ok |-> TRUE, k |-> ctl.k,
           l |-> [s.l EXCEPT !.events[fd] = [mask |-> old \cup mask, data |-> data],
                             !.maxfd = IF fd > @ THEN fd ELSE @]]

aeDeleteFileEvent(s, fd, mask) ==
  LET events == [s.l.events EXCEPT ![fd].mask = @ \ mask]
  IN IF fd > s.l.setsize \/ s.l.events[fd].mask = {} THEN s
     ELSE [s EXCEPT !.l = [s.l EXCEPT !.events = events, !.maxfd = MaxfdAfterDelete(events, @, fd)],
                    !.k.watched[fd] = events[fd].mask]

\* freeClient, as far as the loop sees it
freeConn(s, fd) ==
  LET t == aeDeleteFileEvent(aeDeleteFileEvent(s, fd, {"r"}), fd, {"w"})
  IN [t EXCEPT !.k.watched[fd] = {}, !.k.conn[fd] = 0]

LoopInit ==
  /\ loopPlan \in LoopPlan
  /\ loop = [setsize |-> Cardinality(Fd) - 1, maxfd |-> 1, pc |-> "poll", fired |-> <<>>, stale |-> FALSE,
             events |-> [f \in Fd |-> IF f = 1 THEN [mask |-> {"r"}, data |-> 1] ELSE None],
             when |-> 1, lastTime |-> 0]
  /\ kernel = [watched |-> [f \in Fd |-> IF f = 1 THEN {"r"} ELSE {}],
               conn |-> [f \in Fd |-> IF f = 1 THEN 1 ELSE 0], next |-> 2]
  /\ wall = [now |-> 0, late |-> 0, set |-> 0]
  /\ called = {}

S == [l |-> loop, k |-> kernel]
Becomes(s) == loop' = s.l /\ kernel' = s.k

-----------------------------------------------------------------------------
(* One turn: aeProcessEvents *)

\* The time-out of the poll; seconds and the rest are subtracted apart, and a negative
\* number of seconds becomes none while the rest stays.
PollTimeout ==
  LET sec == loop.when \div Sec - wall.now \div Sec
      rest == (loop.when % Sec) - (wall.now % Sec)
      s == IF rest < 0 THEN sec - 1 ELSE sec
  IN (IF s < 0 THEN 0 ELSE s) * Sec + (IF rest < 0 THEN rest + Sec ELSE rest)

\* beforesleep, then aeApiPoll: events come in any order, and the poll ends with the first
\* ones or at the time-out.
aeApiPoll ==
  /\ loop.pc = "poll"
  /\ \E slept \in 0..PollTimeout, ready \in SUBSET {e \in Fd \X {"r", "w"} : e[2] \in kernel.watched[e[1]]} :
       /\ ready = {} => slept = PollTimeout
       /\ wall.now <= loopPlan.clock
       /\ wall' = [wall EXCEPT !.now = @ + slept, !.late = @ + slept]
       /\ \E order \in SetToSeqs({r[1] : r \in ready}) :
            loop' = [loop EXCEPT !.pc = "read", !.fired = [i \in DOMAIN order |->
                          [fd |-> order[i], mask |-> {r[2] : r \in {q \in ready : q[1] = order[i]}}]]]
  /\ called' = {}
  /\ UNCHANGED <<kernel, loopPlan>>

\* acceptTcpHandler: the lowest free descriptor; without room in the table it is closed again
Accepted(s) ==
  LET fd == Min({f \in Fd : s.k.conn[f] = 0})
      t == aeCreateFileEvent([s EXCEPT !.k.conn[fd] = s.k.next, !.k.next = @ + 1], fd, {"r"}, s.k.next)
  IN IF t.ok THEN [l |-> t.l, k |-> t.k] ELSE [l |-> s.l, k |-> [s.k EXCEPT !.next = @ + 1]]

\* CONFIG SET maxclients: the table grows, to another place
aeResizeSetSize(s) == [s EXCEPT !.l.setsize = @ + 1, !.l.stale = TRUE]

\* what a handler may leave: nothing done, the peer's answer queued, its own connection or
\* another one closed, the table resized
AfterRead(s, fd) ==
  LET answer == aeCreateFileEvent(s, fd, {"w"}, s.k.conn[fd])
  IN {s, [l |-> answer.l, k |-> answer.k], freeConn(s, fd)}
     \cup {freeConn(s, f) : f \in {g \in Fd : g # fd /\ g # 1 /\ s.k.conn[g] # 0}}
     \cup (IF loopPlan.resize /\ s.l.setsize < Cardinality(Fd) THEN {aeResizeSetSize(s)} ELSE {})

AfterWrite(s, fd) == {s, aeDeleteFileEvent(s, fd, {"w"}), freeConn(s, fd)}

\* the handler of a descriptor is called with the data registered for it
Call(fd) == called' = {<<loop.events[fd].data, kernel.conn[fd]>>}

NextFired(s) == [s EXCEPT !.l.fired = Tail(@), !.l.pc = "read", !.l.stale = FALSE]

\* the first half of an event: readable, if that is still registered
ReadHalf ==
  /\ loop.pc = "read" /\ loop.fired # <<>>
  /\ LET e == Head(loop.fired)
         s == [S EXCEPT !.l.pc = "write"]
     IN IF "r" \in e.mask \cap loop.events[e.fd].mask
        THEN /\ Call(e.fd)
             /\ IF e.fd = 1
                THEN IF kernel.next <= loopPlan.conns + 1 /\ (\E f \in Fd : kernel.conn[f] = 0) THEN Becomes(Accepted(s)) ELSE Becomes(s)
                ELSE \E t \in AfterRead(s, e.fd) : Becomes(t)
        ELSE Becomes(s) /\ called' = {}
  /\ UNCHANGED <<wall, loopPlan>>

\* mutant: the write handler is called for what was polled, registered or not
WriteAnyway ==
  /\ loop.pc = "write"
  /\ LET e == Head(loop.fired)
     IN IF "w" \in e.mask
        THEN Call(e.fd) /\ \E t \in AfterWrite(NextFired(S), e.fd) : Becomes(t)
        ELSE Becomes(NextFired(S)) /\ called' = {}
  /\ UNCHANGED <<wall, loopPlan>>

\* the second half: writable, if that is still registered after the first
WriteHalf ==
  /\ loop.pc = "write"
  /\ LET e == Head(loop.fired)
     IN IF "w" \in e.mask \cap loop.events[e.fd].mask
        THEN Call(e.fd) /\ \E t \in AfterWrite(NextFired(S), e.fd) : Becomes(t)
        ELSE Becomes(NextFired(S)) /\ called' = {}
  /\ UNCHANGED <<wall, loopPlan>>

\* mutant: a clock that was set back is not noticed
NoSkew(when, now, last) == when

\* the clock was set back: the timer is due at once
Skewed(when, now, last) == IF now \div Sec < last THEN when % Sec ELSE when

\* serverCron() runs if it is due, and is due again a period after it has run
processTimeEvents ==
  /\ loop.pc = "read" /\ loop.fired = <<>>
  /\ LET when == Skewed(loop.when, wall.now, loop.lastTime)
         due == wall.now >= when
     IN /\ loop' = [loop EXCEPT !.pc = "poll", !.lastTime = wall.now \div Sec,
                                !.when = IF due THEN wall.now + loopPlan.period ELSE when]
        /\ wall' = [wall EXCEPT !.late = IF due THEN 0 ELSE @]
  /\ called' = {}
  /\ UNCHANGED <<kernel, loopPlan>>

SetClock ==
  /\ wall.set < loopPlan.times
  /\ loop.pc = "poll" => loopPlan.window
  /\ \E now \in 0..loopPlan.clock : wall' = [wall EXCEPT !.now = now, !.set = @ + 1]
  /\ called' = {}
  /\ UNCHANGED <<loop, kernel, loopPlan>>

LoopNext == aeApiPoll \/ ReadHalf \/ WriteHalf \/ processTimeEvents \/ SetClock
LoopSpec == LoopInit /\ [][LoopNext]_loopVars

-----------------------------------------------------------------------------

(* A handler is only called with the data of the connection that has the   *)
(* descriptor now, also when an earlier handler of the same batch closed   *)
(* the connection the event was polled for and its descriptor has a new    *)
(* one; and what epoll watches, the table of events and its maxfd agree.   *)
HandlersOfOwners ==
  /\ \A c \in called : c[1] = c[2]
  /\ \A f \in Fd : kernel.watched[f] = loop.events[f].mask
  /\ loop.maxfd = Max({0} \cup {f \in Fd : loop.events[f].mask # {}})
  /\ \A f \in Fd : loop.events[f].mask # {} => loop.events[f].data = kernel.conn[f]

(* "we check if the event is still valid": the entry of the table that     *)
(* aeProcessEvents() looks at after the read handler is still allocated.   *)
EntryStillThere == ~ (loop.pc = "write" /\ loop.stale)

(* serverCron() is never later than its period and a second, and as much  *)
(* again for every time the clock was set meanwhile (aeSearchNearestTimer, *)
(* the time-out of the poll, the test for a clock set back in              *)
(* processTimeEvents).                                                     *)
CronNotLate == wall.late <= (wall.set + 1) * (loopPlan.period + Sec)

(* aeProcessEvents() calls the right handlers, and serverCron() in time.   *)
LoopSound == HandlersOfOwners /\ CronNotLate
=============================================================================
