-------------------------------- MODULE Acks --------------------------------
(***************************************************************************)
(* Acknowledged offsets (replication.c, redis.c): REPLCONF ACK and GETACK, *)
(* WAIT, and the count of good slaves that min-slaves-to-write asks for.   *)
(* A unit of the replication stream is one command.  The link, how a slave *)
(* joins and what it is sent when it does are the module Replication;      *)
(* here a slave is attached, with a stream that goes on where it stopped,  *)
(* or it is not.  Slaves older than PSYNC, which never acknowledge, are    *)
(* left out.                                                               *)
(***************************************************************************)
EXTENDS Integers, FiniteSets, SequencesExt

CONSTANTS Waiter, Replica,
          AckPlan   \* the instances: the clients' requests, the configuration and the bounds
\* An instance is a record of (times are in seconds)
\*   requests    for each client its sequence of writes (num = 0) and WAITs (num, and the time
\*               until the answer is due, 0 for none)
\*   minSlaves   min-slaves-to-write           maxLag    min-slaves-max-lag
\*   timeout     repl-timeout                  period    turns of serverCron for one of replicationCron
\*   maxStream, maxTime, maxFaults, maxAcks
\*               bounds: commands, time, lost connections and pauses, acknowledgements on a link

ASSUME AckAssumption ==
  /\ IsFiniteSet(Replica)
  /\ \A p \in AckPlan :
       /\ {p.minSlaves, p.maxLag, p.timeout, p.maxStream, p.maxTime, p.maxFaults, p.maxAcks} \subseteq Nat
       /\ p.period \in Nat \ {0}
       /\ p.requests \in [Waiter -> Seq([num : Nat, timeout : Nat])]

VARIABLES ackPlan,    \* the instance that is run
          primary,    \* the master: unixtime, cronloops (modulo the period), unixtime when
                      \* replicationCron() last ran, the stream, what it knows of slaves and clients
          replica,    \* each slave: commands read and commands executed, CLIENT PAUSE in force
          acks,       \* the acknowledgements under way from each slave
          told        \* the answers of this step: n, and the slaves that had read, executed the client's write

ackVars == <<ackPlan, primary, replica, acks, told>>

Nothing == [n |-> 0, read |-> 0, done |-> 0]
NoWait == [off |-> 0, num |-> 0, timeout |-> 0]
Offset(m) == Len(m.stream)

AckInit ==
  /\ ackPlan \in AckPlan
  /\ primary = [now      |-> 0,
                loops    |-> 0,
                cron     |-> 0,
                stream   |-> <<>>,
                slaves   |-> [s \in Replica |-> [online |-> FALSE, ackOff |-> 0, ackTime |-> 0]],
                clients  |-> [c \in Waiter |-> [woff |-> 0, wrote |-> 0, wait |-> NoWait, sent |-> 0]],
                waiting  |-> <<>>,
                getack   |-> FALSE,
                good     |-> 0,
                faults   |-> 0]
  /\ replica = [s \in Replica |-> [read |-> 0, done |-> 0, paused |-> FALSE]]
  /\ acks = [s \in Replica |-> <<>>]
  /\ told = Nothing

\* min-slaves-to-write and min-slaves-max-lag are both set
Guarded == ackPlan.minSlaves > 0 /\ ackPlan.maxLag > 0

\* mutant: slaves are not asked how long ago they were heard of
CountOnline(m) == IF ~ Guarded THEN m ELSE [m EXCEPT !.good = Cardinality({s \in Replica : m.slaves[s].online})]

refreshGoodSlavesCount(m) ==
  IF ~ Guarded THEN m ELSE
  [m EXCEPT !.good = Cardinality({s \in Replica : m.slaves[s].online /\ m.now - m.slaves[s].ackTime <= ackPlan.maxLag})]

replicationCountAcksByOffset(m, offset) ==
  Cardinality({s \in Replica : m.slaves[s].online /\ m.slaves[s].ackOff >= offset})

\* the answer n to client c, with what it should be true of
Tell(m, c, n) ==
  LET wrote == m.clients[c].wrote
  IN [n |-> n, read |-> Cardinality({s \in Replica : replica[s].read >= wrote}),
      done |-> Cardinality({s \in Replica : replica[s].done >= wrote})]

\* of the clients in m.waiting only those of `kept` still wait
unblockClientWaitingReplicas(m, kept) ==
  [m EXCEPT !.waiting = kept,
            !.clients = [c \in Waiter |-> [m.clients[c] EXCEPT !.wait = IF c \in Range(kept) THEN @ ELSE NoWait]]]

freeSlaves(m, S) ==
  refreshGoodSlavesCount(
    [m EXCEPT !.slaves = [s \in Replica |-> IF s \in S THEN [online |-> FALSE, ackOff |-> 0, ackTime |-> 0] ELSE m.slaves[s]]])

-----------------------------------------------------------------------------
(* The clients of the master *)

NextRequest(c) ==   \* the one a client has ready, if it has one and is not blocked
  {ackPlan.requests[c][i] : i \in IF c \in Range(primary.waiting) THEN {} ELSE DOMAIN ackPlan.requests[c] \cap {primary.clients[c].sent + 1}}

\* A command that writes; min-slaves-to-write refuses it while too few slaves are good.
WriteCommand(c) ==
  /\ \E q \in NextRequest(c) : q.num = 0
  /\ Offset(primary) < ackPlan.maxStream
  /\ ~ (Guarded /\ primary.good < ackPlan.minSlaves)
  /\ primary' = [primary EXCEPT !.stream = Append(@, "write"), !.clients[c] = [woff |-> Offset(primary) + 1, wrote |-> Offset(primary) + 1,
                                                wait |-> NoWait, sent |-> @.sent + 1]]
  /\ UNCHANGED <<replica, acks>> /\ told' = Nothing

\* every command, and WAIT itself, ends with woff at the offset of the stream
waitCommand(c) ==
  LET n == replicationCountAcksByOffset(primary, primary.clients[c].woff)
  IN \E q \in NextRequest(c) :
     /\ q.num > 0
     /\ IF n >= q.num
        THEN /\ told' = Tell(primary, c, n)
             /\ primary' = [primary EXCEPT !.clients[c].woff = Offset(primary), !.clients[c].sent = @ + 1]
        ELSE /\ primary' = [primary EXCEPT
                              !.clients[c] = [woff |-> Offset(primary), wrote |-> @.wrote, sent |-> @.sent + 1,
                                              wait |-> [off |-> @.woff, num |-> q.num,
                                                       timeout |-> IF q.timeout = 0 THEN 0 ELSE primary.now + q.timeout]],
                              !.waiting = Append(@, c), !.getack = TRUE]
             /\ told' = Nothing
     /\ UNCHANGED <<replica, acks>>

WaiterCloses(c) ==
  LET q == primary.waiting
      kept == IF c \in Range(q) THEN RemoveAt(q, CHOOSE i \in DOMAIN q : q[i] = c) ELSE q
  IN /\ primary.faults < ackPlan.maxFaults
     /\ primary' = [unblockClientWaitingReplicas(primary, kept) EXCEPT !.faults = @ + 1,
                      !.clients[c] = [woff |-> 0, wrote |-> 0, wait |-> NoWait, sent |-> Len(ackPlan.requests[c])]]
     /\ UNCHANGED <<replica, acks>> /\ told' = Nothing

-----------------------------------------------------------------------------
(* The event loop of the master *)

\* What a loop over m.waiting has so far: the clients that go on waiting, in their order, the
\* offset and the count of the last one that was counted, and the answer that is looked at.
LoopStart == [kept |-> <<>>, off |-> 0, num |-> 0, told |-> Nothing]

\* mutant: the count of one client answers every later one that asked for as many
WakeAll(m, r, c) ==
  LET w == m.clients[c].wait
      n == IF r.off > 0 /\ r.num >= w.num THEN r.num ELSE replicationCountAcksByOffset(m, w.off)
  IN IF n < w.num THEN [r EXCEPT !.kept = Append(@, c)]
     ELSE [kept |-> r.kept, off |-> w.off, num |-> n, told |-> Tell(m, c, n)]

\* One client of the list: satisfied by what was counted for an earlier one, or counted.
\* The answer that promises more than was read is the one kept, if there is one.
WakeWaiter(m, r, c) ==
  LET w == m.clients[c].wait
      short == r.off > 0 /\ r.off > w.off /\ r.num > w.num
      n == IF short THEN r.num ELSE replicationCountAcksByOffset(m, w.off)
  IN IF n < w.num THEN [r EXCEPT !.kept = Append(@, c)]
     ELSE [kept |-> r.kept, off |-> IF short THEN r.off ELSE w.off, num |-> n,
           told |-> IF r.told.n > r.told.done THEN r.told ELSE Tell(m, c, n)]

processClientsWaitingReplicas(m) ==
  LET r[i \in 0..Len(m.waiting)] == IF i = 0 THEN LoopStart ELSE WakeWaiter(m, r[i - 1], m.waiting[i])
  IN r[Len(m.waiting)]

BeforeSleep ==
  /\ primary.getack => Offset(primary) < ackPlan.maxStream
  /\ LET m == IF primary.getack THEN [primary EXCEPT !.stream = Append(@, "getack"), !.getack = FALSE] ELSE primary
         r == processClientsWaitingReplicas(m)
     IN primary' = unblockClientWaitingReplicas(m, r.kept) /\ told' = r.told
  /\ UNCHANGED <<replica, acks>>

\* A client whose time is over is answered with what there is.
ExpireWaiter(m, r, c) ==
  LET w == m.clients[c].wait
  IN IF w.timeout = 0 \/ w.timeout > m.now THEN [r EXCEPT !.kept = Append(@, c)]
     ELSE [r EXCEPT !.told = IF r.told.n > r.told.done THEN r.told ELSE Tell(m, c, replicationCountAcksByOffset(m, w.off))]

clientsCron(m) ==
  LET r[i \in 0..Len(m.waiting)] == IF i = 0 THEN LoopStart ELSE ExpireWaiter(m, r[i - 1], m.waiting[i])
  IN r[Len(m.waiting)]

\* replicationCron(): a PING may be due, silent slaves are freed, good ones counted
LateSlaves(m) == {s \in Replica : m.slaves[s].online /\ m.now - m.slaves[s].ackTime > ackPlan.timeout}

replicationCron(m, ping) ==
  LET fed == IF ping THEN [m EXCEPT !.stream = Append(@, "ping")] ELSE m
  IN refreshGoodSlavesCount([freeSlaves(fed, LateSlaves(m)) EXCEPT !.cron = m.now])

\* The cached time moves at every turn of serverCron(), by what has passed; then clientsCron()
\* runs, and replicationCron() when its period is over; its PINGs are seconds apart.
ServerCron(passed, ping) ==
  LET m == [primary EXCEPT !.now = @ + passed]
      r == clientsCron(m)
      rest == unblockClientWaitingReplicas(m, r.kept)
      due == primary.loops = 0
      next == IF due THEN replicationCron(rest, ping) ELSE rest
  IN /\ m.now <= ackPlan.maxTime
     /\ ping => due /\ m.now > primary.cron /\ Offset(primary) < ackPlan.maxStream
     /\ primary' = [next EXCEPT !.loops = (@ + 1) % ackPlan.period]
     /\ acks' = [s \in Replica |-> IF due /\ s \in LateSlaves(m) THEN <<>> ELSE acks[s]]
     /\ told' = r.told
     /\ UNCHANGED replica

\* a slave becomes online: it is heard of now, and has acknowledged nothing
SlaveOnline(s) ==
  /\ ~ primary.slaves[s].online
  /\ primary' = refreshGoodSlavesCount([primary EXCEPT !.slaves[s] = [online |-> TRUE, ackOff |-> 0, ackTime |-> primary.now]])
  /\ UNCHANGED <<replica, acks>> /\ told' = Nothing

SlaveFreed(s) ==
  /\ primary.slaves[s].online
  /\ primary.faults < ackPlan.maxFaults
  /\ primary' = [freeSlaves(primary, {s}) EXCEPT !.faults = @ + 1]
  /\ acks' = [acks EXCEPT ![s] = <<>>]
  /\ UNCHANGED replica /\ told' = Nothing

\* REPLCONF ACK arrives
replconfAck(s) ==
  /\ acks[s] # <<>>
  /\ acks' = [acks EXCEPT ![s] = Tail(@)]
  /\ primary' = [primary EXCEPT !.slaves[s].ackOff = IF Head(acks[s]) > @ THEN Head(acks[s]) ELSE @,
                                !.slaves[s].ackTime = primary.now]
  /\ UNCHANGED replica /\ told' = Nothing

-----------------------------------------------------------------------------
(* The slaves *)

\* an acknowledgement says what was read from the master, not what was executed
replicationSendAck(s, r) == IF Len(acks[s]) < ackPlan.maxAcks THEN Append(acks[s], r.read) ELSE acks[s]

\* n commands are read, counted at once, and executed unless clients are paused;
\* a GETACK among those executed is answered
SlaveReads(s, n) ==
  LET r == replica[s]
      read == r.read + n
      new == [r EXCEPT !.read = read, !.done = IF r.paused THEN @ ELSE read]
  IN /\ primary.slaves[s].online /\ n > 0 /\ read <= Offset(primary)
     /\ replica' = [replica EXCEPT ![s] = new]
     /\ acks' = IF \E i \in (r.done + 1)..new.done : primary.stream[i] = "getack"
                THEN [acks EXCEPT ![s] = replicationSendAck(s, new)] ELSE acks
     /\ UNCHANGED primary /\ told' = Nothing

SlaveCron(s) ==
  /\ primary.slaves[s].online /\ Len(acks[s]) < ackPlan.maxAcks
  /\ acks' = [acks EXCEPT ![s] = replicationSendAck(s, replica[s])]
  /\ UNCHANGED <<primary, replica>> /\ told' = Nothing

SlavePaused(s) ==
  /\ ~ replica[s].paused
  /\ primary.faults < ackPlan.maxFaults
  /\ primary' = [primary EXCEPT !.faults = @ + 1]
  /\ replica' = [replica EXCEPT ![s].paused = TRUE]
  /\ UNCHANGED acks /\ told' = Nothing

\* the pause ends: what was read meanwhile is executed
SlaveResumes(s) ==
  LET r == replica[s]
  IN /\ r.paused
     /\ replica' = [replica EXCEPT ![s] = [r EXCEPT !.paused = FALSE, !.done = r.read]]
     /\ acks' = IF primary.slaves[s].online /\ \E i \in (r.done + 1)..r.read : primary.stream[i] = "getack"
                THEN [acks EXCEPT ![s] = replicationSendAck(s, r)] ELSE acks
     /\ UNCHANGED primary /\ told' = Nothing

AckNext ==
  /\ UNCHANGED ackPlan
  /\ \/ \E c \in Waiter : WriteCommand(c) \/ waitCommand(c) \/ WaiterCloses(c)
     \/ BeforeSleep
     \/ \E passed \in 0..ackPlan.maxTime, ping \in BOOLEAN : ServerCron(passed, ping)
     \/ \E s \in Replica : SlaveOnline(s) \/ SlaveFreed(s) \/ replconfAck(s) \/ SlaveCron(s) \/ SlavePaused(s) \/ SlaveResumes(s)
     \/ \E s \in Replica, n \in 1..ackPlan.maxStream : SlaveReads(s, n)

AckSpec == AckInit /\ [][AckNext]_ackVars

-----------------------------------------------------------------------------

(* A client that WAIT answers with n may rely on n slaves having read its  *)
(* last write and everything before it (waitCommand,                       *)
(* processClientsWaitingReplicas, replyToBlockedClientTimedOut), however   *)
(* slaves came and went and acknowledgements were delayed.                 *)
WaitTruthful == told.n <= told.read

(* "WAIT for N replicas to acknowledge the processing of our latest write  *)
(* command": the n slaves of the answer have executed it.                  *)
WaitProcessed == told.n <= told.done

\* the slaves that are attached and were heard of in the last maxLag seconds before time
GoodAt(time) == {s \in Replica : primary.slaves[s].online /\ time - primary.slaves[s].ackTime <= ackPlan.maxLag}

WriteAccepted == Offset(primary)' > Offset(primary) /\ primary'.stream[Len(primary'.stream)] = "write" /\ Guarded

(* processCommand() looks at a count made earlier, and time goes on before *)
(* the next one. Still, when a write is accepted min-slaves-to-write       *)
(* slaves are attached, none of them one that has left since the count,    *)
(* and each was heard of within min-slaves-max-lag of the last turn of     *)
(* replicationCron(): its lag is at most that, and the time since then.    *)
WritesHaveGoodSlaves ==
  [][WriteAccepted => Cardinality(GoodAt(primary.cron)) >= ackPlan.minSlaves]_ackVars

(* "prevent writes if there are not enough connected slaves with the       *)
(* specified lag (or less)" (replication.c:2129), at the time of the write. *)
WritesWithinLag ==
  [][WriteAccepted => Cardinality(GoodAt(primary.now)) >= ackPlan.minSlaves]_ackVars
=============================================================================
