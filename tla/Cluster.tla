------------------------------ MODULE Cluster ------------------------------
(***************************************************************************)
(* The cluster bus of cluster.c among nodes that know each other: epochs,  *)
(* slot ownership carried by heartbeats and UPDATE messages, the election  *)
(* of a slave, manual failover, resolution of epoch collisions, and what a *)
(* restarted node finds in nodes.conf.  Failure detection and membership   *)
(* are in ClusterFailures, keys and their moves in Resharding; here a      *)
(* node's FAIL flags come and go as they may.                              *)
(*                                                                         *)
(* A handler and the clusterBeforeSleep() that follows it are one action:  *)
(* what a handler sends is only written by the next iteration of the event *)
(* loop.  Messages may be delayed, overtake each other (every pair of      *)
(* nodes has two TCP connections) and get lost with a link.                *)
(***************************************************************************)
EXTENDS Integers, FiniteSets, FiniteSetsExt

CONSTANTS
  Node,       \* node names, numbers: memcmp() orders them
  Slot,       \* hash slots, numbers
  Scenario    \* where a run starts and how often what may happen in it, see below

NoNode == 0

\* A scenario is a starting configuration with the nodes cut off from the others, and
\* the bounds of the run: the epochs reached, heartbeats under way at a time, writes,
\* manual failovers and those of them asked for before the last one is over, expired
\* timers, partitions and restarts; "back" are the nodes that may be reconnected, once.
Bound == {"epochs", "heartbeats", "writes", "manual", "overlaps", "timers", "cuts", "restarts"}

ASSUME ClusterAssumption ==
  /\ Node \subseteq Nat \ {0}
  /\ Slot \subseteq Nat
  /\ \A sc \in Scenario :
       /\ sc.owner \in [Slot -> Node]
       /\ sc.master \in [Node -> Node \cup {NoNode}]
       /\ sc.epoch \in [Node -> Nat]
       /\ sc.cut \subseteq Node /\ sc.back \subseteq Node
       /\ sc.max \in [Bound -> Nat]

VARIABLES
  node,       \* what each node holds in memory
  disk,       \* its nodes.conf
  cut,        \* nodes no message reaches or leaves
  net,        \* messages under way
  offset,     \* replication offset of each node
  won,        \* <<epoch, node>> of the elections won
  mfloss,     \* writes a completed, unforced manual failover left behind
  back,       \* nodes that may still be reconnected
  left        \* what is left of the bounds

ClusterVars == <<node, disk, cut, net, offset, won, mfloss, back, left>>

-----------------------------------------------------------------------------
(* clusterState and the clusterNode table of one node                      *)

Config(cur, vote, epochs, so, owner, failing) ==
  [currentEpoch |-> cur, lastVoteEpoch |-> vote, configEpoch |-> epochs,
   slaveof |-> so, slots |-> owner, fail |-> failing]

NoAuth == [window |-> FALSE, sent |-> FALSE, count |-> 0, epoch |-> 0]
NoManual == [end |-> 0, can_start |-> FALSE, slave |-> NoNode, master_offset |-> 0, forced |-> FALSE]

Running(cfg) ==
  [cfg |-> cfg, voted |-> {}, auth |-> NoAuth, mf |-> NoManual, paused |-> FALSE]

\* mf_end is a place in the order in which deadlines pass: each is set as far ahead as any other
InManual(st) == st.mf.end > 0
ManualDeadline == 1 + Max({node[n].mf.end : n \in Node})

IsMaster(c, n) == c.slaveof[n] = NoNode
SlotsOf(c, n) == {s \in Slot : c.slots[s] = n}
MasterOf(c, n) == IF IsMaster(c, n) THEN n ELSE c.slaveof[n]

\* cluster->size, recomputed by clusterUpdateState() whenever a role or a slot changed
Size(c) == Cardinality({n \in Node : IsMaster(c, n) /\ SlotsOf(c, n) # {}})
NeededQuorum(c) == Size(c) \div 2 + 1

clusterGetMaxEpoch(c) == Max({c.configEpoch[n] : n \in Node} \cup {c.currentEpoch})

ClusterInit ==
  \E sc \in Scenario :
    LET cfg == Config(Max({sc.epoch[n] : n \in Node}), 0, sc.epoch, sc.master, sc.owner, {})
    IN  /\ node = [n \in Node |-> Running([cfg EXCEPT !.fail = sc.cut \ {n}])]
        /\ disk = [n \in Node |-> node[n].cfg]
        /\ cut = sc.cut
        /\ net = {}
        /\ offset = [n \in Node |-> 1]
        /\ won = {}
        /\ mfloss = FALSE
        /\ back = sc.back
        /\ left = sc.max

Use(what) == left[what] > 0 /\ left' = [left EXCEPT ![what] = @ - 1]

-----------------------------------------------------------------------------
(* Messages                                                                *)

clusterBuildMessageHdr(i, st, type, dest) ==
  LET c == st.cfg
      m == MasterOf(c, i)
  IN  [type |-> type, from |-> i, to |-> dest, currentEpoch |-> c.currentEpoch,
       configEpoch |-> c.configEpoch[m], slaveof |-> c.slaveof[i], myslots |-> SlotsOf(c, m),
       paused |-> InManual(st) /\ IsMaster(c, i),
       offset |-> IF InManual(st) /\ IsMaster(c, i) THEN offset[i] ELSE 0, forceack |-> FALSE,
       about |-> NoNode, aboutEpoch |-> 0, aboutSlots |-> {}]

\* the nodes among dests to which i has a working link
Reachable(i, dests) == IF i \in cut THEN {} ELSE dests \ (cut \cup {i})

clusterBroadcastPong(i, st, dests) ==
  {clusterBuildMessageHdr(i, st, "PONG", d) : d \in Reachable(i, dests)}

clusterRequestFailoverAuth(i, st) ==
  {[clusterBuildMessageHdr(i, st, "AUTH_REQUEST", d) EXCEPT !.forceack = InManual(st)] :
     d \in Reachable(i, Node)}

clusterSendUpdate(i, st, dest, n) ==
  [clusterBuildMessageHdr(i, st, "UPDATE", dest) EXCEPT
     !.about = n, !.aboutEpoch = st.cfg.configEpoch[n], !.aboutSlots = SlotsOf(st.cfg, n)]

-----------------------------------------------------------------------------
(* Changes of a configuration                                              *)

clusterSetNodeAsMaster(c, n) == [c EXCEPT !.slaveof[n] = NoNode]

clusterDelNodeSlots(c, n) ==
  [c EXCEPT !.slots = [s \in Slot |-> IF @[s] = n THEN NoNode ELSE @[s]]]

resetManualFailover(st) ==
  [st EXCEPT !.mf = NoManual, !.paused = IF InManual(st) THEN FALSE ELSE @]

\* the caller becomes a slave of n: it owns no slot any more
clusterSetMaster(st, i, n) ==
  resetManualFailover([st EXCEPT !.cfg.slaveof[i] = n])

\* mutant: whoever claims a slot last gets it
UpdateSlotsOnClaim(st, i, n, epoch, claimed) ==
  IF n = i THEN st
  ELSE [st EXCEPT !.cfg.slots = [s \in Slot |-> IF s \in claimed THEN n ELSE @[s]]]

\* slots claimed with a newer epoch change hands; who lost the last slot, or whose
\* master did, follows the new owner
clusterUpdateSlotsConfigWith(st, i, n, epoch, claimed) ==
  LET c == st.cfg
      cur == MasterOf(c, i)
      taken == {s \in claimed : /\ c.slots[s] # n
                                /\ \/ c.slots[s] = NoNode
                                   \/ c.configEpoch[c.slots[s]] < epoch}
      c2 == [c EXCEPT !.slots = [s \in Slot |-> IF s \in taken THEN n ELSE @[s]]]
      st2 == [st EXCEPT !.cfg = c2]
  IN  IF n = i THEN st
      ELSE IF (\E s \in taken : c.slots[s] = cur) /\ SlotsOf(c2, cur) = {}
           THEN clusterSetMaster(st2, i, n)
           ELSE st2

\* mutant: the current epoch is taken without moving it on
CollisionTakesOldEpoch(c, i, sender) ==
  IF c.configEpoch[sender] = c.configEpoch[i] /\ sender > i
  THEN [c EXCEPT !.configEpoch[i] = c.currentEpoch] ELSE c

clusterHandleConfigEpochCollision(c, i, sender) ==
  IF /\ c.configEpoch[sender] = c.configEpoch[i] /\ sender > i
     /\ IsMaster(c, sender) /\ IsMaster(c, i)
  THEN [c EXCEPT !.currentEpoch = @ + 1, !.configEpoch[i] = c.currentEpoch + 1]
  ELSE c

-----------------------------------------------------------------------------
(* clusterProcessPacket()                                                  *)

\* epochs of a known sender, and the offset a paused master tells its slave
ProcessHeader(st, i, m) ==
  [st EXCEPT !.cfg.currentEpoch = Max({@, m.currentEpoch}),
             !.cfg.configEpoch[m.from] = Max({@, m.configEpoch}),
             !.mf.master_offset = IF /\ InManual(st) /\ ~IsMaster(st.cfg, i) /\ m.paused
                                     /\ st.cfg.slaveof[i] = m.from /\ @ = 0
                                  THEN m.offset ELSE @]

\* the sender may have become a master, or a slave, or a slave of another master
ProcessRole(c, m) ==
  IF m.slaveof = NoNode THEN clusterSetNodeAsMaster(c, m.from)
  ELSE [(IF IsMaster(c, m.from) THEN clusterDelNodeSlots(c, m.from) ELSE c)
          EXCEPT !.slaveof[m.from] = m.slaveof]

DirtySlots(c, m) ==
  LET sm == MasterOf(c, m.from) IN SlotsOf(c, sm) # m.myslots

\* slots the sender claims although we know a newer owner: it is told of one of them
\* (the code takes the lowest slot)
OutdatedClaims(c, m) ==
  {s \in m.myslots : /\ c.slots[s] \notin {m.from, NoNode}
                     /\ c.configEpoch[c.slots[s]] > m.configEpoch}

ProcessPingPong(st, i, m) ==
  LET st1 == [st EXCEPT !.cfg = ProcessRole(@, m)]
      dirty == DirtySlots(st1.cfg, m)
      st2 == IF IsMaster(st1.cfg, m.from) /\ dirty
             THEN clusterUpdateSlotsConfigWith(st1, i, m.from, m.configEpoch, m.myslots)
             ELSE st1
      old == IF dirty THEN OutdatedClaims(st2.cfg, m) ELSE {}
      st3 == IF /\ IsMaster(st2.cfg, i) /\ IsMaster(st2.cfg, m.from)
                /\ m.configEpoch = st2.cfg.configEpoch[i]
             THEN [st2 EXCEPT !.cfg = clusterHandleConfigEpochCollision(@, i, m.from)]
             ELSE st2
  IN  [st |-> st3,
       out |-> IF old = {} THEN {}
               ELSE {clusterSendUpdate(i, st2, m.from, st2.cfg.slots[Min(old)])}]

\* mutant: the epoch of the last vote is not looked at
CanVoteTwice(st, i, m) ==
  LET c == st.cfg
  IN  /\ IsMaster(c, i) /\ SlotsOf(c, i) # {}
      /\ m.currentEpoch >= c.currentEpoch
      /\ ~IsMaster(c, m.from)
      /\ c.slaveof[m.from] \in c.fail \/ m.forceack
      /\ c.slaveof[m.from] \notin st.voted

CanVote(st, i, m) ==
  LET c == st.cfg
  IN  /\ IsMaster(c, i) /\ SlotsOf(c, i) # {}
      /\ m.currentEpoch >= c.currentEpoch
      /\ c.lastVoteEpoch # c.currentEpoch
      /\ ~IsMaster(c, m.from)
      /\ c.slaveof[m.from] \in c.fail \/ m.forceack
      /\ c.slaveof[m.from] \notin st.voted
      /\ \A s \in m.myslots : \/ c.slots[s] = NoNode
                              \/ c.configEpoch[c.slots[s]] <= m.configEpoch

clusterSendFailoverAuthIfNeeded(st, i, m) ==
  IF CanVote(st, i, m)
  THEN [st |-> [st EXCEPT !.cfg.lastVoteEpoch = st.cfg.currentEpoch,
                          !.voted = @ \cup {st.cfg.slaveof[m.from]}],
        out |-> {clusterBuildMessageHdr(i, st, "AUTH_ACK", m.from)}]
  ELSE [st |-> st, out |-> {}]

ProcessAck(st, m) ==
  LET c == st.cfg
  IN  IF /\ IsMaster(c, m.from) /\ SlotsOf(c, m.from) # {}
         /\ m.currentEpoch >= st.auth.epoch
      THEN [st EXCEPT !.auth.count = @ + 1]
      ELSE st

\* mutant: the clients are not paused
MFStartWithoutPause(st, i, m) ==
  IF st.cfg.slaveof[m.from] # i THEN st
  ELSE [resetManualFailover(st) EXCEPT !.mf.end = ManualDeadline, !.mf.slave = m.from]

\* a slave of ours asks for a manual failover: clients are paused
ProcessMFStart(st, i, m) ==
  IF st.cfg.slaveof[m.from] # i THEN st
  ELSE [resetManualFailover(st) EXCEPT !.mf.end = ManualDeadline, !.mf.slave = m.from, !.paused = TRUE]

ProcessUpdate(st, i, m) ==
  IF st.cfg.configEpoch[m.about] >= m.aboutEpoch THEN st
  ELSE clusterUpdateSlotsConfigWith(
         [st EXCEPT !.cfg = [clusterSetNodeAsMaster(@, m.about) EXCEPT
                               !.configEpoch[m.about] = m.aboutEpoch]],
         i, m.about, m.aboutEpoch, m.aboutSlots)

\* todo_before_sleep asks for a save whenever a role, a slot or a configEpoch changed,
\* but not for a vote and not when only currentEpoch moved
NeedsSave(old, new) ==
  \/ old.configEpoch # new.configEpoch \/ old.slaveof # new.slaveof
  \/ old.slots # new.slots \/ old.fail # new.fail

clusterBeforeSleep(i, st, force) ==
  /\ node' = [node EXCEPT ![i] = st]
  /\ disk' = IF force \/ NeedsSave(node[i].cfg, st.cfg)
             THEN [disk EXCEPT ![i] = st.cfg] ELSE disk

clusterProcessPacket(m) ==
  LET i == m.to
      st == ProcessHeader(node[i], i, m)
      r == CASE m.type \in {"PING", "PONG"} -> ProcessPingPong(st, i, m)
             [] m.type = "AUTH_REQUEST" -> clusterSendFailoverAuthIfNeeded(st, i, m)
             [] m.type = "AUTH_ACK" -> [st |-> ProcessAck(st, m), out |-> {}]
             [] m.type = "MFSTART" -> [st |-> ProcessMFStart(st, i, m), out |-> {}]
             [] m.type = "UPDATE" -> [st |-> ProcessUpdate(st, i, m), out |-> {}]
  IN  /\ m \in net
      /\ r.st.cfg.currentEpoch <= left.epochs
      /\ net' = (net \ {m}) \cup r.out
      /\ clusterBeforeSleep(i, r.st, FALSE)
      /\ UNCHANGED <<cut, offset, won, mfloss, back, left>>

-----------------------------------------------------------------------------
(* clusterCron(), commands and the environment                             *)

\* periodic PING, or the PONG that answers one; both carry the same header
Heartbeat(i, j) ==
  /\ j \in Reachable(i, Node)
  /\ Cardinality({m \in net : m.type = "PING"}) < left.heartbeats
  /\ net' = net \cup {clusterBuildMessageHdr(i, node[i], "PING", j)}
  /\ UNCHANGED <<cut, node, disk, offset, won, mfloss, back, left>>

\* while a manual failover is on, the master pings the slave at every cron
PingMfSlave(i) ==
  /\ IsMaster(node[i].cfg, i) /\ InManual(node[i])
  /\ LET ping == clusterBuildMessageHdr(i, node[i], "PING", node[i].mf.slave)
     IN  ping \notin net /\ node[i].mf.slave \in Reachable(i, Node) /\ net' = net \cup {ping}
  /\ UNCHANGED <<cut, node, disk, offset, won, mfloss, back, left>>

\* external, ClusterFailures: a node is cut off from the others, which agree that it
\* failed (what is under way to and from it is lost), it is reachable again, and later
\* its FAIL flag is cleared
Cut(n) ==
  /\ n \notin cut
  /\ Use("cuts")
  /\ cut' = cut \cup {n}
  /\ node' = [i \in Node |-> IF i = n THEN node[i] ELSE [node[i] EXCEPT !.cfg.fail = @ \cup {n}]]
  /\ disk' = [i \in Node |-> IF i = n THEN disk[i] ELSE node'[i].cfg]
  /\ net' = {m \in net : n \notin {m.from, m.to}}
  /\ UNCHANGED <<offset, won, mfloss, back>>

Heal(n) ==
  /\ n \in cut \cap back
  /\ back' = back \ {n}
  /\ cut' = cut \ {n}
  /\ UNCHANGED <<node, disk, net, offset, won, mfloss, left>>

ClearFail(n) ==
  /\ n \notin cut /\ \E i \in Node : n \in node[i].cfg.fail
  /\ node' = [i \in Node |-> [node[i] EXCEPT !.cfg.fail = @ \ {n}]]
  /\ disk' = [i \in Node |-> IF i = n THEN disk[i] ELSE node'[i].cfg]
  /\ UNCHANGED <<cut, net, offset, won, mfloss, back, left>>

ManualFailover(st) == InManual(st) /\ st.mf.can_start

\* the first test of clusterHandleSlaveFailover()
MayFailOver(i) ==
  LET st == node[i]
      m == st.cfg.slaveof[i]
  IN  /\ m # NoNode
      /\ m \in st.cfg.fail \/ ManualFailover(st)
      /\ SlotsOf(st.cfg, m) # {}

\* a new election is scheduled, to begin after a delay; the PONG for the other slaves of
\* the master, which shows them our offset, is a Heartbeat
ScheduleElection(i) ==
  /\ MayFailOver(i)
  /\ ~node[i].auth.window
  /\ node' = [node EXCEPT ![i].auth = [window |-> TRUE, sent |-> FALSE, count |-> 0,
                                       epoch |-> @.epoch]]
  /\ UNCHANGED <<cut, disk, net, offset, won, mfloss, back, left>>

StartElection(i) ==
  /\ MayFailOver(i)
  /\ node[i].auth.window /\ ~node[i].auth.sent
  /\ node[i].cfg.currentEpoch < left.epochs
  /\ LET e == node[i].cfg.currentEpoch + 1
         st == [node[i] EXCEPT !.cfg.currentEpoch = e, !.auth.epoch = e, !.auth.sent = TRUE]
     IN  /\ clusterBeforeSleep(i, st, TRUE)
         /\ net' = net \cup clusterRequestFailoverAuth(i, st)
  /\ UNCHANGED <<cut, offset, won, mfloss, back, left>>

\* enough votes: the slave takes the slots, saves and tells everybody
WinElection(i) ==
  /\ MayFailOver(i)
  /\ node[i].auth.window /\ node[i].auth.sent
  /\ node[i].auth.count >= NeededQuorum(node[i].cfg)
  /\ LET c == node[i].cfg
         m == c.slaveof[i]
         c2 == [clusterSetNodeAsMaster(c, i) EXCEPT
                  !.slots = [s \in Slot |-> IF @[s] = m THEN i ELSE @[s]],
                  !.configEpoch[i] = node[i].auth.epoch]
         st == resetManualFailover([node[i] EXCEPT !.cfg = c2])
     IN  /\ clusterBeforeSleep(i, st, TRUE)
         /\ net' = net \cup clusterBroadcastPong(i, st, Node)
         /\ won' = won \cup {<<node[i].auth.epoch, i>>}
         /\ mfloss' = (mfloss \/ (/\ ManualFailover(node[i]) /\ ~node[i].mf.forced
                                  /\ IsMaster(node[m].cfg, m) /\ offset[i] < offset[m]))
  /\ UNCHANGED <<cut, offset, back, left>>

\* the election expires; the next one may be scheduled after another while
AuthTimer(i) ==
  /\ node[i].auth.window
  /\ Use("timers")
  /\ node' = [node EXCEPT ![i].auth.window = FALSE]
  /\ UNCHANGED <<cut, disk, net, offset, won, mfloss, back>>

\* two node timeouts after a vote about a master; by then the election is over
VoteTimer(i) ==
  /\ node[i].voted # {}
  /\ Use("timers")
  /\ node' = [node EXCEPT ![i].voted = {}]
  /\ UNCHANGED <<cut, disk, net, offset, won, mfloss, back>>

\* an attempt is in force at a node, or what was sent in one is on its way
ManualUnderWay == \/ \E n \in Node : InManual(node[n])
                  \/ \E m \in net : m.type = "MFSTART" \/ m.paused

\* CLUSTER FAILOVER [FORCE]
ClusterFailoverCommand(i, force) ==
  LET m == node[i].cfg.slaveof[i]
  IN  /\ m # NoNode
      /\ force \/ m \notin node[i].cfg.fail
      /\ left.manual > 0 /\ (ManualUnderWay => left.overlaps > 0)
      /\ left' = [left EXCEPT !.manual = @ - 1, !.overlaps = IF ManualUnderWay THEN @ - 1 ELSE @]
      /\ node' = [node EXCEPT ![i].mf = [NoManual EXCEPT !.end = ManualDeadline, !.can_start = force,
                                                         !.forced = force]]
      /\ net' = IF force THEN net
                ELSE net \cup {clusterBuildMessageHdr(i, node'[i], "MFSTART", m)}
      /\ UNCHANGED <<cut, disk, offset, won, mfloss, back>>

clusterHandleManualFailover(i) ==
  /\ InManual(node[i]) /\ ~node[i].mf.can_start /\ ~IsMaster(node[i].cfg, i)
  /\ node[i].mf.master_offset # 0
  /\ node[i].mf.master_offset = offset[i]
  /\ node' = [node EXCEPT ![i].mf.can_start = TRUE]
  /\ UNCHANGED <<cut, disk, net, offset, won, mfloss, back, left>>

\* deadlines are noticed in the order in which they pass
manualFailoverCheckTimeout(i) ==
  /\ InManual(node[i])
  /\ \A n \in Node : InManual(node[n]) => node[i].mf.end <= node[n].mf.end
  /\ node' = [node EXCEPT ![i] = resetManualFailover(@)]
  /\ UNCHANGED <<cut, disk, net, offset, won, mfloss, back, left>>

\* a client writes to a master that serves the slots of Owner0[s]
Write(i) ==
  /\ Use("writes")
  /\ IsMaster(node[i].cfg, i) /\ SlotsOf(node[i].cfg, i) # {} /\ ~node[i].paused
  /\ offset' = [offset EXCEPT ![i] = @ + 1]
  /\ UNCHANGED <<cut, node, disk, net, won, mfloss, back>>

\* external: the replication link brings a slave up to date (module Replication)
Replicate(i) ==
  LET m == node[i].cfg.slaveof[i]
  IN  /\ m # NoNode /\ offset[i] # offset[m]
      /\ offset' = [offset EXCEPT ![i] = IF @ < offset[m] THEN @ + 1 ELSE offset[m]]
      /\ UNCHANGED <<cut, node, disk, net, won, mfloss, back, left>>

\* a node dies and starts again from nodes.conf; the links it had are gone
Restart(i) ==
  LET c == disk[i]
  IN  /\ Use("restarts")
      /\ node' = [node EXCEPT ![i] = Running([c EXCEPT !.currentEpoch = clusterGetMaxEpoch(c)])]
      /\ net' = {m \in net : m.to # i}
      /\ UNCHANGED <<cut, disk, offset, won, mfloss, back>>

ClusterNext ==
  \/ \E m \in net : clusterProcessPacket(m)
  \/ \E i, j \in Node : Heartbeat(i, j)
  \/ \E i \in Node : \/ Cut(i) \/ Heal(i) \/ ClearFail(i) \/ PingMfSlave(i)
                     \/ ScheduleElection(i) \/ StartElection(i) \/ WinElection(i)
                     \/ AuthTimer(i) \/ VoteTimer(i)
                     \/ \E force \in BOOLEAN : ClusterFailoverCommand(i, force)
                     \/ clusterHandleManualFailover(i) \/ manualFailoverCheckTimeout(i)
                     \/ Write(i) \/ Replicate(i) \/ Restart(i)

ClusterSpec == ClusterInit /\ [][ClusterNext]_ClusterVars

-----------------------------------------------------------------------------
(* Properties                                                              *)

\* Two slaves never win an election with the same epoch: a voter votes once per epoch
\* (lastVoteEpoch) and the winner needs a majority of the masters that serve slots, so
\* no two masters come to own the same slots with the same configEpoch.
OneWinnerPerEpoch ==
  \A a, b \in won : a[1] = b[1] => a[2] = b[2]

\* A manual failover that was not forced never promotes a slave that lacks a write its
\* master accepted: the master pauses its clients, tells its offset, and the slave waits
\* until it has that offset before it asks for votes.
ManualFailoverKeepsWrites == ~mfloss

\* no message is under way and no heartbeat would change anything
Quiet ==
  /\ net = {}
  /\ \A i, j \in Node \ cut : i # j =>
       LET m == clusterBuildMessageHdr(i, node[i], "PING", j)
           r == ProcessPingPong(ProcessHeader(node[j], j, m), j, m)
       IN  r.st = node[j] /\ r.out = {}

\* When heartbeats have nothing left to change, all connected nodes agree who owns each
\* slot, and no two masters among them have the same configEpoch: rebinding of slots,
\* UPDATE messages and the collision handler leave no stable disagreement behind.
QuietIsConverged ==
  Quiet => LET on == Node \ cut
           IN  /\ \A i, j \in on : node[i].cfg.slots = node[j].cfg.slots
               /\ \A i, j \in on : i # j /\ IsMaster(node[i].cfg, i) /\ IsMaster(node[j].cfg, j)
                                => node[i].cfg.configEpoch[i] # node[j].cfg.configEpoch[j]

\* In no node's table does a slot go from one owner to another whose configEpoch is not
\* greater than the one of the owner replaced, whatever stale heartbeats, UPDATEs or votes
\* arrive: the last failover wins.
NoOlderOwner ==
  [][\A i \in Node, s \in Slot :
       LET o == node[i].cfg.slots[s]
           n == node'[i].cfg.slots[s]
       IN  o # n /\ o # NoNode /\ n # NoNode
             => node'[i].cfg.configEpoch[n] > node[i].cfg.configEpoch[o]]_ClusterVars

=============================================================================
