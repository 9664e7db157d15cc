-------------------------- MODULE ClusterFailures --------------------------
(***************************************************************************)
(* Membership and failure detection of the cluster bus (cluster.c): the    *)
(* table of known nodes, handshakes begun by CLUSTER MEET and by gossip,   *)
(* CLUSTER FORGET and its blacklist, CLUSTER RESET, changes of address,    *)
(* restarts from nodes.conf, and how an unanswered ping becomes PFAIL, a   *)
(* failure report and FAIL.  Roles do not change here (see Cluster).       *)
(*                                                                         *)
(* A link belongs to the table entry that opened it: requests travel out   *)
(* on it and PONGs come back; what is unread when it is closed is lost.    *)
(* Timers are not measured: what may expire is armed first, and then       *)
(* expires when it likes.  A handler and the clusterBeforeSleep() after it *)
(* are one action.                                                         *)
(***************************************************************************)
EXTENDS Integers, Sequences, FiniteSets

CONSTANTS
  Process,   \* server processes, numbers
  Net        \* the networks a run starts from and what may happen to them, see NetAssumption

Nowhere == 0

\* Entries of a table: known nodes by name - a process and how many names it had before -
\* and nodes in handshake, whose random name stands for no node.
Name(p, n) == <<"node", p, n>>
Meeting(a) == <<"meet", a, 0>>
Met(a, n) == <<"met", a, n>>
InHandshake(k) == k[1] # "node"

\* What a network allows, each item once: commands, restarts (perhaps at another address)
\* and timers; "pings" are the periodic heartbeats sent, "suspects" the pairs whose node
\* timeout may run out, "topics" the nodes that the random choice of gossip falls on.
ASSUME NetAssumption ==
  /\ Process \subseteq Nat \ {0}
  /\ \A w \in Net :
       /\ w.role \in [Process -> {"master", "empty", "slave"}]
       /\ w.mesh \subseteq Process
       /\ w.pings \subseteq Process \X Process
       /\ w.suspects \subseteq Process \X Process
       /\ w.topics \subseteq Process
       /\ w.meet \subseteq Process \X Nat
       /\ w.forget \subseteq Process \X Process
       /\ w.reset \subseteq Process \X BOOLEAN
       /\ w.restart \subseteq Process \X Nat
       /\ w.timers \in Nat

VARIABLES
  server,     \* what each process holds: its name, address, table of nodes, blacklist...
  allowed,        \* what the network still allows
  timedout,   \* <<process, name>>: its own ping to that node went unanswered too long
  credited    \* <<name, name>>: a PONG of the second cleared the timers of the first

failVars == <<server, allowed, timedout, credited>>

-----------------------------------------------------------------------------
(* The table of nodes                                                      *)

NoLink == [to |-> -1, out |-> <<>>, back |-> <<>>]
Up(l) == l # NoLink

createClusterNode(a, meets) ==
  [addr |-> a, noaddr |-> FALSE, meet |-> meets, state |-> "ok", undo |-> FALSE,
   slots |-> FALSE, reports |-> {}, link |-> NoLink, ping |-> FALSE]

Put(s, k, e) ==
  [s EXCEPT !.nodes = [x \in (DOMAIN @) \cup {k} |-> IF x = k THEN e ELSE @[x]]]
freeClusterNode(s, k) ==
  [s EXCEPT !.nodes = [x \in (DOMAIN @) \ {k} |-> @[x]]]
freeClusterLink(s, k) == [s EXCEPT !.nodes[k].link = NoLink]

\* the node, its slots and the reports it sent
clusterDelNode(s, k) ==
  LET t == freeClusterNode(s, k)
  IN  [t EXCEPT !.nodes = [x \in DOMAIN @ |-> [@[x] EXCEPT !.reports = @ \ {k}]]]

clusterRenameNode(s, k, name) == Put(freeClusterNode(s, k), name, s.nodes[k])

Known(s, name) == name \in DOMAIN s.nodes
Nodes(s) == {k \in DOMAIN s.nodes : ~InHandshake(k)}

\* a name taken by CLUSTER RESET HARD is that of a master without slots
RoleOf(name) == IF name[3] > 0 THEN "empty" ELSE allowed.role[name[2]]
nodeIsMaster(name) == RoleOf(name) # "slave"

clusterHandshakeInProgress(s, a) ==
  \E k \in DOMAIN s.nodes : InHandshake(k) /\ s.nodes[k].addr = a

clusterStartHandshake(s, a) ==
  IF clusterHandshakeInProgress(s, a) THEN s
  ELSE Put(s, Meeting(a), createClusterNode(a, TRUE))

\* a MEET of an unknown node: its handshake begins whether or not one is under way
AddMet(s, a) ==
  Put(s, Met(a, CHOOSE n \in 0..Cardinality(DOMAIN s.nodes) : ~Known(s, Met(a, n))),
      createClusterNode(a, FALSE))

nodeUpdateAddressIfNeeded(s, k, a) ==
  IF s.nodes[k].addr = a THEN s
  ELSE [s EXCEPT !.nodes[k].addr = a, !.nodes[k].link = NoLink, !.todo = TRUE]

-----------------------------------------------------------------------------
(* Messages                                                                *)

NoGossip == [about |-> Name(0, 0), addr |-> Nowhere, failing |-> FALSE]

\* the entries clusterSendPing() may pick; its one or more become none or one here
Gossip(s) ==
  {NoGossip} \cup
  IF Cardinality(DOMAIN s.nodes) + 1 <= 2 THEN {}
  ELSE {[about |-> k, addr |-> s.nodes[k].addr, failing |-> s.nodes[k].state # "ok"] :
          k \in {x \in Nodes(s) : /\ x[2] \in allowed.topics /\ ~s.nodes[x].noaddr
                                  /\ Up(s.nodes[x].link) \/ s.nodes[x].slots}}

Packet(s, type, g, about) ==
  [type |-> type, sender |-> s.name, addr |-> s.at, slots |-> s.slots, gossip |-> g, about |-> about]

Send(s, k, m) == [s EXCEPT !.nodes[k].link.out = Append(@, m)]

clusterSendPing(s, k, g) == [Send(s, k, Packet(s, "PING", g, s.name)) EXCEPT !.nodes[k].ping = TRUE]

clusterSendFail(s, name) ==
  [s EXCEPT !.nodes = [k \in DOMAIN @ |->
     IF ~InHandshake(k) /\ Up(@[k].link)
     THEN [@[k] EXCEPT !.link.out = Append(@, Packet(s, "FAIL", NoGossip, name))]
     ELSE @[k]]]

-----------------------------------------------------------------------------
(* Failure reports                                                         *)

MarkFailed(s, k) ==
  [s EXCEPT !.nodes[k].state = "fail", !.nodes[k].undo = FALSE, !.todo = TRUE]

markNodeAsFailingIfNeeded(s, k) ==
  LET mine == IF nodeIsMaster(s.name) THEN 1 ELSE 0
      failures == Cardinality(s.nodes[k].reports) + mine
  IN  IF s.nodes[k].state # "pfail" \/ failures < s.size \div 2 + 1 THEN s
      ELSE IF mine = 1 THEN clusterSendFail(MarkFailed(s, k), k)
      ELSE MarkFailed(s, k)

clusterNodeAddFailureReport(s, k, sender) == [s EXCEPT !.nodes[k].reports = @ \cup {sender}]
clusterNodeDelFailureReport(s, k, sender) == [s EXCEPT !.nodes[k].reports = @ \ {sender}]

\* slaves and masters without slots are back at once, other masters when nobody took
\* over for long enough ("undo": fail_time is old)
clearNodeFailureIfNeeded(s, k) ==
  IF ~nodeIsMaster(k) \/ ~s.nodes[k].slots \/ s.nodes[k].undo
  THEN [s EXCEPT !.nodes[k].state = "ok", !.todo = TRUE]
  ELSE s

clusterBlacklistExists(s, name) == name \in s.black

\* mutant: gossip about a node in the blacklist is followed
GossipIgnoresBlacklist(s, sender, g) ==
  IF g.about \in {NoGossip.about, s.name} \/ Known(s, g.about) \/ ~Known(s, sender) THEN s
  ELSE clusterStartHandshake(s, g.addr)

GossipAboutKnown(s, sender, g, t) ==
  IF t.nodes[g.about].state # "ok" /\ t.nodes[g.about].addr # g.addr
  THEN clusterStartHandshake(t, g.addr)
  ELSE t

\* mutant: slaves report failures too
GossipOfSlaves(s, sender, g) ==
  IF g.about \in {NoGossip.about, s.name} THEN s
  ELSE IF Known(s, g.about)
  THEN GossipAboutKnown(s, sender, g,
         IF ~Known(s, sender) THEN s
         ELSE IF g.failing
         THEN markNodeAsFailingIfNeeded(clusterNodeAddFailureReport(s, g.about, sender), g.about)
         ELSE clusterNodeDelFailureReport(s, g.about, sender))
  ELSE s

clusterProcessGossipSection(s, sender, g) ==
  IF g.about \in {NoGossip.about, s.name} THEN s
  ELSE IF Known(s, g.about)
  THEN GossipAboutKnown(s, sender, g,
         IF ~Known(s, sender) \/ ~nodeIsMaster(sender) THEN s
         ELSE IF g.failing
         THEN markNodeAsFailingIfNeeded(clusterNodeAddFailureReport(s, g.about, sender), g.about)
         ELSE clusterNodeDelFailureReport(s, g.about, sender))
  ELSE IF Known(s, sender) /\ ~clusterBlacklistExists(s, g.about)
  THEN clusterStartHandshake(s, g.addr)
  ELSE s

-----------------------------------------------------------------------------
(* cluster->size and cluster->state                                        *)

SlotOwners(s) == {k \in Nodes(s) : nodeIsMaster(k) /\ s.nodes[k].slots}

\* computed by clusterUpdateState() when a handler asked for it, not in the first moments
\* of a master; "rejoin": REDIS_CLUSTER_REJOIN_DELAY has passed since it was in a minority
clusterUpdateState(s, rejoin) ==
  LET size == Cardinality(SlotOwners(s)) + IF s.slots THEN 1 ELSE 0
      gone == {k \in SlotOwners(s) : s.nodes[k].state # "ok"}
      minority == Cardinality(gone) >= size \div 2 + 1
      ok == /\ ~minority
            /\ size = Cardinality({p \in allowed.mesh : allowed.role[p] = "master"})  \* no slot unassigned
            /\ \A k \in SlotOwners(s) : s.nodes[k].state # "fail"
  IN  IF s.young /\ nodeIsMaster(s.name) THEN [s EXCEPT !.todo = FALSE]
      ELSE [s EXCEPT !.todo = FALSE, !.size = size,
                     !.ok = IF ok /\ ~s.ok /\ nodeIsMaster(s.name) /\ ~rejoin THEN FALSE ELSE ok]

\* clusterBeforeSleep() after a handler
Settle(s) == IF s.todo THEN clusterUpdateState(s, FALSE) ELSE s

-----------------------------------------------------------------------------
(* Packets                                                                 *)

\* the slots in the header of a known sender
LearnSlots(s, name, m) ==
  IF Known(s, name) /\ m.slots /\ ~s.nodes[name].slots
  THEN [s EXCEPT !.nodes[name].slots = TRUE, !.todo = TRUE]
  ELSE s

\* a PING or MEET on a link somebody opened to us; the section of gossip is processed
\* before the PONG is sent and once more after it, which changes nothing
ReceivePing(s, m) ==
  LET met == IF m.type = "MEET" /\ ~Known(s, m.sender) /\ m.sender # s.name
             THEN AddMet(s, m.addr) ELSE s
      told == clusterProcessGossipSection(met, m.sender, m.gossip)
      moved == IF m.type = "PING" /\ Known(told, m.sender)
               THEN nodeUpdateAddressIfNeeded(told, m.sender, m.addr) ELSE told
  IN  [told |-> told, after |-> LearnSlots(moved, m.sender, m)]

ReceiveFail(s, m) ==
  IF Known(s, m.sender) /\ Known(s, m.about) /\ s.nodes[m.about].state # "fail"
  THEN MarkFailed(s, m.about)
  ELSE s

\* a PONG on the link of node k
Answered(s, k) ==
  LET t == [s EXCEPT !.nodes[k].ping = FALSE]
  IN  CASE t.nodes[k].state = "pfail" -> [t EXCEPT !.nodes[k].state = "ok", !.todo = TRUE]
        [] t.nodes[k].state = "fail" -> clearNodeFailureIfNeeded(t, k)
        [] OTHER -> t

\* mutant: whoever answers is taken for the node the link was opened to
PongOfAnybody(s, k, m) ==
  [after |-> IF InHandshake(k)
             THEN IF Known(s, m.sender) \/ m.sender = s.name THEN freeClusterNode(s, k)
                  ELSE clusterProcessGossipSection(
                         Answered(clusterRenameNode(s, k, m.sender), m.sender), m.sender, m.gossip)
             ELSE clusterProcessGossipSection(LearnSlots(Answered(s, k), m.sender, m), k, m.gossip),
   credit |-> IF InHandshake(k) THEN {} ELSE {<<k, m.sender>>}]

ReceivePong(s, k, m) ==
  IF InHandshake(k) /\ (Known(s, m.sender) \/ m.sender = s.name)
  THEN [after |-> freeClusterNode(IF m.sender = s.name THEN s
                                  ELSE nodeUpdateAddressIfNeeded(s, m.sender, m.addr), k),
        credit |-> {}]
  ELSE IF ~InHandshake(k) /\ m.sender # k
  THEN [after |-> [freeClusterLink(s, k) EXCEPT !.nodes[k].noaddr = TRUE, !.nodes[k].addr = Nowhere],
        credit |-> {}]
  ELSE LET known == IF InHandshake(k) THEN clusterRenameNode(s, k, m.sender)
                    ELSE LearnSlots(s, k, m)
       IN  [after |-> clusterProcessGossipSection(Answered(known, m.sender), m.sender, m.gossip),
            credit |-> {<<m.sender, m.sender>>}]

-----------------------------------------------------------------------------
(* The bus                                                                 *)

Booted(p, role, names) ==
  [name |-> Name(p, 0), at |-> p, slots |-> p \in names /\ role[p] = "master", black |-> {}, todo |-> FALSE,
   size |-> 1, ok |-> FALSE, young |-> FALSE,
   nodes |-> [k \in {Name(q, 0) : q \in names \ {p}} |->
                [createClusterNode(k[2], FALSE) EXCEPT
                   !.slots = role[k[2]] = "master", !.link = [NoLink EXCEPT !.to = k[2]]]]]

\* processes of the mesh know each other and are connected, the others are new
FailInit ==
  \E w \in Net :
    /\ allowed = w
    /\ server = [p \in Process |->
                   IF p \in w.mesh
                   THEN [Booted(p, w.role, w.mesh) EXCEPT
                           !.ok = TRUE, !.size = Cardinality({q \in w.mesh : w.role[q] = "master"})]
                   ELSE Booted(p, w.role, {})]
    /\ timedout = {}
    /\ credited = {}

Listening(a) == IF \E q \in Process : server[q].at = a
                THEN CHOOSE q \in Process : server[q].at = a ELSE Nowhere

\* clusterCron() connects every node that has an address and no link, and sends it a
\* PING, or the MEET it was added for
Unconnected(s) == {k \in DOMAIN s.nodes : ~Up(s.nodes[k].link) /\ ~s.nodes[k].noaddr}
Connect(s, g) ==
  [s EXCEPT !.nodes = [k \in DOMAIN @ |->
     IF k \notin Unconnected(s) THEN @[k]
     ELSE [@[k] EXCEPT
             !.link = [to |-> Listening(s.nodes[k].addr), back |-> <<>>,
                       out |-> <<Packet(s, IF s.nodes[k].meet THEN "MEET" ELSE "PING", g, s.name)>>],
             !.ping = @ \/ ~s.nodes[k].meet,
             !.meet = FALSE]]]

UseTimer == allowed.timers > 0 /\ allowed' = [allowed EXCEPT !.timers = @ - 1]

Waiting(s) == {k \in Nodes(s) : s.nodes[k].ping /\ ~s.nodes[k].noaddr}
CronUpdates(s) == IF s.todo \/ ~s.ok THEN clusterUpdateState(s, FALSE) ELSE s

CronConnects(p) ==
  /\ Unconnected(server[p]) # {}
  /\ \E g \in Gossip(server[p]) : server' = [server EXCEPT ![p] = CronUpdates(Connect(@, g))]
  /\ UNCHANGED <<allowed, timedout, credited>>

\* the node with the oldest pong, or one not pinged for half the timeout
CronPings(p) ==
  /\ Unconnected(server[p]) = {}
  /\ \E k \in Nodes(server[p]) :
       /\ Up(server[p].nodes[k].link) /\ ~server[p].nodes[k].ping
       /\ <<p, k[2]>> \in allowed.pings
       /\ \E g \in Gossip(server[p]) :
            server' = [server EXCEPT ![p] = CronUpdates(clusterSendPing(@, k, g))]
       /\ allowed' = [allowed EXCEPT !.pings = @ \ {<<p, k[2]>>}]
  /\ UNCHANGED <<timedout, credited>>

\* the node timeout runs out: the node is suspected
CronSuspects(p) ==
  /\ \E k \in Waiting(server[p]) :
       /\ server[p].nodes[k].state = "ok"
       /\ <<p, k[2]>> \in allowed.suspects
       /\ server' = [server EXCEPT
            ![p] = clusterUpdateState([@ EXCEPT !.nodes[k].state = "pfail"], FALSE)]
       /\ timedout' = timedout \cup {<<p, k>>}
       /\ allowed' = [allowed EXCEPT !.suspects = @ \ {<<p, k[2]>>}]
  /\ UNCHANGED credited

\* other timers: half the node timeout without a PONG closes a link, a handshake is
\* given up, a report gets too old, a FAIL can be undone, a node leaves the blacklist,
\* a master may take writes again
TimerExpires(p) ==
  LET s == server[p]
  IN  /\ UseTimer
      /\ \/ \E k \in Waiting(s) :
              Up(s.nodes[k].link) /\ server' = [server EXCEPT ![p] = freeClusterLink(@, k)]
         \/ \E k \in DOMAIN s.nodes :
              InHandshake(k) /\ server' = [server EXCEPT ![p] = freeClusterNode(@, k)]
         \/ \E k \in Nodes(s) : \E r \in s.nodes[k].reports :
              server' = [server EXCEPT ![p] = clusterNodeDelFailureReport(@, k, r)]
         \/ \E k \in Nodes(s) :
              /\ s.nodes[k].state = "fail" /\ ~s.nodes[k].undo
              /\ server' = [server EXCEPT ![p].nodes[k].undo = TRUE]
         \/ \E n \in s.black : server' = [server EXCEPT ![p].black = @ \ {n}]
         \/ /\ s.young \/ ~s.ok
            /\ server' = [server EXCEPT ![p] = clusterUpdateState([@ EXCEPT !.young = FALSE], TRUE)]
      /\ UNCHANGED <<timedout, credited>>

\* clusterReadHandler() on the accepting side
Deliver(p) ==
  /\ \E k \in DOMAIN server[p].nodes :
       LET l == server[p].nodes[k].link
       IN  /\ Up(l) /\ l.to # Nowhere /\ l.out # <<>>
           /\ IF Head(l.out).type = "FAIL"
              THEN LET sent == [server EXCEPT ![p].nodes[k].link.out = Tail(@)]
                   IN  server' = [sent EXCEPT ![l.to] = Settle(ReceiveFail(@, Head(l.out)))]
              ELSE LET sent == [server EXCEPT ![p].nodes[k].link.out = Tail(@)]
                       r == ReceivePing(sent[l.to], Head(l.out))
                   IN  \E g \in Gossip(r.told) :
                         LET done == [sent EXCEPT ![l.to] = Settle(r.after)]
                         IN  server' = [done EXCEPT ![p].nodes[k].link.back =
                                          Append(@, Packet(r.told, "PONG", g, r.told.name))]
  /\ UNCHANGED <<allowed, timedout, credited>>

\* clusterReadHandler() on the side that opened the link
DeliverBack(p) ==
  /\ \E k \in DOMAIN server[p].nodes :
       LET l == server[p].nodes[k].link
       IN  /\ Up(l) /\ l.back # <<>>
           /\ LET r == ReceivePong([server[p] EXCEPT !.nodes[k].link.back = Tail(@)], k, Head(l.back))
              IN  /\ server' = [server EXCEPT ![p] = Settle(r.after)]
                  /\ credited' = credited \cup r.credit
  /\ UNCHANGED <<allowed, timedout>>

\* handleLinkIOError(): nobody at the other end
LinkError(p) ==
  /\ \E k \in DOMAIN server[p].nodes :
       /\ server[p].nodes[k].link.to = Nowhere
       /\ server' = [server EXCEPT ![p] = freeClusterLink(@, k)]
  /\ UNCHANGED <<allowed, timedout, credited>>

-----------------------------------------------------------------------------
(* Commands and restarts                                                   *)

ClusterMeet(p) ==
  /\ \E c \in allowed.meet :
       /\ c[1] = p
       /\ server' = [server EXCEPT ![p] = clusterStartHandshake(@, c[2])]
       /\ allowed' = [allowed EXCEPT !.meet = @ \ {c}]
  /\ UNCHANGED <<timedout, credited>>

ClusterForget(p) ==
  /\ \E c \in allowed.forget : \E k \in Nodes(server[p]) :
       /\ c[1] = p /\ k[2] = c[2]
       /\ server' = [server EXCEPT
            ![p] = clusterUpdateState(clusterDelNode([@ EXCEPT !.black = @ \cup {k}], k), FALSE)]
       /\ allowed' = [allowed EXCEPT !.forget = @ \ {c}]
  /\ UNCHANGED <<timedout, credited>>

\* CLUSTER RESET on a node without keys
clusterReset(p) ==
  /\ \E c \in allowed.reset :
       /\ c[1] = p
       /\ server' = [server EXCEPT ![p] =
            clusterUpdateState([@ EXCEPT !.nodes = << >>, !.slots = FALSE,
                                         !.name = IF c[2] THEN Name(p, @[3] + 1) ELSE @], FALSE)]
       /\ allowed' = [allowed EXCEPT !.reset = @ \ {c}]
  /\ UNCHANGED <<timedout, credited>>

\* What nodes.conf holds: no handshakes, links, reports or blacklist.  It is saved by
\* every handler that changes the table except when clusterCron() suspects a node.
clusterLoadConfig(s, unsaved) ==
  [s EXCEPT !.black = {}, !.size = 1, !.ok = FALSE, !.young = TRUE,
            !.nodes = [k \in Nodes(s) |->
              [@[k] EXCEPT !.link = NoLink, !.reports = {}, !.undo = FALSE,
                           !.state = IF k \in unsaved THEN "ok" ELSE @]]]

Hangup(s, p) ==
  [s EXCEPT !.nodes = [k \in DOMAIN @ |->
     IF @[k].link.to = p THEN [@[k] EXCEPT !.link = [NoLink EXCEPT !.to = Nowhere]] ELSE @[k]]]

RestartProcess(p) ==
  /\ \E c \in allowed.restart : \E unsaved \in SUBSET {k \in Nodes(server[p]) : server[p].nodes[k].state = "pfail"} :
       /\ c[1] = p
       /\ \A q \in Process \ {p} : server[q].at # c[2]
       /\ server' = [q \in Process |->
            IF q = p THEN [clusterLoadConfig(server[p], unsaved) EXCEPT !.at = c[2]]
            ELSE Hangup(server[q], p)]
       /\ allowed' = [allowed EXCEPT !.restart = @ \ {c}]
  /\ UNCHANGED <<timedout, credited>>

FailNext ==
  \E p \in Process :
    \/ CronConnects(p) \/ CronPings(p) \/ CronSuspects(p) \/ TimerExpires(p)
    \/ Deliver(p) \/ DeliverBack(p) \/ LinkError(p)
    \/ ClusterMeet(p) \/ ClusterForget(p) \/ clusterReset(p) \/ RestartProcess(p)

FailSpec == FailInit /\ [][FailNext]_failVars

-----------------------------------------------------------------------------
(* Properties                                                              *)

Masters == {p \in allowed.mesh : allowed.role[p] # "slave"}

\* A node is FAIL somewhere only after more than half of the masters - of those with
\* slots as well as of all - saw their own pings to it time out: reports of slaves,
\* hearsay and FAIL messages add nothing (the comment before markNodeAsFailingIfNeeded).
FailNeedsMajority ==
  \A p \in Process : \A k \in Nodes(server[p]) :
    server[p].nodes[k].state = "fail" =>
      2 * Cardinality({m \in Masters : <<m, k>> \in timedout}) > Cardinality(Masters)

\* The timers and failure flags of a node are cleared only by a PONG of that very node,
\* whoever answers at its address after a reset or a move.
PongsCredited == \A c \in credited : c[1] = c[2]

\* A forgotten node does not come back into the table by gossip while it is blacklisted.
ForgottenStaysOut ==
  \A p \in Process : server[p].black \cap DOMAIN server[p].nodes = {}
=============================================================================
