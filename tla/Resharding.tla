----------------------------- MODULE Resharding -----------------------------
(***************************************************************************)
(* Moving a hash slot between two masters while clients use it: the slot   *)
(* commands of cluster.c, the redirections of getNodeByQuery(), MIGRATE    *)
(* and RESTORE with their cached sockets, the heartbeats that carry slot   *)
(* claims, and the tool that drives it (move_slot of redis-trib.rb).  One  *)
(* slot; its keys; three masters, one of which only watches.               *)
(***************************************************************************)
EXTENDS Integers, FiniteSets

CONSTANTS Source, Target, Third,   \* the masters
          SlotKey,                 \* the keys of the slot
          MaxVal,                  \* values that are written, in order
          MaxBeats,                \* heartbeats under way at a time
          Env                      \* records: faults, the client's ops, the options of MIGRATE, the number of
                                   \* moves, and whether the operator waits for the heartbeats between two moves

VARIABLES env, view,     \* of every node: owner, migrating, importing, epoch, current, known epochs
          data,     \* the keys of every node; 0 is no key
          copy,     \* the same at a replica of every node
          beat,     \* the heartbeats under way
          tool,     \* redis-trib
          mig,      \* the MIGRATE that blocks its node, and the socket it uses
          late,     \* RESTOREs whose sender gave up
          client,   \* the request of the client
          truth,    \* what was last written
          written,  \* how many values were
          wrong     \* an answer was not the last value written

reshardVars == <<env, view, data, copy, beat, tool, mig, late, client, truth, written, wrong>>

Master == {Source, Target, Third}
Nobody == "nobody"
Idle == [st |-> "idle"]
Empty == [k \in SlotKey |-> 0]

ReshardInit ==
  /\ env \in Env
  /\ view = [n \in Master |-> [owner |-> Source, migrating |-> Nobody, importing |-> Nobody, current |-> 3,
                               epochs |-> [m \in Master |-> CASE m = Source -> 1 [] m = Target -> 2 [] m = Third -> 3]]]
  /\ data = [n \in Master |-> IF n = Source THEN [k \in SlotKey |-> 1] ELSE Empty]
  /\ copy = data
  /\ beat = {}
  /\ tool = [from |-> Source, to |-> Target, step |-> "importing", left |-> Master, moves |-> 1]
  /\ mig = [st |-> "idle", socket |-> "none"]
  /\ late = {}
  /\ client = Idle
  /\ truth = [k \in SlotKey |-> 1]
  /\ written = 1
  /\ wrong = FALSE

Blocked(n) == mig.st # "idle" /\ mig.from = n
Holds(n) == \E k \in SlotKey : data[n][k] # 0

-----------------------------------------------------------------------------
(* getNodeByQuery *)
Missing(n, keys) == \E k \in keys : data[n][k] = 0

\* mutant: a missing key of a slot that is being moved away is answered here
RedirectNoAsk(n, keys, asking) ==
  LET v == view[n]
      importing == v.importing # Nobody
  IN IF importing /\ asking
     THEN IF Cardinality(keys) > 1 /\ Missing(n, keys) THEN [to |-> n, how |-> "tryagain"] ELSE [to |-> n, how |-> "run"]
     ELSE [to |-> v.owner, how |-> IF v.owner = n THEN "run" ELSE "moved"]

getNodeByQuery(n, keys, asking) ==
  LET v == view[n]
      migrating == v.owner = n /\ v.migrating # Nobody
      importing == ~ migrating /\ v.importing # Nobody
  IN IF migrating /\ Missing(n, keys) THEN [to |-> v.migrating, how |-> "ask"]
     ELSE IF importing /\ asking
     THEN IF Cardinality(keys) > 1 /\ Missing(n, keys) THEN [to |-> n, how |-> "tryagain"] ELSE [to |-> n, how |-> "run"]
     ELSE [to |-> v.owner, how |-> IF v.owner = n THEN "run" ELSE "moved"]

Request ==
  /\ client = Idle
  /\ \E n \in Master, keys \in (SUBSET SlotKey) \ {{}}, op \in env.ops :
       /\ (op = "set") => written < MaxVal
       /\ client' = [st |-> "sent", at |-> n, asking |-> FALSE, keys |-> keys, op |-> op]
  /\ UNCHANGED <<view, data, copy, beat, tool, mig, late, truth, written, wrong>>

\* ASKING is sent in front of a request that was redirected with ASK, and holds for that one
processCommand ==
  /\ client.st = "sent" /\ ~ Blocked(client.at)
  /\ LET n == client.at
         r == getNodeByQuery(n, client.keys, client.asking)
         val == IF client.op = "set" THEN written + 1 ELSE 0
         Put(f) == [k \in SlotKey |-> IF k \in client.keys THEN val ELSE f[k]]
     IN \/ /\ r.how \in {"moved", "ask"}
           /\ client' = [client EXCEPT !.at = r.to, !.asking = (r.how = "ask")]
           /\ UNCHANGED <<data, copy, truth, written, wrong>>
        \/ /\ r.how = "tryagain"
           /\ client' = Idle
           /\ UNCHANGED <<data, copy, truth, written, wrong>>
        \/ /\ r.how = "run"
           /\ client' = Idle
           /\ wrong' = (wrong \/ \E k \in client.keys : data[n][k] # truth[k])
           /\ IF client.op = "get" THEN UNCHANGED <<data, copy, truth, written>>
              ELSE /\ data' = [data EXCEPT ![n] = Put(@)]
                   /\ copy' = [copy EXCEPT ![n] = Put(@)]
                   /\ truth' = Put(truth)
                   /\ written' = IF client.op = "set" THEN written + 1 ELSE written
  /\ UNCHANGED <<view, beat, tool, mig, late>>

-----------------------------------------------------------------------------
(* CLUSTER SETSLOT *)
GreatestEpoch(v) == CHOOSE e \in {v.epochs[n] : n \in Master} \cup {v.current} :
                           \A x \in {v.epochs[n] : n \in Master} \cup {v.current} : e >= x

setslotImporting(n, from) ==
  /\ view[n].owner # n
  /\ view' = [view EXCEPT ![n].importing = from]
setslotMigrating(n, to) ==
  /\ view[n].owner = n
  /\ view' = [view EXCEPT ![n].migrating = to]

\* a node that takes over a slot it imports gives itself an epoch above all it knows, without asking anybody
setslotNode(n, owner) ==
  LET v == view[n]
      max == GreatestEpoch(v)
      takes == owner = n /\ v.importing # Nobody
      bumps == takes /\ (v.epochs[n] = 0 \/ v.epochs[n] # max)
  IN /\ ~ (v.owner = n /\ owner # n /\ Holds(n))
     /\ view' = [view EXCEPT ![n].migrating = IF ~ Holds(n) THEN Nobody ELSE @,
                             ![n].importing = IF takes THEN Nobody ELSE @,
                             ![n].current = IF bumps THEN @ + 1 ELSE @,
                             ![n].epochs[n] = IF bumps THEN v.current + 1 ELSE @,
                             ![n].owner = owner]

-----------------------------------------------------------------------------
(* MIGRATE.  Its node does nothing else until it ends. *)
createDumpPayload(n, k) == data[n][k]

migrateGetSocket == IF mig.socket = "none" THEN "open" ELSE mig.socket

\* a socket the other side has closed fails, and MIGRATE is tried once more with a new one
migrateCommand ==
  /\ tool.step = "keys" /\ mig.st = "idle"
  /\ \E k \in SlotKey :
       /\ createDumpPayload(tool.from, k) # 0
       /\ mig' = [st |-> "sent", from |-> tool.from, to |-> tool.to, key |-> k, val |-> createDumpPayload(tool.from, k),
                  socket |-> IF migrateGetSocket = "closed" THEN "open" ELSE migrateGetSocket]
  /\ UNCHANGED <<view, data, copy, beat, tool, late, client, truth, written, wrong>>

\* RESTORE-ASKING carries the flag ASKING itself
restoreCommand(n, k, val) ==
  IF getNodeByQuery(n, {k}, TRUE).how # "run" THEN [ok |-> FALSE, val |-> data[n][k]]
  ELSE IF "replace" \notin env.options /\ data[n][k] # 0 THEN [ok |-> FALSE, val |-> data[n][k]]
  ELSE [ok |-> TRUE, val |-> val]

Restore ==
  /\ mig.st = "sent"
  /\ LET r == restoreCommand(mig.to, mig.key, mig.val)
     IN /\ data' = [data EXCEPT ![mig.to][mig.key] = r.val]
        /\ copy' = [copy EXCEPT ![mig.to][mig.key] = r.val]
        /\ mig' = [mig EXCEPT !.st = IF r.ok THEN "ok" ELSE "error"]
  /\ UNCHANGED <<view, beat, tool, late, client, truth, written, wrong>>

\* mutant: the key is deleted when the command was sent
MigrateEndsEarly ==
  /\ mig.st \in {"sent", "ok", "error"}
  /\ data' = [data EXCEPT ![mig.from][mig.key] = 0]
  /\ copy' = [copy EXCEPT ![mig.from][mig.key] = 0]
  /\ mig' = [st |-> "idle", socket |-> mig.socket]
  /\ UNCHANGED <<view, beat, tool, late, client, truth, written, wrong>>

\* the key is deleted here when the other side has it; the replicas and the AOF get a DEL, with COPY too
MigrateEnds ==
  /\ mig.st \in {"ok", "error"}
  /\ data' = IF mig.st = "ok" /\ "copy" \notin env.options THEN [data EXCEPT ![mig.from][mig.key] = 0] ELSE data
  /\ copy' = IF mig.st = "ok" THEN [copy EXCEPT ![mig.from][mig.key] = 0] ELSE copy
  /\ mig' = [st |-> "idle", socket |-> mig.socket]
  /\ UNCHANGED <<view, beat, tool, late, client, truth, written, wrong>>

\* no answer in time: the socket is closed, the request may still be carried out
MigrateTimesOut ==
  /\ "lateReply" \in env.faults /\ mig.st = "sent"
  /\ late' = late \cup {[to |-> mig.to, key |-> mig.key, val |-> mig.val]}
  /\ mig' = [st |-> "idle", socket |-> "none"]
  /\ UNCHANGED <<view, data, copy, beat, tool, client, truth, written, wrong>>
RestoreLate ==
  \E m \in late :
    LET r == restoreCommand(m.to, m.key, m.val)
    IN /\ late' = late \ {m}
       /\ data' = [data EXCEPT ![m.to][m.key] = r.val]
       /\ copy' = [copy EXCEPT ![m.to][m.key] = r.val]
       /\ UNCHANGED <<view, beat, tool, mig, client, truth, written, wrong>>

\* an idle socket is closed by the other side, or by migrateCloseTimedoutSockets()
SocketCloses ==
  /\ "idleSocket" \in env.faults /\ mig.st = "idle" /\ mig.socket = "open"
  /\ \E s \in {"closed", "none"} : mig' = [mig EXCEPT !.socket = s]
  /\ UNCHANGED <<view, data, copy, beat, tool, late, client, truth, written, wrong>>

-----------------------------------------------------------------------------
(* Heartbeats *)
SendHeartbeat(n) ==
  /\ ~ Blocked(n) /\ Cardinality(beat) < MaxBeats
  /\ \E m \in Master \ {n} :
       /\ ~ \E b \in beat : b.from = n /\ b.to = m
       /\ beat' = beat \cup {[from |-> n, to |-> m, claims |-> view[n].owner = n, epoch |-> view[n].epochs[n], current |-> view[n].current]}
  /\ UNCHANGED <<view, data, copy, tool, mig, late, client, truth, written, wrong>>

\* mutant: a claim is believed whatever its epoch
ClaimAlwaysWins(v, n, b) == b.claims /\ v.owner # b.from /\ v.importing = Nobody

\* a claim wins when its epoch is greater than that of the owner; not while the slot is imported
ClaimWins(v, n, b) == b.claims /\ v.owner # b.from /\ v.importing = Nobody /\ v.epochs[v.owner] < b.epoch

\* the keys of a slot that was lost are deleted
HeartbeatArrives ==
  \E b \in beat :
    LET n == b.to
        v == [view[n] EXCEPT !.current = IF b.current > @ THEN b.current ELSE @,
                             !.epochs[b.from] = IF b.epoch > @ THEN b.epoch ELSE @]
        wins == ClaimWins(v, n, b)
        dirty == wins /\ v.owner = n
    IN /\ ~ Blocked(n)
       /\ beat' = beat \ {b}
       /\ view' = [view EXCEPT ![n] = IF wins THEN [v EXCEPT !.owner = b.from] ELSE v]
       /\ data' = IF dirty THEN [data EXCEPT ![n] = Empty] ELSE data
       /\ copy' = IF dirty THEN [copy EXCEPT ![n] = Empty] ELSE copy
       /\ UNCHANGED <<tool, mig, late, client, truth, written, wrong>>

-----------------------------------------------------------------------------
(* redis-trib *)
ToolIs(step) == tool.step = step /\ ~ Blocked(tool.from) /\ UNCHANGED <<data, copy, beat, mig, late, client, truth, written, wrong>>

ToolImporting ==
  /\ ToolIs("importing") /\ setslotImporting(tool.to, tool.from)
  /\ tool' = [tool EXCEPT !.step = "migrating"]
ToolMigrating ==
  /\ ToolIs("migrating") /\ setslotMigrating(tool.from, tool.to)
  /\ tool' = [tool EXCEPT !.step = "keys"]
\* CLUSTER GETKEYSINSLOT has returned nothing
ToolNoKeys ==
  /\ ToolIs("keys") /\ ~ Holds(tool.from)
  /\ tool' = [tool EXCEPT !.step = "node", !.left = Master]
  /\ UNCHANGED view
ToolNode ==
  /\ ToolIs("node")
  /\ \E n \in tool.left :
       /\ setslotNode(n, tool.to)
       /\ tool' = [tool EXCEPT !.left = @ \ {n}, !.step = IF tool.left = {n} THEN "done" ELSE "node"]
EpochsKnown == \A n, m \in Master : view[n].epochs[m] = view[m].epochs[m]
ToolMovesBack ==
  /\ ToolIs("done") /\ tool.moves < env.moves
  /\ \A n \in Master : view[n].owner = tool.to
  /\ env.waits => beat = {} /\ EpochsKnown
  /\ tool' = [from |-> tool.to, to |-> tool.from, step |-> "importing", left |-> Master, moves |-> tool.moves + 1]
  /\ UNCHANGED view
ToolDies ==
  /\ "toolDies" \in env.faults /\ ToolIs("node") /\ mig.st = "idle"
  /\ tool' = [tool EXCEPT !.step = "dead"]
  /\ UNCHANGED view

ReshardNext ==
  /\ UNCHANGED env
  /\ \/ Request \/ processCommand
     \/ migrateCommand \/ Restore \/ MigrateEnds \/ MigrateTimesOut \/ RestoreLate \/ SocketCloses
     \/ (\E n \in Master : SendHeartbeat(n)) \/ HeartbeatArrives
     \/ ToolImporting \/ ToolMigrating \/ ToolNoKeys \/ ToolNode \/ ToolMovesBack \/ ToolDies

ReshardSpec == ReshardInit /\ [][ReshardNext]_reshardVars

-----------------------------------------------------------------------------
(* Wherever a request is sent, and however often it is redirected while    *)
(* its slot is being moved, the node that runs it holds what was last      *)
(* written: getNodeByQuery(), MIGRATE and the heartbeats lose no write and *)
(* bring none back.                                                        *)
AnswersAreCurrent == ~ wrong

(* When redis-trib is through and the heartbeats have told every node the  *)
(* epochs of the others, the nodes agree on the owner, none thinks that    *)
(* the slot is still being moved, and the owner has every key.             *)
MoveComplete ==
  (tool.step = "done" /\ late = {} /\ EpochsKnown /\ \A b \in beat : ~ b.claims) =>
    \A n \in Master : /\ view[n].owner = tool.to
                      /\ view[n].migrating = Nobody /\ view[n].importing = Nobody
                      /\ data[n] = IF n = tool.to THEN truth ELSE Empty

(* The keys follow their slot: no request finds a node without them while  *)
(* redis-trib, MIGRATE and the heartbeats move it, and none is left behind *)
(* when they are through.                                                  *)
KeysFollowSlot == AnswersAreCurrent /\ MoveComplete

(* A replica, and the AOF, of a node that was the source or the target of  *)
(* MIGRATE has the keys of its master.                                     *)
MigrateReplicated == mig.st = "idle" => copy = data
=============================================================================
