-------------------------- MODULE ReshardingProofs --------------------------
(***************************************************************************)
(* What is proved of Resharding, for every set of keys, number of values,  *)
(* heartbeats under way and choice of faults, operations and options: no   *)
(* request is answered by a node that lacks the last write, and a slot     *)
(* that was moved has its keys at the one owner all nodes name.            *)
(***************************************************************************)
EXTENDS Resharding, FiniteSetTheorems, TLAPS

(* The masters differ and a slot has finitely many keys.                   *)
Distinct ==
  /\ Source # Target /\ Source # Third /\ Target # Third
  /\ Nobody \notin Master
  /\ IsFiniteSet(SlotKey)

(* redis-trib moves the slot without COPY, and back at most once, after    *)
(* the heartbeats of the first move; while a MIGRATE may give up on a      *)
(* RESTORE that is carried out later, clients only read.                   *)
OrderlyMoves ==
  \A e \in Env :
    /\ "copy" \notin e.options
    /\ e.moves \in 0..2
    /\ e.moves = 2 => e.waits = TRUE
    /\ "lateReply" \in e.faults => e.ops \subseteq {"get"}

-----------------------------------------------------------------------------
(* Types                                                                   *)
Step == {"importing", "migrating", "keys", "node", "done", "dead"}
ViewRec == [owner : Master, migrating : Master \cup {Nobody}, importing : Master \cup {Nobody},
            current : Nat, epochs : [Master -> Nat]]
BeatRec == [from : Master, to : Master, claims : BOOLEAN, epoch : Nat, current : Nat]
LateRec == [to : Master, key : SlotKey, val : Nat]
ToolRec == [from : Master, to : Master, step : Step, left : SUBSET Master, moves : 1..2]
MigRec == [st : {"sent", "ok", "error"}, from : Master, to : Master, key : SlotKey, val : Nat,
           socket : {"open", "closed", "none"}]
IdleRec == [st : {"idle"}, socket : {"open", "closed", "none"}]
RequestRec(ops) == [st : {"sent"}, at : Master, asking : BOOLEAN, keys : (SUBSET SlotKey) \ {{}}, op : ops]

ReshardTypes ==
  /\ env \in Env
  /\ view \in [Master -> ViewRec]
  /\ data \in [Master -> [SlotKey -> Nat]]
  /\ beat \subseteq BeatRec
  /\ tool \in ToolRec
  /\ mig \in IdleRec \/ mig \in MigRec
  /\ late \subseteq LateRec
  /\ client = Idle \/ client \in RequestRec(env.ops)
  /\ truth \in [SlotKey -> Nat]
  /\ written \in Nat

(* The slot goes there and back again.                                     *)
Before == tool.step \in {"importing", "migrating"}
After == tool.step \in {"node", "done", "dead"}
Took == view[tool.to].owner = tool.to

ToolInv ==
  /\ tool.moves = 1 => tool.from = Source /\ tool.to = Target
  /\ tool.moves = 2 => tool.from = Target /\ tool.to = Source
  /\ tool.step = "done" => tool.left = {}
  /\ mig.st # "idle" => tool.step = "keys" /\ mig.from = tool.from /\ mig.to = tool.to

(* What the nodes think of the slot: only the target imports, until it has *)
(* taken over, and the source sends clients on until it has given up.      *)
ViewInv ==
  /\ \A n \in Master : view[n].owner \in {tool.from, tool.to}
  /\ \A n \in Master \ {tool.to} : view[n].importing = Nobody
  /\ view[tool.to].importing = IF Took \/ tool.step = "importing" THEN Nobody ELSE tool.from
  /\ \A n \in Master \ {tool.from} : view[n].migrating = Nobody
  /\ Before => view[tool.from].migrating = Nobody
  /\ ~ Before /\ view[tool.from].owner = tool.from => view[tool.from].migrating = tool.to
  /\ ~ After => \A n \in Master : view[n].owner = tool.from
  /\ tool.step \in {"node", "done"} /\ tool.from \notin tool.left =>
       view[tool.from].owner = tool.to /\ view[tool.from].migrating = Nobody
  /\ tool.step \in {"node", "done"} /\ tool.to \notin tool.left => Took

(* The epoch of the source is known to all; the target has one that is     *)
(* greater when it has taken over, and who knows it knows the new owner.   *)
EpochInv ==
  /\ \A n, m \in Master : view[n].epochs[m] <= view[n].current
  /\ \A n \in Master : view[n].epochs[tool.from] = view[tool.from].epochs[tool.from]
  /\ ~ Took => /\ \A n \in Master : view[n].epochs[tool.to] = view[tool.to].epochs[tool.to]
               /\ view[tool.to].epochs[tool.to] < view[tool.to].current
  /\ Took => /\ view[tool.from].epochs[tool.from] < view[tool.to].epochs[tool.to]
             /\ \A n \in Master : /\ view[n].epochs[tool.to] <= view[tool.to].epochs[tool.to]
                                  /\ view[n].epochs[tool.to] = view[tool.to].epochs[tool.to] => view[n].owner = tool.to

BeatInv ==
  \A b \in beat :
    /\ b.from # b.to /\ b.epoch <= b.current
    /\ b.claims => b.from \in {tool.from, tool.to}
    /\ b.from = tool.from => b.epoch = view[tool.from].epochs[tool.from]
    /\ b.from = tool.to /\ ~ Took => ~ b.claims /\ b.epoch = view[tool.to].epochs[tool.to]
    /\ b.from = tool.to /\ Took => /\ b.epoch <= view[tool.to].epochs[tool.to]
                                   /\ b.claims <=> b.epoch = view[tool.to].epochs[tool.to]

(* Where the last value of a key is while the keys are moved one by one.   *)
Moving(k) == mig.st # "idle" /\ mig.key = k
Place(k) ==
  LET f == data[tool.from][k]
      t == data[tool.to][k]
  IN  /\ t # 0 => t = truth[k]
      /\ f # 0 => f = truth[k] \/ (Moving(k) /\ mig.st = "ok")
      /\ f = 0 => t = truth[k]
      /\ Moving(k) /\ mig.st = "ok" => t = truth[k]
      /\ Moving(k) /\ mig.st = "sent" => mig.val = f /\ f = truth[k] /\ f # 0
      /\ "lateReply" \notin env.faults =>
           /\ f # 0 /\ t # 0 => Moving(k) /\ mig.st = "ok"
           /\ mig.st # "error"

DataInv ==
  /\ \A n \in Master \ {tool.from, tool.to} : data[n] = Empty
  /\ Before => data[tool.from] = truth /\ data[tool.to] = Empty
  /\ tool.step = "keys" => \A k \in SlotKey : Place(k)
  /\ After => data[tool.from] = Empty /\ data[tool.to] = truth

(* A request that was redirected with ASK is for keys the source has not.  *)
ClientInv ==
  client # Idle /\ client.asking =>
    /\ tool.moves = 1 => client.at = tool.to
    /\ client.at = tool.to => /\ ~ Before
                              /\ Cardinality(client.keys) > 1 \/ \A k \in client.keys : data[tool.from][k] = 0

(* A RESTORE that is late brings the value the key still has.              *)
LateInv ==
  /\ "lateReply" \in env.faults => \A k \in SlotKey : truth[k] # 0
  /\ late # {} => "lateReply" \in env.faults
  /\ \A m \in late : /\ m.val = truth[m.key]
                     /\ tool.moves = 1 => m.to = tool.to
                     /\ m.to = tool.to => ~ Before
                     /\ m.to \in {tool.from, tool.to}

ReshardInv ==
  /\ ReshardTypes /\ ToolInv /\ ViewInv /\ EpochInv /\ BeatInv /\ DataInv /\ ClientInv /\ LateInv
  /\ ~ wrong

USE DEF Before, After, Took

-----------------------------------------------------------------------------
(* Where the slot goes.                                                    *)
LEMMA Ends ==
  ASSUME Distinct, ReshardTypes, ToolInv
  PROVE /\ tool.from \in Master /\ tool.to \in Master /\ tool.from # tool.to
        /\ tool.from # Third /\ tool.to # Third
        /\ \A n \in Master : n \in {tool.from, tool.to, Third}
        /\ tool.from # Nobody /\ tool.to # Nobody
        /\ tool.step \in Step /\ tool.moves \in 1..2
  BY DEF Distinct, ReshardTypes, ToolRec, ToolInv, Master

(* getNodeByQuery() answers from the source while it holds the keys, from  *)
(* the target afterwards, and in between from the target who has been      *)
(* asked for all of them.                                                  *)
LEMMA RouteRuns ==
  ASSUME Distinct, ReshardTypes, ToolInv, ViewInv, DataInv,
         NEW n \in Master, NEW keys \in (SUBSET SlotKey) \ {{}}, NEW asking \in BOOLEAN,
         getNodeByQuery(n, keys, asking).how = "run"
  PROVE \/ n = tool.from /\ Before
        \/ n = tool.from /\ tool.step = "keys" /\ \A k \in keys : data[tool.from][k] # 0
        \/ n = tool.to /\ After
        \/ /\ n = tool.to /\ ~ After /\ asking
           /\ Cardinality(keys) > 1 => \A k \in keys : data[tool.to][k] # 0
<1>0. /\ tool.from # tool.to /\ tool.from \in Master /\ tool.to \in Master /\ n \in {tool.from, tool.to, Third}
      /\ tool.from # Nobody /\ tool.to # Nobody /\ tool.step \in Step
      /\ tool.from # Third /\ tool.to # Third /\ Third \in Master
  BY Ends DEF Master
<1>1. CASE n = Third
  BY <1>0, <1>1 DEF getNodeByQuery, ViewInv
<1>2. CASE n = tool.from
  <2>1. view[n].importing = Nobody
    BY <1>0, <1>2 DEF ViewInv
  <2>2. view[n].owner = n /\ (view[n].migrating = Nobody \/ ~ Missing(n, keys))
    BY <1>0, <2>1 DEF getNodeByQuery
  <2>3. CASE tool.step = "keys"
    BY <1>0, <1>2, <2>2, <2>3 DEF Missing, ViewInv
  <2>4. CASE After
    <3>1. view[n].migrating = tool.to
      BY <1>0, <1>2, <2>2, <2>4 DEF ViewInv
    <3>2. Missing(n, keys)
      BY <1>0, <1>2, <2>4 DEF Missing, DataInv, Empty
    <3> QED BY <1>0, <2>2, <3>1, <3>2
  <2> QED BY <1>0, <1>2, <2>3, <2>4 DEF Step
<1>3. CASE n = tool.to
  <2>1. view[n].migrating = Nobody
    BY <1>0, <1>3 DEF ViewInv
  <2>2. \/ view[n].owner = n
        \/ asking /\ (Cardinality(keys) > 1 => ~ Missing(n, keys))
    BY <1>0, <2>1 DEF getNodeByQuery
  <2> QED BY <1>0, <1>3, <2>2 DEF ViewInv, Missing
<1> QED BY <1>0, <1>1, <1>2, <1>3

LEMMA RouteAsks ==
  ASSUME Distinct, ReshardTypes, ToolInv, ViewInv,
         NEW n \in Master, NEW keys \in (SUBSET SlotKey) \ {{}}, NEW asking \in BOOLEAN,
         getNodeByQuery(n, keys, asking).how = "ask"
  PROVE /\ n = tool.from /\ ~ Before
        /\ getNodeByQuery(n, keys, asking).to = tool.to
        /\ \E k \in keys : data[tool.from][k] = 0
<1>0. /\ tool.from # tool.to /\ tool.from \in Master /\ tool.to \in Master
      /\ tool.from # Nobody /\ tool.to # Nobody
  BY Ends
<1>1. view[n].owner = n /\ view[n].migrating # Nobody /\ Missing(n, keys)
  BY DEF getNodeByQuery
<1>2. getNodeByQuery(n, keys, asking).to = view[n].migrating
  BY <1>1 DEF getNodeByQuery
<1>3. n = tool.from
  BY <1>0, <1>1 DEF ViewInv
<1> QED BY <1>0, <1>1, <1>2, <1>3 DEF ViewInv, Missing

LEMMA RouteTypes ==
  ASSUME ReshardTypes, NEW n \in Master, NEW keys, NEW asking
  PROVE /\ getNodeByQuery(n, keys, asking).how \in {"ask", "run", "moved", "tryagain"}
        /\ getNodeByQuery(n, keys, asking).how = "moved" => getNodeByQuery(n, keys, asking).to \in Master
  BY DEF ReshardTypes, ViewRec, getNodeByQuery

LEMMA OneKey ==
  ASSUME NEW keys, IsFiniteSet(keys), ~ (Cardinality(keys) > 1), keys # {}
  PROVE \A k, l \in keys : k = l
<1> SUFFICES ASSUME NEW k \in keys, NEW l \in keys, k # l PROVE FALSE
  OBVIOUS
<1>1. IsFiniteSet({k}) /\ Cardinality({k}) = 1
  BY FS_Singleton
<1>2. IsFiniteSet({k} \cup {l}) /\ Cardinality({k} \cup {l}) = 2
  BY <1>1, FS_AddElement
<1>3. Cardinality({k} \cup {l}) <= Cardinality(keys)
  BY FS_Subset
<1>4. Cardinality(keys) \in Nat
  BY FS_CardinalityType
<1> QED BY <1>2, <1>3, <1>4

-----------------------------------------------------------------------------
(* Every action keeps the invariant.                                       *)
LEMMA InitInv ==
  ASSUME Distinct, OrderlyMoves, ReshardInit
  PROVE ReshardInv
<1>1. ReshardTypes
  BY DEF ReshardInit, ReshardTypes, ViewRec, ToolRec, IdleRec, Step, Master, Empty
<1>2. /\ Source \in Master /\ Target \in Master /\ Third \in Master
      /\ \A n \in Master : n \in {Source, Target, Third}
  BY DEF Master
<1>3. ToolInv /\ ViewInv
  BY <1>2 DEF ReshardInit, ToolInv, ViewInv, Distinct
<1>4. EpochInv
  <2>1. \A n \in Master : /\ view[n].current = 3 /\ view[n].epochs[Source] = 1
                          /\ view[n].epochs[Target] = 2 /\ view[n].epochs[Third] = 3
                          /\ view[n].owner = Source
    BY <1>2 DEF ReshardInit, Distinct
  <2>2. tool.from = Source /\ tool.to = Target
    BY DEF ReshardInit
  <2> QED BY <1>2, <2>1, <2>2 DEF EpochInv, Distinct
<1>5. BeatInv /\ DataInv
  BY <1>2 DEF ReshardInit, BeatInv, DataInv, Distinct
<1>6. ClientInv /\ LateInv /\ ~ wrong
  BY DEF ReshardInit, ClientInv, LateInv
<1> QED BY <1>1, <1>3, <1>4, <1>5, <1>6 DEF ReshardInv

LEMMA RequestInv ==
  ASSUME Distinct, ReshardInv, UNCHANGED env, Request
  PROVE ReshardInv'
<1> USE DEF ReshardInv, Request
<1>1. PICK n \in Master, keys \in (SUBSET SlotKey) \ {{}}, op \in env.ops :
        client' = [st |-> "sent", at |-> n, asking |-> FALSE, keys |-> keys, op |-> op]
  OBVIOUS
<1>2. ReshardTypes'
  BY <1>1 DEF ReshardTypes, RequestRec
<1>3. ToolInv' /\ ViewInv' /\ EpochInv' /\ BeatInv' /\ DataInv' /\ LateInv' /\ ~ wrong'
  BY DEF ToolInv, ViewInv, EpochInv, BeatInv, DataInv, Place, Moving, LateInv
<1>4. ClientInv'
  BY <1>1 DEF ClientInv
<1> QED BY <1>2, <1>3, <1>4

(* A request is redirected, or runs where the keys are.                    *)
LEMMA CommandRedirected ==
  ASSUME Distinct, ReshardInv, UNCHANGED env, processCommand, UNCHANGED <<data, truth, written>>, ~ wrong'
  PROVE ReshardInv'
<1> USE DEF ReshardInv
<1> DEFINE n == client.at
           r == getNodeByQuery(n, client.keys, client.asking)
<1>1. client # Idle /\ client \in RequestRec(env.ops)
  BY DEF processCommand, ReshardTypes, Idle
<1>2. n \in Master /\ client.keys \in (SUBSET SlotKey) \ {{}} /\ client.asking \in BOOLEAN
  BY <1>1 DEF RequestRec
<1>3. \/ r.how \in {"moved", "ask"} /\ client' = [client EXCEPT !.at = r.to, !.asking = (r.how = "ask")]
      \/ client' = Idle
  BY DEF processCommand
<1>4. UNCHANGED <<view, beat, tool, mig, late>>
  BY DEF processCommand
<1>5. /\ tool.to \in Master
      /\ r.how = "ask" => /\ n = tool.from /\ ~ Before /\ r.to = tool.to
                          /\ \E k \in client.keys : data[tool.from][k] = 0
      /\ r.how = "moved" => r.to \in Master
  BY <1>2, Ends, RouteAsks, RouteTypes
<1>6. ReshardTypes'
  <2>1. client' = Idle \/ client' \in RequestRec(env.ops)
    BY <1>1, <1>3, <1>5 DEF RequestRec
  <2> QED BY <2>1, <1>4 DEF ReshardTypes
<1>7. ToolInv' /\ ViewInv' /\ EpochInv' /\ BeatInv' /\ DataInv' /\ LateInv' /\ ~ wrong'
  BY <1>4 DEF ToolInv, ViewInv, EpochInv, BeatInv, DataInv, Place, Moving, LateInv
<1>8. ClientInv'
  <2> SUFFICES ASSUME client' # Idle, client'.asking
               PROVE /\ client'.at = tool.to
                     /\ ~ Before
                     /\ \/ Cardinality(client'.keys) > 1
                        \/ \A k \in client'.keys : data[tool.from][k] = 0
    BY <1>4 DEF ClientInv
  <2>1. r.how = "ask" /\ client'.at = r.to /\ client'.keys = client.keys
    BY <1>1, <1>3 DEF RequestRec
  <2>2. IsFiniteSet(client.keys)
    BY <1>2, FS_Subset DEF Distinct
  <2>3. ~ (Cardinality(client.keys) > 1) => \A k, l \in client.keys : k = l
    BY <1>2, <2>2, OneKey
  <2> QED BY <1>5, <2>1, <2>3
<1> QED BY <1>6, <1>7, <1>8

LEMMA CommandRuns ==
  ASSUME Distinct, OrderlyMoves, ReshardInv, UNCHANGED env, processCommand,
         getNodeByQuery(client.at, client.keys, client.asking).how = "run"
  PROVE ReshardInv'
<1> USE DEF ReshardInv
<1> DEFINE n == client.at
           keys == client.keys
           F == tool.from
           T == tool.to
<1>1. client # Idle /\ client \in RequestRec(env.ops)
  BY DEF processCommand, ReshardTypes, Idle
<1>2. n \in Master /\ keys \in (SUBSET SlotKey) \ {{}} /\ client.asking \in BOOLEAN /\ client.op \in env.ops
  BY <1>1 DEF RequestRec
<1>3. /\ F \in Master /\ T \in Master /\ F # T /\ tool.step \in Step
      /\ env \in Env /\ data \in [Master -> [SlotKey -> Nat]] /\ truth \in [SlotKey -> Nat] /\ written \in Nat
  BY Ends DEF ReshardTypes
<1>4. UNCHANGED <<view, beat, tool, mig, late>> /\ ~ Blocked(n) /\ client' = Idle
  BY DEF processCommand
<1>5. \/ n = F /\ Before
      \/ n = F /\ tool.step = "keys" /\ \A k \in keys : data[F][k] # 0
      \/ n = T /\ After
      \/ /\ n = T /\ ~ After /\ client.asking
         /\ Cardinality(keys) > 1 => \A k \in keys : data[T][k] # 0
  BY <1>2, RouteRuns
<1>6. n = T /\ ~ After => /\ tool.step = "keys"
                          /\ \A k \in keys : data[T][k] # 0 \/ data[F][k] = 0
  BY <1>1, <1>3, <1>5 DEF ClientInv, Step
<1>7. n = F /\ tool.step = "keys" => mig.st = "idle"
  BY <1>4 DEF Blocked, ToolInv
<1>8. \A k \in keys : data[n][k] = truth[k]
  BY <1>2, <1>5, <1>6, <1>7 DEF DataInv, Place, Moving
<1>9. ~ wrong'
  BY <1>8 DEF processCommand
<1>10. CASE client.op = "get"
  <2>1. UNCHANGED <<data, truth, written>>
    BY <1>10 DEF processCommand
  <2> QED BY <1>9, <2>1, CommandRedirected
<1>11. CASE client.op # "get"
  <2> DEFINE val == IF client.op = "set" THEN written + 1 ELSE 0
             Put(f) == [k \in SlotKey |-> IF k \in keys THEN val ELSE f[k]]
  <2>1. /\ data' = [data EXCEPT ![n] = Put(data[n])] /\ truth' = Put(truth)
        /\ written' = IF client.op = "set" THEN written + 1 ELSE written
    BY <1>11 DEF processCommand
  <2>2. val \in Nat
    BY <1>3
  <2> HIDE DEF val
  <2>3. "lateReply" \notin env.faults
    BY <1>2, <1>3, <1>11 DEF OrderlyMoves
  <2>4. ReshardTypes'
    BY <1>2, <1>3, <1>4, <2>1, <2>2 DEF ReshardTypes
  <2>5. ToolInv' /\ ViewInv' /\ EpochInv' /\ BeatInv' /\ ClientInv'
    BY <1>4 DEF ToolInv, ViewInv, EpochInv, BeatInv, ClientInv
  <2>6. LateInv'
    BY <1>4, <2>3 DEF LateInv
  <2>7. /\ \A m \in Master \ {n} : data'[m] = data[m]
        /\ data'[n] = Put(data[n])
    BY <1>2, <1>3, <2>1
  <2>8. DataInv'
    <3>1. \A m \in Master \ {F, T} : data'[m] = Empty
      BY <1>5, <2>7 DEF DataInv
    <3>2. CASE Before
      BY <1>3, <1>4, <1>5, <1>6, <2>1, <2>7, <3>1, <3>2 DEF DataInv
    <3>3. CASE After
      BY <1>3, <1>4, <1>5, <2>1, <2>7, <3>1, <3>3 DEF DataInv
    <3>4. CASE tool.step = "keys"
      <4> SUFFICES ASSUME NEW k \in SlotKey PROVE Place(k)'
        BY <1>4, <3>1, <3>4 DEF DataInv
      <4>1. Place(k)
        BY <3>4 DEF DataInv
      <4>2. CASE k \notin keys
        <5>1. data'[F][k] = data[F][k] /\ data'[T][k] = data[T][k] /\ truth'[k] = truth[k]
          BY <1>2, <1>3, <2>1, <2>7, <4>2
        <5> QED BY <1>4, <4>1, <5>1 DEF Place, Moving
      <4>3. CASE k \in keys /\ n = F
        <5>1. data'[F][k] = val /\ data'[T][k] = data[T][k] /\ truth'[k] = val
          BY <1>2, <1>3, <2>1, <2>7, <4>3
        <5>2. data[F][k] # 0 /\ mig.st = "idle"
          BY <1>3, <1>5, <1>7, <3>4, <4>3
        <5>3. data[T][k] = 0
          BY <2>3, <4>1, <5>2 DEF Place, Moving
        <5> QED BY <1>4, <5>1, <5>2, <5>3 DEF Place, Moving
      <4>4. CASE k \in keys /\ n = T
        <5>1. data'[T][k] = val /\ data'[F][k] = data[F][k] /\ truth'[k] = val
          BY <1>2, <1>3, <2>1, <2>7, <4>4
        <5>2. data[T][k] # 0 \/ data[F][k] = 0
          BY <1>6, <3>4, <4>4
        <5> QED BY <1>4, <2>3, <4>1, <5>1, <5>2 DEF Place, Moving
      <4> QED BY <1>5, <4>2, <4>3, <4>4
    <3> QED BY <1>3, <3>2, <3>3, <3>4 DEF Step
  <2> QED BY <1>9, <2>4, <2>5, <2>6, <2>8
<1> QED BY <1>10, <1>11

LEMMA CommandInv ==
  ASSUME Distinct, OrderlyMoves, ReshardInv, UNCHANGED env, processCommand
  PROVE ReshardInv'
<1>1. CASE getNodeByQuery(client.at, client.keys, client.asking).how = "run"
  BY <1>1, CommandRuns
<1>2. CASE getNodeByQuery(client.at, client.keys, client.asking).how # "run"
  <2>1. UNCHANGED <<data, truth, written>> /\ (wrong' <=> wrong)
    BY <1>2 DEF processCommand
  <2> QED BY <2>1, CommandRedirected DEF ReshardInv
<1> QED BY <1>1, <1>2

(* MIGRATE and RESTORE.                                                    *)
LEMMA MigrateInv ==
  ASSUME Distinct, ReshardInv, UNCHANGED env, migrateCommand
  PROVE ReshardInv'
<1> USE DEF ReshardInv
<1>1. PICK k \in SlotKey :
        /\ data[tool.from][k] # 0
        /\ mig' = [st |-> "sent", from |-> tool.from, to |-> tool.to, key |-> k, val |-> data[tool.from][k],
                   socket |-> IF migrateGetSocket = "closed" THEN "open" ELSE migrateGetSocket]
  BY DEF migrateCommand, createDumpPayload
<1>2. /\ tool.step = "keys" /\ mig.st = "idle"
      /\ UNCHANGED <<view, data, copy, beat, tool, late, client, truth, written, wrong>>
  BY DEF migrateCommand
<1>3. migrateGetSocket \in {"open", "closed", "none"}
  BY <1>2 DEF migrateGetSocket, ReshardTypes, MigRec, IdleRec
<1>4. tool.from \in Master /\ tool.to \in Master /\ data[tool.from][k] \in Nat
  BY Ends DEF ReshardTypes
<1>5. mig' \in MigRec
  BY <1>1, <1>3, <1>4 DEF MigRec
<1>6. ReshardTypes'
  BY <1>2, <1>5 DEF ReshardTypes
<1>7. ToolInv' /\ ViewInv' /\ EpochInv' /\ BeatInv' /\ ClientInv' /\ LateInv' /\ ~ wrong'
  BY <1>1, <1>2 DEF ToolInv, ViewInv, EpochInv, BeatInv, ClientInv, LateInv
<1>8. \A x \in SlotKey : Place(x)'
  <2> SUFFICES ASSUME NEW x \in SlotKey PROVE Place(x)'
    OBVIOUS
  <2>1. Place(x)
    BY <1>2 DEF DataInv
  <2> QED BY <1>1, <1>2, <2>1 DEF Place, Moving
<1>9. DataInv'
  BY <1>2, <1>8 DEF DataInv
<1> QED BY <1>6, <1>7, <1>9

LEMMA RestoreInv ==
  ASSUME Distinct, ReshardInv, UNCHANGED env, Restore
  PROVE ReshardInv'
<1> USE DEF ReshardInv
<1> DEFINE k == mig.key
           F == tool.from
           T == tool.to
           r == restoreCommand(mig.to, mig.key, mig.val)
<1>1. /\ tool.step = "keys" /\ mig.st = "sent" /\ mig \in MigRec /\ mig.to = T /\ k \in SlotKey /\ mig.val \in Nat
      /\ UNCHANGED <<view, beat, tool, late, client, truth, written, wrong>>
  BY DEF Restore, ReshardTypes, ToolInv, MigRec, IdleRec
<1>2. /\ data' = [data EXCEPT ![T][k] = r.val]
      /\ mig' = [mig EXCEPT !.st = IF r.ok THEN "ok" ELSE "error"]
  BY <1>1 DEF Restore
<1>3. /\ F \in Master /\ T \in Master /\ F # T /\ F # Nobody
      /\ data \in [Master -> [SlotKey -> Nat]]
  BY Ends DEF ReshardTypes
<1>4. Place(k)
  BY <1>1 DEF DataInv
<1>5. mig.val = truth[k] /\ data[F][k] = truth[k] /\ truth[k] # 0
  BY <1>1, <1>4 DEF Place, Moving
<1>6. getNodeByQuery(T, {k}, TRUE).how = "run"
  <2>1. view[T].migrating = Nobody /\ view[T].importing = F
    BY <1>1, <1>3 DEF ViewInv
  <2>2. Cardinality({k}) = 1
    BY FS_Singleton
  <2> QED BY <1>3, <2>1, <2>2 DEF getNodeByQuery
<1>7. /\ r.ok \in BOOLEAN
      /\ r.ok => r.val = truth[k]
      /\ ~ r.ok => r.val = data[T][k] /\ data[T][k] # 0
  BY <1>1, <1>5, <1>6 DEF restoreCommand
<1>8. "lateReply" \notin env.faults => r.ok
  BY <1>1, <1>4, <1>5, <1>7 DEF Place, Moving
<1>9. ReshardTypes'
  <2>1. r.val \in Nat
    BY <1>1, <1>3, <1>5, <1>7
  <2>2. mig' \in MigRec
    BY <1>1, <1>2 DEF MigRec
  <2>3. data' \in [Master -> [SlotKey -> Nat]]
    BY <1>1, <1>2, <1>3, <2>1
  <2> QED BY <1>1, <2>2, <2>3 DEF ReshardTypes
<1>10. /\ \A m \in Master \ {T} : data'[m] = data[m]
       /\ \A x \in SlotKey : data'[T][x] = IF x = k THEN r.val ELSE data[T][x]
  BY <1>1, <1>2, <1>3
<1>11. mig'.key = mig.key /\ mig'.val = mig.val /\ mig'.st \in {"ok", "error"} /\ mig'.from = mig.from /\ mig'.to = mig.to
       /\ (mig'.st = "ok" <=> r.ok)
  BY <1>1, <1>2, <1>7 DEF MigRec
<1>12. ToolInv' /\ ViewInv' /\ EpochInv' /\ BeatInv' /\ LateInv' /\ ~ wrong'
  BY <1>1, <1>11 DEF ToolInv, ViewInv, EpochInv, BeatInv, LateInv
<1>13. ClientInv'
  BY <1>1, <1>3, <1>10 DEF ClientInv
<1>14. \A x \in SlotKey : Place(x)'
  <2> SUFFICES ASSUME NEW x \in SlotKey PROVE Place(x)'
    OBVIOUS
  <2>1. Place(x)
    BY <1>1 DEF DataInv
  <2>2. data'[F] = data[F] /\ truth' = truth /\ env' = env /\ tool' = tool
    BY <1>1, <1>3, <1>10
  <2>3. CASE x = k
    <3>1. data'[T][k] = r.val
      BY <1>1, <1>10
    <3> HIDE DEF r
    <3>2. data'[T][k] # 0 => data'[T][k] = truth[k]
      BY <1>4, <1>7, <3>1 DEF Place
    <3> QED BY <1>5, <1>7, <1>8, <1>11, <2>2, <2>3, <3>1, <3>2 DEF Place, Moving
  <2>4. CASE x # k
    <3>1. data'[T][x] = data[T][x]
      BY <1>10, <2>4
    <3> QED BY <1>1, <1>8, <1>11, <2>1, <2>2, <2>4, <3>1 DEF Place, Moving
  <2> QED BY <2>3, <2>4
<1>15. DataInv'
  <2>1. \A m \in Master \ {F, T} : data'[m] = Empty
    BY <1>10 DEF DataInv
  <2> QED BY <1>1, <1>14, <2>1 DEF DataInv
<1> QED BY <1>9, <1>12, <1>13, <1>15

LEMMA MigrateEndsInv ==
  ASSUME Distinct, OrderlyMoves, ReshardInv, UNCHANGED env, MigrateEnds
  PROVE ReshardInv'
<1> USE DEF ReshardInv
<1> DEFINE k == mig.key
           F == tool.from
           T == tool.to
<1>1. /\ tool.step = "keys" /\ mig.st \in {"ok", "error"} /\ mig \in MigRec /\ mig.from = F /\ k \in SlotKey
      /\ mig' = [st |-> "idle", socket |-> mig.socket]
      /\ UNCHANGED <<view, beat, tool, late, client, truth, written, wrong>>
  BY DEF MigrateEnds, ReshardTypes, ToolInv, MigRec, IdleRec
<1>2. /\ F \in Master /\ T \in Master /\ F # T
      /\ data \in [Master -> [SlotKey -> Nat]] /\ env \in Env
  BY Ends DEF ReshardTypes
<1>3. data' = IF mig.st = "ok" THEN [data EXCEPT ![F][k] = 0] ELSE data
  BY <1>1, <1>2 DEF MigrateEnds, OrderlyMoves
<1>4. /\ \A m \in Master \ {F} : data'[m] = data[m]
      /\ \A x \in SlotKey : data'[F][x] = IF x = k /\ mig.st = "ok" THEN 0 ELSE data[F][x]
  BY <1>1, <1>2, <1>3
<1>5. ReshardTypes'
  <2>1. mig' \in IdleRec
    BY <1>1 DEF MigRec, IdleRec
  <2>2. data' \in [Master -> [SlotKey -> Nat]]
    BY <1>1, <1>2, <1>3
  <2> QED BY <1>1, <2>1, <2>2 DEF ReshardTypes
<1>6. ToolInv' /\ ViewInv' /\ EpochInv' /\ BeatInv' /\ LateInv' /\ ~ wrong'
  BY <1>1 DEF ToolInv, ViewInv, EpochInv, BeatInv, LateInv
<1>7. ClientInv'
  <2>1. \A x \in SlotKey : data[F][x] = 0 => data'[F][x] = 0
    BY <1>4
  <2>2. client # Idle => client.keys \subseteq SlotKey
    BY DEF ReshardTypes, RequestRec
  <2> QED BY <1>1, <2>1, <2>2 DEF ClientInv
<1>8. \A x \in SlotKey : Place(x)'
  <2> SUFFICES ASSUME NEW x \in SlotKey PROVE Place(x)'
    OBVIOUS
  <2>1. Place(x)
    BY <1>1 DEF DataInv
  <2>2. mig'.st = "idle" /\ data'[T][x] = data[T][x] /\ truth' = truth /\ env' = env /\ tool' = tool
    BY <1>1, <1>2, <1>4
  <2> QED BY <1>1, <1>4, <2>1, <2>2 DEF Place, Moving
<1>9. DataInv'
  <2>1. \A m \in Master \ {F, T} : data'[m] = Empty
    BY <1>4 DEF DataInv
  <2> QED BY <1>1, <1>8, <2>1 DEF DataInv
<1> QED BY <1>5, <1>6, <1>7, <1>9

LEMMA MigrateTimesOutInv ==
  ASSUME Distinct, ReshardInv, UNCHANGED env, MigrateTimesOut
  PROVE ReshardInv'
<1> USE DEF ReshardInv
<1>1. /\ tool.step = "keys" /\ mig.st = "sent" /\ mig \in MigRec /\ mig.to = tool.to /\ mig.key \in SlotKey
      /\ "lateReply" \in env.faults
      /\ late' = late \cup {[to |-> mig.to, key |-> mig.key, val |-> mig.val]}
      /\ mig' = [st |-> "idle", socket |-> "none"]
      /\ UNCHANGED <<view, data, copy, beat, tool, client, truth, written, wrong>>
  BY DEF MigrateTimesOut, ReshardTypes, ToolInv, MigRec, IdleRec
<1>2. mig.val = truth[mig.key]
  BY <1>1 DEF DataInv, Place, Moving
<1>3. ReshardTypes'
  BY <1>1 DEF ReshardTypes, IdleRec, MigRec, LateRec
<1>4. ToolInv' /\ ViewInv' /\ EpochInv' /\ BeatInv' /\ ClientInv' /\ ~ wrong'
  BY <1>1 DEF ToolInv, ViewInv, EpochInv, BeatInv, ClientInv
<1>5. LateInv'
  BY <1>1, <1>2 DEF LateInv
<1>6. \A x \in SlotKey : Place(x)'
  <2> SUFFICES ASSUME NEW x \in SlotKey PROVE Place(x)'
    OBVIOUS
  <2>1. Place(x)
    BY <1>1 DEF DataInv
  <2> QED BY <1>1, <2>1 DEF Place, Moving
<1>7. DataInv'
  BY <1>1, <1>6 DEF DataInv
<1> QED BY <1>3, <1>4, <1>5, <1>7

LEMMA RestoreLateInv ==
  ASSUME Distinct, OrderlyMoves, ReshardInv, UNCHANGED env, RestoreLate
  PROVE ReshardInv'
<1> USE DEF ReshardInv
<1> DEFINE F == tool.from
           T == tool.to
<1>1. PICK m \in late :
        /\ late' = late \ {m}
        /\ data' = [data EXCEPT ![m.to][m.key] = restoreCommand(m.to, m.key, m.val).val]
        /\ UNCHANGED <<view, beat, tool, mig, client, truth, written, wrong>>
  BY DEF RestoreLate
<1> DEFINE n == m.to
           k == m.key
           r == restoreCommand(n, k, m.val)
<1>2. /\ n \in Master /\ k \in SlotKey /\ m.val \in Nat
      /\ F \in Master /\ T \in Master /\ F # T /\ tool.step \in Step
      /\ data \in [Master -> [SlotKey -> Nat]] /\ env \in Env
  BY Ends DEF ReshardTypes, LateRec
<1>3. /\ "lateReply" \in env.faults /\ m.val = truth[k] /\ truth[k] # 0
      /\ n \in {F, T} /\ (n = T => ~ Before)
  BY <1>2 DEF LateInv
<1>4. \/ r.val = data[n][k]
      \/ r.val = truth[k] /\ getNodeByQuery(n, {k}, TRUE).how = "run"
  BY <1>3 DEF restoreCommand
<1>5. r.val = data[n][k] \/ (r.val = truth[k] /\ (n = F => data[n][k] # 0))
  <2>1. CASE getNodeByQuery(n, {k}, TRUE).how = "run" /\ n = F
    <3>1. \/ Before
          \/ tool.step = "keys" /\ data[F][k] # 0
      BY <1>2, <2>1, RouteRuns
    <3>2. Before => data[F][k] # 0
      BY <1>3 DEF DataInv
    <3> QED BY <1>4, <2>1, <3>1, <3>2
  <2> QED BY <1>4, <2>1
<1> HIDE DEF r
<1>6. /\ \A x \in Master \ {n} : data'[x] = data[x]
      /\ \A x \in SlotKey : data'[n][x] = IF x = k THEN r.val ELSE data[n][x]
  BY <1>1, <1>2 DEF r
<1>7. data' \in [Master -> [SlotKey -> Nat]]
  <2>1. r.val \in Nat
    BY <1>2, <1>3, <1>5
  <2> QED BY <1>1, <1>2, <2>1 DEF r
<1>8. ReshardTypes'
  BY <1>1, <1>7 DEF ReshardTypes
<1>9. ToolInv' /\ ViewInv' /\ EpochInv' /\ BeatInv' /\ LateInv' /\ ~ wrong'
  BY <1>1 DEF ToolInv, ViewInv, EpochInv, BeatInv, LateInv
<1>10. \A x \in SlotKey : data[F][x] = 0 <=> data'[F][x] = 0
  BY <1>2, <1>3, <1>5, <1>6
<1>11. ClientInv'
  <2>1. client # Idle => client.keys \subseteq SlotKey
    BY DEF ReshardTypes, RequestRec
  <2> QED BY <1>1, <1>10, <2>1 DEF ClientInv
<1>12. DataInv'
  <2>1. \A x \in Master \ {F, T} : data'[x] = Empty
    BY <1>3, <1>6 DEF DataInv
  <2>2. CASE Before
    <3>1. n = F /\ data[F] = truth
      BY <1>3, <2>2 DEF DataInv
    <3>2. data'[F] = truth
      BY <1>2, <1>5, <1>6, <1>7, <3>1 DEF ReshardTypes
    <3> QED BY <1>1, <1>2, <1>6, <2>1, <2>2, <3>1, <3>2 DEF DataInv
  <2>3. CASE tool.step = "keys"
    <3> SUFFICES ASSUME NEW x \in SlotKey PROVE Place(x)'
      BY <1>1, <2>1, <2>3 DEF DataInv
    <3>1. Place(x)
      BY <2>3 DEF DataInv
    <3>2. UNCHANGED <<tool, mig, truth, env>>
      BY <1>1
    <3>3. data'[F][x] = data[F][x] \/ (data'[F][x] = truth[x] /\ data[F][x] # 0)
      BY <1>2, <1>5, <1>6
    <3>4. data'[T][x] = data[T][x] \/ data'[T][x] = truth[x]
      BY <1>2, <1>5, <1>6
    <3> QED BY <1>3, <3>1, <3>2, <3>3, <3>4 DEF Place, Moving
  <2>4. CASE After
    <3>1. data[F] = Empty /\ data[T] = truth
      BY <2>4 DEF DataInv
    <3>2. data' = data
      <4>1. r.val = data[n][k]
        BY <1>2, <1>3, <1>5, <3>1 DEF Empty
      <4> QED BY <1>1, <1>2, <4>1 DEF r
    <3> QED BY <1>1, <1>2, <2>1, <2>4, <3>1, <3>2 DEF DataInv
  <2> QED BY <1>2, <2>2, <2>3, <2>4 DEF Step
<1> QED BY <1>8, <1>9, <1>11, <1>12

LEMMA SocketInv ==
  ASSUME ReshardInv, UNCHANGED env, SocketCloses
  PROVE ReshardInv'
<1> USE DEF ReshardInv
<1>1. PICK s \in {"closed", "none"} : mig' = [mig EXCEPT !.socket = s]
  BY DEF SocketCloses
<1>2. mig \in IdleRec /\ mig.st = "idle" /\ UNCHANGED <<view, data, copy, beat, tool, late, client, truth, written, wrong>>
  BY DEF SocketCloses, ReshardTypes, MigRec
<1>3. mig' \in IdleRec /\ mig'.st = "idle"
  BY <1>1, <1>2 DEF IdleRec
<1>4. ReshardTypes'
  BY <1>2, <1>3 DEF ReshardTypes
<1>5. ToolInv' /\ ViewInv' /\ EpochInv' /\ BeatInv' /\ ClientInv' /\ LateInv' /\ ~ wrong'
  BY <1>2, <1>3 DEF ToolInv, ViewInv, EpochInv, BeatInv, ClientInv, LateInv
<1>6. DataInv'
  BY <1>2, <1>3 DEF DataInv, Place, Moving
<1> QED BY <1>4, <1>5, <1>6

(* Heartbeats.                                                             *)
LEMMA PingInv ==
  ASSUME Distinct, ReshardInv, UNCHANGED env, NEW n \in Master, SendHeartbeat(n)
  PROVE ReshardInv'
<1> USE DEF ReshardInv
<1>1. PICK m \in Master \ {n} :
        beat' = beat \cup {[from |-> n, to |-> m, claims |-> view[n].owner = n, epoch |-> view[n].epochs[n],
                            current |-> view[n].current]}
  BY DEF SendHeartbeat
<1>2. UNCHANGED <<view, data, copy, tool, mig, late, client, truth, written, wrong>>
  BY DEF SendHeartbeat
<1>3. tool.from \in Master /\ tool.to \in Master /\ tool.from # tool.to
  BY Ends
<1>4. view[n].current \in Nat /\ view[n].epochs \in [Master -> Nat]
  BY DEF ReshardTypes, ViewRec
<1>5. ReshardTypes'
  <2> DEFINE claims == view[n].owner = n
  <2>1. claims \in BOOLEAN
    OBVIOUS
  <2> HIDE DEF claims
  <2>2. [from |-> n, to |-> m, claims |-> claims, epoch |-> view[n].epochs[n], current |-> view[n].current] \in BeatRec
    BY <1>4, <2>1 DEF BeatRec
  <2>3. beat' \subseteq BeatRec
    BY <1>1, <2>2 DEF ReshardTypes, claims
  <2> QED BY <1>2, <2>3 DEF ReshardTypes
<1>6. ToolInv' /\ ViewInv' /\ EpochInv' /\ ClientInv' /\ LateInv' /\ ~ wrong'
  BY <1>2 DEF ToolInv, ViewInv, EpochInv, ClientInv, LateInv
<1>7. DataInv'
  BY <1>2 DEF DataInv, Place, Moving
<1>8. BeatInv'
  <2> SUFFICES ASSUME NEW b \in beat',
                      b = [from |-> n, to |-> m, claims |-> view[n].owner = n, epoch |-> view[n].epochs[n],
                           current |-> view[n].current]
               PROVE /\ b.from # b.to /\ b.epoch <= b.current
                     /\ b.claims => b.from \in {tool.from, tool.to}
                     /\ b.from = tool.from => b.epoch = view[tool.from].epochs[tool.from]
                     /\ b.from = tool.to /\ ~ Took => ~ b.claims /\ b.epoch = view[tool.to].epochs[tool.to]
                     /\ b.from = tool.to /\ Took => /\ b.epoch <= view[tool.to].epochs[tool.to]
                                                    /\ b.claims <=> b.epoch = view[tool.to].epochs[tool.to]
    BY <1>1, <1>2 DEF BeatInv
  <2>1. view[n].owner \in {tool.from, tool.to} /\ view[n].epochs[n] <= view[n].current
    BY DEF ViewInv, EpochInv
  <2>2. b.from = n /\ b.to = m /\ b.epoch = view[n].epochs[n] /\ b.current = view[n].current
    OBVIOUS
  <2>3. b.claims <=> view[n].owner = n
    OBVIOUS
  <2>4. \A x \in Master : view[x].epochs[tool.from] = view[tool.from].epochs[tool.from]
    BY DEF EpochInv
  <2>5. n = tool.to /\ Took => view[n].owner = n
    OBVIOUS
  <2> QED BY <1>1, <1>3, <1>4, <2>1, <2>2, <2>3, <2>4, <2>5
<1> QED BY <1>5, <1>6, <1>7, <1>8

(* A claim changes the owner at a node that did not know better, and never *)
(* at the target; the node that loses the slot has no key any more.        *)
LEMMA HeartbeatInv ==
  ASSUME Distinct, ReshardInv, UNCHANGED env, HeartbeatArrives
  PROVE ReshardInv'
<1> USE DEF ReshardInv
<1> DEFINE F == tool.from
           T == tool.to
           Updated(b) == [view[b.to] EXCEPT !.current = IF b.current > @ THEN b.current ELSE @,
                                            !.epochs[b.from] = IF b.epoch > @ THEN b.epoch ELSE @]
           Wins(b) == ClaimWins(Updated(b), b.to, b)
<1>1. PICK b \in beat :
        /\ beat' = beat \ {b}
        /\ view' = [view EXCEPT ![b.to] = IF Wins(b) THEN [Updated(b) EXCEPT !.owner = b.from] ELSE Updated(b)]
        /\ data' = IF Wins(b) /\ Updated(b).owner = b.to THEN [data EXCEPT ![b.to] = Empty] ELSE data
        /\ UNCHANGED <<tool, mig, late, client, truth, written, wrong>>
  BY DEF HeartbeatArrives
<1> DEFINE n == b.to
           u == Updated(b)
<1>2. /\ F \in Master /\ T \in Master /\ F # T /\ F # Nobody
      /\ n \in Master /\ b.from \in Master /\ b.from # n /\ b.epoch \in Nat /\ b.current \in Nat /\ b.epoch <= b.current
      /\ b.claims \in BOOLEAN /\ view \in [Master -> ViewRec]
  BY Ends DEF ReshardTypes, BeatRec, BeatInv
<1>3. /\ u \in ViewRec
      /\ u.owner = view[n].owner /\ u.importing = view[n].importing /\ u.migrating = view[n].migrating
      /\ u.current = (IF b.current > view[n].current THEN b.current ELSE view[n].current)
      /\ \A x \in Master : u.epochs[x] = IF x = b.from /\ b.epoch > view[n].epochs[x] THEN b.epoch ELSE view[n].epochs[x]
  <2> DEFINE cur == IF b.current > view[n].current THEN b.current ELSE view[n].current
             ep == IF b.epoch > view[n].epochs[b.from] THEN b.epoch ELSE view[n].epochs[b.from]
  <2>1. view[n] \in ViewRec /\ view[n].epochs \in [Master -> Nat] /\ cur \in Nat /\ ep \in Nat
    BY <1>2 DEF ViewRec
  <2>2. u = [view[n] EXCEPT !.current = cur, !.epochs = [view[n].epochs EXCEPT ![b.from] = ep]]
    BY <2>1 DEF ViewRec
  <2>3. ep = IF b.epoch > view[n].epochs[b.from] THEN b.epoch ELSE view[n].epochs[b.from]
    OBVIOUS
  <2> HIDE DEF ep, u
  <2>4. u.epochs = [view[n].epochs EXCEPT ![b.from] = ep] /\ u.current = cur /\ u \in ViewRec
    BY <1>2, <2>1, <2>2 DEF ViewRec
  <2>5. u.owner = view[n].owner /\ u.importing = view[n].importing /\ u.migrating = view[n].migrating
    BY <2>1, <2>2 DEF ViewRec
  <2> QED BY <1>2, <2>1, <2>3, <2>4, <2>5
<1>4. Wins(b) <=> /\ b.claims /\ view[n].owner # b.from /\ view[n].importing = Nobody
                  /\ u.epochs[view[n].owner] < b.epoch
  BY <1>3 DEF ClaimWins
<1> HIDE DEF Wins, Updated
<1>5. /\ view' \in [Master -> ViewRec]
      /\ \A x \in Master \ {n} : view'[x] = view[x]
      /\ view'[n].owner = IF Wins(b) THEN b.from ELSE view[n].owner
      /\ view'[n].importing = view[n].importing /\ view'[n].migrating = view[n].migrating
      /\ view'[n].current = u.current /\ view'[n].epochs = u.epochs
  BY <1>1, <1>2, <1>3 DEF ViewRec
<1>6. /\ \A x \in Master : view[x].owner \in Master /\ view[x].current \in Nat
      /\ \A x, y \in Master : view[x].epochs[y] \in Nat
  BY <1>2 DEF ViewRec
<1>7. Took => After
  BY <1>2, Ends DEF ViewInv, Step
<1>8. Wins(b) => b.from \in {F, T} /\ view[n].owner \in {F, T} /\ b.from # view[n].owner
  BY <1>1, <1>2, <1>4 DEF BeatInv, ViewInv
<1>9. Wins(b) => n # T
  <2> SUFFICES ASSUME Wins(b), n = T PROVE FALSE
    OBVIOUS
  <2>1. b.from = F /\ view[T].owner = T
    BY <1>2, <1>8
  <2>2. u.epochs[T] = view[T].epochs[T] /\ b.epoch = view[F].epochs[F]
    BY <1>1, <1>2, <1>3, <2>1 DEF BeatInv
  <2> QED BY <1>2, <1>4, <1>6, <2>1, <2>2 DEF EpochInv
<1>10. Wins(b) /\ b.from = T => Took /\ b.epoch = view[T].epochs[T]
  BY <1>1, <1>2, <1>4 DEF BeatInv
<1>11. Took' <=> Took
  BY <1>1, <1>2, <1>5, <1>9
<1>12. view'[F].epochs[F] = view[F].epochs[F] /\ view'[T].epochs[T] = view[T].epochs[T]
  BY <1>2, <1>3, <1>5
<1>13. data' = data
  <2> SUFFICES ASSUME Wins(b), view[n].owner = n PROVE data[n] = Empty /\ data \in [Master -> [SlotKey -> Nat]]
    BY <1>1, <1>2, <1>3
  <2>1. n = F /\ b.from = T
    BY <1>8, <1>9
  <2> QED BY <1>7, <1>10, <2>1 DEF DataInv, ReshardTypes
<1>14. ReshardTypes'
  BY <1>1, <1>5, <1>13 DEF ReshardTypes
<1>15. ToolInv' /\ DataInv' /\ ClientInv' /\ LateInv' /\ ~ wrong'
  BY <1>1, <1>13 DEF ToolInv, DataInv, Place, Moving, ClientInv, LateInv
<1>16. ViewInv'
  <2>1. \A x \in Master : view'[x].importing = view[x].importing /\ view'[x].migrating = view[x].migrating
    BY <1>2, <1>5
  <2>2. \A x \in Master : view'[x].owner = view[x].owner \/ (After /\ view'[x].owner \in {F, T})
    <3>1. Wins(b) => After
      <4> SUFFICES ASSUME Wins(b), ~ After PROVE FALSE
        OBVIOUS
      <4>1. view[n].owner = F
        BY <1>2 DEF ViewInv
      <4> QED BY <1>7, <1>8, <1>10, <4>1
    <3> QED BY <1>2, <1>5, <1>8, <3>1
  <2>3. view'[F].owner = view[F].owner \/ view'[F].owner = T
    BY <1>2, <1>5, <1>8
  <2>4. view'[T].owner = view[T].owner
    BY <1>2, <1>5, <1>9
  <2> QED BY <1>1, <1>2, <1>11, <2>1, <2>2, <2>3, <2>4 DEF ViewInv
<1>17. EpochInv'
  <2>1. \A x, y \in Master : view'[x].epochs[y] <= view'[x].current
    <3> SUFFICES ASSUME NEW x \in Master, NEW y \in Master PROVE view'[x].epochs[y] <= view'[x].current
      OBVIOUS
    <3>1. view[x].epochs[y] <= view[x].current
      BY DEF EpochInv
    <3> QED BY <1>2, <1>3, <1>5, <1>6, <3>1
  <2>2. \A x \in Master : view'[x].epochs[F] = view'[F].epochs[F]
    <3>1. \A x \in Master : view[x].epochs[F] = view[F].epochs[F]
      BY DEF EpochInv
    <3>2. b.from = F => b.epoch = view[F].epochs[F]
      BY <1>1 DEF BeatInv
    <3> QED BY <1>2, <1>3, <1>5, <1>6, <1>12, <3>1, <3>2
  <2>3. ASSUME ~ Took
        PROVE /\ \A x \in Master : view'[x].epochs[T] = view'[T].epochs[T]
              /\ view'[T].epochs[T] < view'[T].current
    <3>1. /\ \A x \in Master : view[x].epochs[T] = view[T].epochs[T]
          /\ view[T].epochs[T] < view[T].current
      BY <2>3 DEF EpochInv
    <3>2. b.from = T => b.epoch = view[T].epochs[T]
      BY <1>1, <2>3 DEF BeatInv
    <3>3. view[T].current <= view'[T].current
      BY <1>2, <1>3, <1>5, <1>6
    <3>4. view'[T].current \in Nat
      BY <1>2, <1>5 DEF ViewRec
    <3> QED BY <1>2, <1>3, <1>5, <1>6, <1>12, <3>1, <3>2, <3>3, <3>4
  <2>4. ASSUME Took
        PROVE /\ view'[F].epochs[F] < view'[T].epochs[T]
              /\ \A x \in Master : /\ view'[x].epochs[T] <= view'[T].epochs[T]
                                   /\ view'[x].epochs[T] = view'[T].epochs[T] => view'[x].owner = T
    <3>1. /\ view[F].epochs[F] < view[T].epochs[T]
          /\ \A x \in Master : /\ view[x].epochs[F] = view[F].epochs[F]
                               /\ view[x].epochs[T] <= view[T].epochs[T]
                               /\ view[x].epochs[T] = view[T].epochs[T] => view[x].owner = T
      BY <2>4 DEF EpochInv
    <3>2. b.from = T => /\ b.epoch <= view[T].epochs[T]
                        /\ b.claims <=> b.epoch = view[T].epochs[T]
      BY <1>1, <2>4 DEF BeatInv
    <3>3. ASSUME NEW x \in Master
          PROVE /\ view'[x].epochs[T] <= view'[T].epochs[T]
                /\ view'[x].epochs[T] = view'[T].epochs[T] => view'[x].owner = T
      <4>1. CASE x # n
        BY <1>2, <1>5, <1>12, <3>1, <4>1
      <4>2. CASE x = n /\ b.from # T
        <5>1. u.epochs[T] = view[n].epochs[T]
          BY <1>2, <1>3, <4>2
        <5>2. Wins(b) => view[n].epochs[T] < view[F].epochs[F]
          BY <1>1, <1>2, <1>4, <1>8, <4>2, <5>1 DEF BeatInv
        <5> QED BY <1>2, <1>5, <1>6, <1>12, <3>1, <4>2, <5>1, <5>2
      <4>3. CASE x = n /\ b.from = T
        <5>1. u.epochs[T] = (IF b.epoch > view[n].epochs[T] THEN b.epoch ELSE view[n].epochs[T])
          BY <1>2, <1>3, <4>3
        <5>2. u.epochs[F] = view[F].epochs[F]
          BY <1>2, <1>3, <3>1, <4>3
        <5>3. n # T
          BY <1>2, <4>3
        <5>4. view[n].importing = Nobody /\ view[n].owner \in {F, T}
          BY <1>2, <5>3 DEF ViewInv
        <5>5. b.epoch = view[T].epochs[T] /\ view[n].owner = F => Wins(b)
          BY <1>2, <1>4, <3>1, <3>2, <4>3, <5>2, <5>4
        <5> QED BY <1>2, <1>5, <1>6, <1>12, <3>1, <3>2, <4>3, <5>1, <5>4, <5>5
      <4> QED BY <4>1, <4>2, <4>3
    <3> QED BY <1>12, <3>1, <3>3
  <2> QED BY <1>1, <1>11, <2>1, <2>2, <2>3, <2>4 DEF EpochInv
<1>18. BeatInv'
  BY <1>1, <1>11, <1>12 DEF BeatInv
<1> QED BY <1>14, <1>15, <1>16, <1>17, <1>18

-----------------------------------------------------------------------------
(* The steps of redis-trib.                                                *)
LEMMA ToolImportingInv ==
  ASSUME Distinct, ReshardInv, UNCHANGED env, ToolImporting
  PROVE ReshardInv'
<1> USE DEF ReshardInv
<1> DEFINE F == tool.from
           T == tool.to
<1>1. /\ tool.step = "importing" /\ tool' = [tool EXCEPT !.step = "migrating"]
      /\ view[T].owner # T /\ view' = [view EXCEPT ![T].importing = F]
      /\ UNCHANGED <<data, beat, mig, late, client, truth, written, wrong>>
  BY DEF ToolImporting, ToolIs, setslotImporting
<1>2. /\ F \in Master /\ T \in Master /\ F # T /\ view \in [Master -> ViewRec] /\ tool \in ToolRec
  BY Ends DEF ReshardTypes
<1>3. /\ tool' \in ToolRec /\ tool'.from = F /\ tool'.to = T /\ tool'.step = "migrating" /\ tool'.moves = tool.moves
      /\ tool'.left = tool.left
  BY <1>1, <1>2 DEF ToolRec, Step
<1>4. /\ view' \in [Master -> ViewRec] /\ view'[T].importing = F
      /\ \A n \in Master : /\ view'[n].owner = view[n].owner /\ view'[n].migrating = view[n].migrating
                           /\ n # T => view'[n].importing = view[n].importing
                           /\ view'[n].current = view[n].current /\ view'[n].epochs = view[n].epochs
  <2>1. view[T] \in ViewRec
    BY <1>2
  <2>2. [view[T] EXCEPT !.importing = F] \in ViewRec
    BY <1>2, <2>1 DEF ViewRec
  <2>3. view' \in [Master -> ViewRec] /\ view'[T] = [view[T] EXCEPT !.importing = F]
        /\ \A n \in Master \ {T} : view'[n] = view[n]
    BY <1>1, <1>2, <2>2
  <2> QED BY <2>1, <2>3 DEF ViewRec
<1>5. ReshardTypes'
  BY <1>1, <1>3, <1>4 DEF ReshardTypes
<1>6. ToolInv'
  BY <1>1, <1>3 DEF ToolInv
<1>7. ViewInv'
  BY <1>1, <1>2, <1>3, <1>4 DEF ViewInv
<1>8. EpochInv'
  BY <1>2, <1>3, <1>4 DEF EpochInv
<1>9. BeatInv'
  BY <1>1, <1>2, <1>3, <1>4 DEF BeatInv
<1>10. DataInv' /\ ClientInv' /\ LateInv' /\ ~ wrong'
  BY <1>1, <1>3 DEF DataInv, Place, Moving, ClientInv, LateInv
<1> QED BY <1>5, <1>6, <1>7, <1>8, <1>9, <1>10

LEMMA ToolMigratingInv ==
  ASSUME Distinct, ReshardInv, UNCHANGED env, ToolMigrating
  PROVE ReshardInv'
<1> USE DEF ReshardInv
<1> DEFINE F == tool.from
           T == tool.to
<1>1. /\ tool.step = "migrating" /\ tool' = [tool EXCEPT !.step = "keys"]
      /\ view[F].owner = F /\ view' = [view EXCEPT ![F].migrating = T]
      /\ UNCHANGED <<data, beat, mig, late, client, truth, written, wrong>>
  BY DEF ToolMigrating, ToolIs, setslotMigrating
<1>2. /\ F \in Master /\ T \in Master /\ F # T /\ view \in [Master -> ViewRec] /\ tool \in ToolRec
  BY Ends DEF ReshardTypes
<1>3. /\ tool' \in ToolRec /\ tool'.from = F /\ tool'.to = T /\ tool'.step = "keys" /\ tool'.moves = tool.moves
      /\ tool'.left = tool.left
  BY <1>1, <1>2 DEF ToolRec, Step
<1>4. /\ view' \in [Master -> ViewRec] /\ view'[F].migrating = T
      /\ \A n \in Master : /\ view'[n].owner = view[n].owner /\ view'[n].importing = view[n].importing
                           /\ n # F => view'[n].migrating = view[n].migrating
                           /\ view'[n].current = view[n].current /\ view'[n].epochs = view[n].epochs
  BY <1>1, <1>2 DEF ViewRec
<1>5. ReshardTypes'
  BY <1>1, <1>3, <1>4 DEF ReshardTypes
<1>6. ToolInv'
  BY <1>1, <1>3 DEF ToolInv
<1>7. ViewInv'
  BY <1>1, <1>2, <1>3, <1>4 DEF ViewInv
<1>8. EpochInv'
  BY <1>2, <1>3, <1>4 DEF EpochInv
<1>9. BeatInv'
  BY <1>1, <1>2, <1>3, <1>4 DEF BeatInv
<1>10. mig.st = "idle" /\ data[F] = truth /\ data[T] = Empty
  BY <1>1 DEF ToolInv, DataInv
<1>11. \A k \in SlotKey : Place(k)'
  <2> SUFFICES ASSUME NEW k \in SlotKey PROVE Place(k)'
    OBVIOUS
  <2>1. data'[F][k] = truth'[k] /\ data'[T][k] = 0 /\ mig'.st = "idle"
    BY <1>1, <1>10 DEF Empty
  <2> QED BY <1>3, <2>1 DEF Place, Moving
<1>12. DataInv'
  BY <1>1, <1>3, <1>11 DEF DataInv
<1>13. ClientInv' /\ LateInv' /\ ~ wrong'
  BY <1>1, <1>3 DEF ClientInv, LateInv
<1> QED BY <1>5, <1>6, <1>7, <1>8, <1>9, <1>12, <1>13

LEMMA ToolNoKeysInv ==
  ASSUME Distinct, ReshardInv, UNCHANGED env, ToolNoKeys
  PROVE ReshardInv'
<1> USE DEF ReshardInv
<1> DEFINE F == tool.from
           T == tool.to
<1>1. /\ tool.step = "keys" /\ tool' = [tool EXCEPT !.step = "node", !.left = Master]
      /\ ~ Blocked(F) /\ ~ Holds(F)
      /\ UNCHANGED <<view, data, beat, mig, late, client, truth, written, wrong>>
  BY DEF ToolNoKeys, ToolIs
<1>2. /\ F \in Master /\ T \in Master /\ F # T /\ tool \in ToolRec
      /\ data \in [Master -> [SlotKey -> Nat]] /\ truth \in [SlotKey -> Nat]
  BY Ends DEF ReshardTypes
<1>3. /\ tool' \in ToolRec /\ tool'.from = F /\ tool'.to = T /\ tool'.step = "node" /\ tool'.moves = tool.moves
      /\ tool'.left = Master
  BY <1>1, <1>2 DEF ToolRec, Step
<1>4. mig.st = "idle"
  BY <1>1 DEF ToolInv, Blocked
<1>5. data[F] = Empty
  BY <1>1, <1>2 DEF Holds, Empty
<1>6. data[T] = truth
  BY <1>1, <1>2, <1>5 DEF DataInv, Place, Empty
<1>7. ReshardTypes' /\ ToolInv'
  BY <1>1, <1>3, <1>4 DEF ReshardTypes, ToolInv
<1>8. ViewInv' /\ EpochInv' /\ BeatInv'
  BY <1>1, <1>2, <1>3 DEF ViewInv, EpochInv, BeatInv
<1>9. DataInv' /\ ClientInv' /\ LateInv' /\ ~ wrong'
  BY <1>1, <1>3, <1>5, <1>6 DEF DataInv, ClientInv, LateInv
<1> QED BY <1>7, <1>8, <1>9

(* The target takes over with an epoch that nobody has; the source gives   *)
(* up when it has no key.                                                  *)
LEMMA ToolNodeInv ==
  ASSUME Distinct, ReshardInv, UNCHANGED env, ToolNode
  PROVE ReshardInv'
<1> USE DEF ReshardInv
<1> DEFINE F == tool.from
           T == tool.to
<1>1. PICK n \in tool.left :
        /\ setslotNode(n, T)
        /\ tool' = [tool EXCEPT !.left = @ \ {n}, !.step = IF tool.left = {n} THEN "done" ELSE "node"]
  BY DEF ToolNode
<1>2. tool.step = "node" /\ UNCHANGED <<data, beat, mig, late, client, truth, written, wrong>>
  BY DEF ToolNode, ToolIs
<1>3. /\ F \in Master /\ T \in Master /\ F # T /\ F # Nobody /\ n \in Master
      /\ view \in [Master -> ViewRec] /\ tool \in ToolRec
  BY <1>1, Ends DEF ReshardTypes, ToolRec
<1>4. /\ tool' \in ToolRec /\ tool'.from = F /\ tool'.to = T /\ tool'.step \in {"node", "done"} /\ tool'.moves = tool.moves
      /\ tool'.left = tool.left \ {n} /\ (tool'.step = "done" => tool'.left = {})
  BY <1>1, <1>2, <1>3 DEF ToolRec, Step
<1>5. data[F] = Empty /\ ~ Holds(F)
  BY <1>2 DEF DataInv, Holds, Empty
<1> DEFINE takes == T = n /\ view[n].importing # Nobody
<1>6. GreatestEpoch(view[n]) = view[n].current
  <2> DEFINE all == {view[n].epochs[m] : m \in Master} \cup {view[n].current}
  <2>1. \A x \in all : view[n].current >= x
    BY <1>3 DEF EpochInv, ViewRec
  <2>2. \A x \in all : x \in Nat
    BY <1>3 DEF ViewRec
  <2>3. view[n].current \in all
    OBVIOUS
  <2> HIDE DEF all
  <2>4. \A e \in all : (\A x \in all : e >= x) => e = view[n].current
    BY <2>1, <2>2, <2>3
  <2>5. GreatestEpoch(view[n]) = CHOOSE e \in all : \A x \in all : e >= x
    BY DEF GreatestEpoch, all
  <2> QED BY <2>1, <2>3, <2>4, <2>5
<1>7. takes <=> n = T /\ ~ Took
  BY <1>2, <1>3 DEF ViewInv
<1>8. takes => view[n].epochs[n] # GreatestEpoch(view[n])
  BY <1>3, <1>6, <1>7 DEF EpochInv, ViewRec
<1>9. /\ \A x \in Master \ {n} : view'[x] = view[x]
      /\ view'[n].owner = T
      /\ view'[n].migrating = IF ~ Holds(n) THEN Nobody ELSE view[n].migrating
      /\ view'[n].importing = IF takes THEN Nobody ELSE view[n].importing
      /\ view'[n].current = IF takes THEN view[n].current + 1 ELSE view[n].current
      /\ view'[n].epochs = IF takes THEN [view[n].epochs EXCEPT ![n] = view[n].current + 1] ELSE view[n].epochs
      /\ view' \in [Master -> ViewRec]
  <2> DEFINE bumps == takes /\ (view[n].epochs[n] = 0 \/ view[n].epochs[n] # GreatestEpoch(view[n]))
             mg == IF ~ Holds(n) THEN Nobody ELSE view[n].migrating
             im == IF takes THEN Nobody ELSE view[n].importing
             cu == IF takes THEN view[n].current + 1 ELSE view[n].current
             own == IF takes THEN view[n].current + 1 ELSE view[n].epochs[n]
             ep == [view[n].epochs EXCEPT ![n] = own]
  <2>1. view[n] \in ViewRec /\ view[n].epochs \in [Master -> Nat] /\ view[n].current \in Nat
    BY <1>3 DEF ViewRec
  <2>2. bumps <=> takes
    BY <1>8
  <2>3. view' = [view EXCEPT ![n].migrating = IF ~ Holds(n) THEN Nobody ELSE @,
                             ![n].importing = IF takes THEN Nobody ELSE @,
                             ![n].current = IF bumps THEN @ + 1 ELSE @,
                             ![n].epochs[n] = IF bumps THEN view[n].current + 1 ELSE @,
                             ![n].owner = T]
    BY <1>1 DEF setslotNode
  <2>4. mg \in Master \cup {Nobody} /\ im \in Master \cup {Nobody} /\ cu \in Nat /\ own \in Nat
    <3>1. view[n].migrating \in Master \cup {Nobody} /\ view[n].importing \in Master \cup {Nobody}
      BY <2>1 DEF ViewRec
    <3> HIDE DEF takes
    <3>2. view[n].current + 1 \in Nat /\ view[n].epochs[n] \in Nat
      BY <1>3, <2>1
    <3> QED BY <2>1, <3>1, <3>2
  <2>5. ep = (IF takes THEN [view[n].epochs EXCEPT ![n] = view[n].current + 1] ELSE view[n].epochs) /\ ep \in [Master -> Nat]
    BY <1>3, <2>1, <2>4
  <2> HIDE DEF takes, bumps
  <2>6. view' = [view EXCEPT ![n].migrating = mg, ![n].importing = im, ![n].current = cu, ![n].epochs[n] = own, ![n].owner = T]
    BY <1>3, <2>1, <2>2, <2>3 DEF ViewRec
  <2> HIDE DEF mg, im, cu, own
  <2>7. DOMAIN view = Master /\ n \in DOMAIN view
    BY <1>3
  <2>8. /\ \A x \in Master \ {n} : view'[x] = view[x]
        /\ view'[n] = [view[n] EXCEPT !.migrating = mg, !.importing = im, !.current = cu, !.epochs[n] = own, !.owner = T]
    BY <1>3, <2>6, <2>7
  <2>9. view'[n].owner = T /\ view'[n].migrating = mg /\ view'[n].importing = im /\ view'[n].current = cu /\ view'[n].epochs = ep
    BY <2>1, <2>8 DEF ViewRec
  <2>10. view'[n] \in ViewRec
    BY <1>3, <2>1, <2>4, <2>5, <2>8, <2>9 DEF ViewRec
  <2>11. view' \in [Master -> ViewRec]
    BY <1>3, <2>6, <2>7, <2>8, <2>10
  <2> QED BY <2>5, <2>8, <2>9, <2>11 DEF mg, im, cu
<1> HIDE DEF takes
<1>10. /\ \A x \in Master : /\ view[x].current \in Nat /\ view'[x].current \in Nat
                            /\ view[x].epochs \in [Master -> Nat]
                            /\ view'[x].epochs \in [Master -> Nat]
  BY <1>3, <1>9 DEF ViewRec
<1>11. Took' <=> Took \/ n = T
  BY <1>3, <1>4, <1>9
<1>12. \A x, y \in Master : x # T \/ y # T \/ ~ takes => view'[x].epochs[y] = view[x].epochs[y]
  BY <1>3, <1>7, <1>9, <1>10
<1>13. takes => view'[T].epochs[T] = view[T].current + 1 /\ view'[T].current = view[T].current + 1
  BY <1>3, <1>7, <1>9, <1>10
<1>14. ReshardTypes' /\ ToolInv'
  <2>1. mig.st = "idle"
    BY <1>2 DEF ToolInv
  <2> QED BY <1>2, <1>4, <1>9, <2>1 DEF ReshardTypes, ToolInv
<1>15. ViewInv'
  <2>1. \A x \in Master : view'[x].owner \in {F, T}
    BY <1>9 DEF ViewInv
  <2>2. \A x \in Master \ {T} : view'[x].importing = Nobody
    BY <1>7, <1>9 DEF ViewInv
  <2>3. view'[T].importing = IF Took' THEN Nobody ELSE F
    BY <1>2, <1>3, <1>7, <1>9, <1>11 DEF ViewInv
  <2>4. \A x \in Master \ {F} : view'[x].migrating = Nobody
    BY <1>9 DEF ViewInv
  <2>5. view'[F].owner = F => view'[F].migrating = T
    BY <1>2, <1>3, <1>9 DEF ViewInv
  <2>6. F \notin tool'.left => view'[F].owner = T /\ view'[F].migrating = Nobody
    BY <1>2, <1>3, <1>4, <1>5, <1>9 DEF ViewInv
  <2>7. T \notin tool'.left => Took'
    BY <1>2, <1>4, <1>11 DEF ViewInv
  <2> QED BY <1>4, <2>1, <2>2, <2>3, <2>4, <2>5, <2>6, <2>7 DEF ViewInv
<1>16. EpochInv'
  <2>1. \A x, y \in Master : view'[x].epochs[y] <= view'[x].current
    <3> SUFFICES ASSUME NEW x \in Master, NEW y \in Master PROVE view'[x].epochs[y] <= view'[x].current
      OBVIOUS
    <3>1. view[x].epochs[y] <= view[x].current /\ view[x].current <= view'[x].current
      BY <1>9, <1>10 DEF EpochInv
    <3>2. CASE x # T \/ y # T \/ ~ takes
      BY <1>10, <1>12, <3>1, <3>2
    <3>3. CASE x = T /\ y = T /\ takes
      BY <1>10, <1>13, <3>3
    <3> QED BY <3>2, <3>3
  <2>2. \A x \in Master : view'[x].epochs[F] = view'[F].epochs[F] /\ view'[x].epochs[F] = view[x].epochs[F]
    BY <1>3, <1>12 DEF EpochInv
  <2>3. ASSUME ~ Took'
        PROVE /\ \A x \in Master : view'[x].epochs[T] = view'[T].epochs[T]
              /\ view'[T].epochs[T] < view'[T].current
    BY <1>3, <1>7, <1>9, <1>11, <1>12, <2>3 DEF EpochInv
  <2>4. ASSUME Took'
        PROVE /\ view'[F].epochs[F] < view'[T].epochs[T]
              /\ \A x \in Master : /\ view'[x].epochs[T] <= view'[T].epochs[T]
                                   /\ view'[x].epochs[T] = view'[T].epochs[T] => view'[x].owner = T
    <3>1. CASE takes
      <4>1. /\ view[T].epochs[F] <= view[T].current /\ view[T].epochs[F] = view[F].epochs[F]
            /\ view[T].epochs[T] < view[T].current
            /\ \A x \in Master : view[x].epochs[T] = view[T].epochs[T]
        BY <1>3, <1>7, <3>1 DEF EpochInv
      <4>2. view'[F].epochs[F] < view'[T].epochs[T]
        BY <1>3, <1>10, <1>12, <1>13, <3>1, <4>1
      <4>3. view'[T].owner = T
        BY <1>7, <1>9, <3>1
      <4>4. \A x \in Master \ {T} : view'[x].epochs[T] < view'[T].epochs[T]
        BY <1>3, <1>10, <1>12, <1>13, <3>1, <4>1
      <4> QED BY <1>3, <1>10, <4>2, <4>3, <4>4
    <3>2. CASE ~ takes
      <4>1. Took
        BY <1>7, <1>11, <2>4, <3>2
      <4>2. \A x \in Master : view[x].owner = T => view'[x].owner = T
        BY <1>9
      <4> QED BY <1>3, <1>12, <3>2, <4>1, <4>2 DEF EpochInv
    <3> QED BY <3>1, <3>2
  <2> QED BY <1>4, <2>1, <2>2, <2>3, <2>4 DEF EpochInv
<1>17. BeatInv'
  <2> SUFFICES ASSUME NEW b \in beat
               PROVE /\ b.from # b.to /\ b.epoch <= b.current
                     /\ b.claims => b.from \in {F, T}
                     /\ b.from = F => b.epoch = view'[F].epochs[F]
                     /\ b.from = T /\ ~ Took' => ~ b.claims /\ b.epoch = view'[T].epochs[T]
                     /\ b.from = T /\ Took' => /\ b.epoch <= view'[T].epochs[T]
                                               /\ b.claims <=> b.epoch = view'[T].epochs[T]
    BY <1>2, <1>4 DEF BeatInv
  <2>1. CASE takes
    <3>1. view[T].epochs[T] < view[T].current
      BY <1>7, <2>1 DEF EpochInv
    <3>2. b.from = T => b.epoch < view'[T].epochs[T] /\ ~ b.claims
      BY <1>3, <1>7, <1>10, <1>13, <2>1, <3>1 DEF BeatInv
    <3>3. b.from = T => b.epoch <= view'[T].epochs[T] /\ b.epoch # view'[T].epochs[T]
      <4>1. b.epoch \in Nat
        BY DEF ReshardTypes, BeatRec
      <4> QED BY <1>3, <1>10, <3>2, <4>1
    <3>4. Took' /\ view'[F].epochs[F] = view[F].epochs[F]
      BY <1>3, <1>7, <1>11, <1>12, <2>1
    <3> QED BY <3>2, <3>3, <3>4 DEF BeatInv
  <2>2. CASE ~ takes
    <3>1. (Took' <=> Took) /\ view'[T].epochs[T] = view[T].epochs[T] /\ view'[F].epochs[F] = view[F].epochs[F]
      BY <1>3, <1>7, <1>11, <1>12, <2>2
    <3> QED BY <3>1 DEF BeatInv
  <2> QED BY <2>1, <2>2
<1>18. DataInv' /\ ClientInv' /\ LateInv' /\ ~ wrong'
  BY <1>2, <1>4 DEF DataInv, ClientInv, LateInv
<1> QED BY <1>14, <1>15, <1>16, <1>17, <1>18

(* The slot goes back when all nodes name its owner and know its epoch.    *)
LEMMA ToolMovesBackInv ==
  ASSUME Distinct, OrderlyMoves, ReshardInv, UNCHANGED env, ToolMovesBack
  PROVE ReshardInv'
<1> USE DEF ReshardInv
<1> DEFINE F == tool.from
           T == tool.to
<1>1. /\ tool.step = "done" /\ tool.moves < env.moves
      /\ \A n \in Master : view[n].owner = T
      /\ env.waits => beat = {} /\ EpochsKnown
      /\ tool' = [from |-> T, to |-> F, step |-> "importing", left |-> Master, moves |-> tool.moves + 1]
      /\ UNCHANGED <<view, data, beat, mig, late, client, truth, written, wrong>>
  BY DEF ToolMovesBack, ToolIs
<1>2. /\ F \in Master /\ T \in Master /\ F # T /\ F # Nobody /\ tool.moves \in 1..2 /\ env \in Env
      /\ view \in [Master -> ViewRec]
  BY Ends DEF ReshardTypes
<1>3. tool.moves = 1 /\ env.waits
  BY <1>1, <1>2 DEF OrderlyMoves
<1>4. beat = {} /\ EpochsKnown /\ mig.st = "idle" /\ tool.left = {}
  BY <1>1, <1>3 DEF ToolInv
<1>5. tool'.from = T /\ tool'.to = F /\ tool'.step = "importing" /\ tool'.moves = 2 /\ tool'.left = Master
  BY <1>1, <1>3
<1>6. tool' \in ToolRec
  BY <1>1, <1>2, <1>3 DEF ToolRec, Step
<1>7. ReshardTypes' /\ ToolInv' /\ BeatInv'
  BY <1>1, <1>3, <1>4, <1>5, <1>6 DEF ReshardTypes, ToolInv, BeatInv
<1>8. view[F].migrating = Nobody /\ view[T].importing = Nobody
  BY <1>1, <1>2, <1>4 DEF ViewInv
<1>9. ~ Took'
  BY <1>1, <1>2, <1>5
<1>10. ViewInv'
  BY <1>1, <1>2, <1>5, <1>8, <1>9 DEF ViewInv
<1>11. EpochInv'
  <2>1. Took
    BY <1>1, <1>2
  <2>2. \A n, m \in Master : view[n].epochs[m] = view[m].epochs[m]
    BY <1>4 DEF EpochsKnown
  <2>3. view[F].epochs[F] < view[F].epochs[T] /\ view[F].epochs[T] <= view[F].current
    BY <1>2, <2>1, <2>2 DEF EpochInv
  <2>4. view[F].epochs[F] < view[F].current
    BY <1>2, <2>3 DEF ViewRec
  <2>5. \A n, m \in Master : view[n].epochs[m] <= view[n].current
    BY DEF EpochInv
  <2> QED BY <1>1, <1>2, <1>5, <1>9, <2>2, <2>4, <2>5 DEF EpochInv
<1>12. DataInv'
  <2>1. data[F] = Empty /\ data[T] = truth
    BY <1>1 DEF DataInv
  <2> QED BY <1>1, <1>5, <2>1 DEF DataInv
<1>13. ClientInv' /\ LateInv' /\ ~ wrong'
  BY <1>1, <1>2, <1>3, <1>5 DEF ClientInv, LateInv
<1> QED BY <1>7, <1>10, <1>11, <1>12, <1>13

LEMMA ToolDiesInv ==
  ASSUME Distinct, ReshardInv, UNCHANGED env, ToolDies
  PROVE ReshardInv'
<1> USE DEF ReshardInv
<1>1. /\ tool.step = "node" /\ mig.st = "idle" /\ tool' = [tool EXCEPT !.step = "dead"]
      /\ UNCHANGED <<view, data, beat, mig, late, client, truth, written, wrong>>
  BY DEF ToolDies, ToolIs
<1>2. tool \in ToolRec /\ tool.from \in Master /\ tool.to \in Master
  BY Ends DEF ReshardTypes
<1>3. /\ tool' \in ToolRec /\ tool'.step = "dead" /\ tool'.from = tool.from /\ tool'.to = tool.to
      /\ tool'.moves = tool.moves
  BY <1>1, <1>2 DEF ToolRec, Step
<1>4. ReshardTypes' /\ ToolInv'
  BY <1>1, <1>3 DEF ReshardTypes, ToolInv
<1>5. ViewInv' /\ EpochInv' /\ BeatInv'
  BY <1>1, <1>2, <1>3 DEF ViewInv, EpochInv, BeatInv
<1>6. DataInv' /\ ClientInv' /\ LateInv' /\ ~ wrong'
  BY <1>1, <1>3 DEF DataInv, ClientInv, LateInv
<1> QED BY <1>4, <1>5, <1>6

-----------------------------------------------------------------------------
(* The invariant holds in every state.                                     *)
LEMMA NextInv ==
  ASSUME Distinct, OrderlyMoves, ReshardInv, ReshardNext
  PROVE ReshardInv'
<1>0. UNCHANGED env
  BY DEF ReshardNext
<1>1. CASE Request \/ processCommand
  BY <1>0, <1>1, RequestInv, CommandInv
<1>2. CASE migrateCommand \/ Restore \/ MigrateEnds \/ MigrateTimesOut \/ RestoreLate \/ SocketCloses
  BY <1>0, <1>2, MigrateInv, RestoreInv, MigrateEndsInv, MigrateTimesOutInv, RestoreLateInv, SocketInv
<1>3. CASE (\E n \in Master : SendHeartbeat(n)) \/ HeartbeatArrives
  BY <1>0, <1>3, PingInv, HeartbeatInv
<1>4. CASE ToolImporting \/ ToolMigrating \/ ToolNoKeys \/ ToolNode \/ ToolMovesBack \/ ToolDies
  BY <1>0, <1>4, ToolImportingInv, ToolMigratingInv, ToolNoKeysInv, ToolNodeInv, ToolMovesBackInv, ToolDiesInv
<1> QED BY <1>1, <1>2, <1>3, <1>4 DEF ReshardNext

LEMMA StutterInv ==
  ASSUME ReshardInv, UNCHANGED reshardVars
  PROVE ReshardInv'
<1>1. UNCHANGED <<env, view, data, beat, tool, mig, late, client, truth, written, wrong>>
  BY DEF reshardVars
<1> QED BY <1>1 DEF ReshardInv, ReshardTypes, ToolInv, ViewInv, EpochInv, BeatInv, DataInv, Place, Moving, ClientInv, LateInv

(* The invariant of the module: where each key is at every step of a move. *)
THEOREM ReshardInvariant == ASSUME Distinct, OrderlyMoves PROVE ReshardSpec => []ReshardInv
<1>1. ReshardInit => ReshardInv
  BY InitInv
<1>2. ReshardInv /\ [ReshardNext]_reshardVars => ReshardInv'
  BY NextInv, StutterInv
<1> QED BY <1>1, <1>2, PTL DEF ReshardSpec

(* Whatever the keys, values, requests, heartbeats and the moment at which *)
(* a MIGRATE or redis-trib gives up: no request is answered by a node that *)
(* lacks the last write, and after a move all nodes that know the epochs   *)
(* name the new owner, which has every key.                                *)
THEOREM KeysFollowSlotAlways == ASSUME Distinct, OrderlyMoves PROVE ReshardSpec => []KeysFollowSlot
<1>1. ReshardInv => KeysFollowSlot
  <2> SUFFICES ASSUME ReshardInv PROVE AnswersAreCurrent /\ MoveComplete
    BY DEF KeysFollowSlot
  <2>1. AnswersAreCurrent
    BY DEF ReshardInv, AnswersAreCurrent
  <2>2. MoveComplete
    <3> SUFFICES ASSUME tool.step = "done", EpochsKnown, NEW n \in Master
                 PROVE /\ view[n].owner = tool.to
                       /\ view[n].migrating = Nobody /\ view[n].importing = Nobody
                       /\ data[n] = IF n = tool.to THEN truth ELSE Empty
      BY DEF MoveComplete
    <3>1. tool.from \in Master /\ tool.to \in Master /\ tool.from # tool.to /\ tool.left = {}
      BY Ends DEF ReshardInv, ToolInv
    <3>2. Took /\ view[tool.from].migrating = Nobody
      BY <3>1 DEF ReshardInv, ViewInv
    <3>3. view[n].owner = tool.to
      BY <3>1, <3>2 DEF ReshardInv, EpochInv, EpochsKnown
    <3>4. view[n].migrating = Nobody /\ view[n].importing = Nobody
      BY <3>1, <3>2 DEF ReshardInv, ViewInv
    <3>5. data[n] = IF n = tool.to THEN truth ELSE Empty
      BY <3>1 DEF ReshardInv, DataInv
    <3> QED BY <3>3, <3>4, <3>5
  <2> QED BY <2>1, <2>2
<1> QED BY <1>1, ReshardInvariant, PTL
=============================================================================
