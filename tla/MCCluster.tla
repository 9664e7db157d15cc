----------------------------- MODULE MCCluster -----------------------------
(* The cluster: epochs and elections among three masters with a slot each,  *)
(* and up to two slaves of the first one; membership and the detection of   *)
(* failures among three or four processes; a slot that is moved. A          *)
(* behaviour is one of one of these; what is not part of it stays in one    *)
(* state.                                                                   *)
EXTENDS Cluster, ClusterFailures, Resharding, TLC

CONSTANTS Parts,     \* "bus", "failures", "resharding"
          m1, m2, m3, k1, k2
VARIABLE part

MCNode == 1..5
MCSlot == 1..3

Start(slaves, cutoff, backs, max) ==
  [owner  |-> [s \in MCSlot |-> s],
   master |-> [n \in MCNode |-> IF n \in slaves THEN 1 ELSE NoNode],
   epoch  |-> [n \in MCNode |-> IF n \in slaves THEN 1 ELSE IF n > 3 THEN 0 ELSE n],
   cut    |-> cutoff,
   back   |-> backs,
   max    |-> max @@ [what \in Bound |-> 0]]

\* two slaves of a failed master ask for votes
Election == Start({4, 5}, {1}, {}, "epochs" :> 4 @@ "timers" :> 3)

\* the failed master comes back while, or after, its slave is elected
OldMaster == Start({4}, {1, 5}, {1}, "epochs" :> 4 @@ "heartbeats" :> 1)

\* a manual failover while clients write
Manual == Start({4}, {5}, {}, "epochs" :> 4 @@ "manual" :> 1 @@ "writes" :> 1 @@ "timers" :> 1)

\* one asked for again when nothing of the first is left, and one asked for again at once
Again == Start({4}, {5}, {}, "epochs" :> 5 @@ "manual" :> 2 @@ "writes" :> 1)
AtOnce == Start({4}, {5}, {}, "epochs" :> 5 @@ "manual" :> 2 @@ "overlaps" :> 1 @@ "writes" :> 1)

\* a manual failover of a master that disappears meanwhile
ManualCut == Start({4}, {5}, {}, "epochs" :> 4 @@ "manual" :> 1 @@ "cuts" :> 1)

\* a node restarts while a slave is elected
Restarting == Start({4}, {1, 5}, {}, "epochs" :> 4 @@ "restarts" :> 1 @@ "heartbeats" :> 1)

\* two voters restart while two slaves ask for votes
RestartingVoters == Start({4, 5}, {1}, {}, "epochs" :> 4 @@ "restarts" :> 2)

\* masters that start with the same epoch
Join == [Start({}, {4, 5}, {}, "epochs" :> 4 @@ "heartbeats" :> 2) EXCEPT !.epoch = [n \in MCNode |-> 0]]

MCScenario == {Election, OldMaster, Manual, Again, ManualCut, Restarting, Join}
MCRestartScenario == {RestartingVoters}
MCAtOnceScenario == {AtOnce}

-----------------------------------------------------------------------------
(* Failures: the role of each process, those that know each other, and what *)
(* may happen.                                                              *)

Network(role, mesh, pings, suspects, topics) ==
  [role |-> role, mesh |-> mesh, pings |-> pings, suspects |-> suspects, meet |-> {}, forget |-> {},
   reset |-> {}, restart |-> {}, timers |-> 0, topics |-> topics]

AllMasters == <<"master", "master", "master", "empty">>

\* two masters and a slave lose sight of the third master
Failing == Network(<<"master", "master", "master", "slave">>, 1..4, {<<2, 1>>, <<4, 1>>, <<1, 3>>, <<2, 3>>, <<4, 3>>},
                   {<<1, 3>>, <<2, 3>>, <<4, 3>>}, {3})
\* the flag is cleared when the node is back
Undone == [Network(AllMasters, 1..3, {<<2, 1>>, <<1, 3>>, <<2, 3>>}, {<<1, 3>>, <<2, 3>>}, {3}) EXCEPT !.timers = 2]
\* new nodes are introduced to each other
Meets == [Network(<<"empty", "empty", "empty", "empty">>, {}, {<<1, 2>>}, {}, {2, 3}) EXCEPT
            !.meet = {<<1, 2>>, <<1, 3>>}, !.timers = 1]
\* a node is forgotten by one node after the other, while they gossip
Forgets == [Network(<<"master", "master", "empty", "empty">>, 1..3, {<<1, 2>>, <<2, 1>>, <<3, 1>>}, {}, {3}) EXCEPT
              !.forget = {<<1, 3>>, <<2, 3>>}, !.timers = 1]
\* two nodes take each other's address
Swaps == [Network(<<"master", "empty", "empty", "empty">>, 1..3, {<<1, 3>>}, {}, {}) EXCEPT !.restart = {<<3, 5>>, <<2, 3>>}]
\* a node is reset hard and met again
Resets == [Network(<<"master", "empty", "master", "empty">>, 1..3, {<<1, 2>>, <<2, 3>>}, {}, {2}) EXCEPT
             !.meet = {<<1, 2>>}, !.reset = {<<2, TRUE>>}, !.timers = 1]
\* a node that is suspected moves to another address
Moves == [Network(<<"master", "master", "empty", "empty">>, 1..3, {<<1, 3>>, <<2, 1>>}, {<<1, 3>>}, {3}) EXCEPT
            !.restart = {<<3, 5>>}]

MCNet == {Failing, Undone, Meets, Forgets, Swaps, Resets, Moves}

\* a master and a node without slots lose sight of a master
Minority == {Network(AllMasters, 1..4, {<<4, 1>>, <<1, 3>>, <<4, 3>>}, {<<1, 3>>, <<4, 3>>}, {3})}

-----------------------------------------------------------------------------
(* Resharding: masters m1, m2 and m3; the slot goes from m1 to m2.         *)

Move(faults, ops, options, moves) ==
  [faults |-> faults, ops |-> ops, options |-> options, moves |-> moves, waits |-> TRUE]

MCReshardEnv == {Move({"toolDies", "idleSocket"}, {"get", "set", "del"}, {}, 1),
                 Move({"lateReply"}, {"get"}, {}, 1),
                 Move({}, {"set"}, {"replace"}, 2)}

\* MIGRATE ... COPY
CopyEnv == {Move({}, {"get"}, {"copy"}, 1)}
\* A slot that comes back a second time, to a node an ASKING request is still on
\* its way to; and a RESTORE that arrives after a write.
ThreeMoves == {Move({}, {"get"}, {"replace"}, 3)}
LateRestore == {Move({"lateReply"}, {"get", "set", "del"}, {}, 1)}

-----------------------------------------------------------------------------
NoBus == /\ node = [i \in Node |-> [cfg |-> [slots |-> [s \in Slot |-> NoNode]]]] /\ disk = 0
         /\ cut = {} /\ net = {0} /\ offset = 0 /\ won = {}
         /\ mfloss = FALSE /\ back = {} /\ left = 0
NoProcesses == /\ server = [p \in Process |-> [nodes |-> <<>>, black |-> {}]]
               /\ allowed = 0 /\ timedout = {} /\ credited = {}
NoMove == ReshardInit /\ env = CHOOSE e \in Env : TRUE

MCInit ==
  /\ part \in Parts
  /\ IF part = "bus" THEN ClusterInit ELSE NoBus
  /\ IF part = "failures" THEN FailInit ELSE NoProcesses
  /\ IF part = "resharding" THEN ReshardInit ELSE NoMove

MCNext ==
  /\ UNCHANGED part
  /\ \/ part = "bus" /\ ClusterNext /\ UNCHANGED <<failVars, reshardVars>>
     \/ part = "failures" /\ FailNext /\ UNCHANGED <<ClusterVars, reshardVars>>
     \/ part = "resharding" /\ ReshardNext /\ UNCHANGED <<ClusterVars, failVars>>

MCSpec == MCInit /\ [][MCNext]_<<part, ClusterVars, failVars, reshardVars>>

\* The keys of the slot are interchangeable.
Symmetry == Permutations({k1, k2})

-----------------------------------------------------------------------------
\* A node is FAIL somewhere only after more than half of the masters saw their own pings to it
\* time out; and its timers and flags are cleared only by a PONG of that very node, whoever
\* answers at its address (markNodeAsFailingIfNeeded, clusterProcessPacket).
\* And a node that was forgotten does not come back by gossip while it is blacklisted.
FailuresSound == FailNeedsMajority /\ PongsCredited /\ ForgottenStaysOut
=============================================================================
