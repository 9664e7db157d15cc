----------------------------- MODULE MCFailover -----------------------------
(* What a failover rests on: the sentinels that agree on its leader and on  *)
(* the new master (three sentinels, a master and two slaves), and slaves    *)
(* that resume a stream of their master where they left it. A behaviour is  *)
(* one of these; the other stays in an initial state.                       *)
EXTENDS Replication, Sentinel, TLC

CONSTANT Parts   \* "sentinels", "no overlap"
VARIABLE part

failoverVars == <<part, vars, SentinelVars>>

MCInst == 1..3
MCPriority == [i \in MCInst |-> 100]
MCReplOffset == [i \in MCInst |-> 1]

Symmetry == Permutations(Sent)

Start(lost, missing, max) == [down |-> lost, dead |-> missing, max |-> max @@ [b \in SentinelBound |-> 0]]

\* an election fails and is repeated with the next epoch
Repeat == Start({1, 3}, 1, "epochs" :> 2 @@ "asks" :> 1 @@ "timeouts" :> 2)
\* the master is dead, all sentinels may want to lead, and one restarts in the middle
Restarting == Start({1, 3}, 0, "epochs" :> 1 @@ "asks" :> 1 @@ "restarts" :> 1)
\* a sentinel is reset
Resetting == Start({1}, 1, "epochs" :> 1 @@ "asks" :> 1 @@ "resets" :> 1 @@ "hellos" :> 1)
\* the new configuration travels, the old master comes back and its role is repaired
Spread == Start({1, 3}, 1, "epochs" :> 1 @@ "asks" :> 1 @@ "hellos" :> 1 @@ "recovers" :> 1 @@ "repairs" :> 1)
\* an instance dies during the failover, messages are lost, the clock jumps
Dying == Start({1}, 1, "epochs" :> 1 @@ "asks" :> 1 @@ "fails" :> 1)
Losing == Start({1}, 1, "epochs" :> 1 @@ "asks" :> 1 @@ "losses" :> 1 @@ "tilts" :> 1)
\* a user asks for a failover
Forced == Start({}, 0, "epochs" :> 1 @@ "asks" :> 1 @@ "forced" :> 1 @@ "hellos" :> 1)

MCScenario == {Repeat, Restarting, Resetting, Spread, Dying, Losing, Forced}

MCInit ==
  /\ part \in Parts
  /\ Init
  /\ SentinelInit
  /\ part # "sentinels" => down = Forced.down /\ sleft = Forced.max

MCNext ==
  /\ UNCHANGED part
  /\ \/ part = "sentinels" /\ SentinelNext /\ UNCHANGED vars
     \/ part = "no overlap" /\ NextNoOverlap /\ UNCHANGED SentinelVars

MCSpec == MCInit /\ [][MCNext]_failoverVars

-----------------------------------------------------------------------------
\* a failover takes too long
MCTimeout == {Start({1}, 1, "epochs" :> 1 @@ "asks" :> 1 @@ "timeouts" :> 1)}
\* a sentinel restarts
MCRestart == {Start({1}, 1, "epochs" :> 1 @@ "asks" :> 1 @@ "restarts" :> 1)}
\* a user asks for a failover during an election
MCForce == {Start({1}, 0, "epochs" :> 2 @@ "asks" :> 1 @@ "hellos" :> 1 @@ "forced" :> 1)}

\* the same with the election under way: all but one want to lead with epoch 1 and have not asked yet
Idle == CHOOSE s \in Sent : TRUE
ForcedInit ==
  /\ part = "sentinels" /\ Init
  /\ down = {1} /\ sleft = (CHOOSE sc \in MCForce : TRUE).max /\ dead = {} /\ snet = {} /\ elected = {} /\ reset = {}
  /\ repl = [i \in Inst |-> IF i = Master0 THEN NoOne ELSE Master0]
  /\ sconf = [s \in Sent |-> [current_epoch |-> IF s = Idle THEN 0 ELSE 1, config_epoch |-> 0,
                              leader_epoch |-> IF s = Idle THEN 0 ELSE 1, addr |-> Master0,
                              slaves |-> Inst \ {Master0}, known |-> [t \in Sent \ {s} |-> 0]]]
  /\ sen = [s \in Sent |->
       LET loaded == [LoadedSentinel(sconf[s], 0) EXCEPT !.sdown = TRUE]
       IN IF s = Idle THEN loaded
          ELSE [loaded EXCEPT !.odown = TRUE, !.master_down = {Idle}, !.recent = TRUE, !.state = "WAIT_START",
                              !.failover_epoch = 1, !.vote = [leader |-> <<s, 0>>, epoch |-> 1]]]
ForcedSpec == ForcedInit /\ [][MCNext]_failoverVars
=============================================================================
