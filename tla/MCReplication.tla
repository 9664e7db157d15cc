--------------------------- MODULE MCReplication ---------------------------
(* What replication keeps of the data set, with a slave that may ask for a  *)
(* resynchronisation while a BGSAVE runs, and WAIT with the acknowledgements *)
(* of two slaves. A behaviour is one of these; what is not part of it stays  *)
(* in an initial state.                                                     *)
EXTENDS Replication, Acks

CONSTANTS Parts,   \* "overlap", "acks"
          s1, s2, c1, c2, c, d
VARIABLE part

replicationVars == <<part, vars, ackVars>>

Wait(num, timeout) == [num |-> num, timeout |-> timeout]
Wr == Wait(0, 0)
APlan(rc, rd, min, stream, time, period) ==
  [requests |-> (c :> rc) @@ (d :> rd), minSlaves |-> min, maxLag |-> 1, timeout |-> 2,
   maxStream |-> stream, maxTime |-> time, period |-> period, maxFaults |-> 1, maxAcks |-> 1]

\* two clients wait for ever, one waits for a time, a write needs a slave
\* that was heard of, while time passes between two turns of replicationCron()
MCAckPlan == {APlan(<<Wr, Wait(2, 0)>>, <<Wr, Wait(1, 0)>>, 0, 3, 0, 1),
              APlan(<<Wr, Wait(2, 1)>>, <<>>, 0, 2, 1, 1),
              APlan(<<Wr>>, <<>>, 1, 1, 3, 2)}

MCInit ==
  /\ part \in Parts
  /\ Init
  /\ AckInit
  /\ part # "acks" => ackPlan = CHOOSE p \in AckPlan : TRUE

MCNext ==
  /\ UNCHANGED part
  /\ \/ part = "overlap" /\ Next /\ UNCHANGED ackVars
     \/ part = "acks" /\ AckNext /\ UNCHANGED vars

MCSpec == MCInit /\ [][MCNext]_replicationVars

\* for the part "overlap" alone
LiveSpec == MCSpec /\ Fairness

\* Connections and slaves are interchangeable (the runs that use it check no liveness).
Symmetry == Permutations({c1, c2}) \cup Permutations({s1, s2})
=============================================================================
