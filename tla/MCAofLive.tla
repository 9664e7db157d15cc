------------------------------ MODULE MCAofLive ------------------------------
(* What must eventually happen to the append only file, and to the jobs of   *)
(* the background threads. A behaviour is one of one component, the other    *)
(* stays in its initial state.                                               *)
EXTENDS AOF, Bio, TLC

CONSTANT Parts   \* the components to check
VARIABLE part

liveVars == <<part, vars, bioVars>>

LiveInit == part \in Parts /\ Init /\ BioInit

LiveNext ==
  /\ UNCHANGED part
  /\ \/ part = "aof" /\ Next /\ UNCHANGED bioVars
     \/ part = "bio" /\ BioNext /\ UNCHANGED vars

LiveFairness ==
  \/ part = "aof" /\ Fairness
  \/ part = "bio" /\ BioFairness

LiveSpec == LiveInit /\ [][LiveNext]_liveVars /\ LiveFairness

-----------------------------------------------------------------------------
\* A rewrite that was asked for ends, and what was written leaves the buffer of the AOF.
AofSettles == part = "aof" => WaitRewriteEnds /\ BufferDrains

\* Every job that was handed to a background thread is executed.
BackgroundJobsFinish == part = "bio" => JobsFinish
=============================================================================
