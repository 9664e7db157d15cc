------------------------------ MODULE Sentinel ------------------------------
(***************************************************************************)
(* The sentinels of sentinel.c that monitor one master: subjectively and   *)
(* objectively down, the vote for a leader by epoch, the failover state    *)
(* machine, hello messages and the change of address they bring, the       *)
(* repair of roles that INFO reveals, TILT mode, SENTINEL FAILOVER and     *)
(* RESET, and what a restarted sentinel reads from its configuration.      *)
(*                                                                         *)
(* Clocks are nondeterministic: a test of the form "more than so many      *)
(* milliseconds ago" is a member of the set "late" that the step picks.    *)
(***************************************************************************)
EXTENDS Integers, FiniteSets, FiniteSetsExt

CONSTANTS
  Sent,             \* sentinels
  Inst,             \* addresses of the redis instances, numbers
  Master0,          \* the master the sentinels are configured with
  Quorum,           \* of "sentinel monitor"
  ParallelSyncs,    \* slaves reconfigured at a time
  Priority,         \* slave_priority and slave_repl_offset of each instance
  ReplOffset,
  SentinelScenario  \* instances down at first, number of dead sentinels, bounds of a run

\* the epochs reached, instances that die and come back, hellos under way at a time,
\* user requested failovers and resets, restarts, periods of tilt, expired failovers,
\* roles that are repaired, messages lost, requests under way at a time
SentinelBound == {"epochs", "fails", "recovers", "hellos", "forced", "resets", "restarts",
                  "tilts", "timeouts", "repairs", "losses", "asks"}

ASSUME SentinelAssumption ==
  /\ Inst \subseteq Nat \ {0} /\ Master0 \in Inst
  /\ Quorum \in Nat \ {0} /\ 2 * Quorum > Cardinality(Sent) /\ ParallelSyncs \in Nat \ {0}
  /\ Priority \in [Inst -> Nat] /\ ReplOffset \in [Inst -> Nat]
  /\ \A sc \in SentinelScenario : /\ sc.down \subseteq Inst /\ sc.dead \in Nat
                                   /\ sc.max \in [SentinelBound -> Nat]

VARIABLES
  sen,       \* the sentinelState, and the sentinelRedisInstance of the master, of each sentinel
  sconf,     \* its configuration file
  repl,      \* the master each redis instance replicates from, or NoOne
  down,      \* redis instances that do not answer
  snet,      \* commands, replies and hello messages under way
  elected,   \* <<epoch, sentinel>> of the leaders elected
  reset,     \* sentinels that a user reset in the middle of a failover
  dead,      \* sentinels the others know but that do not run
  sleft      \* what is left of the bounds

SentinelVars == <<sen, sconf, repl, down, snet, elected, reset, dead, sleft>>

NoOne == 0
NoRun == <<>>
NoVote == [leader |-> NoRun, epoch |-> 0]

\* run ids are new in every life of a sentinel
RunId(s, st) == <<s, st.life>>

\* a sentinel that has just read its configuration c, in its life n
LoadedSentinel(c, n) ==
  [life |-> n, current_epoch |-> Max({c.current_epoch, c.config_epoch}), config_epoch |-> c.config_epoch,
   vote |-> [leader |-> NoRun, epoch |-> c.leader_epoch], addr |-> c.addr,
   slaves |-> c.slaves, known |-> c.known, sdown |-> FALSE, odown |-> FALSE, tilt |-> FALSE,
   master_down |-> {}, heard |-> [t \in Sent |-> NoVote],
   state |-> "NONE", failover_epoch |-> 0, promoted |-> NoOne, force |-> FALSE,
   recent |-> FALSE, reconf |-> [i \in Inst |-> {}]]

InProgress(st) == st.state # "NONE"

\* mutant: the promoted slave is only told about when the failover has ended
ToldAfterFailover(st) == st.addr

\* the address clients and other sentinels are told
sentinelGetCurrentMasterAddress(st) ==
  IF InProgress(st) /\ st.promoted # NoOne /\ st.state \in {"RECONF_SLAVES", "UPDATE_CONFIG"}
  THEN st.promoted ELSE st.addr

\* what sentinelFlushConfig() writes; the leader voted for is not written, its epoch is
rewriteConfigSentinelOption(st) ==
  [current_epoch |-> st.current_epoch, config_epoch |-> st.config_epoch,
   leader_epoch |-> st.vote.epoch, addr |-> sentinelGetCurrentMasterAddress(st),
   slaves |-> st.slaves, known |-> st.known]

SentinelInit ==
  /\ sconf = [s \in Sent |-> [current_epoch |-> 0, config_epoch |-> 0, leader_epoch |-> 0,
                              addr |-> Master0, slaves |-> Inst \ {Master0},
                              known |-> [t \in Sent \ {s} |-> 0]]]
  /\ sen = [s \in Sent |-> LoadedSentinel(sconf[s], 0)]
  /\ repl = [i \in Inst |-> IF i = Master0 THEN NoOne ELSE Master0]
  /\ snet = {}
  /\ elected = {}
  /\ reset = {}
  /\ \E sc \in SentinelScenario : /\ down = sc.down /\ sleft = sc.max
                                  /\ dead \in kSubset(sc.dead, Sent)

Bounded(what) == sleft[what] > 0 /\ sleft' = [sleft EXCEPT ![what] = @ - 1]

-----------------------------------------------------------------------------
(* Forgetting and changing the master                                      *)

sentinelResetMaster(st, sentinels) ==
  [st EXCEPT !.slaves = {}, !.known = IF sentinels THEN <<>> ELSE @,
             !.heard = IF sentinels THEN [t \in Sent |-> NoVote] ELSE @,
             !.master_down = IF sentinels THEN {} ELSE @,
             !.sdown = FALSE, !.odown = FALSE, !.force = FALSE,
             !.vote.leader = NoRun, !.state = "NONE", !.recent = FALSE, !.promoted = NoOne,
             !.reconf = [i \in Inst |-> {}]]

\* the slaves stay known, and the old master becomes one of them
sentinelResetMasterAndChangeAddress(st, new) ==
  [sentinelResetMaster(st, FALSE) EXCEPT !.addr = new,
                                         !.slaves = (st.slaves \cup {st.addr}) \ {new}]

-----------------------------------------------------------------------------
(* The vote                                                                *)

\* mutant: the sentinel that asked last in an epoch gets the vote
VoteForLast(s, st, epoch, run) ==
  LET cur == Max({st.current_epoch, epoch})
      votes == st.vote.epoch <= epoch /\ cur <= epoch
  IN  [st EXCEPT !.current_epoch = cur,
                 !.vote = IF votes THEN [leader |-> run, epoch |-> cur] ELSE @,
                 !.recent = @ \/ (votes /\ run # RunId(s, st))]

\* vote for run in epoch, or keep the vote given in it or later; the configuration is
\* written before the answer leaves
sentinelVoteLeader(s, st, epoch, run) ==
  LET cur == Max({st.current_epoch, epoch})
      votes == st.vote.epoch < epoch /\ cur <= epoch
  IN  [st EXCEPT !.current_epoch = cur,
                 !.vote = IF votes THEN [leader |-> run, epoch |-> cur] ELSE @,
                 !.recent = @ \/ (votes /\ run # RunId(s, st))]

\* votes heard in the current epoch, by the run they are for
Votes(st, run) ==
  Cardinality({t \in DOMAIN st.known : /\ st.heard[t].leader = run
                                       /\ st.heard[t].epoch = st.current_epoch})

\* [leader, st]: our own vote, given now if it was not, joins the strongest candidate
\* (any of them when they are equal)
sentinelGetLeader(s, st) ==
  LET runs == {st.heard[t].leader : t \in DOMAIN st.known} \ {NoRun}
      counted == {r \in runs : Votes(st, r) > 0}
      best == {r \in counted : \A q \in counted : Votes(st, q) <= Votes(st, r)}
      quorum == Max({(Cardinality(DOMAIN st.known) + 1) \div 2 + 1, Quorum})
  IN  {LET voted == sentinelVoteLeader(s, st, st.failover_epoch, w)
           mine == voted.vote.leader # NoRun /\ voted.vote.epoch = st.failover_epoch
           bonus(r) == IF mine /\ voted.vote.leader = r THEN 1 ELSE 0
           won == {r \in {w, voted.vote.leader} \ {NoRun} : Votes(st, r) + bonus(r) >= quorum}
       IN  [st |-> voted, leader |-> IF won = {} THEN NoRun ELSE CHOOSE r \in won : TRUE] :
         w \in IF best = {} THEN {RunId(s, st)} ELSE best}

-----------------------------------------------------------------------------
(* The failover state machine.  A step of it gives [st, out, flush]: the   *)
(* new state, the commands sent and whether the configuration is written.  *)

Step(st) == [st |-> st, out |-> {}, flush |-> FALSE]

SlaveOf(s, to, master) == [type |-> "slaveof", from |-> s, to |-> to, master |-> master]

sentinelAbortFailover(st) ==
  [st EXCEPT !.state = "NONE", !.force = FALSE, !.promoted = NoOne]

sentinelStartFailover(st) ==
  [st EXCEPT !.state = "WAIT_START", !.failover_epoch = st.current_epoch + 1,
             !.current_epoch = @ + 1, !.recent = TRUE]

compareSlavesForPromotion(a, b) ==
  \/ Priority[a] < Priority[b]
  \/ Priority[a] = Priority[b] /\ ReplOffset[a] > ReplOffset[b]
  \/ Priority[a] = Priority[b] /\ ReplOffset[a] = ReplOffset[b] /\ a < b

\* fresh: the slaves whose INFO and PING are recent enough and whose link was not down long
sentinelSelectSlave(st, fresh) ==
  LET good == {i \in st.slaves \cap fresh : i \notin down /\ Priority[i] # 0}
  IN  IF good = {} THEN NoOne
      ELSE CHOOSE i \in good : \A j \in good \ {i} : compareSlavesForPromotion(i, j)

sentinelFailoverWaitStart(s, st, late) ==
  {LET isleader == g.leader = RunId(s, st)
       next == IF isleader \/ st.force THEN [g.st EXCEPT !.state = "SELECT_SLAVE"]
               ELSE IF "failover" \in late THEN sentinelAbortFailover(g.st) ELSE g.st
   IN  [Step(next) EXCEPT !.flush = g.st # st] : g \in sentinelGetLeader(s, st)}

sentinelFailoverSelectSlave(st, fresh) ==
  LET slave == sentinelSelectSlave(st, fresh)
  IN  Step(IF slave = NoOne THEN sentinelAbortFailover(st)
           ELSE [st EXCEPT !.promoted = slave, !.state = "SEND_SLAVEOF_NOONE"])

sentinelFailoverSendSlaveOfNoOne(s, st, late) ==
  IF st.promoted \in down THEN Step(IF "failover" \in late THEN sentinelAbortFailover(st) ELSE st)
  ELSE [Step([st EXCEPT !.state = "WAIT_PROMOTION"]) EXCEPT
          !.out = {SlaveOf(s, st.promoted, NoOne)}]

\* the failover ends when all slaves are done, or when it has taken too long, with a last
\* SLAVEOF to those that did not get one
sentinelFailoverDetectEnd(s, st, out, late) ==
  LET waiting == {i \in st.slaves \ (down \cup {st.promoted}) : "done" \notin st.reconf[i]}
      last == IF "failover" \notin late THEN {}
              ELSE {i \in st.slaves \ down : {"done", "sent"} \cap st.reconf[i] = {}}
      st2 == [st EXCEPT !.reconf = [i \in Inst |-> IF i \in last THEN @[i] \cup {"sent"} ELSE @[i]],
                        !.state = IF waiting = {} \/ "failover" \in late THEN "UPDATE_CONFIG"
                                  ELSE @]
  IN  IF st.promoted \in down THEN [st |-> st, out |-> out, flush |-> FALSE]
      ELSE [st |-> st2, flush |-> FALSE, out |-> out \cup {SlaveOf(s, i, st.promoted) : i \in last}]

\* all slaves but the promoted one follow it, a few at a time; who did not react to the
\* SLAVEOF for long counts as done and gets another one
sentinelFailoverReconfNextSlave(s, st, late) ==
  LET f == st.reconf
      stuck == IF "reconf" \in late THEN {i \in st.slaves : f[i] = {"sent"}} ELSE {}
      room == ParallelSyncs - Cardinality({i \in st.slaves : f[i] \cap {"sent", "inprog"} # {}})
      next == {i \in st.slaves \ (down \cup {st.promoted}) : f[i] = {} \/ i \in stuck}
      sent == CHOOSE q \in SUBSET next :
                /\ Cardinality(q) = Min({Cardinality(next), Max({room, 0})})
                /\ \A i \in q, j \in next \ q : i < j
      f2 == [i \in Inst |-> IF i \in sent THEN {"sent"} \cup (IF i \in stuck THEN {"done"} ELSE {})
                            ELSE IF i \in stuck \cap down /\ room > 0 THEN {"done"} ELSE f[i]]
  IN  sentinelFailoverDetectEnd(s, [st EXCEPT !.reconf = f2],
                                {SlaveOf(s, i, st.promoted) : i \in sent}, late)

sentinelFailoverStateMachine(s, st, late, fresh) ==
  CASE st.state = "WAIT_START" -> sentinelFailoverWaitStart(s, st, late)
    [] st.state = "SELECT_SLAVE" -> {sentinelFailoverSelectSlave(st, fresh)}
    [] st.state = "SEND_SLAVEOF_NOONE" -> {sentinelFailoverSendSlaveOfNoOne(s, st, late)}
    [] st.state = "WAIT_PROMOTION" ->
         {Step(IF "failover" \in late THEN sentinelAbortFailover(st) ELSE st)}
    [] st.state = "RECONF_SLAVES" -> {sentinelFailoverReconfNextSlave(s, st, late)}
    [] OTHER -> {Step(st)}

-----------------------------------------------------------------------------
(* sentinelTimer()                                                         *)

\* the sentinels whose link is connected are asked; a request is not repeated while one,
\* or its answer, is under way
Asked(s) ==
  LET busy == {m \in snet : m.type \in {"ask", "reply"}}
  IN  {c \in SUBSET {t \in DOMAIN sen[s].known \ dead : \A m \in busy : {m.from, m.to} # {s, t}} :
         Cardinality(c) + Cardinality(busy) <= sleft.asks}

sentinelAskMasterStateToOtherSentinels(s, st, asked) ==
  IF ~st.sdown THEN {}
  ELSE {[type |-> "ask", from |-> s, to |-> t, addr |-> st.addr, epoch |-> st.current_epoch,
         run |-> IF InProgress(st) THEN RunId(s, st) ELSE NoRun] : t \in asked}

\* the master does not answer, or says it is a slave, for down-after-milliseconds
sentinelCheckSubjectivelyDown(st, late) ==
  [st EXCEPT !.sdown = /\ st.addr \in down \/ repl[st.addr] # NoOne
                       /\ @ \/ "ping" \in late]

sentinelCheckObjectivelyDown(st) ==
  [st EXCEPT !.odown = st.sdown /\ 1 + Cardinality(st.master_down) >= Quorum]

sentinelStartFailoverIfNeeded(st) == st.odown /\ ~InProgress(st) /\ ~st.recent

\* a sentinel forgets the answers that were not repeated for long
ForgetReplies(st) ==
  [st EXCEPT !.master_down = {}, !.heard = [t \in Sent |-> [@[t] EXCEPT !.leader = NoRun]]]

sentinelFailoverSwitchToPromotedSlave(st) ==
  sentinelResetMasterAndChangeAddress(st, IF st.promoted # NoOne THEN st.promoted ELSE st.addr)

Flushed(s, st, when) ==
  /\ sen' = [sen EXCEPT ![s] = st]
  /\ sconf' = IF when THEN [sconf EXCEPT ![s] = rewriteConfigSentinelOption(st)] ELSE sconf

\* the periods that may have passed and would make a difference
MayBeLate(st) ==
  (IF st.sdown THEN {} ELSE {"ping"}) \cup (IF st.tilt THEN {"tilt"} ELSE {})
  \cup (IF sleft.timeouts = 0 THEN {}
        ELSE {"reply"} \cup (IF InProgress(st) THEN {"failover", "reconf"} ELSE {}))

\* one round of sentinelHandleDictOfRedisInstances()
Tick(s, late, fresh, asked) ==
  LET tilted == sen[s].tilt
      st1 == sentinelCheckObjectivelyDown(
               sentinelCheckSubjectivelyDown([sen[s] EXCEPT !.tilt = FALSE], late))
      start == sentinelStartFailoverIfNeeded(st1)
      st2 == IF start THEN sentinelStartFailover(st1) ELSE st1
      forced == IF start THEN sentinelAskMasterStateToOtherSentinels(s, st2, asked) ELSE {}
  IN  /\ tilted => "tilt" \in late
      /\ st2.current_epoch <= sleft.epochs
      /\ \E r \in sentinelFailoverStateMachine(s, st2, late, fresh) :
           LET st3 == IF "reply" \in late THEN ForgetReplies(r.st) ELSE r.st
               asks == IF start THEN forced ELSE sentinelAskMasterStateToOtherSentinels(s, st3, asked)
               switch == st3.state = "UPDATE_CONFIG"
               st4 == IF switch THEN sentinelFailoverSwitchToPromotedSlave(st3) ELSE st3
           IN  /\ Flushed(s, st4, r.flush \/ switch)
               /\ snet' = snet \cup r.out \cup asks
               /\ elected' = IF /\ st2.state = "WAIT_START" /\ st3.state = "SELECT_SLAVE"
                                /\ ~st2.force
                             THEN elected \cup {<<st2.failover_epoch, s>>} ELSE elected
      /\ IF late \cap {"failover", "reconf", "reply"} # {} THEN Bounded("timeouts")
         ELSE UNCHANGED sleft
      /\ UNCHANGED <<repl, down, reset, dead>>

\* failover_start_time lies twice the failover timeout back; an election in which the
\* sentinel may have taken part ended before that (its timeout is not longer)
RecentTimer(s) ==
  /\ sen[s].recent /\ ~InProgress(sen[s])
  /\ \A t \in Sent : sen[t].state # "WAIT_START"
  /\ Bounded("timeouts")
  /\ sen' = [sen EXCEPT ![s].recent = FALSE]
  /\ UNCHANGED <<sconf, repl, down, snet, elected, reset, dead>>

\* sentinelCheckTiltCondition() found that the clock jumped
EnterTilt(s) ==
  /\ Bounded("tilts")
  /\ sen' = [sen EXCEPT ![s].tilt = TRUE]
  /\ UNCHANGED <<sconf, repl, down, snet, elected, reset, dead>>

-----------------------------------------------------------------------------
(* Replies, hello messages and commands                                    *)

\* SENTINEL is-master-down-by-addr
ReceiveAsk(m) ==
  LET t == m.to
      st == sen[t]
      found == st.addr = m.addr
      st2 == IF found /\ m.run # NoRun THEN sentinelVoteLeader(t, st, m.epoch, m.run) ELSE st
      voted == found /\ m.run # NoRun /\ st2.vote.leader # NoRun
  IN  /\ m.type = "ask"
      /\ Flushed(t, st2, st2 # st)
      /\ snet' = (snet \ {m}) \cup
           {[type |-> "reply", from |-> t, to |-> m.from, down |-> found /\ ~st.tilt /\ st.sdown,
             vote |-> IF voted THEN st2.vote ELSE NoVote]}
      /\ UNCHANGED <<repl, down, elected, reset, dead, sleft>>

sentinelReceiveIsMasterDownReply(m) ==
  LET s == m.to
  IN  /\ m.type = "reply"
      /\ sen' = [sen EXCEPT ![s] =
           IF m.from \notin DOMAIN @.known THEN @
           ELSE [@ EXCEPT !.master_down = IF m.down THEN @ \cup {m.from} ELSE @ \ {m.from},
                          !.heard[m.from] = IF m.vote.leader # NoRun THEN m.vote ELSE @]]
      /\ snet' = snet \ {m}
      /\ UNCHANGED <<sconf, repl, down, elected, reset, dead, sleft>>

sentinelSendHello(s, t) ==
  /\ Cardinality({m \in snet : m.type = "hello"}) < sleft.hellos
  /\ snet' = snet \cup {[type |-> "hello", from |-> s, to |-> t, life |-> sen[s].life,
                         current_epoch |-> sen[s].current_epoch,
                         config_epoch |-> sen[s].config_epoch,
                         addr |-> sentinelGetCurrentMasterAddress(sen[s])]}
  /\ UNCHANGED <<sen, sconf, repl, down, elected, reset, dead, sleft>>

\* an unknown sentinel replaces the one at the same address; a newer epoch is taken, and
\* a newer configuration with the address of its master; the file has the newer
\* config_epoch only when the address changed as well, or with the next flush
sentinelProcessHelloMessage(m) ==
  LET t == m.to
      st == sen[t]
      unknown == m.from \notin DOMAIN st.known \/ st.known[m.from] # m.life
      st1 == IF ~unknown THEN st
             ELSE [st EXCEPT !.known = [u \in DOMAIN @ \cup {m.from} |->
                                          IF u = m.from THEN m.life ELSE @[u]],
                             !.heard[m.from] = NoVote, !.master_down = @ \ {m.from}]
      st2 == [st1 EXCEPT !.current_epoch = Max({@, m.current_epoch})]
      newer == st2.config_epoch < m.config_epoch
      st3 == IF newer THEN [st2 EXCEPT !.config_epoch = m.config_epoch] ELSE st2
      moved == newer /\ m.addr # st.addr
      st4 == IF moved THEN sentinelResetMasterAndChangeAddress(st3, m.addr) ELSE st3
  IN  /\ m.type = "hello"
      /\ sen' = [sen EXCEPT ![t] = st4]
      /\ sconf' = IF moved THEN [sconf EXCEPT ![t] = rewriteConfigSentinelOption(st4)]
                  ELSE IF unknown \/ st2.current_epoch # st.current_epoch
                  THEN [sconf EXCEPT ![t] = rewriteConfigSentinelOption(st2)]
                  ELSE sconf
      /\ snet' = snet \ {m}
      /\ UNCHANGED <<repl, down, elected, reset, dead, sleft>>

\* what the INFO of a slave i makes of the failover
Promotes(st, i) == i \in st.slaves /\ repl[i] = NoOne /\ st.state = "WAIT_PROMOTION"

ReconfProgress(st, i) ==
  LET f == st.reconf[i]
      g == IF "sent" \in f /\ repl[i] = st.promoted THEN (f \ {"sent"}) \cup {"inprog"} ELSE f
      h == IF "inprog" \in g /\ repl[i] \notin down THEN (g \ {"inprog"}) \cup {"done"} ELSE g
  IN  IF i \in st.slaves /\ repl[i] # NoOne THEN [st EXCEPT !.reconf[i] = h] ELSE st

MasterLooksSane(st) == ~st.sdown /\ ~st.odown /\ repl[st.addr] = NoOne

\* a slave that says it is a master, or that follows another one, for long enough while
\* the master is fine
NeedsRepair(st, i) ==
  i \in st.slaves /\ ~Promotes(st, i) /\ repl[i] # st.addr /\ MasterLooksSane(st)

sentinelRefreshInstanceInfo(s, i, repair) ==
  LET st == sen[s]
      st1 == IF i # st.addr THEN st
             ELSE [st EXCEPT !.slaves = @ \cup {j \in Inst \ down : repl[j] = i}]
      st2 == IF Promotes(st1, i)
             THEN [st1 EXCEPT !.config_epoch = st.failover_epoch, !.state = "RECONF_SLAVES"]
             ELSE ReconfProgress(st1, i)
  IN  /\ i \in (st.slaves \cup {st.addr}) \ down
      /\ Flushed(s, IF st.tilt THEN st1 ELSE st2, ~st.tilt /\ Promotes(st1, i))
      /\ IF repair THEN /\ ~st.tilt /\ NeedsRepair(st, i)
                        /\ Bounded("repairs")
                        /\ snet' = snet \cup {SlaveOf(s, i, st.addr)}
         ELSE UNCHANGED <<snet, sleft>>
      /\ UNCHANGED <<repl, down, elected, reset, dead>>

\* SENTINEL FAILOVER
ForceFailover(s) ==
  /\ ~InProgress(sen[s])
  /\ sentinelSelectSlave(sen[s], Inst) # NoOne
  /\ sen[s].current_epoch < sleft.epochs
  /\ Bounded("forced")
  /\ sen' = [sen EXCEPT ![s] = [sentinelStartFailover(@) EXCEPT !.force = TRUE]]
  /\ UNCHANGED <<sconf, repl, down, snet, elected, reset, dead>>

\* SENTINEL RESET
Reset(s) ==
  /\ Bounded("resets")
  /\ sen' = [sen EXCEPT ![s] = sentinelResetMaster(@, TRUE)]
  /\ reset' = IF InProgress(sen[s]) THEN reset \cup {s} ELSE reset
  /\ UNCHANGED <<sconf, repl, down, snet, elected, dead>>

RestartSentinel(s) ==
  /\ Bounded("restarts")
  /\ sen' = [sen EXCEPT ![s] = LoadedSentinel(sconf[s], @.life + 1)]
  /\ snet' = {m \in snet : s \notin {m.from, m.to} \/ m.type = "slaveof"}
  /\ UNCHANGED <<sconf, repl, down, elected, reset, dead>>

-----------------------------------------------------------------------------
(* The redis instances and the network                                     *)

ExecuteSlaveOf(m) ==
  /\ m.type = "slaveof"
  /\ repl' = IF m.to \in down THEN repl ELSE [repl EXCEPT ![m.to] = m.master]
  /\ snet' = snet \ {m}
  /\ UNCHANGED <<sen, sconf, down, elected, reset, dead, sleft>>

Lose(m) ==
  /\ Bounded("losses")
  /\ snet' = snet \ {m}
  /\ UNCHANGED <<sen, sconf, repl, down, elected, reset, dead>>

InstanceFails(i) ==
  /\ i \notin down /\ Bounded("fails")
  /\ down' = down \cup {i}
  /\ UNCHANGED <<sen, sconf, repl, snet, elected, reset, dead>>

InstanceRecovers(i) ==
  /\ i \in down /\ Bounded("recovers")
  /\ down' = down \ {i}
  /\ UNCHANGED <<sen, sconf, repl, snet, elected, reset, dead>>

SentinelNext ==
  \/ \E s \in Sent \ dead :
       \/ \E late \in SUBSET MayBeLate(sen[s]),
             fresh \in IF sen[s].state = "SELECT_SLAVE" THEN SUBSET sen[s].slaves ELSE {{}},
             asked \in Asked(s) : Tick(s, late, fresh, asked)
       \/ RecentTimer(s) \/ EnterTilt(s) \/ ForceFailover(s) \/ Reset(s) \/ RestartSentinel(s)
       \/ \E t \in Sent \ (dead \cup {s}) : sentinelSendHello(s, t)
       \/ \E i \in Inst, repair \in BOOLEAN : sentinelRefreshInstanceInfo(s, i, repair)
  \/ \E m \in snet : \/ ReceiveAsk(m) \/ sentinelReceiveIsMasterDownReply(m)
                     \/ sentinelProcessHelloMessage(m) \/ ExecuteSlaveOf(m) \/ Lose(m)
  \/ \E i \in Inst : InstanceFails(i) \/ InstanceRecovers(i)

SentinelSpec == SentinelInit /\ [][SentinelNext]_SentinelVars

-----------------------------------------------------------------------------
(* Properties                                                              *)

\* Two sentinels are never elected to lead a failover with the same epoch: a sentinel
\* votes once per epoch, writes the vote down before it answers, and a leader needs a
\* majority of the sentinels it knows and the quorum.  (Unless a user forces a failover during
\* an election: votes are counted for the current epoch, the leader leads with failover_epoch.)
OneLeaderPerEpoch == \A a, b \in elected : a[1] = b[1] => a[2] = b[2]

\* Sentinels whose configuration has the same epoch tell clients the same master, even
\* while one of them is still busy with the failover that made it.  (SENTINEL RESET at that
\* time makes a sentinel go back to the old address and keep the new epoch.)
SameEpochSameMaster ==
  \A s, t \in Sent \ reset : sen[s].config_epoch = sen[t].config_epoch =>
    sentinelGetCurrentMasterAddress(sen[s]) = sentinelGetCurrentMasterAddress(sen[t])

\* No instance is told to replicate from itself when a failover reconfigures the slaves.
NoSlaveOfItself == \A i \in Inst : repl[i] # i

\* A sentinel knows every instance of the master it monitors, also after a restart in the
\* middle of a failover: the promoted slave is written as the master and the old master as
\* a slave.
KnowsAllInstances ==
  \A s \in Sent : Inst \subseteq sen[s].slaves \cup {sen[s].addr}
=============================================================================
