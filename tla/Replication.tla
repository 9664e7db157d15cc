---------------------------- MODULE Replication ----------------------------
(***************************************************************************)
(* A master and its slaves (replication.c, with the parts of networking.c  *)
(* and rdb.c they use): PSYNC, full resynchronisation through a BGSAVE     *)
(* child, output buffers that register the differences while the RDB file  *)
(* is produced and sent, the master state a slave caches to resume later.  *)
(*                                                                         *)
(* The replication stream is a sequence of commands, one unit of offset    *)
(* each (ReplBacklog looks at its bytes).  A data set is the sequence of   *)
(* the writes applied to it, each with the database it was applied to, so  *)
(* that a write lost, repeated or sent to another database shows.  An      *)
(* output buffer and the socket behind it are one FIFO.  A connection the  *)
(* slave gave up stays a client of the master until the master notices.    *)
(***************************************************************************)
EXTENDS Integers, Sequences, Functions

CONSTANTS Slaves,          \* slave servers
          Conns,           \* connections the master can hold at a time
          DBs,             \* databases written to
          BacklogSize,     \* commands the backlog holds
          ForkMayFail,     \* fork() may return an error
          ChildMayBeKilled,\* the BGSAVE child may die of a signal
          MaxWrites,       \* bound: writes executed by the master
          MaxFaults        \* bound: failures of links, children and servers

ASSUME ReplicationAssumption ==
  /\ DBs \subseteq Nat /\ 0 \in DBs
  /\ BacklogSize \in Nat \ {0} /\ MaxWrites \in Nat /\ MaxFaults \in Nat
  /\ ForkMayFail \in BOOLEAN /\ ChildMayBeKilled \in BOOLEAN
  /\ "none" \notin Conns

VARIABLES
  \* the master
  runid, log, nwrites,
  rdb,                    \* the data set in server.rdb_filename
  child,                  \* the data sets of the BGSAVE children: at most one
  repl_backlog, hist,     \* the backlog exists; the commands it holds
  master_repl_offset, slaveseldb,
  slaves,                 \* server.slaves
  client,                 \* the redisClient of each connection
  \* the slaves
  repl_state, link, data,
  cached,                 \* server.cached_master != NULL
  reploff, replrunid, db, \* fields of server.master, or of the cached one
  initial,                \* repl_master_runid and repl_master_initial_offset
  partial,                \* ghost: resumed by +CONTINUE since its last full load
  faults

mvars == <<runid, log, nwrites, rdb, child, repl_backlog, hist,
           master_repl_offset, slaveseldb, slaves, client>>
svars == <<repl_state, link, data, cached, reploff, replrunid, db, initial, partial>>
vars == <<mvars, svars, faults>>

None == "none"
Select(d) == [t |-> "select", db |-> d]
Cmd(id) == [t |-> "cmd", id |-> id]
Load(snap) == [t |-> "rdb", snap |-> snap]
NoClient == [replstate |-> None, out |-> << >>, file |-> << >>]

IsDataSet(s) == \A i \in DOMAIN s : s[i] \in (1..MaxWrites) \X DBs
IsItem(x) == IF x.t = "rdb" THEN IsDataSet(x.snap)
             ELSE x \in [t : {"select"}, db : DBs] \cup [t : {"cmd"}, id : 1..MaxWrites]
IsStream(s) == \A i \in DOMAIN s : IsItem(s[i])

\* Types, and what the C types do not say: a connection is in server.slaves
\* exactly once while it is a slave, and only a file being sent is open.
TypeOK ==
  /\ IsDataSet(log) /\ IsDataSet(rdb)
  /\ child = {} \/ \E snap \in child : child = {snap} /\ IsDataSet(snap)
  /\ Len(hist) <= BacklogSize /\ IsStream(hist)
  /\ slaveseldb \in DBs \cup {-1}
  /\ IsInjective(slaves)
  /\ Range(slaves) = {c \in Conns : client[c].replstate # None}
  /\ \A c \in Conns :
       /\ client[c].replstate \in {None, "WAIT_BGSAVE_START", "WAIT_BGSAVE_END",
                                   "SEND_BULK", "ONLINE"}
       /\ IsStream(client[c].out) /\ IsDataSet(client[c].file)
  /\ \A s \in Slaves :
       /\ repl_state[s] \in {"CONNECT", "CONNECTING", "RECEIVE_PONG", "TRANSFER", "CONNECTED"}
       /\ link[s] \in Conns \cup {None}
       /\ IsDataSet(data[s]) /\ db[s] \in DBs
       /\ cached[s] => repl_state[s] \notin {"TRANSFER", "CONNECTED"}

Init ==
  /\ runid = 1 /\ log = << >> /\ nwrites = 0
  /\ rdb = << >> /\ child = {}
  /\ repl_backlog = FALSE /\ hist = << >>
  /\ master_repl_offset = 0 /\ slaveseldb = -1
  /\ slaves = << >> /\ client = [c \in Conns |-> NoClient]
  /\ repl_state = [s \in Slaves |-> "CONNECT"]
  /\ link = [s \in Slaves |-> None]
  /\ data = [s \in Slaves |-> << >>]
  /\ cached = [s \in Slaves |-> FALSE]
  /\ reploff = [s \in Slaves |-> 0]
  /\ replrunid = [s \in Slaves |-> 0]
  /\ db = [s \in Slaves |-> 0]
  /\ initial = [s \in Slaves |-> [runid |-> 0, off |-> -1]]
  /\ partial = [s \in Slaves |-> FALSE]
  /\ faults = 0

Fault == faults < MaxFaults /\ faults' = faults + 1

-----------------------------------------------------------------------------
(* The master *)

Recent(s) == IF Len(s) <= BacklogSize THEN s
             ELSE SubSeq(s, Len(s) - BacklogSize + 1, Len(s))

repl_backlog_off == master_repl_offset - Len(hist) + 1

\* The output buffer of a slave after a write: the SELECT goes to every slave, the
\* command to all but those waiting for a BGSAVE that has not started.
Fed(c, sel, cmd) ==
  client[c].out \o sel \o IF client[c].replstate = "WAIT_BGSAVE_START" THEN << >> ELSE cmd

\* A write on database d, propagated by replicationFeedSlaves(): a SELECT when
\* the stream is on another database, then the command.
replicationFeedSlaves(d) ==
  LET id == nwrites + 1
      sel == IF slaveseldb # d THEN <<Select(d)>> ELSE << >>
      cmd == <<Cmd(id)>>
  IN /\ nwrites < MaxWrites
     /\ nwrites' = id
     /\ log' = Append(log, <<id, d>>)
     /\ IF ~repl_backlog /\ slaves = << >>
        THEN UNCHANGED <<hist, master_repl_offset, slaveseldb, client>>
        ELSE /\ hist' = Recent(hist \o sel \o cmd)
             /\ master_repl_offset' = master_repl_offset + Len(sel) + 1
             /\ slaveseldb' = d
             /\ client' = [c \in Conns |->
                  IF c \in Range(slaves) THEN [client[c] EXCEPT !.out = Fed(c, sel, cmd)]
                                         ELSE client[c]]
     /\ UNCHANGED <<runid, rdb, child, repl_backlog, slaves, svars, faults>>

\* Mutant: the pid of the child is not kept.
ForkForgotten(forked) == child' = {}

\* rdbSaveBackground() when no child is running, the fork() succeeding or not.
rdbSaveBackground(forked) == child' = IF forked THEN {log} ELSE {}

\* BGSAVE, or a save point of serverCron().
bgsaveCommand ==
  /\ child = {}
  /\ rdbSaveBackground(TRUE)
  /\ UNCHANGED <<runid, log, nwrites, rdb, repl_backlog, hist, master_repl_offset,
                 slaveseldb, slaves, client, svars, faults>>

\* A list without some of its nodes.
Without(s, gone) ==
  LET rest[i \in 0..Len(s)] ==
        IF i = 0 THEN << >>
        ELSE IF s[i] \in gone THEN rest[i - 1] ELSE Append(rest[i - 1], s[i])
  IN rest[Len(s)]

Waiting(state) == {c \in Range(slaves) : client[c].replstate = state}

\* updateSlavesWaitingBgsave(): the slaves that were registering differences are
\* sent the file or, on error, dropped; the ones that came too late make a new
\* BGSAVE start.  (When that one fails the slaves still in WAIT_BGSAVE_START are
\* dropped: the loop has left none.)
updateSlavesWaitingBgsave(ok, file, forked) ==
  LET gone == IF ok THEN {} ELSE Waiting("WAIT_BGSAVE_END")
  IN /\ slaves' = Without(slaves, gone)
     /\ client' = [c \in Conns |->
          CASE c \in gone -> NoClient
            [] c \in Waiting("WAIT_BGSAVE_START") ->
                 [client[c] EXCEPT !.replstate = "WAIT_BGSAVE_END"]
            [] c \in Waiting("WAIT_BGSAVE_END") \ gone ->
                 [client[c] EXCEPT !.replstate = "SEND_BULK", !.file = file]
            [] OTHER -> client[c]]
     /\ IF Waiting("WAIT_BGSAVE_START") = {} THEN child' = {}
                                             ELSE rdbSaveBackground(forked)

\* backgroundSaveDoneHandler(), called by serverCron() when the child ended: it
\* saved the file, exited with an error, or died of a signal.  In the last case
\* WEXITSTATUS is 0 and that is what tells the slaves' side of the outcome.
backgroundSaveDoneHandler(how, forked) ==
  LET exitcode == IF how = "error" THEN 1 ELSE 0
      failures == (IF how = "saved" THEN 0 ELSE 1) + (IF forked THEN 0 ELSE 1)
  IN /\ how = "killed" => ChildMayBeKilled
     /\ ~forked => ForkMayFail /\ Waiting("WAIT_BGSAVE_START") # {}
     /\ faults + failures <= MaxFaults
     /\ faults' = faults + failures
     /\ \E snap \in child :
          /\ rdb' = IF how = "saved" THEN snap ELSE rdb
          /\ updateSlavesWaitingBgsave(exitcode = 0, rdb', forked)
     /\ UNCHANGED <<runid, log, nwrites, repl_backlog, hist, master_repl_offset,
                    slaveseldb, svars>>

\* sendBulkToSlave() wrote the last byte of the file: what the output buffer
\* holds follows it.
sendBulkToSlave(c) ==
  /\ client[c].replstate = "SEND_BULK"
  /\ client' = [client EXCEPT ![c] = [replstate |-> "ONLINE", file |-> << >>,
                                      out |-> <<Load(client[c].file)>> \o client[c].out]]
  /\ UNCHANGED <<runid, log, nwrites, rdb, child, repl_backlog, hist,
                 master_repl_offset, slaveseldb, slaves, svars, faults>>

\* Mutant: the client is freed and stays listed.
freeClientListed(c) ==
  /\ c \in Range(slaves)
  /\ IF \E s \in Slaves : link[s] = c THEN Fault ELSE UNCHANGED faults
  /\ client' = [client EXCEPT ![c] = NoClient]
  /\ UNCHANGED <<runid, log, nwrites, rdb, child, repl_backlog, hist,
                 master_repl_offset, slaveseldb, slaves, svars>>

\* freeClient() on a slave: the master found the link dead, or the link works and
\* a timeout, an output buffer limit or a write error ends it.
freeClient(c) ==
  /\ c \in Range(slaves)
  /\ IF \E s \in Slaves : link[s] = c THEN Fault ELSE UNCHANGED faults
  /\ slaves' = Without(slaves, {c})
  /\ client' = [client EXCEPT ![c] = NoClient]
  /\ UNCHANGED <<runid, log, nwrites, rdb, child, repl_backlog, hist,
                 master_repl_offset, slaveseldb, svars>>

\* Mutant: the backlog is freed with slaves attached.
freeBacklogAnyTime ==
  /\ repl_backlog
  /\ repl_backlog' = FALSE /\ hist' = << >>
  /\ UNCHANGED <<runid, log, nwrites, rdb, child, master_repl_offset, slaveseldb,
                 slaves, client, svars, faults>>

\* replicationCron(): no slave for repl_backlog_time_limit seconds.
freeReplicationBacklog ==
  /\ slaves = << >> /\ repl_backlog
  /\ repl_backlog' = FALSE /\ hist' = << >>
  /\ UNCHANGED <<runid, log, nwrites, rdb, child, master_repl_offset, slaveseldb,
                 slaves, client, svars, faults>>

\* The master stops and starts again with a new run id and its RDB file.
MasterRestart ==
  /\ Fault
  /\ runid' = runid + 1
  /\ log' = rdb
  /\ child' = {} /\ repl_backlog' = FALSE /\ hist' = << >>
  /\ master_repl_offset' = 0 /\ slaveseldb' = -1
  /\ slaves' = << >> /\ client' = [c \in Conns |-> NoClient]
  /\ UNCHANGED <<nwrites, rdb, svars>>

-----------------------------------------------------------------------------
(* PSYNC: the slave writes the request and waits for the reply in one call *)

\* connectWithMaster() ...
connectWithMaster(s) ==
  /\ repl_state[s] = "CONNECT"
  /\ repl_state' = [repl_state EXCEPT ![s] = "CONNECTING"]
  /\ UNCHANGED <<mvars, link, data, cached, reploff, replrunid, db, initial, partial, faults>>

\* ... then syncWithMaster(), fired by the connection: PING ...
syncWithMaster(s) ==
  /\ repl_state[s] = "CONNECTING"
  /\ repl_state' = [repl_state EXCEPT ![s] = "RECEIVE_PONG"]
  /\ UNCHANGED <<mvars, link, data, cached, reploff, replrunid, db, initial, partial, faults>>

\* ... which fails at any point of the handshake (undoConnectWithMaster()).
HandshakeFails(s) ==
  /\ Fault
  /\ repl_state[s] \in {"CONNECTING", "RECEIVE_PONG"}
  /\ repl_state' = [repl_state EXCEPT ![s] = "CONNECT"]
  /\ UNCHANGED <<mvars, link, data, cached, reploff, replrunid, db, initial, partial>>

psync_offset(s) == reploff[s] + 1

\* A connection slot nobody uses.
FreeConn(c) == client[c] = NoClient /\ \A s \in Slaves : link[s] # c

PsyncSent(s, c) == repl_state[s] = "RECEIVE_PONG" /\ FreeConn(c)

\* Mutant: the run id the slave sends is not compared.
CanPartialAnyRunid(s) ==
  /\ cached[s]
  /\ repl_backlog
  /\ psync_offset(s) >= repl_backlog_off
  /\ psync_offset(s) <= repl_backlog_off + Len(hist)

CanPartialResync(s) ==
  /\ cached[s] /\ replrunid[s] = runid
  /\ repl_backlog
  /\ psync_offset(s) >= repl_backlog_off
  /\ psync_offset(s) <= repl_backlog_off + Len(hist)

\* masterTryPartialResynchronization(): the request is accepted.
AcceptPartial(s, c) ==
  /\ CanPartialResync(s)
  /\ slaves' = Append(slaves, c)
  /\ client' = [client EXCEPT ![c] =
                  [replstate |-> "ONLINE", file |-> << >>,
                   out |-> SubSeq(hist, psync_offset(s) - repl_backlog_off + 1, Len(hist))]]
  /\ UNCHANGED <<runid, log, nwrites, rdb, child, repl_backlog, hist,
                 master_repl_offset, slaveseldb>>

\* Mutant: the slave that joins a running BGSAVE starts with an empty buffer.
JoinEmpty == << >>

\* The output buffer of the first slave registering differences.
copyClientOutputBuffer ==
  LET first == CHOOSE i \in DOMAIN slaves :
                 /\ client[slaves[i]].replstate = "WAIT_BGSAVE_END"
                 /\ \A j \in 1..(i - 1) : client[slaves[j]].replstate # "WAIT_BGSAVE_END"
  IN client[slaves[first]].out

\* syncCommand(): a full resynchronisation.  With a child running the client
\* joins the first slave registering differences or waits for the next BGSAVE.
AcceptFull(c) ==
  LET waits(state, out) == client' = [client EXCEPT ![c] =
                             [replstate |-> state, file |-> << >>, out |-> out]]
      create == slaves = << >> /\ ~repl_backlog
  IN /\ IF child = {} THEN waits("WAIT_BGSAVE_END", << >>) /\ rdbSaveBackground(TRUE)
        ELSE /\ UNCHANGED child
             /\ IF Waiting("WAIT_BGSAVE_END") # {}
                THEN waits("WAIT_BGSAVE_END", copyClientOutputBuffer)
                ELSE waits("WAIT_BGSAVE_START", << >>)
     /\ slaves' = Append(slaves, c)
     /\ slaveseldb' = -1
     /\ repl_backlog' = (repl_backlog \/ create)
     /\ hist' = IF create THEN << >> ELSE hist
     /\ master_repl_offset' = master_repl_offset + IF create THEN 1 ELSE 0
     /\ UNCHANGED <<runid, log, nwrites, rdb>>

\* +CONTINUE reaches the slave: replicationResurrectCachedMaster().
PartialResync(s, c) ==
  /\ PsyncSent(s, c)
  /\ AcceptPartial(s, c)
  /\ repl_state' = [repl_state EXCEPT ![s] = "CONNECTED"]
  /\ link' = [link EXCEPT ![s] = c]
  /\ cached' = [cached EXCEPT ![s] = FALSE]
  /\ partial' = [partial EXCEPT ![s] = TRUE]
  /\ UNCHANGED <<data, reploff, replrunid, db, initial, faults>>

\* +FULLRESYNC <runid> <offset> reaches the slave: it discards the cached master
\* and waits for the RDB file.  The offset is the one the backlog will have.
FullResync(s, c) ==
  /\ PsyncSent(s, c)
  /\ ~CanPartialResync(s)
  /\ AcceptFull(c)
  /\ initial' = [initial EXCEPT ![s] =
                   [runid |-> runid,
                    off |-> master_repl_offset + IF repl_backlog THEN 0 ELSE 1]]
  /\ repl_state' = [repl_state EXCEPT ![s] = "TRANSFER"]
  /\ link' = [link EXCEPT ![s] = c]
  /\ cached' = [cached EXCEPT ![s] = FALSE]
  /\ UNCHANGED <<data, reploff, replrunid, db, partial, faults>>

\* The request was served and the reply came too late or not at all: the slave
\* takes it for a master without PSYNC, discards the cached master, retries with
\* SYNC on the same connection, which the master ignores for a slave, and gives
\* up at the first line it reads.
PsyncReplyLost(s, c) ==
  /\ PsyncSent(s, c)
  /\ Fault
  /\ \/ AcceptPartial(s, c)
     \/ ~CanPartialResync(s) /\ AcceptFull(c)
  /\ repl_state' = [repl_state EXCEPT ![s] = "CONNECT"]
  /\ cached' = [cached EXCEPT ![s] = FALSE]
  /\ UNCHANGED <<link, data, reploff, replrunid, db, initial, partial>>

\* "Unable to perform background save": +FULLRESYNC was sent, then the error.
FullResyncForkFails(s, c) ==
  /\ ForkMayFail /\ Fault
  /\ PsyncSent(s, c)
  /\ ~CanPartialResync(s) /\ child = {}
  /\ repl_state' = [repl_state EXCEPT ![s] = "CONNECT"]
  /\ cached' = [cached EXCEPT ![s] = FALSE]
  /\ UNCHANGED <<mvars, link, data, reploff, replrunid, db, initial, partial>>

-----------------------------------------------------------------------------
(* The slave *)

Alive(s) == link[s] # None /\ client[link[s]].replstate = "ONLINE"
Received(s) == client' = [client EXCEPT ![link[s]].out = Tail(@)]
MasterUnchanged == UNCHANGED <<runid, log, nwrites, rdb, child, repl_backlog, hist,
                               master_repl_offset, slaveseldb, slaves>>

\* readSyncBulkPayload() has the whole file: the old data set is dropped, the file
\* loaded, and a new master client (database 0) starts at the initial offset.
readSyncBulkPayload(s) ==
  /\ repl_state[s] = "TRANSFER" /\ Alive(s)
  /\ client[link[s]].out # << >>
  /\ Received(s)
  /\ data' = [data EXCEPT ![s] = Head(client[link[s]].out).snap]
  /\ repl_state' = [repl_state EXCEPT ![s] = "CONNECTED"]
  /\ reploff' = [reploff EXCEPT ![s] = initial[s].off]
  /\ replrunid' = [replrunid EXCEPT ![s] = initial[s].runid]
  /\ db' = [db EXCEPT ![s] = 0]
  /\ partial' = [partial EXCEPT ![s] = FALSE]
  /\ MasterUnchanged
  /\ UNCHANGED <<link, cached, initial, faults>>

\* The old data set is gone and the file cannot be loaded.
LoadFails(s) ==
  /\ Fault
  /\ repl_state[s] = "TRANSFER" /\ Alive(s)
  /\ client[link[s]].out # << >>
  /\ data' = [data EXCEPT ![s] = << >>]
  /\ repl_state' = [repl_state EXCEPT ![s] = "CONNECT"]
  /\ link' = [link EXCEPT ![s] = None]
  /\ UNCHANGED <<mvars, cached, reploff, replrunid, db, initial, partial>>

\* readQueryFromClient() on the link with the master, and the command it holds.
readQueryFromClient(s) ==
  LET item == Head(client[link[s]].out)
  IN /\ repl_state[s] = "CONNECTED" /\ Alive(s)
     /\ client[link[s]].out # << >>
     /\ Received(s)
     /\ reploff' = [reploff EXCEPT ![s] = @ + 1]
     /\ IF item.t = "select"
        THEN db' = [db EXCEPT ![s] = item.db] /\ UNCHANGED data
        ELSE data' = [data EXCEPT ![s] = Append(@, <<item.id, db[s]>>)] /\ UNCHANGED db
     /\ MasterUnchanged
     /\ UNCHANGED <<repl_state, link, cached, replrunid, initial, partial, faults>>

\* The slave loses the link.  An established master is cached, unless the client
\* was being closed for another reason; a transfer is aborted.
LinkEnds(s, keep) ==
  /\ link[s] # None
  /\ repl_state' = [repl_state EXCEPT ![s] = "CONNECT"]
  /\ link' = [link EXCEPT ![s] = None]
  /\ cached' = [cached EXCEPT ![s] = repl_state[s] = "CONNECTED" /\ keep]
  /\ UNCHANGED <<mvars, data, reploff, replrunid, db, initial, partial>>

\* replicationCacheMaster(), or replicationAbortSyncTransfer(), on a failure ...
replicationCacheMaster(s) == Fault /\ LinkEnds(s, TRUE)

\* Mutant: the end of the connection is not noticed during a transfer.
MasterClosedConnected(s) ==
  /\ link[s] # None /\ client[link[s]].replstate = None
  /\ repl_state[s] = "CONNECTED"
  /\ LinkEnds(s, TRUE)
  /\ UNCHANGED faults

\* ... or because the master closed the connection.
MasterClosed(s) ==
  /\ link[s] # None /\ client[link[s]].replstate = None
  /\ LinkEnds(s, TRUE)
  /\ UNCHANGED faults

FreeMaster(s) == Fault /\ repl_state[s] = "CONNECTED" /\ LinkEnds(s, FALSE)

-----------------------------------------------------------------------------

MasterStep ==
  \/ \E d \in DBs : replicationFeedSlaves(d)
  \/ bgsaveCommand
  \/ \E how \in {"saved", "error", "killed"}, forked \in BOOLEAN :
       backgroundSaveDoneHandler(how, forked)
  \/ \E c \in Conns : sendBulkToSlave(c) \/ freeClient(c)
  \/ freeReplicationBacklog
  \/ MasterRestart

SlaveStep(s) ==
  \/ connectWithMaster(s) \/ syncWithMaster(s) \/ HandshakeFails(s)
  \/ \E c \in Conns : PartialResync(s, c) \/ PsyncReplyLost(s, c)
                        \/ FullResyncForkFails(s, c)
  \/ readSyncBulkPayload(s) \/ LoadFails(s) \/ readQueryFromClient(s)
  \/ replicationCacheMaster(s) \/ MasterClosed(s) \/ FreeMaster(s)

Next ==
  \/ MasterStep
  \/ \E s \in Slaves : SlaveStep(s) \/ \E c \in Conns : FullResync(s, c)

Spec == Init /\ [][Next]_vars

\* The same system when a full resynchronisation never overlaps a BGSAVE that
\* another request, or a user, started.
NextNoOverlap ==
  \/ MasterStep
  \/ \E s \in Slaves : SlaveStep(s)
  \/ child = {} /\ \E s \in Slaves, c \in Conns : FullResync(s, c)

\* The event loops of both sides run, connections make progress, a child ends.
Fairness ==
  /\ \A c \in Conns : WF_vars(sendBulkToSlave(c))
  /\ \A c \in Conns : WF_vars(freeClient(c) /\ UNCHANGED faults)
  /\ WF_vars(backgroundSaveDoneHandler("saved", TRUE))
  /\ \A s \in Slaves :
       /\ WF_vars(connectWithMaster(s)) /\ WF_vars(syncWithMaster(s))
       /\ WF_vars(\E c \in Conns : PartialResync(s, c) \/ FullResync(s, c))
       /\ WF_vars(readSyncBulkPayload(s)) /\ WF_vars(readQueryFromClient(s))
       /\ WF_vars(MasterClosed(s))

FairSpec == Spec /\ Fairness
NoOverlapSpec == Init /\ [][NextNoOverlap]_vars

-----------------------------------------------------------------------------
(* Properties *)

\* What a slave in state <<data, db>> becomes by reading an item, and a stream.
Reads(st, x) ==
  CASE x.t = "rdb"    -> <<x.snap, 0>>
    [] x.t = "select" -> <<st[1], x.db>>
    [] OTHER          -> <<Append(st[1], <<x.id, st[2]>>), st[2]>>

Ending(stream, st) ==
  LET f[i \in 0..Len(stream)] == IF i = 0 THEN st ELSE Reads(f[i - 1], stream[i])
  IN f[Len(stream)]

Replay(stream, d0, db0) == Ending(stream, <<d0, db0>>)[1]

\* Full resynchronisation loses nothing: the file a slave is sent, followed by
\* what its output buffer registered since the fork, is the master's data set,
\* database by database; and so is what a slave loaded plus what is on its way.
\* This is what joining the BGSAVE of another slave (copyClientOutputBuffer)
\* and skipping the slaves in WAIT_BGSAVE_START must preserve.
FullResyncExact ==
  /\ \A c \in Range(slaves) :
       client[c].replstate = "SEND_BULK" => Replay(client[c].out, client[c].file, 0) = log
  /\ \A s \in Slaves :
       repl_state[s] = "CONNECTED" /\ ~partial[s] /\ Alive(s) =>
         Replay(client[link[s]].out, data[s], db[s]) = log

\* The child that will write the file is running: the state means "Waiting RDB
\* file creation to finish" (redis.h).
WaitersHaveChild == Waiting("WAIT_BGSAVE_END") # {} => child # {}

\* A slave that was answered +CONTINUE "only has to wait for the master to send
\* the part of the data it is missing": its data set plus what is on its way is
\* the data set of the master.
PartialResyncExact ==
  \A s \in Slaves :
    repl_state[s] = "CONNECTED" /\ Alive(s) =>
      Replay(client[link[s]].out, data[s], db[s]) = log

\* redisAssert(!(listLength(slaves) != 0 && server.repl_backlog == NULL)) in
\* replicationFeedSlaves().
BacklogForSlaves == slaves # << >> => repl_backlog

\* No slave is cheated by a full resynchronisation: it loses nothing, a slave that waits
\* for a file has a child that writes it, and there is a backlog while there are slaves.
SlavesServed == FullResyncExact /\ WaitersHaveChild /\ BacklogForSlaves

\* Once failures stop, every slave ends up connected, with nothing left to read.
EventuallyConnected ==
  <>[](\A s \in Slaves : repl_state[s] = "CONNECTED" /\ Alive(s)
                           /\ client[link[s]].out = << >>)
=============================================================================
