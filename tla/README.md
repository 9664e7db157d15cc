# TLA+ verification of Redis 3.0

TLA+ models of the parts of this Redis (3.0 beta, `src/redis-3.0/src`) that are hard to
get right: replication, persistence, transactions, blocking clients, the cluster,
Sentinel, the event loop, and the data structures under them. Each model is checked with
TLC on small instances. For ten of them TLAPS proves the main properties for every
instance; one of these proofs is a refinement (section 4).

Paths are relative to `src/redis-3.0/src` unless they say otherwise.

## 1. Inventory

The server is one thread around an event loop (`ae.c`). A command runs to its end
before the next one starts, so the interleavings that matter are those *between*
commands, timer callbacks, file events, forked children, background threads and
other servers. Crashes, lost links and full disks come in between any two steps.

| Component | State | Operations | Interacts with | What is hard | What makes it correct |
|---|---|---|---|---|---|
| Replication backlog (`replication.c`) | circular buffer, index, history length, offset | feed, serve a PSYNC, create, resize, free | every write; PSYNC; SLAVEOF; cron | wrap-around, objects longer than the buffer, requests older than it | an accepted PSYNC gets exactly the missing bytes |
| Master-slave replication (`replication.c`, `rdb.c`, `networking.c`) | slaves and their state, output buffers, BGSAVE child, cached master | handshake, PSYNC, full resync, feed, cache and resurrect the master | RDB child, backlog, event loops of both servers | two servers, a child, lost replies, restarts, joining somebody else's BGSAVE | the slave's data set plus what is on its way is the master's |
| WAIT and acknowledgements (`replication.c`, `redis.c`) | offsets acknowledged, clients that wait, good slaves | WAIT, REPLCONF ACK and GETACK, cron | blocked clients, writes refused for want of slaves | slaves that leave, fall silent or are paused | an answer counts only slaves that have the write |
| AOF (`aof.c`) | buffer, file, rewrite child, difference buffer, write status, fsync jobs | append, flush, fsync, rewrite, switch, start, stop, load | `propagate()`, event loop, `bio.c`, cron, config, shutdown | crashes at any point, short writes, postponed fsyncs, writes during a rewrite | what is loaded is a prefix of the history; acknowledged writes are durable under `always` |
| RDB (`rdb.c`) | child, counters of changes, file | SAVE, BGSAVE, save points, load | cron, FLUSHALL, SHUTDOWN, replication | a child that outlives what it saves; files cut short; representations that change with the value | loading gives what was saved; the counter never says less than a crash would lose |
| Background threads (`bio.c`) | job queues, pending counters, mutex and condition | create, take, run | AOF fsync | lost signals, counters read by another thread | each job once, in order; "none pending" means none is left |
| Transactions (`multi.c`) | client flags, queue, two-sided WATCH lists | MULTI, EXEC, DISCARD, WATCH, UNWATCH | every write, expiration, flush, client teardown, role | keys changed by others between WATCH and EXEC | EXEC runs only on unchanged keys; all or nothing |
| Blocking lists (`t_list.c`, `blocked.c`) | two-sided wait lists, ready keys | BLPOP, BRPOP, BRPOPLPUSH, push, serve, time out | transactions, timers, client teardown, propagation | serving fills other keys, keys change type before they are served | no missed wake-up, no lost or repeated element |
| Scripts (`scripting.c`) | running script, script cache of the slaves | EVAL, EVALSHA, SCRIPT LOAD, FLUSH, KILL | slaves, AOF, event loop while a script is slow | a name sent to a slave that has not got the script | slaves and AOF have the effects of the scripts that wrote |
| Networking, clients, pub/sub (`networking.c`, `pubsub.c`) | clients, query and reply buffers, lists of clients | read, parse, reply, free, free later, pause, subscribe | all | a client freed or blocked while something refers to it | each request runs once and in order; lists hold live clients |
| Event loop (`ae.c`, `ae_epoll.c`) | events, fired events, timer | poll, fire, create, delete, resize | all | handlers that close or open the descriptors of other events | each handler runs for its own connection; the timer is not late |
| Cluster bus (`cluster.c`) | nodes, slots, epochs, votes | heartbeats, election, manual failover | the same on every node; `nodes.conf` | messages lost and reordered, concurrent elections, restarts | one winner per epoch, slots move to newer owners only |
| Membership and failure detection (`cluster.c`) | table of nodes, flags, reports, blacklist | MEET, gossip, FORGET, RESET, PFAIL, FAIL | the same on every node | gossip about nodes forgotten or renamed | FAIL only after a majority saw it |
| Resharding (`cluster.c`, `redis-trib.rb`) | migrating and importing slots, cached sockets | SETSLOT, MIGRATE, RESTORE, redirections | clients, heartbeats, the tool | transfers that fail half way, requests in between | a key is served by the node that has its last value |
| Sentinel (`sentinel.c`) | instances, votes, failover state | subjective/objective down, election, failover steps | Redis servers and other sentinels | timeouts, partial failure of a failover, restarts | one leader per epoch, one master per configuration epoch |
| Keyspace, expiration, eviction; commands of the data types (`db.c`, `redis.c`, `t_*.c`) | dict, expires, values | every command that changes a key | slaves, AOF, WATCH | expiry is decided by the master alone; commands rewritten before they are propagated | slave and AOF end with the master's data; watchers are told |
| Hash table (`dict.c`) | two tables, rehash index, iterators | add, replace, delete, find, rehash, iterate, scan | everything | operations, iterators and cursors during a rehash | it is a map; an iteration or scan returns what stays |
| Other structures (`t_zset.c`, `ziplist.c`, `intset.c`, `hyperloglog.c`, `bitops.c`) | values | sequential algorithms | commands | spans, cascading sizes, opcodes, word boundaries | equal to their abstract type |

`PROJECT.json` lists every component, those not modelled with the reason, and under
`hazards` the places that are hard to test, with the properties that watch them.

## 2. Modules

| Module | Models | Checked by | Proved in |
|---|---|---|---|
| `ReplBacklog` | the circular buffer, byte by byte, with its callers | `MCStructures` | `StructuresProofs` |
| `Replication` | one master and its slaves end to end | `MCReplication`, `MCFailover` | `ReplicationProofs` |
| `Acks` | REPLCONF ACK, WAIT, good slaves | `MCReplication` | `ReplicationProofs` |
| `AOF` | the AOF inside the event loop, with child, threads and crashes | `MCPersistence`, `MCAofLive` | `PersistenceProofs` |
| `Snapshots` | when RDB files are written | `MCPersistence` | `PersistenceProofs` |
| `RdbFormat` | what is in them | `MCPersistence` | |
| `Bio` | the background threads, lock by lock | `MCAofLive` | `PersistenceProofs` |
| `Multi` | transactions and WATCH | `MCCommands` | `MultiProofs` |
| `BlockedLists` | blocking list operations | `MCServer` | `BlockedListsProofs` |
| `Clients` | connections: reading, parsing, replying, closing, pub/sub | `MCServer` | |
| `Scripting` | scripts and the replication script cache | `MCServer` | `ScriptingProofs` |
| `EventLoop` | the batch of one poll, the table of events, the timer | `MCServer` | `EventLoopProofs` |
| `Keyspace`, `Strings`, `Aggregates`, `Commands` | keys and their expiration, the commands of each type, `call()` with its propagation; each extends the one before | `MCCommands` | |
| `Cluster`, `ClusterFailures` | epochs and elections; membership and failure detection | `MCCluster` | |
| `Resharding` | moving a slot: redirections, MIGRATE, `redis-trib`, heartbeats | `MCCluster` | `ReshardingProofs` |
| `Sentinel` | sentinels of one master | `MCFailover` | |
| `SortedSet`, `Intset`, `Ziplist`, `HyperLogLog`, `Bitops` | the algorithms, against reference definitions | `MCStructures` | |
| `Dict`, `DictMap` | the hash table, and the map it implements | `MCStructures` | `StructuresProofs` |

An MC module holds several components side by side: a variable (`part`, `structure`)
chooses in the initial state which one a behaviour is about, and the rest stays where it
is. The component properties that are about one part are stated for that part. Some parts
are second instances of a module with other parameters (`INSTANCE ... WITH`): two slaves
that do not overlap, `appendfsync always`.

Actions carry the name of the C function they model. A handler is one action unless
something can run, or the process can die, between two of its steps. Several modules take
*scenarios* (`Scenario`, `Net`, `AckPlan`, `ClientPlan`, `LoopPlan`, `CommandScenario`,
`DMode`, ...): records that say from which state a run starts, which requests are made,
and the bounds, so that one run has many small instances instead of one that is too large.

Definitions whose comment starts with "Mutant" are plausible mistakes: replacing the
definition they are about by one of them makes a property fail, which shows that the
property depends on that code. They are used by nothing else.

### Replication

**ReplBacklog.** `cells` is the buffer; a cell holds the replication offset of the byte in
it, so content and position can be compared. `FeedStart`, `FeedChunk` and `FeedEnd` are
`feedReplicationBacklog()`, one step per iteration of its copy loop;
`addReplyReplicationBacklog` reproduces the two modular reductions that find the first
byte. Callers: PSYNC, full resync, the last slave leaving, the backlog timeout,
SLAVEOF in both directions and the loss of our own master. `retired` is a ghost, the
offset slaves of a timed-out backlog may hold.

**Replication.** A stream item is one command or SELECT and counts for one unit of offset. A
data set is the sequence of writes applied with the database each was applied to: a write
that is lost, repeated or applied to another database shows. The master keeps for each
connection the state (`WAIT_BGSAVE_START` ... `ONLINE`), the output buffer and the file
being sent; the socket is the tail of the output buffer. The slave's handshake, its
cached master and both its ways to lose a link are actions. PSYNC is written and its
reply read within one call on the slave, so a request and its answer are one step, with
the loss of the reply as an alternative. A connection the slave gave up stays a
client of the master until the master notices; a single slave can in this way meet the
BGSAVE of its own earlier request.

**Acks.** `primary` is what the master knows: its stream, the acknowledged offset and time
of each slave, the clients in WAIT; `replica` is what each slave has read and executed.
`told` holds the answers of a step with the slaves that had the write, for WaitTruthful.
The cached time moves at every turn of `serverCron()`, by any number of seconds, and the good slaves
are counted again only every `period` turns, by `replicationCron()`, or when a slave comes or
leaves: in between the count is one of an earlier time. A slave may be paused (CLIENT PAUSE).

### Persistence

**AOF.** A command takes two bytes so that a short write can tear it. `file.synced` is how
much of the file survives a power failure. The event loop is modelled because it decides the
order of replies and flushes: `beforeSleep`, poll, for each client the readable and then
the writable handler, time events. Writes run in `call`; `flushAppendOnlyFile` has its
alternatives (postponed, failed, short with and without a successful `ftruncate()`,
complete). A rewrite is fork, child's end, rename in the cron and the switch of the
descriptor; a kill can come between the last two. Start-up loads the file and
refuses a torn one, `redisCheckAof` truncates it.

**Snapshots.** A data set is the number of changes that made it. `dirty`,
`dirty_before_bgsave`, `lastsave` and the save points drive SAVE, BGSAVE, FLUSHALL,
SHUTDOWN and SIGTERM; the child writes while changes go on, and any call can fail.
**RdbFormat.** `rdbSave` writes a file as a sequence of cells, `rdbLoad` reads them one
object at a time under limits, a time and a role of its own, from a file cut anywhere.

**Bio.** Both sides of `bio_mutex`: every critical section is entered, done and left
in steps of their own, the job runs outside. A wait may end without a signal.

### Clients and commands

**Multi.** `watched_keys` and `watchers` are the two sides of WATCH, the second as a
multiset. A key's `version` counts the modifications by commands and `seen` what a client had
seen when it watched: WatchSound compares `REDIS_DIRTY_CAS` with what really happened.
Expiration by the server does not count as a modification: it does not touch watched
keys in the code either. In a behaviour that is `stable` there is no SLAVEOF.

**BlockedLists.** `blocking_keys` and `bpop` are the two sides of a wait. The list of the
clients of a key is represented by its members and the turn at which each began to wait. A
transaction or script is the phase `exec`, in which keys become ready and nobody is served.
`NextReady`, `serveClientBlockedOnList` and `KeyServed` are the two loops of
`handleClientsBlockedOnLists()`. The code swaps the queue of ready keys before it empties
it; as keys are taken from the front and added at the back, one queue gives the same
order. `replica` is what the propagated commands make of the lists elsewhere.
`moved` marks the keys whose list RENAME put in place: the code signals nobody for
these, nor do RESTORE and SORT ... STORE (section 6).

**Clients.** A request is a sequence of units (lines, pieces of an argument), cut anywhere by
`read()`; a reply is owed units, which go to the static buffer, then to chunks, and leave in
pieces. Clients block, are paused, killed, subscribed, timed out, closed at once or later.
**Scripting.** A script is a sequence of steps (write, loop, random, error). A slow one
lets events in from its hook. The model follows which slaves and AOF have been sent the
text of a script, and what they make of an EVALSHA.
**EventLoop.** `loop.events` is the table, `kernel` what epoll watches and which connection
is behind a descriptor; a batch of fired events is handled one by one while handlers
close and accept connections. The timer is due by a wall clock that may be set.

**Keyspace, Strings, Aggregates, Commands.** A command is an operator from the context it runs in
(values, expiration times, role, time) to the context it leaves (also: what it counted as
dirty, signalled, deleted as expired, and the form in which it will be propagated). `call`
runs it on the master; the slave applies the stream later at its own time, and a replay of the
AOF runs it at another time.

### Cluster and Sentinel

**Cluster.** Each node has its own table of owners, epochs, masters and flags, and `disk`
what `nodes.conf` holds. Messages are a set that may be delayed, reordered, lost.
FAIL flags come and go as they may. `won` records elections.
**ClusterFailures.** The table of known nodes by name and by address, handshakes, links,
pings and what may time out, reports and gossip (one entry per packet), the blacklist.
**Resharding.** One slot, its keys, a source, a target and a node that only watches: the
redirections of `getNodeByQuery()`, MIGRATE with its cached socket, RESTORE, the loop of
`redis-trib.rb`.
**Sentinel.** Each sentinel's view, votes, failover state; instances with role and address;
clocks are choices: a test "more than so long ago" is a member of the set the step picks.

### Data structures

**SortedSet.** A skip list with spans, levels chosen freely, and the ziplist encoding, both under
every operation, against one reference order. **Dict.** Buckets as sets of entries,
the two tables, rehash steps, resizing that can be disabled, safe iterators, SCAN cursors with
reversed increments. **Intset**, **Ziplist**: cell by cell and entry by entry, with
in-place widening and the cascade of `prevlen`. **HyperLogLog**: the sparse opcodes and
the dense registers. **Bitops**: loops by word with narrow bytes and words.

## 3. Runs

Nine runs pass, three show a violation (section 5). Each takes less than five minutes on
two workers.

| Run | Instance | Shows |
|---|---|---|
| `replication` | 1 slave with 2 connections, 2 databases, backlog of 2, 2 writes, 2 faults; 2 clients in WAIT, 2 slaves, 3 plans, one of them with a `replicationCron()` every 2 turns | `SlavesServed`, `WaitTruthful`, `WritesHaveGoodSlaves` |
| `replication_live` | 1 slave, 2 writes, 2 faults, children may be killed | `EventuallyConnected` |
| `persistence` | AOF everysec with BGSAVE children, 2 writes, 1 fault, 1 crash; `always`, 3 writes; snapshots with 3 changes and 2 faults; RDB files of 18 data sets under 3 configurations | `FileWhole`, `AlwaysDurable`, `DirtyCovers`, `DumpNeverOlder`, `LoadedExactly` |
| `aof_live` | AOF switched off and on, 1 fault; 3 jobs | `NothingMissing`, `AofSettles`, `NothingOverlooked`, `BackgroundJobsFinish` |
| `server` | blocked: 2 clients, 2 keys, 3 elements; 6 plans of clients' requests; 3 scripts with 2 slaves and a cache of 1; 4 descriptors | `NoMissedWakeup`, `EachElementOnce`, `ReplicaAgrees`, `ClientsServed`, `ClientsSound`, `ScriptsReplicated`, `LoopSound` |
| `commands` | 10 families of commands, 3 calls each, on 3 keys of 2 databases; transactions of 2 clients, 1 key in 2 databases | `PropagationExact`, `KeysSignalled`, `WatchListsAgree`, `WatchSound`, `TransactionsWhole` |
| `cluster` | 7 scenarios of 3 masters and up to 2 slaves; 7 networks of 3 or 4 processes; 3 ways to move a slot of 2 keys | `OneWinnerPerEpoch`, `ManualFailoverKeepsWrites`, `QuietIsConverged`, `NoOlderOwner`, `FailuresSound`, `KeysFollowSlot` |
| `failover` | 3 sentinels, 3 instances, 7 scenarios; 2 slaves with 2 connections, 1 database, backlog of 2, 2 writes, 1 fault, no overlap, forks may fail | `OneLeaderPerEpoch`, `SameEpochSameMaster`, `PartialResyncExact` |
| `structures` | 4 elements in a sorted set; up to 3 keys in tables that grow from 1 to 4, hashes of 4 bits; intsets of 7 values; ziplists of 4 entries; 6 registers; strings of 3 bytes; backlogs of 1..3 | `SortedSetExact`, `ImplementsMap`, `IterationsComplete`, `EncodingsExact`, `ServedExactly`, `NoPsyncWithPreviousSlave` |
| `replication_overlap` | as `replication`, overlapping resynchronisations | **violation** of `PartialResyncExact`, finding 1 |
| `aof_pipelined` | `always`, a client that pipelines | **violation** of `AckedDurable`, finding 2 |
| `dict_scan_shrink` | SCAN while the table grows and shrinks | **violation** of `ScanComplete`, finding 3 |

What a property says is in the comment above its definition, with the code it is about.

**Bounds.** They are constants named `Max...` or fields of a scenario and appear only in
guards. They are as small as lets the interesting cases happen: a backlog of two commands is
overrun by two writes with their SELECTs; two connections are enough for a request to meet the
BGSAVE of another; three writes on two databases show a SELECT missing after a fork, and two a
torn or repeated command; two keys and two clients give a BRPOPLPUSH whose target somebody waits
for, whose target is its source, and a cycle of two; three masters are the least whose majority
survives a failure, two slaves are needed for concurrent elections, and an epoch more than
there are masters for a repeated one; two keys that collide in every table size and one that
does not make chains, expansions and moves during iterations;
ziplist strings of 248 and 260 bytes are on both sides of the 254 at which the next
entry's field widens. Widths and limits of the encodings are scaled down, never removed. Each
mutant named in `PROJECT.json` is caught within the bounds. Symmetry is used for clients,
connections, slaves, keys and sentinels in runs that check no liveness.

**Deadlock** is not checked: the bounds on writes, faults and requests make every run stop. That
the system does not stand still is what the liveness properties, `NoMissedWakeup` and
`ClientsServed` say.

**Fairness.** `replication_live` assumes weak fairness of what the event loops and the
cron of both servers repeat: a file that can be sent is sent, data that arrived is read,
a closed connection is noticed, a slave in `CONNECT` tries again every second, a BGSAVE
child ends, and a connection the slave has left is freed in the end (`repl_timeout`).
Nothing is assumed of writes, faults or a user's BGSAVE. `aof_live` assumes that the loop
goes on, that its timer fires again and again (strong fairness, as the timer may be due
in only some iterations), that children exit and the background threads run: weak fairness of the steps of the main and of the
background threads, and strong fairness of taking a mutex that is free again and again.
Faults are bounded in number, so "eventually" means once they stop.


## 4. Proofs

Proved with TLAPS for every value of the constants, from the named assumptions of the
modules (`SizesAssumption`, `BoundsAssumption`, `BlockedAssumption`, `BioAssumption`,
`DictAssumption`, `LoopAssumption`, `AckAssumption`, `ReplicationAssumption`, `AofAssumption`, `ScriptAssumption`: sizes are
positive, bounds are naturals, clients, slaves and keys finitely many, NoKey is not a key,
descriptors are numbered from the listener's 1, a second has at least one unit, there is a
database, a policy of fsync is one of the three; `Snapshots` and `Resharding` have none). A theorem that
needs more than the named assumptions has the rest as a hypothesis (`ASSUME ... PROVE`); each is named
below, with what the code does when it does not hold.

**ReplicationProofs** is about two modules.

*The data sets of master and slaves:* `SlavesServedAlways` and `PartialResyncExactAlways`. What a
slave will be worth is what it has, followed by all it can still read: a recursive function
(`Reads`, `Ending`), of which `EndingTail` says what reading the first item
changes and `EndingAppend` what one more item adds. `Shape` says which connections, slaves and states go together: a slave in the list has a
connection, a connection one slave at most, an RDB file is the first thing that its reader finds.

For a full resynchronisation the invariant is `Shape /\ Served`: whoever waits for a file, is being
sent one, reads one or is connected since ends with the master's data, in the database of `slaveseldb`
when that is set. The child's snapshot takes the place of the file until the child is done, which is
what makes copying the output buffer of another slave right.

For a partial one it is `Shape /\ Continues`: a slave's offset and what it has, with some
stream `w`, make the master's, for as long as that offset can be resumed (`Missing`): `w` is what the
backlog holds from there on, and the offset goes up by one with each command read. So it stays with the slave while its link is
down, until the backlog has moved on, was freed or got another run id. The
offset of `+FULLRESYNC` must be that of the file (`FileOf`), which is what finding 1 breaks.

The hypotheses are on `ForkMayFail` and `ChildMayBeKilled`, and both failures are ones the code does not
handle (section 6): a slave left in `WAIT_BGSAVE_END` when the fork fails takes the file of the next BGSAVE
with the differences since an earlier one, and after a child died of a signal the slaves are sent the
previous file. Children that end with an error, broken links and restarts of the master are in both theorems;
forks that fail are in the second, where no slave can be late for its child. `NoOverlapSpec` restricts the steps, not
the states: a full resynchronisation is served only while no child runs, and forks one at once.

*The acknowledgements:* `WaitIsTruthful` and `WritesAreGuarded`. What a slave acknowledged it had read,
also what is still under way (`Acknowledged`); a client waits for an offset past its last
write (`Waits`); the count of good slaves is at most the number of those attached that were heard
of within `min-slaves-max-lag` of the last turn of `replicationCron()`, which is not in the future
(`Counted`): that turn, and whatever detaches a slave, counts again, and the time that passes after it
does not. What the count is worth at the time of the write is therefore that lag and the time since the turn;
with the lag alone it is false (`WritesWithinLag`, section 5). The loops over the waiting
clients are recursive functions; that they exist and that what a turn keeps holds at the end
(`LoopInv`: the count that the next client may reuse is one of its offset) is shown by the least
turn where it would fail (`HasFirst`).

**MultiProofs.** `MultiWatchLists` and `MultiCheckAndSet` from
`TypeOK /\ WatchListsAgree /\ WatchSound /\ SeenInv`. WatchSound alone is not inductive:
a modification must make the versions differ, which needs that no client saw a future
version (`SeenInv`) and that the clients `touchWatchedKey()` finds in a key's list are
exactly those that watch it (`WatchListsAgree`). `MultiTransactionsWhole` adds `WholeInv`: while
the role stays what it is, the queue of a read-only slave holds no write, and that of a master
all that was sent unless EXEC will refuse; nothing is queued outside a transaction.

**BlockedListsProofs.** `BlockedNoMissedWakeup`, `BlockedWaitLists`, `BlockedReplica`,
`BlockedTypeOK`. NoMissedWakeup speaks of the moments between commands. The invariant is
`Wake`: a key with a list and waiting clients is queued or is the one being served. To leave
the key being served one must know that the clients left of `numclients` are exactly
those still in its list (`Left`), which rests on the two sides agreeing: each client
served leaves the list by one. `FirstWaits` uses that the naturals are well-founded,
`PopPush` that the undo of a pop restores the list. `BlockedEachElementOnce` needs that an
element is at one place in one list (`Own`): each element pushed so far is in the lists, once,
or it is gone, and every helper that cuts or joins lists has a lemma that says what it does
to the elements.

**StructuresProofs** is about the backlog and the hash table.

*The backlog:* `BacklogServesExactly`, `BacklogWindow`, `BacklogTypeOK`. The
property speaks of the reply; what is inductive is that the k-th most recent byte sits k
cells behind the index, also in the middle of the copy loop (`CellsInv`, counted from the
last byte copied, `Newest`), with `HistInv` and `FeedInv` bounding the history. `ModOnce`
reduces the modular arithmetic to at most one subtraction; `ReplyIsStream` then shows
that the reply is the stream. `BacklogFence` adds `FenceInv`, the window starts two past
every offset a timed-out backlog reached, and shows that the increment in
`createReplicationBacklog()` does what its comment says between two role changes.

*The hash table:* `DictTablesSound`, `DictImplementsMap`. `Sound` says of a hash table in the
middle of a rehash that an entry sits in the bucket of its hash, that no key is twice, in
either table, and that the buckets below `rehashidx` are empty. Each function of `dict.c` has a
lemma that it keeps `Sound` and what it does to the set of entries (`Holds`); the refinement is
then that a step of the dict is the step of `DictMap` on that set, or a stutter. The mask of a
power of two is all that is used of the hash.

**EventLoopProofs.** `OwnersHandled` and `LoopIsSound`. `Agree` says that the table of events,
the interest list of epoll and the connections name the same descriptors, with the same
masks, and that every operation of `ae.c` keeps it so, also when a handler closes a descriptor
that is still in the batch. `OnTime` says of the wait computed for epoll that the time since the
timer was read and the time left stay within what the timer allows; `TimeoutExact` rests on the
division of a time by the second (`DivMod`). `LoopIsSound` has the hypothesis that no instance of
the plan sets the clock between the computation of the time-out and the poll (`window`): there the
property is false, as section 6 says.

**PersistenceProofs** is about three modules.

*The AOF:* `FileWholeAlways`, `NothingMissingAlways`, `AckedDurableAlways`. Neither property is
inductive: that the file loads to some prefix now says nothing of the file after half a command
more, nor of the one after a power failure. `AofInv` therefore speaks of a *log*, a sequence of commands. The
bytes of the file followed by those of `aof_buf` are the bytes of a log of the history (`Kept`), that is: from the
durable part on, the log cut after any command brings back the databases after some
number of writes, a longer cut no fewer (`PrefixLog`); the whole log brings back all of them and
ends in the database `aof_selected_db` names, unless that is -1. The child's dump followed by
`aof_rewrite_buf_blocks` is such a log too (`ChildKept`), durable from the end of the dump on, which is what
makes the rename of a file that is not fsynced sound; between `rename()` and the switch of the descriptor the
file is the log without `aof_buf`. On a server that is down the file is the beginning of one
(`OnDisk`). The lemmas about logs: the bytes of two logs in a row are those of the
concatenation, cutting the bytes anywhere leaves a whole number of commands that
`loadAppendOnlyFile()` and `redis-check-aof` find (`LogCut`), a dump loads to what it was made of,
feeding a write with its SELECT keeps a log a log (`LogFed`). `FlushOutcomes` says of each
outcome of `flushAppendOnlyFile()` that it moves bytes from the buffer to the file and loses none. Recursion
over logs is written as functions; that these exist, and what they compute, is shown by the least
length at which it would fail (`LeastIn`).

The hypothesis `CleanStop` says that `stopAppendOnly()` leaves nothing in `aof_buf`: CONFIG SET
appendonly is not issued, or its flush cannot fail and go on (`always`, or no faults). Without it what
is left is appended to a later file, the flaw at `aof.c:254` (section 6), and `FileWhole` is
false; `NothingMissing` still holds as long as nothing crashes, which is what `aof_live` checks.
`AckedDurableAlways` needs `Synchronous`: appendfsync always, no-appendfsync-on-rewrite off, a
file system that writes data before a rename, no CONFIG SET appendonly, and clients that wait
for an answer before they send the next command, without which finding 2 is a counterexample. It is `AlwaysDurable`
of `persistence` for any number of clients, databases, writes, faults and crashes. `AckInv`: the durable part
brings back the first k writes, every acknowledged write is among them, and a reply that is
queued is about one of them or the buffer is not empty, so that `beforeSleep()` comes before
the reply can be sent.

*Snapshots:* `ChangesCounted`, `DumpsOnlyNewer`. `server.dirty` alone is not inductive:
what the cron will subtract when it hears of the child is known only with the child. While
the child writes, `dirty - dirty_before` covers what its snapshot lacks, and when it has
renamed its file and the cron has not heard, what the file lacks (`Covered`); the file, the
child's snapshot and the data set are in this order (`FileBehind`); and a server that is
down has no child (`Gone`), without which a child could outlive a SHUTDOWN.

*Background threads:* `NothingOverlookedAlways`, `JobsInOrderAlways`, from `BioInv`: who holds the
mutex at each place (`Holder`), the queue holds the last jobs created, numbered without a
gap, and `bio_pending` is its length (`Queue`), and the jobs executed are those before the
queue and, until it is removed, its first one (`Progress`).

**ScriptingProofs.** `ScriptsReplicatedAlways`. A script is sent as a whole when it ends, so what is
inductive is an account of the running script: every step before the current one went through, it
has written as many times as it has writes up to there, and a script that is told to stop has
written nothing. Of whoever is sent the stream the invariant says that it has every script in the cache of
names (`Follows`) and that its data with the writes of the running script make the master's. The
hypothesis `SameEverywhere` excludes the two cases in which an EVAL does not write on a slave
what it wrote on the master, because the master's own state cut it short: a write refused since
the last save failed (`MasterServer` has save points), and SCRIPT KILL of a script that would
go on to write. In both the EVAL is sent all the same (`scripting.c:1359`, section 6) and the
property is false; the scripts and servers of `MCServer` satisfy the hypothesis.

**ReshardingProofs.** `ReshardInvariant` and `KeysFollowSlotAlways`, for any finite set of keys and
any number of values and heartbeats. What is inductive is where the last value of each key is: at
the source before the keys are moved, at the target afterwards, and in between at the source, or
at the target if the source has it no more (`Place`, `DataInv`; a RESTORE that was executed and not
yet answered is the one moment with two copies). That only the right node answers rests on what the nodes think of the
slot (`ViewInv`: the source sends clients on until it has given up, only the target imports) and on the
epochs (`EpochInv`, `BeatInv`: a node that knows the epoch of a target that took over
knows the new owner, and no heartbeat under way can take it back). `RouteRuns` and `RouteAsks` then say of
`getNodeByQuery()` what it means that it runs a request or redirects it. A request with ASKING under way
is for keys the source has not, or for several, which the target refuses unless it has them all (`ClientInv`);
a RESTORE that comes late brings the value the key still has (`LateInv`).

The hypothesis `Distinct` says that the three masters differ and the slot has finitely many keys. `OrderlyMoves` is about
the operator: no COPY; the slot is moved back at most once, after the heartbeats of the first
move; and while a MIGRATE may give up on a RESTORE that is executed later, clients only read. The instances of
`MCCluster` satisfy it (`MCReshardEnv`). The last two parts are necessary, as the
counterexamples with `ThreeMoves` and `LateRestore` in section 5 show.

**Only model-checked.** Liveness (`EventuallyConnected`, `AofSettles`,
`BackgroundJobsFinish`): fairness and ENABLED are out of the prover's reach. The algorithms on sorted sets,
ziplists, intsets, bit strings and reversed cursors (`SortedSetExact`, `EncodingsExact`,
`IterationsComplete`) and the commands with what they propagate (`PropagationExact`, `KeysSignalled`,
`LoadedExactly`) are defined by recursion or in modules that use it, and would need induction over data.
`OneLeaderPerEpoch`, `OneWinnerPerEpoch` and `NoOlderOwner` hold in the scenarios of the runs
and not in general (section 5), so there is nothing to prove of them as they stand. `SameEpochSameMaster` rests on the first of them.
No proof has been written for the other safety properties of the runs: `ClientsServed`, `ClientsSound`, `FailuresSound`,
`QuietIsConverged` and `ManualFailoverKeepsWrites`. `AlwaysDurable` and `NothingMissing` are checked
on instances of what `AckedDurableAlways` and `NothingMissingAlways` prove.
## 5. Findings

1. **A slave that did not start its BGSAVE resumes at a wrong offset**
   (`replication_overlap`). `+FULLRESYNC` carries the offset of the moment
   (`replication.c:554`). A slave left in `WAIT_BGSAVE_START` skips the commands up to the
   next BGSAVE, and one that joins a running BGSAVE is given older commands by
   `copyClientOutputBuffer()`. The offset it counts from then on is not the one of what it
   holds; a later PSYNC is accepted and repeats or skips writes. The comment at
   `replication.c:438` and the digest test in `tests/integration/replication-psync.tcl`
   say otherwise.
2. **`appendfsync always` acknowledges a pipelined write before the fsync**
   (`aof_pipelined`). `aeProcessEvents()` calls the writable handler of a descriptor right
   after its readable one (`ae.c:594`). If a reply was pending, the reply to a new write
   leaves in the same iteration, before `beforeSleep()` flushes and fsyncs. The comment
   at `aof.c:323` says this cannot be.
3. **SCAN misses elements when the table shrinks to a quarter** (`dict_scan_shrink`).
   `dictScan()` goes through the expansions of a cursor in the larger table by adding 1 to the
   high bits, starting at the cursor's own (`dict.c:1386`), while cursors advance in reversed
   order: expansions below the cursor's high bits are skipped although they were not visited.
   The comment at `dict.c:1194` guarantees every element that stays.

### Further counterexamples

Behaviours the models have and a property would rule out. To see one, take the named
configuration, set the part and the constant, and check the property alone (without
SYMMETRY where the constant breaks it).

| Configuration | Change | Property violated | Where |
|---|---|---|---|
| `MCCluster`, part `failures` | `Net <- Minority` | `FailNeedsMajority` | `cluster.c:1656`: a master without slots counts as a reporter, and not for the size of the cluster |
| `MCCluster`, part `bus` | `Scenario <- MCRestartScenario` | `OneWinnerPerEpoch` | `cluster.c:3447`: a vote leaves before `nodes.conf` is saved; two voters that restart vote twice |
| `MCCluster`, part `bus` | `Scenario <- MCAtOnceScenario` | `ManualFailoverKeepsWrites` | `cluster.c:2134`, `cluster.c:5566`: the offset a paused master tells its slave says nothing of the attempt it belongs to. CLUSTER FAILOVER is sent again while the master is still paused by the first one: the slave, with a new deadline, takes the offset of the first, the master resumes its clients at its own deadline before the second MFSTART arrives, and the slave takes over without what they wrote then; the aim stated at `cluster.c:3977` is a failover "without data loss" |
| `MCCluster`, part `resharding` | `Env <- CopyEnv` | `MigrateReplicated` | `cluster.c:6417`: MIGRATE COPY is propagated as DEL |
| `MCCluster`, part `resharding` | `Env <- ThreeMoves` | `KeysFollowSlot` | `cluster.c:6649`: ASKING does not say of which move; a request that was under way while the slot came back and left again is run by the importing node, which lacks the key |
| `MCCluster`, part `resharding` | `Env <- LateRestore` | `KeysFollowSlot` | `cluster.c:6428`: MIGRATE times out, the source executes a write, and the RESTORE is executed at the target with the older value |
| `MCCommands`, part `commands` | `CommandScenario <- MCDrift` | `SlaveExact` | `t_string.c:123`: SET XX reads the clock twice |
| `MCCommands`, part `commands` | `CommandScenario <- MCFloat` | `SlaveExact` | `t_string.c:750`: INCRBYFLOAT is propagated as SET, which drops the time to live |
| `MCServer`, part `loop` | `LoopPlan <- Resize` | `EntryStillThere` | `ae.c:594`: CONFIG SET maxclients reallocates the table whose entry is being used |
| `MCServer`, part `clients` | `ClientPlan <- Reblocked` | `NoPanic` | `blocked.c:120`: a client that blocks again before `beforeSleep()` loses its type |
| `MCServer`, part `scripts` | `Script = {"write"}`, `Follower = {"f"}`, `MaxScripts = 2`, `MaxEvents = 2` | `SlavesTakeWrites` | `scripting.c:354`: a slave that cannot save refuses the writes of its master's script |
| `MCFailover`, part `sentinels` | `SentinelScenario <- MCRestart` | `KnowsAllInstances` | `sentinel.c:2128`: a restart during a failover forgets the old master |
| `MCFailover`, part `sentinels` | `SentinelScenario <- MCTimeout` | `NoSlaveOfItself` | `sentinel.c:4711`: a failover that times out tells the promoted slave to replicate from itself |
| `MCFailover`, part `sentinels` | `SPECIFICATION ForcedSpec` | `OneLeaderPerEpoch` | `sentinel.c:4132`: votes are asked for and counted with `current_epoch`, the failover is led with `failover_epoch`; a failover forced by a user during an election raises the first of them |
| `MCReplication`, part `acks` | | `WritesWithinLag` | `redis.c:1730`: the cached time moves at every `serverCron()` and the good slaves are counted once a second, so a write passes although the lag of the only good slave has become longer than `min-slaves-max-lag`; `replication.c:2129` says that writes are prevented then |
| `MCReplication`, part `acks` | | `WaitProcessed` | `networking.c:1690`: a paused slave acknowledges what it has read and not executed |
| `MCStructures`, structure `ziplist` | `ZlItem <- MCTiny` | `InsertInBounds` | `ziplist.c:1276`: an insertion that makes the block smaller cuts off its end |
| `MCStructures`, structure `hll` | | `CacheStays` | `hyperloglog.c:191`: the bit that marks the cached cardinality as stale is in its low byte |

## 6. Observations

Behaviours met while modelling, which the models reproduce and the properties stop short of.

- `replicationSetMaster()` resets the offset to 0 and keeps the run id, so after SLAVEOF
  and SLAVEOF NO ONE a slave of the earlier life can be accepted by PSYNC. The fence
  property claims nothing across a role change.
- `resizeReplicationBacklog()` empties the backlog; the comment above it says the most
  recent bytes are kept.
- When the fork for slaves that came too late fails, they are already in
  `WAIT_BGSAVE_END` and the loop after the failure frees only slaves in
  `WAIT_BGSAVE_START` (`replication.c:1054`): they wait without a child until a timeout.
- `backgroundSaveDoneHandler()` tells the slaves the outcome by `exitcode == 0`, which also
  holds for a child that died of a signal (`rdb.c:1892`); they are sent the previous file.
- MOVE changes both keys and tells the clients that WATCH neither (`db.c`, `moveCommand()`): `KeysSignalled`
  leaves it out.
- `SET key value EX seconds` is written to the AOF with the relative time (`aof.c:735`), while SETEX is translated
  to an absolute one: a replay gives such a key a longer life. `PropagationExact` leaves it out for the AOF.
- The READONLY refusal in `processCommand()` (`redis.c:2904`) does not call
  `flagTransaction()`: EXEC runs the rest.
- EXEC does not repeat the checks of `processCommand()`: writes queued on a master run
  after SLAVEOF made it a read-only slave.
- SHUTDOWN does not flush `aof_buf` and does not look at `WAIT_REWRITE`: acknowledged writes
  whose flush was postponed, or made since the AOF was enabled, are not in the file. The
  comment at `redis.c:3020` says that it "contains the full dataset anyway".
- `startAppendOnly()` leaves a closed descriptor's number in `aof_fd` when the rewrite
  cannot start (`aof.c:304`), while `aof_fd == -1` is the test for a disabled AOF (`aof.c:1726`).
- `stopAppendOnly()` keeps `aof_buf` and the error status when its flush fails: writes are
  refused although the AOF is off, and the bytes are appended to a later file.
- A rewrite that completes after a write error empties `aof_buf`; `flushAppendOnlyFile()` then
  returns at once and the error status is not cleared.
- RENAME, RESTORE and SORT ... STORE do not signal the key they fill, nor does a push on a
  list that exists: clients blocked on it wait although the list is there.
- An EVALSHA that is refused before its first write is still sent to the slaves as EVAL
  (`scripting.c:1359`).
- Two failovers of one epoch in Sentinel, both forced by users or one forced and one elected, promote two slaves with the same
  `config_epoch` (`sentinel.c:4132`): what `OneLeaderPerEpoch` shows under `ForcedSpec`. `SameEpochSameMaster` is
  checked with elections, and with one forced failover without an election.
- The deadlines of a manual failover are the same distance ahead at master and slave, and `clusterCron()` looks at
  them every 100 ms. The model lets them be noticed in the order in which they pass. A slave whose cron is late by more
  than MFSTART took on its way could still win after the master resumed its clients.
- A clock set back between the computation of the time-out and the poll makes `serverCron()`
  late by that much (`ae.c:397`).
- While a client is paused, a request may fill its query buffer so that `read()` is asked
  for 0 bytes; the answer 0 closes the client (`networking.c:1652`). When the pause ends
  the clients are put into `unblocked_clients` without the flag that says so
  (`networking.c:2251`).


## 7. What could come next

1. Proofs: the lists of `Clients`; `QuietIsConverged` and `FailuresSound`.
2. An abstract durable log, implemented by `AOF` under `Synchronous`, and an abstract
   slave, implemented by `Replication` without overlap.
3. Eviction by its sampling policies, slaves of slaves.

## 8. Not modelled

Parsing and formatting of the protocol beyond where a request is cut, the bytes of the
encodings of RDB files and of the AOF rewrite per type (one command per write stands for
them), memory accounting, INFO, SLOWLOG and latency monitoring, configuration parsing, the
virtual machine of Lua, the command line tools but for the loop of `redis-trib.rb` that
moves a slot, and vendored code (`deps/`). In `Replication`: slaves of slaves, PINGs, timeouts
other than as lost links. In `AOF`: rewrites triggered by growth differ from BGREWRITEAOF only in
who starts them. In `Commands`: arguments of the wrong type or number, as their refusal changes
nothing. In the cluster: a bus message is one record, with one gossip entry per packet. In
`Sentinel`: scripts, notifications and the discovery of slaves by INFO.
