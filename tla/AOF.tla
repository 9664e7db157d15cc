-------------------------------- MODULE AOF --------------------------------
(***************************************************************************)
(* The append only file: aof.c, and the parts of redis.c, ae.c, config.c,  *)
(* bio.c and redis-check-aof.c that drive it.                              *)
(*                                                                         *)
(* The server executes writes, appends them to aof_buf, flushes the buffer *)
(* to the file before it sleeps in the event loop, fsyncs it by policy,    *)
(* and rewrites it in a child while the parent keeps the difference in the *)
(* rewrite buffer.  The process may be killed and the machine may lose     *)
(* power at any point between two steps; the file is then loaded again.    *)
(*                                                                         *)
(* A write is known by its position in hist, which records the database it *)
(* ran in; its effect is to append itself to that database.  A command in  *)
(* the file (a whole MULTI/EXEC block counts as one) is two bytes long, so *)
(* that a short write can tear it.                                         *)
(***************************************************************************)
EXTENDS Integers, Sequences, SequencesExt

CONSTANTS
  Clients,         \* connections that write
  DbNum,           \* server.dbnum
  Fsync,           \* appendfsync: "always", "everysec" or "no"
  NoFsyncOnRewrite,\* no-appendfsync-on-rewrite
  Pipelining,      \* clients send a command before the last one is answered
  Reconfigures,    \* CONFIG SET appendonly is issued
  WithRdb,         \* BGSAVE children come and go
  PowerFails,      \* the machine may lose what was not fsynced
  RenameBarrier,   \* the filesystem writes a file's data before its rename
  MaxWrites, MaxFaults, MaxCrashes,  \* bounds on the run
  MaxJobs          \* bound: no rewrite starts while more fsync jobs are pending

ASSUME AofAssumption ==
  /\ DbNum \in Nat \ {0}
  /\ Fsync \in {"always", "everysec", "no"}
  /\ {NoFsyncOnRewrite, Pipelining, Reconfigures, WithRdb, PowerFails,
      RenameBarrier} \subseteq BOOLEAN
  /\ {MaxWrites, MaxFaults, MaxCrashes, MaxJobs} \subseteq Nat

DBs == 0..(DbNum - 1)

VARIABLES
  proc,       \* "up", or why it is down: "killed" or "shutdown"
  phase,      \* where the event loop is
  fired,      \* events aeApiPoll() returned and not yet served, by client
  out,        \* writes whose reply is in the client's output buffer
  acked,      \* writes whose reply was sent
  hist,       \* databases of the writes executed, in order
  aof_state, aof_fd, aof_selected_db, aof_buf, aof_current_size,
  aof_last_write_status, postponed, scheduled,
  child,      \* rewrite child: [pid: "none", "running", "ok", "err", from: writes it saw]
  rewrite_buf,\* aof_rewrite_buf_blocks
  rdb,        \* rdb_child_pid # -1
  file,       \* [bytes, synced]: the AOF on disk and how much of it is durable
  jobs,       \* pending fsync jobs, oldest first: TRUE when for the current file
  faults, crashes

loopVars   == <<phase, fired>>
clientVars == <<out, acked>>
rewriteVars== <<child, rewrite_buf, rdb>>
flushVars  == <<file, aof_buf, aof_current_size, aof_last_write_status, postponed, jobs, faults>>
aofVars    == <<aof_state, aof_fd, aof_selected_db, scheduled>>
vars == <<proc, loopVars, clientVars, hist, aofVars, flushVars, rewriteVars, crashes>>

----------------------------------------------------------------------------
(* The contents of the file. *)

Entry  == [op : {"select", "write"}, arg : Nat]
Select(d) == [op |-> "select", arg |-> d]
Write(n)  == [op |-> "write", arg |-> n]

Bytes(entries) ==
  [i \in 1..2 * Len(entries) |-> <<entries[(i + 1) \div 2], i % 2>>]

\* How many commands, from the start, the loader reads without an error.
Complete(bytes) ==
  LET good(k) == \A i \in 1..k : /\ bytes[2*i - 1][2] = 1
                                 /\ bytes[2*i] = <<bytes[2*i - 1][1], 0>>
  IN  CHOOSE k \in 0..(Len(bytes) \div 2) :
        /\ good(k)
        /\ \A j \in (k + 1)..(Len(bytes) \div 2) : ~good(j)

Entries(bytes) == [i \in 1..Complete(bytes) |-> bytes[2*i][1]]
Loadable(bytes) == Len(bytes) = 2 * Complete(bytes)

EmptyDBs == [d \in DBs |-> <<>>]

\* The fake client of the loader, with its database and the databases, runs a command.
RunCommand(s, e) ==
  IF e.op = "select" THEN [s EXCEPT !.db = e.arg] ELSE [s EXCEPT !.data[s.db] = Append(@, e.arg)]

\* The fake client after it ran the commands of the file.
Replayed(entries) ==
  LET after[i \in 0..Len(entries)] ==
        IF i = 0 THEN [db |-> 0, data |-> EmptyDBs] ELSE RunCommand(after[i - 1], entries[i])
  IN  after[Len(entries)]

Replay(entries) == Replayed(entries).data

\* The databases after writes that ran in the given databases, in this order.
Executed(dbs) ==
  LET after[n \in 0..Len(dbs)] ==
        IF n = 0 THEN EmptyDBs ELSE [after[n - 1] EXCEPT ![dbs[n]] = Append(@, n)]
  IN  after[Len(dbs)]

\* The databases after the first k writes.
DataAfter(k) == Executed(SubSeq(hist, 1, k))

\* rewriteAppendOnlyFile(): for each database that holds keys a SELECT and
\* the commands that rebuild it.
rewriteAppendOnlyFile(data) ==
  LET dump(d) == IF data[d] = <<>> THEN <<>>
                 ELSE <<Select(d)>> \o [i \in 1..Len(data[d]) |-> Write(data[d][i])]
      dumped[n \in 0..DbNum] == IF n = 0 THEN <<>> ELSE dumped[n - 1] \o dump(n - 1)
  IN  dumped[DbNum]

\* What the child has written: the databases as they were at fork().
ChildFile == Bytes(rewriteAppendOnlyFile(DataAfter(child.from)))

----------------------------------------------------------------------------
(* flushAppendOnlyFile(): every outcome it can have in this state. *)

Untouched == [file |-> file, buf |-> aof_buf, size |-> aof_current_size,
              status |-> aof_last_write_status, postponed |-> postponed,
              jobs |-> jobs, faults |-> faults, exits |-> FALSE]

Appended(n) == [file EXCEPT !.bytes = @ \o SubSeq(aof_buf, 1, n)]

SyncInProgress == Fsync = "everysec" /\ jobs # <<>>

\* A write error: fatal under "always", otherwise writes are refused.
AfterError(r) == [r EXCEPT !.postponed = FALSE, !.faults = @ + 1,
                           !.status = FALSE, !.exits = Fsync = "always"]

\* write() fails as a whole; on a descriptor that is not open it always does.
WriteFails ==
  IF aof_fd # "open"
  THEN {[AfterError(Untouched) EXCEPT !.faults = faults]}
  ELSE {r \in {AfterError(Untouched)} : faults < MaxFaults}

\* Mutants of ShortWrites: the part written stays in the buffer; the durable
\* length is not lowered by ftruncate().
ShortWritesKeepBuffer ==
  IF aof_fd # "open" \/ faults >= MaxFaults THEN {}
  ELSE {AfterError([Untouched EXCEPT !.file = Appended(n), !.size = @ + n]) : n \in 1..(Len(aof_buf) - 1)}

ShortWritesTruncateAll ==
  IF aof_fd # "open" \/ faults >= MaxFaults THEN {}
  ELSE {AfterError([Untouched EXCEPT !.file.bytes = <<>>])}

\* A short write, taken back by ftruncate() or, when that fails too, kept.
ShortWrites ==
  IF aof_fd # "open" \/ faults >= MaxFaults THEN {}
  ELSE UNION {{AfterError([Untouched EXCEPT
                   !.file.bytes = SubSeq(Appended(n).bytes, 1, aof_current_size),
                   !.file.synced = IF @ < aof_current_size THEN @ ELSE aof_current_size]),
               AfterError([Untouched EXCEPT
                   !.file = Appended(n),
                   !.size = @ + n,
                   !.buf = SubSeq(@, n + 1, Len(@))])} : n \in 1..(Len(aof_buf) - 1)}

\* Mutant of WriteSucceeds: "always" leaves the fsync to the kernel.
WriteWithoutFsync ==
  IF aof_fd # "open" THEN {}
  ELSE {[Untouched EXCEPT !.file = Appended(Len(aof_buf)), !.buf = <<>>,
           !.size = @ + Len(aof_buf), !.status = TRUE, !.postponed = FALSE]}

\* The write succeeds; then the fsync the policy asks for.  Whether a second
\* has passed since the last one is left open.
WriteSucceeds ==
  LET r == [Untouched EXCEPT !.file = Appended(Len(aof_buf)), !.buf = <<>>,
                             !.size = @ + Len(aof_buf), !.status = TRUE,
                             !.postponed = FALSE]
      skip == NoFsyncOnRewrite /\ (child.pid # "none" \/ rdb)
  IN  IF aof_fd # "open" THEN {}
      ELSE IF skip \/ Fsync = "no" THEN {r}
      ELSE IF Fsync = "always" THEN {[r EXCEPT !.file.synced = Len(r.file.bytes)]}
      ELSE {r} \union {[r EXCEPT !.jobs = IF SyncInProgress THEN @ ELSE Append(@, TRUE)]}

flushAppendOnlyFile(force) ==
  IF aof_buf = <<>> THEN {Untouched}
  ELSE LET written == WriteFails \union ShortWrites \union WriteSucceeds
           later   == [Untouched EXCEPT !.postponed = TRUE]
       IN  IF SyncInProgress /\ ~force
           THEN IF postponed THEN {later} \union written ELSE {later}
           ELSE written

Flushed(r) ==
  /\ file' = r.file /\ aof_buf' = r.buf /\ aof_current_size' = r.size
  /\ aof_last_write_status' = r.status /\ postponed' = r.postponed
  /\ jobs' = r.jobs /\ faults' = r.faults

\* The process ends: everything but the file and the history is gone.
Ends(how) ==
  /\ proc' = how /\ phase' = "before" /\ fired' = [c \in Clients |-> {}]
  /\ out' = [c \in Clients |-> {}]
  /\ aof_state' = "off" /\ aof_fd' = "none" /\ aof_selected_db' = -1
  /\ scheduled' = FALSE /\ child' = [pid |-> "none", from |-> 0]
  /\ rewrite_buf' = <<>> /\ rdb' = FALSE /\ aof_buf' = <<>>
  /\ aof_last_write_status' = TRUE /\ postponed' = FALSE /\ jobs' = <<>>
  /\ UNCHANGED <<acked, hist, aof_current_size>>

\* One call of flushAppendOnlyFile() from the event loop, then phase next.
FlushThen(next) ==
  \E r \in flushAppendOnlyFile(FALSE) :
    \/ /\ r.exits
       /\ Ends("killed")
       /\ file' = r.file /\ faults' = r.faults
       /\ UNCHANGED crashes
    \/ /\ ~r.exits
       /\ Flushed(r)
       /\ phase' = next
       /\ UNCHANGED <<proc, fired, clientVars, hist, aofVars, rewriteVars, crashes>>

----------------------------------------------------------------------------
(* The event loop: aeMain() calls beforeSleep(), then aeProcessEvents(). *)

\* Mutant of beforeSleep: the flush is left to serverCron().
SleepWithoutFlush ==
  /\ proc = "up" /\ phase = "before"
  /\ phase' = "poll"
  /\ UNCHANGED <<proc, fired, clientVars, hist, aofVars, flushVars, rewriteVars, crashes>>

beforeSleep ==
  /\ proc = "up" /\ phase = "before"
  /\ FlushThen("poll")

\* A socket is writable only once a reply is queued on it: prepareClientToWrite()
\* installs the handler and sendReplyToClient() removes it.
Pollable(c) ==
  {e \in {"r", "w"} :
     \/ e = "r" /\ Len(hist) < MaxWrites /\ (Pipelining \/ out[c] = {})
     \/ e = "w" /\ out[c] # {}}

aeApiPoll ==
  /\ proc = "up" /\ phase = "poll"
  /\ fired' \in {f \in [Clients -> SUBSET {"r", "w"}] : \A c \in Clients : f[c] \subseteq Pollable(c)}
  /\ phase' = "events"
  /\ UNCHANGED <<proc, clientVars, hist, aofVars, flushVars, rewriteVars, crashes>>

Serving(c, e) == proc = "up" /\ phase = "events" /\ e \in fired[c]
Served(c, e)  == fired' = [fired EXCEPT ![c] = @ \ {e}] /\ UNCHANGED phase

\* feedAppendOnlyFile(), called by propagate() unless the AOF is off: the bytes
\* of write n in database d go to aof_buf and, while a child runs, to its diff.
Fed(n, d) == Bytes((IF d = aof_selected_db THEN <<>> ELSE <<Select(d)>>) \o <<Write(n)>>)

feedAppendOnlyFile(n, d) ==
  /\ aof_selected_db' = d
  /\ aof_buf' = IF aof_state = "on" THEN aof_buf \o Fed(n, d) ELSE aof_buf
  /\ rewrite_buf' = IF child.pid # "none" THEN rewrite_buf \o Fed(n, d) ELSE rewrite_buf

\* A write command: refused while the AOF cannot be written, otherwise executed,
\* propagated, and its reply queued.
call(c, d) ==
  /\ Serving(c, "r") /\ Served(c, "r")
  /\ aof_last_write_status
  /\ Len(hist) < MaxWrites
  /\ hist' = Append(hist, d)
  /\ out' = [out EXCEPT ![c] = @ \union {Len(hist) + 1}]
  /\ \/ aof_state = "off" /\ UNCHANGED <<aof_selected_db, aof_buf, rewrite_buf>>
     \/ aof_state # "off" /\ feedAppendOnlyFile(Len(hist) + 1, d)
  /\ UNCHANGED <<proc, acked, aof_state, aof_fd, scheduled, file, aof_current_size,
                 aof_last_write_status, postponed, jobs, faults, child, rdb, crashes>>

RefuseWrite(c) ==
  /\ Serving(c, "r") /\ Served(c, "r")
  /\ ~aof_last_write_status
  /\ UNCHANGED <<proc, clientVars, hist, aofVars, flushVars, rewriteVars, crashes>>

\* The readable handler of a descriptor runs before its writable one.
sendReplyToClient(c) ==
  /\ Serving(c, "w") /\ "r" \notin fired[c] /\ Served(c, "w")
  /\ acked' = acked \union out[c]
  /\ out' = [out EXCEPT ![c] = {}]
  /\ UNCHANGED <<proc, hist, aofVars, flushVars, rewriteVars, crashes>>

\* All events served; serverCron() runs when its time has come.
processTimeEvents(next) ==
  /\ proc = "up" /\ phase = "events" /\ \A c \in Clients : fired[c] = {}
  /\ phase' = next
  /\ UNCHANGED <<proc, fired, clientVars, hist, aofVars, flushVars, rewriteVars, crashes>>

----------------------------------------------------------------------------
(* Rewriting in the background. *)

NoChild == [pid |-> "none", from |-> 0]

\* Mutant of Forks: the next write does not repeat the SELECT.
ForksSelected ==
  /\ child.pid = "none" /\ Len(jobs) <= MaxJobs
  /\ child' = [pid |-> "running", from |-> Len(hist)]
  /\ scheduled' = FALSE
  /\ UNCHANGED aof_selected_db

\* rewriteAppendOnlyFileBackground() when fork() succeeds, as the parent sees it.
Forks ==
  /\ child.pid = "none" /\ Len(jobs) <= MaxJobs
  /\ child' = [pid |-> "running", from |-> Len(hist)]
  /\ scheduled' = FALSE
  /\ aof_selected_db' = -1

ForkFails ==
  /\ faults < MaxFaults
  /\ faults' = faults + 1

bgrewriteaofCommand ==
  /\ proc = "up" /\ phase = "events" /\ child.pid = "none"
  /\ \/ /\ rdb /\ ~scheduled
        /\ scheduled' = TRUE
        /\ UNCHANGED <<child, aof_selected_db>>
     \/ ~rdb /\ Forks
  /\ UNCHANGED <<proc, loopVars, clientVars, hist, aof_state, aof_fd, flushVars, rewrite_buf, rdb, crashes>>

\* The child writes the databases as they were at fork() to a temporary file,
\* fsyncs it and exits; an error makes it exit with a failure.
ChildExits ==
  /\ child.pid = "running"
  /\ \/ child' = [child EXCEPT !.pid = "ok"] /\ UNCHANGED faults
     \/ child' = [child EXCEPT !.pid = "err"] /\ ForkFails
  /\ UNCHANGED <<proc, loopVars, clientVars, hist, aofVars, file, aof_buf, aof_current_size,
                 aof_last_write_status, postponed, jobs, rewrite_buf, rdb, crashes>>

\* A BGSAVE child starts, or ends and is reaped.
RdbChild ==
  /\ WithRdb /\ proc = "up" /\ phase = "events"
  /\ rdb \/ child.pid = "none"
  /\ rdb' = ~rdb
  /\ UNCHANGED <<proc, loopVars, clientVars, hist, aofVars, flushVars, child, rewrite_buf, crashes>>

\* Mutants of Cleanup: the difference is not reset; a failed first rewrite is
\* not scheduled again.
CleanupKeepsDiff ==
  /\ child' = NoChild
  /\ scheduled' = (scheduled \/ aof_state' = "wait")
  /\ UNCHANGED rewrite_buf

CleanupNoRetry ==
  /\ rewrite_buf' = <<>>
  /\ child' = NoChild
  /\ UNCHANGED scheduled

\* The end of backgroundRewriteDoneHandler(), reached on every path.
Cleanup ==
  /\ rewrite_buf' = <<>>
  /\ child' = NoChild
  /\ scheduled' = (scheduled \/ aof_state' = "wait")

\* The phases of serverCron() after the children: the flushes still to do.
AfterChildren == IF postponed THEN "flush" ELSE IF aof_last_write_status THEN "before" ELSE "retry"

\* The temporary file with the difference appended, renamed over the AOF.
Rewritten == ChildFile \o rewrite_buf
Renamed ==
  [bytes |-> Rewritten,
   synced |-> IF RenameBarrier THEN Len(Rewritten) ELSE Len(ChildFile)]

\* backgroundRewriteDoneHandler() up to rename(), for a child that succeeded.
RewriteRename ==
  /\ proc = "up" /\ phase = "cron" /\ child.pid = "ok"
  /\ file' = Renamed
  /\ jobs' = [i \in DOMAIN jobs |-> FALSE]
  /\ phase' = "renamed"
  /\ UNCHANGED <<proc, fired, clientVars, hist, aofVars, aof_buf, aof_current_size,
                 aof_last_write_status, postponed, faults, rewriteVars, crashes>>

\* The rest of it: with the AOF disabled the new descriptor is closed, otherwise
\* it replaces the old one, is fsynced by policy, and aof_buf is dropped because
\* the difference already held its contents.
SwitchFile ==
  /\ aof_fd' = "open"
  /\ file' = IF Fsync = "always" THEN [file EXCEPT !.synced = Len(file.bytes)] ELSE file
  /\ jobs' = IF Fsync = "everysec" THEN Append(jobs, TRUE) ELSE jobs
  /\ aof_selected_db' = -1
  /\ aof_current_size' = Len(file.bytes)
  /\ aof_buf' = <<>>

backgroundRewriteDoneHandler ==
  /\ proc = "up" /\ phase = "renamed"
  /\ \/ aof_fd = "none" /\ UNCHANGED <<aof_fd, file, jobs, aof_selected_db, aof_current_size, aof_buf>>
     \/ aof_fd # "none" /\ SwitchFile
  /\ aof_state' = IF aof_state = "wait" THEN "on" ELSE aof_state
  /\ Cleanup
  /\ phase' = AfterChildren
  /\ UNCHANGED <<proc, fired, clientVars, hist, aof_last_write_status, postponed, faults, rdb, crashes>>

\* The child failed, or opening, appending to or renaming its file did.
RewriteFails ==
  /\ proc = "up" /\ phase = "cron"
  /\ \/ child.pid = "err" /\ UNCHANGED faults
     \/ child.pid = "ok" /\ ForkFails
  /\ UNCHANGED <<aof_state>>
  /\ Cleanup
  /\ phase' = AfterChildren
  /\ UNCHANGED <<proc, fired, clientVars, hist, aof_fd, aof_selected_db, file, aof_buf,
                 aof_current_size, aof_last_write_status, postponed, jobs, rdb, crashes>>

\* serverCron() with no child to reap: it starts the rewrite that was scheduled
\* or, on growth of the file, one of its own.
serverCron ==
  /\ proc = "up" /\ phase = "cron" /\ child.pid \in {"none", "running"}
  /\ phase' = AfterChildren
  /\ \/ ~rdb /\ Forks /\ UNCHANGED faults
     \/ /\ \/ UNCHANGED faults /\ (~scheduled \/ rdb \/ child.pid # "none" \/ Len(jobs) > MaxJobs)
           \/ ForkFails /\ scheduled /\ ~rdb /\ child.pid = "none"
        /\ UNCHANGED <<child, scheduled, aof_selected_db>>
  /\ UNCHANGED <<proc, fired, clientVars, hist, aof_state, aof_fd, file, aof_buf, aof_current_size,
                 aof_last_write_status, postponed, jobs, rewrite_buf, rdb, crashes>>

\* serverCron() tries again a postponed flush, and one that failed.
CronFlush ==
  /\ proc = "up"
  /\ \/ phase = "flush" /\ FlushThen("retry")
     \/ phase = "retry" /\ ~aof_last_write_status /\ FlushThen("before")
     \/ /\ phase = "retry"
        /\ phase' = "before"
        /\ UNCHANGED <<proc, fired, clientVars, hist, aofVars, flushVars, rewriteVars, crashes>>

\* A thread of bio.c runs the oldest fsync job.
bioProcessBackgroundJobs ==
  /\ proc = "up" /\ jobs # <<>>
  /\ jobs' = Tail(jobs)
  /\ file' = IF Head(jobs) THEN [file EXCEPT !.synced = Len(file.bytes)] ELSE file
  /\ UNCHANGED <<proc, loopVars, clientVars, hist, aofVars, aof_buf, aof_current_size,
                 aof_last_write_status, postponed, faults, rewriteVars, crashes>>

----------------------------------------------------------------------------
(* CONFIG SET appendonly and SHUTDOWN. *)

\* stopAppendOnly(): a forced flush, an fsync, and the child is killed.  What
\* the flush could not write stays in aof_buf.
stopAppendOnly ==
  /\ Reconfigures /\ proc = "up" /\ phase = "events" /\ aof_state # "off"
  /\ \E r \in flushAppendOnlyFile(TRUE) :
       \/ /\ r.exits
          /\ Ends("killed")
          /\ file' = r.file /\ faults' = r.faults
       \/ /\ ~r.exits
          /\ Flushed([r EXCEPT !.file.synced = Len(r.file.bytes)])
          /\ aof_fd' = "none" /\ aof_selected_db' = -1 /\ aof_state' = "off"
          /\ child' = NoChild
          /\ rewrite_buf' = IF child.pid = "none" THEN rewrite_buf ELSE <<>>
          /\ UNCHANGED <<proc, loopVars, clientVars, hist, scheduled, rdb>>
  /\ UNCHANGED crashes

\* Mutant of startAppendOnly: the AOF is on at once, without waiting for a rewrite.
StartWithoutRewrite ==
  /\ Reconfigures /\ proc = "up" /\ phase = "events" /\ aof_state = "off"
  /\ aof_fd' = "open" /\ aof_state' = "on"
  /\ UNCHANGED <<proc, loopVars, clientVars, hist, aof_selected_db, scheduled, flushVars, rewriteVars, crashes>>

\* startAppendOnly(): opens the file and starts the rewrite the AOF waits for.
\* When that cannot start, the descriptor is closed but aof_fd keeps its number.
startAppendOnly ==
  /\ Reconfigures /\ proc = "up" /\ phase = "events" /\ aof_state = "off"
  /\ \/ Forks /\ aof_fd' = "open" /\ aof_state' = "wait" /\ UNCHANGED faults
     \/ /\ aof_fd' = "stale"
        /\ IF child.pid = "none" THEN ForkFails ELSE UNCHANGED faults
        /\ UNCHANGED <<aof_state, child, scheduled, aof_selected_db>>
  /\ UNCHANGED <<proc, loopVars, clientVars, hist, file, aof_buf, aof_current_size,
                 aof_last_write_status, postponed, jobs, rewrite_buf, rdb, crashes>>

\* prepareForShutdown(), of SHUTDOWN or SIGTERM, with the AOF enabled: the child is killed, the file fsynced.
prepareForShutdown ==
  /\ proc = "up" /\ phase = "events" /\ aof_state # "off"
  /\ crashes < MaxCrashes /\ crashes' = crashes + 1
  /\ file' = [file EXCEPT !.synced = Len(file.bytes)]
  /\ Ends("shutdown")
  /\ UNCHANGED faults

----------------------------------------------------------------------------
(* Crashes and recovery. *)

\* The process is killed: the kernel still has all that was written.
Kill ==
  /\ proc = "up" /\ crashes < MaxCrashes /\ crashes' = crashes + 1
  /\ Ends("killed")
  /\ UNCHANGED <<file, faults>>

\* The machine loses power: of what was not fsynced, any prefix survives.
PowerLoss ==
  /\ PowerFails /\ proc = "up" /\ crashes < MaxCrashes /\ crashes' = crashes + 1
  /\ Ends("killed")
  /\ \E n \in file.synced..Len(file.bytes) :
       file' = [bytes |-> SubSeq(file.bytes, 1, n), synced |-> n]
  /\ UNCHANGED faults

\* The number of writes a file brings back.
Recovered(bytes) == CHOOSE k \in 0..Len(hist) : Replay(Entries(bytes)) = DataAfter(k)

\* The server starts with appendonly yes and loads the file; the loader exits
\* on a torn command.
loadAppendOnlyFile ==
  /\ proc # "up"
  /\ Loadable(file.bytes)
  /\ proc' = "up"
  /\ hist' = SubSeq(hist, 1, Recovered(file.bytes))
  /\ acked' = {n \in acked : n <= Recovered(file.bytes)}
  /\ aof_state' = "on" /\ aof_fd' = "open"
  /\ aof_current_size' = Len(file.bytes)
  /\ UNCHANGED <<loopVars, out, aof_selected_db, scheduled, rewriteVars, file, aof_buf,
                 aof_last_write_status, postponed, jobs, faults, crashes>>

\* The operator runs redis-check-aof --fix on a file the server refused.
redisCheckAof ==
  /\ proc # "up" /\ ~Loadable(file.bytes)
  /\ file' = LET n == 2 * Complete(file.bytes)
             IN  [bytes |-> SubSeq(file.bytes, 1, n), synced |-> n]
  /\ UNCHANGED <<proc, loopVars, clientVars, hist, aofVars, aof_buf, aof_current_size,
                 aof_last_write_status, postponed, jobs, faults, rewriteVars, crashes>>

----------------------------------------------------------------------------
Init ==
  /\ proc = "up" /\ phase = "before" /\ fired = [c \in Clients |-> {}]
  /\ out = [c \in Clients |-> {}] /\ acked = {} /\ hist = <<>>
  /\ aof_state = "on" /\ aof_fd = "open" /\ aof_selected_db = -1
  /\ aof_buf = <<>> /\ aof_current_size = 0 /\ aof_last_write_status = TRUE
  /\ postponed = FALSE /\ scheduled = FALSE
  /\ child = NoChild /\ rewrite_buf = <<>> /\ rdb = FALSE
  /\ file = [bytes |-> <<>>, synced |-> 0] /\ jobs = <<>>
  /\ faults = 0 /\ crashes = 0

Loop ==
  \/ beforeSleep \/ aeApiPoll \/ \E next \in {"cron", "before"} : processTimeEvents(next)
  \/ RewriteRename \/ backgroundRewriteDoneHandler \/ RewriteFails
  \/ serverCron \/ CronFlush
  \/ \E c \in Clients : \/ \E d \in DBs : call(c, d)
                        \/ RefuseWrite(c)
                        \/ sendReplyToClient(c)

Next ==
  \/ Loop
  \/ bgrewriteaofCommand \/ ChildExits \/ RdbChild \/ bioProcessBackgroundJobs
  \/ stopAppendOnly \/ startAppendOnly \/ prepareForShutdown
  \/ Kill \/ PowerLoss \/ loadAppendOnlyFile \/ redisCheckAof

Spec == Init /\ [][Next]_vars

\* The event loop never stops and its timer fires again and again, children
\* exit, background threads run.
Fairness ==
  /\ WF_vars(Loop) /\ SF_vars(processTimeEvents("cron"))
  /\ WF_vars(ChildExits) /\ WF_vars(bioProcessBackgroundJobs)
FairSpec == Spec /\ Fairness

----------------------------------------------------------------------------
(* Properties. *)

Byte == Entry \X {0, 1}

\* Every variable keeps its type.
TypeOK ==
  /\ proc \in {"up", "killed", "shutdown"}
  /\ phase \in {"before", "poll", "events", "cron", "renamed", "flush", "retry"}
  /\ fired \in [Clients -> SUBSET {"r", "w"}]
  /\ out \in [Clients -> SUBSET Nat] /\ acked \in SUBSET Nat
  /\ hist \in Seq(DBs)
  /\ aof_state \in {"off", "on", "wait"} /\ aof_fd \in {"none", "open", "stale"}
  /\ aof_selected_db \in DBs \union {-1}
  /\ aof_buf \in Seq(Byte) /\ rewrite_buf \in Seq(Byte)
  /\ aof_current_size \in Nat /\ file.bytes \in Seq(Byte) /\ file.synced \in 0..Len(file.bytes)
  /\ {aof_last_write_status, postponed, scheduled, rdb} \subseteq BOOLEAN
  /\ child.pid \in {"none", "running", "ok", "err"} /\ child.from \in 0..Len(hist)
  /\ jobs \in Seq(BOOLEAN) /\ faults \in 0..MaxFaults /\ crashes \in 0..MaxCrashes

\* Whatever the file holds, and at whatever point of the part not yet fsynced a
\* power failure cuts it, loading it (after redis-check-aof when a command is
\* torn) gives the databases as they were after some number of writes: no write
\* without the ones before it, none twice, none in another database.
RecoversPrefix ==
  \A n \in file.synced..Len(file.bytes) :
    \E k \in 0..Len(hist) : Replay(Entries(SubSeq(file.bytes, 1, n))) = DataAfter(k)

\* While the AOF is on, the file and what waits in aof_buf hold exactly the
\* database in memory; while a rewrite runs for it, so do the child's file and
\* the difference the parent keeps.  (Between rename() and the switch of the
\* descriptor aof_buf holds what the new file has already.)
NothingMissing ==
  LET all(bytes) == Loadable(bytes) /\ Replay(Entries(bytes)) = DataAfter(Len(hist))
  IN  /\ aof_state = "on" /\ phase # "renamed" => all(file.bytes \o aof_buf)
      /\ aof_state # "off" /\ child.pid # "none" => all(Rewritten)

\* The file is whole: nothing of it is lost but the end a power failure takes, and
\* nothing the server has done is missing from what will be in it.
FileWhole == RecoversPrefix /\ NothingMissing

\* appendfsync always: a write the client was told of survives a power failure.
AckedDurable ==
  \A n \in acked :
    proc = "up" => n \in 1..Len(hist) /\
      \E i \in 1..Len(Entries(SubSeq(file.bytes, 1, file.synced))) :
        Entries(SubSeq(file.bytes, 1, file.synced))[i] = Write(n)

\* A server that waits for the first rewrite of an AOF just enabled gets it,
\* however often the rewrite fails first, unless it is disabled or goes down.
WaitRewriteEnds == aof_state = "wait" ~> aof_state # "wait"

\* What waits in aof_buf reaches the file, also when the flush was postponed or
\* failed a number of times first.
BufferDrains == aof_state = "on" /\ aof_buf # <<>> ~> aof_state # "on" \/ aof_buf = <<>>

============================================================================
