----------------------------- MODULE Scripting -----------------------------
(***************************************************************************)
(* Lua scripts and their replication (scripting.c, the script cache of     *)
(* replication.c): EVAL, EVALSHA, SCRIPT LOAD, FLUSH and KILL on a master, *)
(* and what its slaves and its AOF make of the commands they are sent.     *)
(* A script runs alone; only a slow one lets events in, from its hook, and *)
(* then only SCRIPT KILL is obeyed.                                        *)
(*                                                                         *)
(* What a slave or an AOF has been sent is kept as the state of a server   *)
(* that has executed it: the stream is the same for all of them.  A slave  *)
(* that resynchronizes partially is one that never left.                   *)
(***************************************************************************)
EXTENDS Integers, Sequences, FiniteSets, SequencesExt

CONSTANTS
  Script,       \* scripts, named by their SHA1
  Lua,          \* what each does, a sequence of steps, see Op
  Follower,     \* slaves
  CacheSize,    \* repl_scriptcache_size
  SavePoints,   \* servers with save points: they refuse writes after a failed save
  MaxScripts,   \* bounds: commands of clients,
  MaxEvents     \* and saves, rewrites and slaves that come and go

MasterServer == "master"

\* INCR of the only key; a command with a random result; a long computation, plain or
\* inside Lua's pcall(); an error
Op == {"incr", "random", "loop", "pcall", "error"}

ASSUME ScriptAssumption ==
  /\ Lua \in [Script -> Seq(Op)]
  /\ SavePoints \subseteq Follower \cup {MasterServer}
  /\ CacheSize \in Nat \ {0} /\ MaxScripts \in Nat /\ MaxEvents \in Nat

VARIABLES
  master,     \* data, scripts, repl_scriptcache_fifo, children and the result of the last save
  follower,   \* the slaves
  aof,        \* the AOF and the one being rewritten
  run,        \* the running script
  todo        \* what is left of the bounds

scriptVars == <<master, follower, aof, run, todo>>

Idle == [script |-> "", sha |-> FALSE, pc |-> 0, wrote |-> 0, random |-> FALSE, slow |-> FALSE, kill |-> FALSE]

\* a server that executed what it was sent: its data, its scripts, and whether an
\* EVALSHA was about a script it does not have
Context(phase, data) ==
  [phase |-> phase, data |-> data, scripts |-> {}, missed |-> FALSE, diskerr |-> FALSE]
Off == Context("off", 0)

ScriptInit ==
  /\ master = [data |-> 0, scripts |-> {}, cache |-> << >>, child |-> FALSE, diskerr |-> FALSE]
  /\ follower = [f \in Follower |-> Off]
  /\ \E file \in {Off, Context("on", 0)} : aof = [file |-> file, rewrite |-> Off]
  /\ run = Idle
  /\ todo = [scripts |-> MaxScripts, events |-> MaxEvents]

Use(what) == todo[what] > 0 /\ todo' = [todo EXCEPT ![what] = @ - 1]

-----------------------------------------------------------------------------
(* The replication script cache                                            *)

replicationScriptCacheExists(cache, s) == Contains(cache, s)

\* the newest script is first, the oldest makes room
replicationScriptCacheAdd(cache, s) ==
  <<s>> \o IF Len(cache) = CacheSize THEN Front(cache) ELSE cache

\* mutant: the scripts sent before a slave or a new AOF began are taken to be known to it
KeepScriptCache(m) == m

replicationScriptCacheFlush(m) == [m EXCEPT !.cache = << >>]

-----------------------------------------------------------------------------
(* Propagation                                                             *)

\* redis.call() raises an error at a write after a random command, or when the last
\* save failed - of this server, whoever the caller is
Stops(body, i, diskerr) ==
  \/ body[i] = "error"
  \/ body[i] = "incr" /\ (diskerr \/ \E j \in 1..(i - 1) : body[j] = "random")

\* the writes of a script that nobody kills
Writes(s, diskerr) ==
  LET done == {i \in DOMAIN Lua[s] : \A j \in 1..i : ~Stops(Lua[s], j, diskerr)}
  IN  Cardinality({i \in done : Lua[s][i] = "incr"})

Execute(ctx, cmd, s) ==
  CASE cmd = "FLUSH" -> [ctx EXCEPT !.scripts = {}]
    [] cmd = "LOAD" -> [ctx EXCEPT !.scripts = @ \cup {s}]
    [] cmd = "EVAL" -> [ctx EXCEPT !.scripts = @ \cup {s}, !.data = @ + Writes(s, ctx.diskerr)]
    [] cmd = "EVALSHA" -> IF s \in ctx.scripts THEN [ctx EXCEPT !.data = @ + Writes(s, ctx.diskerr)]
                          ELSE [ctx EXCEPT !.missed = TRUE]

\* propagate(): the AOF, the buffer of a rewrite and every slave that is not waiting for
\* a save to begin
propagate(cmd, s) ==
  /\ follower' = [f \in Follower |->
       IF follower[f].phase \in {"off", "wait_start"} THEN follower[f] ELSE Execute(follower[f], cmd, s)]
  /\ aof' = [k \in DOMAIN aof |-> IF aof[k].phase = "off" THEN aof[k] ELSE Execute(aof[k], cmd, s)]

-----------------------------------------------------------------------------
(* EVAL and EVALSHA                                                        *)

\* processCommand() answers BUSY while a slow script lets events in
NotBusy == run = Idle

luaCreateFunction(m, s) == [m EXCEPT !.scripts = @ \cup {s}]

\* up to lua_pcall(): EVALSHA of an unknown script is an error, EVAL creates it
evalGenericCommand(s, sha) ==
  /\ NotBusy
  /\ Use("scripts")
  /\ sha => s \in master.scripts
  /\ master' = luaCreateFunction(master, s)
  /\ run' = [Idle EXCEPT !.script = s, !.sha = sha, !.pc = 1]
  /\ UNCHANGED <<follower, aof>>

\* after lua_pcall(), error or not
ScriptEnds ==
  /\ run' = Idle
  /\ IF run.sha /\ ~replicationScriptCacheExists(master.cache, run.script)
     THEN /\ master' = [master EXCEPT !.cache = replicationScriptCacheAdd(@, run.script)]
          /\ propagate("EVAL", run.script)
     ELSE /\ UNCHANGED master
          /\ IF run.wrote = 0 THEN UNCHANGED <<follower, aof>>
             ELSE propagate(IF run.sha THEN "EVALSHA" ELSE "EVAL", run.script)

\* a call that is not refused: server.lua_random_dirty, server.lua_write_dirty, the data
luaRedisGenericCommand(op) ==
  /\ run' = [run EXCEPT !.pc = @ + 1, !.slow = FALSE, !.random = @ \/ op = "random",
                        !.wrote = IF op = "incr" THEN @ + 1 ELSE @]
  /\ master' = [master EXCEPT !.data = IF op = "incr" THEN @ + 1 ELSE @]
  /\ UNCHANGED <<follower, aof>>

\* calls of redis.call() and what lies between them
LuaStep ==
  LET body == Lua[run.script]
  IN  /\ run # Idle
      /\ UNCHANGED todo
      /\ \/ run.pc > Len(body) /\ ScriptEnds
         \/ /\ run.pc <= Len(body)
            /\ \/ Stops(body, run.pc, master.diskerr)
               \/ run.kill /\ body[run.pc] = "loop"       \* luaMaskCountHook()
            /\ ScriptEnds
         \/ /\ run.pc <= Len(body)
            /\ ~Stops(body, run.pc, master.diskerr)
            /\ ~(run.kill /\ body[run.pc] = "loop")
            /\ luaRedisGenericCommand(body[run.pc])

\* the time limit is over: from now on the hook processes events
luaMaskCountHook ==
  /\ run # Idle /\ ~run.slow
  /\ run.pc <= Len(Lua[run.script]) /\ Lua[run.script][run.pc] \in {"loop", "pcall"}
  /\ run' = [run EXCEPT !.slow = TRUE]
  /\ UNCHANGED <<master, follower, aof, todo>>

\* mutant: SCRIPT KILL stops any script
KillsWriters ==
  /\ run.slow /\ ~run.kill
  /\ run' = [run EXCEPT !.kill = TRUE]
  /\ UNCHANGED <<master, follower, aof, todo>>

scriptKill ==
  /\ run.slow /\ ~run.kill
  /\ run.wrote = 0                                        \* else UNKILLABLE
  /\ run' = [run EXCEPT !.kill = TRUE]
  /\ UNCHANGED <<master, follower, aof, todo>>

scriptLoad(s) ==
  /\ NotBusy
  /\ Use("scripts")
  /\ master' = luaCreateFunction(master, s)
  /\ propagate("LOAD", s)
  /\ UNCHANGED run

scriptingReset(m) == [m EXCEPT !.scripts = {}]

scriptFlush ==
  /\ NotBusy
  /\ Use("scripts")
  /\ master' = replicationScriptCacheFlush(scriptingReset(master))
  /\ propagate("FLUSH", "")
  /\ UNCHANGED run

-----------------------------------------------------------------------------
(* Slaves, saves and rewrites: where the cache is flushed                  *)

Saving == master.child

\* SYNC, or a PSYNC that needs a full resynchronization
syncCommand(f) ==
  /\ NotBusy
  /\ follower[f].phase = "off"
  /\ Use("events")
  /\ IF Saving
     THEN /\ \/ \E g \in Follower :
                  /\ follower[g].phase = "wait_end"
                  /\ follower' = [follower EXCEPT ![f] = [follower[g] EXCEPT !.diskerr = FALSE]]
             \/ /\ \A g \in Follower : follower[g].phase # "wait_end"
                /\ follower' = [follower EXCEPT ![f] = Context("wait_start", 0)]
          /\ UNCHANGED master
     ELSE /\ follower' = [follower EXCEPT ![f] = Context("wait_end", master.data)]
          /\ master' = replicationScriptCacheFlush([master EXCEPT !.child = TRUE])
  /\ UNCHANGED <<aof, run>>

\* a save point, or BGSAVE
rdbSaveBackground ==
  /\ NotBusy /\ ~Saving
  /\ Use("events")
  /\ master' = [master EXCEPT !.child = TRUE]
  /\ UNCHANGED <<follower, aof, run>>

updateSlavesWaitingBgsave ==
  /\ NotBusy /\ Saving
  /\ \E ok \in BOOLEAN :
       LET waiting == {f \in Follower : follower[f].phase = "wait_start"}
           saved == [master EXCEPT !.child = waiting # {}, !.diskerr = ~ok /\ MasterServer \in SavePoints]
       IN  /\ ok \/ todo.events > 0
           /\ todo' = [todo EXCEPT !.events = IF ok THEN @ ELSE @ - 1]
           /\ follower' = [f \in Follower |->
                CASE f \in waiting -> Context("wait_end", master.data)
                  [] follower[f].phase = "wait_end" -> IF ok THEN [follower[f] EXCEPT !.phase = "on"] ELSE Off
                  [] OTHER -> follower[f]]
           /\ master' = IF waiting # {} THEN replicationScriptCacheFlush(saved) ELSE saved
  /\ UNCHANGED <<aof, run>>

SlaveGone(f) ==
  /\ follower[f].phase # "off"
  /\ NotBusy \/ run.slow
  /\ Use("events")
  /\ follower' = [follower EXCEPT ![f] = Off]
  /\ UNCHANGED <<master, aof, run>>

\* nobody is left to send scripts to
replicationCron ==
  /\ NotBusy
  /\ \A f \in Follower : follower[f].phase = "off"
  /\ aof.file.phase = "off" /\ aof.rewrite.phase = "off" /\ master.cache # << >>
  /\ master' = replicationScriptCacheFlush(master)
  /\ UNCHANGED <<follower, aof, run, todo>>

\* BGREWRITEAOF, or CONFIG SET appendonly yes
rewriteAppendOnlyFileBackground ==
  /\ NotBusy /\ aof.rewrite.phase = "off"
  /\ Use("events")
  /\ aof' = [aof EXCEPT !.rewrite = Context("on", master.data)]
  /\ master' = replicationScriptCacheFlush(master)
  /\ UNCHANGED <<follower, run>>

backgroundRewriteDoneHandler ==
  /\ NotBusy /\ aof.rewrite.phase = "on"
  /\ \E ok \in BOOLEAN : aof' = [file |-> IF ok THEN aof.rewrite ELSE aof.file, rewrite |-> Off]
  /\ UNCHANGED <<master, follower, run, todo>>

\* a slave's own save fails
SlaveDiskFails(f) ==
  /\ f \in SavePoints /\ NotBusy /\ follower[f].phase = "on" /\ ~follower[f].diskerr
  /\ Use("events")
  /\ follower' = [follower EXCEPT ![f].diskerr = TRUE]
  /\ UNCHANGED <<master, aof, run>>

ScriptNext ==
  \/ \E s \in Script : scriptLoad(s) \/ \E sha \in BOOLEAN : evalGenericCommand(s, sha)
  \/ LuaStep \/ luaMaskCountHook \/ scriptKill \/ scriptFlush
  \/ \E f \in Follower : syncCommand(f) \/ SlaveGone(f) \/ SlaveDiskFails(f)
  \/ rdbSaveBackground \/ updateSlavesWaitingBgsave \/ replicationCron
  \/ rewriteAppendOnlyFileBackground \/ backgroundRewriteDoneHandler

ScriptSpec == ScriptInit /\ [][ScriptNext]_scriptVars

-----------------------------------------------------------------------------
(* Properties                                                              *)

Agrees(ctx) == ctx.phase \in {"on", "wait_end"} => ~ctx.missed /\ ctx.data = master.data

\* Between two scripts every slave and the AOF - the one in use and the one being written -
\* hold what executing their stream makes of it, and that is the master's data: no
\* EVALSHA was sent to somebody without the script, no script did half of its writes.
\* Slaves that cannot save are the matter of SlavesTakeWrites.
ScriptsReplicated ==
  run = Idle =>
    \A ctx \in {follower[f] : f \in Follower} \cup {aof.file, aof.rewrite} : ~ctx.diskerr => Agrees(ctx)

\* A slave executes what its master sends, whatever became of its own saves: writes are
\* refused after a failed save "if this is a master instance" (processCommand in redis.c).
SlavesTakeWrites ==
  run = Idle => \A f \in Follower : Agrees(follower[f])
=============================================================================
