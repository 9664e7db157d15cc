-------------------------- MODULE ScriptingProofs --------------------------
(***************************************************************************)
(* Proofs about Scripting for any scripts, any slaves and any size of the  *)
(* script cache.                                                           *)
(*                                                                         *)
(* The inductive invariant says of whoever is sent the stream that it has  *)
(* every script of the cache, and that its data and the writes of the      *)
(* running script make the master's data.  It needs an account of the      *)
(* running script, because a script is sent as a whole when it ends: what  *)
(* it wrote must be what executing it writes.                              *)
(***************************************************************************)
EXTENDS Scripting, FiniteSetTheorems, TLAPS

\* The two cases in which a script ends that does not write what the same script writes
\* when a slave runs it: an error raised at a write because the master's last save failed,
\* and a script that is killed although it goes on to write where nobody kills it.
SameEverywhere ==
  /\ MasterServer \notin SavePoints
  /\ \A s \in Script : \A i \in DOMAIN Lua[s] :
       Lua[s][i] \in {"loop", "pcall"} /\ (\A j \in 1..(i - 1) : Lua[s][j] # "incr") => Writes(s, FALSE) = 0

-----------------------------------------------------------------------------
(* The inductive invariant *)

ServerState ==
  [phase : {"off", "wait_start", "wait_end", "on"}, data : Nat, scripts : SUBSET Script,
   missed : BOOLEAN, diskerr : BOOLEAN]
MasterState ==
  [data : Nat, scripts : SUBSET Script, cache : Seq(Script), child : BOOLEAN, diskerr : {FALSE}]
RunState ==
  [script : Script, sha : BOOLEAN, pc : Nat \ {0}, wrote : Nat, random : BOOLEAN, slow : BOOLEAN, kill : BOOLEAN]

\* A step that the master goes through.
Passes(s, i) == ~Stops(Lua[s], i, FALSE)

\* The writes among the first n steps of a script.
WritesBefore(s, n) == {i \in 1..n : Lua[s][i] = "incr"}

\* Every step before the current one went through; a script that is slow computes; only a
\* script that writes nothing is told to stop.
Running(r) ==
  /\ r \in RunState
  /\ r.pc <= Len(Lua[r.script]) + 1
  /\ \A i \in 1..(r.pc - 1) : Passes(r.script, i)
  /\ r.wrote = Cardinality(WritesBefore(r.script, r.pc - 1))
  /\ r.slow => r.pc <= Len(Lua[r.script]) /\ Lua[r.script][r.pc] \in {"loop", "pcall"}
  /\ r.kill => Writes(r.script, FALSE) = 0

Live(ctx) == ctx.phase \in {"on", "wait_end"}

\* A server that is sent the stream, with the master's cache and data while the running
\* script has made so many writes.
Follows(ctx, cache, data, wrote) ==
  Live(ctx) =>
    /\ \A i \in 1..Len(cache) : cache[i] \in ctx.scripts
    /\ ~ctx.diskerr => ~ctx.missed /\ ctx.data + wrote = data
    /\ ctx.phase = "wait_end" => ~ctx.diskerr

ScriptTypes ==
  /\ master \in MasterState
  /\ follower \in [Follower -> ServerState]
  /\ aof \in [file : ServerState, rewrite : ServerState]
  /\ run = Idle \/ Running(run)

ScriptInv ==
  /\ ScriptTypes
  /\ \A f \in Follower : Follows(follower[f], master.cache, master.data, run.wrote)
  /\ Follows(aof.file, master.cache, master.data, run.wrote)
  /\ Follows(aof.rewrite, master.cache, master.data, run.wrote)

-----------------------------------------------------------------------------
(* What a script writes *)

LEMMA StepsFinite ==
  ASSUME NEW s \in Script, NEW T \in SUBSET (1..Len(Lua[s]))
  PROVE  IsFiniteSet(T) /\ Cardinality(T) \in Nat
<1>1. Len(Lua[s]) \in Nat
  BY ScriptAssumption
<1>2. IsFiniteSet(1..Len(Lua[s]))
  BY <1>1, FS_Interval
<1> QED BY <1>2, FS_Subset, FS_CardinalityType

LEMMA WritesType == ASSUME NEW s \in Script, NEW d \in BOOLEAN PROVE Writes(s, d) \in Nat
<1> DEFINE done == {i \in DOMAIN Lua[s] : \A j \in 1..i : ~Stops(Lua[s], j, d)}
           W == {i \in done : Lua[s][i] = "incr"}
<1>1. W \in SUBSET (1..Len(Lua[s]))
  BY ScriptAssumption
<1>2. Cardinality(W) \in Nat
  BY <1>1, StepsFinite
<1> QED BY <1>2 DEF Writes, Passes

\* A script that ended at its last step, or where it stops, has written what it writes.
LEMMA EndsWith ==
  ASSUME NEW r, Running(r), r.pc > Len(Lua[r.script]) \/ ~Passes(r.script, r.pc)
  PROVE  r.wrote = Writes(r.script, FALSE)
<1> DEFINE s == r.script
           done == {i \in DOMAIN Lua[s] : \A j \in 1..i : Passes(s, j)}
<1>1. /\ s \in Script /\ r.pc \in Nat \ {0} /\ r.pc <= Len(Lua[s]) + 1
      /\ \A i \in 1..(r.pc - 1) : Passes(s, i)
      /\ r.wrote = Cardinality(WritesBefore(s, r.pc - 1))
  BY DEF Running, RunState
<1>2. Len(Lua[s]) \in Nat /\ DOMAIN Lua[s] = 1..Len(Lua[s])
  BY <1>1, ScriptAssumption
<1> DEFINE pc == r.pc
<1>3. pc > Len(Lua[s]) \/ ~Passes(s, pc)
  OBVIOUS
<1> HIDE DEF s, pc
<1>4. done = 1..(pc - 1)
  <2>1. ASSUME NEW i \in done PROVE i \in 1..(pc - 1)
    BY <1>1, <1>2, <1>3, <2>1 DEF pc
  <2>2. ASSUME NEW i \in 1..(pc - 1) PROVE i \in done
    BY <1>1, <1>2, <2>2 DEF pc
  <2> QED BY <2>1, <2>2
<1>5. {i \in done : Lua[s][i] = "incr"} = WritesBefore(s, pc - 1)
  BY <1>4 DEF WritesBefore
<1> QED BY <1>1, <1>5 DEF Writes, Passes, s, pc

\* A script that is killed has written nothing, and writes nothing.
LEMMA KilledWroteNothing ==
  ASSUME NEW r, Running(r), r.kill
  PROVE  r.wrote = 0 /\ Writes(r.script, FALSE) = 0
<1> DEFINE s == r.script
           n == r.pc - 1
           done == {i \in DOMAIN Lua[s] : \A j \in 1..i : Passes(s, j)}
           W == {i \in done : Lua[s][i] = "incr"}
<1>1. /\ s \in Script /\ n \in Nat /\ n <= Len(Lua[s])
      /\ \A i \in 1..n : Passes(s, i)
      /\ r.wrote = Cardinality(WritesBefore(s, n))
      /\ Writes(s, FALSE) = 0 /\ Len(Lua[s]) \in Nat /\ DOMAIN Lua[s] = 1..Len(Lua[s])
  <2>1. s \in Script
    BY DEF Running, RunState
  <2>2. Len(Lua[s]) \in Nat /\ DOMAIN Lua[s] = 1..Len(Lua[s])
    BY <2>1, ScriptAssumption
  <2>3. n \in Nat /\ n <= Len(Lua[s])
    BY <2>1, <2>2 DEF Running, RunState
  <2>4. /\ \A i \in 1..n : Passes(s, i)
        /\ r.wrote = Cardinality(WritesBefore(s, n))
        /\ Writes(s, FALSE) = 0
    BY Zenon DEF Running
  <2> QED BY <2>1, <2>2, <2>3, <2>4
<1> HIDE DEF s, n
<1>2. Cardinality(W) = 0
  BY <1>1 DEF Writes, Passes
<1>3. W \in SUBSET (1..Len(Lua[s]))
  BY <1>1
<1>4. W = {}
  BY <1>1, <1>2, <1>3, StepsFinite, FS_EmptySet
<1>5. WritesBefore(s, n) \subseteq W
  BY <1>1 DEF WritesBefore
<1>6. WritesBefore(s, n) = {}
  BY <1>4, <1>5
<1> QED BY <1>1, <1>6, FS_EmptySet DEF s

\* A call that is not refused.
LEMMA CallCounts ==
  ASSUME NEW r, Running(r), r.pc <= Len(Lua[r.script]), Passes(r.script, r.pc),
         NEW op, op = Lua[r.script][r.pc]
  PROVE  Running([r EXCEPT !.pc = @ + 1, !.slow = FALSE, !.random = @ \/ op = "random",
                           !.wrote = IF op = "incr" THEN @ + 1 ELSE @])
<1> DEFINE s == r.script
           n == r.pc
           w == IF op = "incr" THEN r.wrote + 1 ELSE r.wrote
           rnd == r.random \/ op = "random"
           q == [r EXCEPT !.pc = @ + 1, !.slow = FALSE, !.random = @ \/ op = "random",
                          !.wrote = IF op = "incr" THEN @ + 1 ELSE @]
<1>0. op = Lua[s][n]
  OBVIOUS
<1>1. /\ s \in Script /\ n \in Nat \ {0} /\ n <= Len(Lua[s]) /\ Len(Lua[s]) \in Nat
      /\ \A i \in 1..(n - 1) : Passes(s, i)
      /\ r.wrote = Cardinality(WritesBefore(s, n - 1)) /\ r.wrote \in Nat
  <2>1. s \in Script
    BY DEF Running, RunState
  <2>2. Len(Lua[s]) \in Nat
    BY <2>1, ScriptAssumption
  <2> QED BY <2>1, <2>2 DEF Running, RunState
<1>2. q = [r EXCEPT !.pc = n + 1, !.slow = FALSE, !.random = rnd, !.wrote = w]
  OBVIOUS
<1>3. w \in Nat /\ rnd \in BOOLEAN /\ n + 1 \in Nat \ {0}
  BY <1>1 DEF Running, RunState
<1>4. w = Cardinality(WritesBefore(s, n))
  <2>1. WritesBefore(s, n - 1) \in SUBSET (1..Len(Lua[s])) /\ n \notin WritesBefore(s, n - 1)
    BY <1>1 DEF WritesBefore
  <2>2. IsFiniteSet(WritesBefore(s, n - 1))
    BY <1>1, <2>1, StepsFinite
  <2>3. CASE op = "incr"
    <3>1. WritesBefore(s, n) = WritesBefore(s, n - 1) \cup {n}
      <4>1. \A i : i \in 1..n <=> i \in 1..(n - 1) \/ i = n
        BY <1>1
      <4>2. Lua[s][n] = "incr"
        BY <1>0, <2>3
      <4> HIDE DEF n
      <4> QED BY <4>1, <4>2, Zenon DEF WritesBefore
    <3>2. Cardinality(WritesBefore(s, n - 1) \cup {n}) = Cardinality(WritesBefore(s, n - 1)) + 1
      BY <2>1, <2>2, FS_AddElement
    <3> QED BY <1>1, <2>3, <3>1, <3>2
  <2>4. CASE op # "incr"
    <3>1. WritesBefore(s, n) = WritesBefore(s, n - 1)
      BY <1>0, <1>1, <2>4 DEF WritesBefore
    <3> QED BY <1>1, <2>4, <3>1
  <2> QED BY <2>3, <2>4
<1>5. Passes(s, n)
  OBVIOUS
<1>6. r \in RunState /\ (r.kill => Writes(s, FALSE) = 0)
  BY DEF Running
<1> HIDE DEF w, rnd, s, n
<1>7. /\ q \in RunState /\ q.script = r.script /\ q.pc = n + 1 /\ q.wrote = w /\ q.slow = FALSE /\ q.kill = r.kill
  BY <1>2, <1>3, <1>6 DEF RunState
<1> HIDE DEF q
<1>10. Running(q)
  <2>1. q.script = s /\ q.pc - 1 = n /\ q.pc <= Len(Lua[s]) + 1
    BY <1>1, <1>7 DEF s
  <2>2. \A i \in 1..(q.pc - 1) : Passes(q.script, i)
    BY <1>1, <1>5, <2>1
  <2>3. q.wrote = Cardinality(WritesBefore(q.script, q.pc - 1))
    BY <1>4, <1>7, <2>1
  <2>4. q.kill => Writes(q.script, FALSE) = 0
    BY <1>6, <1>7, <2>1
  <2>5. q \in RunState /\ ~q.slow
    BY <1>7
  <2> HIDE DEF q
  <2> QED BY <2>1, <2>2, <2>3, <2>4, <2>5 DEF Running
<1> QED BY <1>10 DEF q
-----------------------------------------------------------------------------
(* What a server makes of the stream *)

LEMMA ExecuteType ==
  ASSUME NEW ctx \in ServerState, NEW s \in Script
  PROVE  \A cmd \in {"LOAD", "EVAL", "EVALSHA"} : Execute(ctx, cmd, s) \in ServerState
<1>1. Writes(s, ctx.diskerr) \in Nat
  BY WritesType DEF ServerState
<1> DEFINE w == Writes(s, ctx.diskerr)
<1> HIDE DEF w
<1>2. w \in Nat
  BY <1>1 DEF w
<1> DEFINE data == ctx.data + w
           scripts == ctx.scripts \cup {s}
<1>3. data \in Nat /\ scripts \in SUBSET Script
  BY <1>2 DEF ServerState
<1>4. /\ [ctx EXCEPT !.scripts = @ \cup {s}, !.data = @ + w] = [ctx EXCEPT !.scripts = scripts, !.data = data]
      /\ [ctx EXCEPT !.data = @ + w] = [ctx EXCEPT !.data = data]
      /\ [ctx EXCEPT !.scripts = @ \cup {s}] = [ctx EXCEPT !.scripts = scripts]
  OBVIOUS
<1> HIDE DEF data, scripts
<1>5. [ctx EXCEPT !.scripts = scripts, !.data = data] \in ServerState
  BY <1>3 DEF ServerState
<1>6. [ctx EXCEPT !.data = data] \in ServerState
  BY <1>3 DEF ServerState
<1>7. [ctx EXCEPT !.scripts = scripts] \in ServerState
  BY <1>3 DEF ServerState
<1>8. [ctx EXCEPT !.missed = TRUE] \in ServerState
  BY DEF ServerState
<1> QED BY <1>4, <1>5, <1>6, <1>7, <1>8 DEF Execute, w

LEMMA EvalFollows ==
  ASSUME NEW ctx \in ServerState, NEW s \in Script, NEW cache \in Seq(Script), NEW data \in Nat,
         Follows(ctx, cache, data, Writes(s, FALSE))
  PROVE  /\ Follows(Execute(ctx, "EVAL", s), cache, data, 0)
         /\ Follows(Execute(ctx, "EVAL", s), replicationScriptCacheAdd(cache, s), data, 0)
<1> DEFINE w == Writes(s, ctx.diskerr)
           e == [ctx EXCEPT !.scripts = @ \cup {s}, !.data = @ + w]
<1>1. Execute(ctx, "EVAL", s) = e
  BY DEF Execute
<1>2. w \in Nat /\ (~ctx.diskerr => w = Writes(s, FALSE))
  BY WritesType DEF ServerState
<1> HIDE DEF w
<1>3. /\ e.phase = ctx.phase /\ e.scripts = ctx.scripts \cup {s} /\ e.data = ctx.data + w
      /\ e.missed = ctx.missed /\ e.diskerr = ctx.diskerr /\ ctx.data \in Nat
  BY DEF ServerState
<1> HIDE DEF e
<1>4. Live(ctx) /\ ~ctx.diskerr => ~ctx.missed /\ e.data + 0 = data
  <2>1. Live(ctx) /\ ~ctx.diskerr => ~ctx.missed /\ ctx.data + w = data
    BY <1>2, Zenon DEF Follows
  <2>2. ctx.data + w = data => e.data + 0 = data
    BY <1>2, <1>3
  <2> QED BY <2>1, <2>2, Zenon
<1>5. (Live(e) <=> Live(ctx)) /\ (Live(ctx) => \A i \in 1..Len(cache) : cache[i] \in ctx.scripts)
      /\ (Live(ctx) => (ctx.phase = "wait_end" => ~ctx.diskerr))
  BY <1>3, Zenon DEF Live, Follows
<1>6. Follows(e, cache, data, 0)
  BY <1>3, <1>4, <1>5, Zenon DEF Follows
<1>7. \A i \in 1..Len(replicationScriptCacheAdd(cache, s)) :
        \/ replicationScriptCacheAdd(cache, s)[i] = s
        \/ \E j \in 1..Len(cache) : replicationScriptCacheAdd(cache, s)[i] = cache[j]
  <2>1. CASE Len(cache) = CacheSize
    <3>1. Len(cache) \in Nat \ {0} /\ replicationScriptCacheAdd(cache, s) = <<s>> \o SubSeq(cache, 1, Len(cache) - 1)
      BY <2>1, ScriptAssumption DEF replicationScriptCacheAdd, Front
    <3> DEFINE rest == SubSeq(cache, 1, Len(cache) - 1)
    <3>2. rest \in Seq(Script) /\ Len(rest) = Len(cache) - 1 /\ \A j \in 1..(Len(cache) - 1) : rest[j] = cache[j]
      BY <3>1
    <3> HIDE DEF rest
    <3>3. /\ Len(<<s>> \o rest) = 1 + Len(rest) /\ (<<s>> \o rest)[1] = s
          /\ \A i \in 2..(1 + Len(rest)) : (<<s>> \o rest)[i] = rest[i - 1]
      BY <3>2
    <3> QED BY <3>1, <3>2, <3>3 DEF rest
  <2>2. CASE Len(cache) # CacheSize
    <3>1. replicationScriptCacheAdd(cache, s) = <<s>> \o cache
      BY <2>2 DEF replicationScriptCacheAdd
    <3>2. /\ Len(<<s>> \o cache) = 1 + Len(cache) /\ (<<s>> \o cache)[1] = s
          /\ \A i \in 2..(1 + Len(cache)) : (<<s>> \o cache)[i] = cache[i - 1]
      OBVIOUS
    <3> QED BY <3>1, <3>2
  <2> QED BY <2>1, <2>2
<1>8. Follows(e, replicationScriptCacheAdd(cache, s), data, 0)
  <2>1. Live(ctx) => \A i \in 1..Len(replicationScriptCacheAdd(cache, s)) :
                       replicationScriptCacheAdd(cache, s)[i] \in e.scripts
    BY <1>3, <1>5, <1>7
  <2> QED BY <1>3, <1>4, <1>5, <2>1, Zenon DEF Follows
<1> QED BY <1>1, <1>6, <1>8

LEMMA EvalshaFollows ==
  ASSUME NEW ctx \in ServerState, NEW s \in Script, NEW cache \in Seq(Script), NEW data \in Nat,
         Follows(ctx, cache, data, Writes(s, FALSE)), replicationScriptCacheExists(cache, s)
  PROVE  Follows(Execute(ctx, "EVALSHA", s), cache, data, 0)
<1> DEFINE w == Writes(s, ctx.diskerr)
           e == [ctx EXCEPT !.data = @ + w]
<1>1. w \in Nat /\ (~ctx.diskerr => w = Writes(s, FALSE))
  BY WritesType DEF ServerState
<1>2. CASE Live(ctx)
  <2>1. s \in ctx.scripts
    BY <1>2 DEF Follows, replicationScriptCacheExists, Contains
  <2>2. Execute(ctx, "EVALSHA", s) = e
    BY <2>1 DEF Execute
  <2> HIDE DEF w
  <2>3. /\ e.phase = ctx.phase /\ e.scripts = ctx.scripts /\ e.data = ctx.data + w
        /\ e.missed = ctx.missed /\ e.diskerr = ctx.diskerr /\ ctx.data \in Nat
    BY DEF ServerState
  <2> HIDE DEF e
  <2>4. Live(ctx) /\ ~ctx.diskerr => ~ctx.missed /\ e.data + 0 = data
    <3>1. Live(ctx) /\ ~ctx.diskerr => ~ctx.missed /\ ctx.data + w = data
      BY <1>1, Zenon DEF Follows
    <3>2. ctx.data + w = data => e.data + 0 = data
      BY <1>1, <2>3
    <3> QED BY <3>1, <3>2, Zenon
  <2>5. Follows(e, cache, data, 0)
    BY <2>3, <2>4, Zenon DEF Follows, Live
  <2> QED BY <2>2, <2>5
<1>3. CASE ~Live(ctx)
  <2>1. Execute(ctx, "EVALSHA", s).phase = ctx.phase
    BY DEF Execute, ServerState
  <2> QED BY <1>3, <2>1 DEF Follows, Live
<1> QED BY <1>2, <1>3

LEMMA LoadFollows ==
  ASSUME NEW ctx \in ServerState, NEW s \in Script, NEW cache \in Seq(Script), NEW data \in Nat, NEW wrote \in Nat,
         Follows(ctx, cache, data, wrote)
  PROVE  Follows(Execute(ctx, "LOAD", s), cache, data, wrote)
BY DEF Follows, Live, Execute, ServerState

LEMMA FlushFollows ==
  ASSUME NEW ctx \in ServerState, NEW cache \in Seq(Script), NEW data \in Nat, NEW wrote \in Nat,
         Follows(ctx, cache, data, wrote)
  PROVE  Follows(Execute(ctx, "FLUSH", ""), << >>, data, wrote)
BY DEF Follows, Live, Execute, ServerState

\* Whoever follows still does after the master's cache was flushed.
LEMMA CacheFlushed ==
  ASSUME NEW ctx, NEW cache, NEW data, NEW wrote, Follows(ctx, cache, data, wrote)
  PROVE  Follows(ctx, << >>, data, wrote)
BY DEF Follows

\* The effect of propagate() on the types, and on each server that is sent the command.
LEMMA PropagateReaches ==
  ASSUME ScriptTypes, NEW cmd \in {"LOAD", "EVAL", "EVALSHA", "FLUSH"}, NEW s,
         cmd = "FLUSH" => s = "", cmd # "FLUSH" => s \in Script, propagate(cmd, s)
  PROVE  /\ follower' \in [Follower -> ServerState]
         /\ aof' \in [file : ServerState, rewrite : ServerState]
         /\ \A f \in Follower : \/ ~Live(follower[f]) /\ follower'[f] = follower[f]
                               \/ follower'[f] = Execute(follower[f], cmd, s)
         /\ \A k \in {"file", "rewrite"} :
              (aof[k].phase = "off" /\ aof'[k] = aof[k]) \/ aof'[k] = Execute(aof[k], cmd, s)
<1>1. ASSUME NEW ctx \in ServerState PROVE Execute(ctx, cmd, s) \in ServerState
  <2>1. CASE cmd = "FLUSH"
    <3>1. cmd = "FLUSH" /\ s = ""
      BY <2>1
    <3>2. [ctx EXCEPT !.scripts = {}] \in ServerState
      BY DEF ServerState
    <3> QED BY <3>1, <3>2 DEF Execute
  <2>2. CASE cmd # "FLUSH"
    <3>1. s \in Script /\ cmd \in {"LOAD", "EVAL", "EVALSHA"}
      BY <2>2
    <3> QED BY <3>1, ExecuteType, Zenon
  <2> QED BY <2>1, <2>2
<1>2. \A f \in Follower : follower[f] \in ServerState
  BY DEF ScriptTypes
<1>3. aof.file \in ServerState /\ aof.rewrite \in ServerState /\ DOMAIN aof = {"file", "rewrite"}
  BY DEF ScriptTypes
<1>4. \A f \in Follower : \/ ~Live(follower[f]) /\ follower'[f] = follower[f]
                         \/ follower'[f] = Execute(follower[f], cmd, s)
  BY DEF propagate, Live
<1>5. follower' \in [Follower -> ServerState]
  BY <1>1, <1>2 DEF propagate
<1>6. \A k \in {"file", "rewrite"} :
        (aof[k].phase = "off" /\ aof'[k] = aof[k]) \/ aof'[k] = Execute(aof[k], cmd, s)
  BY <1>3 DEF propagate
<1>7. aof' = [file |-> aof'["file"], rewrite |-> aof'["rewrite"]]
  BY <1>3 DEF propagate
<1>8. aof'["file"] \in ServerState /\ aof'["rewrite"] \in ServerState
  BY <1>1, <1>3, <1>6
<1>9. aof' \in [file : ServerState, rewrite : ServerState]
  BY <1>7, <1>8
<1> QED BY <1>4, <1>5, <1>6, <1>9

-----------------------------------------------------------------------------
(* The steps *)

LEMMA ScriptInitInv == ScriptInit => ScriptInv
<1> SUFFICES ASSUME ScriptInit PROVE ScriptInv
  OBVIOUS
<1>1. Off \in ServerState /\ Context("on", 0) \in ServerState
  BY DEF Off, Context, ServerState
<1>2. ScriptTypes
  <2>1. master \in MasterState
    BY DEF ScriptInit, MasterState
  <2>2. follower \in [Follower -> ServerState] /\ aof \in [file : ServerState, rewrite : ServerState]
    BY <1>1 DEF ScriptInit
  <2> QED BY <2>1, <2>2 DEF ScriptInit, ScriptTypes
<1>3. Follows(Off, << >>, 0, 0) /\ Follows(Context("on", 0), << >>, 0, 0)
  BY DEF Off, Context, Follows, Live
<1>4. master.cache = << >> /\ master.data = 0 /\ run.wrote = 0
  BY DEF ScriptInit, Idle
<1> QED BY <1>2, <1>3, <1>4 DEF ScriptInit, ScriptInv

\* The fields of the invariant, for the steps below.
LEMMA InvParts ==
  ASSUME ScriptInv
  PROVE  /\ master \in MasterState /\ master.cache \in Seq(Script) /\ master.data \in Nat /\ master.scripts \in SUBSET Script
         /\ follower \in [Follower -> ServerState] /\ \A f \in Follower : follower[f] \in ServerState
         /\ aof \in [file : ServerState, rewrite : ServerState]
         /\ aof.file \in ServerState /\ aof.rewrite \in ServerState /\ aof = [file |-> aof.file, rewrite |-> aof.rewrite]
         /\ run.wrote \in Nat
<1>1. run = Idle \/ run \in RunState
  BY DEF ScriptInv, ScriptTypes, Running
<1>2. run.wrote \in Nat
  <2>1. Idle.wrote = 0 /\ \A r \in RunState : r.wrote \in Nat
    BY DEF Idle, RunState
  <2> QED BY <1>1, <2>1
<1> QED BY <1>2 DEF ScriptInv, ScriptTypes, MasterState

LEMMA FlushCache ==
  ASSUME NEW m \in MasterState
  PROVE  /\ replicationScriptCacheFlush(m) \in MasterState
         /\ replicationScriptCacheFlush(m).cache = << >> /\ replicationScriptCacheFlush(m).data = m.data
<1>1. << >> \in Seq(Script)
  OBVIOUS
<1> DEFINE e == << >>
<1>2. e \in Seq(Script) /\ replicationScriptCacheFlush(m) = [m EXCEPT !.cache = e]
  BY <1>1 DEF replicationScriptCacheFlush
<1> HIDE DEF e
<1>3. /\ replicationScriptCacheFlush(m) \in MasterState
      /\ replicationScriptCacheFlush(m).cache = e /\ replicationScriptCacheFlush(m).data = m.data
  BY <1>2 DEF MasterState
<1> QED BY <1>3 DEF e

LEMMA BeginsInv ==
  ASSUME ScriptInv, NEW s \in Script, NEW sha \in BOOLEAN, evalGenericCommand(s, sha)
  PROVE  ScriptInv'
<1>1. /\ master' = [master EXCEPT !.scripts = @ \cup {s}] /\ run' = [Idle EXCEPT !.script = s, !.sha = sha, !.pc = 1]
      /\ follower' = follower /\ aof' = aof /\ run = Idle
  BY DEF evalGenericCommand, luaCreateFunction, NotBusy
<1>2. /\ master' \in MasterState /\ master'.cache = master.cache /\ master'.data = master.data
  BY <1>1, InvParts DEF MasterState
<1>3. run' = [script |-> s, sha |-> sha, pc |-> 1, wrote |-> 0, random |-> FALSE, slow |-> FALSE, kill |-> FALSE]
  BY <1>1 DEF Idle
<1>4. Running(run')
  <2>1. /\ run' \in RunState /\ run'.script = s /\ run'.pc = 1 /\ run'.wrote = 0 /\ run'.slow = FALSE /\ run'.kill = FALSE
    BY <1>3 DEF RunState
  <2>2. Len(Lua[s]) \in Nat
    BY ScriptAssumption
  <2>3. WritesBefore(s, run'.pc - 1) = {}
    BY <2>1 DEF WritesBefore
  <2>4. run'.wrote = Cardinality(WritesBefore(run'.script, run'.pc - 1))
    BY <2>1, <2>3, FS_EmptySet
  <2>5. run'.pc <= Len(Lua[run'.script]) + 1 /\ \A i \in 1..(run'.pc - 1) : Passes(run'.script, i)
    BY <2>1, <2>2
  <2> QED BY <2>1, <2>4, <2>5 DEF Running
<1>5. ScriptTypes'
  BY <1>1, <1>2, <1>4, InvParts DEF ScriptTypes
<1>6. run'.wrote = 0 /\ run.wrote = 0
  BY <1>1, <1>3 DEF Idle
<1> QED BY <1>1, <1>2, <1>5, <1>6 DEF ScriptInv

LEMMA EndsInv ==
  ASSUME ScriptInv, Running(run), ScriptEnds, run.wrote = Writes(run.script, FALSE)
  PROVE  ScriptInv'
<1> DEFINE s == run.script
           cache == master.cache
           data == master.data
<1>1. /\ s \in Script /\ cache \in Seq(Script) /\ data \in Nat /\ run' = Idle /\ run'.wrote = 0
      /\ master \in MasterState
  BY InvParts DEF Running, RunState, ScriptEnds, Idle
<1>2. /\ \A f \in Follower : follower[f] \in ServerState /\ Follows(follower[f], cache, data, Writes(s, FALSE))
      /\ \A k \in {"file", "rewrite"} : aof[k] \in ServerState /\ Follows(aof[k], cache, data, Writes(s, FALSE))
  BY InvParts DEF ScriptInv
<1>3. ASSUME NEW ctx, ~Live(ctx), NEW c PROVE Follows(ctx, c, data, 0)
  BY <1>3 DEF Follows
<1>4. ASSUME NEW ctx, ctx.phase = "off" PROVE ~Live(ctx)
  BY <1>4 DEF Live
<1>5. CASE run.sha /\ ~replicationScriptCacheExists(cache, s)
  <2>1. /\ master' = [master EXCEPT !.cache = replicationScriptCacheAdd(@, s)] /\ propagate("EVAL", s)
    BY <1>5 DEF ScriptEnds
  <2>2. replicationScriptCacheAdd(cache, s) \in Seq(Script)
    <3>1. CASE Len(cache) = CacheSize
      <4>1. Len(cache) \in Nat \ {0}
        BY <1>1, <3>1, ScriptAssumption
      <4>2. SubSeq(cache, 1, Len(cache) - 1) \in Seq(Script)
        BY <1>1, <4>1
      <4> QED BY <1>1, <3>1, <4>2 DEF replicationScriptCacheAdd, Front
    <3>2. CASE Len(cache) # CacheSize
      BY <1>1, <3>2 DEF replicationScriptCacheAdd
    <3> QED BY <3>1, <3>2
  <2> DEFINE added == replicationScriptCacheAdd(cache, s)
  <2>3. master' = [master EXCEPT !.cache = added] /\ added \in Seq(Script)
    BY <2>1, <2>2
  <2> HIDE DEF added
  <2>4. master' \in MasterState /\ master'.cache = added /\ master'.data = data
    BY <1>1, <2>3 DEF MasterState
  <2>5. \A ctx \in ServerState : Follows(ctx, cache, data, Writes(s, FALSE)) => Follows(Execute(ctx, "EVAL", s), added, data, 0)
    BY <1>1, EvalFollows DEF added
  <2>6. /\ follower' \in [Follower -> ServerState]
        /\ aof' \in [file : ServerState, rewrite : ServerState]
        /\ \A f \in Follower : \/ ~Live(follower[f]) /\ follower'[f] = follower[f]
                              \/ follower'[f] = Execute(follower[f], "EVAL", s)
        /\ \A k \in {"file", "rewrite"} :
              (aof[k].phase = "off" /\ aof'[k] = aof[k]) \/ aof'[k] = Execute(aof[k], "EVAL", s)
    <3>1. ScriptTypes
      BY DEF ScriptInv
    <3> QED BY <1>1, <2>1, <3>1, PropagateReaches
  <2>7. \A f \in Follower : Follows(follower'[f], added, data, 0)
    BY <1>2, <1>3, <2>5, <2>6
  <2>8. \A k \in {"file", "rewrite"} : Follows(aof'[k], added, data, 0)
    BY <1>2, <1>3, <1>4, <2>5, <2>6
  <2> QED BY <1>1, <2>4, <2>6, <2>7, <2>8 DEF ScriptInv, ScriptTypes
<1>6. CASE ~(run.sha /\ ~replicationScriptCacheExists(cache, s)) /\ run.wrote = 0
  <2>1. master' = master /\ follower' = follower /\ aof' = aof
    BY <1>6 DEF ScriptEnds
  <2>2. run'.wrote = run.wrote
    BY <1>1, <1>6
  <2>3. ScriptTypes'
    BY <1>1, <2>1 DEF ScriptInv, ScriptTypes
  <2> QED BY <2>1, <2>2, <2>3 DEF ScriptInv
<1>7. CASE ~(run.sha /\ ~replicationScriptCacheExists(cache, s)) /\ run.wrote # 0
  <2> DEFINE cmd == IF run.sha THEN "EVALSHA" ELSE "EVAL"
  <2>1. master' = master /\ propagate(cmd, s)
    BY <1>7 DEF ScriptEnds
  <2>2. \A ctx \in ServerState : Follows(ctx, cache, data, Writes(s, FALSE)) => Follows(Execute(ctx, cmd, s), cache, data, 0)
    BY <1>1, <1>7, EvalFollows, EvalshaFollows
  <2>3. cmd \in {"LOAD", "EVAL", "EVALSHA", "FLUSH"} /\ cmd # "FLUSH"
    OBVIOUS
  <2> HIDE DEF cmd
  <2>4. /\ follower' \in [Follower -> ServerState]
        /\ aof' \in [file : ServerState, rewrite : ServerState]
        /\ \A f \in Follower : \/ ~Live(follower[f]) /\ follower'[f] = follower[f]
                              \/ follower'[f] = Execute(follower[f], cmd, s)
        /\ \A k \in {"file", "rewrite"} :
              (aof[k].phase = "off" /\ aof'[k] = aof[k]) \/ aof'[k] = Execute(aof[k], cmd, s)
    <3>1. ScriptTypes
      BY DEF ScriptInv
    <3> QED BY <1>1, <2>1, <2>3, <3>1, PropagateReaches
  <2>5. \A f \in Follower : Follows(follower'[f], cache, data, 0)
    BY <1>2, <1>3, <2>2, <2>4
  <2>6. \A k \in {"file", "rewrite"} : Follows(aof'[k], cache, data, 0)
    BY <1>2, <1>3, <1>4, <2>2, <2>4
  <2> QED BY <1>1, <2>1, <2>4, <2>5, <2>6 DEF ScriptInv, ScriptTypes
<1> QED BY <1>5, <1>6, <1>7

LEMMA LuaInv == ASSUME SameEverywhere, ScriptInv, LuaStep PROVE ScriptInv'
<1> DEFINE s == run.script
           body == Lua[s]
<1>1. Running(run)
  BY DEF LuaStep, ScriptInv, ScriptTypes
<1>2. s \in Script /\ run.pc \in Nat \ {0} /\ Len(body) \in Nat /\ master \in MasterState /\ master.diskerr = FALSE
  <2>1. s \in Script /\ run.pc \in Nat \ {0}
    BY <1>1 DEF Running, RunState
  <2>2. master \in MasterState /\ master.diskerr = FALSE
    BY InvParts DEF MasterState
  <2> QED BY <2>1, <2>2, ScriptAssumption
<1>3. Stops(body, run.pc, master.diskerr) <=> ~Passes(s, run.pc)
  BY <1>2 DEF Passes
<1>4. CASE run.pc > Len(body) /\ ScriptEnds
  BY <1>1, <1>4, EndsWith, EndsInv
<1>5. CASE Stops(body, run.pc, master.diskerr) /\ ScriptEnds
  BY <1>1, <1>3, <1>5, EndsWith, EndsInv
<1>6. CASE run.kill /\ ScriptEnds
  BY <1>1, <1>6, KilledWroteNothing, EndsInv
<1>7. CASE /\ run.pc <= Len(body)
           /\ ~Stops(body, run.pc, master.diskerr)
           /\ luaRedisGenericCommand(body[run.pc])
  <2> DEFINE op == body[run.pc]
             d == IF op = "incr" THEN master.data + 1 ELSE master.data
             w == IF op = "incr" THEN run.wrote + 1 ELSE run.wrote
  <2>1. Running(run')
    BY <1>1, <1>3, <1>7, CallCounts DEF luaRedisGenericCommand
  <2>2. master' = [master EXCEPT !.data = d] /\ follower' = follower /\ aof' = aof
    BY <1>7 DEF luaRedisGenericCommand
  <2>3. run'.wrote = w /\ run.wrote \in Nat /\ master.data \in Nat
    BY <1>1, <1>7, InvParts DEF luaRedisGenericCommand, Running, RunState
  <2>4. d \in Nat /\ d - w = master.data - run.wrote /\ w \in Nat
    BY <2>3
  <2> HIDE DEF d, w, op
  <2>5. master' \in MasterState /\ master'.data = d /\ master'.cache = master.cache
    BY <2>2, <2>4, InvParts DEF MasterState
  <2>6. ASSUME NEW ctx \in ServerState, Follows(ctx, master.cache, master.data, run.wrote)
        PROVE  Follows(ctx, master.cache, d, w)
    <3>1. ctx.data \in Nat
      BY DEF ServerState
    <3>2. ctx.data + run.wrote = master.data => ctx.data + w = d
      BY <2>3, <2>4, <3>1
    <3> QED BY <2>6, <3>2, Zenon DEF Follows
  <2>7. ScriptTypes'
    BY <2>1, <2>2, <2>5, InvParts DEF ScriptTypes
  <2>8. /\ \A f \in Follower : Follows(follower[f], master.cache, d, w)
        /\ Follows(aof.file, master.cache, d, w) /\ Follows(aof.rewrite, master.cache, d, w)
    BY <2>6, InvParts DEF ScriptInv
  <2> QED BY <2>2, <2>3, <2>5, <2>7, <2>8 DEF ScriptInv
<1> QED BY <1>4, <1>5, <1>6, <1>7, Zenon DEF LuaStep

\* The hook and SCRIPT KILL: it is obeyed by a script that has written nothing so far and
\* that writes nothing.
LEMMA HookInv == ASSUME SameEverywhere, ScriptInv, luaMaskCountHook \/ scriptKill PROVE ScriptInv'
<1>1. master' = master /\ follower' = follower /\ aof' = aof
  BY DEF luaMaskCountHook, scriptKill
<1>2. run # Idle
  <2>1. Idle.slow = FALSE
    BY DEF Idle
  <2> QED BY <2>1 DEF luaMaskCountHook, scriptKill
<1>3. Running(run)
  BY <1>2 DEF ScriptInv, ScriptTypes
<1>4. Running(run') /\ run'.wrote = run.wrote
  <2>1. CASE luaMaskCountHook
    <3>1. run' = [run EXCEPT !.slow = TRUE] /\ run.pc <= Len(Lua[run.script]) /\ Lua[run.script][run.pc] \in {"loop", "pcall"}
      BY <2>1 DEF luaMaskCountHook
    <3>2. /\ run' \in RunState /\ run'.script = run.script /\ run'.pc = run.pc /\ run'.wrote = run.wrote
          /\ run'.kill = run.kill
      BY <1>3, <3>1 DEF Running, RunState
    <3> QED BY <1>3, <3>1, <3>2, Zenon DEF Running
  <2>2. CASE scriptKill
    <3>1. run' = [run EXCEPT !.kill = TRUE] /\ run.wrote = 0 /\ run.slow
      BY <2>2 DEF scriptKill
    <3>2. /\ run' \in RunState /\ run'.script = run.script /\ run'.pc = run.pc /\ run'.wrote = run.wrote
          /\ run'.slow = run.slow
      BY <1>3, <3>1 DEF Running, RunState
    <3>3. Writes(run.script, FALSE) = 0
      <4> DEFINE s == run.script
                 n == run.pc
      <4>1. /\ s \in Script /\ n \in Nat \ {0} /\ n <= Len(Lua[s]) /\ Lua[s][n] \in {"loop", "pcall"}
            /\ Cardinality(WritesBefore(s, n - 1)) = 0
        BY <1>3, <3>1 DEF Running, RunState
      <4>2. Len(Lua[s]) \in Nat /\ DOMAIN Lua[s] = 1..Len(Lua[s])
        BY <4>1, ScriptAssumption
      <4> HIDE DEF s, n
      <4>3. WritesBefore(s, n - 1) \in SUBSET (1..Len(Lua[s]))
        BY <4>1, <4>2 DEF WritesBefore
      <4>4. WritesBefore(s, n - 1) = {}
        BY <4>1, <4>3, StepsFinite, FS_EmptySet
      <4>5. n \in DOMAIN Lua[s] /\ \A j \in 1..(n - 1) : Lua[s][j] # "incr"
        BY <4>1, <4>2, <4>4 DEF WritesBefore
      <4>6. Writes(s, FALSE) = 0
        BY <4>1, <4>5, Zenon DEF SameEverywhere
      <4> QED BY <4>6 DEF s
    <3> QED BY <1>3, <3>1, <3>2, <3>3, Zenon DEF Running
  <2> QED BY <2>1, <2>2
<1>5. ScriptTypes'
  BY <1>1, <1>4 DEF ScriptInv, ScriptTypes
<1> QED BY <1>1, <1>4, <1>5 DEF ScriptInv

LEMMA LoadInv == ASSUME ScriptInv, NEW s \in Script, scriptLoad(s) PROVE ScriptInv'
<1>1. master' = [master EXCEPT !.scripts = @ \cup {s}] /\ propagate("LOAD", s) /\ run' = run
  BY DEF scriptLoad, luaCreateFunction
<1>2. master' \in MasterState /\ master'.cache = master.cache /\ master'.data = master.data
  BY <1>1, InvParts DEF MasterState
<1>3. /\ follower' \in [Follower -> ServerState]
      /\ aof' \in [file : ServerState, rewrite : ServerState]
      /\ \A f \in Follower : \/ ~Live(follower[f]) /\ follower'[f] = follower[f]
                            \/ follower'[f] = Execute(follower[f], "LOAD", s)
      /\ \A k \in {"file", "rewrite"} :
            (aof[k].phase = "off" /\ aof'[k] = aof[k]) \/ aof'[k] = Execute(aof[k], "LOAD", s)
  <2>1. ScriptTypes
    BY DEF ScriptInv
  <2> QED BY <1>1, <2>1, PropagateReaches
<1>4. \A ctx \in ServerState : Follows(ctx, master.cache, master.data, run.wrote)
                                => Follows(Execute(ctx, "LOAD", s), master.cache, master.data, run.wrote)
  BY InvParts, LoadFollows
<1>5. \A f \in Follower : Follows(follower'[f], master.cache, master.data, run.wrote)
  BY <1>3, <1>4, InvParts DEF ScriptInv
<1>6. \A k \in {"file", "rewrite"} : Follows(aof'[k], master.cache, master.data, run.wrote)
  <2>1. \A k \in {"file", "rewrite"} : aof[k] \in ServerState /\ Follows(aof[k], master.cache, master.data, run.wrote)
    BY InvParts DEF ScriptInv
  <2> QED BY <1>3, <1>4, <2>1
<1>7. ScriptTypes'
  BY <1>1, <1>2, <1>3 DEF ScriptInv, ScriptTypes
<1> QED BY <1>1, <1>2, <1>5, <1>6, <1>7 DEF ScriptInv

LEMMA FlushInv == ASSUME ScriptInv, scriptFlush PROVE ScriptInv'
<1>1. /\ master' = [[master EXCEPT !.scripts = {}] EXCEPT !.cache = << >>]
      /\ propagate("FLUSH", "") /\ run' = run
  BY DEF scriptFlush, scriptingReset, replicationScriptCacheFlush
<1>2. master' \in MasterState /\ master'.cache = << >> /\ master'.data = master.data
  <2> DEFINE m == [master EXCEPT !.scripts = {}]
  <2>1. m \in MasterState /\ m.data = master.data /\ master' = replicationScriptCacheFlush(m)
    BY <1>1, InvParts DEF MasterState, replicationScriptCacheFlush
  <2> HIDE DEF m
  <2> QED BY <2>1, FlushCache
<1>3. /\ follower' \in [Follower -> ServerState]
      /\ aof' \in [file : ServerState, rewrite : ServerState]
      /\ \A f \in Follower : \/ ~Live(follower[f]) /\ follower'[f] = follower[f]
                            \/ follower'[f] = Execute(follower[f], "FLUSH", "")
      /\ \A k \in {"file", "rewrite"} :
            (aof[k].phase = "off" /\ aof'[k] = aof[k]) \/ aof'[k] = Execute(aof[k], "FLUSH", "")
  <2>1. ScriptTypes
    BY DEF ScriptInv
  <2> QED BY <1>1, <2>1, PropagateReaches
<1>4. \A ctx \in ServerState : Follows(ctx, master.cache, master.data, run.wrote)
        => /\ Follows(Execute(ctx, "FLUSH", ""), << >>, master.data, run.wrote)
           /\ Follows(ctx, << >>, master.data, run.wrote)
  BY InvParts, FlushFollows, CacheFlushed
<1>5. \A f \in Follower : Follows(follower'[f], << >>, master.data, run.wrote)
  BY <1>3, <1>4, InvParts DEF ScriptInv
<1>6. \A k \in {"file", "rewrite"} : Follows(aof'[k], << >>, master.data, run.wrote)
  <2>1. \A k \in {"file", "rewrite"} : aof[k] \in ServerState /\ Follows(aof[k], master.cache, master.data, run.wrote)
    BY InvParts DEF ScriptInv
  <2> QED BY <1>3, <1>4, <2>1
<1>7. ScriptTypes'
  BY <1>1, <1>2, <1>3 DEF ScriptInv, ScriptTypes
<1> QED BY <1>1, <1>2, <1>5, <1>6, <1>7 DEF ScriptInv

\* A server that has the master's data now, when the cache is empty.
LEMMA NewFollows ==
  ASSUME NEW phase \in {"off", "wait_start", "wait_end", "on"}, NEW data \in Nat
  PROVE  /\ Context(phase, data) \in ServerState
         /\ Follows(Context(phase, data), << >>, data, 0)
         /\ phase \in {"off", "wait_start"} => \A c, d, w : Follows(Context(phase, data), c, d, w)
BY DEF Context, ServerState, Follows, Live

LEMMA OffFollows == Off \in ServerState /\ \A c, d, w : Follows(Off, c, d, w)
BY NewFollows DEF Off

LEMMA SyncInv == ASSUME ScriptInv, NEW f \in Follower, syncCommand(f) PROVE ScriptInv'
<1>1. run = Idle /\ run' = run /\ aof' = aof /\ run.wrote = 0
  BY DEF syncCommand, NotBusy, Idle
<1>2. CASE Saving /\ \E g \in Follower : /\ follower[g].phase = "wait_end"
                                       /\ follower' = [follower EXCEPT ![f] = [follower[g] EXCEPT !.diskerr = FALSE]]
  <2>1. PICK g \in Follower : /\ follower[g].phase = "wait_end"
                             /\ follower' = [follower EXCEPT ![f] = [follower[g] EXCEPT !.diskerr = FALSE]]
    BY <1>2
  <2> DEFINE new == [follower[g] EXCEPT !.diskerr = FALSE]
  <2>2. follower[g] \in ServerState /\ ~follower[g].diskerr
    BY <2>1, InvParts, Zenon DEF ScriptInv, Follows, Live
  <2>3. follower[g].diskerr = FALSE
    BY <2>2 DEF ServerState
  <2>4. new = follower[g]
    BY <2>2, <2>3 DEF ServerState
  <2>5. follower' = [follower EXCEPT ![f] = follower[g]]
    BY <2>1, <2>4
  <2>6. follower' \in [Follower -> ServerState] /\ \A h \in Follower : follower'[h] = follower[h] \/ follower'[h] = follower[g]
    BY <2>5, InvParts
  <2>7. master' = master
    BY <1>2 DEF syncCommand
  <2>8. ScriptTypes'
    BY <1>1, <2>6, <2>7 DEF ScriptInv, ScriptTypes
  <2>9. \A h \in Follower : Follows(follower'[h], master.cache, master.data, run.wrote)
    BY <2>6 DEF ScriptInv
  <2> QED BY <1>1, <2>7, <2>8, <2>9 DEF ScriptInv
<1>3. CASE Saving /\ follower' = [follower EXCEPT ![f] = Context("wait_start", 0)]
  <2>1. /\ Context("wait_start", 0) \in ServerState
        /\ Follows(Context("wait_start", 0), master.cache, master.data, run.wrote)
    BY NewFollows
  <2>2. /\ follower' \in [Follower -> ServerState]
        /\ \A h \in Follower : follower'[h] = follower[h] \/ follower'[h] = Context("wait_start", 0)
    BY <1>3, <2>1, InvParts
  <2>3. master' = master
    BY <1>3 DEF syncCommand
  <2>4. ScriptTypes'
    BY <1>1, <2>2, <2>3 DEF ScriptInv, ScriptTypes
  <2>5. \A h \in Follower : Follows(follower'[h], master.cache, master.data, run.wrote)
    BY <2>1, <2>2 DEF ScriptInv
  <2> QED BY <1>1, <2>3, <2>4, <2>5 DEF ScriptInv
<1>4. CASE ~Saving
  <2> DEFINE new == Context("wait_end", master.data)
  <2>1. /\ follower' = [follower EXCEPT ![f] = new]
        /\ master' = [[master EXCEPT !.child = TRUE] EXCEPT !.cache = << >>]
    BY <1>4 DEF syncCommand, replicationScriptCacheFlush
  <2>2. master' \in MasterState /\ master'.cache = << >> /\ master'.data = master.data
    <3> DEFINE m == [master EXCEPT !.child = TRUE]
    <3>1. m \in MasterState /\ m.data = master.data /\ master' = replicationScriptCacheFlush(m)
      BY <2>1, InvParts DEF MasterState, replicationScriptCacheFlush
    <3> HIDE DEF m
    <3> QED BY <3>1, FlushCache
  <2>3. new \in ServerState /\ Follows(new, << >>, master.data, run.wrote)
    BY <1>1, NewFollows, InvParts
  <2> HIDE DEF new
  <2>4. follower' \in [Follower -> ServerState] /\ \A h \in Follower : follower'[h] = follower[h] \/ follower'[h] = new
    BY <2>1, <2>3, InvParts
  <2>5. \A h \in Follower : Follows(follower'[h], << >>, master.data, run.wrote)
    BY <2>3, <2>4, CacheFlushed DEF ScriptInv
  <2>6. Follows(aof.file, << >>, master.data, run.wrote) /\ Follows(aof.rewrite, << >>, master.data, run.wrote)
    BY CacheFlushed DEF ScriptInv
  <2>7. ScriptTypes'
    BY <1>1, <2>2, <2>4 DEF ScriptInv, ScriptTypes
  <2> QED BY <1>1, <2>2, <2>5, <2>6, <2>7 DEF ScriptInv
<1> QED BY <1>2, <1>3, <1>4 DEF syncCommand

LEMMA SavedInv == ASSUME SameEverywhere, ScriptInv, updateSlavesWaitingBgsave PROVE ScriptInv'
<1> DEFINE waiting == {f \in Follower : follower[f].phase = "wait_start"}
           new == Context("wait_end", master.data)
           child == waiting # {}
<1>1. PICK ok \in BOOLEAN :
        /\ follower' = [f \in Follower |->
             CASE f \in waiting -> new
               [] follower[f].phase = "wait_end" -> IF ok THEN [follower[f] EXCEPT !.phase = "on"] ELSE Off
               [] OTHER -> follower[f]]
        /\ master' = IF child
                     THEN replicationScriptCacheFlush([master EXCEPT !.child = child, !.diskerr = ~ok /\ MasterServer \in SavePoints])
                     ELSE [master EXCEPT !.child = child, !.diskerr = ~ok /\ MasterServer \in SavePoints]
  BY DEF updateSlavesWaitingBgsave
<1>2. run = Idle /\ run' = run /\ aof' = aof /\ run.wrote = 0
  BY DEF updateSlavesWaitingBgsave, NotBusy, Idle
<1> DEFINE saved == [master EXCEPT !.child = child, !.diskerr = FALSE]
<1>3. saved = [master EXCEPT !.child = child, !.diskerr = ~ok /\ MasterServer \in SavePoints] /\ child \in BOOLEAN
  BY DEF SameEverywhere
<1> HIDE DEF child
<1>4. saved \in MasterState /\ saved.cache = master.cache /\ saved.data = master.data
  BY <1>3, InvParts DEF MasterState
<1>5. master' = IF child THEN replicationScriptCacheFlush(saved) ELSE saved
  BY <1>1, <1>3
<1> HIDE DEF saved
<1>6. master' \in MasterState /\ master'.data = master.data
  <2>1. replicationScriptCacheFlush(saved) \in MasterState /\ replicationScriptCacheFlush(saved).data = master.data
    BY <1>4, FlushCache
  <2> QED BY <1>4, <1>5, <2>1
<1>7. new \in ServerState /\ Follows(new, << >>, master.data, run.wrote)
  BY <1>2, NewFollows, InvParts
<1> HIDE DEF new
<1>8. master'.cache = << >> \/ (~child /\ master'.cache = master.cache)
  <2>1. replicationScriptCacheFlush(saved).cache = << >>
    BY <1>4, FlushCache
  <2>2. CASE child
    BY <1>5, <2>1, <2>2
  <2>3. CASE ~child
    BY <1>4, <1>5, <2>3
  <2> QED BY <2>2, <2>3
<1>9. ASSUME NEW f \in Follower
      PROVE  follower'[f] \in ServerState /\ Follows(follower'[f], master'.cache, master.data, run.wrote)
  <2>1. follower[f] \in ServerState /\ Follows(follower[f], master.cache, master.data, run.wrote)
    BY InvParts DEF ScriptInv
  <2>2. Follows(follower[f], master'.cache, master.data, run.wrote)
    BY <1>8, <2>1, CacheFlushed
  <2>3. CASE f \in waiting
    <3>1. child /\ follower'[f] = new
      BY <1>1, <2>3 DEF child
    <3> QED BY <1>7, <1>8, <3>1
  <2>4. CASE f \notin waiting /\ follower[f].phase = "wait_end" /\ ok
    <3> DEFINE e == [follower[f] EXCEPT !.phase = "on"]
    <3>1. follower'[f] = e
      BY <1>1, <2>4
    <3>2. /\ e \in ServerState /\ e.phase = "on" /\ e.scripts = follower[f].scripts /\ e.data = follower[f].data
          /\ e.missed = follower[f].missed /\ e.diskerr = follower[f].diskerr
      BY <2>1 DEF ServerState
    <3> HIDE DEF e
    <3>3. Follows(e, master'.cache, master.data, run.wrote)
      BY <2>2, <2>4, <3>2, Zenon DEF Follows, Live
    <3> QED BY <3>1, <3>2, <3>3
  <2>5. CASE f \notin waiting /\ follower[f].phase = "wait_end" /\ ~ok
    <3>1. follower'[f] = Off
      BY <1>1, <2>5
    <3> QED BY <3>1, OffFollows
  <2>6. CASE f \notin waiting /\ follower[f].phase # "wait_end"
    <3>1. follower'[f] = follower[f]
      BY <1>1, <2>6
    <3> QED BY <2>1, <2>2, <3>1
  <2> QED BY <2>3, <2>4, <2>5, <2>6
<1>10. follower' \in [Follower -> ServerState]
  <2>1. DOMAIN follower' = Follower /\ follower' = [f \in Follower |-> follower'[f]]
    BY <1>1
  <2> QED BY <1>9, <2>1
<1>11. Follows(aof.file, master'.cache, master.data, run.wrote) /\ Follows(aof.rewrite, master'.cache, master.data, run.wrote)
  BY <1>8, CacheFlushed DEF ScriptInv
<1>12. ScriptTypes'
  BY <1>2, <1>6, <1>10 DEF ScriptInv, ScriptTypes
<1> QED BY <1>2, <1>6, <1>9, <1>11, <1>12 DEF ScriptInv

\* The steps that only begin a save, lose a slave or its disk, or flush the cache.
LEMMA SlavesInv ==
  ASSUME ScriptInv, NEW f \in Follower, SlaveGone(f) \/ SlaveDiskFails(f)
  PROVE  ScriptInv'
<1>1. run' = run /\ aof' = aof /\ master' = master
  BY DEF SlaveGone, SlaveDiskFails
<1>2. PICK new \in ServerState : follower' = [follower EXCEPT ![f] = new] /\ Follows(new, master.cache, master.data, run.wrote)
  <2>1. CASE SlaveGone(f)
    BY <2>1, OffFollows DEF SlaveGone
  <2>2. CASE SlaveDiskFails(f)
    <3> DEFINE e == [follower[f] EXCEPT !.diskerr = TRUE]
    <3>1. follower' = [follower EXCEPT ![f] = e] /\ follower[f].phase = "on"
      BY <2>2, InvParts DEF SlaveDiskFails
    <3>2. e \in ServerState /\ e.phase = "on" /\ e.scripts = follower[f].scripts /\ e.diskerr
      BY <3>1, InvParts DEF ServerState
    <3>3. Follows(follower[f], master.cache, master.data, run.wrote)
      BY DEF ScriptInv
    <3> HIDE DEF e
    <3>4. Follows(e, master.cache, master.data, run.wrote)
      BY <3>1, <3>2, <3>3, Zenon DEF Follows, Live
    <3> QED BY <3>1, <3>2, <3>4
  <2> QED BY <2>1, <2>2
<1>3. follower' \in [Follower -> ServerState] /\ \A g \in Follower : follower'[g] = follower[g] \/ follower'[g] = new
  BY <1>2, InvParts
<1>4. ScriptTypes'
  BY <1>1, <1>3 DEF ScriptInv, ScriptTypes
<1> QED BY <1>1, <1>2, <1>3, <1>4 DEF ScriptInv

LEMMA ChildInv == ASSUME ScriptInv, rdbSaveBackground PROVE ScriptInv'
<1>1. run' = run /\ aof' = aof /\ follower' = follower /\ master' = [master EXCEPT !.child = TRUE]
  BY DEF rdbSaveBackground
<1>2. master' \in MasterState /\ master'.cache = master.cache /\ master'.data = master.data
  BY <1>1, InvParts DEF MasterState
<1>3. ScriptTypes'
  BY <1>1, <1>2 DEF ScriptInv, ScriptTypes
<1> QED BY <1>1, <1>2, <1>3 DEF ScriptInv

LEMMA CronInv == ASSUME ScriptInv, replicationCron PROVE ScriptInv'
<1>1. run' = run /\ aof' = aof /\ follower' = follower /\ master' = replicationScriptCacheFlush(master)
  BY DEF replicationCron
<1>2. master' \in MasterState /\ master'.cache = << >> /\ master'.data = master.data
  BY <1>1, InvParts, FlushCache
<1>3. ScriptTypes'
  BY <1>1, <1>2 DEF ScriptInv, ScriptTypes
<1> QED BY <1>1, <1>2, <1>3, CacheFlushed DEF ScriptInv

LEMMA RewriteInv ==
  ASSUME ScriptInv, rewriteAppendOnlyFileBackground \/ backgroundRewriteDoneHandler
  PROVE  ScriptInv'
<1>1. run = Idle /\ run' = run /\ follower' = follower /\ run.wrote = 0
  <2>1. Idle.wrote = 0
    BY DEF Idle
  <2> QED BY <2>1 DEF rewriteAppendOnlyFileBackground, backgroundRewriteDoneHandler, NotBusy
<1>2. CASE rewriteAppendOnlyFileBackground
  <2> DEFINE new == Context("on", master.data)
  <2>1. aof' = [aof EXCEPT !.rewrite = new] /\ master' = replicationScriptCacheFlush(master)
    BY <1>2 DEF rewriteAppendOnlyFileBackground
  <2>2. new \in ServerState /\ Follows(new, << >>, master.data, run.wrote)
    BY <1>1, NewFollows, InvParts
  <2> HIDE DEF new
  <2>3. aof' \in [file : ServerState, rewrite : ServerState] /\ aof'.file = aof.file /\ aof'.rewrite = new
    BY <2>1, <2>2, InvParts
  <2>4. master' \in MasterState /\ master'.cache = << >> /\ master'.data = master.data
    BY <2>1, InvParts, FlushCache
  <2>5. ScriptTypes'
    BY <1>1, <2>3, <2>4 DEF ScriptInv, ScriptTypes
  <2> QED BY <1>1, <2>2, <2>3, <2>4, <2>5, CacheFlushed DEF ScriptInv
<1>3. CASE backgroundRewriteDoneHandler
  <2>1. PICK ok \in BOOLEAN : aof' = [file |-> IF ok THEN aof.rewrite ELSE aof.file, rewrite |-> Off]
    BY <1>3 DEF backgroundRewriteDoneHandler
  <2>2. /\ aof' \in [file : ServerState, rewrite : ServerState]
        /\ aof'.file = aof.file \/ aof'.file = aof.rewrite
        /\ aof'.rewrite = Off
    BY <2>1, OffFollows, InvParts
  <2>3. master' = master
    BY <1>3 DEF backgroundRewriteDoneHandler
  <2>4. ScriptTypes'
    BY <1>1, <2>2, <2>3 DEF ScriptInv, ScriptTypes
  <2> QED BY <1>1, <2>2, <2>3, <2>4, OffFollows DEF ScriptInv
<1> QED BY <1>2, <1>3

LEMMA ScriptNextInv == SameEverywhere /\ ScriptInv /\ [ScriptNext]_scriptVars => ScriptInv'
<1> SUFFICES ASSUME SameEverywhere, ScriptInv, [ScriptNext]_scriptVars PROVE ScriptInv'
  OBVIOUS
<1>1. ASSUME NEW s \in Script, scriptLoad(s) PROVE ScriptInv'
  BY <1>1, LoadInv
<1>2. ASSUME NEW s \in Script, NEW sha \in BOOLEAN, evalGenericCommand(s, sha) PROVE ScriptInv'
  BY <1>2, BeginsInv
<1>3. CASE LuaStep
  BY <1>3, LuaInv
<1>4. CASE luaMaskCountHook \/ scriptKill
  BY <1>4, HookInv
<1>5. CASE scriptFlush
  BY <1>5, FlushInv
<1>6. ASSUME NEW f \in Follower, syncCommand(f) PROVE ScriptInv'
  BY <1>6, SyncInv
<1>7. ASSUME NEW f \in Follower, SlaveGone(f) \/ SlaveDiskFails(f) PROVE ScriptInv'
  BY <1>7, SlavesInv
<1>8. CASE rdbSaveBackground
  BY <1>8, ChildInv
<1>9. CASE updateSlavesWaitingBgsave
  BY <1>9, SavedInv
<1>10. CASE replicationCron
  BY <1>10, CronInv
<1>11. CASE rewriteAppendOnlyFileBackground \/ backgroundRewriteDoneHandler
  BY <1>11, RewriteInv
<1>12. CASE UNCHANGED scriptVars
  BY <1>12 DEF scriptVars, ScriptInv, ScriptTypes
<1> QED BY <1>1, <1>2, <1>3, <1>4, <1>5, <1>6, <1>7, <1>8, <1>9, <1>10, <1>11, <1>12 DEF ScriptNext

-----------------------------------------------------------------------------
(* The theorems *)

\* Of a master that refuses no write of its own scripts because a save failed, and whose
\* scripts write nothing once they may be killed: every step of evalGenericCommand(),
\* SCRIPT, SYNC, the saves and the rewrites keeps the inductive invariant.
THEOREM ScriptInvariant == ASSUME SameEverywhere PROVE ScriptSpec => []ScriptInv
<1>1. ScriptInv /\ [ScriptNext]_scriptVars => ScriptInv'
  BY ScriptNextInv
<1> QED BY <1>1, ScriptInitInv, PTL DEF ScriptSpec

\* Between two scripts every slave and every AOF that was sent the stream of EVAL, EVALSHA
\* and SCRIPT holds the master's data and was never sent an EVALSHA of a script it lacks
\* (evalGenericCommand, replicationScriptCacheAdd and the flushes of the cache).
THEOREM ScriptsReplicatedAlways == ASSUME SameEverywhere PROVE ScriptSpec => []ScriptsReplicated
<1>1. ScriptInv => ScriptsReplicated
  <2> SUFFICES ASSUME ScriptInv, run = Idle,
                      NEW ctx \in {follower[f] : f \in Follower} \cup {aof.file, aof.rewrite}, ~ctx.diskerr
               PROVE  Agrees(ctx)
    BY Zenon DEF ScriptsReplicated
  <2>1. run.wrote = 0
    BY DEF Idle
  <2>2. ctx \in ServerState /\ Follows(ctx, master.cache, master.data, run.wrote)
    BY InvParts DEF ScriptInv
  <2>3. ctx.data \in Nat
    BY <2>2 DEF ServerState
  <2>4. ctx.phase \in {"on", "wait_end"} => ~ctx.missed /\ ctx.data + run.wrote = master.data
    BY <2>2, Zenon DEF Follows, Live
  <2>5. ctx.data + run.wrote = master.data => ctx.data = master.data
    BY <2>1, <2>3
  <2> QED BY <2>4, <2>5, Zenon DEF Agrees
<1>2. ScriptSpec => []ScriptInv
  BY ScriptInvariant
<1> QED BY <1>1, <1>2, PTL
=============================================================================
