------------------------------ MODULE MCServer -------------------------------
(* One server and its clients: their buffers and lists, blocking commands,   *)
(* scripts, the event loop. A behaviour is one of one of these; what is not  *)
(* part of it stays in one state.                                            *)
EXTENDS BlockedLists, Scripting, EventLoop, TLC

CONSTANTS Parts,   \* "blocked", "clients", "scripts", "loop"
          a, b,    \* the two clients of module Clients
          ClientPlan
VARIABLES part, sv, plan

clientVars == <<sv, plan>>
serverVars == <<part, blockVars, scriptVars, loopVars, clientVars>>

-----------------------------------------------------------------------------
(* Requests: an argument is its value and its length.                       *)

Arg(v, n) == [v |-> v, n |-> n]
Multibulk(argv) == [kind |-> "multi", argv |-> argv]
Inline(argv) == [kind |-> "inline", argv |-> argv]
Cmd(v) == Multibulk(<<Arg(v, 1)>>)
Cmd2(v, x) == Multibulk(<<Arg(v, 1), Arg(x, 1)>>)
Empty == [kind |-> "empty", argv |-> <<>>]
Bad == [kind |-> "bad", argv |-> <<>>]
Big == Multibulk(<<Arg("get", 1), Arg("x", 3)>>)

Peers(todoA, todoB, closes, maxidle, clock, reads, writes) ==
  [todo |-> (a :> todoA) @@ (b :> todoB), closes |-> closes, maxidle |-> maxidle, clock |-> clock, maxclients |-> 2,
   reads |-> reads, writes |-> writes]

\* requests of every kind, cut anywhere by read()
Requests == Peers(<<Cmd("get"), Empty, Big, Inline(<<Arg("long", 1)>>), Cmd("keys")>>, <<>>, {}, 0, FALSE, 1..5, {2})
\* replies that fill the buffer and the chunks, sent in pieces, and QUIT
Replies == Peers(<<Cmd("keys"), Cmd("long"), Cmd("get"), Cmd("keys"), Cmd("quit"), Cmd("get")>>, <<>>, {a}, 0, FALSE, {5}, {1, 4})
\* a client that blocks is served, times out, is killed or leaves
Blocks == Peers(<<Cmd("get"), Cmd("blpop1"), Cmd("get")>>, <<Cmd("push"), Cmd2("kill", a), Bad>>, {a}, 0, TRUE, {6}, {4})
\* a subscriber that does not read
Subscriber == Peers(<<Cmd2("subscribe", "ch"), Cmd2("psubscribe", {"ch"}), Cmd2("unsubscribe", "ch")>>,
                    <<Cmd2("publish", "ch"), Cmd2("publish", "ch"), Cmd2("kill", a), Cmd2("publish", "ch")>>, {}, 0, TRUE, {7}, {4})
\* MONITOR, a client that kills itself, idle clients
Monitor == Peers(<<Cmd("monitor"), Cmd("get")>>, <<Cmd("get"), Cmd2("kill", b), Cmd("get")>>, {a}, 1, TRUE, {7}, {4})
\* CLIENT PAUSE
Pause == Peers(<<Cmd("get"), Cmd("get")>>, <<Cmd("pause"), Cmd("get")>>, {}, 0, TRUE, {6}, {4})

MCClientPlan == {Requests, Replies, Blocks, Subscriber, Monitor, Pause}

\* a client that is served has sent the next blocking command already
Reblocked == {Peers(<<Cmd("blpop"), Cmd("blpop")>>, <<Cmd("push"), Cmd("push")>>, {}, 0, FALSE, {4}, {4})}

C == INSTANCE Clients WITH
  Client <- {a, b}, Channel <- {"ch"}, Plan <- ClientPlan, BufSize <- 3, ChunkBytes <- 3, IobufLen <- 8, BigArg <- 3,
  MaxQuery <- 12, HardLimit <- 5, SoftLimit <- 3, SoftSeconds <- 1, PauseTime <- 1, MaxNow <- 2

-----------------------------------------------------------------------------
(* Scripts: one that writes around a loop, one whose effect is random, one   *)
(* that fails after a write.                                                 *)

MCLua == [s \in Script |-> CASE s = "write"  -> <<"incr", "loop", "incr">>
                              [] s = "random" -> <<"loop", "random", "incr">>
                              [] s = "fail"   -> <<"incr", "error">>]

(* The event loop: connections that come and go; serverCron with a period   *)
(* shorter than, and as long as, a second while the clock is set.            *)

LPlan(conns, resize, period, times, clock, window) ==
  [conns |-> conns, resize |-> resize, period |-> period, times |-> times, clock |-> clock, window |-> window]

MCLoopPlan == {LPlan(3, FALSE, 0, 0, 0, FALSE), LPlan(0, FALSE, 1, 2, 12, FALSE), LPlan(0, FALSE, 3, 2, 12, FALSE)}

\* CONFIG SET maxclients in a handler
Resize == {LPlan(2, TRUE, 0, 0, 0, FALSE)}
\* the clock is set back between the computation of the time-out and the poll
Window == {LPlan(0, FALSE, 1, 2, 12, TRUE)}

-----------------------------------------------------------------------------
MCInit ==
  /\ part \in Parts
  /\ BlockInit
  /\ ScriptInit /\ (part # "scripts" => aof.file = Off)
  /\ LoopInit /\ (part # "loop" => loopPlan = CHOOSE p \in LoopPlan : TRUE)
  /\ IF part = "clients" THEN C!ClientInit ELSE sv = 0 /\ plan = 0

MCNext ==
  /\ UNCHANGED part
  /\ \/ part = "blocked" /\ BlockNext /\ UNCHANGED <<scriptVars, loopVars, clientVars>>
     \/ part = "scripts" /\ ScriptNext /\ UNCHANGED <<blockVars, loopVars, clientVars>>
     \/ part = "loop" /\ LoopNext /\ UNCHANGED <<blockVars, scriptVars, clientVars>>
     \/ part = "clients" /\ C!ClientNext /\ UNCHANGED <<blockVars, scriptVars, loopVars>>

MCSpec == MCInit /\ [][MCNext]_serverVars

\* Clients that wait, and the keys of lists, are interchangeable.
Symmetry == Permutations(ListClients) \cup Permutations(ListKeys)

-----------------------------------------------------------------------------
\* However the stream is cut by read(), the requests that run are those that were sent, each
\* once and in order, and none that is complete is forgotten; a peer receives what it was to
\* receive, in order, and as long as something is to be sent the write handler is installed.
ClientsServed == part = "clients" => C!RequestsServed /\ C!RepliesExact

\* The lists of the server hold open clients only and agree with the clients' flags and
\* subscriptions, no client is used after it was freed, none is closed without a cause.
ClientsSound == part = "clients" => C!ClientListsAgree /\ C!NoPanic /\ C!ClosedForCause

\* blockClient() and unblockClient() never meet a client in a state they take for impossible.
NoPanic == part = "clients" => C!NoPanic
=============================================================================
