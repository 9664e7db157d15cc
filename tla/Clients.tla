------------------------------ MODULE Clients ------------------------------
(***************************************************************************)
(* The life of a connection in networking.c, blocked.c, pubsub.c and the   *)
(* client part of redis.c: requests are read in pieces and parsed, run,    *)
(* answered into a static buffer and a list of chunks, and written in      *)
(* pieces; clients block, are paused, killed, subscribed, timed out, and   *)
(* closed at once or later.  A request is a sequence of units, one for     *)
(* each line and several for the body of a large argument.                 *)
(***************************************************************************)
EXTENDS Integers, FiniteSets, SequencesExt

CONSTANTS Client, Channel,
          Plan,         \* what the peers do: requests, who may close, limits, as records
          BufSize,      \* sizeof(c->buf)
          ChunkBytes,   \* REDIS_REPLY_CHUNK_BYTES
          IobufLen,     \* REDIS_IOBUF_LEN
          BigArg,       \* REDIS_MBULK_BIG_ARG
          MaxQuery,     \* client_max_querybuf_len
          HardLimit, SoftLimit, SoftSeconds,   \* of the class pubsub
          PauseTime, MaxNow

VARIABLES sv,     \* the server: clients, its lists, the pause, the clock, panic
          plan

clientVars == <<sv, plan>>

-----------------------------------------------------------------------------
(* What a peer sends. *)
Body(a) == [i \in 1..a.n |-> [t |-> "b", v |-> a.v, i |-> i]] \o <<[t |-> "nl"]>>
Units(r) ==
  CASE r.kind = "multi"  -> <<[t |-> "mb", n |-> Len(r.argv)]>>
                            \o FlattenSeq([j \in DOMAIN r.argv |-> <<[t |-> "len", n |-> r.argv[j].n]>> \o Body(r.argv[j])])
    [] r.kind = "inline" -> <<[t |-> "line", argv |-> r.argv]>>
    [] r.kind = "empty"  -> <<[t |-> "mb", n |-> 0]>>
    [] r.kind = "bad"    -> <<[t |-> "mb", n |-> 1], [t |-> "nl"]>>
AsArgv(argv) == [j \in DOMAIN argv |-> [i \in 1..argv[j].n |-> [t |-> "b", v |-> argv[j].v, i |-> i]]]

createClient(c) ==
  [open |-> FALSE, flags |-> {}, btype |-> "none", timeout |-> 0, last |-> 0, why |-> "",
   inbox |-> FlattenSeq([j \in DOMAIN plan.todo[c] |-> Units(plan.todo[c][j])]), gone |-> FALSE,
   qb |-> <<>>, reqtype |-> "", mbl |-> 0, blen |-> -1, argv |-> <<>>,
   buf |-> <<>>, list |-> <<>>, sentlen |-> 0, bytes |-> 0, armed |-> FALSE, softAt |-> 0,
   subs |-> {}, psubs |-> <<>>, ran |-> <<>>, owed |-> <<>>, wire |-> <<>>]

Has(s, c, flag) == flag \in s.cl[c].flags
Flag(s, c, flag) == [s EXCEPT !.cl[c].flags = @ \cup {flag}]
Unflag(s, c, flag) == [s EXCEPT !.cl[c].flags = @ \ {flag}]
Drop(seq, c) == SelectSeq(seq, LAMBDA x : x # c)
\* listSearchKey and listDelNode: the first one only
DelFirst(seq, c) == IF c \in ToSet(seq) THEN RemoveAt(seq, CHOOSE i \in DOMAIN seq : seq[i] = c /\ \A j \in 1..(i - 1) : seq[j] # c) ELSE seq

-----------------------------------------------------------------------------
(* Closing. *)
freeClientAsync(s, c) ==
  IF Has(s, c, "closeAsap") THEN s
  ELSE [Flag(s, c, "closeAsap") EXCEPT !.toClose = Append(@, c)]

unblockClient(s, c) ==
  IF s.cl[c].btype = "none" THEN [s EXCEPT !.panic = "Unknown btype in unblockClient()."]
  ELSE [s EXCEPT !.waiting = Drop(@, c), !.unblocked = Append(@, c), !.cl[c].btype = "none",
                 !.cl[c].flags = (@ \ {"blocked"}) \cup {"unblocked"}]

pubsubUnsubscribeChannel(s, c, ch) ==
  IF ch \notin s.cl[c].subs THEN s
  ELSE [s EXCEPT !.cl[c].subs = @ \ {ch}, !.chan[ch] = DelFirst(@, c)]
pubsubUnsubscribePattern(s, c, p) ==
  IF p \notin ToSet(s.cl[c].psubs) THEN s
  ELSE [s EXCEPT !.cl[c].psubs = DelFirst(@, p), !.pats = DelFirst(@, <<c, p>>)]
pubsubUnsubscribeAll(s, c) ==
  LET noChannels == FoldLeft(LAMBDA x, ch : pubsubUnsubscribeChannel(x, c, ch), s, SetToSeq(s.cl[c].subs))
  IN FoldLeft(LAMBDA x, p : pubsubUnsubscribePattern(x, c, p), noChannels, s.cl[c].psubs)

\* mutant: the client stays in the list of the clients to be closed
FreedStaysQueued(s, c, why) ==
  LET unblocked == IF Has(s, c, "blocked") THEN unblockClient(s, c) ELSE s
      quiet == pubsubUnsubscribeAll(unblocked, c)
  IN [quiet EXCEPT !.unblocked = IF Has(quiet, c, "unblocked") THEN DelFirst(@, c) ELSE @,
                   !.monitors = IF Has(quiet, c, "monitor") THEN DelFirst(@, c) ELSE @,
                   !.cl[c].open = FALSE, !.cl[c].why = why]

freeClient(s, c, why) ==
  LET unblocked == IF Has(s, c, "blocked") THEN unblockClient(s, c) ELSE s
      quiet == pubsubUnsubscribeAll(unblocked, c)
  IN [quiet EXCEPT !.unblocked = IF Has(quiet, c, "unblocked") THEN DelFirst(@, c) ELSE @,
                   !.monitors = IF Has(quiet, c, "monitor") THEN DelFirst(@, c) ELSE @,
                   !.toClose = IF Has(quiet, c, "closeAsap") THEN DelFirst(@, c) ELSE @,
                   !.cl[c].open = FALSE, !.cl[c].why = why]

RECURSIVE freeClientsInAsyncFreeQueue(_)
freeClientsInAsyncFreeQueue(s) ==
  IF s.toClose = <<>> THEN s
  ELSE LET freed == freeClient(Unflag(s, Head(s.toClose), "closeAsap"), Head(s.toClose), "limit")
       IN freeClientsInAsyncFreeQueue([freed EXCEPT !.toClose = Tail(@)])

-----------------------------------------------------------------------------
(* Replies. *)
getClientOutputBufferMemoryUsage(k) == k.bytes + Len(k.list)

checkClientOutputBufferLimits(s, c) ==
  LET k == s.cl[c]
      used == getClientOutputBufferMemoryUsage(k)
      limited == (k.subs # {} \/ k.psubs # <<>>) /\ "slave" \notin k.flags
      soft == limited /\ used >= SoftLimit
  IN [over |-> (limited /\ used >= HardLimit) \/ (soft /\ k.softAt # 0 /\ s.now - k.softAt > SoftSeconds),
      softAt |-> IF ~ soft THEN 0 ELSE IF k.softAt = 0 THEN s.now ELSE k.softAt]

asyncCloseClientOnOutputBufferLimitReached(s, c) ==
  IF s.cl[c].bytes = 0 \/ Has(s, c, "closeAsap") THEN s
  ELSE LET check == checkClientOutputBufferLimits(s, c)
           noted == [s EXCEPT !.cl[c].softAt = check.softAt]
       IN IF check.over THEN freeClientAsync(noted, c) ELSE noted

prepareClientToWrite(s, c) ==
  IF s.cl[c].buf = <<>> /\ s.cl[c].list = <<>> THEN [s EXCEPT !.cl[c].armed = TRUE] ELSE s

\* mutant: the static buffer is used again while chunks are waiting
BufferFirst(k, u) == Len(u) <= BufSize - Len(k.buf)

\* once a chunk is in the list, everything goes to the list
_addReplyToBuffer(k, u) == k.list = <<>> /\ Len(u) <= BufSize - Len(k.buf)

\* an empty chunk stands for a length that is not yet known
_addReplyObjectToList(s, c, u) ==
  LET list == s.cl[c].list
      glued == list # <<>> /\ Last(list) # <<>> /\ Len(Last(list)) + Len(u) <= ChunkBytes
  IN asyncCloseClientOnOutputBufferLimitReached(
       [s EXCEPT !.cl[c].bytes = @ + Len(u),
                 !.cl[c].list = IF glued THEN [@ EXCEPT ![Len(@)] = @ \o u] ELSE Append(@, u)], c)

addReply(s, c, u) ==
  LET ready == prepareClientToWrite(s, c)
  IN IF Has(s, c, "closeAfter") THEN ready
     ELSE IF _addReplyToBuffer(ready.cl[c], u) THEN [ready EXCEPT !.cl[c].buf = @ \o u]
     ELSE _addReplyObjectToList(ready, c, u)

addDeferredMultiBulkLength(s, c) == [prepareClientToWrite(s, c) EXCEPT !.cl[c].list = Append(@, <<>>)]

\* the length goes into chunk j, and the chunk after it is joined to it
setDeferredMultiBulkLength(s, c, j, u) ==
  LET list == s.cl[c].list
      joins == j < Len(list) /\ list[j + 1] # <<>>
  IN asyncCloseClientOnOutputBufferLimitReached(
       [s EXCEPT !.cl[c].bytes = @ + Len(u),
                 !.cl[c].list = IF joins THEN [RemoveAt(list, j + 1) EXCEPT ![j] = u \o list[j + 1]] ELSE [list EXCEPT ![j] = u]], c)

\* history: what the peer is to see
Owe(s, c, u) == IF Has(s, c, "closeAfter") THEN s ELSE [s EXCEPT !.cl[c].owed = @ \o u]
Reply(s, c, u) == Owe(addReply(s, c, u), c, u)

\* the kernel takes n units
RECURSIVE WriteLoop(_, _)
WriteLoop(k, n) ==
  IF n = 0 \/ (k.buf = <<>> /\ k.list = <<>>) THEN k
  ELSE LET from == IF k.buf # <<>> THEN k.buf ELSE Head(k.list)
           m == IF n < Len(from) - k.sentlen THEN n ELSE Len(from) - k.sentlen
           out == [k EXCEPT !.wire = @ \o SubSeq(from, k.sentlen + 1, k.sentlen + m), !.sentlen = @ + m]
           done == out.sentlen = Len(from)
       IN WriteLoop(IF ~ done THEN out
                    ELSE IF k.buf # <<>> THEN [out EXCEPT !.buf = <<>>, !.sentlen = 0]
                    ELSE [out EXCEPT !.list = Tail(@), !.sentlen = 0, !.bytes = @ - Len(from)], n - m)

Pending(k) == SubSeq(k.buf \o FlattenSeq(k.list), k.sentlen + 1, Len(k.buf \o FlattenSeq(k.list)))

sendReplyToClient(s, c, n) ==
  LET wrote == [s EXCEPT !.cl[c] = WriteLoop(@, n), !.cl[c].last = IF n > 0 THEN s.now ELSE @]
      empty == wrote.cl[c].buf = <<>> /\ wrote.cl[c].list = <<>>
  IN IF ~ empty THEN wrote
     ELSE IF Has(s, c, "closeAfter") THEN freeClient(wrote, c, "asked")
     ELSE [wrote EXCEPT !.cl[c].armed = FALSE, !.cl[c].sentlen = 0]

-----------------------------------------------------------------------------
(* The commands. *)
pubsubSubscribeChannel(s, c, ch, u) ==
  Reply(IF ch \in s.cl[c].subs THEN s ELSE [s EXCEPT !.cl[c].subs = @ \cup {ch}, !.chan[ch] = Append(@, c)], c, u)
pubsubSubscribePattern(s, c, p, u) ==
  Reply(IF p \in ToSet(s.cl[c].psubs) THEN s ELSE [s EXCEPT !.cl[c].psubs = Append(@, p), !.pats = Append(@, <<c, p>>)], c, u)

\* a pattern is the set of the channels it matches
pubsubPublishMessage(s, ch, u) ==
  LET toChannel == FoldLeft(LAMBDA x, c : Reply(x, c, u), s, s.chan[ch])
  IN FoldLeft(LAMBDA x, p : IF ch \in p[2] THEN Reply(x, p[1], u) ELSE x, toChannel, s.pats)

pauseClients(s, end) == [s EXCEPT !.pauseEnd = IF ~ s.paused \/ end > @ THEN end ELSE @, !.paused = TRUE]

\* when the pause is over every client's buffer is to be looked at
clientsArePaused(s) ==
  IF s.paused /\ s.pauseEnd < s.now
  THEN [s EXCEPT !.paused = FALSE, !.unblocked = @ \o SelectSeq(s.clients, LAMBDA c : s.cl[c].open /\ ~ Has(s, c, "slave"))]
  ELSE s

blockClient(s, c, timeout) ==
  [Flag(s, c, "blocked") EXCEPT !.cl[c].btype = "list", !.cl[c].timeout = timeout, !.waiting = Append(@, c)]

\* an element that was pushed goes to the client that has waited longest
handleClientsBlockedOnLists(s, u) ==
  IF s.items = 0 \/ s.waiting = <<>> THEN s
  ELSE LET c == Head(s.waiting)
       IN Reply(unblockClient([s EXCEPT !.items = @ - 1], c), c, u)

clientKill(s, c, x, u) ==
  IF x = c THEN Flag(Reply(s, c, u), c, "closeAfter")
  ELSE IF s.cl[x].open THEN freeClient(Reply(s, c, u), x, "killed") ELSE Reply(s, c, u)

monitorCommand(s, c, u) ==
  IF Has(s, c, "slave") THEN s
  ELSE Reply([Flag(Flag(s, c, "slave"), c, "monitor") EXCEPT !.monitors = Append(@, c)], c, u)

keysCommand(s, c, u) ==
  LET j == Len(s.cl[c].list) + 1
      open == addDeferredMultiBulkLength(s, c)
      items == addReply(addReply(open, c, <<u[2]>>), c, <<u[3]>>)
  IN Owe(setDeferredMultiBulkLength(items, c, j, <<u[1]>>), c, u)

Feed(s, u) == FoldLeft(LAMBDA x, m : Reply(x, m, u), s, s.monitors)

PubsubOnly == {"subscribe", "unsubscribe", "psubscribe"}

call(s, c, cmd, arg, U) ==
  CASE cmd = "get" -> Reply(s, c, U[1])
    [] cmd = "long" -> Reply(s, c, U[3])
    [] cmd = "keys" -> keysCommand(s, c, U[3])
    [] cmd \in {"blpop", "blpop1"} ->
         IF s.items > 0 THEN Reply([s EXCEPT !.items = @ - 1], c, U[1])
         ELSE blockClient(s, c, IF cmd = "blpop1" THEN s.now + 1 ELSE 0)
    [] cmd = "push" -> handleClientsBlockedOnLists(Reply([s EXCEPT !.items = @ + 1], c, U[1]), U[2])
    [] cmd = "pause" -> Reply(pauseClients(s, s.now + PauseTime), c, U[1])
    [] cmd = "kill" -> clientKill(s, c, arg, U[1])
    [] cmd = "monitor" -> monitorCommand(s, c, U[1])
    [] cmd = "subscribe" -> pubsubSubscribeChannel(s, c, arg, U[1])
    [] cmd = "psubscribe" -> pubsubSubscribePattern(s, c, arg, U[1])
    [] cmd = "unsubscribe" -> Reply(pubsubUnsubscribeChannel(s, c, arg), c, U[1])
    [] cmd = "publish" -> Reply(pubsubPublishMessage(s, arg, U[2]), c, U[1])

processCommand(s, c, argv) ==
  LET cmd == argv[1][1].v
      arg == IF Len(argv) > 1 THEN argv[2][1].v ELSE ""
      ran == [s EXCEPT !.cl[c].ran = Append(@, argv)]
      U == [n \in 1..3 |-> [i \in 1..n |-> <<c, Len(ran.cl[c].ran), i>>]]
  IN IF cmd = "quit" THEN Flag(Reply(ran, c, U[1]), c, "closeAfter")
     ELSE IF (s.cl[c].subs # {} \/ s.cl[c].psubs # <<>>) /\ cmd \notin PubsubOnly THEN Reply(ran, c, U[1])
     ELSE call(Feed(ran, U[1]), c, cmd, arg, U)

-----------------------------------------------------------------------------
(* Requests. *)
\* mutant: the length of the argument is asked for again when the rest of it comes
RECURSIVE BulksForget(_)
BulksForget(k) ==
  IF k.mbl = 0 THEN [st |-> "ok", k |-> k]
  ELSE IF k.blen = -1 /\ k.qb = <<>> THEN [st |-> "more", k |-> k]
  ELSE IF k.blen = -1 /\ Head(k.qb).t # "len" THEN [st |-> "err", k |-> k]
  ELSE LET h == IF k.blen = -1 THEN [k EXCEPT !.blen = Head(k.qb).n, !.qb = Tail(@)] ELSE k
       IN IF Len(h.qb) < h.blen + 1 THEN [st |-> "more", k |-> [h EXCEPT !.blen = -1]]
          ELSE BulksForget([h EXCEPT !.argv = Append(@, SubSeq(h.qb, 1, h.blen)), !.qb = SubSeq(@, h.blen + 2, Len(@)),
                                     !.blen = -1, !.mbl = @ - 1])

\* the arguments that are complete are taken; a length that is known stays known
RECURSIVE Bulks(_)
Bulks(k) ==
  IF k.mbl = 0 THEN [st |-> "ok", k |-> k]
  ELSE IF k.blen = -1 /\ k.qb = <<>> THEN [st |-> "more", k |-> k]
  ELSE IF k.blen = -1 /\ Head(k.qb).t # "len" THEN [st |-> "err", k |-> k]
  ELSE LET h == IF k.blen = -1 THEN [k EXCEPT !.blen = Head(k.qb).n, !.qb = Tail(@)] ELSE k
       IN IF Len(h.qb) < h.blen + 1 THEN [st |-> "more", k |-> h]
          ELSE Bulks([h EXCEPT !.argv = Append(@, SubSeq(h.qb, 1, h.blen)), !.qb = SubSeq(@, h.blen + 2, Len(@)),
                               !.blen = -1, !.mbl = @ - 1])

processMultibulkBuffer(k) ==
  IF k.mbl # 0 THEN Bulks(k)
  ELSE IF Head(k.qb).n = 0 THEN [st |-> "ok", k |-> [k EXCEPT !.qb = Tail(@)]]
  ELSE Bulks([k EXCEPT !.mbl = Head(k.qb).n, !.qb = Tail(@)])

processInlineBuffer(k) == [st |-> "ok", k |-> [k EXCEPT !.argv = AsArgv(Head(k.qb).argv), !.qb = Tail(@)]]

resetClient(k) == [k EXCEPT !.argv = <<>>, !.reqtype = "", !.mbl = 0, !.blen = -1]

RECURSIVE processInputBuffer(_, _)
processInputBuffer(s0, c) ==
  LET s == IF Has(s0, c, "slave") THEN s0 ELSE clientsArePaused(s0)
      k == [s.cl[c] EXCEPT !.reqtype = IF @ # "" THEN @ ELSE IF Head(s.cl[c].qb).t = "mb" THEN "multi" ELSE "inline"]
      parsed == IF k.reqtype = "inline" THEN processInlineBuffer(k) ELSE processMultibulkBuffer(k)
      after == [s EXCEPT !.cl[c] = parsed.k]
      reply == <<<<c, Len(k.ran), 0>>>>
  IN IF s0.panic # "" \/ s0.cl[c].qb = <<>> THEN s0
     ELSE IF (s.paused /\ ~ Has(s, c, "slave")) \/ Has(s, c, "blocked") \/ Has(s, c, "closeAfter") THEN s
     ELSE IF parsed.st = "more" THEN after
     ELSE IF parsed.st = "err" THEN Flag(Reply(after, c, reply), c, "closeAfter")
     ELSE IF parsed.k.argv = <<>> THEN processInputBuffer([s EXCEPT !.cl[c] = resetClient(parsed.k)], c)
     ELSE LET ran == processCommand(after, c, parsed.k.argv)
          IN processInputBuffer([ran EXCEPT !.cl[c] = resetClient(@)], c)

\* no more than the rest of a large argument is read
ReadLen(k) == IF k.reqtype = "multi" /\ k.mbl # 0 /\ k.blen >= BigArg
              THEN LET rest == k.blen + 1 - Len(k.qb) IN IF rest < IobufLen THEN rest ELSE IobufLen
              ELSE IobufLen

\* read(2) with a length of 0 returns 0, which is taken for the end of the stream
readQueryFromClient(s, c, n) ==
  LET k == s.cl[c]
      m == IF n < ReadLen(k) THEN n ELSE ReadLen(k)
      read == [s EXCEPT !.cl[c].qb = @ \o SubSeq(k.inbox, 1, m), !.cl[c].inbox = SubSeq(@, m + 1, Len(@)), !.cl[c].last = s.now]
  IN IF m = 0 THEN freeClient(s, c, IF k.gone /\ k.inbox = <<>> THEN "gone" ELSE "zero")
     ELSE IF Len(read.cl[c].qb) > MaxQuery THEN freeClient(read, c, "query")
     ELSE processInputBuffer(read, c)

RECURSIVE processUnblockedClients(_)
processUnblockedClients(s) ==
  IF s.unblocked = <<>> \/ s.panic # "" THEN s
  ELSE LET c == Head(s.unblocked)
           taken == [Unflag(s, c, "unblocked") EXCEPT !.unblocked = Tail(@), !.cl[c].btype = "none"]
       IN IF ~ s.cl[c].open THEN [s EXCEPT !.panic = "use of a freed client"]
          ELSE processUnblockedClients(processInputBuffer(taken, c))

clientsCronHandleTimeout(s, c) ==
  LET k == s.cl[c]
  IN IF plan.maxidle # 0 /\ k.flags \cap {"slave", "blocked"} = {} /\ k.subs = {} /\ k.psubs = <<>> /\ s.now - k.last > plan.maxidle
     THEN freeClient(s, c, "idle")
     ELSE IF "blocked" \in k.flags /\ k.timeout # 0 /\ k.timeout < s.now
     THEN unblockClient(Reply(s, c, <<<<c, Len(k.ran), -1>>>>), c) ELSE s

-----------------------------------------------------------------------------
ClientInit ==
  /\ plan \in Plan
  /\ sv = [cl |-> [c \in Client |-> createClient(c)], clients |-> <<>>, unblocked |-> <<>>, toClose |-> <<>>, monitors |-> <<>>,
           waiting |-> <<>>, items |-> 0, chan |-> [ch \in Channel |-> <<>>], pats |-> <<>>,
           paused |-> FALSE, pauseEnd |-> 0, now |-> 0, panic |-> ""]

Live(c) == sv.cl[c].open /\ sv.panic = ""

\* the log line after the call uses the client that was refused
Accept(c) ==
  /\ sv.cl[c].why = "" /\ ~ sv.cl[c].open /\ sv.panic = ""
  /\ sv' = IF Cardinality({x \in Client : sv.cl[x].open}) >= plan.maxclients
           THEN [sv EXCEPT !.cl[c].why = "refused", !.panic = "use of no client"]
           ELSE [sv EXCEPT !.cl[c].open = TRUE, !.cl[c].last = sv.now, !.clients = Append(@, c)]

Read(c) ==
  /\ Live(c) /\ (sv.cl[c].inbox # <<>> \/ sv.cl[c].gone)
  /\ \E n \in plan.reads :
       sv' = readQueryFromClient(sv, c, IF n < Len(sv.cl[c].inbox) THEN n ELSE Len(sv.cl[c].inbox))

Write(c) ==
  /\ Live(c) /\ sv.cl[c].armed
  /\ \/ /\ sv.cl[c].gone
        /\ sv' = freeClient(sv, c, "gone")
     \/ \E n \in plan.writes : sv' = sendReplyToClient(sv, c, n)

PeerCloses(c) ==
  /\ c \in plan.closes /\ Live(c) /\ ~ sv.cl[c].gone
  /\ sv' = [sv EXCEPT !.cl[c].gone = TRUE]

beforeSleep ==
  /\ sv.unblocked # <<>> /\ sv.panic = ""
  /\ sv' = processUnblockedClients(sv)

serverCron ==
  /\ sv.panic = ""
  /\ LET timedOut == FoldLeft(LAMBDA s, c : IF s.cl[c].open THEN clientsCronHandleTimeout(s, c) ELSE s, sv, sv.clients)
     IN sv' = clientsArePaused(freeClientsInAsyncFreeQueue(timedOut))

Tick == /\ sv.now < MaxNow /\ plan.clock /\ sv.panic = ""
        /\ sv' = [sv EXCEPT !.now = @ + 1]

ClientNext ==
  /\ UNCHANGED plan
  /\ \/ \E c \in Client : Accept(c) \/ Read(c) \/ Write(c) \/ PeerCloses(c)
     \/ beforeSleep \/ serverCron \/ Tick

ClientSpec == ClientInit /\ [][ClientNext]_clientVars

-----------------------------------------------------------------------------
Sent(c) == LET done == SelectSeq(plan.todo[c], LAMBDA r : r.kind \in {"multi", "inline"})
           IN [j \in DOMAIN done |-> AsArgv(done[j].argv)]

\* a complete request is in the buffer
Complete(k) == k.qb # <<>> /\ (IF k.reqtype = "" THEN Head(k.qb).t = "line" \/ processMultibulkBuffer(k).st # "more"
                               ELSE processMultibulkBuffer(k).st # "more")

(* However the stream is cut by read(), the requests that run are those    *)
(* that were sent, each once and in order; and none that is complete stays *)
(* in the buffer unless its client is blocked, paused, about to be closed, *)
(* or in the list that beforeSleep() goes through.                         *)
RequestsServed ==
  \A c \in Client :
    LET k == sv.cl[c]
    IN /\ IsPrefix(k.ran, Sent(c))
       /\ (k.open /\ Complete(k)) =>
            \/ k.flags \cap {"blocked", "closeAfter"} # {} \/ c \in ToSet(sv.unblocked)
            \/ (sv.paused /\ "slave" \notin k.flags)

(* What a peer has received, followed by what is in the static buffer and  *)
(* in the list of chunks, is what it was to receive, in order: nothing is  *)
(* lost, repeated or overtaken.  reply_bytes is the size of the chunks,    *)
(* and as long as something is to be sent the write handler is installed.  *)
RepliesExact ==
  \A c \in Client :
    LET k == sv.cl[c]
    IN k.open => /\ k.wire \o Pending(k) = k.owed
                 /\ k.bytes = FoldLeft(LAMBDA n, u : n + Len(u), 0, k.list)
                 /\ (Pending(k) # <<>>) => k.armed
                 /\ ("closeAfter" \in k.flags) => k.armed

(* The lists of the server hold open clients only, as many times as those  *)
(* have the flag that stands for the list: no list outlives a client; and  *)
(* subscriptions are the same on both sides.                               *)
ClientListsAgree ==
  /\ \A c \in ToSet(sv.unblocked) \cup ToSet(sv.toClose) \cup ToSet(sv.monitors) \cup ToSet(sv.waiting) : sv.cl[c].open
  /\ \A c \in Client : sv.cl[c].open =>
       /\ ("closeAsap" \in sv.cl[c].flags) <=> (c \in ToSet(sv.toClose))
       /\ ("unblocked" \in sv.cl[c].flags) => (c \in ToSet(sv.unblocked))
       /\ ("blocked" \in sv.cl[c].flags) <=> (c \in ToSet(sv.waiting))
  /\ \A c \in Client, ch \in Channel : (ch \in sv.cl[c].subs) <=> (c \in ToSet(sv.chan[ch]))
  /\ \A c \in Client : ToSet(sv.cl[c].psubs) = {p[2] : p \in {x \in ToSet(sv.pats) : x[1] = c}}

(* The server never uses a client it has freed or refused, and never meets *)
(* a state that it takes for impossible (redisPanic).                      *)
NoPanic == sv.panic = ""

(* A client is closed because its peer closed, because it was asked to be, *)
(* was idle, or broke a limit, and for no other reason.                    *)
ClosedForCause == \A c \in Client : sv.cl[c].why # "zero"
=============================================================================
