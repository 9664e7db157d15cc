------------------------------- MODULE Multi -------------------------------
(***************************************************************************)
(* Transactions (multi.c, and the part of processCommand() that queues or  *)
(* refuses a command): MULTI, EXEC, DISCARD, WATCH, UNWATCH, with the two  *)
(* structures WATCH maintains, the list of keys of a client and the list   *)
(* of clients of a key, and everything that changes keys meanwhile.        *)
(*                                                                         *)
(* The list of clients of a key is a multiset: the number of times each    *)
(* client is in it.  A key has a version, bumped by every modification a   *)
(* command makes; seen[c] remembers the versions the client WATCHed.       *)
(***************************************************************************)
EXTENDS Integers, Sequences

CONSTANTS Clients, DBs, Keys,
          MaxVersion,   \* bound: modifications of each key
          MaxQueue      \* bound: commands sent in a transaction

WKeys == DBs \X Keys

ASSUME BoundsAssumption == MaxVersion \in [WKeys -> Nat] /\ MaxQueue \in Nat

Commands == {"set", "get"} \X WKeys

VARIABLES
  stable,        \* in this behaviour the server stays what it is
  masterhost,    \* this server is a read-only slave
  exists,        \* the keys in the databases
  watchers,      \* db->watched_keys: occurrences of each client in a key's list
  connected,
  flags,         \* the REDIS_MULTI, DIRTY_CAS, DIRTY_EXEC of c->flags
  watched_keys,  \* c->watched_keys
  mstate,        \* c->mstate: the queued commands
  version,       \* ghost: modifications of each key
  seen,          \* ghost: version of the keys a client watches, when it did
  sent           \* ghost: commands sent after MULTI, queued or refused

vars == <<stable, masterhost, exists, watchers, connected, flags, watched_keys, mstate,
          version, seen, sent>>

TypeOK ==
  /\ stable \in BOOLEAN /\ masterhost \in BOOLEAN
  /\ exists \in [WKeys -> BOOLEAN]
  /\ watchers \in [WKeys -> [Clients -> Nat]]
  /\ connected \in [Clients -> BOOLEAN]
  /\ flags \in [Clients -> SUBSET {"MULTI", "DIRTY_CAS", "DIRTY_EXEC"}]
  /\ watched_keys \in [Clients -> SUBSET WKeys]
  /\ mstate \in [Clients -> Seq(Commands)]
  /\ version \in [WKeys -> Nat]
  /\ seen \in [Clients -> [WKeys -> Nat]]
  /\ sent \in [Clients -> Nat]

Init ==
  /\ stable \in BOOLEAN /\ masterhost \in BOOLEAN
  /\ exists \in [WKeys -> BOOLEAN]
  /\ watchers = [k \in WKeys |-> [c \in Clients |-> 0]]
  /\ connected = [c \in Clients |-> FALSE]
  /\ flags = [c \in Clients |-> {}]
  /\ watched_keys = [c \in Clients |-> {}]
  /\ mstate = [c \in Clients |-> << >>]
  /\ version = [k \in WKeys |-> 0]
  /\ seen = [c \in Clients |-> [k \in WKeys |-> 0]]
  /\ sent = [c \in Clients |-> 0]

-----------------------------------------------------------------------------
(* The WATCH structures *)

\* unwatchAllKeys(): one occurrence of the client leaves the list of each key.
unwatchAllKeys(c) ==
  /\ watchers' = [k \in WKeys |-> IF k \in watched_keys[c]
                                  THEN [watchers[k] EXCEPT ![c] = @ - 1] ELSE watchers[k]]
  /\ watched_keys' = [watched_keys EXCEPT ![c] = {}]

\* touchWatchedKey() on each key of a set, for the lists w.
Touched(keys, w) == {c \in Clients : \E k \in keys : w[k][c] > 0}

\* The keys of a set are modified by a command: signalModifiedKey().
Modify(keys) ==
  /\ \A k \in keys : version[k] < MaxVersion[k]
  /\ version' = [k \in WKeys |-> IF k \in keys THEN version[k] + 1 ELSE version[k]]

Dirty(clients, f) == [c \in Clients |-> IF c \in clients THEN f[c] \cup {"DIRTY_CAS"} ELSE f[c]]

\* discardTransaction(), after its unwatchAllKeys().
Discarded(c, f) == [f EXCEPT ![c] = @ \ {"MULTI", "DIRTY_CAS", "DIRTY_EXEC"}]

-----------------------------------------------------------------------------
(* Commands *)

\* Mutant: the client is not added to the list of the key.
watchOneSide(c, k) ==
  /\ connected[c] /\ "MULTI" \notin flags[c]
  /\ k \notin watched_keys[c]
  /\ watched_keys' = [watched_keys EXCEPT ![c] = @ \cup {k}]
  /\ seen' = [seen EXCEPT ![c][k] = version[k]]
  /\ UNCHANGED <<masterhost, exists, watchers, connected, flags, mstate, version, sent>>

watchCommand(c, k) ==
  /\ connected[c] /\ "MULTI" \notin flags[c]
  /\ k \notin watched_keys[c]
  /\ watchers' = [watchers EXCEPT ![k][c] = @ + 1]
  /\ watched_keys' = [watched_keys EXCEPT ![c] = @ \cup {k}]
  /\ seen' = [seen EXCEPT ![c][k] = version[k]]
  /\ UNCHANGED <<masterhost, exists, connected, flags, mstate, version, sent>>

\* Mutant: the mark of an earlier touch survives UNWATCH.
unwatchStillDirty(c) ==
  /\ connected[c] /\ "MULTI" \notin flags[c]
  /\ unwatchAllKeys(c)
  /\ UNCHANGED <<masterhost, exists, connected, flags, mstate, version, seen, sent>>

unwatchCommand(c) ==
  /\ connected[c] /\ "MULTI" \notin flags[c]
  /\ unwatchAllKeys(c)
  /\ flags' = [flags EXCEPT ![c] = @ \ {"DIRTY_CAS"}]
  /\ UNCHANGED <<masterhost, exists, connected, mstate, version, seen, sent>>

multiCommand(c) ==
  /\ connected[c] /\ "MULTI" \notin flags[c]
  /\ flags' = [flags EXCEPT ![c] = @ \cup {"MULTI"}]
  /\ UNCHANGED <<masterhost, exists, watchers, connected, watched_keys, mstate,
                 version, seen, sent>>

discardCommand(c) ==
  /\ connected[c] /\ "MULTI" \in flags[c]
  /\ unwatchAllKeys(c)
  /\ flags' = Discarded(c, flags)
  /\ mstate' = [mstate EXCEPT ![c] = << >>]
  /\ sent' = [sent EXCEPT ![c] = 0]
  /\ UNCHANGED <<masterhost, exists, connected, version, seen>>

\* Mutant: a read-only slave takes writes.
NeverRefused(cmd) == FALSE

\* processCommand() refuses the writes of clients on a read-only slave.
Refused(cmd) == masterhost /\ cmd[1] = "set"

\* A command after MULTI that passes the checks of processCommand() is queued.
queueMultiCommand(c, cmd) ==
  /\ connected[c] /\ "MULTI" \in flags[c]
  /\ sent[c] < MaxQueue
  /\ ~Refused(cmd)
  /\ mstate' = [mstate EXCEPT ![c] = Append(@, cmd)]
  /\ sent' = [sent EXCEPT ![c] = @ + 1]
  /\ UNCHANGED <<masterhost, exists, watchers, connected, flags, watched_keys,
                 version, seen>>

\* Mutant: the error is reported and the transaction not marked.
ErrorNotFlagged(c) ==
  /\ connected[c] /\ "MULTI" \in flags[c]
  /\ sent[c] < MaxQueue
  /\ sent' = [sent EXCEPT ![c] = @ + 1]
  /\ UNCHANGED <<masterhost, exists, watchers, connected, flags, watched_keys, mstate,
                 version, seen>>

\* A command after MULTI that fails one of the checks that call flagTransaction():
\* unknown, wrong arity, out of memory, no good slaves, redirection ...
flagTransaction(c) ==
  /\ connected[c] /\ "MULTI" \in flags[c]
  /\ sent[c] < MaxQueue
  /\ flags' = [flags EXCEPT ![c] = @ \cup {"DIRTY_EXEC"}]
  /\ sent' = [sent EXCEPT ![c] = @ + 1]
  /\ UNCHANGED <<masterhost, exists, watchers, connected, watched_keys, mstate,
                 version, seen>>

\* The refusal of a write on a read-only slave does not call it.
RefuseReadOnly(c, cmd) ==
  /\ connected[c] /\ "MULTI" \in flags[c]
  /\ sent[c] < MaxQueue
  /\ Refused(cmd)
  /\ sent' = [sent EXCEPT ![c] = @ + 1]
  /\ UNCHANGED <<masterhost, exists, watchers, connected, flags, watched_keys,
                 mstate, version, seen>>

\* EXEC aborts when a watched key was touched or a command failed to be queued ...
ExecAborts(c) == flags[c] \cap {"DIRTY_CAS", "DIRTY_EXEC"} # {}

execCommandAborted(c) ==
  /\ connected[c] /\ "MULTI" \in flags[c]
  /\ ExecAborts(c)
  /\ unwatchAllKeys(c)
  /\ flags' = Discarded(c, flags)
  /\ mstate' = [mstate EXCEPT ![c] = << >>]
  /\ sent' = [sent EXCEPT ![c] = 0]
  /\ UNCHANGED <<masterhost, exists, connected, version, seen>>

\* ... otherwise unwatches first, then runs the commands with no check but theirs.
execCommand(c) ==
  LET written == {cmd[2] : cmd \in {mstate[c][i] : i \in {j \in DOMAIN mstate[c] :
                                                           mstate[c][j][1] = "set"}}}
  IN /\ connected[c] /\ "MULTI" \in flags[c]
     /\ ~ExecAborts(c)
     /\ unwatchAllKeys(c)
     /\ Modify(written)
     /\ exists' = [k \in WKeys |-> exists[k] \/ k \in written]
     /\ flags' = Discarded(c, Dirty(Touched(written, watchers'), flags))
     /\ mstate' = [mstate EXCEPT ![c] = << >>]
     /\ sent' = [sent EXCEPT ![c] = 0]
     /\ UNCHANGED <<masterhost, connected, seen>>

\* A write outside a transaction: a SET, or a DEL of a key that exists.
setCommand(c, k, present) ==
  /\ connected[c] /\ "MULTI" \notin flags[c]
  /\ ~Refused(<<"set", k>>)
  /\ present \/ exists[k]
  /\ Modify({k})
  /\ exists' = [exists EXCEPT ![k] = present]
  /\ flags' = Dirty(Touched({k}, watchers), flags)
  /\ UNCHANGED <<masterhost, watchers, connected, watched_keys, mstate, seen, sent>>

\* FLUSHDB, FLUSHALL, or the flush before a slave loads its master's file:
\* touchWatchedKeysOnFlush() looks at the lists of the clients.
touchWatchedKeysOnFlush(dbs) ==
  LET gone == {k \in WKeys : k[1] \in dbs /\ exists[k]}
  IN /\ Modify(gone)
     /\ exists' = [k \in WKeys |-> exists[k] /\ k \notin gone]
     /\ flags' = Dirty({c \in Clients : watched_keys[c] \cap gone # {}}, flags)
     /\ UNCHANGED <<masterhost, watchers, connected, watched_keys, mstate, seen, sent>>

\* A key expires or is evicted: dbDelete() without signalModifiedKey().
keyExpires(k) ==
  /\ exists[k]
  /\ exists' = [exists EXCEPT ![k] = FALSE]
  /\ UNCHANGED <<masterhost, watchers, connected, flags, watched_keys, mstate,
                 version, seen, sent>>

createClient(c) ==
  /\ ~connected[c]
  /\ connected' = [connected EXCEPT ![c] = TRUE]
  /\ UNCHANGED <<masterhost, exists, watchers, flags, watched_keys, mstate,
                 version, seen, sent>>

\* Mutant: the freed client stays in the lists of its keys.
freeClientWatching(c) ==
  /\ connected[c]
  /\ connected' = [connected EXCEPT ![c] = FALSE]
  /\ watched_keys' = [watched_keys EXCEPT ![c] = {}]
  /\ flags' = [flags EXCEPT ![c] = {}]
  /\ mstate' = [mstate EXCEPT ![c] = << >>]
  /\ sent' = [sent EXCEPT ![c] = 0]
  /\ UNCHANGED <<masterhost, exists, watchers, version, seen>>

\* freeClient(): the lists of the keys must not keep the client.
freeClient(c) ==
  /\ connected[c]
  /\ connected' = [connected EXCEPT ![c] = FALSE]
  /\ unwatchAllKeys(c)
  /\ flags' = [flags EXCEPT ![c] = {}]
  /\ mstate' = [mstate EXCEPT ![c] = << >>]
  /\ sent' = [sent EXCEPT ![c] = 0]
  /\ UNCHANGED <<masterhost, exists, version, seen>>

\* SLAVEOF: this server becomes a slave, or a master.
slaveofCommand ==
  /\ masterhost' = ~masterhost
  /\ UNCHANGED <<exists, watchers, connected, flags, watched_keys, mstate,
                 version, seen, sent>>

ClientStep(c) ==
  \/ createClient(c) \/ freeClient(c)
  \/ unwatchCommand(c) \/ multiCommand(c) \/ discardCommand(c)
  \/ execCommandAborted(c) \/ execCommand(c) \/ flagTransaction(c)
  \/ \E k \in WKeys : watchCommand(c, k)
  \/ \E k \in WKeys, present \in BOOLEAN : setCommand(c, k, present)
  \/ \E cmd \in Commands : queueMultiCommand(c, cmd) \/ RefuseReadOnly(c, cmd)

Next ==
  /\ \/ \E c \in Clients : ClientStep(c)
     \/ \E dbs \in {{d} : d \in DBs} \cup {DBs} : touchWatchedKeysOnFlush(dbs)
     \/ \E k \in WKeys : keyExpires(k)
     \/ ~stable /\ slaveofCommand
  /\ UNCHANGED stable

Spec == Init /\ [][Next]_vars

-----------------------------------------------------------------------------
(* Properties *)

\* The two sides of WATCH agree: a client is in the list of a key exactly once
\* if the key is in its own list and not at all otherwise, so that a freed or
\* unwatching client leaves no pointer behind and no touch is missed.
WatchListsAgree ==
  \A c \in Clients, k \in WKeys :
    watchers[k][c] = IF k \in watched_keys[c] THEN 1 ELSE 0

\* Check-and-set: a transaction is marked to fail as soon as a command of anyone
\* modified a key it watches, and only then, so EXEC runs on keys no command
\* changed since WATCH, and a client nobody disturbed is not aborted.
WatchSound ==
  \A c \in Clients :
    "DIRTY_CAS" \in flags[c] <=> \E k \in watched_keys[c] : version[k] # seen[c][k]

\* "Should be called every time there is an error while queueing a command"
\* (flagTransaction): a transaction EXEC would run has all the commands sent.
AllQueuedOrFlagged ==
  \A c \in Clients :
    "MULTI" \in flags[c] /\ "DIRTY_EXEC" \notin flags[c] => sent[c] = Len(mstate[c])

\* "Don't accept write commands if this is a read only slave" (processCommand):
\* what a client queued before must not get round it.
NoClientWrite == \A c \in Clients : execCommand(c) => version' = version

\* Both, as long as the server's role does not change; the first on a master (the
\* READONLY refusal of a slave does not flag the transaction), the second on a slave.
TransactionsWhole ==
  /\ [](stable /\ ~masterhost => AllQueuedOrFlagged)
  /\ [][stable /\ masterhost => NoClientWrite]_vars
=============================================================================
