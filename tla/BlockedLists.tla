---------------------------- MODULE BlockedLists ----------------------------
(***************************************************************************)
(* Blocking list operations: BLPOP, BRPOP and BRPOPLPUSH of t_list.c, with *)
(* blocked.c and the places of redis.c, networking.c and db.c they meet.   *)
(*                                                                         *)
(* A client that finds its keys absent waits in the list of each of them.  *)
(* A push that creates one of the keys marks it ready; when the command,   *)
(* transaction or script is over, handleClientsBlockedOnLists() serves the *)
(* clients, the longest waiting first.  Serving BRPOPLPUSH pushes in turn. *)
(*                                                                         *)
(* The list of the clients that wait for a key is represented by its       *)
(* members and the turn at which each of them began to wait.  Elements are *)
(* numbers, in the order they were first pushed.  replica is what a slave, *)
(* or a replay of the AOF, makes of the commands propagated so far.        *)
(***************************************************************************)
EXTENDS Integers, Sequences, FiniteSets

CONSTANTS ListClients, ListKeys, NoKey,
          MaxPush,    \* bound: elements pushed in a run
          MaxBlock    \* bound: times a client blocks

ASSUME BlockedAssumption ==
  /\ NoKey \notin ListKeys
  /\ IsFiniteSet(ListClients)
  /\ MaxPush \in Nat /\ MaxBlock \in Nat

VARIABLES
  lists,          \* the lists; an empty one is an absent key
  strings,        \* keys that hold a value of another type
  moved,          \* keys whose list RENAME (like RESTORE, SORT STORE) put in place
  blocking_keys,  \* db->blocking_keys: the clients waiting for each key
  bpop,           \* c->bpop: keys waited for, target, end to pop, turn
  ready_keys,     \* server.ready_keys
  phase,          \* "idle", "exec" (inside MULTI/EXEC or a script), "serve"
  serving,        \* the key being served and the clients left of numclients
  pushed, gone, blocks,  \* elements pushed; popped or deleted; blocks so far
  replica

listVars == <<lists, strings, moved, pushed, gone, replica>>
waitVars == <<blocking_keys, bpop, blocks>>
blockVars == <<listVars, waitVars, ready_keys, phase, serving>>

Ends       == {"head", "tail"}
NotBlocked == [keys |-> {}, target |-> NoKey, where |-> "tail", since |-> 0]
NotServing == [key |-> NoKey, left |-> 0]

----------------------------------------------------------------------------
(* Operations on the lists. *)

listTypePush(l, k, es, where) ==
  [l EXCEPT ![k] = IF where = "head" THEN es \o @ ELSE @ \o es]
Popped(l, k, where) == IF where = "head" THEN l[k][1] ELSE l[k][Len(l[k])]

\* Mutant of listTypePop: BLPOP gets the first element, the last one is removed.
listTypePopTail(l, k, where) == [l EXCEPT ![k] = SubSeq(@, 1, Len(@) - 1)]

listTypePop(l, k, where) ==
  [l EXCEPT ![k] = IF where = "head" THEN SubSeq(@, 2, Len(@)) ELSE SubSeq(@, 1, Len(@) - 1)]

Elems(s) == {s[i] : i \in 1..Len(s)}

\* A key is in the database: the one being served stays there until it is done.
Exists(k) == lists[k] # <<>> \/ k \in strings \/ k = serving.key

\* A key RENAME filled is like any other once it is gone.
StillMoved(m, l) == {k \in m : l[k] # <<>>}

----------------------------------------------------------------------------
(* Blocking and unblocking. *)

\* Mutant of unblockClient: it is removed only from the key that served it.
unblockFromFirst(c) ==
  /\ blocking_keys' = [k \in ListKeys |-> IF k = serving.key THEN blocking_keys[k] \ {c} ELSE blocking_keys[k]]
  /\ bpop' = [bpop EXCEPT ![c] = NotBlocked]

\* unblockClient(), with unblockClientWaitingData(): out of every list.
unblockClient(c) ==
  /\ blocking_keys' = [k \in ListKeys |-> IF k \in bpop[c].keys THEN blocking_keys[k] \ {c}
                                     ELSE blocking_keys[k]]
  /\ bpop' = [bpop EXCEPT ![c] = NotBlocked]

\* blockForKeys(): a key given twice counts once.
blockForKeys(c, ks, target, where) ==
  /\ blocks < MaxBlock /\ blocks' = blocks + 1
  /\ bpop' = [bpop EXCEPT ![c] = [keys |-> ks, target |-> target, where |-> where,
                                  since |-> blocks + 1]]
  /\ blocking_keys' = [k \in ListKeys |-> IF k \in ks THEN blocking_keys[k] \union {c}
                                     ELSE blocking_keys[k]]

\* Mutant of signalListAsReady: a key that is queued already is queued again.
signalAgain(ready, waiting, k) ==
  IF waiting[k] = {} THEN ready ELSE Append(ready, k)

\* signalListAsReady(): queued unless nobody waits or it is queued already.
signalListAsReady(ready, waiting, k) ==
  IF waiting[k] = {} \/ \E i \in 1..Len(ready) : ready[i] = k
  THEN ready ELSE Append(ready, k)

----------------------------------------------------------------------------
(* Commands.  Outside a transaction, processCommand() goes on to serve the *)
(* keys that are ready; inside, that waits for the end of EXEC.             *)

Running == phase \in {"idle", "exec"}
Then(ready) ==
  /\ ready_keys' = ready
  /\ phase' = IF phase = "idle" /\ ready # <<>> THEN "serve" ELSE phase

execStart ==
  /\ phase = "idle" /\ phase' = "exec"
  /\ UNCHANGED <<listVars, waitVars, ready_keys, serving>>

execEnd ==
  /\ phase = "exec"
  /\ phase' = IF ready_keys = <<>> THEN "idle" ELSE "serve"
  /\ UNCHANGED <<listVars, waitVars, ready_keys, serving>>

\* LPUSH and RPUSH with n values: clients can wait only if the key is absent.
NewElems(n, where) ==
  [i \in 1..n |-> IF where = "head" THEN pushed + n + 1 - i ELSE pushed + i]

pushGenericCommand(k, n, where) ==
  /\ Running /\ k \notin strings /\ pushed + n <= MaxPush
  /\ Then(IF lists[k] = <<>> THEN signalListAsReady(ready_keys, blocking_keys, k) ELSE ready_keys)
  /\ lists' = listTypePush(lists, k, NewElems(n, where), where)
  /\ replica' = listTypePush(replica, k, NewElems(n, where), where)
  /\ pushed' = pushed + n
  /\ UNCHANGED <<strings, moved, gone, waitVars, serving>>

\* LPOP and RPOP, and BLPOP and BRPOP when a key has a list: the same command
\* is propagated.  The key given first that exists decides.
popGenericCommand(k, where) ==
  /\ Running /\ lists[k] # <<>>
  /\ lists' = listTypePop(lists, k, where)
  /\ replica' = listTypePop(replica, k, where)
  /\ gone' = gone \union {Popped(lists, k, where)}
  /\ moved' = StillMoved(moved, lists')
  /\ UNCHANGED <<strings, pushed, waitVars, ready_keys, phase, serving>>

\* BLPOP and BRPOP when none of the keys exists; inside MULTI they only reply.
blockingPopGenericCommand(c, ks, where) ==
  /\ phase = "idle" /\ bpop[c].keys = {}
  /\ \A k \in ks : ~Exists(k)
  /\ blockForKeys(c, ks, NoKey, where)
  /\ UNCHANGED <<listVars, ready_keys, phase, serving>>

\* RPOPLPUSH, and BRPOPLPUSH when the source has a list.
rpoplpushCommand(src, dst) ==
  /\ Running /\ lists[src] # <<>> /\ dst \notin strings
  /\ LET e == Popped(lists, src, "tail")
         move(l) == listTypePush(listTypePop(l, src, "tail"), dst, <<e>>, "head")
     IN  lists' = move(lists) /\ replica' = move(replica)
  /\ Then(IF lists[dst] = <<>> THEN signalListAsReady(ready_keys, blocking_keys, dst) ELSE ready_keys)
  /\ moved' = StillMoved(moved, lists')
  /\ UNCHANGED <<strings, pushed, gone, waitVars, serving>>

brpoplpushCommand(c, src, dst) ==
  /\ phase = "idle" /\ bpop[c].keys = {}
  /\ ~Exists(src)
  /\ blockForKeys(c, {src}, dst, "tail")
  /\ UNCHANGED <<listVars, ready_keys, phase, serving>>

\* DEL, expiration, and SET, which replaces a value of any type.
Removed(k) ==
  /\ lists' = [lists EXCEPT ![k] = <<>>] /\ replica' = [replica EXCEPT ![k] = <<>>]
  /\ gone' = gone \union Elems(lists[k])
  /\ moved' = moved \ {k}

delCommand(k) ==
  /\ Running /\ Exists(k)
  /\ Removed(k)
  /\ strings' = strings \ {k}
  /\ UNCHANGED <<pushed, waitVars, ready_keys, phase, serving>>

setKey(k) ==
  /\ Running /\ k \notin strings
  /\ Removed(k)
  /\ strings' = strings \union {k}
  /\ UNCHANGED <<pushed, waitVars, ready_keys, phase, serving>>

\* RENAME of a list: nothing is signalled for the new name.
renameGenericCommand(src, dst) ==
  /\ Running /\ src # dst /\ lists[src] # <<>>
  /\ LET move(l) == [l EXCEPT ![dst] = l[src], ![src] = <<>>]
     IN  lists' = move(lists) /\ replica' = move(replica)
  /\ gone' = gone \union Elems(lists[dst])
  /\ strings' = strings \ {dst}
  /\ moved' = (moved \ {src}) \union {dst}
  /\ UNCHANGED <<pushed, waitVars, ready_keys, phase, serving>>

\* The timeout passes, or the connection is closed: freeClient() and
\* clientsCronHandleTimeout() both unblock the client.
Unblocked(c) ==
  /\ phase = "idle" /\ bpop[c].keys # {}
  /\ unblockClient(c)
  /\ UNCHANGED <<listVars, blocks, ready_keys, phase, serving>>

----------------------------------------------------------------------------
(* handleClientsBlockedOnLists() *)

\* Mutant of NextReady: one client too few is served.
NextReadyOneLess ==
  /\ phase = "serve" /\ serving = NotServing /\ ready_keys # <<>>
  /\ ready_keys' = Tail(ready_keys)
  /\ serving' = LET k == Head(ready_keys)
                IN  IF lists[k] # <<>> /\ Cardinality(blocking_keys[k]) > 1
                    THEN [key |-> k, left |-> Cardinality(blocking_keys[k]) - 1]
                    ELSE NotServing
  /\ UNCHANGED <<listVars, waitVars, phase>>

\* The next ready key, if it still holds a list.
NextReady ==
  /\ phase = "serve" /\ serving = NotServing /\ ready_keys # <<>>
  /\ ready_keys' = Tail(ready_keys)
  /\ serving' = LET k == Head(ready_keys)
                IN  IF lists[k] # <<>> /\ blocking_keys[k] # {}
                    THEN [key |-> k, left |-> Cardinality(blocking_keys[k])]
                    ELSE NotServing
  /\ UNCHANGED <<listVars, waitVars, phase>>

\* The first in the list of the key.
First(k) == CHOOSE c \in blocking_keys[k] :
              \A d \in blocking_keys[k] : bpop[c].since <= bpop[d].since

\* Mutant of propagateServed: a BRPOPLPUSH is propagated as its pop alone.
propagatePopOnly(k, dst, e, where) == replica' = listTypePop(replica, k, where)

\* The pop, and for BRPOPLPUSH the push, are propagated as two commands.
propagateServed(k, dst, e, where) ==
  replica' = IF dst = NoKey THEN listTypePop(replica, k, where)
             ELSE listTypePush(listTypePop(replica, k, where), dst, <<e>>, "head")

\* The target has another type: the client gets an error, the element goes back.
UndoPop(k, e, where) == lists' = listTypePush(listTypePop(lists, k, where), k, <<e>>, where)

\* One client is unblocked and given an element.
serveClientBlockedOnList ==
  /\ phase = "serve" /\ serving.left > 0 /\ lists[serving.key] # <<>>
  /\ serving' = [serving EXCEPT !.left = @ - 1]
  /\ LET k == serving.key
         c == First(k)
         dst == bpop[c].target
         where == bpop[c].where
         e == Popped(lists, k, where)
     IN  /\ unblockClient(c)
         /\ \/ /\ dst \in strings
               /\ UndoPop(k, e, where)
               /\ UNCHANGED <<gone, ready_keys, replica>>
            \/ /\ dst = NoKey
               /\ lists' = listTypePop(lists, k, where)
               /\ gone' = gone \union {e}
               /\ propagateServed(k, dst, e, where)
               /\ UNCHANGED ready_keys
            \/ /\ dst \in ListKeys \ strings
               /\ lists' = listTypePush(listTypePop(lists, k, where), dst, <<e>>, "head")
               /\ ready_keys' = IF Exists(dst) THEN ready_keys
                                ELSE signalListAsReady(ready_keys, blocking_keys', dst)
               /\ propagateServed(k, dst, e, where)
               /\ UNCHANGED gone
  /\ moved' = StillMoved(moved, lists')
  /\ UNCHANGED <<strings, pushed, blocks, phase>>

\* All served, or no element left: the key is deleted if it is empty.
KeyServed ==
  /\ phase = "serve" /\ serving # NotServing
  /\ serving.left = 0 \/ lists[serving.key] = <<>>
  /\ serving' = NotServing
  /\ UNCHANGED <<listVars, waitVars, ready_keys, phase>>

AllServed ==
  /\ phase = "serve" /\ serving = NotServing /\ ready_keys = <<>>
  /\ phase' = "idle"
  /\ UNCHANGED <<listVars, waitVars, ready_keys, serving>>

----------------------------------------------------------------------------
BlockInit ==
  /\ lists = [k \in ListKeys |-> <<>>] /\ replica = lists
  /\ strings = {} /\ moved = {}
  /\ blocking_keys = [k \in ListKeys |-> {}] /\ bpop = [c \in ListClients |-> NotBlocked]
  /\ ready_keys = <<>> /\ phase = "idle" /\ serving = NotServing
  /\ pushed = 0 /\ gone = {} /\ blocks = 0

Command ==
  \/ execStart \/ execEnd
  \/ \E k \in ListKeys, where \in Ends : \/ \E n \in 1..2 : pushGenericCommand(k, n, where)
                                     \/ popGenericCommand(k, where)
  \/ \E k \in ListKeys : delCommand(k) \/ setKey(k)
  \/ \E src, dst \in ListKeys : rpoplpushCommand(src, dst) \/ renameGenericCommand(src, dst)

Blocking ==
  \E c \in ListClients :
    \/ \E ks \in SUBSET ListKeys \ {{}}, where \in Ends : blockingPopGenericCommand(c, ks, where)
    \/ \E src, dst \in ListKeys : brpoplpushCommand(c, src, dst)
    \/ Unblocked(c)

Serving == NextReady \/ serveClientBlockedOnList \/ KeyServed \/ AllServed

BlockNext == Command \/ Blocking \/ Serving

BlockSpec == BlockInit /\ [][BlockNext]_blockVars

----------------------------------------------------------------------------
(* Properties. *)

Bpop == [keys : SUBSET ListKeys, target : ListKeys \union {NoKey}, where : Ends, since : Nat]

\* Every variable keeps its type; a key is queued once (the assertion in
\* signalListAsReady() that it was not yet in db->ready_keys).
BlockTypeOK ==
  /\ lists \in [ListKeys -> Seq(Nat)] /\ replica \in [ListKeys -> Seq(Nat)]
  /\ strings \subseteq ListKeys /\ moved \subseteq ListKeys
  /\ blocking_keys \in [ListKeys -> SUBSET ListClients] /\ bpop \in [ListClients -> Bpop]
  /\ ready_keys \in Seq(ListKeys)
  /\ \A i, j \in 1..Len(ready_keys) : ready_keys[i] = ready_keys[j] => i = j
  /\ phase \in {"idle", "exec", "serve"}
  /\ serving \in [key : ListKeys \union {NoKey}, left : Nat]
  /\ pushed \in Nat /\ gone \subseteq Nat /\ blocks \in Nat

\* The two sides of a wait agree: a client is in the list of a key exactly when
\* the key is among those it waits for, so nobody is served twice or kept in a
\* list after a timeout or a disconnection.
WaitListsAgree ==
  \A c \in ListClients, k \in ListKeys : c \in blocking_keys[k] <=> k \in bpop[c].keys

\* Between commands nobody waits for a key that holds a list, unless RENAME put
\* the list there: no push is missed, whatever a transaction did after it and
\* however many BRPOPLPUSH were served in turn.
NoMissedWakeup ==
  phase = "idle" =>
    \A k \in ListKeys \ moved : lists[k] # <<>> => blocking_keys[k] = {}

\* Every element pushed is in one list, once, or was popped or deleted: serving
\* clients, and undoing it when a BRPOPLPUSH cannot push, loses and repeats none.
EachElementOnce ==
  /\ \A k, m \in ListKeys, i, j \in 1..MaxPush :
       i <= Len(lists[k]) /\ j <= Len(lists[m]) /\ lists[k][i] = lists[m][j] => k = m /\ i = j
  /\ UNION {Elems(lists[k]) : k \in ListKeys} = (1..pushed) \ gone

\* The commands propagated rebuild the lists, step by step, with the elements in
\* the same order.
ReplicaAgrees == replica = lists
============================================================================
