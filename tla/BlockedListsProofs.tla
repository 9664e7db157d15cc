------------------------- MODULE BlockedListsProofs -------------------------
(***************************************************************************)
(* Proofs about BlockedLists, for any clients, keys and bounds.            *)
(*                                                                         *)
(* NoMissedWakeup is about the states between two commands and is not      *)
(* inductive.  What every step preserves is Wake: a key with a list and    *)
(* waiting clients is queued in ready_keys or is the one being served.  To *)
(* leave the latter safely, the clients left of numclients must be exactly *)
(* those still waiting for that key (Left).                                *)
(***************************************************************************)
EXTENDS BlockedLists, FiniteSetTheorems, SequenceTheorems, WellFoundedInduction,
        TLAPS

Lists == [ListKeys -> Seq(Nat)]
Queued(ready, k) == \E i \in 1..Len(ready) : ready[i] = k
Distinct(ready) == \A i, j \in 1..Len(ready) : ready[i] = ready[j] => i = j

\* Between commands nothing is queued, and a key is served only in its phase.
Phases ==
  /\ phase = "idle" => ready_keys = <<>>
  /\ phase # "serve" => serving = NotServing
  /\ serving.key = NoKey => serving = NotServing

Left == serving.key \in ListKeys => serving.left = Cardinality(blocking_keys[serving.key])

Wake ==
  \A k \in ListKeys \ moved :
    lists[k] # <<>> /\ blocking_keys[k] # {} => Queued(ready_keys, k) \/ k = serving.key

Inv == BlockTypeOK /\ WaitListsAgree /\ Phases /\ Left /\ Wake /\ ReplicaAgrees

----------------------------------------------------------------------------
(* The operations on lists and on ready_keys. *)

\* listTypePush() changes one list, and leaves it a list.
LEMMA PushIsList ==
  ASSUME NEW l \in Lists, NEW k \in ListKeys, NEW es \in Seq(Nat), NEW where
  PROVE  /\ listTypePush(l, k, es, where) \in Lists
         /\ \A m \in ListKeys \ {k} : listTypePush(l, k, es, where)[m] = l[m]
  BY DEF Lists, listTypePush

\* listTypePop() of a list that is not empty.
LEMMA PopIsList ==
  ASSUME NEW l \in Lists, NEW k \in ListKeys, l[k] # <<>>, NEW where
  PROVE  /\ listTypePop(l, k, where) \in Lists
         /\ \A m \in ListKeys \ {k} : listTypePop(l, k, where)[m] = l[m]
         /\ Popped(l, k, where) \in Nat
<1>1. l[k] \in Seq(Nat) /\ Len(l[k]) \in Nat \ {0}
  BY DEF Lists
<1>2. /\ SubSeq(l[k], 2, Len(l[k])) \in Seq(Nat)
      /\ SubSeq(l[k], 1, Len(l[k]) - 1) \in Seq(Nat)
  BY <1>1
<1>3. l[k][1] \in Nat /\ l[k][Len(l[k])] \in Nat
  BY <1>1
<1> QED
  BY <1>2, <1>3 DEF Lists, listTypePop, Popped

\* What is popped and pushed back at the same end leaves the list as it was.
LEMMA PopPush ==
  ASSUME NEW l \in Lists, NEW k \in ListKeys, l[k] # <<>>, NEW where
  PROVE  listTypePush(listTypePop(l, k, where), k, <<Popped(l, k, where)>>, where) = l
<1> DEFINE s == l[k]
<1>1. s \in Seq(Nat) /\ Len(s) \in Nat \ {0}
  BY DEF Lists
<1>2. <<s[1]>> \o SubSeq(s, 2, Len(s)) = s
  BY <1>1
<1>3. SubSeq(s, 1, Len(s) - 1) \o <<s[Len(s)]>> = s
  <2> DEFINE u == SubSeq(s, 1, Len(s) - 1)
  <2> DEFINE v == u \o <<s[Len(s)]>>
  <2>1. u \in Seq(Nat) /\ Len(u) = Len(s) - 1 /\ \A i \in 1..Len(s) - 1 : u[i] = s[i]
    BY <1>1
  <2> HIDE DEF s, u
  <2>2. s[Len(s)] \in Nat
    BY <1>1
  <2>3. v \in Seq(Nat) /\ Len(v) = Len(s) /\ \A i \in 1..Len(s) : v[i] = s[i]
    BY <1>1, <2>1, <2>2
  <2> HIDE DEF v
  <2>4. v = s
    BY <1>1, <2>3, SeqEqual
  <2> QED
    BY <2>4 DEF u, v
<1> HIDE DEF s
<1>4. \A t : [l EXCEPT ![k] = t] \in [ListKeys -> UNION {Seq(Nat), {t}}]
              /\ [l EXCEPT ![k] = t][k] = t
  BY DEF Lists
<1>5. [[l EXCEPT ![k] = SubSeq(s, 2, Len(s))] EXCEPT ![k] = s] = l
  BY DEF s, Lists
<1>6. [[l EXCEPT ![k] = SubSeq(s, 1, Len(s) - 1)] EXCEPT ![k] = s] = l
  BY DEF s, Lists
<1>7. CASE where = "head"
  BY <1>2, <1>4, <1>5, <1>7 DEF listTypePush, listTypePop, Popped, s
<1>8. CASE where # "head"
  BY <1>3, <1>4, <1>6, <1>8 DEF listTypePush, listTypePop, Popped, s
<1> QED
  BY <1>7, <1>8

\* signalListAsReady() keeps what is queued, queues no key twice, and queues
\* the key if clients wait for it.
LEMMA Signal ==
  ASSUME NEW ready \in Seq(ListKeys), Distinct(ready), NEW waiting, NEW k \in ListKeys
  PROVE  LET r == signalListAsReady(ready, waiting, k)
         IN  /\ r \in Seq(ListKeys) /\ Distinct(r)
             /\ \A m \in ListKeys : Queued(ready, m) => Queued(r, m)
             /\ waiting[k] # {} => Queued(r, k)
<1>1. CASE waiting[k] = {} \/ \E i \in 1..Len(ready) : ready[i] = k
  BY <1>1 DEF signalListAsReady, Queued
<1>2. CASE ~(waiting[k] = {} \/ \E i \in 1..Len(ready) : ready[i] = k)
  <2> DEFINE r == Append(ready, k)
  <2>1. signalListAsReady(ready, waiting, k) = r
    BY <1>2 DEF signalListAsReady
  <2>2. /\ r \in Seq(ListKeys) /\ Len(r) = Len(ready) + 1 /\ r[Len(r)] = k
        /\ \A i \in 1..Len(ready) : r[i] = ready[i]
    OBVIOUS
  <2> HIDE DEF r
  <2>3. Distinct(r)
    BY <1>2, <2>2 DEF Distinct
  <2>4. Queued(r, k) /\ \A m \in ListKeys : Queued(ready, m) => Queued(r, m)
    BY <2>2 DEF Queued
  <2> QED
    BY <2>1, <2>2, <2>3, <2>4
<1> QED
  BY <1>1, <1>2

----------------------------------------------------------------------------
(* Steps that do not serve. *)

\* The initial state.
LEMMA InitInv == BlockInit => Inv
<1> SUFFICES ASSUME BlockInit PROVE Inv
  OBVIOUS
<1>0. <<>> \in Seq(Nat) /\ <<>> \in Seq(ListKeys)
  OBVIOUS
<1>1. BlockTypeOK
  BY <1>0 DEF BlockInit, BlockTypeOK, Bpop, NotBlocked, NotServing, Ends
<1>2. WaitListsAgree /\ Phases /\ ReplicaAgrees
  BY DEF BlockInit, WaitListsAgree, Phases, ReplicaAgrees, NotBlocked, NotServing
<1>3. Left /\ Wake
  BY BlockedAssumption DEF BlockInit, Left, Wake, NotServing
<1> QED
  BY <1>1, <1>2, <1>3 DEF Inv

\* Any command but those that block: it is enough that it keeps the types and
\* the replica, and queues the keys it fills for clients that wait.
LEMMA CommandStep ==
  ASSUME Inv, Running,
         lists' \in Lists, replica' = lists', strings' \subseteq ListKeys, moved' \subseteq ListKeys,
         pushed' \in Nat, gone' \subseteq Nat, UNCHANGED <<waitVars, serving>>,
         ready_keys' \in Seq(ListKeys), Distinct(ready_keys'),
         phase' = IF phase = "idle" /\ ready_keys' # <<>> THEN "serve" ELSE phase,
         \A k \in ListKeys \ moved' :
           lists'[k] # <<>> /\ blocking_keys[k] # {} => Queued(ready_keys', k)
  PROVE  Inv'
<1>1. BlockTypeOK'
  BY DEF Inv, BlockTypeOK, Lists, Distinct, waitVars
<1>2. WaitListsAgree' /\ Left' /\ ReplicaAgrees'
  BY DEF Inv, WaitListsAgree, Left, ReplicaAgrees, waitVars
<1>3. Phases' /\ Wake'
  BY DEF Inv, BlockTypeOK, Phases, Wake, Running, waitVars, NotServing
<1> QED
  BY <1>1, <1>2, <1>3 DEF Inv

\* What holds in a state where a command can run.
LEMMA RunningState ==
  ASSUME Inv, Running
  PROVE  /\ lists \in Lists /\ replica = lists
         /\ ready_keys \in Seq(ListKeys) /\ Distinct(ready_keys)
         /\ phase = (IF phase = "idle" /\ ready_keys # <<>> THEN "serve" ELSE phase)
         /\ \A k \in ListKeys \ moved :
              lists[k] # <<>> /\ blocking_keys[k] # {} => Queued(ready_keys, k)
<1>1. serving.key \notin ListKeys
  BY BlockedAssumption DEF Inv, Phases, Running, NotServing
<1> QED
  BY <1>1 DEF Inv, BlockTypeOK, Lists, Distinct, ReplicaAgrees, Phases, Wake, Running

\* A command that takes elements away, or puts a whole list in place without a
\* signal, and queues nothing.
LEMMA QuietStep ==
  ASSUME Inv, Running,
         lists' \in Lists, replica' = lists', strings' \subseteq ListKeys, moved' \subseteq ListKeys,
         pushed' \in Nat, gone' \subseteq Nat,
         UNCHANGED <<waitVars, ready_keys, phase, serving>>,
         \A k \in ListKeys \ moved' : lists'[k] # <<>> => lists[k] # <<>> /\ k \notin moved
  PROVE  Inv'
<1>1. \A k \in ListKeys \ moved' :
        lists'[k] # <<>> /\ blocking_keys[k] # {} => Queued(ready_keys', k)
  BY RunningState
<1>2. /\ ready_keys' \in Seq(ListKeys) /\ Distinct(ready_keys')
      /\ phase' = IF phase = "idle" /\ ready_keys' # <<>> THEN "serve" ELSE phase
  BY RunningState
<1> QED
  BY <1>1, <1>2, CommandStep

LEMMA ElemsNat == ASSUME NEW l \in Lists, NEW k \in ListKeys PROVE Elems(l[k]) \subseteq Nat
  BY DEF Elems, Lists

\* LPUSH and RPUSH.
LEMMA PushInv ==
  ASSUME Inv, NEW k \in ListKeys, NEW n \in 1..2, NEW where \in Ends, pushGenericCommand(k, n, where)
  PROVE  Inv'
<1> DEFINE es == NewElems(n, where)
<1>0. Running /\ pushed \in Nat
  BY DEF pushGenericCommand, Inv, BlockTypeOK
<1>1. es \in Seq(Nat)
  BY <1>0 DEF NewElems
<1> HIDE DEF es
<1>2. /\ lists' \in Lists /\ replica' = lists'
      /\ \A m \in ListKeys \ {k} : lists'[m] = lists[m]
  BY <1>0, <1>1, RunningState, PushIsList DEF pushGenericCommand, es
<1>3. /\ strings' \subseteq ListKeys /\ moved' \subseteq ListKeys /\ moved' = moved
      /\ pushed' \in Nat /\ gone' \subseteq Nat /\ UNCHANGED <<waitVars, serving>>
  BY <1>0 DEF pushGenericCommand, Inv, BlockTypeOK
<1>4. /\ ready_keys' \in Seq(ListKeys) /\ Distinct(ready_keys')
      /\ \A m \in ListKeys : Queued(ready_keys, m) => Queued(ready_keys', m)
      /\ lists[k] = <<>> /\ blocking_keys[k] # {} => Queued(ready_keys', k)
  BY <1>0, RunningState, Signal DEF pushGenericCommand, Then
<1>5. phase' = IF phase = "idle" /\ ready_keys' # <<>> THEN "serve" ELSE phase
  BY DEF pushGenericCommand, Then
<1>6. \A m \in ListKeys \ moved' :
        lists'[m] # <<>> /\ blocking_keys[m] # {} => Queued(ready_keys', m)
  BY <1>0, <1>2, <1>3, <1>4, RunningState
<1> QED
  BY <1>0, <1>2, <1>3, <1>4, <1>5, <1>6, CommandStep

\* LPOP, RPOP, and BLPOP, BRPOP that do not block.
LEMMA PopInv ==
  ASSUME Inv, NEW k \in ListKeys, NEW where \in Ends, popGenericCommand(k, where)
  PROVE  Inv'
<1>1. Running /\ lists \in Lists /\ replica = lists /\ lists[k] # <<>>
  BY RunningState DEF popGenericCommand
<1>2. /\ lists' \in Lists /\ replica' = lists' /\ Popped(lists, k, where) \in Nat
      /\ \A m \in ListKeys \ {k} : lists'[m] = lists[m]
  BY <1>1, PopIsList DEF popGenericCommand
<1>3. /\ strings' \subseteq ListKeys /\ moved' \subseteq ListKeys /\ pushed' \in Nat /\ gone' \subseteq Nat
      /\ UNCHANGED <<waitVars, ready_keys, phase, serving>>
  BY <1>2 DEF popGenericCommand, Inv, BlockTypeOK, StillMoved
<1>4. \A m \in ListKeys \ moved' : lists'[m] # <<>> => lists[m] # <<>> /\ m \notin moved
  BY <1>1, <1>2 DEF popGenericCommand, StillMoved
<1> QED
  BY <1>1, <1>2, <1>3, <1>4, QuietStep

\* RPOPLPUSH, and BRPOPLPUSH that does not block.
LEMMA MoveInv ==
  ASSUME Inv, NEW src \in ListKeys, NEW dst \in ListKeys, rpoplpushCommand(src, dst)
  PROVE  Inv'
<1> DEFINE e == Popped(lists, src, "tail")
<1> DEFINE es == <<e>>
<1> DEFINE l == listTypePop(lists, src, "tail")
<1>0. Running /\ lists \in Lists /\ replica = lists /\ lists[src] # <<>>
  BY RunningState DEF rpoplpushCommand
<1>1. l \in Lists /\ e \in Nat /\ \A m \in ListKeys \ {src} : l[m] = lists[m]
  BY <1>0, PopIsList
<1>2. es \in Seq(Nat)
  BY <1>1
<1>3. lists' = listTypePush(l, dst, es, "head") /\ replica' = lists'
  BY <1>0 DEF rpoplpushCommand
<1> HIDE DEF e, es, l
<1>4. lists' \in Lists /\ \A m \in ListKeys \ {src, dst} : lists'[m] = lists[m]
  BY <1>1, <1>2, <1>3, PushIsList
<1>5. /\ strings' \subseteq ListKeys /\ moved' \subseteq ListKeys
      /\ pushed' \in Nat /\ gone' \subseteq Nat /\ UNCHANGED <<waitVars, serving>>
      /\ \A m \in moved \ moved' : lists'[m] = <<>>
  BY DEF rpoplpushCommand, Inv, BlockTypeOK, StillMoved
<1>6. /\ ready_keys' \in Seq(ListKeys) /\ Distinct(ready_keys')
      /\ \A m \in ListKeys : Queued(ready_keys, m) => Queued(ready_keys', m)
      /\ lists[dst] = <<>> /\ blocking_keys[dst] # {} => Queued(ready_keys', dst)
  BY <1>0, RunningState, Signal DEF rpoplpushCommand, Then
<1>7. phase' = IF phase = "idle" /\ ready_keys' # <<>> THEN "serve" ELSE phase
  BY DEF rpoplpushCommand, Then
<1>8. \A m \in ListKeys \ moved' :
        lists'[m] # <<>> /\ blocking_keys[m] # {} => Queued(ready_keys', m)
  BY <1>0, <1>4, <1>5, <1>6, RunningState
<1> QED
  BY <1>0, <1>3, <1>4, <1>5, <1>6, <1>7, <1>8, CommandStep

\* DEL, SET and RENAME.
LEMMA RemoveInv ==
  ASSUME Inv, NEW k \in ListKeys, delCommand(k) \/ setKey(k)
  PROVE  Inv'
<1>1. Running /\ Removed(k) /\ strings' \subseteq ListKeys
      /\ UNCHANGED <<pushed, waitVars, ready_keys, phase, serving>>
  BY DEF delCommand, setKey, Inv, BlockTypeOK
<1>2. lists \in Lists /\ replica = lists /\ Elems(lists[k]) \subseteq Nat
  BY <1>1, RunningState, ElemsNat
<1>3. /\ lists' \in Lists /\ replica' = lists'
      /\ lists'[k] = <<>> /\ \A m \in ListKeys \ {k} : lists'[m] = lists[m]
  BY <1>1, <1>2 DEF Removed, Lists
<1>4. moved' = moved \ {k} /\ moved' \subseteq ListKeys /\ pushed' \in Nat /\ gone' \subseteq Nat
  BY <1>1, <1>2 DEF Removed, Inv, BlockTypeOK
<1> QED
  BY <1>1, <1>3, <1>4, QuietStep

LEMMA RenameInv ==
  ASSUME Inv, NEW src \in ListKeys, NEW dst \in ListKeys, renameGenericCommand(src, dst)
  PROVE  Inv'
<1>1. /\ Running /\ strings' \subseteq ListKeys /\ moved' = (moved \ {src}) \union {dst}
      /\ UNCHANGED <<pushed, waitVars, ready_keys, phase, serving>>
  BY DEF renameGenericCommand, Inv, BlockTypeOK
<1>2. lists \in Lists /\ replica = lists /\ Elems(lists[dst]) \subseteq Nat
  BY <1>1, RunningState, ElemsNat
<1>3. /\ lists' \in Lists /\ replica' = lists' /\ lists'[src] = <<>>
      /\ \A m \in ListKeys \ {src, dst} : lists'[m] = lists[m]
  BY <1>2 DEF renameGenericCommand, Lists
<1>4. moved' \subseteq ListKeys /\ pushed' \in Nat /\ gone' \subseteq Nat
  BY <1>1, <1>2 DEF renameGenericCommand, Inv, BlockTypeOK
<1> QED
  BY <1>1, <1>3, <1>4, QuietStep

\* MULTI/EXEC or a script begins or ends.
LEMMA ExecInv == ASSUME Inv, execStart \/ execEnd PROVE Inv'
<1>1. UNCHANGED <<listVars, waitVars, ready_keys, serving>> /\ Running
  BY DEF execStart, execEnd, Running
<1>2. BlockTypeOK' /\ WaitListsAgree' /\ ReplicaAgrees'
  BY <1>1 DEF Inv, BlockTypeOK, WaitListsAgree, ReplicaAgrees, execStart, execEnd, listVars, waitVars
<1>3. Left' /\ Wake'
  BY <1>1 DEF Inv, Left, Wake, listVars, waitVars
<1>4. Phases'
  BY <1>1 DEF Inv, Phases, execStart, execEnd, Running
<1> QED
  BY <1>2, <1>3, <1>4 DEF Inv

\* A client begins to wait for keys that do not exist.
LEMMA BlockInv ==
  ASSUME Inv, NEW c \in ListClients, NEW ks \in SUBSET ListKeys, NEW dst \in ListKeys \union {NoKey},
         NEW where \in Ends, phase = "idle", bpop[c].keys = {}, \A k \in ks : ~Exists(k),
         blockForKeys(c, ks, dst, where), UNCHANGED <<listVars, ready_keys, phase, serving>>
  PROVE  Inv'
<1>1. bpop' \in [ListClients -> Bpop] /\ blocking_keys' \in [ListKeys -> SUBSET ListClients] /\ blocks' \in Nat
  BY DEF blockForKeys, Inv, BlockTypeOK, Bpop
<1>2. BlockTypeOK'
  BY <1>1 DEF Inv, BlockTypeOK, listVars
<1>3. WaitListsAgree'
  BY DEF blockForKeys, Inv, BlockTypeOK, WaitListsAgree, Bpop
<1>4. serving = NotServing /\ serving.key \notin ListKeys
  BY BlockedAssumption DEF Inv, Phases, NotServing
<1>5. Left' /\ Phases' /\ ReplicaAgrees'
  BY <1>4 DEF Inv, Left, Phases, ReplicaAgrees, listVars
<1>6. \A k \in ks : lists[k] = <<>>
  BY DEF Exists
<1>7. Wake'
  BY <1>6 DEF Inv, Wake, BlockTypeOK, blockForKeys, listVars
<1> QED
  BY <1>2, <1>3, <1>5, <1>7 DEF Inv

\* unblockClient() takes the client out of every list.
LEMMA UnblockAgrees ==
  ASSUME BlockTypeOK, WaitListsAgree, NEW c \in ListClients, unblockClient(c)
  PROVE  /\ bpop' \in [ListClients -> Bpop] /\ blocking_keys' \in [ListKeys -> SUBSET ListClients]
         /\ WaitListsAgree'
         /\ \A k \in ListKeys : blocking_keys'[k] = blocking_keys[k] \ {c}
<1>1. NotBlocked \in Bpop
  BY DEF NotBlocked, Bpop, Ends
<1>2. bpop' \in [ListClients -> Bpop] /\ blocking_keys' \in [ListKeys -> SUBSET ListClients]
  BY <1>1 DEF unblockClient, BlockTypeOK
<1>3. \A k \in ListKeys : blocking_keys'[k] = blocking_keys[k] \ {c}
  BY DEF unblockClient, BlockTypeOK, WaitListsAgree
<1>4. bpop'[c].keys = {} /\ \A d \in ListClients \ {c} : bpop'[d] = bpop[d]
  BY DEF unblockClient, BlockTypeOK, NotBlocked
<1>5. WaitListsAgree'
  BY <1>3, <1>4 DEF WaitListsAgree
<1> QED
  BY <1>2, <1>3, <1>5

\* Timeout or disconnection.
LEMMA UnblockedInv == ASSUME Inv, NEW c \in ListClients, Unblocked(c) PROVE Inv'
<1>1. /\ unblockClient(c) /\ phase = "idle" /\ BlockTypeOK /\ WaitListsAgree
      /\ UNCHANGED <<listVars, blocks, ready_keys, phase, serving>>
  BY DEF Unblocked, Inv
<1>2. /\ bpop' \in [ListClients -> Bpop] /\ blocking_keys' \in [ListKeys -> SUBSET ListClients]
      /\ WaitListsAgree' /\ \A k \in ListKeys : blocking_keys'[k] \subseteq blocking_keys[k]
  BY <1>1, UnblockAgrees
<1>3. BlockTypeOK'
  BY <1>1, <1>2 DEF BlockTypeOK, listVars
<1>4. serving = NotServing /\ serving.key \notin ListKeys
  BY <1>1, BlockedAssumption DEF Inv, Phases, NotServing
<1>5. Left' /\ Phases' /\ ReplicaAgrees'
  BY <1>1, <1>4 DEF Inv, Left, Phases, ReplicaAgrees, listVars
<1>6. Wake'
  BY <1>1, <1>2 DEF Inv, Wake, listVars
<1> QED
  BY <1>2, <1>3, <1>5, <1>6 DEF Inv

----------------------------------------------------------------------------
(* handleClientsBlockedOnLists() *)

\* A nonempty set of clients has one that waits longest.
LEMMA FirstWaits ==
  ASSUME BlockTypeOK, NEW k \in ListKeys, blocking_keys[k] # {}
  PROVE  First(k) \in blocking_keys[k]
<1> DEFINE T == {bpop[c].since : c \in blocking_keys[k]}
<1> DEFINE Less == OpToRel(<, Nat)
<1>0. /\ IsWellFoundedOn(Less, Nat)
      /\ \A p \in Nat \X Nat : p[1] < p[2] => p \in Less
  BY NatLessThanWellFounded DEF OpToRel
<1>1. T \subseteq Nat /\ T # {}
  BY DEF BlockTypeOK, Bpop
<1> HIDE DEF T, Less
<1>2. PICK x \in T : \A y \in T : ~ (<<y, x>> \in Less)
  BY <1>0, <1>1, WFMin
<1>3. ASSUME NEW y \in T PROVE x <= y
  <2> DEFINE yx == <<y, x>>
  <2>1. x \in Nat /\ y \in Nat /\ yx \notin Less
    BY <1>1, <1>2
  <2>2. yx \in Nat \X Nat /\ yx[1] = y /\ yx[2] = x
    BY <2>1
  <2> HIDE DEF yx
  <2> QED
    BY <1>0, <2>1, <2>2
<1>4. \E c \in blocking_keys[k] : \A d \in blocking_keys[k] : bpop[c].since <= bpop[d].since
  BY <1>3 DEF T
<1> QED
  BY <1>4 DEF First

\* The number of clients that wait for a key.
LEMMA Waiters ==
  ASSUME BlockTypeOK, NEW k \in ListKeys
  PROVE  /\ Cardinality(blocking_keys[k]) \in Nat
         /\ Cardinality(blocking_keys[k]) = 0 <=> blocking_keys[k] = {}
         /\ \A c \in blocking_keys[k] :
              Cardinality(blocking_keys[k] \ {c}) = Cardinality(blocking_keys[k]) - 1
<1>1. IsFiniteSet(blocking_keys[k])
  BY BlockedAssumption, FS_Subset DEF BlockTypeOK
<1> QED
  BY <1>1, FS_CardinalityType, FS_EmptySet, FS_RemoveElement

\* The next key is taken from ready_keys.
LEMMA NextReadyInv == ASSUME Inv, NextReady PROVE Inv'
<1> DEFINE k == Head(ready_keys)
<1> DEFINE served == lists[k] # <<>> /\ blocking_keys[k] # {}
<1>0. /\ BlockTypeOK /\ WaitListsAgree /\ Phases /\ Wake /\ ReplicaAgrees
      /\ phase = "serve" /\ serving = NotServing
      /\ ready_keys \in Seq(ListKeys) /\ ready_keys # <<>> /\ Distinct(ready_keys)
      /\ UNCHANGED <<lists, strings, moved, pushed, gone, replica, blocking_keys, bpop, blocks, phase>>
  BY DEF NextReady, Inv, BlockTypeOK, Distinct, listVars, waitVars
<1>1. /\ k \in ListKeys /\ ready_keys' \in Seq(ListKeys) /\ Distinct(ready_keys')
      /\ \A m \in ListKeys : Queued(ready_keys, m) => m = k \/ Queued(ready_keys', m)
  <2>1. /\ k \in ListKeys /\ k = ready_keys[1] /\ ready_keys' \in Seq(ListKeys)
        /\ Len(ready_keys') = Len(ready_keys) - 1
        /\ \A i \in 1..Len(ready_keys') : ready_keys'[i] = ready_keys[i + 1]
    BY <1>0 DEF NextReady
  <2>2. Distinct(ready_keys')
    BY <1>0, <2>1 DEF Distinct
  <2>3. ASSUME NEW m \in ListKeys, NEW i \in 1..Len(ready_keys), ready_keys[i] = m, m # k
        PROVE  Queued(ready_keys', m)
    <3>1. i - 1 \in 1..Len(ready_keys') /\ ready_keys'[i - 1] = m
      BY <1>0, <2>1, <2>3
    <3> QED
      BY <3>1 DEF Queued
  <2> QED
    BY <2>1, <2>2, <2>3 DEF Queued
<1>2. serving' = IF served THEN [key |-> k, left |-> Cardinality(blocking_keys[k])] ELSE NotServing
  BY DEF NextReady
<1>3. Cardinality(blocking_keys[k]) \in Nat
  BY <1>0, <1>1, Waiters
<1> HIDE DEF k
<1>4. serving' \in [key : ListKeys \union {NoKey}, left : Nat] /\ serving'.key = (IF served THEN k ELSE NoKey)
  BY <1>1, <1>2, <1>3 DEF NotServing
<1>5. BlockTypeOK' /\ WaitListsAgree' /\ ReplicaAgrees'
  BY <1>0, <1>1, <1>4 DEF BlockTypeOK, Distinct, WaitListsAgree, ReplicaAgrees
<1>6. Phases' /\ Left'
  BY <1>0, <1>1, <1>2, BlockedAssumption DEF Phases, Left, NotServing
<1>7. Wake'
  BY <1>0, <1>1, <1>4, BlockedAssumption DEF Wake, NotServing
<1> QED
  BY <1>5, <1>6, <1>7 DEF Inv

\* One client is served.  The key served stays the same; the target of a
\* BRPOPLPUSH is queued if it did not exist and clients wait for it.
LEMMA ServeInv == ASSUME Inv, serveClientBlockedOnList PROVE Inv'
<1> DEFINE k == serving.key
<1> DEFINE c == First(k)
<1> DEFINE dst == bpop[c].target
<1> DEFINE where == bpop[c].where
<1> DEFINE e == Popped(lists, k, where)
<1> DEFINE es == <<e>>
<1> DEFINE l == listTypePop(lists, k, where)
<1>0. /\ BlockTypeOK /\ WaitListsAgree /\ Phases /\ Left /\ Wake /\ ReplicaAgrees
      /\ phase = "serve" /\ serving.left > 0 /\ lists[k] # <<>>
      /\ lists \in Lists /\ ready_keys \in Seq(ListKeys) /\ Distinct(ready_keys) /\ replica = lists
      /\ UNCHANGED <<strings, pushed, blocks, phase>>
  BY DEF serveClientBlockedOnList, Inv, BlockTypeOK, Distinct, Lists, ReplicaAgrees
<1>1. k \in ListKeys
  BY <1>0 DEF BlockTypeOK, Phases, NotServing
<1>2. c \in blocking_keys[k] /\ c \in ListClients
  BY <1>0, <1>1, Waiters, FirstWaits DEF Left, BlockTypeOK
<1>3. dst \in ListKeys \union {NoKey}
  BY <1>0, <1>2 DEF BlockTypeOK, Bpop
<1>4. l \in Lists /\ e \in Nat /\ es \in Seq(Nat) /\ \A m \in ListKeys \ {k} : l[m] = lists[m]
  BY <1>0, <1>1, PopIsList
<1>5. listTypePush(l, k, es, where) = lists
  BY <1>0, <1>1, PopPush
<1>6. unblockClient(c) /\ serving' = [serving EXCEPT !.left = @ - 1] /\ moved' = StillMoved(moved, lists')
  BY DEF serveClientBlockedOnList
<1>7. \/ /\ dst \in strings /\ UndoPop(k, e, where)
         /\ UNCHANGED <<gone, ready_keys, replica>>
      \/ /\ dst = NoKey /\ lists' = l /\ gone' = gone \union {e}
         /\ propagateServed(k, dst, e, where) /\ UNCHANGED ready_keys
      \/ /\ dst \in ListKeys \ strings /\ lists' = listTypePush(l, dst, es, "head")
         /\ ready_keys' = (IF Exists(dst) THEN ready_keys
                           ELSE signalListAsReady(ready_keys, blocking_keys', dst))
         /\ propagateServed(k, dst, e, where) /\ UNCHANGED gone
  BY DEF serveClientBlockedOnList
<1>8. /\ bpop' \in [ListClients -> Bpop] /\ blocking_keys' \in [ListKeys -> SUBSET ListClients]
      /\ WaitListsAgree' /\ \A m \in ListKeys : blocking_keys'[m] = blocking_keys[m] \ {c}
  BY <1>0, <1>2, <1>6, UnblockAgrees
<1>9. /\ lists' \in Lists /\ replica' = lists' /\ gone' \subseteq Nat
      /\ ready_keys' \in Seq(ListKeys) /\ Distinct(ready_keys')
      /\ \A m \in ListKeys : Queued(ready_keys, m) => Queued(ready_keys', m)
      /\ \A m \in ListKeys \ {k} : lists'[m] # <<>> =>
           \/ lists[m] # <<>>
           \/ blocking_keys'[m] # {} => Queued(ready_keys', m)
  <2>0. gone \subseteq Nat /\ strings \subseteq ListKeys
    BY <1>0 DEF BlockTypeOK
  <2>1. CASE /\ dst \in strings /\ UndoPop(k, e, where)
             /\ UNCHANGED <<gone, ready_keys, replica>>
    <3>1. lists' = lists
      BY <1>5, <2>1 DEF UndoPop
    <3> QED
      BY <1>0, <2>0, <2>1, <3>1
  <2>2. CASE /\ dst = NoKey /\ lists' = l /\ gone' = gone \union {e}
             /\ propagateServed(k, dst, e, where) /\ UNCHANGED ready_keys
    <3>1. replica' = lists'
      BY <1>0, <2>2 DEF propagateServed
    <3> HIDE DEF k, e, l, dst
    <3> QED
      BY <1>0, <1>4, <2>0, <2>2, <3>1
  <2>3. CASE /\ dst \in ListKeys \ strings /\ lists' = listTypePush(l, dst, es, "head")
             /\ ready_keys' = (IF Exists(dst) THEN ready_keys
                               ELSE signalListAsReady(ready_keys, blocking_keys', dst))
             /\ propagateServed(k, dst, e, where) /\ UNCHANGED gone
    <3>1. replica' = lists'
      BY <1>0, <2>3, BlockedAssumption DEF propagateServed
    <3> HIDE DEF k, c, e, es, l, where, dst
    <3>2. lists' \in Lists /\ \A m \in ListKeys \ {dst} : lists'[m] = l[m]
      BY <1>4, <2>3, PushIsList
    <3>3. /\ ready_keys' \in Seq(ListKeys) /\ Distinct(ready_keys')
          /\ \A m \in ListKeys : Queued(ready_keys, m) => Queued(ready_keys', m)
          /\ ~Exists(dst) /\ blocking_keys'[dst] # {} => Queued(ready_keys', dst)
      BY <1>0, <2>3, Signal
    <3>4. Exists(dst) => lists[dst] # <<>> \/ dst = k
      BY <2>3 DEF Exists, k
    <3> QED
      BY <1>4, <2>0, <2>3, <3>1, <3>2, <3>3, <3>4
  <2> QED
    BY <1>7, <2>1, <2>2, <2>3
<1> HIDE DEF c, e, es, l, where, dst
<1>10. /\ serving' \in [key : ListKeys \union {NoKey}, left : Nat]
       /\ serving'.key = k /\ serving'.left = serving.left - 1
  <2>1. serving \in [key : ListKeys \union {NoKey}, left : Nat] /\ serving.left > 0
    BY <1>0 DEF BlockTypeOK
  <2>2. serving' = [serving EXCEPT !.left = @ - 1]
    BY <1>6
  <2> QED
    BY <2>1, <2>2
<1>11. BlockTypeOK'
  BY <1>0, <1>6, <1>8, <1>9, <1>10 DEF BlockTypeOK, Lists, Distinct, StillMoved
<1>12. Left' /\ Phases'
  <2>1. serving.left = Cardinality(blocking_keys[k]) /\ blocking_keys'[k] = blocking_keys[k] \ {c}
    BY <1>0, <1>1, <1>8 DEF Left
  <2>2. Cardinality(blocking_keys'[k]) = serving.left - 1
    <3>1. \A d \in blocking_keys[k] :
            Cardinality(blocking_keys[k] \ {d}) = Cardinality(blocking_keys[k]) - 1
      BY <1>0, <1>1, Waiters
    <3> QED
      BY <1>2, <2>1, <3>1
  <2>3. Left'
    BY <1>10, <2>2 DEF Left
  <2>4. Phases'
    BY <1>0, <1>1, <1>10, BlockedAssumption DEF Phases
  <2> QED
    BY <2>3, <2>4
<1>13. Wake'
  <2> SUFFICES ASSUME NEW m \in ListKeys \ moved', lists'[m] # <<>>, blocking_keys'[m] # {}, m # k
               PROVE  Queued(ready_keys', m)
    BY <1>10 DEF Wake
  <2>1. m \notin moved /\ blocking_keys[m] # {}
    BY <1>6, <1>8 DEF StillMoved
  <2> QED
    BY <1>0, <1>9, <2>1 DEF Wake
<1> QED
  BY <1>8, <1>9, <1>11, <1>12, <1>13 DEF Inv, ReplicaAgrees

\* The key is done: no client or no element is left.
LEMMA KeyServedInv == ASSUME Inv, KeyServed PROVE Inv'
<1>0. /\ BlockTypeOK /\ WaitListsAgree /\ Phases /\ Left /\ Wake /\ ReplicaAgrees
      /\ phase = "serve" /\ serving # NotServing /\ serving' = NotServing
      /\ UNCHANGED <<lists, strings, moved, pushed, gone, replica>>
      /\ UNCHANGED <<blocking_keys, bpop, blocks, ready_keys, phase>>
  BY DEF KeyServed, Inv, listVars, waitVars
<1>1. serving.key \in ListKeys
  BY <1>0 DEF BlockTypeOK, Phases
<1>2. lists[serving.key] = <<>> \/ blocking_keys[serving.key] = {}
  BY <1>0, <1>1, Waiters DEF KeyServed, Left
<1>3. BlockTypeOK'
  BY <1>0 DEF BlockTypeOK, NotServing
<1>4. WaitListsAgree' /\ ReplicaAgrees'
  BY <1>0 DEF WaitListsAgree, ReplicaAgrees
<1>5. Phases' /\ Left'
  BY <1>0, BlockedAssumption DEF Phases, Left, NotServing
<1>6. Wake'
  BY <1>0, <1>2 DEF Wake
<1> QED
  BY <1>3, <1>4, <1>5, <1>6 DEF Inv

LEMMA AllServedInv == ASSUME Inv, AllServed PROVE Inv'
<1>1. UNCHANGED <<listVars, waitVars, ready_keys, serving>>
  BY DEF AllServed
<1>2. BlockTypeOK' /\ WaitListsAgree' /\ ReplicaAgrees'
  BY <1>1 DEF Inv, BlockTypeOK, WaitListsAgree, ReplicaAgrees, AllServed, listVars, waitVars
<1>3. Left' /\ Wake' /\ Phases'
  BY <1>1 DEF Inv, Left, Wake, Phases, AllServed, listVars, waitVars
<1> QED
  BY <1>2, <1>3 DEF Inv

----------------------------------------------------------------------------
(* The theorems. *)

LEMMA NextInv == Inv /\ [BlockNext]_blockVars => Inv'
<1> SUFFICES ASSUME Inv, [BlockNext]_blockVars PROVE Inv'
  OBVIOUS
<1>1. CASE Command
  BY <1>1, ExecInv, PushInv, PopInv, RemoveInv, MoveInv, RenameInv DEF Command
<1>2. ASSUME NEW c \in ListClients, NEW ks \in SUBSET ListKeys \ {{}}, NEW where \in Ends,
             blockingPopGenericCommand(c, ks, where)
      PROVE  Inv'
  BY <1>2, BlockInv DEF blockingPopGenericCommand
<1>3. ASSUME NEW c \in ListClients, NEW src \in ListKeys, NEW dst \in ListKeys, brpoplpushCommand(c, src, dst)
      PROVE  Inv'
  <2>1. {src} \in SUBSET ListKeys /\ "tail" \in Ends /\ \A k \in {src} : ~Exists(k)
    BY <1>3 DEF Ends, brpoplpushCommand
  <2> QED
    BY <1>3, <2>1, BlockInv DEF brpoplpushCommand
<1>4. CASE Blocking
  BY <1>2, <1>3, <1>4, UnblockedInv DEF Blocking
<1>5. CASE Serving
  BY <1>5, NextReadyInv, ServeInv, KeyServedInv, AllServedInv DEF Serving
<1>6. CASE UNCHANGED blockVars
  BY <1>6 DEF blockVars, listVars, waitVars, Inv, BlockTypeOK, WaitListsAgree, Phases, Left, Wake, ReplicaAgrees
<1> QED
  BY <1>1, <1>4, <1>5, <1>6 DEF BlockNext

\* Type correctness, and no key queued twice in ready_keys.
THEOREM BlockedTypeOK == BlockSpec => []BlockTypeOK
<1>1. Inv => BlockTypeOK
  BY DEF Inv
<1> QED
  BY <1>1, InitInv, NextInv, PTL DEF BlockSpec

\* A client is in the list of exactly the keys it waits for, whatever the order
\* of blocking, serving, timeouts and disconnections.
THEOREM BlockedWaitLists == BlockSpec => []WaitListsAgree
<1>1. Inv => WaitListsAgree
  BY DEF Inv
<1> QED
  BY <1>1, InitInv, NextInv, PTL DEF BlockSpec

\* Between commands nobody waits for a key that a push filled.
THEOREM BlockedNoMissedWakeup == BlockSpec => []NoMissedWakeup
<1>1. Inv => NoMissedWakeup
  BY BlockedAssumption DEF Inv, Wake, Phases, NoMissedWakeup, Queued, NotServing
<1> QED
  BY <1>1, InitInv, NextInv, PTL DEF BlockSpec

\* The propagated commands rebuild the lists.
THEOREM BlockedReplica == BlockSpec => []ReplicaAgrees
<1>1. Inv => ReplicaAgrees
  BY DEF Inv
<1> QED
  BY <1>1, InitInv, NextInv, PTL DEF BlockSpec

----------------------------------------------------------------------------
(* Where the elements are. *)

Inj(s) == \A i, j \in 1..Len(s) : s[i] = s[j] => i = j
All(l) == UNION {Elems(l[k]) : k \in ListKeys}
Once(l) ==
  /\ \A k \in ListKeys : Inj(l[k])
  /\ \A k, m \in ListKeys : k # m => Elems(l[k]) \cap Elems(l[m]) = {}

LEMMA JoinElems ==
  ASSUME NEW s \in Seq(Nat), NEW t \in Seq(Nat)
  PROVE  /\ Elems(s \o t) = Elems(s) \cup Elems(t)
         /\ Inj(s) /\ Inj(t) /\ Elems(s) \cap Elems(t) = {} => Inj(s \o t)
<1> DEFINE u == s \o t
           n == Len(s)
           m == Len(t)
<1>1. /\ n \in Nat /\ m \in Nat /\ Len(u) = n + m
      /\ \A i \in 1..n : u[i] = s[i]
      /\ \A i \in 1..m : u[i + n] = t[i]
  OBVIOUS
<1> HIDE DEF u
<1>2. ASSUME NEW i \in 1..Len(u)
      PROVE  (i \in 1..n /\ u[i] = s[i]) \/ (i - n \in 1..m /\ u[i] = t[i - n])
  <2>1. CASE i <= n
    BY <1>1, <2>1
  <2>2. CASE ~ (i <= n)
    <3>1. i - n \in 1..m /\ (i - n) + n = i
      BY <1>1, <2>2
    <3> QED BY <1>1, <3>1
  <2> QED BY <2>1, <2>2
<1>3. Elems(u) \subseteq Elems(s) \cup Elems(t)
  BY <1>2 DEF Elems
<1>4. ASSUME NEW i \in 1..n PROVE s[i] \in Elems(u)
  <2>1. i \in 1..Len(u)
    BY <1>1
  <2> QED BY <1>1, <2>1 DEF Elems
<1>5. ASSUME NEW i \in 1..m PROVE t[i] \in Elems(u)
  <2>1. i + n \in 1..Len(u)
    BY <1>1
  <2> QED BY <1>1, <2>1 DEF Elems
<1>6. ASSUME Inj(s), Inj(t), Elems(s) \cap Elems(t) = {}, NEW i \in 1..Len(u), NEW j \in 1..Len(u), u[i] = u[j]
      PROVE  i = j
  <2>1. CASE i \in 1..n /\ u[i] = s[i] /\ j \in 1..n /\ u[j] = s[j]
    BY <1>6, <2>1 DEF Inj
  <2>2. CASE i - n \in 1..m /\ u[i] = t[i - n] /\ j - n \in 1..m /\ u[j] = t[j - n]
    <3>1. i - n = j - n
      BY <1>6, <2>2 DEF Inj
    <3> QED BY <1>1, <3>1
  <2>3. CASE i \in 1..n /\ u[i] = s[i] /\ j - n \in 1..m /\ u[j] = t[j - n]
    BY <1>6, <2>3 DEF Elems
  <2>4. CASE i - n \in 1..m /\ u[i] = t[i - n] /\ j \in 1..n /\ u[j] = s[j]
    BY <1>6, <2>4 DEF Elems
  <2> QED BY <1>2, <2>1, <2>2, <2>3, <2>4
<1>7. Elems(u) = Elems(s) \cup Elems(t)
  BY <1>3, <1>4, <1>5 DEF Elems
<1>8. Inj(s) /\ Inj(t) /\ Elems(s) \cap Elems(t) = {} => Inj(u)
  BY <1>6 DEF Inj
<1> QED BY <1>7, <1>8 DEF u

\* The list without its first, or its last element.
Rest(s, where) == IF where = "head" THEN SubSeq(s, 2, Len(s)) ELSE SubSeq(s, 1, Len(s) - 1)
End(s, where) == IF where = "head" THEN s[1] ELSE s[Len(s)]

LEMMA DropElems ==
  ASSUME NEW s \in Seq(Nat), s # <<>>, Inj(s), NEW where
  PROVE  Elems(Rest(s, where)) = Elems(s) \ {End(s, where)} /\ Inj(Rest(s, where)) /\ End(s, where) \in Elems(s)
<1> DEFINE t == Rest(s, where)
           e == End(s, where)
<1>0. t = (IF where = "head" THEN SubSeq(s, 2, Len(s)) ELSE SubSeq(s, 1, Len(s) - 1)) /\ e = (IF where = "head" THEN s[1] ELSE s[Len(s)])
  BY DEF Rest, End
<1> HIDE DEF t, e
<1>1. Len(s) \in Nat \ {0}
  OBVIOUS
<1>2. CASE where = "head"
  <2>1. /\ Len(t) = Len(s) - 1 /\ \A i \in 1..Len(t) : t[i] = s[i + 1]
    <3> DEFINE n == Len(s)
    <3>1. t = SubSeq(s, 2, n) /\ n \in Nat \ {0}
      BY <1>0, <1>1, <1>2
    <3>2. \A i \in 2..n : s[i] \in Nat
      BY <3>1
    <3>3. Len(t) = (IF 2 <= n THEN n - 2 + 1 ELSE 0) /\ \A i \in 1..n - 2 + 1 : t[i] = s[2 + i - 1]
      BY <3>1, <3>2, SubSeqProperties
    <3> HIDE DEF n
    <3>4. CASE n = 1
      BY <3>1, <3>3, <3>4 DEF n
    <3>5. CASE n # 1
      <4>1. n >= 2 /\ n - 2 + 1 = n - 1 /\ \A i \in 1..n - 1 : i \in 1..n - 2 + 1 /\ 2 + i - 1 = i + 1
        BY <3>1, <3>5
      <4>2. Len(t) = n - 1
        BY <3>3, <4>1
      <4>3. \A i \in 1..n - 1 : t[i] = s[i + 1]
        BY <3>3, <4>1
      <4> QED BY <4>2, <4>3 DEF n
    <3> QED BY <3>4, <3>5
  <2>2. e = s[1] /\ 1 \in 1..Len(s)
    BY <1>0, <1>1, <1>2
  <2>3. ASSUME NEW i \in 1..Len(t) PROVE i + 1 \in 1..Len(s) /\ t[i] = s[i + 1] /\ s[i + 1] # e
    <3>1. i + 1 \in 1..Len(s) /\ i + 1 # 1
      BY <1>1, <2>1
    <3> QED BY <2>1, <2>2, <3>1 DEF Inj
  <2>4. ASSUME NEW i \in 1..Len(s), s[i] # e PROVE i - 1 \in 1..Len(t) /\ t[i - 1] = s[i]
    <3>1. i # 1
      BY <2>2, <2>4
    <3>2. i - 1 \in 1..Len(t) /\ (i - 1) + 1 = i
      BY <1>1, <2>1, <3>1
    <3> QED BY <2>1, <3>2
  <2>5. ASSUME NEW i \in 1..Len(t), NEW j \in 1..Len(t), t[i] = t[j] PROVE i = j
    <3>1. i + 1 = j + 1
      BY <2>3, <2>5 DEF Inj
    <3> QED BY <3>1
  <2>6. Elems(t) \subseteq Elems(s) \ {e} /\ e \in Elems(s)
    BY <2>2, <2>3 DEF Elems
  <2>7. Elems(s) \ {e} \subseteq Elems(t)
    BY <2>4 DEF Elems
  <2>8. Inj(t)
    BY <2>5 DEF Inj
  <2> QED BY <2>6, <2>7, <2>8 DEF t, e
<1>3. CASE where # "head"
  <2>1. /\ Len(t) = Len(s) - 1 /\ \A i \in 1..Len(t) : t[i] = s[i]
    <3> DEFINE n == Len(s)
    <3>1. t = SubSeq(s, 1, n - 1) /\ n \in Nat \ {0}
      BY <1>0, <1>1, <1>3
    <3>2. n - 1 \in Int /\ \A i \in 1..n - 1 : s[i] \in Nat
      BY <3>1
    <3>3. Len(t) = (IF 1 <= n - 1 THEN n - 1 - 1 + 1 ELSE 0) /\ \A i \in 1..n - 1 - 1 + 1 : t[i] = s[1 + i - 1]
      BY <3>1, <3>2, SubSeqProperties
    <3> HIDE DEF n
    <3>4. CASE n = 1
      BY <3>1, <3>3, <3>4 DEF n
    <3>5. CASE n # 1
      <4>1. n - 1 >= 1 /\ n - 1 - 1 + 1 = n - 1 /\ \A i \in 1..n - 1 : i \in 1..n - 1 - 1 + 1 /\ 1 + i - 1 = i
        BY <3>1, <3>5
      <4>2. Len(t) = n - 1
        BY <3>3, <4>1
      <4>3. \A i \in 1..n - 1 : t[i] = s[i]
        BY <3>3, <4>1
      <4> QED BY <4>2, <4>3 DEF n
    <3> QED BY <3>4, <3>5
  <2>2. e = s[Len(s)] /\ Len(s) \in 1..Len(s)
    BY <1>0, <1>1, <1>3
  <2>3. ASSUME NEW i \in 1..Len(t) PROVE i \in 1..Len(s) /\ t[i] = s[i] /\ s[i] # e
    <3>1. i \in 1..Len(s) /\ i # Len(s)
      BY <1>1, <2>1
    <3> QED BY <2>1, <2>2, <3>1 DEF Inj
  <2>4. ASSUME NEW i \in 1..Len(s), s[i] # e PROVE i \in 1..Len(t) /\ t[i] = s[i]
    <3>1. i # Len(s)
      BY <2>2, <2>4
    <3>2. i \in 1..Len(t)
      BY <1>1, <2>1, <3>1
    <3> QED BY <2>1, <3>2
  <2>5. Elems(t) \subseteq Elems(s) \ {e} /\ e \in Elems(s)
    <3>1. \A i \in 1..Len(t) : i \in 1..Len(s) /\ t[i] = s[i] /\ s[i] # e
      BY <2>3
    <3>2. ASSUME NEW x \in Elems(t) PROVE x \in Elems(s) \ {e}
      <4>1. PICK i \in 1..Len(t) : x = t[i]
        BY DEF Elems
      <4> QED BY <3>1, <4>1 DEF Elems
    <3> QED BY <2>2, <3>2 DEF Elems
  <2>6. Elems(s) \ {e} \subseteq Elems(t)
    BY <2>4 DEF Elems
  <2>7. Inj(t)
    BY <2>3 DEF Inj
  <2> QED BY <2>5, <2>6, <2>7 DEF t, e
<1> QED BY <1>2, <1>3

\* One list is replaced by another that takes no element of the others.
Put(l, k, t) == [l EXCEPT ![k] = t]
Others(l, k) == All(l) \ Elems(l[k])

LEMMA OneList ==
  ASSUME NEW l \in Lists, NEW k \in ListKeys, NEW t, Once(l), Inj(t), Elems(t) \cap Others(l, k) = {}
  PROVE  Once(Put(l, k, t)) /\ All(Put(l, k, t)) = Others(l, k) \cup Elems(t)
<1> DEFINE m == Put(l, k, t)
<1>1. m[k] = t /\ \A j \in ListKeys \ {k} : m[j] = l[j]
  BY DEF Lists, Put
<1> HIDE DEF m
<1>2. \A j \in ListKeys : Inj(m[j])
  BY <1>1 DEF Once
<1>3. \A j \in ListKeys : Elems(l[j]) \subseteq All(l) /\ (j # k => Elems(l[j]) \cap Elems(l[k]) = {})
  BY DEF All, Once
<1>4. \A j \in ListKeys \ {k} : Elems(l[j]) \cap Elems(t) = {}
  BY <1>3 DEF Others
<1>5. ASSUME NEW i \in ListKeys, NEW j \in ListKeys, i # j PROVE Elems(m[i]) \cap Elems(m[j]) = {}
  <2>1. CASE i = k
    BY <1>1, <1>4, <1>5, <2>1
  <2>2. CASE j = k
    BY <1>1, <1>4, <1>5, <2>2
  <2>3. CASE i # k /\ j # k
    BY <1>1, <1>5, <2>3 DEF Once
  <2> QED BY <2>1, <2>2, <2>3
<1>6. All(m) = Others(l, k) \cup Elems(t)
  <2>1. ASSUME NEW x PROVE x \in All(m) <=> x \in Elems(t) \/ \E j \in ListKeys \ {k} : x \in Elems(l[j])
    BY <1>1 DEF All
  <2>2. ASSUME NEW x PROVE x \in Others(l, k) <=> \E j \in ListKeys \ {k} : x \in Elems(l[j])
    BY <1>3 DEF All, Others
  <2> QED BY <2>1, <2>2
<1> QED BY <1>2, <1>5, <1>6 DEF Once, m

\* The elements of the lists are those pushed and not gone, each at one place.
Owned(l, p, g) == Once(l) /\ All(l) = (1..p) \ g /\ g \subseteq 1..p
Own == Owned(lists, pushed, gone)

LEMMA ElemsAll == ASSUME NEW l, NEW k \in ListKeys PROVE Elems(l[k]) \subseteq All(l)
  BY DEF All

\* listTypePop() takes one element out.
LEMMA PopOnce ==
  ASSUME NEW l \in Lists, Once(l), NEW k \in ListKeys, l[k] # <<>>, NEW where
  PROVE  /\ Once(listTypePop(l, k, where)) /\ All(listTypePop(l, k, where)) = All(l) \ {Popped(l, k, where)}
         /\ Popped(l, k, where) \in All(l)
<1> DEFINE s == l[k]
           t == Rest(s, where)
           e == End(s, where)
<1>1. s \in Seq(Nat) /\ Inj(s) /\ s # <<>> /\ Elems(s) \subseteq All(l)
  BY ElemsAll DEF Lists, Once
<1>2. Elems(t) = Elems(s) \ {e} /\ Inj(t) /\ e \in Elems(s)
  BY <1>1, DropElems
<1>3. listTypePop(l, k, where) = Put(l, k, t) /\ Popped(l, k, where) = e
  BY DEF listTypePop, Put, Popped, Rest, End
<1>4. Elems(t) \cap Others(l, k) = {}
  BY <1>2 DEF Others
<1> HIDE DEF t, e
<1>5. Once(Put(l, k, t)) /\ All(Put(l, k, t)) = Others(l, k) \cup Elems(t)
  BY <1>2, <1>4, OneList
<1> QED BY <1>1, <1>2, <1>3, <1>5 DEF Others

\* listTypePush() puts new elements in.
LEMMA PushOnce ==
  ASSUME NEW l \in Lists, Once(l), NEW k \in ListKeys, NEW es \in Seq(Nat), Inj(es), Elems(es) \cap All(l) = {}, NEW where
  PROVE  Once(listTypePush(l, k, es, where)) /\ All(listTypePush(l, k, es, where)) = All(l) \cup Elems(es)
<1> DEFINE s == l[k]
           t == IF where = "head" THEN es \o s ELSE s \o es
<1>1. s \in Seq(Nat) /\ Inj(s) /\ Elems(s) \subseteq All(l)
  BY ElemsAll DEF Lists, Once
<1>2. Elems(s) \cap Elems(es) = {} /\ Elems(es) \cap Elems(s) = {}
  BY <1>1
<1>3. Elems(t) = Elems(s) \cup Elems(es) /\ Inj(t)
  BY <1>1, <1>2, JoinElems
<1>4. listTypePush(l, k, es, where) = Put(l, k, t)
  BY DEF listTypePush, Put
<1>5. Elems(t) \cap Others(l, k) = {}
  BY <1>3 DEF Others
<1> HIDE DEF t
<1>6. Once(Put(l, k, t)) /\ All(Put(l, k, t)) = Others(l, k) \cup Elems(t)
  BY <1>3, <1>5, OneList
<1> QED BY <1>1, <1>3, <1>4, <1>6 DEF Others

LEMMA Single == ASSUME NEW e PROVE Inj(<<e>>) /\ Elems(<<e>>) = {e}
<1> DEFINE s == <<e>>
<1>1. Len(s) = 1 /\ s[1] = e /\ 1..Len(s) = {1}
  OBVIOUS
<1> HIDE DEF s
<1>2. Inj(s) /\ Elems(s) = {e}
  BY <1>1 DEF Inj, Elems
<1> QED BY <1>2 DEF s

\* RPOPLPUSH, and serving BRPOPLPUSH: what is popped is pushed.
LEMMA MoveOnce ==
  ASSUME NEW l \in Lists, Once(l), NEW src \in ListKeys, NEW dst \in ListKeys, l[src] # <<>>, NEW where, NEW to
  PROVE  LET m == listTypePush(listTypePop(l, src, where), dst, <<Popped(l, src, where)>>, to)
         IN  Once(m) /\ All(m) = All(l)
<1> DEFINE e == Popped(l, src, where)
           u == listTypePop(l, src, where)
           es == <<e>>
<1>1. u \in Lists /\ e \in Nat
  <2>1. listTypePop(l, src, where) \in Lists /\ Popped(l, src, where) \in Nat
    BY PopIsList
  <2> QED BY <2>1
<1>2. Once(u) /\ All(u) = All(l) \ {e} /\ e \in All(l)
  BY PopOnce
<1>3. es \in Seq(Nat) /\ Inj(es) /\ Elems(es) = {e}
  BY <1>1, Single
<1> HIDE DEF u, es, e
<1> DEFINE m == listTypePush(u, dst, es, to)
<1>5. Once(m) /\ All(m) = All(u) \cup Elems(es)
  <2>1. Elems(es) \cap All(u) = {}
    BY <1>2, <1>3
  <2> QED BY <1>1, <1>2, <1>3, <2>1, PushOnce
<1> QED BY <1>2, <1>3, <1>5 DEF u, es, e

LEMMA NewOnce ==
  ASSUME pushed \in Nat, NEW n \in 1..2, NEW where
  PROVE  Inj(NewElems(n, where)) /\ Elems(NewElems(n, where)) = (pushed + 1)..(pushed + n)
<1> DEFINE es == NewElems(n, where)
<1>1. n \in Nat /\ es = [i \in 1..n |-> IF where = "head" THEN pushed + n + 1 - i ELSE pushed + i] /\ Len(es) = n
  <2> DEFINE f(i) == IF where = "head" THEN pushed + n + 1 - i ELSE pushed + i
  <2>1. n \in Nat /\ es = [i \in 1..n |-> f(i)]
    BY DEF NewElems
  <2> HIDE DEF f, es
  <2>2. Len(es) = n
    BY <2>1
  <2> QED BY <2>1, <2>2 DEF f
<1> HIDE DEF es
<1>2. CASE where = "head"
  <2>1. \A i \in 1..n : es[i] = pushed + n + 1 - i
    BY <1>1, <1>2
  <2>2. Inj(es)
    BY <1>1, <2>1 DEF Inj
  <2>3. \A i \in 1..n : es[i] \in (pushed + 1)..(pushed + n)
    BY <1>1, <2>1
  <2>4. \A x \in (pushed + 1)..(pushed + n) : pushed + n + 1 - x \in 1..n /\ x = pushed + n + 1 - (pushed + n + 1 - x)
    BY <1>1
  <2>5. \A x \in (pushed + 1)..(pushed + n) : \E i \in 1..n : x = es[i]
    BY <2>1, <2>4
  <2> QED BY <1>1, <2>2, <2>3, <2>5 DEF Elems, es
<1>3. CASE where # "head"
  <2>1. \A i \in 1..n : es[i] = pushed + i
    BY <1>1, <1>3
  <2>2. Inj(es)
    BY <1>1, <2>1 DEF Inj
  <2>3. \A i \in 1..n : es[i] \in (pushed + 1)..(pushed + n)
    BY <1>1, <2>1
  <2>4. \A x \in (pushed + 1)..(pushed + n) : x - pushed \in 1..n /\ x = pushed + (x - pushed)
    BY <1>1
  <2>5. \A x \in (pushed + 1)..(pushed + n) : \E i \in 1..n : x = es[i]
    BY <2>1, <2>4
  <2> QED BY <1>1, <2>2, <2>3, <2>5 DEF Elems, es
<1> QED BY <1>2, <1>3

\* DEL, expiration and SET take a whole list away, RENAME puts it under another key.
LEMMA NoElems == ASSUME NEW s, s = <<>> PROVE s \in Seq(Nat) /\ Inj(s) /\ Elems(s) = {}
<1>1. s \in Seq(Nat) /\ 1..Len(s) = {}
  OBVIOUS
<1> QED BY <1>1 DEF Inj, Elems

LEMMA DropOnce ==
  ASSUME NEW l \in Lists, Once(l), NEW k \in ListKeys
  PROVE  Put(l, k, <<>>) \in Lists /\ Once(Put(l, k, <<>>)) /\ All(Put(l, k, <<>>)) = All(l) \ Elems(l[k])
<1> DEFINE t == <<>>
<1>0. t = <<>>
  OBVIOUS
<1> HIDE DEF t
<1>1. t \in Seq(Nat) /\ Inj(t) /\ Elems(t) = {}
  BY <1>0, NoElems
<1>2. Elems(t) \cap Others(l, k) = {}
  BY <1>1
<1>3. Once(Put(l, k, t)) /\ All(Put(l, k, t)) = Others(l, k) \cup Elems(t)
  BY <1>1, <1>2, OneList
<1>4. Put(l, k, t) \in Lists
  BY <1>1 DEF Put, Lists
<1> QED BY <1>1, <1>3, <1>4 DEF Others, t

LEMMA RenameOnce ==
  ASSUME NEW l \in Lists, Once(l), NEW src \in ListKeys, NEW dst \in ListKeys, src # dst,
         NEW m, m = [l EXCEPT ![dst] = l[src], ![src] = <<>>]
  PROVE  Once(m) /\ All(m) = All(l) \ Elems(l[dst])
<1> DEFINE a == Put(l, src, <<>>)
           b == Put(a, dst, l[src])
           t == l[src]
<1>1. a \in Lists /\ Once(a) /\ All(a) = All(l) \ Elems(t)
  BY DropOnce
<1>2. a[dst] = l[dst]
  BY DEF Put, Lists
<1>3. Inj(t) /\ Elems(t) \subseteq All(l) /\ Elems(t) \cap Elems(l[dst]) = {}
  BY ElemsAll DEF Once
<1>4. m = b
  BY DEF Put, Lists
<1> HIDE DEF a, t
<1>5. Elems(t) \cap Others(a, dst) = {}
  BY <1>1 DEF Others
<1>6. Once(Put(a, dst, t)) /\ All(Put(a, dst, t)) = Others(a, dst) \cup Elems(t)
  BY <1>1, <1>3, <1>5, OneList
<1> QED BY <1>1, <1>2, <1>3, <1>4, <1>6 DEF Others, t

\* What is taken out of the lists is gone.
LEMMA GoneOwned ==
  ASSUME NEW l, NEW p \in Nat, NEW g, Owned(l, p, g), NEW m, NEW G, G \subseteq All(l), Once(m), All(m) = All(l) \ G
  PROVE  Owned(m, p, g \cup G)
  BY DEF Owned

\* What is pushed is new.
LEMMA PushOwn ==
  ASSUME Inv, Own, NEW k \in ListKeys, NEW n \in 1..2, NEW where \in Ends, pushGenericCommand(k, n, where)
  PROVE  Own'
<1> DEFINE es == NewElems(n, where)
<1>1. /\ pushed \in Nat /\ n \in Nat /\ lists \in Lists /\ Once(lists) /\ All(lists) = (1..pushed) \ gone /\ gone \subseteq 1..pushed
  BY DEF Inv, BlockTypeOK, Lists, Own, Owned
<1>2. Inj(es) /\ Elems(es) = (pushed + 1)..(pushed + n)
  BY <1>1, NewOnce
<1>3. es \in Seq(Nat)
  BY <1>1 DEF NewElems
<1>4. lists' = listTypePush(lists, k, es, where) /\ pushed' = pushed + n /\ gone' = gone
  BY DEF pushGenericCommand
<1> HIDE DEF es
<1>5. (1..pushed) \cap Elems(es) = {} /\ (1..pushed) \cup Elems(es) = 1..(pushed + n)
  BY <1>1, <1>2
<1>6. Elems(es) \cap All(lists) = {}
  BY <1>1, <1>5
<1>7. Once(lists') /\ All(lists') = All(lists) \cup Elems(es)
  BY <1>1, <1>2, <1>3, <1>4, <1>6, PushOnce
<1>8. All(lists') = (1..(pushed + n)) \ gone /\ gone \subseteq 1..(pushed + n)
  BY <1>1, <1>5, <1>7
<1> QED BY <1>4, <1>7, <1>8 DEF Own, Owned

LEMMA PopOwn ==
  ASSUME Inv, Own, NEW k \in ListKeys, NEW where \in Ends, popGenericCommand(k, where)
  PROVE  Own'
<1> DEFINE G == {Popped(lists, k, where)}
<1>1. /\ pushed \in Nat /\ lists \in Lists /\ Once(lists) /\ lists[k] # <<>> /\ Owned(lists, pushed, gone)
  BY DEF Inv, BlockTypeOK, Lists, Own, Owned, popGenericCommand
<1>2. lists' = listTypePop(lists, k, where) /\ gone' = gone \cup G /\ pushed' = pushed
  BY DEF popGenericCommand
<1>3. Once(lists') /\ All(lists') = All(lists) \ G /\ G \subseteq All(lists)
  BY <1>1, <1>2, PopOnce
<1> HIDE DEF G
<1> QED BY <1>1, <1>2, <1>3, GoneOwned DEF Own

LEMMA RemoveOwn ==
  ASSUME Inv, Own, NEW k \in ListKeys, delCommand(k) \/ setKey(k)
  PROVE  Own'
<1> DEFINE G == Elems(lists[k])
<1>1. /\ pushed \in Nat /\ lists \in Lists /\ Once(lists) /\ Owned(lists, pushed, gone)
  BY DEF Inv, BlockTypeOK, Lists, Own, Owned
<1>2. lists' = Put(lists, k, <<>>) /\ gone' = gone \cup G /\ pushed' = pushed
  BY DEF delCommand, setKey, Removed, Put
<1>3. Once(lists') /\ All(lists') = All(lists) \ G /\ G \subseteq All(lists)
  BY <1>1, <1>2, DropOnce, ElemsAll
<1> HIDE DEF G
<1> QED BY <1>1, <1>2, <1>3, GoneOwned DEF Own

LEMMA RenameOwn ==
  ASSUME Inv, Own, NEW src \in ListKeys, NEW dst \in ListKeys, renameGenericCommand(src, dst)
  PROVE  Own'
<1> DEFINE G == Elems(lists[dst])
<1>1. /\ pushed \in Nat /\ lists \in Lists /\ Once(lists) /\ Owned(lists, pushed, gone)
  BY DEF Inv, BlockTypeOK, Lists, Own, Owned
<1>2. lists' = [lists EXCEPT ![dst] = lists[src], ![src] = <<>>] /\ gone' = gone \cup G /\ pushed' = pushed /\ src # dst
  BY DEF renameGenericCommand
<1>3. Once(lists') /\ All(lists') = All(lists) \ G /\ G \subseteq All(lists)
  BY <1>1, <1>2, RenameOnce, ElemsAll
<1> HIDE DEF G
<1> QED BY <1>1, <1>2, <1>3, GoneOwned DEF Own

LEMMA MoveOwn ==
  ASSUME Inv, Own, NEW src \in ListKeys, NEW dst \in ListKeys, rpoplpushCommand(src, dst)
  PROVE  Own'
<1>1. /\ lists \in Lists /\ Once(lists) /\ Owned(lists, pushed, gone) /\ lists[src] # <<>>
  BY DEF Inv, BlockTypeOK, Lists, Own, Owned, rpoplpushCommand
<1>2. /\ lists' = listTypePush(listTypePop(lists, src, "tail"), dst, <<Popped(lists, src, "tail")>>, "head")
      /\ gone' = gone /\ pushed' = pushed
  BY DEF rpoplpushCommand
<1>3. Once(lists') /\ All(lists') = All(lists)
  BY <1>1, <1>2, MoveOnce
<1> QED BY <1>1, <1>2, <1>3 DEF Own, Owned

LEMMA ServeOwn == ASSUME Inv, Own, serveClientBlockedOnList PROVE Own'
<1> DEFINE k == serving.key
           c == First(k)
           dst == bpop[c].target
           where == bpop[c].where
           e == Popped(lists, k, where)
           G == {e}
<1>1. /\ pushed \in Nat /\ lists \in Lists /\ Once(lists) /\ Owned(lists, pushed, gone) /\ lists[k] # <<>>
      /\ serving.left > 0 /\ pushed' = pushed
  BY DEF Inv, BlockTypeOK, Lists, Own, Owned, serveClientBlockedOnList
<1>2. k \in ListKeys
  BY <1>1 DEF Inv, BlockTypeOK, Phases, NotServing
<1>3. \/ UndoPop(k, e, where) /\ gone' = gone
      \/ lists' = listTypePop(lists, k, where) /\ gone' = gone \cup G
      \/ /\ dst \in ListKeys /\ gone' = gone
         /\ lists' = listTypePush(listTypePop(lists, k, where), dst, <<Popped(lists, k, where)>>, "head")
  BY DEF serveClientBlockedOnList
<1> HIDE DEF k, where, dst
<1>4. CASE UndoPop(k, e, where) /\ gone' = gone
  <2>1. lists' = lists
    BY <1>1, <1>2, <1>4, PopPush DEF UndoPop
  <2> QED BY <1>1, <1>4, <2>1 DEF Own
<1>5. CASE lists' = listTypePop(lists, k, where) /\ gone' = gone \cup G
  <2>1. Once(lists') /\ All(lists') = All(lists) \ G /\ G \subseteq All(lists)
    BY <1>1, <1>2, <1>5, PopOnce
  <2> HIDE DEF G
  <2> QED BY <1>1, <1>5, <2>1, GoneOwned DEF Own
<1>6. CASE /\ dst \in ListKeys /\ gone' = gone
           /\ lists' = listTypePush(listTypePop(lists, k, where), dst, <<Popped(lists, k, where)>>, "head")
  <2>1. Once(lists') /\ All(lists') = All(lists)
    BY <1>1, <1>2, <1>6, MoveOnce
  <2> QED BY <1>1, <1>6, <2>1 DEF Own, Owned
<1> QED BY <1>3, <1>4, <1>5, <1>6

LEMMA NextOwn == Inv /\ Own /\ [BlockNext]_blockVars => Own'
<1> SUFFICES ASSUME Inv, Own, [BlockNext]_blockVars PROVE Own'
  OBVIOUS
<1>1. CASE UNCHANGED listVars
  BY <1>1 DEF listVars, Own
<1>2. CASE Command
  BY <1>1, <1>2, PushOwn, PopOwn, RemoveOwn, MoveOwn, RenameOwn DEF Command, execStart, execEnd
<1>3. CASE Blocking
  <2>1. UNCHANGED listVars
    BY <1>3 DEF Blocking, blockingPopGenericCommand, brpoplpushCommand, Unblocked
  <2> QED BY <1>1, <2>1
<1>4. CASE Serving
  BY <1>1, <1>4, ServeOwn DEF Serving, NextReady, KeyServed, AllServed
<1> QED BY <1>1, <1>2, <1>3, <1>4 DEF BlockNext, blockVars

\* Every element pushed is in one list, once, or was popped or deleted, whatever
\* clients were served, and although a BRPOPLPUSH that cannot push puts it back.
THEOREM BlockedEachElementOnce == BlockSpec => []EachElementOnce
<1>1. BlockInit => Own
  <2> SUFFICES ASSUME BlockInit PROVE Own
    OBVIOUS
  <2>1. /\ \A k \in ListKeys : Inj(lists[k]) /\ Elems(lists[k]) = {}
        /\ pushed = 0 /\ gone = {}
    <3>1. \A k \in ListKeys : lists[k] = <<>>
      BY DEF BlockInit
    <3>2. pushed = 0 /\ gone = {}
      BY DEF BlockInit
    <3> QED BY <3>1, <3>2, NoElems
  <2> QED BY <2>1 DEF Own, Owned, Once, All
<1>2. Own => EachElementOnce
  <2> SUFFICES ASSUME Own PROVE EachElementOnce
    OBVIOUS
  <2>1. ASSUME NEW k \in ListKeys, NEW m \in ListKeys, NEW i \in 1..Len(lists[k]), NEW j \in 1..Len(lists[m]),
               lists[k][i] = lists[m][j]
        PROVE  k = m /\ i = j
    <3>1. lists[k][i] \in Elems(lists[k]) /\ lists[k][i] \in Elems(lists[m])
      BY <2>1 DEF Elems
    <3>2. k = m
      BY <3>1 DEF Own, Owned, Once
    <3> QED BY <2>1, <3>2 DEF Own, Owned, Once, Inj
  <2>2. \A k \in ListKeys, i \in 1..MaxPush : i <= Len(lists[k]) => i \in 1..Len(lists[k])
    OBVIOUS
  <2> QED BY <2>1, <2>2 DEF Own, Owned, All, EachElementOnce
<1>3. Inv /\ Own /\ [BlockNext]_blockVars => Own'
  BY NextOwn
<1> QED BY <1>1, <1>2, <1>3, InitInv, NextInv, PTL DEF BlockSpec
============================================================================
