---------------------------- MODULE MultiProofs ----------------------------
(***************************************************************************)
(* The WATCH structures and check-and-set, for any clients, databases and  *)
(* keys and any number of modifications.                                   *)
(***************************************************************************)
EXTENDS Multi, TLAPS

\* A version a client saw is not in the future: a modification of a key it
\* watches always makes the two differ.
SeenInv == \A c \in Clients, k \in WKeys : seen[c][k] <= version[k]

IndInv == TypeOK /\ WatchListsAgree /\ WatchSound /\ SeenInv

\* WatchSound for one client.
SoundFor(c) ==
  "DIRTY_CAS" \in flags[c] <=> \E k \in watched_keys[c] : version[k] # seen[c][k]

\* The invariant holds initially.
LEMMA InitInv == Init => IndInv
<1> SUFFICES ASSUME Init PROVE IndInv  OBVIOUS
<1>1. TypeOK
  BY DEF Init, TypeOK
<1>2. WatchListsAgree /\ WatchSound /\ SeenInv
  BY DEF Init, WatchListsAgree, WatchSound, SeenInv
<1> QED  BY <1>1, <1>2 DEF IndInv

\* unwatchAllKeys() takes the client out of every list it is in and leaves the
\* others alone.
LEMMA UnwatchAll ==
  ASSUME IndInv, NEW c \in Clients, unwatchAllKeys(c)
  PROVE  /\ watchers' \in [WKeys -> [Clients -> Nat]]
         /\ watched_keys' \in [Clients -> SUBSET WKeys]
         /\ WatchListsAgree'
         /\ watched_keys'[c] = {}
         /\ \A d \in Clients \ {c} : watched_keys'[d] = watched_keys[d]
<1> USE DEF IndInv, TypeOK
<1>1. /\ watched_keys' \in [Clients -> SUBSET WKeys]
      /\ watched_keys'[c] = {}
      /\ \A d \in Clients \ {c} : watched_keys'[d] = watched_keys[d]
  BY DEF unwatchAllKeys
<1>2. ASSUME NEW k \in WKeys
      PROVE  /\ watchers'[k] \in [Clients -> Nat]
             /\ watchers'[k][c] = 0
             /\ \A d \in Clients \ {c} : watchers'[k][d] = watchers[k][d]
  <2>1. watchers'[k] = IF k \in watched_keys[c]
                       THEN [watchers[k] EXCEPT ![c] = @ - 1] ELSE watchers[k]
    BY DEF unwatchAllKeys
  <2>2. watchers[k] \in [Clients -> Nat]
    OBVIOUS
  <2>3. watchers[k][c] = IF k \in watched_keys[c] THEN 1 ELSE 0
    BY DEF WatchListsAgree
  <2> QED  BY <2>1, <2>2, <2>3
<1>3. watchers' \in [WKeys -> [Clients -> Nat]]
  <2>1. watchers' = [k \in WKeys |-> watchers'[k]]
    BY DEF unwatchAllKeys
  <2> QED  BY <1>2, <2>1
<1>4. WatchListsAgree'
  <2> SUFFICES ASSUME NEW d \in Clients, NEW k \in WKeys
               PROVE  watchers'[k][d] = IF k \in watched_keys'[d] THEN 1 ELSE 0
    BY DEF WatchListsAgree
  <2>1. CASE d = c
    BY <2>1, <1>1, <1>2
  <2>2. CASE d # c
    BY <2>2, <1>1, <1>2 DEF WatchListsAgree
  <2> QED  BY <2>1, <2>2
<1> QED  BY <1>1, <1>3, <1>4

\* Modifying keys and marking exactly the clients that watch one of them keeps
\* check-and-set sound for a client that goes on watching what it did.
LEMMA ModifySound ==
  ASSUME IndInv, NEW keys \in SUBSET WKeys, Modify(keys), seen' = seen,
         NEW d \in Clients,
         watched_keys'[d] = watched_keys[d],
         "DIRTY_CAS" \in flags'[d] <=>
            ("DIRTY_CAS" \in flags[d] \/ watched_keys[d] \cap keys # {})
  PROVE  SoundFor(d)'
<1> USE DEF IndInv, TypeOK
<1>1. \A k \in WKeys : /\ version[k] \in Nat /\ seen[d][k] \in Nat
                       /\ seen[d][k] <= version[k]
                       /\ version'[k] = IF k \in keys THEN version[k] + 1 ELSE version[k]
  BY DEF Modify, SeenInv
<1>2. watched_keys[d] \in SUBSET WKeys
  OBVIOUS
<1>3. (\E k \in watched_keys[d] : version'[k] # seen[d][k])
        <=> ((\E k \in watched_keys[d] : version[k] # seen[d][k])
              \/ watched_keys[d] \cap keys # {})
  <2>1. ASSUME NEW k \in watched_keys[d], k \in keys
        PROVE  version'[k] # seen[d][k]
    BY <1>1, <1>2, <2>1
  <2>2. ASSUME NEW k \in watched_keys[d], version[k] # seen[d][k]
        PROVE  version'[k] # seen[d][k]
    BY <1>1, <1>2, <2>2
  <2>3. ASSUME NEW k \in watched_keys[d], version'[k] # seen[d][k], k \notin keys
        PROVE  version[k] # seen[d][k]
    BY <1>1, <1>2, <2>3
  <2> QED  BY <2>1, <2>2, <2>3
<1> QED  BY <1>3 DEF WatchSound, SoundFor

\* Versions only grow, so what was seen stays in the past.
LEMMA ModifySeen ==
  ASSUME IndInv, NEW keys \in SUBSET WKeys, Modify(keys), seen' = seen
  PROVE  version' \in [WKeys -> Nat] /\ SeenInv'
<1> USE DEF IndInv, TypeOK
<1>1. version' = [k \in WKeys |-> IF k \in keys THEN version[k] + 1 ELSE version[k]]
  BY DEF Modify
<1>2. version' \in [WKeys -> Nat]
  BY <1>1
<1>3. ASSUME NEW c \in Clients, NEW k \in WKeys PROVE seen'[c][k] <= version'[k]
  <2>1. /\ version[k] \in Nat /\ seen[c][k] \in Nat /\ seen[c][k] <= version[k]
    BY DEF SeenInv
  <2> QED  BY <1>1, <2>1
<1> QED  BY <1>2, <1>3 DEF SeenInv

\* What a client that gave up its keys and its marks satisfies.
LEMMA EmptySound ==
  ASSUME NEW c \in Clients, watched_keys'[c] = {}, "DIRTY_CAS" \notin flags'[c]
  PROVE  SoundFor(c)'
  BY DEF SoundFor

\* What a client satisfies that the step does not concern.
LEMMA FrameSound ==
  ASSUME IndInv, NEW c \in Clients, watched_keys'[c] = watched_keys[c],
         version' = version, seen'[c] = seen[c],
         "DIRTY_CAS" \in flags'[c] <=> "DIRTY_CAS" \in flags[c]
  PROVE  SoundFor(c)'
  BY DEF SoundFor, IndInv, WatchSound

\* A client takes itself out of the lists and drops its marks, nothing else is
\* modified: UNWATCH, DISCARD, an aborted EXEC, the end of the connection.
LEMMA LeaveInv ==
  ASSUME IndInv, NEW c \in Clients, unwatchAllKeys(c),
         "DIRTY_CAS" \notin flags'[c],
         \A d \in Clients \ {c} : flags'[d] = flags[d],
         version' = version, seen' = seen
  PROVE  WatchListsAgree' /\ WatchSound' /\ SeenInv'
<1>1. /\ WatchListsAgree' /\ watched_keys'[c] = {}
      /\ \A d \in Clients \ {c} : watched_keys'[d] = watched_keys[d]
  BY UnwatchAll
<1>2. ASSUME NEW d \in Clients PROVE SoundFor(d)'
  <2>1. CASE d = c
    BY <1>1, <2>1, EmptySound
  <2>2. CASE d # c
    BY <1>1, <2>2, FrameSound
  <2> QED  BY <2>1, <2>2
<1>3. SeenInv'
  BY DEF IndInv, SeenInv
<1> QED  BY <1>1, <1>2, <1>3 DEF WatchSound, SoundFor

\* The step leaves the WATCH structures, the versions and the marks alone.
LEMMA QuietInv ==
  ASSUME IndInv, UNCHANGED <<watchers, watched_keys, version, seen>>,
         \A c \in Clients : "DIRTY_CAS" \in flags'[c] <=> "DIRTY_CAS" \in flags[c]
  PROVE  WatchListsAgree' /\ WatchSound' /\ SeenInv'
<1>1. WatchListsAgree' /\ SeenInv'
  BY DEF IndInv, WatchListsAgree, SeenInv
<1>2. WatchSound'
  BY DEF IndInv, WatchSound
<1> QED  BY <1>1, <1>2

-----------------------------------------------------------------------------

\* The keys an EXEC writes are keys.
Written(c) == {cmd[2] : cmd \in {mstate[c][i] : i \in {j \in DOMAIN mstate[c] :
                                                        mstate[c][j][1] = "set"}}}

\* The queued commands are commands, so what they write are keys.
LEMMA WrittenKeys ==
  ASSUME TypeOK, NEW c \in Clients
  PROVE  Written(c) \in SUBSET WKeys
<1>1. \A i \in DOMAIN mstate[c] : mstate[c][i] \in Commands
  BY DEF TypeOK
<1>2. \A cmd \in Commands : cmd[2] \in WKeys
  BY DEF Commands
<1> QED  BY <1>1, <1>2 DEF Written

\* Every step keeps the types of the variables no list or version is in.
LEMMA NextType ==
  ASSUME IndInv, [Next]_vars,
         watchers' \in [WKeys -> [Clients -> Nat]],
         watched_keys' \in [Clients -> SUBSET WKeys],
         version' \in [WKeys -> Nat]
  PROVE  TypeOK'
<1> USE DEF IndInv, TypeOK
<1>s. stable' = stable
  BY DEF Next, vars
<1> USE <1>s
<1>1. ASSUME UNCHANGED vars PROVE TypeOK'
  BY <1>1 DEF vars
<1>2. ASSUME slaveofCommand PROVE TypeOK'
  BY <1>2 DEF slaveofCommand
<1>3. ASSUME NEW dbs, touchWatchedKeysOnFlush(dbs)
      PROVE  TypeOK'
  BY <1>3 DEF touchWatchedKeysOnFlush, Dirty
<1>4. ASSUME NEW k \in WKeys, keyExpires(k)
      PROVE  TypeOK'
  BY <1>4 DEF keyExpires
<1>e. << >> \in Seq(Commands)
  OBVIOUS
<1>5. ASSUME NEW c \in Clients, createClient(c)
      PROVE  TypeOK'
  BY <1>5 DEF createClient
<1>f. ASSUME NEW c \in Clients, freeClient(c)
      PROVE  TypeOK'
  BY <1>e, <1>f DEF freeClient
<1>u. ASSUME NEW c \in Clients, unwatchCommand(c)
      PROVE  TypeOK'
  BY <1>u DEF unwatchCommand
<1>m. ASSUME NEW c \in Clients, multiCommand(c)
      PROVE  TypeOK'
  BY <1>m DEF multiCommand
<1>d. ASSUME NEW c \in Clients, discardCommand(c)
      PROVE  TypeOK'
  BY <1>e, <1>d DEF discardCommand, Discarded
<1>6. ASSUME NEW c \in Clients, execCommandAborted(c)
      PROVE  TypeOK'
  BY <1>e, <1>6 DEF execCommandAborted, Discarded
<1>g. ASSUME NEW c \in Clients, flagTransaction(c)
      PROVE  TypeOK'
  BY <1>g DEF flagTransaction
<1>7. ASSUME NEW c \in Clients, execCommand(c)
      PROVE  TypeOK'
  <2>1. exists' \in [WKeys -> BOOLEAN] /\ masterhost' \in BOOLEAN
    BY <1>7 DEF execCommand
  <2>2. connected' \in [Clients -> BOOLEAN] /\ seen' \in [Clients -> [WKeys -> Nat]]
    BY <1>7 DEF execCommand
  <2>3. mstate' \in [Clients -> Seq(Commands)] /\ sent' \in [Clients -> Nat]
    BY <1>e, <1>7 DEF execCommand
  <2>4. flags' \in [Clients -> SUBSET {"MULTI", "DIRTY_CAS", "DIRTY_EXEC"}]
    <3>1. PICK t : flags' = Discarded(c, Dirty(t, flags))
      BY <1>7 DEF execCommand
    <3> QED  BY <3>1 DEF Discarded, Dirty
  <2> QED  BY <2>1, <2>2, <2>3, <2>4
<1>8. ASSUME NEW c \in Clients, NEW k \in WKeys, watchCommand(c, k)
      PROVE  TypeOK'
  BY <1>8 DEF watchCommand
<1>9. ASSUME NEW c \in Clients, NEW k \in WKeys, NEW present \in BOOLEAN,
             setCommand(c, k, present)
      PROVE  TypeOK'
  BY <1>9 DEF setCommand, Dirty
<1>10. ASSUME NEW c \in Clients, NEW cmd \in Commands, queueMultiCommand(c, cmd)
       PROVE  TypeOK'
  <2>1. Append(mstate[c], cmd) \in Seq(Commands)
    OBVIOUS
  <2> QED  BY <1>10, <2>1 DEF queueMultiCommand
<1>11. ASSUME NEW c \in Clients, NEW cmd \in Commands, RefuseReadOnly(c, cmd)
       PROVE  TypeOK'
  BY <1>11 DEF RefuseReadOnly
<1> HIDE DEF IndInv, TypeOK
<1>12. ASSUME NEW c \in Clients, ClientStep(c) PROVE TypeOK'
  BY <1>5, <1>6, <1>7, <1>8, <1>9, <1>10, <1>11, <1>12, <1>f, <1>u, <1>m, <1>d, <1>g
  DEF ClientStep
<1> QED  BY <1>1, <1>2, <1>3, <1>4, <1>12 DEF Next

\* Marking the clients found in the lists of the keys marks those that watch one.
LEMMA TouchedWatch ==
  ASSUME NEW keys \in SUBSET WKeys, NEW w, NEW wk,
         wk \in [Clients -> SUBSET WKeys],
         \A c \in Clients, k \in WKeys : w[k][c] = IF k \in wk[c] THEN 1 ELSE 0,
         NEW d \in Clients
  PROVE  d \in Touched(keys, w) <=> wk[d] \cap keys # {}
  BY DEF Touched

\* The invariant is preserved by every step.
LEMMA NextInv == IndInv /\ [Next]_vars => IndInv'
<1> SUFFICES ASSUME IndInv, [Next]_vars PROVE IndInv'  OBVIOUS
<1> USE DEF IndInv
<1> DEFINE Lists == /\ watchers' \in [WKeys -> [Clients -> Nat]]
                    /\ watched_keys' \in [Clients -> SUBSET WKeys]
           Safe == WatchListsAgree' /\ WatchSound' /\ SeenInv'
           Goal == Lists /\ version' \in [WKeys -> Nat] /\ Safe
<1>a. SUFFICES Goal
  BY NextType
<1>q. ASSUME UNCHANGED <<watchers, watched_keys, version, seen>>,
             \A c \in Clients : "DIRTY_CAS" \in flags'[c] <=> "DIRTY_CAS" \in flags[c]
      PROVE  Goal
  BY <1>q, QuietInv DEF TypeOK
<1>l. ASSUME NEW c \in Clients, unwatchAllKeys(c), "DIRTY_CAS" \notin flags'[c],
             \A d \in Clients \ {c} : flags'[d] = flags[d],
             version' = version, seen' = seen
      PROVE  Goal
  BY <1>l, LeaveInv, UnwatchAll DEF TypeOK
<1>m. ASSUME NEW keys \in SUBSET WKeys, Modify(keys), seen' = seen,
             UNCHANGED <<watchers, watched_keys>>,
             \A d \in Clients : "DIRTY_CAS" \in flags'[d] <=>
                ("DIRTY_CAS" \in flags[d] \/ watched_keys[d] \cap keys # {})
      PROVE  Goal
  <2>1. version' \in [WKeys -> Nat] /\ SeenInv'
    BY <1>m, ModifySeen
  <2>2. \A d \in Clients : SoundFor(d)'
    BY <1>m, ModifySound
  <2>3. WatchListsAgree' /\ Lists
    BY <1>m DEF WatchListsAgree, TypeOK
  <2> QED  BY <2>1, <2>2, <2>3 DEF WatchSound, SoundFor
<1>1. CASE UNCHANGED vars
  BY <1>1, <1>q DEF vars
<1>2. CASE slaveofCommand
  BY <1>2, <1>q DEF slaveofCommand
<1>3. ASSUME NEW dbs, touchWatchedKeysOnFlush(dbs)
      PROVE  Goal
  <2> DEFINE gone == {k \in WKeys : k[1] \in dbs /\ exists[k]}
  <2>1. /\ gone \in SUBSET WKeys /\ Modify(gone) /\ seen' = seen
        /\ UNCHANGED <<watchers, watched_keys>>
    BY <1>3 DEF touchWatchedKeysOnFlush
  <2>2. flags' = Dirty({c \in Clients : watched_keys[c] \cap gone # {}}, flags)
    BY <1>3 DEF touchWatchedKeysOnFlush
  <2>3. \A d \in Clients : "DIRTY_CAS" \in flags'[d] <=>
                ("DIRTY_CAS" \in flags[d] \/ watched_keys[d] \cap gone # {})
    BY <2>2 DEF Dirty, TypeOK
  <2> HIDE DEF gone
  <2> QED  BY <2>1, <2>3, <1>m
<1>4. ASSUME NEW k \in WKeys, keyExpires(k)
      PROVE  Goal
  BY <1>4, <1>q DEF keyExpires
<1>5. ASSUME NEW c \in Clients, createClient(c)
      PROVE  Goal
  BY <1>5, <1>q DEF createClient
<1>6. ASSUME NEW c \in Clients, freeClient(c)
      PROVE  Goal
  BY <1>6, <1>l DEF freeClient, TypeOK
<1>7. ASSUME NEW c \in Clients, unwatchCommand(c)
      PROVE  Goal
  BY <1>7, <1>l DEF unwatchCommand, TypeOK
<1>8. ASSUME NEW c \in Clients, multiCommand(c)
      PROVE  Goal
  BY <1>8, <1>q DEF multiCommand, TypeOK
<1>t. ASSUME NEW c \in Clients, flagTransaction(c)
      PROVE  Goal
  BY <1>t, <1>q DEF flagTransaction, TypeOK
<1>9. ASSUME NEW c \in Clients, discardCommand(c)
      PROVE  Goal
  BY <1>9, <1>l DEF discardCommand, Discarded, TypeOK
<1>x. ASSUME NEW c \in Clients, execCommandAborted(c)
      PROVE  Goal
  BY <1>x, <1>l DEF execCommandAborted, Discarded, TypeOK
<1>10. ASSUME NEW c \in Clients, execCommand(c)
       PROVE  Goal
  <2>1. /\ unwatchAllKeys(c) /\ Modify(Written(c)) /\ seen' = seen
        /\ flags' = Discarded(c, Dirty(Touched(Written(c), watchers'), flags))
    BY <1>10 DEF execCommand, Written
  <2>2. Written(c) \in SUBSET WKeys
    BY WrittenKeys
  <2>3. /\ Lists /\ WatchListsAgree' /\ watched_keys'[c] = {}
        /\ \A d \in Clients \ {c} : watched_keys'[d] = watched_keys[d]
    BY <2>1, UnwatchAll
  <2>4. version' \in [WKeys -> Nat] /\ SeenInv'
    BY <2>1, <2>2, ModifySeen
  <2>5. \A d \in Clients : d \in Touched(Written(c), watchers')
                             <=> watched_keys'[d] \cap Written(c) # {}
    BY <2>2, <2>3, TouchedWatch DEF WatchListsAgree
  <2>6. SoundFor(c)'
    <3>1. "DIRTY_CAS" \notin flags'[c]
      BY <2>1 DEF Discarded, Dirty, TypeOK
    <3> QED  BY <3>1, <2>3, EmptySound
  <2>7. ASSUME NEW d \in Clients \ {c} PROVE SoundFor(d)'
    <3>1. "DIRTY_CAS" \in flags'[d] <=>
            ("DIRTY_CAS" \in flags[d] \/ d \in Touched(Written(c), watchers'))
      BY <2>1 DEF Discarded, Dirty, TypeOK
    <3>2. "DIRTY_CAS" \in flags'[d] <=>
            ("DIRTY_CAS" \in flags[d] \/ watched_keys[d] \cap Written(c) # {})
      BY <3>1, <2>3, <2>5
    <3> QED  BY <3>2, <2>1, <2>2, <2>3, ModifySound
  <2>8. WatchSound'
    BY <2>6, <2>7 DEF WatchSound, SoundFor
  <2> QED  BY <2>3, <2>4, <2>8
<1>11. ASSUME NEW c \in Clients, NEW k \in WKeys, watchCommand(c, k)
       PROVE  Goal
  <2> USE <1>11 DEF watchCommand, TypeOK
  <2>1. /\ watchers' = [watchers EXCEPT ![k][c] = @ + 1]
        /\ watched_keys' = [watched_keys EXCEPT ![c] = @ \cup {k}]
        /\ seen' = [seen EXCEPT ![c][k] = version[k]]
        /\ k \notin watched_keys[c] /\ version' = version /\ flags' = flags
    OBVIOUS
  <2>2. Lists /\ version' \in [WKeys -> Nat]
    BY <2>1
  <2>3. ASSUME NEW d \in Clients, NEW j \in WKeys
        PROVE  watchers'[j][d] = IF j \in watched_keys'[d] THEN 1 ELSE 0
    <3>1. watchers[j][d] = IF j \in watched_keys[d] THEN 1 ELSE 0
      BY DEF WatchListsAgree
    <3> QED  BY <3>1, <2>1
  <2>4. ASSUME NEW d \in Clients, NEW j \in WKeys PROVE seen'[d][j] <= version'[j]
    <3>1. seen[d][j] <= version[j] /\ version[j] \in Nat /\ seen[d][j] \in Nat
      BY DEF SeenInv
    <3> QED  BY <3>1, <2>1
  <2>5. ASSUME NEW d \in Clients PROVE SoundFor(d)'
    <3>1. "DIRTY_CAS" \in flags[d] <=> \E j \in watched_keys[d] : version[j] # seen[d][j]
      BY DEF WatchSound
    <3>2. watched_keys'[d] = IF d = c THEN watched_keys[d] \cup {k} ELSE watched_keys[d]
      BY <2>1
    <3>3. /\ \A j \in watched_keys[d] : seen'[d][j] = seen[d][j]
          /\ d = c => seen'[d][k] = version[k]
      BY <2>1
    <3> QED  BY <3>1, <3>2, <3>3, <2>1 DEF SoundFor
  <2> QED  BY <2>2, <2>3, <2>4, <2>5 DEF WatchListsAgree, SeenInv, WatchSound, SoundFor
<1>12. ASSUME NEW c \in Clients, NEW k \in WKeys, NEW present \in BOOLEAN,
              setCommand(c, k, present)
       PROVE  Goal
  <2>1. /\ {k} \in SUBSET WKeys /\ Modify({k}) /\ seen' = seen
        /\ UNCHANGED <<watchers, watched_keys>>
        /\ flags' = Dirty(Touched({k}, watchers), flags)
    BY <1>12 DEF setCommand
  <2>2. \A d \in Clients : d \in Touched({k}, watchers) <=> watched_keys[d] \cap {k} # {}
    BY <2>1, TouchedWatch DEF WatchListsAgree, TypeOK
  <2>3. \A d \in Clients : "DIRTY_CAS" \in flags'[d] <=>
                ("DIRTY_CAS" \in flags[d] \/ watched_keys[d] \cap {k} # {})
    BY <2>1, <2>2 DEF Dirty, TypeOK
  <2> QED  BY <2>1, <2>3, <1>m
<1>13. ASSUME NEW c \in Clients, NEW cmd \in Commands,
              queueMultiCommand(c, cmd) \/ RefuseReadOnly(c, cmd)
       PROVE  Goal
  BY <1>13, <1>q DEF queueMultiCommand, RefuseReadOnly
<1> QED  BY <1>1, <1>2, <1>3, <1>4, <1>5, <1>6, <1>7, <1>8, <1>9, <1>10, <1>11, <1>12, <1>13,
            <1>t, <1>x
            DEF Next, ClientStep

\* The invariant holds in every reachable state.
LEMMA MultiInvariant == Spec => []IndInv
<1>1. Init => IndInv
  BY InitInv
<1>2. IndInv /\ [Next]_vars => IndInv'
  BY NextInv
<1> QED  BY <1>1, <1>2, PTL DEF Spec

\* Type correctness.
THEOREM MultiTypeOK == Spec => []TypeOK
<1>1. IndInv => TypeOK
  BY DEF IndInv
<1> QED  BY <1>1, MultiInvariant, PTL

\* The list of clients of a key and the list of keys of a client always agree:
\* unwatchAllKeys() finds what it removes, freeClient() leaves nothing behind.
THEOREM MultiWatchLists == Spec => []WatchListsAgree
<1>1. IndInv => WatchListsAgree
  BY DEF IndInv
<1> QED  BY <1>1, MultiInvariant, PTL

\* Optimistic locking: EXEC runs exactly when no command modified a key the
\* client watches since it watched it.
THEOREM MultiCheckAndSet == Spec => []WatchSound
<1>1. IndInv => WatchSound
  BY DEF IndInv
<1> QED  BY <1>1, MultiInvariant, PTL

-----------------------------------------------------------------------------
(* What EXEC runs, while the role of the server stays the same               *)

\* Outside a transaction nothing is queued; on a master all that was sent is, unless EXEC
\* will refuse; on a slave no write is.
WholeFor(c) ==
  /\ "MULTI" \notin flags[c] => mstate[c] = << >> /\ sent[c] = 0
  /\ stable /\ ~masterhost =>
       ("MULTI" \in flags[c] /\ "DIRTY_EXEC" \notin flags[c] => sent[c] = Len(mstate[c]))
  /\ stable /\ masterhost => \A i \in DOMAIN mstate[c] : mstate[c][i][1] # "set"

WholeInv == \A c \in Clients : WholeFor(c)

\* The role, as far as a stable server is concerned.
SameRole == stable' = stable /\ (stable => masterhost' = masterhost)

LEMMA WholeInit == Init => WholeInv
<1> SUFFICES ASSUME Init, NEW c \in Clients PROVE WholeFor(c)
  BY DEF WholeInv
<1>1. mstate[c] = << >> /\ sent[c] = 0 /\ "MULTI" \notin flags[c]
  BY DEF Init
<1>2. DOMAIN mstate[c] = {}
  BY <1>1
<1> QED BY <1>1, <1>2 DEF WholeFor

\* A client whose transaction is not touched ...
LEMMA WholeKept ==
  ASSUME SameRole, NEW c \in Clients, WholeFor(c), mstate'[c] = mstate[c], sent'[c] = sent[c],
         "MULTI" \in flags'[c] <=> "MULTI" \in flags[c],
         "DIRTY_EXEC" \in flags'[c] <=> "DIRTY_EXEC" \in flags[c]
  PROVE  WholeFor(c)'
  BY DEF SameRole, WholeFor

\* ... or is over.
LEMMA WholeOver ==
  ASSUME NEW c \in Clients, "MULTI" \notin flags'[c], mstate'[c] = << >>, sent'[c] = 0
  PROVE  WholeFor(c)'
<1>1. DOMAIN mstate'[c] = {}
  OBVIOUS
<1> QED BY <1>1 DEF WholeFor

LEMMA WholeStep == TypeOK /\ WholeInv /\ [Next]_vars => WholeInv'
<1> SUFFICES ASSUME TypeOK, WholeInv, [Next]_vars, NEW d \in Clients PROVE WholeFor(d)'
  BY DEF WholeInv
<1>d. WholeFor(d)
  BY DEF WholeInv
<1>s. SameRole
  <2>1. CASE UNCHANGED vars
    BY <2>1 DEF SameRole, vars
  <2>2. CASE slaveofCommand /\ ~stable /\ stable' = stable
    BY <2>2 DEF SameRole
  <2>3. ASSUME NEW c \in Clients, ClientStep(c) PROVE masterhost' = masterhost
    BY <2>3 DEF ClientStep, createClient, freeClient, unwatchCommand, multiCommand, discardCommand, execCommandAborted,
       execCommand, flagTransaction, watchCommand, setCommand, queueMultiCommand, RefuseReadOnly
  <2> QED BY <2>1, <2>2, <2>3 DEF Next, SameRole, touchWatchedKeysOnFlush, keyExpires
<1> DEFINE Same == /\ mstate'[d] = mstate[d] /\ sent'[d] = sent[d]
                   /\ "MULTI" \in flags'[d] <=> "MULTI" \in flags[d]
                   /\ "DIRTY_EXEC" \in flags'[d] <=> "DIRTY_EXEC" \in flags[d]
           Over == "MULTI" \notin flags'[d] /\ mstate'[d] = << >> /\ sent'[d] = 0
<1>k. ASSUME Same PROVE WholeFor(d)'
  BY <1>k, <1>s, <1>d, WholeKept
<1>o. ASSUME Over PROVE WholeFor(d)'
  BY <1>o, WholeOver
<1> USE DEF TypeOK
<1>1. CASE UNCHANGED vars
  BY <1>1, <1>k DEF vars
<1>2. CASE slaveofCommand
  BY <1>2, <1>k DEF slaveofCommand
<1>3. ASSUME NEW dbs, touchWatchedKeysOnFlush(dbs) PROVE WholeFor(d)'
  BY <1>3, <1>k DEF touchWatchedKeysOnFlush, Dirty
<1>4. ASSUME NEW k \in WKeys, keyExpires(k) PROVE WholeFor(d)'
  BY <1>4, <1>k DEF keyExpires
<1>5. ASSUME NEW c \in Clients, createClient(c) PROVE WholeFor(d)'
  BY <1>5, <1>k DEF createClient
<1>6. ASSUME NEW c \in Clients, freeClient(c) PROVE WholeFor(d)'
  BY <1>6, <1>k, <1>o DEF freeClient
<1>7. ASSUME NEW c \in Clients, unwatchCommand(c) PROVE WholeFor(d)'
  BY <1>7, <1>k DEF unwatchCommand
<1>8. ASSUME NEW c \in Clients, multiCommand(c) PROVE WholeFor(d)'
  <2>1. CASE d = c
    <3>1. /\ mstate'[d] = << >> /\ sent'[d] = 0
      BY <1>8, <1>d, <2>1 DEF multiCommand, WholeFor
    <3>2. DOMAIN mstate'[d] = {} /\ Len(mstate'[d]) = 0 /\ "MULTI" \in flags'[d]
      BY <1>8, <2>1, <3>1 DEF multiCommand
    <3> QED BY <3>1, <3>2 DEF WholeFor
  <2> QED BY <1>8, <1>k, <2>1 DEF multiCommand
<1>9. ASSUME NEW c \in Clients, discardCommand(c) PROVE WholeFor(d)'
  BY <1>9, <1>k, <1>o DEF discardCommand, Discarded
<1>10. ASSUME NEW c \in Clients, execCommandAborted(c) PROVE WholeFor(d)'
  BY <1>10, <1>k, <1>o DEF execCommandAborted, Discarded
<1>11. ASSUME NEW c \in Clients, execCommand(c) PROVE WholeFor(d)'
  <2>1. PICK t : flags' = Discarded(c, Dirty(t, flags))
    BY <1>11 DEF execCommand
  <2>2. mstate' = [mstate EXCEPT ![c] = << >>] /\ sent' = [sent EXCEPT ![c] = 0]
    BY <1>11 DEF execCommand
  <2> QED BY <1>k, <1>o, <2>1, <2>2 DEF Discarded, Dirty
<1>12. ASSUME NEW c \in Clients, flagTransaction(c) PROVE WholeFor(d)'
  <2>1. CASE d = c
    <3>1. "MULTI" \in flags'[d] /\ "DIRTY_EXEC" \in flags'[d] /\ mstate'[d] = mstate[d]
      BY <1>12, <2>1 DEF flagTransaction
    <3> QED BY <1>d, <1>s, <3>1 DEF WholeFor, SameRole
  <2> QED BY <1>12, <1>k, <2>1 DEF flagTransaction
<1>13. ASSUME NEW c \in Clients, NEW k \in WKeys, watchCommand(c, k) PROVE WholeFor(d)'
  BY <1>13, <1>k DEF watchCommand
<1>14. ASSUME NEW c \in Clients, NEW k \in WKeys, NEW present \in BOOLEAN, setCommand(c, k, present) PROVE WholeFor(d)'
  BY <1>14, <1>k DEF setCommand, Dirty
<1>15. ASSUME NEW c \in Clients, NEW cmd \in Commands, queueMultiCommand(c, cmd) PROVE WholeFor(d)'
  <2>1. CASE d = c
    <3>1. /\ mstate'[d] = Append(mstate[d], cmd) /\ sent'[d] = sent[d] + 1 /\ flags'[d] = flags[d]
          /\ "MULTI" \in flags[d] /\ ~ Refused(cmd)
      BY <1>15, <2>1 DEF queueMultiCommand
    <3>2. /\ mstate[d] \in Seq(Commands) /\ sent[d] \in Nat /\ Len(mstate'[d]) = Len(mstate[d]) + 1
          /\ \A i \in DOMAIN mstate'[d] : mstate'[d][i] = IF i \in DOMAIN mstate[d] THEN mstate[d][i] ELSE cmd
      BY <3>1
    <3> QED BY <1>d, <1>s, <3>1, <3>2 DEF WholeFor, SameRole, Refused
  <2> QED BY <1>15, <1>k, <2>1 DEF queueMultiCommand
<1>16. ASSUME NEW c \in Clients, NEW cmd \in Commands, RefuseReadOnly(c, cmd) PROVE WholeFor(d)'
  <2>1. CASE d = c
    <3>1. mstate'[d] = mstate[d] /\ flags'[d] = flags[d] /\ masterhost /\ "MULTI" \in flags[d]
      BY <1>16, <2>1 DEF RefuseReadOnly, Refused
    <3> QED BY <1>d, <1>s, <3>1 DEF WholeFor, SameRole
  <2> QED BY <1>16, <1>k, <2>1 DEF RefuseReadOnly
<1> QED BY <1>1, <1>2, <1>3, <1>4, <1>5, <1>6, <1>7, <1>8, <1>9, <1>10, <1>11, <1>12, <1>13, <1>14, <1>15, <1>16
        DEF Next, ClientStep

\* An EXEC on a slave finds no write in the queue, so no key gets a new version.
LEMMA NoWriteQueued ==
  ASSUME TypeOK, WholeInv, stable, masterhost
  PROVE  NoClientWrite
<1> SUFFICES ASSUME NEW c \in Clients, execCommand(c) PROVE version' = version
  BY DEF NoClientWrite
<1>1. \A i \in DOMAIN mstate[c] : mstate[c][i][1] # "set"
  BY DEF WholeInv, WholeFor
<1>2. Written(c) = {}
  BY <1>1 DEF Written
<1>3. Modify(Written(c))
  BY DEF execCommand, Written
<1>4. version' = [k \in WKeys |-> version[k]]
  BY <1>2, <1>3 DEF Modify
<1> QED BY <1>4 DEF TypeOK

\* A transaction is whole while the role stays the same: on a master EXEC runs every command
\* sent or none, on a read only slave it writes nothing (flagTransaction, processCommand).
THEOREM MultiTransactionsWhole == Spec => TransactionsWhole
<1>1. TypeOK /\ WholeInv => (stable /\ ~masterhost => AllQueuedOrFlagged)
  BY DEF WholeInv, WholeFor, AllQueuedOrFlagged
<1>2. TypeOK /\ WholeInv /\ [Next]_vars => [stable /\ masterhost => NoClientWrite]_vars
  BY NoWriteQueued
<1> QED BY <1>1, <1>2, WholeInit, WholeStep, MultiTypeOK, PTL DEF Spec, TransactionsWhole
=============================================================================
