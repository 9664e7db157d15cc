---------------------------- MODULE ReplBacklog ----------------------------
(***************************************************************************)
(* The replication backlog of a master (replication.c): a circular buffer  *)
(* of the most recent bytes of the replication stream, from which a slave  *)
(* that lost its link is served when its PSYNC is accepted.                *)
(*                                                                         *)
(* A byte of the stream is represented by the replication offset it was    *)
(* produced at, so the cells of the buffer say which byte they hold; 0 is  *)
(* the content of a cell zmalloc() returned and nobody wrote.  The copy    *)
(* loop of feedReplicationBacklog() is modelled one iteration per step: no *)
(* other operation runs while it is under way (the server has one thread). *)
(***************************************************************************)
EXTENDS Integers, Sequences

CONSTANTS Sizes,      \* the sizes CONFIG SET repl-backlog-size may ask for
          MaxLen,     \* bound: longest object fed to the backlog at once
          MaxOffset   \* bound: highest replication offset explored

ASSUME SizesAssumption == Sizes \subseteq Nat \ {0} /\ Sizes # {}
ASSUME BoundsAssumption == MaxLen \in Nat \ {0} /\ MaxOffset \in Nat

VARIABLES
  repl_backlog_size,     \* configured size
  repl_backlog,          \* server.repl_backlog != NULL
  cells,                 \* the bytes server.repl_backlog points to
  repl_backlog_histlen,
  repl_backlog_idx,
  repl_backlog_off,
  master_repl_offset,
  len,                   \* feedReplicationBacklog(): bytes still to copy
  feeding,               \* feedReplicationBacklog() is running
  slaves,                \* listLength(server.slaves) != 0
  repl_state,            \* link to our own master (NONE: we have none)
  reply,                 \* what the last accepted PSYNC put in the output buffer
  retired                \* ghost: highest offset a backlog freed by the timeout
                         \* reached since the offset last started anew, or -1

buffer == <<repl_backlog, cells, repl_backlog_histlen, repl_backlog_idx,
            repl_backlog_off>>
vars == <<repl_backlog_size, buffer, master_repl_offset, len, feeding, slaves,
          repl_state, reply, retired>>

\* The cells server.repl_backlog points to: none when it is NULL.
Positions(allocated, size) == IF allocated THEN 0..(size - 1) ELSE {}

NoReply == [from |-> 1, upto |-> 0, bytes |-> << >>]

TypeOK ==
  /\ repl_backlog_size \in Sizes
  /\ repl_backlog \in BOOLEAN
  /\ cells \in [Positions(repl_backlog, repl_backlog_size) -> Nat]
  /\ repl_backlog_histlen \in Nat
  /\ repl_backlog_idx \in Nat
  /\ repl_backlog_off \in Nat
  /\ master_repl_offset \in Nat \cup {-1}
  /\ len \in 0..MaxLen
  /\ feeding \in BOOLEAN
  /\ slaves \in BOOLEAN
  /\ repl_state \in {"NONE", "CONNECT", "CONNECTED"}
  /\ reply \in [from : Nat, upto : Nat \cup {-1}, bytes : Seq(Nat)]
  /\ retired \in Nat \cup {-1}

Init ==
  /\ repl_backlog_size \in Sizes
  /\ repl_backlog = FALSE
  /\ cells = [j \in {} |-> 0]
  /\ repl_backlog_histlen = 0
  /\ repl_backlog_idx = 0
  /\ repl_backlog_off = 0
  /\ master_repl_offset = 0
  /\ len = 0
  /\ feeding = FALSE
  /\ slaves = FALSE
  /\ repl_state = "NONE"
  /\ reply = NoReply
  /\ retired = -1

-----------------------------------------------------------------------------
(* The operations on the buffer *)

ResetBuffer(size) ==
  /\ cells' = [j \in 0..(size - 1) |-> 0]
  /\ repl_backlog_histlen' = 0
  /\ repl_backlog_idx' = 0

\* Mutant: the replication offset is not moved past the previous backlog.
createWithoutFence ==
  /\ repl_backlog' = TRUE
  /\ ResetBuffer(repl_backlog_size)
  /\ repl_backlog_off' = master_repl_offset + 1
  /\ UNCHANGED master_repl_offset

createReplicationBacklog ==
  /\ repl_backlog' = TRUE
  /\ ResetBuffer(repl_backlog_size)
  /\ master_repl_offset' = master_repl_offset + 1
  /\ repl_backlog_off' = master_repl_offset + 2

freeReplicationBacklog ==
  /\ repl_backlog' = FALSE
  /\ cells' = [j \in {} |-> 0]
  /\ UNCHANGED <<repl_backlog_histlen, repl_backlog_idx, repl_backlog_off>>

\* Mutant: the size changes, the old buffer stays.
resizeWithoutRealloc(newsize) ==
  /\ ~feeding
  /\ newsize # repl_backlog_size
  /\ repl_backlog_size' = newsize
  /\ UNCHANGED <<buffer, master_repl_offset, len, feeding, slaves, repl_state,
                 reply, retired>>

resizeReplicationBacklog(newsize) ==
  /\ ~feeding
  /\ newsize # repl_backlog_size
  /\ repl_backlog_size' = newsize
  /\ IF repl_backlog
     THEN ResetBuffer(newsize) /\ repl_backlog_off' = master_repl_offset + 1
     ELSE UNCHANGED <<cells, repl_backlog_histlen, repl_backlog_idx, repl_backlog_off>>
  /\ UNCHANGED <<repl_backlog, master_repl_offset, len, feeding, slaves,
                 repl_state, reply, retired>>

\* feedReplicationBacklog() is entered with an object of n bytes.
FeedStart(n) ==
  /\ ~feeding
  /\ repl_backlog
  /\ master_repl_offset + n <= MaxOffset
  /\ master_repl_offset' = master_repl_offset + n
  /\ len' = n
  /\ feeding' = TRUE
  /\ UNCHANGED <<repl_backlog_size, buffer, slaves, repl_state, reply, retired>>

\* One iteration of while(len): copy up to the end of the buffer, then wrap.
FeedChunk ==
  /\ feeding
  /\ len > 0
  /\ LET room == repl_backlog_size - repl_backlog_idx
         thislen == IF room > len THEN len ELSE room
         next == repl_backlog_idx + thislen
         written == master_repl_offset - len
     IN /\ cells' = [j \in DOMAIN cells |->
                       IF repl_backlog_idx <= j /\ j < next
                       THEN written + (j - repl_backlog_idx) + 1
                       ELSE cells[j]]
        /\ repl_backlog_idx' = IF next = repl_backlog_size THEN 0 ELSE next
        /\ len' = len - thislen
        /\ repl_backlog_histlen' = repl_backlog_histlen + thislen
  /\ UNCHANGED <<repl_backlog_size, repl_backlog, repl_backlog_off,
                 master_repl_offset, feeding, slaves, repl_state, reply, retired>>

\* Mutant: histlen is not capped to the size of the buffer.
FeedEndUncapped ==
  /\ feeding
  /\ len = 0
  /\ repl_backlog_off' = master_repl_offset - repl_backlog_histlen + 1
  /\ feeding' = FALSE
  /\ UNCHANGED <<repl_backlog_size, repl_backlog, cells, repl_backlog_histlen,
                 repl_backlog_idx, master_repl_offset, len, slaves, repl_state,
                 reply, retired>>

\* After the loop: cap histlen, recompute the offset of the first byte.
FeedEnd ==
  /\ feeding
  /\ len = 0
  /\ repl_backlog_histlen' = IF repl_backlog_histlen > repl_backlog_size
                             THEN repl_backlog_size ELSE repl_backlog_histlen
  /\ repl_backlog_off' = master_repl_offset - repl_backlog_histlen' + 1
  /\ feeding' = FALSE
  /\ UNCHANGED <<repl_backlog_size, repl_backlog, cells, repl_backlog_idx,
                 master_repl_offset, len, slaves, repl_state, reply, retired>>

\* The bytes addReplyReplicationBacklog() queues: from the index of the first
\* byte asked for to the end of the buffer, then from the start of the buffer.
addReplyReplicationBacklog(offset) ==
  IF repl_backlog_histlen = 0
  THEN << >>
  ELSE LET skip == offset - repl_backlog_off
           first == (repl_backlog_idx + (repl_backlog_size - repl_backlog_histlen))
                      % repl_backlog_size
           j == (first + skip) % repl_backlog_size
       IN [i \in 1..(repl_backlog_histlen - skip) |->
             IF i <= repl_backlog_size - j
             THEN cells[j + i - 1]
             ELSE cells[i - (repl_backlog_size - j) - 1]]

\* Mutant: off by one at the old end of the window.
CanPartialResyncOneEarlier(psync_offset) ==
  /\ repl_backlog
  /\ psync_offset >= repl_backlog_off - 1
  /\ psync_offset <= repl_backlog_off + repl_backlog_histlen

\* The backlog still holds what a slave asking for this offset misses.
CanPartialResync(psync_offset) ==
  /\ repl_backlog
  /\ psync_offset >= repl_backlog_off
  /\ psync_offset <= repl_backlog_off + repl_backlog_histlen

-----------------------------------------------------------------------------
(* Its callers *)

\* masterTryPartialResynchronization(), the run id being the right one.
PartialResync(psync_offset) ==
  /\ ~feeding
  /\ repl_state # "CONNECT"
  /\ CanPartialResync(psync_offset)
  /\ slaves' = TRUE
  /\ reply' = [from |-> psync_offset, upto |-> master_repl_offset,
               bytes |-> addReplyReplicationBacklog(psync_offset)]
  /\ UNCHANGED <<repl_backlog_size, buffer, master_repl_offset, len, feeding,
                 repl_state, retired>>

\* syncCommand(): a slave is attached for a full resync.
FullResync ==
  /\ ~feeding
  /\ repl_state # "CONNECT"
  /\ slaves' = TRUE
  /\ IF ~slaves /\ ~repl_backlog
     THEN createReplicationBacklog /\ master_repl_offset < MaxOffset
     ELSE UNCHANGED <<buffer, master_repl_offset>>
  /\ UNCHANGED <<repl_backlog_size, len, feeding, repl_state, reply, retired>>

\* freeClient() on the last slave.
LastSlaveGone ==
  /\ ~feeding
  /\ slaves
  /\ slaves' = FALSE
  /\ UNCHANGED <<repl_backlog_size, buffer, master_repl_offset, len, feeding,
                 repl_state, reply, retired>>

\* replicationCron(): no slave for repl_backlog_time_limit seconds.  The offset a
\* slave of this backlog may have reached is remembered.
BacklogTimeout ==
  /\ ~feeding
  /\ ~slaves
  /\ repl_backlog
  /\ freeReplicationBacklog
  /\ retired' = IF master_repl_offset > retired THEN master_repl_offset ELSE retired
  /\ UNCHANGED <<repl_backlog_size, master_repl_offset, len, feeding, slaves,
                 repl_state, reply>>

\* replicationSetMaster(): SLAVEOF <host> <port>.
replicationSetMaster ==
  /\ ~feeding
  /\ repl_state' = "CONNECT"
  /\ slaves' = FALSE
  /\ freeReplicationBacklog
  /\ master_repl_offset' = 0
  /\ retired' = -1
  /\ UNCHANGED <<repl_backlog_size, len, feeding, reply>>

\* The link with our own master comes up ...
MasterLinkUp ==
  /\ ~feeding
  /\ repl_state = "CONNECT"
  /\ repl_state' = "CONNECTED"
  /\ UNCHANGED <<repl_backlog_size, buffer, master_repl_offset, len, feeding,
                 slaves, reply, retired>>

\* ... and is lost: replicationHandleMasterDisconnection() drops our slaves.
MasterLinkLost ==
  /\ ~feeding
  /\ repl_state = "CONNECTED"
  /\ repl_state' = "CONNECT"
  /\ slaves' = FALSE
  /\ UNCHANGED <<repl_backlog_size, buffer, master_repl_offset, len, feeding,
                 reply, retired>>

\* replicationUnsetMaster(): SLAVEOF NO ONE.  reploff is the offset of the link
\* with our master (-1 right after a SYNC with a master that has no PSYNC).
\* server.masterhost is NULL before that client is freed, so that its loss does
\* not disconnect the slaves of this server.
replicationUnsetMaster(reploff) ==
  /\ ~feeding
  /\ repl_state # "NONE"
  /\ repl_state' = "NONE"
  /\ IF repl_state = "CONNECTED" /\ ~slaves
     THEN master_repl_offset' = reploff /\ freeReplicationBacklog /\ retired' = -1
     ELSE UNCHANGED <<buffer, master_repl_offset, retired>>
  /\ UNCHANGED <<repl_backlog_size, len, feeding, slaves, reply>>

SameRole ==
  \/ \E newsize \in Sizes : resizeReplicationBacklog(newsize)
  \/ \E n \in 1..MaxLen : FeedStart(n)
  \/ FeedChunk
  \/ FeedEnd
  \/ \E psync_offset \in 0..(MaxOffset + 1) : PartialResync(psync_offset)
  \/ FullResync
  \/ LastSlaveGone
  \/ BacklogTimeout

Next ==
  \/ SameRole
  \/ replicationSetMaster
  \/ MasterLinkUp
  \/ MasterLinkLost
  \/ \E reploff \in -1..MaxOffset : replicationUnsetMaster(reploff)

Spec == Init /\ [][Next]_vars

-----------------------------------------------------------------------------
(* Properties *)

Stream(from, upto) == [i \in 1..(upto - from + 1) |-> from + i - 1]

\* A slave whose PSYNC is accepted is sent exactly the bytes it misses: every
\* byte from the offset it asked for to the current one, once and in order,
\* however often the buffer wrapped, was resized or was freed before.
ServedExactly == reply.bytes = Stream(reply.from, reply.upto)

\* The window the backlog advertises is the one it holds: outside the copy
\* loop off..master_repl_offset has histlen bytes and histlen fits the buffer.
WindowConsistent ==
  repl_backlog /\ ~feeding =>
    /\ repl_backlog_histlen <= repl_backlog_size
    /\ repl_backlog_off + repl_backlog_histlen = master_repl_offset + 1

\* "When a new backlog buffer is created, we increment the replication offset
\* by one to make sure we'll not be able to PSYNC with any previous slave":
\* the offset such a slave asks for is below the window.  (SLAVEOF starts the
\* offsets anew under the same run id: nothing is claimed across a role change.)
NoPsyncWithPreviousSlave ==
  repl_backlog => ~CanPartialResync(retired + 1)
=============================================================================
