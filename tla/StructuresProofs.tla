-------------------------- MODULE StructuresProofs --------------------------
(***************************************************************************)
(* What is proved about two data structures of the server.  The circular   *)
(* buffer of replication.c serves the replication stream, for every set of *)
(* sizes and every length of the objects fed.  The hash table of dict.c    *)
(* implements a map, for every set of keys, every hash function and every  *)
(* order of operations, resizes, rehashing steps, iterators and scans.     *)
(***************************************************************************)
EXTENDS ReplBacklog, Dict, FiniteSetTheorems, SequenceTheorems, TLAPS

(***************************************************************************)
(* The backlog (module ReplBacklog).                                       *)
(***************************************************************************)
\* The cell that holds the k-th most recent byte when the next one goes to idx.
Back(idx, k, size) == IF k <= idx THEN idx - k ELSE idx - k + size

\* What the copy loop maintains: the last bytes copied, master_repl_offset - len
\* being the newest, sit right behind the index, in order.
Newest == master_repl_offset - len

CellsInv ==
  repl_backlog =>
    /\ repl_backlog_idx < repl_backlog_size
    /\ master_repl_offset >= 0
    /\ len <= master_repl_offset
    /\ \A k \in 1..repl_backlog_size :
         k <= repl_backlog_histlen =>
           cells[Back(repl_backlog_idx, k, repl_backlog_size)] = Newest - k + 1

FeedInv ==
  /\ feeding => repl_backlog
  /\ ~feeding => len = 0

HistInv == repl_backlog => repl_backlog_histlen <= Newest

IndInv ==
  /\ TypeOK
  /\ FeedInv
  /\ CellsInv
  /\ HistInv
  /\ WindowConsistent
  /\ ServedExactly

-----------------------------------------------------------------------------
\* The two reductions modulo the size that addReplyReplicationBacklog() does are
\* of numbers below twice the size: they subtract the size once or not at all.
LEMMA ModOnce ==
  ASSUME NEW a \in Nat, NEW s \in Nat \ {0}, a < 2 * s
  PROVE  a % s = IF a < s THEN a ELSE a - s
  OBVIOUS

\* A request the master accepts is answered with exactly the missing bytes.
LEMMA ReplyIsStream ==
  ASSUME IndInv, ~feeding, NEW psync_offset \in Nat, CanPartialResync(psync_offset)
  PROVE  addReplyReplicationBacklog(psync_offset)
           = Stream(psync_offset, master_repl_offset)
<1> DEFINE size == repl_backlog_size
           hist == repl_backlog_histlen
           skip == psync_offset - repl_backlog_off
           start == (repl_backlog_idx + (size - hist)) % size
           j == (start + skip) % size
<1>1. /\ size \in Nat \ {0} /\ hist \in Nat /\ repl_backlog_idx \in Nat
      /\ repl_backlog_off \in Nat /\ master_repl_offset \in Int
      /\ repl_backlog_idx < size /\ hist <= size
      /\ repl_backlog_off + hist = master_repl_offset + 1
      /\ skip \in 0..hist
      /\ len = 0
  BY SizesAssumption DEF IndInv, TypeOK, CellsInv, FeedInv, WindowConsistent, CanPartialResync
<1>2. CASE hist = 0
  <2>1. psync_offset = master_repl_offset + 1
    BY <1>1, <1>2
  <2>2. Stream(psync_offset, master_repl_offset) = << >>
    BY <1>1, <2>1 DEF Stream
  <2> QED  BY <1>2, <2>2 DEF addReplyReplicationBacklog
<1>3. CASE hist # 0
  <2>1. start = IF hist <= repl_backlog_idx THEN repl_backlog_idx - hist
                                            ELSE repl_backlog_idx - hist + size
    <3> DEFINE a == repl_backlog_idx + (size - hist)
    <3>1. a \in Nat /\ a < 2 * size /\ size \in Nat \ {0}
      BY <1>1, <1>3
    <3>2. a % size = IF a < size THEN a ELSE a - size
      <4> HIDE DEF a, size
      <4> QED  BY <3>1, ModOnce
    <3> QED  BY <1>1, <3>2
  <2>2. start \in Nat /\ start < size
    BY <1>1, <1>3, <2>1
  <2>3. j = IF start + skip < size THEN start + skip ELSE (start + skip) - size
    <3> DEFINE a == start + skip
    <3>1. a \in Nat /\ a < 2 * size /\ size \in Nat \ {0}
      <4> HIDE DEF start, skip
      <4> QED  BY <1>1, <2>2
    <3> HIDE DEF a, size
    <3>2. a % size = IF a < size THEN a ELSE a - size
      BY <3>1, ModOnce
    <3> HIDE DEF start, skip
    <3> QED  BY <3>2 DEF a
  <2>4. ASSUME NEW i \in 1..(hist - skip)
        PROVE  /\ i <= size - j => cells[j + i - 1] = psync_offset + i - 1
               /\ ~(i <= size - j) => cells[i - (size - j) - 1] = psync_offset + i - 1
    <3> DEFINE k == hist - skip - i + 1
    <3>1. k \in 1..size /\ k <= hist
      BY <1>1
    <3>2. cells[Back(repl_backlog_idx, k, size)] = master_repl_offset - k + 1
      BY <3>1, <1>1 DEF IndInv, CellsInv, Newest, CanPartialResync
    <3>3. master_repl_offset - k + 1 = psync_offset + i - 1
      BY <1>1
    <3>4. Back(repl_backlog_idx, k, size)
            = IF i <= size - j THEN j + i - 1 ELSE i - (size - j) - 1
      <4> HIDE DEF j, start
      <4> QED  BY <1>1, <2>1, <2>3 DEF Back
    <3> HIDE DEF j, k
    <3> QED  BY <3>2, <3>3, <3>4
  <2>5. hist - skip = master_repl_offset - psync_offset + 1
    BY <1>1
  <2>6. addReplyReplicationBacklog(psync_offset)
          = [i \in 1..(hist - skip) |-> IF i <= size - j THEN cells[j + i - 1]
                                        ELSE cells[i - (size - j) - 1]]
    BY <1>3 DEF addReplyReplicationBacklog
  <2> HIDE DEF j, start, skip
  <2>7. [i \in 1..(hist - skip) |-> IF i <= size - j THEN cells[j + i - 1]
                                        ELSE cells[i - (size - j) - 1]]
          = [i \in 1..(hist - skip) |-> psync_offset + i - 1]
    BY <2>4
  <2> QED  BY <2>5, <2>6, <2>7 DEF Stream
<1> QED  BY <1>2, <1>3

-----------------------------------------------------------------------------
\* The invariant holds initially and every operation preserves it.
LEMMA InitInv == Init => IndInv
<1> SUFFICES ASSUME Init PROVE IndInv
  OBVIOUS
<1>1. ServedExactly
  BY DEF Init, NoReply, ServedExactly, Stream
<1>2. TypeOK
  <2>1. cells \in [Positions(repl_backlog, repl_backlog_size) -> Nat]
    BY DEF Init, Positions
  <2>2. NoReply \in [from : Nat, upto : Nat \cup {-1}, bytes : Seq(Nat)]
    BY DEF NoReply
  <2>3. /\ repl_backlog_histlen \in Nat /\ repl_backlog_idx \in Nat
        /\ repl_backlog_off \in Nat /\ master_repl_offset \in Nat \cup {-1}
        /\ len \in 0..MaxLen /\ retired \in Nat \cup {-1}
    BY BoundsAssumption DEF Init
  <2> QED  BY <2>1, <2>2, <2>3 DEF Init, TypeOK
<1> QED
  BY <1>1, <1>2 DEF Init, IndInv, FeedInv, CellsInv, HistInv, WindowConsistent

\* One iteration of the copy loop puts its bytes where the readers look for them.
LEMMA FeedChunkCells ==
  ASSUME IndInv, FeedChunk
  PROVE  CellsInv'
<1> DEFINE size == repl_backlog_size
           idx == repl_backlog_idx
           n == IF size - idx > len THEN len ELSE size - idx
<1>1. /\ size \in Nat \ {0} /\ idx \in 0..(size - 1)
      /\ len \in Nat /\ len > 0 /\ master_repl_offset \in Nat /\ len <= master_repl_offset
      /\ repl_backlog_histlen \in Nat
      /\ repl_backlog = TRUE /\ DOMAIN cells = 0..(size - 1)
  BY SizesAssumption DEF IndInv, TypeOK, CellsInv, FeedInv, FeedChunk, Positions
<1>2. n \in 1..len /\ n \in 1..size /\ idx + n <= size
  BY <1>1
<1>3. /\ repl_backlog_size' = size /\ repl_backlog' = TRUE
      /\ master_repl_offset' = master_repl_offset
      /\ len' = len - n
      /\ repl_backlog_histlen' = repl_backlog_histlen + n
      /\ repl_backlog_idx' = IF idx + n = size THEN 0 ELSE idx + n
  BY <1>1 DEF FeedChunk
<1>4. cells' = [q \in 0..(size - 1) |->
                  IF idx <= q /\ q < idx + n
                  THEN master_repl_offset - len + (q - idx) + 1 ELSE cells[q]]
  BY <1>1 DEF FeedChunk
<1> HIDE DEF n
<1>5. ASSUME NEW k \in 1..repl_backlog_size', k <= repl_backlog_histlen'
      PROVE  cells'[Back(repl_backlog_idx', k, repl_backlog_size')] = Newest' - k + 1
  <2> DEFINE q == Back(repl_backlog_idx', k, size)
  <2>1. k \in 1..size /\ Newest' = master_repl_offset - (len - n)
    BY <1>3 DEF Newest
  <2>2. /\ q \in 0..(size - 1)
        /\ k <= n => idx <= q /\ q < idx + n /\ q - idx = n - k
        /\ ~(k <= n) => ~(idx <= q /\ q < idx + n) /\ q = Back(idx, k - n, size)
    <3> DEFINE idx2 == repl_backlog_idx'
    <3>1. /\ size \in Nat \ {0} /\ idx \in 0..(size - 1) /\ n \in 1..size
          /\ idx + n <= size /\ k \in 1..size
          /\ idx2 = IF idx + n = size THEN 0 ELSE idx + n
      BY <1>1, <1>2, <1>3, <2>1
    <3> HIDE DEF size, idx, idx2
    <3>2. /\ Back(idx2, k, size) \in 0..(size - 1)
          /\ k <= n => /\ idx <= Back(idx2, k, size)
                       /\ Back(idx2, k, size) < idx + n
                       /\ Back(idx2, k, size) - idx = n - k
          /\ ~(k <= n) =>
               /\ ~(idx <= Back(idx2, k, size) /\ Back(idx2, k, size) < idx + n)
               /\ Back(idx2, k, size) = Back(idx, k - n, size)
      BY <3>1 DEF Back
    <3> QED  BY <3>2 DEF idx2
  <2> HIDE DEF q
  <2>3. CASE k <= n
    <3>1. cells'[q] = master_repl_offset - len + (q - idx) + 1
      BY <1>4, <2>2, <2>3
    <3> QED  BY <1>1, <1>2, <1>3, <2>1, <2>2, <2>3, <3>1 DEF q
  <2>4. CASE ~(k <= n)
    <3>1. cells'[q] = cells[q]
      BY <1>4, <2>2, <2>4
    <3>2. k - n \in 1..size /\ k - n <= repl_backlog_histlen
      BY <1>1, <1>2, <1>3, <1>5, <2>1, <2>4
    <3>3. cells[q] = Newest - (k - n) + 1
      BY <1>1, <2>2, <2>4, <3>2 DEF IndInv, CellsInv
    <3> QED  BY <1>1, <1>2, <1>3, <2>1, <3>1, <3>3 DEF q, Newest
  <2> QED  BY <2>3, <2>4
<1>6. repl_backlog_idx' < repl_backlog_size' /\ len' <= master_repl_offset'
      /\ master_repl_offset' >= 0
  BY <1>1, <1>2, <1>3
<1> QED  BY <1>5, <1>6 DEF CellsInv

\* The invariant reads only the buffer, the offset and the last reply.
LEMMA FrameInv ==
  ASSUME IndInv,
         UNCHANGED <<repl_backlog_size, buffer, master_repl_offset, len, feeding, reply>>,
         slaves' \in BOOLEAN, repl_state' \in {"NONE", "CONNECT", "CONNECTED"},
         retired' \in Nat \cup {-1}
  PROVE  IndInv'
<1>1. TypeOK'
  BY DEF IndInv, TypeOK, buffer
<1>2. CellsInv' /\ HistInv' /\ FeedInv' /\ WindowConsistent'
  BY DEF IndInv, buffer, CellsInv, HistInv, FeedInv, WindowConsistent, Newest
<1>3. ServedExactly'
  BY DEF IndInv, ServedExactly
<1> QED  BY <1>1, <1>2, <1>3 DEF IndInv

\* Freeing the backlog preserves it whatever the offset becomes.
LEMMA FreeInv ==
  ASSUME IndInv, ~feeding, freeReplicationBacklog,
         UNCHANGED <<repl_backlog_size, len, feeding, reply>>,
         slaves' \in BOOLEAN, repl_state' \in {"NONE", "CONNECT", "CONNECTED"},
         master_repl_offset' \in Nat \cup {-1}, retired' \in Nat \cup {-1}
  PROVE  IndInv'
<1>1. cells' \in [Positions(repl_backlog', repl_backlog_size') -> Nat]
  BY DEF freeReplicationBacklog, Positions
<1>3. TypeOK'
  BY <1>1 DEF freeReplicationBacklog, IndInv, TypeOK
<1>4. CellsInv' /\ HistInv' /\ FeedInv' /\ WindowConsistent'
  BY DEF freeReplicationBacklog, IndInv, CellsInv, HistInv, FeedInv, WindowConsistent
<1>5. ServedExactly'
  BY DEF IndInv, ServedExactly
<1> QED  BY <1>3, <1>4, <1>5 DEF IndInv

\* An empty buffer whose window starts at the next byte satisfies it.
LEMMA EmptyInv ==
  ASSUME IndInv, ~feeding, repl_backlog' = TRUE, repl_backlog_size' \in Sizes,
         cells' = [j \in 0..(repl_backlog_size' - 1) |-> 0],
         repl_backlog_histlen' = 0, repl_backlog_idx' = 0,
         NEW m \in Nat, master_repl_offset' = m, repl_backlog_off' = m + 1,
         slaves' \in BOOLEAN, UNCHANGED <<len, feeding, repl_state, reply, retired>>
  PROVE  IndInv'
<1>1. repl_backlog_size' \in Nat \ {0} /\ len' = 0 /\ ~feeding'
  BY SizesAssumption DEF IndInv, FeedInv
<1>2. cells' \in [Positions(repl_backlog', repl_backlog_size') -> Nat]
  BY DEF Positions
<1>3. TypeOK'
  <2>1. /\ len' \in 0..MaxLen /\ feeding' \in BOOLEAN
        /\ repl_state' \in {"NONE", "CONNECT", "CONNECTED"}
        /\ reply' \in [from : Nat, upto : Nat \cup {-1}, bytes : Seq(Nat)]
        /\ retired' \in Nat \cup {-1}
    BY DEF IndInv, TypeOK
  <2>2. repl_backlog_off' \in Nat
    OBVIOUS
  <2> QED  BY <1>2, <2>1, <2>2 DEF TypeOK
<1>4. CellsInv'
  BY <1>1 DEF CellsInv
<1>5. HistInv'
  BY <1>1 DEF HistInv, Newest
<1>6. FeedInv'
  BY <1>1 DEF FeedInv
<1>7. WindowConsistent'
  BY <1>1 DEF WindowConsistent
<1>8. ServedExactly'
  BY DEF IndInv, ServedExactly
<1> QED  BY <1>3, <1>4, <1>5, <1>6, <1>7, <1>8 DEF IndInv

LEMMA NextInv == IndInv /\ [Next]_vars => IndInv'
<1> SUFFICES ASSUME IndInv, [Next]_vars PROVE IndInv'
  OBVIOUS
<1>0. /\ repl_backlog_size \in Nat \ {0} /\ slaves \in BOOLEAN
      /\ repl_state \in {"NONE", "CONNECT", "CONNECTED"}
      /\ retired \in Nat \cup {-1} /\ master_repl_offset \in Nat \cup {-1}
      /\ repl_backlog \in BOOLEAN /\ len \in Nat /\ repl_backlog_histlen \in Nat
  BY SizesAssumption, BoundsAssumption DEF IndInv, TypeOK
<1>1. ASSUME NEW newsize \in Sizes, resizeReplicationBacklog(newsize) PROVE IndInv'
  <2>1. CASE repl_backlog
    <3>1. master_repl_offset \in Nat
      BY <1>0, <2>1 DEF IndInv, CellsInv
    <3> QED
      BY <1>0, <1>1, <2>1, <3>1, EmptyInv DEF resizeReplicationBacklog, ResetBuffer
  <2>2. CASE ~repl_backlog
    <3>1. TypeOK'
      BY <1>1, <2>2, <1>0 DEF resizeReplicationBacklog, IndInv, TypeOK, Positions
    <3>2. CellsInv' /\ HistInv' /\ FeedInv' /\ WindowConsistent'
      BY <1>1, <2>2 DEF resizeReplicationBacklog, IndInv, CellsInv, HistInv, FeedInv,
         WindowConsistent
    <3>3. ServedExactly'
      BY <1>1 DEF resizeReplicationBacklog, IndInv, ServedExactly
    <3> QED  BY <3>1, <3>2, <3>3 DEF IndInv
  <2> QED  BY <2>1, <2>2
<1>2. ASSUME NEW n \in 1..MaxLen, FeedStart(n) PROVE IndInv'
  <2>1. /\ repl_backlog /\ master_repl_offset \in Nat /\ len = 0 /\ n \in Nat
        /\ n \in 0..MaxLen /\ feeding' = TRUE /\ len' = n
        /\ master_repl_offset' = master_repl_offset + n
        /\ UNCHANGED <<repl_backlog_size, repl_backlog, cells, repl_backlog_histlen,
                       repl_backlog_idx, repl_backlog_off, slaves, repl_state, reply,
                       retired>>
    BY <1>0, <1>2, BoundsAssumption DEF FeedStart, IndInv, FeedInv, CellsInv, buffer
  <2>2. TypeOK'
    <3>1. master_repl_offset' \in Nat /\ len' \in 0..MaxLen
      BY <2>1
    <3> QED  BY <2>1, <3>1 DEF IndInv, TypeOK
  <2>3. Newest' = Newest
    BY <2>1 DEF Newest
  <2>4. CellsInv'
    BY <2>1, <2>3 DEF IndInv, CellsInv
  <2>5. HistInv' /\ FeedInv' /\ WindowConsistent'
    BY <2>1, <2>3 DEF IndInv, HistInv, FeedInv, WindowConsistent
  <2>6. ServedExactly'
    BY <2>1 DEF IndInv, ServedExactly
  <2> QED  BY <2>2, <2>4, <2>5, <2>6 DEF IndInv
<1>3. CASE FeedChunk
  <2> DEFINE room == repl_backlog_size - repl_backlog_idx
             thislen == IF room > len THEN len ELSE room
  <2>1. CellsInv'
    BY <1>3, FeedChunkCells
  <2>2. /\ repl_backlog /\ master_repl_offset \in Nat /\ len <= master_repl_offset
        /\ repl_backlog_idx \in Nat /\ repl_backlog_idx < repl_backlog_size
        /\ len > 0 /\ feeding
    BY <1>3, <1>0 DEF FeedChunk, IndInv, FeedInv, CellsInv, TypeOK
  <2>3. thislen \in 1..len /\ repl_backlog_idx + thislen <= repl_backlog_size
    BY <1>0, <2>2
  <2>4. /\ len' = len - thislen
        /\ repl_backlog_histlen' = repl_backlog_histlen + thislen
        /\ repl_backlog_idx' = IF repl_backlog_idx + thislen = repl_backlog_size
                               THEN 0 ELSE repl_backlog_idx + thislen
        /\ UNCHANGED <<repl_backlog_size, repl_backlog, repl_backlog_off,
              master_repl_offset, feeding, slaves, repl_state, reply, retired>>
    BY <1>3 DEF FeedChunk
  <2>5. cells' \in [Positions(repl_backlog', repl_backlog_size') -> Nat]
    <3>1. cells \in [0..(repl_backlog_size - 1) -> Nat]
      BY <2>2 DEF IndInv, TypeOK, Positions
    <3>2. cells' \in [0..(repl_backlog_size - 1) -> Nat]
      BY <1>0, <1>3, <2>2, <3>1 DEF FeedChunk
    <3> QED  BY <2>2, <2>4, <3>2 DEF Positions
  <2> HIDE DEF thislen
  <2>6. TypeOK'
    <3>1. len' \in 0..MaxLen /\ repl_backlog_histlen' \in Nat /\ repl_backlog_idx' \in Nat
      BY <1>0, <2>2, <2>3, <2>4, BoundsAssumption DEF IndInv, TypeOK
    <3> QED  BY <2>4, <2>5, <3>1 DEF IndInv, TypeOK
  <2>7. HistInv'
    BY <1>0, <2>2, <2>3, <2>4 DEF IndInv, HistInv, Newest
  <2>8. FeedInv' /\ WindowConsistent'
    BY <2>2, <2>4 DEF IndInv, FeedInv, WindowConsistent
  <2>9. ServedExactly'
    BY <2>4 DEF IndInv, ServedExactly
  <2> QED  BY <2>1, <2>6, <2>7, <2>8, <2>9 DEF IndInv
<1>4. CASE FeedEnd
  <2>1. repl_backlog /\ master_repl_offset \in Nat /\ len = 0
        /\ Newest = master_repl_offset /\ repl_backlog_histlen <= master_repl_offset
    BY <1>0, <1>4 DEF FeedEnd, IndInv, FeedInv, HistInv, Newest, CellsInv
  <2>2. /\ repl_backlog_histlen' = IF repl_backlog_histlen > repl_backlog_size
                                   THEN repl_backlog_size ELSE repl_backlog_histlen
        /\ repl_backlog_off' = master_repl_offset - repl_backlog_histlen' + 1
        /\ feeding' = FALSE
        /\ UNCHANGED <<repl_backlog_size, repl_backlog, cells, repl_backlog_idx,
              master_repl_offset, len, slaves, repl_state, reply, retired>>
    BY <1>4 DEF FeedEnd
  <2>3. repl_backlog_histlen' \in Nat /\ repl_backlog_histlen' <= repl_backlog_histlen
        /\ repl_backlog_histlen' <= repl_backlog_size /\ repl_backlog_off' \in Nat
    BY <1>0, <2>1, <2>2
  <2>4. TypeOK'
    BY <2>2, <2>3 DEF IndInv, TypeOK
  <2>5. Newest' = Newest
    BY <2>2 DEF Newest
  <2>6. CellsInv'
    BY <1>0, <2>1, <2>2, <2>3, <2>5 DEF IndInv, CellsInv
  <2>7. HistInv' /\ FeedInv' /\ WindowConsistent'
    BY <1>0, <2>1, <2>2, <2>3, <2>5 DEF HistInv, FeedInv, WindowConsistent
  <2>8. ServedExactly'
    BY <2>2 DEF IndInv, ServedExactly
  <2> QED  BY <2>4, <2>6, <2>7, <2>8 DEF IndInv
<1>5. ASSUME NEW psync_offset \in 0..(MaxOffset + 1), PartialResync(psync_offset)
      PROVE IndInv'
  <2>1. psync_offset \in Nat /\ ~feeding /\ CanPartialResync(psync_offset)
    BY <1>5, BoundsAssumption DEF PartialResync
  <2>2. reply' = [from |-> psync_offset, upto |-> master_repl_offset,
                  bytes |-> Stream(psync_offset, master_repl_offset)]
    BY <1>5, <2>1, ReplyIsStream DEF PartialResync
  <2>3. Stream(psync_offset, master_repl_offset) \in Seq(Nat)
    <3>1. master_repl_offset - psync_offset + 1 \in Nat
      BY <1>0, <2>1 DEF CanPartialResync, IndInv, TypeOK, WindowConsistent
    <3>2. \A i \in 1..(master_repl_offset - psync_offset + 1) : psync_offset + i - 1 \in Nat
      BY <2>1
    <3> QED  BY <3>1, <3>2 DEF Stream
  <2>4. TypeOK'
    BY <1>0, <1>5, <2>1, <2>2, <2>3 DEF PartialResync, IndInv, TypeOK, buffer
  <2>5. CellsInv' /\ HistInv' /\ FeedInv' /\ WindowConsistent'
    BY <1>5 DEF PartialResync, IndInv, buffer, CellsInv, HistInv, FeedInv,
       WindowConsistent, Newest
  <2>6. ServedExactly'
    BY <2>2 DEF ServedExactly
  <2> QED  BY <2>4, <2>5, <2>6 DEF IndInv
<1>6. CASE FullResync
  <2>1. CASE ~slaves /\ ~repl_backlog
    <3> DEFINE m == master_repl_offset + 1
    <3>1. /\ repl_backlog' = TRUE
          /\ repl_backlog_size' \in Sizes
          /\ cells' = [j \in 0..(repl_backlog_size' - 1) |-> 0]
          /\ repl_backlog_histlen' = 0 /\ repl_backlog_idx' = 0
          /\ m \in Nat /\ master_repl_offset' = m /\ repl_backlog_off' = m + 1
          /\ slaves' \in BOOLEAN /\ UNCHANGED <<len, feeding, repl_state, reply, retired>>
          /\ ~feeding
      BY <1>0, <1>6, <2>1 DEF FullResync, createReplicationBacklog, ResetBuffer, IndInv, TypeOK
    <3> QED  BY <3>1, EmptyInv
  <2>2. CASE ~(~slaves /\ ~repl_backlog)
    BY <1>0, <1>6, <2>2, FrameInv DEF FullResync
  <2> QED  BY <2>1, <2>2
<1>7. CASE LastSlaveGone
  BY <1>0, <1>7, FrameInv DEF LastSlaveGone
<1>8. CASE BacklogTimeout
  BY <1>0, <1>8, FreeInv DEF BacklogTimeout
<1>9. CASE replicationSetMaster
  BY <1>0, <1>9, FreeInv DEF replicationSetMaster
<1>10. CASE MasterLinkUp
  BY <1>0, <1>10, FrameInv DEF MasterLinkUp
<1>11. CASE MasterLinkLost
  BY <1>0, <1>11, FrameInv DEF MasterLinkLost
<1>12. ASSUME NEW reploff \in -1..MaxOffset, replicationUnsetMaster(reploff)
       PROVE IndInv'
  <2>1. reploff \in Nat \cup {-1}
    BY BoundsAssumption
  <2>2. CASE repl_state = "CONNECTED" /\ ~slaves
    BY <1>0, <1>12, <2>1, <2>2, FreeInv DEF replicationUnsetMaster
  <2>3. CASE ~(repl_state = "CONNECTED" /\ ~slaves)
    BY <1>0, <1>12, <2>3, FrameInv DEF replicationUnsetMaster
  <2> QED  BY <2>2, <2>3
<1>13. CASE UNCHANGED vars
  BY <1>0, <1>13, FrameInv DEF vars
<1> QED
  BY <1>1, <1>2, <1>3, <1>4, <1>5, <1>6, <1>7, <1>8, <1>9, <1>10, <1>11, <1>12, <1>13
  DEF Next, SameRole

-----------------------------------------------------------------------------
\* The strengthening the theorems below are read off from.
LEMMA BacklogInvariant == Spec => []IndInv
<1>1. Init => IndInv
  BY InitInv
<1>2. IndInv /\ [Next]_vars => IndInv'
  BY NextInv
<1> QED  BY <1>1, <1>2, PTL DEF Spec

\* Every variable of the backlog keeps its type, whatever is configured and fed.
THEOREM BacklogTypeOK == Spec => []TypeOK
<1>1. IndInv => TypeOK
  BY DEF IndInv
<1> QED  BY <1>1, BacklogInvariant, PTL

\* A PSYNC that masterTryPartialResynchronization() accepts is answered with
\* exactly the bytes the slave misses, for every size of the buffer.
THEOREM BacklogServesExactly == Spec => []ServedExactly
<1>1. IndInv => ServedExactly
  BY DEF IndInv
<1> QED  BY <1>1, BacklogInvariant, PTL

\* The range of offsets the backlog offers is the range it holds.
THEOREM BacklogWindow == Spec => []WindowConsistent
<1>1. IndInv => WindowConsistent
  BY DEF IndInv
<1> QED  BY <1>1, BacklogInvariant, PTL

-----------------------------------------------------------------------------
\* What the fence adds: the first byte of the window is at least two past
\* everything a backlog freed by the timeout reached.
FenceInv ==
  /\ retired <= master_repl_offset
  /\ repl_backlog => retired + 1 <= Newest - repl_backlog_histlen
  /\ repl_backlog => retired + 2 <= repl_backlog_off

LEMMA FenceStep == IndInv /\ FenceInv /\ [Next]_vars => FenceInv'
<1> SUFFICES ASSUME IndInv, FenceInv, [Next]_vars PROVE FenceInv'
  OBVIOUS
<1>0. /\ repl_backlog_size \in Nat \ {0} /\ retired \in Int /\ master_repl_offset \in Int
      /\ len \in Nat /\ repl_backlog_histlen \in Nat /\ repl_backlog_off \in Nat
      /\ repl_backlog \in BOOLEAN /\ repl_backlog_idx \in Nat
  BY SizesAssumption, BoundsAssumption DEF IndInv, TypeOK
<1>1. ASSUME NEW newsize \in Sizes, resizeReplicationBacklog(newsize) PROVE FenceInv'
  <2>1. len = 0
    BY <1>1 DEF resizeReplicationBacklog, IndInv, FeedInv
  <2> QED
    BY <1>0, <1>1, <2>1 DEF resizeReplicationBacklog, ResetBuffer, FenceInv, Newest
<1>2. ASSUME NEW n \in 1..MaxLen, FeedStart(n) PROVE FenceInv'
  <2>1. len = 0 /\ n \in Nat
    BY <1>2, BoundsAssumption DEF FeedStart, IndInv, FeedInv
  <2> QED
    BY <1>0, <1>2, <2>1 DEF FeedStart, buffer, FenceInv, Newest
<1>3. CASE FeedChunk
  <2> DEFINE room == repl_backlog_size - repl_backlog_idx
             thislen == IF room > len THEN len ELSE room
  <2>1. /\ len' = len - thislen /\ repl_backlog_histlen' = repl_backlog_histlen + thislen
        /\ UNCHANGED <<repl_backlog, repl_backlog_off, master_repl_offset, retired>>
    BY <1>3 DEF FeedChunk
  <2>2. thislen \in Int
    BY <1>0
  <2> HIDE DEF thislen
  <2> QED  BY <1>0, <2>1, <2>2 DEF FenceInv, Newest
<1>4. CASE FeedEnd
  <2>1. /\ repl_backlog_histlen' = IF repl_backlog_histlen > repl_backlog_size
                                   THEN repl_backlog_size ELSE repl_backlog_histlen
        /\ repl_backlog_off' = master_repl_offset - repl_backlog_histlen' + 1
        /\ len = 0
        /\ UNCHANGED <<repl_backlog, len, master_repl_offset, retired>>
    BY <1>4 DEF FeedEnd
  <2>2. repl_backlog_histlen' \in Nat /\ repl_backlog_histlen' <= repl_backlog_histlen
    BY <1>0, <2>1
  <2> QED  BY <1>0, <2>1, <2>2 DEF FenceInv, Newest
<1>5. ASSUME NEW psync_offset \in 0..(MaxOffset + 1), PartialResync(psync_offset)
      PROVE FenceInv'
  BY <1>5 DEF PartialResync, buffer, FenceInv, Newest
<1>6. CASE FullResync
  <2>1. len = 0
    BY <1>6 DEF FullResync, IndInv, FeedInv
  <2> QED
    BY <1>0, <1>6, <2>1 DEF FullResync, createReplicationBacklog, ResetBuffer, buffer,
       FenceInv, Newest
<1>7. CASE LastSlaveGone
  BY <1>7 DEF LastSlaveGone, buffer, FenceInv, Newest
<1>8. CASE BacklogTimeout
  BY <1>0, <1>8 DEF BacklogTimeout, freeReplicationBacklog, FenceInv
<1>9. CASE replicationSetMaster
  BY <1>0, <1>9 DEF replicationSetMaster, freeReplicationBacklog, FenceInv
<1>10. CASE MasterLinkUp \/ MasterLinkLost
  BY <1>10 DEF MasterLinkUp, MasterLinkLost, buffer, FenceInv, Newest
<1>11. ASSUME NEW reploff \in -1..MaxOffset, replicationUnsetMaster(reploff)
       PROVE FenceInv'
  <2>1. reploff >= -1
    BY BoundsAssumption
  <2> QED
    BY <1>0, <1>11, <2>1 DEF replicationUnsetMaster, freeReplicationBacklog, buffer,
       FenceInv, Newest
<1>12. CASE UNCHANGED vars
  BY <1>12 DEF vars, buffer, FenceInv, Newest
<1> QED
  BY <1>1, <1>2, <1>3, <1>4, <1>5, <1>6, <1>7, <1>8, <1>9, <1>10, <1>11, <1>12
  DEF Next, SameRole

\* Between two role changes the increment in createReplicationBacklog() does what
\* its comment says: no slave of an earlier backlog is accepted by PSYNC.
THEOREM BacklogFence == Spec => []NoPsyncWithPreviousSlave
<1>1. Init => IndInv /\ FenceInv
  <2>1. Init => FenceInv
    BY DEF Init, FenceInv
  <2> QED  BY <2>1, InitInv
<1>2. IndInv /\ FenceInv /\ [Next]_vars => IndInv' /\ FenceInv'
  BY NextInv, FenceStep
<1>3. IndInv /\ FenceInv => NoPsyncWithPreviousSlave
  BY DEF IndInv, TypeOK, FenceInv, NoPsyncWithPreviousSlave, CanPartialResync
<1> QED  BY <1>1, <1>2, <1>3, PTL DEF Spec

(***************************************************************************)
(* The hash table (module Dict).  The inductive invariant is Sound: both   *)
(* tables are as dict.c left them, and together hold each key once.        *)
(***************************************************************************)
Buckets == UNION {[0..(n - 1) -> SUBSET Entry] : n \in Nat}
Tables == [size : Nat, table : Buckets, used : Nat]

InItsBucket(t) == \A i \in DOMAIN t.table : \A e \in t.table[i] : Bucket(t, e.key) = i

TableSound(t) ==
  /\ t \in Tables
  /\ t.table \in [0..(t.size - 1) -> SUBSET Entry]
  /\ IsFiniteSet(AllIn(t)) /\ t.used = Cardinality(AllIn(t))
  /\ InItsBucket(t)

OnePerKey(S) == \A e, f \in S : e.key = f.key => e = f

Dicts == [ht0 : Tables, ht1 : Tables, rehashidx : Int, iterators : Int]

Sound(x) ==
  /\ x \in Dicts
  /\ TableSound(x.ht0) /\ TableSound(x.ht1)
  /\ OnePerKey(Entries(x))
  /\ AllIn(x.ht0) \cap AllIn(x.ht1) = {}
  /\ dictIsRehashing(x) => x.rehashidx \in Nat /\ x.ht0.size > 0 /\ x.ht1.size > 0
  /\ ~ dictIsRehashing(x) => x.ht1 = NoTable
  /\ \A i \in DOMAIN x.ht0.table : i < x.rehashidx => x.ht0.table[i] = {}

-----------------------------------------------------------------------------
(* Sizes and buckets. *)

LEMMA LeastOfNaturals ==
  ASSUME NEW T \in SUBSET Nat, T # {}
  PROVE  \E x \in T : \A y \in T : x <= y
<1> DEFINE Less == OpToRel(<, Nat)
<1>1. /\ IsWellFoundedOn(Less, Nat)
      /\ \A p \in Nat \X Nat : p[1] < p[2] => p \in Less
  BY NatLessThanWellFounded DEF OpToRel
<1> HIDE DEF Less
<1>2. PICK x \in T : \A y \in T : ~ (<<y, x>> \in Less)
  BY <1>1, WFMin
<1>3. ASSUME NEW y \in T PROVE x <= y
  <2> DEFINE yx == <<y, x>>
  <2>1. x \in Nat /\ y \in Nat /\ yx \notin Less
    BY <1>2
  <2>2. yx \in Nat \X Nat /\ yx[1] = y /\ yx[2] = x
    BY <2>1
  <2> HIDE DEF yx
  <2> QED
    BY <1>1, <2>1, <2>2
<1> QED
  BY <1>3

\* _dictNextPower finds a table of at least the size asked for
LEMMA NextPower ==
  ASSUME NEW n \in Nat, n <= MaxSize
  PROVE  _dictNextPower(n) \in Nat \ {0} /\ _dictNextPower(n) >= n
<1> DEFINE T == {m \in TableSizes : m >= n}
<1>1. MaxSize \in TableSizes
  <2>1. MaxSize \in 1..MaxSize /\ HashBits \in 0..HashBits
    BY DictAssumption
  <2>2. \E i \in 0..HashBits : MaxSize = InitialSize * 2^i
    BY <2>1 DEF MaxSize
  <2> QED
    BY <2>1, <2>2, Zenon DEF TableSizes
<1>2. T \in SUBSET Nat /\ T # {} /\ 0 \notin T
  <2>1. TableSizes \subseteq 1..MaxSize
    BY Zenon DEF TableSizes
  <2>2. MaxSize \in Nat
    BY DictAssumption
  <2>3. MaxSize \in T
    BY <1>1, <2>2
  <2>4. T \subseteq 1..MaxSize
    BY <2>1
  <2> QED
    BY <2>2, <2>3, <2>4
<1>3. PICK m \in T : \A y \in T : m <= y
  BY <1>2, LeastOfNaturals
<1>4. \E m1 \in TableSizes : m1 >= n /\ \A m2 \in TableSizes : m2 >= n => m1 <= m2
  BY <1>3
<1> QED
  BY <1>2, <1>4 DEF _dictNextPower

LEMMA BucketInRange ==
  ASSUME NEW t \in Tables, t.size > 0, NEW k \in DKey
  PROVE  Bucket(t, k) \in 0..(t.size - 1)
<1>1. HashOf[k] \in Nat /\ t.size \in Nat \ {0}
  BY DictAssumption DEF Tables
<1> QED
  BY <1>1 DEF Bucket

LEMMA AllInTyped ==
  ASSUME NEW t, TableSound(t)
  PROVE  /\ AllIn(t) \subseteq Entry
         /\ \A e : e \in AllIn(t) <=> \E i \in 0..(t.size - 1) : e \in t.table[i]
         /\ t.size = 0 => AllIn(t) = {}
BY DEF TableSound, AllIn, Tables

\* an entry that is in a table is in the bucket of its key
LEMMA WhereItIs ==
  ASSUME NEW t, TableSound(t), NEW e \in AllIn(t)
  PROVE  t.size > 0 /\ e \in Entry /\ Bucket(t, e.key) \in 0..(t.size - 1) /\ e \in t.table[Bucket(t, e.key)]
<1>1. PICK i \in 0..(t.size - 1) : e \in t.table[i]
  BY AllInTyped
<1> QED
  BY <1>1, AllInTyped DEF TableSound, InItsBucket, Tables

LEMMA FreshSound ==
  ASSUME NEW n \in Nat
  PROVE  TableSound(Fresh(n)) /\ AllIn(Fresh(n)) = {} /\ Fresh(n).size = n
<1>1. [i \in 0..(n - 1) |-> {}] \in [0..(n - 1) -> SUBSET Entry]
  OBVIOUS
<1>2. Fresh(n) \in Tables
  BY <1>1 DEF Fresh, Tables, Buckets
<1>3. AllIn(Fresh(n)) = {}
  BY DEF AllIn, Fresh
<1> QED
  BY <1>1, <1>2, <1>3, FS_EmptySet DEF TableSound, Fresh, InItsBucket

LEMMA NoTableSound == TableSound(NoTable) /\ AllIn(NoTable) = {} /\ NoTable.size = 0
<1>1. [i \in {} |-> {}] = [i \in 0..(0 - 1) |-> {}]
  OBVIOUS
<1>2. NoTable = Fresh(0)
  BY <1>1 DEF NoTable, Fresh
<1> QED
  BY <1>2, FreshSound

-----------------------------------------------------------------------------
(* Operations on one table. *)

\* u is t with other buckets, which hold the entries of S and nothing else
Rebuilt(u, t, table, S) ==
  /\ table \in [0..(t.size - 1) -> SUBSET Entry]
  /\ \A e : e \in S <=> \E i \in 0..(t.size - 1) : e \in table[i]
  /\ IsFiniteSet(S)
  /\ \A i \in 0..(t.size - 1) : \A e \in table[i] : Bucket(t, e.key) = i
  /\ u = [t EXCEPT !.table = table, !.used = Cardinality(S)]

LEMMA NewTable ==
  ASSUME NEW t, TableSound(t), NEW table, NEW S, NEW u, Rebuilt(u, t, table, S)
  PROVE  TableSound(u) /\ AllIn(u) = S /\ u.size = t.size
<1>1. t \in Tables /\ t.size \in Nat
  BY DEF TableSound, Tables
<1>2. Cardinality(S) \in Nat /\ table \in Buckets
  BY <1>1, FS_CardinalityType DEF Buckets, Rebuilt
<1>3. u \in Tables /\ u.size = t.size /\ u.table = table /\ u.used = Cardinality(S)
  BY <1>1, <1>2 DEF Tables, Rebuilt
<1>4. AllIn(u) = S
  BY <1>3 DEF AllIn, Rebuilt
<1>5. InItsBucket(u)
  BY <1>3 DEF InItsBucket, Bucket, Rebuilt
<1> QED
  BY <1>3, <1>4, <1>5 DEF TableSound, Rebuilt

LEMMA PutInSound ==
  ASSUME NEW t, TableSound(t), t.size > 0, NEW e \in Entry, e \notin AllIn(t)
  PROVE  TableSound(PutIn(t, e)) /\ AllIn(PutIn(t, e)) = AllIn(t) \cup {e} /\ PutIn(t, e).size = t.size
<1> DEFINE b == Bucket(t, e.key)
           table == [t.table EXCEPT ![b] = @ \cup {e}]
<1>1. b \in 0..(t.size - 1)
  BY BucketInRange DEF TableSound, Entry
<1>2. table \in [0..(t.size - 1) -> SUBSET Entry]
  BY <1>1 DEF TableSound
<1>3. \A f : f \in AllIn(t) \cup {e} <=> \E i \in 0..(t.size - 1) : f \in table[i]
  BY <1>1, AllInTyped DEF TableSound
<1>4. IsFiniteSet(AllIn(t) \cup {e}) /\ Cardinality(AllIn(t) \cup {e}) = t.used + 1
  BY FS_AddElement DEF TableSound
<1>5. \A i \in 0..(t.size - 1) : \A f \in table[i] : Bucket(t, f.key) = i
  BY <1>1 DEF TableSound, InItsBucket
<1>6. PutIn(t, e) = [t EXCEPT !.table = table, !.used = Cardinality(AllIn(t) \cup {e})]
  BY <1>4 DEF PutIn, TableSound, Tables
<1> HIDE DEF table, b
<1>7. Rebuilt(PutIn(t, e), t, table, AllIn(t) \cup {e})
  BY <1>2, <1>3, <1>4, <1>5, <1>6 DEF Rebuilt
<1> QED
  BY <1>7, NewTable

LEMMA TakeFromSound ==
  ASSUME NEW t, TableSound(t), NEW S
  PROVE  TableSound(TakeFrom(t, S)) /\ AllIn(TakeFrom(t, S)) = AllIn(t) \ S /\ TakeFrom(t, S).size = t.size
<1> DEFINE table == [i \in 0..(t.size - 1) |-> t.table[i] \ S]
<1>1. table \in [0..(t.size - 1) -> SUBSET Entry] /\ DOMAIN t.table = 0..(t.size - 1)
  BY DEF TableSound
<1>2. \A f : f \in AllIn(t) \ S <=> \E i \in 0..(t.size - 1) : f \in table[i]
  BY AllInTyped
<1>3. IsFiniteSet(AllIn(t) \ S) /\ Cardinality(AllIn(t) \ S) = t.used - Cardinality(S \cap AllIn(t))
  <2> DEFINE A == AllIn(t)
  <2>1. IsFiniteSet(A) /\ t.used = Cardinality(A) /\ S \cap A = A \cap S
    BY DEF TableSound
  <2> HIDE DEF A
  <2>2. IsFiniteSet(A \ S) /\ Cardinality(A \ S) = Cardinality(A) - Cardinality(A \cap S)
    BY <2>1, FS_Difference
  <2> QED
    BY <2>1, <2>2 DEF A
<1>4. \A i \in 0..(t.size - 1) : \A f \in table[i] : Bucket(t, f.key) = i
  BY DEF TableSound, InItsBucket
<1>5. TakeFrom(t, S) = [t EXCEPT !.table = table, !.used = Cardinality(AllIn(t) \ S)]
  BY <1>1, <1>3 DEF TakeFrom, TableSound, Tables
<1> HIDE DEF table
<1>6. Rebuilt(TakeFrom(t, S), t, table, AllIn(t) \ S)
  BY <1>1, <1>2, <1>3, <1>4, <1>5 DEF Rebuilt
<1> QED
  BY <1>6, NewTable

\* the entries of key k get the value v
Given(e, k, v) == IF e.key = k THEN [e EXCEPT !.val = v] ELSE e
Valued(t, k, v) == [t EXCEPT !.table = [i \in DOMAIN @ |-> {Given(e, k, v) : e \in @[i]}]]

LEMMA ValuedSound ==
  ASSUME NEW t, TableSound(t), OnePerKey(AllIn(t)), NEW k \in DKey, NEW v \in DVal
  PROVE  /\ TableSound(Valued(t, k, v)) /\ Valued(t, k, v).size = t.size
         /\ AllIn(Valued(t, k, v)) = {Given(e, k, v) : e \in AllIn(t)}
<1> DEFINE table == [i \in 0..(t.size - 1) |-> {Given(e, k, v) : e \in t.table[i]}]
           S == {Given(e, k, v) : e \in AllIn(t)}
           f == [e \in AllIn(t) |-> Given(e, k, v)]
<1>1. \A e \in Entry : Given(e, k, v) \in Entry /\ Given(e, k, v).key = e.key
  BY DEF Given, Entry
<1>2. DOMAIN t.table = 0..(t.size - 1) /\ AllIn(t) \subseteq Entry
      /\ \A i \in 0..(t.size - 1) : t.table[i] \subseteq Entry
  BY AllInTyped DEF TableSound
<1>3. table \in [0..(t.size - 1) -> SUBSET Entry]
  BY <1>1, <1>2
<1>4. \A e : e \in S <=> \E i \in 0..(t.size - 1) : e \in table[i]
  BY AllInTyped
<1>5. f \in Bijection(AllIn(t), S)
  <2>1. f \in [AllIn(t) -> S]
    OBVIOUS
  <2>2. \A e, g \in AllIn(t) : f[e] = f[g] => e = g
    BY <1>1, <1>2 DEF OnePerKey
  <2>3. \A x \in S : \E e \in AllIn(t) : f[e] = x
    OBVIOUS
  <2> HIDE DEF f, S
  <2>4. f \in Injection(AllIn(t), S)
    BY <2>1, <2>2 DEF Injection, IsInjective
  <2>5. f \in Surjection(AllIn(t), S)
    BY <2>1, <2>3 DEF Surjection
  <2> QED
    BY <2>4, <2>5 DEF Bijection
<1>6. IsFiniteSet(S) /\ Cardinality(S) = t.used
  BY <1>5, FS_Bijection DEF TableSound, ExistsBijection
<1>7. \A i \in 0..(t.size - 1) : \A e \in table[i] : Bucket(t, e.key) = i
  BY <1>1, <1>2 DEF TableSound, InItsBucket
<1>8. Valued(t, k, v) = [t EXCEPT !.table = table, !.used = Cardinality(S)]
  BY <1>2, <1>6 DEF Valued, TableSound, Tables
<1> HIDE DEF table, S
<1>9. Rebuilt(Valued(t, k, v), t, table, S)
  BY <1>3, <1>4, <1>6, <1>7, <1>8 DEF Rebuilt
<1> QED
  BY <1>9, NewTable DEF S

-----------------------------------------------------------------------------
(* Operations on both tables. *)

LEMMA SoundFacts ==
  ASSUME NEW x, Sound(x)
  PROVE  /\ Entries(x) \subseteq Entry /\ IsFiniteSet(Entries(x))
         /\ Cardinality(Entries(x)) = x.ht0.used + x.ht1.used
         /\ x.ht0.used \in Nat /\ x.ht1.used \in Nat
         /\ Cardinality(Entries(x)) <= Cardinality(DKey)
<1>1. Entries(x) \subseteq Entry
  BY AllInTyped DEF Sound, Entries
<1>3. x.ht0.used \in Nat /\ x.ht1.used \in Nat
  BY DEF Sound, TableSound, Tables
<1>2. IsFiniteSet(Entries(x)) /\ Cardinality(Entries(x)) = x.ht0.used + x.ht1.used
  <2> DEFINE A == AllIn(x.ht0)
             B == AllIn(x.ht1)
  <2>1. IsFiniteSet(A) /\ IsFiniteSet(B) /\ A \cap B = {} /\ x.ht0.used = Cardinality(A) /\ x.ht1.used = Cardinality(B)
    BY DEF Sound, TableSound
  <2>2. Entries(x) = A \cup B
    BY DEF Entries
  <2> HIDE DEF A, B
  <2>3. IsFiniteSet(A \cup B) /\ Cardinality(A \cup B) = Cardinality(A) + Cardinality(B) - Cardinality(A \cap B)
    BY <2>1, FS_Union
  <2> QED
    BY <2>1, <2>2, <2>3, <1>3, FS_EmptySet
<1>4. Cardinality(Entries(x)) <= Cardinality(DKey)
  <2> DEFINE f == [e \in Entries(x) |-> e.key]
  <2>1. f \in [Entries(x) -> DKey]
    BY <1>1 DEF Entry
  <2>2. \A e, g \in Entries(x) : f[e] = f[g] => e = g
    BY DEF Sound, OnePerKey
  <2> HIDE DEF f
  <2>3. f \in Injection(Entries(x), DKey)
    BY <2>1, <2>2 DEF Injection, IsInjective
  <2> QED
    BY <2>3, FS_Injection, DictAssumption
<1> QED
  BY <1>1, <1>2, <1>3, <1>4

\* looking in the buckets of k finds what there is of k
LEMMA FoundIsThere ==
  ASSUME NEW x, Sound(x), NEW k \in DKey
  PROVE  Found(x, k) = {e \in Entries(x) : e.key = k}
<1>1. TableSound(x.ht0) /\ TableSound(x.ht1)
  BY DEF Sound
<1>2. ASSUME NEW t, TableSound(t), t.size > 0
      PROVE  \A e : e.key = k => (e \in t.table[Bucket(t, k)] <=> e \in AllIn(t))
  <2>1. Bucket(t, k) \in 0..(t.size - 1)
    BY <1>2, BucketInRange DEF TableSound
  <2> QED
    BY <2>1, <1>2, WhereItIs, AllInTyped
<1>3. x.ht0.size = 0 \/ x.ht0.size > 0
  BY <1>1 DEF TableSound, Tables
<1>4. x.ht0.size = 0 => AllIn(x.ht0) = {}
  BY <1>1, AllInTyped
<1>5. ~ dictIsRehashing(x) => AllIn(x.ht1) = {}
  BY NoTableSound DEF Sound
<1>6. dictIsRehashing(x) => x.ht1.size > 0
  BY DEF Sound
<1>7. \A e : e.key = k => (e \in (IF x.ht0.size = 0 THEN {} ELSE x.ht0.table[Bucket(x.ht0, k)]) <=> e \in AllIn(x.ht0))
  BY <1>1, <1>2, <1>3, <1>4
<1>8. \A e : e.key = k => (e \in (IF dictIsRehashing(x) THEN x.ht1.table[Bucket(x.ht1, k)] ELSE {}) <=> e \in AllIn(x.ht1))
  BY <1>1, <1>2, <1>5, <1>6
<1> QED
  BY <1>7, <1>8 DEF Found, Entries

\* a step that only rearranges: the entries are the same
SameEntries(y, x) == Sound(y) /\ Entries(y) = Entries(x)

LEMMA ExpandSound ==
  ASSUME NEW x, Sound(x), NEW n \in Nat, n <= MaxSize
  PROVE  /\ SameEntries(dictExpand(x, n), x)
         /\ x.ht0.size > 0 \/ x.ht0.used <= n => dictExpand(x, n).ht0.size > 0
<1> DEFINE m == _dictNextPower(n)
           y == dictExpand(x, n)
<1>0. /\ x \in Dicts /\ TableSound(x.ht0) /\ TableSound(x.ht1) /\ m \in Nat \ {0}
      /\ x.ht0.size \in Nat /\ x.ht0.used \in Nat
  BY NextPower DEF Sound, TableSound, Tables
<1> HIDE DEF m
<1>1. TableSound(Fresh(m)) /\ AllIn(Fresh(m)) = {} /\ Fresh(m).size = m /\ Fresh(m) \in Tables
  BY <1>0, FreshSound DEF TableSound
<1>2. CASE dictIsRehashing(x) \/ x.ht0.used > n
  BY <1>0, <1>2 DEF dictExpand, SameEntries, Sound
<1>3. CASE ~ dictIsRehashing(x) /\ ~ x.ht0.used > n /\ x.ht0.size = 0
  <2>1. y = [x EXCEPT !.ht0 = Fresh(m)]
    BY <1>3 DEF dictExpand, m
  <2>2. y \in Dicts /\ y.ht0 = Fresh(m) /\ y.ht1 = x.ht1 /\ y.rehashidx = x.rehashidx
    BY <2>1, <1>0, <1>1 DEF Dicts
  <2>3. AllIn(x.ht0) = {}
    BY <1>0, <1>3, AllInTyped
  <2>4. Entries(y) = Entries(x)
    BY <2>2, <2>3, <1>1 DEF Entries
  <2>5. /\ ~ dictIsRehashing(y) /\ y.ht1 = NoTable /\ y.rehashidx = -1
        /\ \A i \in DOMAIN y.ht0.table : ~ i < -1
        /\ OnePerKey(Entries(y)) /\ AllIn(y.ht0) \cap AllIn(y.ht1) = {}
    <3>1. x.rehashidx = -1 /\ x.ht1 = NoTable /\ DOMAIN Fresh(m).table = 0..(m - 1) /\ OnePerKey(Entries(x))
      BY <1>3 DEF dictIsRehashing, Fresh, Sound
    <3>2. \A i \in 0..(m - 1) : ~ i < -1
      BY <1>0
    <3> QED
      BY <3>1, <3>2, <1>1, <2>2, <2>4, Zenon DEF dictIsRehashing
  <2>6. Sound(y)
    BY <2>2, <2>5, <1>1, <1>0 DEF Sound
  <2> QED
    BY <2>4, <2>6, <2>2, <1>1, <1>0 DEF SameEntries
<1>4. CASE ~ dictIsRehashing(x) /\ ~ x.ht0.used > n /\ x.ht0.size # 0
  <2>1. y = [x EXCEPT !.ht1 = Fresh(m), !.rehashidx = 0]
    BY <1>4 DEF dictExpand, m
  <2> DEFINE z == Fresh(m)
  <2> HIDE DEF y, z
  <2>2. y \in Dicts /\ y.ht1 = Fresh(m) /\ y.ht0 = x.ht0 /\ y.rehashidx = 0
    <3> DEFINE zero == 0
    <3>1. y = [x EXCEPT !.ht1 = z, !.rehashidx = zero] /\ z \in Tables /\ x \in Dicts /\ zero \in Int
      BY <2>1, <1>0, <1>1 DEF z
    <3> HIDE DEF zero
    <3>2. y \in Dicts /\ y.ht1 = z /\ y.ht0 = x.ht0 /\ y.rehashidx = zero
      BY <3>1 DEF Dicts
    <3> QED
      BY <3>2 DEF z, zero
  <2>3. AllIn(x.ht1) = {}
    BY <1>4, NoTableSound DEF Sound
  <2>4. Entries(y) = Entries(x)
    BY <2>2, <2>3, <1>1 DEF Entries
  <2>5. \A i \in DOMAIN y.ht0.table : ~ i < 0
    BY <2>2, <1>0 DEF TableSound
  <2>6. Sound(y)
    BY <2>2, <2>3, <2>4, <2>5, <1>1, <1>0, <1>4 DEF Sound, dictIsRehashing
  <2> QED
    BY <2>4, <2>6, <2>2, <1>0, <1>4 DEF SameEntries, y
<1> QED
  BY <1>2, <1>3, <1>4

-----------------------------------------------------------------------------
(* Rehashing. *)

LEMMA GreatestOf ==
  ASSUME NEW n \in Nat, NEW B \in SUBSET (0..n), B # {}
  PROVE  \E i \in B : \A j \in B : j <= i
<1> DEFINE T == {n - i : i \in B}
<1>1. T \in SUBSET Nat /\ T # {}
  <2>1. \A i \in B : n - i \in Nat
    OBVIOUS
  <2> QED
    BY <2>1
<1>2. PICK m \in T : \A y \in T : m <= y
  BY <1>1, LeastOfNaturals
<1>3. PICK i \in B : m = n - i
  BY <1>2
<1>4. \A j \in B : j <= i
  BY <1>2, <1>3
<1> QED
  BY <1>4

\* the buckets of B are the first ones of the first table that are not empty
FirstFull(B, x) ==
  /\ B \subseteq {i \in DOMAIN x.ht0.table : i >= x.rehashidx /\ x.ht0.table[i] # {}}
  /\ \A i \in DOMAIN x.ht0.table, j \in B : i < j /\ x.ht0.table[i] # {} => i \in B

Moving(x, B) == UNION {x.ht0.table[i] : i \in B}

LEMMA MovedFrom ==
  ASSUME NEW x, Sound(x), NEW B \in SUBSET (DOMAIN x.ht0.table)
  PROVE  LET u == [x.ht0 EXCEPT !.table = [i \in DOMAIN @ |-> IF i \in B THEN {} ELSE @[i]], !.used = @ - Cardinality(Moving(x, B))]
         IN  /\ TableSound(u) /\ u.size = x.ht0.size /\ AllIn(u) = AllIn(x.ht0) \ Moving(x, B)
             /\ u.table = [i \in DOMAIN x.ht0.table |-> IF i \in B THEN {} ELSE x.ht0.table[i]]
<1> DEFINE t == x.ht0
           es == Moving(x, B)
           table == [i \in DOMAIN t.table |-> IF i \in B THEN {} ELSE t.table[i]]
           u == [t EXCEPT !.table = [i \in DOMAIN @ |-> IF i \in B THEN {} ELSE @[i]], !.used = @ - Cardinality(es)]
<1>1. TableSound(t) /\ DOMAIN t.table = 0..(t.size - 1) /\ \A e : e \in es <=> \E i \in B : e \in t.table[i]
  BY DEF Sound, TableSound, Moving
<1>2. \A e : e \in AllIn(t) <=> \E i \in 0..(t.size - 1) : e \in t.table[i]
  BY <1>1, AllInTyped
<1>3. es \subseteq AllIn(t)
  BY <1>1, <1>2
<1>4. \A e : e \in AllIn(t) \ es <=> \E i \in 0..(t.size - 1) : e \in table[i]
  <2>1. \A i, j \in 0..(t.size - 1) : \A e : e \in t.table[i] /\ e \in t.table[j] => i = j
    BY <1>1 DEF TableSound, InItsBucket
  <2> QED
    BY <1>1, <1>2, <2>1
<1>5. IsFiniteSet(AllIn(t) \ es) /\ t.used - Cardinality(es) = Cardinality(AllIn(t) \ es)
  <2> DEFINE A == AllIn(t)
  <2>1. IsFiniteSet(A) /\ t.used = Cardinality(A) /\ A \cap es = es
    BY <1>1, <1>3 DEF TableSound
  <2> HIDE DEF A, es
  <2>2. IsFiniteSet(A \ es) /\ Cardinality(A \ es) = Cardinality(A) - Cardinality(A \cap es)
    BY <2>1, FS_Difference
  <2> QED
    BY <2>1, <2>2 DEF A
<1>6. table \in [0..(t.size - 1) -> SUBSET Entry]
  BY <1>1 DEF TableSound
<1>7. \A i \in 0..(t.size - 1) : \A e \in table[i] : Bucket(t, e.key) = i
  BY <1>1 DEF TableSound, InItsBucket
<1>8. u = [t EXCEPT !.table = table, !.used = Cardinality(AllIn(t) \ es)] /\ u.table = table
  BY <1>1, <1>5 DEF TableSound, Tables
<1> HIDE DEF table, es, t, u
<1>9. Rebuilt(u, t, table, AllIn(t) \ es)
  BY <1>4, <1>5, <1>6, <1>7, <1>8 DEF Rebuilt
<1>10. TableSound(u) /\ u.size = t.size /\ AllIn(u) = AllIn(t) \ es
  BY <1>1, <1>9, NewTable
<1> QED
  BY <1>8, <1>10 DEF u, t, es, table

LEMMA MovedTo ==
  ASSUME NEW x, Sound(x), dictIsRehashing(x), NEW es \in SUBSET AllIn(x.ht0)
  PROVE  LET Here(i) == {e \in es : Bucket(x.ht1, e.key) = i}
             u == [x.ht1 EXCEPT !.table = [i \in DOMAIN @ |-> @[i] \cup Here(i)], !.used = @ + Cardinality(es)]
         IN  TableSound(u) /\ u.size = x.ht1.size /\ AllIn(u) = AllIn(x.ht1) \cup es
<1> DEFINE t == x.ht1
           Here(i) == {e \in es : Bucket(t, e.key) = i}
           table == [i \in DOMAIN t.table |-> t.table[i] \cup Here(i)]
           u == [t EXCEPT !.table = [i \in DOMAIN @ |-> @[i] \cup Here(i)], !.used = @ + Cardinality(es)]
<1>1. TableSound(t) /\ t.size > 0 /\ DOMAIN t.table = 0..(t.size - 1) /\ TableSound(x.ht0) /\ AllIn(x.ht0) \cap AllIn(t) = {}
  BY DEF Sound, TableSound
<1>2. es \subseteq Entry /\ IsFiniteSet(es) /\ es \cap AllIn(t) = {}
  <2>1. IsFiniteSet(AllIn(x.ht0))
    BY <1>1 DEF TableSound
  <2> QED
    BY <1>1, <2>1, AllInTyped, FS_Subset
<1>3. \A e \in es : Bucket(t, e.key) \in 0..(t.size - 1)
  BY <1>1, <1>2, BucketInRange DEF TableSound, Entry
<1>4. \A e : e \in AllIn(t) \cup es <=> \E i \in 0..(t.size - 1) : e \in table[i]
  BY <1>1, <1>3, AllInTyped
<1>5. IsFiniteSet(AllIn(t) \cup es) /\ t.used + Cardinality(es) = Cardinality(AllIn(t) \cup es)
  <2> DEFINE A == AllIn(t)
  <2>1. IsFiniteSet(A) /\ t.used = Cardinality(A) /\ A \cap es = {} /\ Cardinality(A) \in Nat /\ Cardinality(es) \in Nat
    BY <1>1, <1>2, FS_CardinalityType DEF TableSound
  <2> HIDE DEF A
  <2>2. IsFiniteSet(A \cup es) /\ Cardinality(A \cup es) = Cardinality(A) + Cardinality(es) - Cardinality(A \cap es)
    BY <2>1, <1>2, FS_Union
  <2> QED
    <3>1. Cardinality(A \cap es) = 0
      BY <2>1, FS_EmptySet
    <3>2. IsFiniteSet(A \cup es) /\ Cardinality(A) + Cardinality(es) = Cardinality(A \cup es)
      BY <2>1, <2>2, <3>1
    <3> QED
      BY <2>1, <3>2 DEF A
<1>6. table \in [0..(t.size - 1) -> SUBSET Entry]
  BY <1>1, <1>2 DEF TableSound
<1>7. \A i \in 0..(t.size - 1) : \A e \in table[i] : Bucket(t, e.key) = i
  BY <1>1 DEF TableSound, InItsBucket
<1>8. u = [t EXCEPT !.table = table, !.used = Cardinality(AllIn(t) \cup es)]
  BY <1>1, <1>5 DEF TableSound, Tables
<1> HIDE DEF table, t, u
<1>9. Rebuilt(u, t, table, AllIn(t) \cup es)
  BY <1>4, <1>5, <1>6, <1>7, <1>8 DEF Rebuilt
<1>10. TableSound(u) /\ u.size = t.size /\ AllIn(u) = AllIn(t) \cup es
  BY <1>1, <1>9, NewTable
<1> QED
  BY <1>10 DEF u, t, table

LEMMA MovedSound ==
  ASSUME NEW x, Sound(x), dictIsRehashing(x), NEW B, FirstFull(B, x)
  PROVE  /\ SameEntries(Moved(x, B), x) /\ dictIsRehashing(Moved(x, B))
         /\ Moved(x, B).ht0.size = x.ht0.size
<1> DEFINE es == Moving(x, B)
           Here(i) == {e \in es : Bucket(x.ht1, e.key) = i}
           h0 == [x.ht0 EXCEPT !.table = [i \in DOMAIN @ |-> IF i \in B THEN {} ELSE @[i]], !.used = @ - Cardinality(es)]
           h1 == [x.ht1 EXCEPT !.table = [i \in DOMAIN @ |-> @[i] \cup Here(i)], !.used = @ + Cardinality(es)]
           idx == IF B = {} THEN x.rehashidx ELSE 1 + CHOOSE i \in B : \A j \in B : j <= i
           y == Moved(x, B)
<1>1. /\ x \in Dicts /\ B \in SUBSET (DOMAIN x.ht0.table) /\ x.ht0.size \in Nat /\ x.ht0.size > 0
      /\ DOMAIN x.ht0.table = 0..(x.ht0.size - 1) /\ x.rehashidx \in Nat
  BY DEF Sound, TableSound, FirstFull, Tables
<1>2. TableSound(h0) /\ h0.size = x.ht0.size /\ AllIn(h0) = AllIn(x.ht0) \ es
      /\ h0.table = [i \in DOMAIN x.ht0.table |-> IF i \in B THEN {} ELSE x.ht0.table[i]]
  BY <1>1, MovedFrom
<1>3. es \in SUBSET AllIn(x.ht0)
  BY <1>1 DEF Moving, AllIn
<1>4. TableSound(h1) /\ h1.size = x.ht1.size /\ AllIn(h1) = AllIn(x.ht1) \cup es
  BY <1>3, MovedTo
<1>5. idx \in Nat /\ \A i \in 0..(x.ht0.size - 1) : i < idx => i \in B \/ x.ht0.table[i] = {}
  <2>1. CASE B = {}
    BY <2>1, <1>1 DEF Sound
  <2>2. CASE B # {}
    <3>1. \E i \in B : \A j \in B : j <= i
      <4>1. x.ht0.size - 1 \in Nat /\ B \in SUBSET (0..(x.ht0.size - 1))
        BY <1>1
      <4> QED
        BY <4>1, <2>2, GreatestOf
    <3> DEFINE i == CHOOSE i \in B : \A j \in B : j <= i
    <3>2. i \in B /\ \A j \in B : j <= i
      BY <3>1
    <3>3. idx = 1 + i
      BY <2>2
    <3> HIDE DEF i, idx
    <3>4. i \in 0..(x.ht0.size - 1) /\ x.ht0.table[i] # {}
      BY <3>2, <1>1 DEF FirstFull
    <3>5. ASSUME NEW k \in 0..(x.ht0.size - 1), k < idx, x.ht0.table[k] # {}
          PROVE  k \in B
      <4>1. k < i \/ k = i
        BY <3>3, <3>4, <3>5
      <4> QED
        BY <4>1, <3>2, <3>5, <1>1 DEF FirstFull
    <3> QED
      BY <3>3, <3>4, <3>5
  <2> QED
    BY <2>1, <2>2
<1>6. y = [x EXCEPT !.ht0 = h0, !.ht1 = h1, !.rehashidx = idx]
  BY Zenon DEF Moved, Moving
<1> HIDE DEF es, h0, h1, idx, y
<1>7. h0 \in Tables /\ h1 \in Tables /\ idx \in Int
  BY <1>2, <1>4, <1>5 DEF TableSound
<1>8. y \in Dicts /\ y.ht0 = h0 /\ y.ht1 = h1 /\ y.rehashidx = idx
  BY <1>1, <1>6, <1>7 DEF Dicts
<1>9. Entries(y) = Entries(x) /\ AllIn(y.ht0) \cap AllIn(y.ht1) = {}
  BY <1>2, <1>3, <1>4, <1>8 DEF Entries, Sound
<1>10. dictIsRehashing(y) /\ y.rehashidx \in Nat /\ y.ht0.size > 0 /\ y.ht1.size > 0
  BY <1>2, <1>4, <1>5, <1>8 DEF dictIsRehashing, Sound
<1>11. \A i \in DOMAIN y.ht0.table : i < y.rehashidx => y.ht0.table[i] = {}
  BY <1>1, <1>2, <1>5, <1>8
<1>12. OnePerKey(Entries(y)) /\ TableSound(y.ht0) /\ TableSound(y.ht1)
  BY <1>2, <1>4, <1>8, <1>9 DEF Sound
<1>13. Sound(y)
  BY <1>8, <1>9, <1>10, <1>11, <1>12 DEF Sound
<1> QED
  BY <1>2, <1>8, <1>9, <1>10, <1>13 DEF SameEntries, y

\* a call of dictRehash changes no entry, whether it ends the rehashing or not
LEMMA RehashSound ==
  ASSUME NEW x, Sound(x), NEW n \in Nat
  PROVE  SameEntries(dictRehash(x, n), x) /\ (x.ht0.size > 0 => dictRehash(x, n).ht0.size > 0)
<1>1. CASE ~ dictIsRehashing(x)
  BY <1>1 DEF dictRehash, SameEntries
<1>2. CASE dictIsRehashing(x)
  <2> DEFINE full == {i \in DOMAIN x.ht0.table : i >= x.rehashidx /\ x.ht0.table[i] # {}}
             next == {i \in full : Cardinality({j \in full : j < i}) < n}
             y == Moved(x, next)
             z == [y EXCEPT !.ht0 = y.ht1, !.ht1 = NoTable, !.rehashidx = -1]
  <2>1. /\ DOMAIN x.ht0.table = 0..(x.ht0.size - 1) /\ x.ht0.size \in Nat /\ x.ht0.size > 0
        /\ \A i \in DOMAIN x.ht0.table : i < x.rehashidx => x.ht0.table[i] = {}
        /\ x.rehashidx \in Nat
    BY <1>2 DEF Sound, TableSound, Tables
  <2>2. IsFiniteSet(full)
    <3>1. IsFiniteSet(0..(x.ht0.size - 1))
      BY <2>1, FS_Interval
    <3>2. full \in SUBSET (0..(x.ht0.size - 1))
      BY <2>1
    <3> QED
      BY <3>1, <3>2, FS_Subset
  <2>3. ASSUME NEW i \in full, NEW j \in next, i < j
        PROVE  i \in next
    <3> DEFINE I == {k \in full : k < i}
               J == {k \in full : k < j}
    <3>1. I \subseteq J /\ J \subseteq full
      BY <2>1, <2>3
    <3> HIDE DEF I, J, full
    <3>2. IsFiniteSet(J)
      BY <2>2, <3>1, FS_Subset
    <3>3. Cardinality(I) <= Cardinality(J) /\ Cardinality(I) \in Nat /\ Cardinality(J) \in Nat
      BY <3>1, <3>2, FS_Subset, FS_CardinalityType
    <3>4. Cardinality(J) < n
      BY DEF J
    <3>5. Cardinality(I) < n
      BY <3>3, <3>4
    <3> QED
      BY <3>5, <2>3 DEF I
  <2>4. FirstFull(next, x)
    <3>1. ASSUME NEW i \in DOMAIN x.ht0.table, x.ht0.table[i] # {} PROVE i \in full
      <4>1. i \in 0..(x.ht0.size - 1) /\ x.rehashidx \in Nat
        BY <2>1
      <4>2. ~ i < x.rehashidx
        BY <3>1, <2>1
      <4>3. i >= x.rehashidx
        BY <4>1, <4>2
      <4> QED
        BY <4>3, <3>1
    <3>2. next \subseteq full
      OBVIOUS
    <3> HIDE DEF next
    <3> QED
      BY <3>1, <3>2, <2>3 DEF FirstFull
  <2> HIDE DEF next
  <2>5. SameEntries(y, x) /\ dictIsRehashing(y) /\ y.ht0.size = x.ht0.size
    BY <1>2, <2>4, MovedSound
  <2>6. dictRehash(x, n) = IF y.ht0.used = 0 /\ Cardinality(next) < n THEN z ELSE y
    BY <1>2 DEF dictRehash, next
  <2> HIDE DEF y
  <2>7. ASSUME y.ht0.used = 0
        PROVE  SameEntries(z, x) /\ z.ht0.size > 0
    <3> DEFINE none == -1
    <3> DEFINE w == [y EXCEPT !.ht0 = y.ht1, !.ht1 = NoTable, !.rehashidx = none]
    <3>1. none \in Int /\ ~ none # -1 /\ w = z
      OBVIOUS
    <3>2. y \in Dicts /\ TableSound(y.ht1) /\ y.ht1 \in Tables /\ y.ht1.size > 0
      BY <2>5 DEF SameEntries, Sound, Dicts
    <3>3. TableSound(NoTable) /\ NoTable \in Tables /\ AllIn(NoTable) = {}
      BY NoTableSound DEF TableSound
    <3> HIDE DEF none
    <3>4. w \in Dicts /\ w.ht0 = y.ht1 /\ w.ht1 = NoTable /\ w.rehashidx = none
      BY <3>1, <3>2, <3>3 DEF Dicts
    <3> HIDE DEF w
    <3>5. AllIn(y.ht0) = {}
      BY <2>5, <2>7, FS_EmptySet DEF SameEntries, Sound, TableSound
    <3>6. Entries(w) = Entries(x) /\ AllIn(w.ht0) \cap AllIn(w.ht1) = {}
      BY <3>3, <3>4, <3>5, <2>5 DEF Entries, SameEntries
    <3>7. ~ dictIsRehashing(w) /\ OnePerKey(Entries(w))
      BY <3>1, <3>4, <3>6 DEF dictIsRehashing, Sound
    <3>8. \A i \in DOMAIN w.ht0.table : ~ i < w.rehashidx
      BY <3>1, <3>2, <3>4 DEF TableSound, Tables, none
    <3>9. Sound(w)
      BY <3>2, <3>3, <3>4, <3>6, <3>7, <3>8 DEF Sound
    <3> QED
      BY <3>1, <3>2, <3>4, <3>6, <3>9 DEF SameEntries
  <2> QED
    BY <2>1, <2>5, <2>6, <2>7
<1> QED
  BY <1>1, <1>2

-----------------------------------------------------------------------------
(* What the operations do to the entries. *)

LEMMA RehashStepSound ==
  ASSUME NEW x, Sound(x)
  PROVE  /\ SameEntries(_dictRehashStep(x), x)
         /\ x.ht0.size > 0 => _dictRehashStep(x).ht0.size > 0
BY RehashSound DEF _dictRehashStep, RehashOne, SameEntries

LEMMA ResizeSound ==
  ASSUME NEW x, Sound(x)
  PROVE  SameEntries(dictResize(x), x)
<1>1. x.ht0.used \in Nat /\ x.ht0.used <= MaxSize /\ InitialSize \in Nat /\ InitialSize <= MaxSize
  <2>1. Cardinality(DKey) \in Nat /\ MaxSize \in Nat /\ InitialSize \in 1..MaxSize /\ 2 * Cardinality(DKey) <= MaxSize
    BY DictAssumption, FS_CardinalityType
  <2> QED
    BY <2>1, SoundFacts
<1>2. CASE ~ canResize \/ dictIsRehashing(x)
  BY <1>2 DEF dictResize, SameEntries
<1>3. CASE ~ (~ canResize \/ dictIsRehashing(x))
  BY <1>1, <1>3, ExpandSound DEF dictResize
<1> QED
  BY <1>2, <1>3

LEMMA PreparedSound ==
  ASSUME NEW x, Sound(x)
  PROVE  SameEntries(Prepared(x), x) /\ Prepared(x).ht0.size > 0
<1> DEFINE y == _dictRehashStep(x)
<1>1. SameEntries(y, x) /\ Sound(y)
  BY RehashStepSound DEF SameEntries
<1> HIDE DEF y
<1>2. y.ht0.used \in Nat /\ y.ht0.used * 2 \in Nat /\ y.ht0.used * 2 <= MaxSize
      /\ InitialSize \in Nat /\ InitialSize <= MaxSize /\ y.ht0.size \in Nat
  <2>1. Cardinality(DKey) \in Nat /\ MaxSize \in Nat /\ InitialSize \in 1..MaxSize /\ 2 * Cardinality(DKey) <= MaxSize
    BY DictAssumption, FS_CardinalityType
  <2>2. y.ht0.used \in Nat /\ y.ht1.used \in Nat /\ y.ht0.used + y.ht1.used <= Cardinality(DKey)
    BY <1>1, SoundFacts
  <2>3. y.ht0.size \in Nat
    BY <1>1 DEF Sound, TableSound, Tables
  <2> QED
    BY <2>1, <2>2, <2>3
<1>3. /\ SameEntries(_dictExpandIfNeeded(y), y)
      /\ _dictExpandIfNeeded(y).ht0.size > 0
  <2>1. CASE dictIsRehashing(y)
    BY <1>1, <2>1 DEF _dictExpandIfNeeded, SameEntries, Sound
  <2>2. CASE ~ dictIsRehashing(y) /\ y.ht0.size = 0
    <3>1. y.ht0.used = 0
      BY <1>1, <2>2, AllInTyped, FS_EmptySet DEF Sound, TableSound
    <3>2. y.ht0.used <= InitialSize
      BY <3>1, <1>2
    <3>3. _dictExpandIfNeeded(y) = dictExpand(y, InitialSize)
      BY <2>2 DEF _dictExpandIfNeeded
    <3> QED
      BY <1>1, <1>2, <3>2, <3>3, ExpandSound
  <2>3. CASE ~ dictIsRehashing(y) /\ y.ht0.size # 0
    <3>1. y.ht0.size > 0
      BY <1>2, <2>3
    <3>2. _dictExpandIfNeeded(y) = y \/ _dictExpandIfNeeded(y) = dictExpand(y, y.ht0.used * 2)
      BY <2>3 DEF _dictExpandIfNeeded
    <3>3. SameEntries(dictExpand(y, y.ht0.used * 2), y) /\ dictExpand(y, y.ht0.used * 2).ht0.size > 0
      BY <1>1, <1>2, <3>1, ExpandSound
    <3> QED
      BY <1>1, <3>1, <3>2, <3>3 DEF SameEntries
  <2> QED
    BY <2>1, <2>2, <2>3
<1> QED
  BY <1>1, <1>3 DEF Prepared, SameEntries, y

LEMMA InsertedSound ==
  ASSUME NEW x, Sound(x), x.ht0.size > 0, NEW k \in DKey, NEW v \in DVal, Found(x, k) = {}
  PROVE  Sound(Inserted(x, k, v)) /\ Entries(Inserted(x, k, v)) = Entries(x) \cup {[key |-> k, val |-> v]}
<1> DEFINE e == [key |-> k, val |-> v]
           y == Inserted(x, k, v)
<1>1. e \in Entry /\ e.key = k
  BY DEF Entry
<1> HIDE DEF e
<1>2. \A f \in Entries(x) : f.key # k
  BY FoundIsThere
<1>3. e \notin AllIn(x.ht0) /\ e \notin AllIn(x.ht1) /\ OnePerKey(Entries(x) \cup {e})
  BY <1>1, <1>2 DEF Entries, Sound, OnePerKey
<1>4. x \in Dicts /\ TableSound(x.ht0) /\ TableSound(x.ht1)
  BY DEF Sound
<1>5. CASE dictIsRehashing(x)
  <2> DEFINE u == PutIn(x.ht1, e)
  <2>1. TableSound(u) /\ AllIn(u) = AllIn(x.ht1) \cup {e} /\ u.size = x.ht1.size
    BY <1>1, <1>3, <1>4, <1>5, PutInSound DEF Sound
  <2>2. y = [x EXCEPT !.ht1 = u]
    BY <1>5 DEF Inserted, e
  <2> HIDE DEF u, y
  <2>3. y \in Dicts /\ y.ht0 = x.ht0 /\ y.ht1 = u /\ y.rehashidx = x.rehashidx
    BY <2>1, <2>2, <1>4 DEF Dicts, TableSound
  <2>4. Entries(y) = Entries(x) \cup {e} /\ AllIn(y.ht0) \cap AllIn(y.ht1) = {}
    BY <2>1, <2>3, <1>3 DEF Entries, Sound
  <2>5. Sound(y)
    BY <2>1, <2>3, <2>4, <1>3, <1>5 DEF Sound, dictIsRehashing
  <2> QED
    BY <2>4, <2>5 DEF y, e
<1>6. CASE ~ dictIsRehashing(x)
  <2> DEFINE u == PutIn(x.ht0, e)
  <2>1. TableSound(u) /\ AllIn(u) = AllIn(x.ht0) \cup {e} /\ u.size = x.ht0.size
    BY <1>1, <1>3, <1>4, <1>6, PutInSound DEF Sound
  <2>2. y = [x EXCEPT !.ht0 = u]
    BY <1>6 DEF Inserted, e
  <2> HIDE DEF u, y
  <2>3. y \in Dicts /\ y.ht0 = u /\ y.ht1 = x.ht1 /\ y.rehashidx = x.rehashidx /\ x.rehashidx = -1
    BY <2>1, <2>2, <1>4, <1>6 DEF Dicts, TableSound, dictIsRehashing
  <2>4. Entries(y) = Entries(x) \cup {e} /\ AllIn(y.ht0) \cap AllIn(y.ht1) = {}
    BY <2>1, <2>3, <1>3 DEF Entries, Sound
  <2>5. \A i \in DOMAIN y.ht0.table : ~ i < -1
    BY <2>1, <2>3 DEF TableSound, Tables
  <2>6. Sound(y)
    BY <2>1, <2>3, <2>4, <2>5, <1>3, <1>6 DEF Sound, dictIsRehashing
  <2> QED
    BY <2>4, <2>6 DEF y, e
<1> QED
  BY <1>5, <1>6

LEMMA RevaluedSound ==
  ASSUME NEW x, Sound(x), NEW k \in DKey, NEW v \in DVal
  PROVE  Sound(Revalued(x, k, v)) /\ Entries(Revalued(x, k, v)) = {Given(e, k, v) : e \in Entries(x)}
<1> DEFINE y == Revalued(x, k, v)
           h0 == Valued(x.ht0, k, v)
           h1 == Valued(x.ht1, k, v)
<1>1. x \in Dicts /\ TableSound(x.ht0) /\ TableSound(x.ht1) /\ OnePerKey(AllIn(x.ht0)) /\ OnePerKey(AllIn(x.ht1))
  BY DEF Sound, OnePerKey, Entries
<1>2. /\ TableSound(h0) /\ h0.size = x.ht0.size /\ AllIn(h0) = {Given(e, k, v) : e \in AllIn(x.ht0)}
      /\ TableSound(h1) /\ h1.size = x.ht1.size /\ AllIn(h1) = {Given(e, k, v) : e \in AllIn(x.ht1)}
  BY <1>1, ValuedSound
<1>3. y = [x EXCEPT !.ht0 = h0, !.ht1 = h1]
  BY Zenon DEF Revalued, Valued, Given
<1>4. h0.table = [i \in DOMAIN x.ht0.table |-> {Given(e, k, v) : e \in x.ht0.table[i]}]
  BY <1>1 DEF Valued, Tables, TableSound
<1>5. x.ht1 = NoTable => h1 = NoTable
  <2>1. ASSUME NEW t \in Tables, DOMAIN t.table = {} PROVE Valued(t, k, v) = t
    <3>1. [i \in DOMAIN t.table |-> {Given(e, k, v) : e \in t.table[i]}] = t.table
      BY <2>1 DEF Tables, Buckets
    <3> QED
      BY <3>1 DEF Valued, Tables
  <2>2. NoTable \in Tables /\ DOMAIN NoTable.table = {}
    BY NoTableSound DEF NoTable, TableSound
  <2> QED
    BY <2>1, <2>2
<1> HIDE DEF h0, h1, y
<1>6. y \in Dicts /\ y.ht0 = h0 /\ y.ht1 = h1 /\ y.rehashidx = x.rehashidx
  BY <1>1, <1>2, <1>3 DEF Dicts, TableSound
<1>7. \A e \in Entry : Given(e, k, v).key = e.key
  BY DEF Given, Entry
<1>8. Entries(x) \subseteq Entry
  BY SoundFacts
<1>9. Entries(y) = {Given(e, k, v) : e \in Entries(x)}
  BY <1>2, <1>6 DEF Entries
<1>10. OnePerKey(Entries(y))
  <2>1. OnePerKey(Entries(x))
    BY DEF Sound
  <2> QED
    BY <2>1, <1>7, <1>8, <1>9 DEF OnePerKey
<1>11. AllIn(y.ht0) \cap AllIn(y.ht1) = {}
  <2>1. \A e \in AllIn(x.ht0), f \in AllIn(x.ht1) : e \in Entry /\ f \in Entry /\ e.key # f.key
    BY <1>8 DEF Sound, OnePerKey, Entries
  <2> QED
    BY <2>1, <1>2, <1>6, <1>7
<1>12. \A i \in DOMAIN y.ht0.table : i < y.rehashidx => y.ht0.table[i] = {}
  BY <1>4, <1>6 DEF Sound
<1>13. Sound(y)
  BY <1>2, <1>5, <1>6, <1>10, <1>11, <1>12 DEF Sound, dictIsRehashing
<1> QED
  BY <1>9, <1>13 DEF y

\* the entry of k leaves the table that holds it
Deleted(x, k) == [x EXCEPT !.ht0 = TakeFrom(@, Found(x, k)), !.ht1 = TakeFrom(@, Found(x, k))]

LEMMA DeletedSound ==
  ASSUME NEW x, Sound(x), NEW k \in DKey
  PROVE  Sound(Deleted(x, k)) /\ Entries(Deleted(x, k)) = {e \in Entries(x) : e.key # k}
<1> DEFINE S == Found(x, k)
           y == Deleted(x, k)
           h0 == TakeFrom(x.ht0, S)
           h1 == TakeFrom(x.ht1, S)
<1>1. x \in Dicts /\ TableSound(x.ht0) /\ TableSound(x.ht1) /\ S = {e \in Entries(x) : e.key = k}
  BY FoundIsThere DEF Sound
<1>2. /\ TableSound(h0) /\ h0.size = x.ht0.size /\ AllIn(h0) = AllIn(x.ht0) \ S
      /\ TableSound(h1) /\ h1.size = x.ht1.size /\ AllIn(h1) = AllIn(x.ht1) \ S
  BY <1>1, TakeFromSound
<1>3. y = [x EXCEPT !.ht0 = h0, !.ht1 = h1]
  BY DEF Deleted
<1>4. h0.table = [i \in DOMAIN x.ht0.table |-> x.ht0.table[i] \ S]
  BY <1>1 DEF TakeFrom, Tables, TableSound
<1>5. x.ht1 = NoTable => h1 = NoTable
  <2>1. ASSUME NEW t \in Tables, DOMAIN t.table = {}, t.used = 0, S \cap AllIn(t) = {} PROVE TakeFrom(t, S) = t
    <3>1. [i \in DOMAIN t.table |-> t.table[i] \ S] = t.table
      BY <2>1 DEF Tables, Buckets
    <3>2. t.used - Cardinality(S \cap AllIn(t)) = t.used
      BY <2>1, FS_EmptySet
    <3> QED
      BY <3>1, <3>2 DEF TakeFrom, Tables
  <2>2. NoTable \in Tables /\ DOMAIN NoTable.table = {} /\ NoTable.used = 0 /\ S \cap AllIn(NoTable) = {}
    BY NoTableSound DEF NoTable, TableSound
  <2> QED
    BY <2>1, <2>2
<1> HIDE DEF h0, h1, y, S
<1>6. y \in Dicts /\ y.ht0 = h0 /\ y.ht1 = h1 /\ y.rehashidx = x.rehashidx
  BY <1>1, <1>2, <1>3 DEF Dicts, TableSound
<1>7. Entries(y) = Entries(x) \ S
  BY <1>2, <1>6 DEF Entries
<1>8. OnePerKey(Entries(y)) /\ AllIn(y.ht0) \cap AllIn(y.ht1) = {}
  BY <1>2, <1>6, <1>7 DEF Sound, OnePerKey
<1>9. \A i \in DOMAIN y.ht0.table : i < y.rehashidx => y.ht0.table[i] = {}
  BY <1>4, <1>6 DEF Sound
<1>10. Sound(y)
  BY <1>2, <1>5, <1>6, <1>8, <1>9 DEF Sound, dictIsRehashing
<1> QED
  BY <1>1, <1>7, <1>10 DEF y

-----------------------------------------------------------------------------
(* The map that the two tables stand for. *)

ContentsOf(x) == [k \in Keys(x) |-> (CHOOSE e \in Entries(x) : e.key = k).val]

LEMMA ContentsAre ==
  ASSUME NEW x, Sound(x), NEW m, m = [k \in Keys(x) |-> m[k]], \A e \in Entries(x) : m[e.key] = e.val
  PROVE  ContentsOf(x) = m
<1>1. \A k \in Keys(x) : (CHOOSE e \in Entries(x) : e.key = k) \in Entries(x) /\ (CHOOSE e \in Entries(x) : e.key = k).key = k
  BY DEF Keys
<1>2. \A k \in Keys(x) : (CHOOSE e \in Entries(x) : e.key = k).val = m[k]
  BY <1>1
<1> QED
  BY <1>2 DEF ContentsOf

LEMMA ContentsValue ==
  ASSUME NEW x, Sound(x), NEW e \in Entries(x)
  PROVE  e.key \in DOMAIN ContentsOf(x) /\ ContentsOf(x)[e.key] = e.val
<1>1. e.key \in Keys(x)
  BY DEF Keys
<1>2. (CHOOSE f \in Entries(x) : f.key = e.key) = e
  BY DEF Sound, OnePerKey
<1> QED
  BY <1>1, <1>2 DEF ContentsOf

LEMMA SameContents ==
  ASSUME NEW x, NEW y, SameEntries(y, x)
  PROVE  ContentsOf(y) = ContentsOf(x)
BY DEF SameEntries, ContentsOf, Keys

\* a key is found exactly when the map has it, with its value
LEMMA FoundInMap ==
  ASSUME NEW x, Sound(x), NEW k \in DKey
  PROVE  /\ Found(x, k) = {} <=> k \notin DOMAIN ContentsOf(x)
         /\ \A e \in Found(x, k) : e.val = ContentsOf(x)[k]
<1>1. Found(x, k) = {e \in Entries(x) : e.key = k}
  BY FoundIsThere
<1>2. DOMAIN ContentsOf(x) = {e.key : e \in Entries(x)}
  BY DEF ContentsOf, Keys
<1> QED
  BY <1>1, <1>2, ContentsValue

\* k has got the value v, and nothing else has changed
GetsValue(y, x, k, v) == Entries(y) = {f \in Entries(x) : f.key # k} \cup {[key |-> k, val |-> v]}

Put(m, k, v) == [j \in DOMAIN m \cup {k} |-> IF j = k THEN v ELSE m[j]]

LEMMA ContentsWith ==
  ASSUME NEW x, Sound(x), NEW y, Sound(y), NEW k, NEW v, GetsValue(y, x, k, v)
  PROVE  ContentsOf(y) = Put(ContentsOf(x), k, v)
<1> DEFINE e == [key |-> k, val |-> v]
           m == [j \in DOMAIN ContentsOf(x) \cup {k} |-> IF j = k THEN v ELSE ContentsOf(x)[j]]
<1>1. e.key = k /\ e.val = v /\ \A f : f \in Entries(y) <=> f = e \/ (f \in Entries(x) /\ f.key # k)
  BY DEF GetsValue
<1> HIDE DEF e
<1>2. Keys(y) = Keys(x) \cup {k}
  BY <1>1 DEF Keys
<1>3. DOMAIN ContentsOf(x) = Keys(x)
  BY DEF ContentsOf
<1>4. m = [j \in Keys(y) |-> m[j]]
  BY <1>2, <1>3
<1>5. \A f \in Entries(y) : m[f.key] = f.val
  BY <1>1, <1>2, <1>3, ContentsValue
<1> HIDE DEF m
<1>6. ContentsOf(y) = m
  BY <1>4, <1>5, ContentsAre
<1> QED
  BY <1>6 DEF m, Put

\* the inductive invariant
DictInv == Sound(d) /\ mode \in DMode

LEMMA ModeTyped ==
  ASSUME DictInv
  PROVE  mode.keys \subseteq DKey /\ mode.vals \subseteq DVal
BY DictAssumption DEF DictInv

-----------------------------------------------------------------------------
(* Every step of the hash table is a step of the map, or changes neither   *)
(* the map nor the answer.                                                 *)
Stutter == Contents' = Contents /\ answered' = answered

LEMMA QuietStep ==
  ASSUME NEW y, d' = y, SameEntries(y, d)
  PROVE  Sound(d') /\ Contents' = Contents
<1>1. ContentsOf(d') = ContentsOf(d)
  BY SameContents
<1> QED
  BY <1>1 DEF SameEntries, Contents, ContentsOf

LEMMA AddStep ==
  ASSUME DictInv, NEW k \in DKey, NEW v \in DVal, dictAdd(k, v)
  PROVE  Sound(d') /\ Abstract!MapAdd(k, v)
<1> DEFINE x == Prepared(d)
           y == Inserted(x, k, v)
<1>1. SameEntries(x, d) /\ x.ht0.size > 0 /\ Sound(x)
  BY PreparedSound DEF DictInv, SameEntries
<1>2. ContentsOf(x) = ContentsOf(d) /\ Contents = ContentsOf(d) /\ Contents' = ContentsOf(d')
  BY <1>1, SameContents DEF Contents, ContentsOf
<1>3. CASE Found(x, k) # {}
  <2>1. d' = x /\ answered' = <<k, "err">>
    BY <1>3 DEF dictAdd
  <2>2. k \in DOMAIN Contents
    BY <1>1, <1>2, <1>3, FoundInMap
  <2> QED
    BY <2>1, <2>2, <1>1, <1>2 DEF Abstract!MapAdd
<1>4. CASE Found(x, k) = {}
  <2>1. d' = y /\ answered' = <<k, "ok", v>>
    BY <1>4 DEF dictAdd
  <2>2. k \notin DOMAIN Contents
    BY <1>1, <1>2, <1>4, FoundInMap
  <2>3. Sound(y) /\ Entries(y) = Entries(x) \cup {[key |-> k, val |-> v]}
    BY <1>1, <1>4, InsertedSound
  <2> HIDE DEF x, y
  <2>4. \A f \in Entries(x) : f.key # k
    <3>1. ASSUME NEW f \in Entries(x), f.key = k PROVE FALSE
      <4>1. k \in DOMAIN ContentsOf(x)
        BY <1>1, <3>1, ContentsValue
      <4> QED
        BY <4>1, <2>2, <1>2
    <3> QED
      BY <3>1
  <2>5. ContentsOf(y) = Abstract!With(k, v)
    <3>1. GetsValue(y, x, k, v)
      BY <2>3, <2>4 DEF GetsValue
    <3>2. ContentsOf(y) = Put(ContentsOf(x), k, v)
      BY <1>1, <2>3, <3>1, ContentsWith
    <3> QED
      BY <1>2, <3>2 DEF Abstract!With, Put
  <2> QED
    BY <2>1, <2>2, <2>3, <2>5, <1>2 DEF Abstract!MapAdd
<1> QED
  BY <1>3, <1>4

LEMMA ReplaceStep ==
  ASSUME DictInv, NEW k \in DKey, NEW v \in DVal, dictReplace(k, v)
  PROVE  Sound(d') /\ Abstract!MapReplace(k, v)
<1> DEFINE x == Prepared(d)
           y == IF Found(x, k) # {} THEN Revalued(_dictRehashStep(x), k, v) ELSE Inserted(x, k, v)
<1>1. SameEntries(x, d) /\ x.ht0.size > 0 /\ Sound(x)
  BY PreparedSound DEF DictInv, SameEntries
<1>2. ContentsOf(x) = ContentsOf(d) /\ Contents = ContentsOf(d) /\ Contents' = ContentsOf(d')
  BY <1>1, SameContents DEF Contents, ContentsOf
<1>3. d' = y /\ answered' = <<k, IF Found(x, k) # {} THEN "replaced" ELSE "added", v>>
  BY DEF dictReplace
<1>4. Found(x, k) = {e \in Entries(x) : e.key = k} /\ (Found(x, k) = {} <=> k \notin DOMAIN Contents)
  BY <1>1, <1>2, FoundIsThere, FoundInMap
<1>5. Sound(y) /\ GetsValue(y, x, k, v)
  <2>1. CASE Found(x, k) = {}
    <3>1. y = Inserted(x, k, v) /\ \A f \in Entries(x) : f.key # k
      BY <2>1, <1>4
    <3> HIDE DEF x, y
    <3> QED
      BY <2>1, <3>1, <1>1, InsertedSound DEF GetsValue
  <2>2. CASE Found(x, k) # {}
    <3> DEFINE z == _dictRehashStep(x)
               e == [key |-> k, val |-> v]
    <3>1. Sound(z) /\ Entries(z) = Entries(x)
      BY <1>1, RehashStepSound DEF SameEntries
    <3>2. y = Revalued(z, k, v)
      BY <2>2
    <3> HIDE DEF x, y, z
    <3>3. Sound(y) /\ Entries(y) = {Given(f, k, v) : f \in Entries(x)}
      BY <3>1, <3>2, RevaluedSound
    <3>4. \A f \in Entries(x) : Given(f, k, v) = IF f.key = k THEN e ELSE f
      BY <1>1, SoundFacts DEF Given, Entry
    <3>5. PICK f \in Entries(x) : f.key = k
      BY <2>2, <1>4
    <3> HIDE DEF e
    <3>6. Entries(y) = {g \in Entries(x) : g.key # k} \cup {e}
      BY <3>3, <3>4, <3>5
    <3> QED
      BY <3>3, <3>6 DEF e, GetsValue
  <2> QED
    BY <2>1, <2>2
<1> HIDE DEF x, y
<1>6. ContentsOf(y) = Abstract!With(k, v)
  <2>1. ContentsOf(y) = Put(ContentsOf(x), k, v)
    BY <1>1, <1>5, ContentsWith
  <2> QED
    BY <1>2, <2>1 DEF Abstract!With, Put
<1> QED
  BY <1>2, <1>3, <1>4, <1>5, <1>6 DEF Abstract!MapReplace

LEMMA DeleteStep ==
  ASSUME DictInv, NEW k \in DKey, dictGenericDelete(k)
  PROVE  Sound(d') /\ Abstract!MapDelete(k)
<1> DEFINE x == _dictRehashStep(d)
           y == Deleted(x, k)
<1>1. SameEntries(x, d) /\ Sound(x) /\ Sound(d)
  BY RehashStepSound DEF DictInv, SameEntries
<1>2. ContentsOf(x) = ContentsOf(d) /\ Contents = ContentsOf(d) /\ Contents' = ContentsOf(d')
  BY <1>1, SameContents DEF Contents, ContentsOf
<1>3. CASE d.ht0.size = 0
  <2>1. d' = d /\ answered' = <<k, "err">>
    BY <1>3 DEF dictGenericDelete
  <2>2. Entries(d) = {}
    <3>1. ~ dictIsRehashing(d) /\ TableSound(d.ht0)
      BY <1>1, <1>3 DEF Sound
    <3> QED
      BY <3>1, <1>1, <1>3, AllInTyped, NoTableSound DEF Sound, Entries
  <2>3. DOMAIN Contents = {} /\ Contents = [j \in DOMAIN Contents \ {k} |-> Contents[j]]
    BY <2>2, <1>2 DEF ContentsOf, Keys
  <2> QED
    BY <2>1, <2>3, <1>1, <1>2 DEF Abstract!MapDelete
<1>4. CASE d.ht0.size # 0
  <2>1. d' \in {y, dictResize(y)} /\ answered' = <<k, IF Found(x, k) = {} THEN "err" ELSE "ok">>
    BY <1>4 DEF dictGenericDelete, Deleted
  <2>2. Sound(y) /\ Entries(y) = {e \in Entries(x) : e.key # k}
    BY <1>1, DeletedSound
  <2>3. Found(x, k) = {} <=> k \notin DOMAIN Contents
    BY <1>1, <1>2, FoundInMap
  <2> HIDE DEF x, y
  <2>4. SameEntries(d', y)
    BY <2>1, <2>2, ResizeSound DEF SameEntries
  <2>5. ContentsOf(y) = [j \in DOMAIN Contents \ {k} |-> Contents[j]]
    <3> DEFINE m == [j \in DOMAIN Contents \ {k} |-> Contents[j]]
    <3>1. DOMAIN Contents = Keys(x) /\ Keys(y) = Keys(x) \ {k}
      <4>1. \A f : f \in Entries(y) <=> f \in Entries(x) /\ f.key # k
        BY <2>2
      <4>2. Keys(y) = Keys(x) \ {k}
        BY <4>1 DEF Keys
      <4> QED
        BY <1>2, <4>2 DEF ContentsOf
    <3>2. \A e \in Entries(y) : m[e.key] = e.val
      BY <1>1, <1>2, <2>2, ContentsValue
    <3>3. m = [j \in Keys(y) |-> m[j]]
      BY <3>1
    <3> HIDE DEF m
    <3>4. ContentsOf(y) = m
      BY <3>2, <3>3, <2>2, ContentsAre
    <3> QED
      BY <3>4 DEF m
  <2>6. Contents' = ContentsOf(y) /\ Sound(d')
    BY <2>4, <1>2, SameContents DEF SameEntries
  <2> QED
    BY <2>1, <2>3, <2>5, <2>6 DEF Abstract!MapDelete
<1> QED
  BY <1>3, <1>4

LEMMA FindStep ==
  ASSUME DictInv, NEW k \in DKey, dictFind(k)
  PROVE  Sound(d') /\ Abstract!MapFind(k)
<1> DEFINE x == _dictRehashStep(d)
<1>1. SameEntries(x, d) /\ Sound(x) /\ Sound(d)
  BY RehashStepSound DEF DictInv, SameEntries
<1>2. ContentsOf(x) = ContentsOf(d) /\ Contents = ContentsOf(d)
  BY <1>1, SameContents DEF Contents, ContentsOf
<1>3. SameEntries(d', d)
  BY <1>1 DEF dictFind, SameEntries
<1>4. Sound(d') /\ Contents' = Contents
  BY <1>3, QuietStep
<1>5. answered' = <<k, IF Found(x, k) = {} THEN None ELSE (CHOOSE e \in Found(x, k) : TRUE).val>>
  BY DEF dictFind
<1>6. answered' = <<k, Abstract!Value(k)>>
  BY <1>1, <1>2, <1>5, FoundInMap DEF Abstract!Value
<1> QED
  BY <1>4, <1>6 DEF Abstract!MapFind

LEMMA EmptyStep ==
  ASSUME dictEmpty
  PROVE  Sound(d') /\ Abstract!MapEmpty
<1>1. d' = dictCreate /\ answered' = None
  BY DEF dictEmpty
<1>2. TableSound(NoTable) /\ AllIn(NoTable) = {} /\ NoTable.table = [i \in {} |-> {}]
  BY NoTableSound DEF NoTable
<1>3. dictCreate.ht0 = NoTable /\ dictCreate.ht1 = NoTable /\ dictCreate.rehashidx = -1 /\ dictCreate \in Dicts
  BY <1>2 DEF dictCreate, Dicts, TableSound
<1>4. Entries(dictCreate) = {}
  BY <1>2, <1>3 DEF Entries
<1>5. Sound(dictCreate)
  BY <1>2, <1>3, <1>4 DEF Sound, dictIsRehashing, OnePerKey
<1>6. ContentsOf(dictCreate) = [k \in {} |-> None]
  BY <1>4 DEF ContentsOf, Keys
<1> QED
  BY <1>1, <1>5, <1>6 DEF Abstract!MapEmpty, Contents, ContentsOf

\* an iterator counts itself in the dict, and changes nothing else of it
LEMMA IteratorStep ==
  ASSUME DictInv, NEW n \in Int, d' = [d EXCEPT !.iterators = n]
  PROVE  Sound(d') /\ Contents' = Contents
<1>1. d \in Dicts
  BY DEF DictInv, Sound
<1>2. d' \in Dicts /\ d'.ht0 = d.ht0 /\ d'.ht1 = d.ht1 /\ d'.rehashidx = d.rehashidx
  BY <1>1 DEF Dicts
<1>3. Entries(d') = Entries(d)
  BY <1>2 DEF Entries
<1>4. Sound(d')
  BY <1>2, <1>3 DEF DictInv, Sound, dictIsRehashing
<1>5. SameEntries(d', d)
  BY <1>3, <1>4 DEF SameEntries
<1> QED
  BY <1>5, QuietStep

LEMMA Steps ==
  ASSUME DictInv, DictStep
  PROVE  Sound(d') /\ (Abstract!MapNext \/ Stutter)
<1>0. Sound(d) /\ d \in Dicts /\ mode.keys \subseteq DKey /\ mode.vals \subseteq DVal
  BY ModeTyped DEF DictInv, Sound
<1>1. ASSUME NEW k \in mode.keys, NEW v \in mode.vals, dictAdd(k, v)
      PROVE  Sound(d') /\ Abstract!MapNext
  <2>1. k \in DKey /\ v \in DVal
    BY <1>0
  <2> QED
    BY <2>1, <1>1, AddStep DEF Abstract!MapNext
<1>2. ASSUME NEW k \in mode.keys, NEW v \in mode.vals, dictReplace(k, v)
      PROVE  Sound(d') /\ Abstract!MapNext
  <2>1. k \in DKey /\ v \in DVal
    BY <1>0
  <2> QED
    BY <2>1, <1>2, ReplaceStep DEF Abstract!MapNext
<1>3. ASSUME NEW k \in mode.keys, dictGenericDelete(k)
      PROVE  Sound(d') /\ Abstract!MapNext
  BY <1>0, <1>3, DeleteStep DEF Abstract!MapNext
<1>4. ASSUME NEW k \in mode.keys, dictFind(k)
      PROVE  Sound(d') /\ Abstract!MapNext
  BY <1>0, <1>4, FindStep DEF Abstract!MapNext
<1>5. CASE dictGetRandomKey
  BY <1>0, <1>5, RehashStepSound, QuietStep DEF dictGetRandomKey, Stutter
<1>6. CASE dictEmpty
  BY <1>6, EmptyStep DEF Abstract!MapNext
<1>7. CASE tryResizeHashTables
  BY <1>0, <1>7, ResizeSound, QuietStep DEF tryResizeHashTables, Stutter
<1>8. CASE incrementallyRehash
  <2>1. CronSteps \in Nat
    BY DictAssumption
  <2> QED
    BY <2>1, <1>0, <1>8, RehashSound, QuietStep DEF incrementallyRehash, Stutter
<1>9. ASSUME UNCHANGED <<d, answered>>
      PROVE  Sound(d') /\ Stutter
  BY <1>0, <1>9 DEF Stutter, Contents, Keys
<1>10. CASE dictNext
  <2>1. UNCHANGED answered
    BY <1>10 DEF dictNext
  <2>2. CASE UNCHANGED d
    BY <2>1, <2>2, <1>9
  <2>3. CASE d' = [d EXCEPT !.iterators = IF it.started THEN @ ELSE @ + 1]
    <3>1. (IF it.started THEN d.iterators ELSE d.iterators + 1) \in Int
      BY <1>0 DEF Dicts
    <3> QED
      BY <2>1, <2>3, <3>1, IteratorStep DEF Stutter
  <2> QED
    BY <1>10, <2>2, <2>3 DEF dictNext
<1>11. CASE dictReleaseIterator
  <2>1. d' = [d EXCEPT !.iterators = IF it.started THEN @ - 1 ELSE @] /\ UNCHANGED answered
    BY <1>11 DEF dictReleaseIterator
  <2>2. (IF it.started THEN d.iterators - 1 ELSE d.iterators) \in Int
    BY <1>0 DEF Dicts
  <2> QED
    BY <2>1, <2>2, IteratorStep DEF Stutter
<1>12. CASE updateDictResizePolicy
  BY <1>9, <1>12 DEF updateDictResizePolicy
<1>13. CASE dictGetSafeIterator
  BY <1>9, <1>13 DEF dictGetSafeIterator
<1>14. CASE scanGenericCommand
  BY <1>9, <1>14 DEF scanGenericCommand
<1> QED
  BY <1>1, <1>2, <1>3, <1>4, <1>5, <1>6, <1>7, <1>8, <1>10, <1>11, <1>12, <1>13, <1>14 DEF DictStep

-----------------------------------------------------------------------------
(* The theorems. *)

LEMMA DictInitial == DictInit => DictInv /\ Abstract!MapInit
<1> SUFFICES ASSUME DictInit PROVE DictInv /\ Abstract!MapInit
  OBVIOUS
<1>1. d = dictCreate /\ answered = None /\ mode \in DMode
  BY DEF DictInit
<1>2. TableSound(NoTable) /\ AllIn(NoTable) = {} /\ NoTable.table = [i \in {} |-> {}]
  BY NoTableSound DEF NoTable
<1>3. dictCreate.ht0 = NoTable /\ dictCreate.ht1 = NoTable /\ dictCreate.rehashidx = -1 /\ dictCreate \in Dicts
  BY <1>2 DEF dictCreate, Dicts, TableSound
<1>4. Entries(dictCreate) = {}
  BY <1>2, <1>3 DEF Entries
<1>5. Sound(dictCreate)
  BY <1>2, <1>3, <1>4 DEF Sound, dictIsRehashing, OnePerKey
<1> QED
  BY <1>1, <1>4, <1>5 DEF DictInv, Abstract!MapInit, Contents, Keys

LEMMA DictInductive == DictInv /\ [DictNext]_dictVars => DictInv' /\ [Abstract!MapNext]_<<Contents, answered>>
<1> SUFFICES ASSUME DictInv, [DictNext]_dictVars
             PROVE  DictInv' /\ [Abstract!MapNext]_<<Contents, answered>>
  OBVIOUS
<1>1. CASE DictNext
  BY <1>1, Steps DEF DictNext, DictInv, Stutter
<1>2. CASE UNCHANGED dictVars
  BY <1>2 DEF dictVars, DictInv, Contents, Keys
<1> QED
  BY <1>1, <1>2

(* The two tables are sound in every state: each entry is in the bucket    *)
(* that its hash selects, no key is in both tables or twice in one, the    *)
(* buckets before rehashidx are empty, and used counts the entries.        *)
THEOREM DictTablesSound == DictSpec => []TablesSound
<1>1. DictInit => DictInv
  BY DictInitial
<1>2. DictInv /\ [DictNext]_dictVars => DictInv'
  BY DictInductive
<1>3. DictInv => TablesSound
  BY DEF DictInv, Sound, TableSound, InItsBucket, OnePerKey, TablesSound
<1> QED
  BY <1>1, <1>2, <1>3, PTL DEF DictSpec

(* dict.c implements a map: whatever the hash function, and wherever a     *)
(* rehashing stands, every operation answers from the union of the two     *)
(* tables and changes it as a map would; resizes, rehashing steps,         *)
(* iterators and scans are not seen.                                       *)
THEOREM DictImplementsMap == DictSpec => ImplementsMap
<1>1. DictInit => DictInv /\ Abstract!MapInit
  BY DictInitial
<1>2. DictInv /\ [DictNext]_dictVars => DictInv' /\ [Abstract!MapNext]_<<Contents, answered>>
  BY DictInductive
<1> QED
  BY <1>1, <1>2, PTL DEF DictSpec, ImplementsMap, Abstract!MapSpec
=============================================================================
