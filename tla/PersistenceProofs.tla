------------------------- MODULE PersistenceProofs -------------------------
(***************************************************************************)
(* Proofs about what persistence keeps: the background threads of Bio, the *)
(* snapshots of Snapshots and the append only file of AOF, each for any    *)
(* values of its constants.                                                *)
(*                                                                         *)
(* Bio: the inductive invariant says who holds the mutex at each place,    *)
(* that the queue holds the last jobs created, that bio_pending is its     *)
(* length, and that the jobs executed are those that left the queue and,   *)
(* between running it and removing it, the first one of the queue.         *)
(*                                                                         *)
(* Snapshots: it follows the child.  While it writes, and until the cron   *)
(* has heard of its success, dirty_before_bgsave is what dirty will lose,  *)
(* so the rest of dirty must cover what the child's file, or the file it   *)
(* has become, does not have.                                              *)
(*                                                                         *)
(* AOF: the file and aof_buf together are the bytes of a log, a sequence   *)
(* of commands that from the durable part on brings back, command by       *)
(* command, the databases after some number of writes, and after the last  *)
(* one the databases in memory.  The same is said of the child's dump with *)
(* the difference after it.  Most of the lemmas are about logs: what the   *)
(* loader makes of a prefix, of a dump, of a torn command.  The last part  *)
(* adds which writes were acknowledged, for appendfsync always.            *)
(***************************************************************************)
EXTENDS Bio, Snapshots, AOF, SequenceTheorems, WellFoundedInduction, TLAPS

-----------------------------------------------------------------------------
(* Background jobs: Bio *)

\* The mutex is held by the one that is between its lock and its unlock.
Holder(t) ==
  /\ bioThread[t] \in {"look", "remove"} <=> bioMutex[t] = "thread"
  /\ bioMain[t] # Idle <=> bioMutex[t] = "main"

\* The queue: jobs in the order of their numbers up to the last one created.
Queue(t) ==
  /\ bioPending[t] = Len(bioJobs[t])
  /\ Len(bioJobs[t]) <= created[t]
  /\ \A i \in 1..Len(bioJobs[t]) : bioJobs[t][i] = created[t] - Len(bioJobs[t]) + i
  /\ bioThread[t] \in {"run", "done", "remove"} => Len(bioJobs[t]) > 0

\* What was executed: the jobs before the queue, and its first one until it is removed.
Progress(t) ==
  /\ Len(executed[t]) = created[t] - Len(bioJobs[t]) + (IF bioThread[t] \in {"done", "remove"} THEN 1 ELSE 0)
  /\ \A i \in 1..Len(executed[t]) : executed[t][i] = i

BioInv == BioTypeOK /\ \A t \in JobType : Holder(t) /\ Queue(t) /\ Progress(t)

\* A queue that is not empty has a first job.
LEMMA NotEmpty == ASSUME NEW s \in Seq(Nat), s # <<>> PROVE Len(s) \in Nat /\ Len(s) > 0
  OBVIOUS

\* The sequences of one type, out of the type invariant.
LEMMA BioTypes ==
  ASSUME BioTypeOK, NEW t \in JobType
  PROVE  /\ bioJobs[t] \in Seq(Nat) /\ Len(bioJobs[t]) \in Nat
         /\ executed[t] \in Seq(Nat) /\ Len(executed[t]) \in Nat
         /\ created[t] \in Nat /\ bioPending[t] \in Nat
  BY DEF BioTypeOK

LEMMA BioInitInv == BioInit => BioInv
  BY DEF BioInit, BioInv, BioTypeOK, Holder, Queue, Progress, Idle, ThreadState

LEMMA BioNextInv == BioInv /\ [BioNext]_bioVars => BioInv'
<1> SUFFICES ASSUME BioInv, [BioNext]_bioVars PROVE BioInv'
  OBVIOUS
<1> USE DEF BioInv, Idle
<1>1. CASE UNCHANGED bioVars
  BY <1>1 DEF bioVars, BioTypeOK, Holder, Queue, Progress
<1>2. ASSUME NEW t \in JobType, CreateLock(t) PROVE BioInv'
  BY <1>2 DEF CreateLock, MainIdle, BioTypeOK, Holder, Queue, Progress, ThreadState
<1>3. ASSUME NEW t \in JobType, PendingLock(t) PROVE BioInv'
  BY <1>3 DEF PendingLock, MainIdle, BioTypeOK, Holder, Queue, Progress, ThreadState
<1>4. ASSUME NEW t \in JobType, CreateAdd(t) PROVE BioInv'
  <2>1. BioTypeOK'
    BY <1>4 DEF CreateAdd, BioTypeOK, CondSignal, ThreadState
  <2>2. ASSUME NEW u \in JobType PROVE Holder(u)'
    BY <1>4 DEF CreateAdd, BioTypeOK, Holder, CondSignal, ThreadState
  <2>3. ASSUME NEW u \in JobType PROVE Queue(u)'
    BY <1>4 DEF CreateAdd, BioTypeOK, Holder, Queue, CondSignal, ThreadState
  <2>4. ASSUME NEW u \in JobType PROVE Progress(u)'
    <3>1. CASE u # t
      BY <3>1, <1>4 DEF CreateAdd, BioTypeOK, Progress, CondSignal
    <3>2. CASE u = t
      <4>1. /\ created'[t] = created[t] + 1 /\ Len(bioJobs'[t]) = Len(bioJobs[t]) + 1
            /\ executed' = executed
        BY <1>4 DEF CreateAdd, BioTypeOK
      <4>2. bioThread'[t] \in {"done", "remove"} <=> bioThread[t] \in {"done", "remove"}
        BY <1>4 DEF CreateAdd, BioTypeOK, CondSignal
      <4>3. created'[t] - Len(bioJobs'[t]) = created[t] - Len(bioJobs[t])
        BY <4>1, BioTypes
      <4> QED BY <3>2, <4>1, <4>2, <4>3 DEF Progress
    <3> QED BY <3>1, <3>2
  <2> QED BY <2>1, <2>2, <2>3, <2>4
<1>5. ASSUME NEW t \in JobType, MainUnlock(t) PROVE BioInv'
  BY <1>5 DEF MainUnlock, BioTypeOK, Holder, Queue, Progress, ThreadState
<1>6. ASSUME NEW t \in JobType, PendingRead(t) PROVE BioInv'
  BY <1>6 DEF PendingRead, BioTypeOK, Holder, Queue, Progress, ThreadState
<1>7. ASSUME NEW t \in JobType, ThreadLock(t) PROVE BioInv'
  BY <1>7 DEF ThreadLock, BioTypeOK, Holder, Queue, Progress, ThreadState
<1>8. ASSUME NEW t \in JobType, ThreadWait(t) PROVE BioInv'
  BY <1>8 DEF ThreadWait, BioTypeOK, Holder, Queue, Progress, ThreadState
<1>9. ASSUME NEW t \in JobType, SpuriousWakeup(t) PROVE BioInv'
  BY <1>9 DEF SpuriousWakeup, BioTypeOK, Holder, Queue, Progress, ThreadState
<1>10. ASSUME NEW t \in JobType, ThreadTake(t) PROVE BioInv'
  <2>1. bioJobs[t] \in Seq(Nat) /\ Len(bioJobs[t]) > 0
    BY <1>10, NotEmpty DEF ThreadTake, BioTypeOK
  <2> QED BY <1>10, <2>1 DEF ThreadTake, BioTypeOK, Holder, Queue, Progress, ThreadState
<1>11. ASSUME NEW t \in JobType, ThreadRun(t) PROVE BioInv'
  <2>1. BioTypeOK'
    BY <1>11 DEF ThreadRun, BioTypeOK, Queue, ThreadState
  <2>2. ASSUME NEW u \in JobType PROVE Holder(u)'
    BY <1>11 DEF ThreadRun, BioTypeOK, Holder, ThreadState
  <2>3. ASSUME NEW u \in JobType PROVE Queue(u)'
    BY <1>11 DEF ThreadRun, BioTypeOK, Queue, ThreadState
  <2>4. ASSUME NEW u \in JobType PROVE Progress(u)'
    <3>1. CASE u # t
      BY <3>1, <1>11 DEF ThreadRun, BioTypeOK, Progress
    <3>2. CASE u = t
      <4>1. /\ bioThread[t] = "run" /\ bioThread'[t] = "done" /\ bioJobs' = bioJobs /\ created' = created
            /\ executed'[t] = Append(executed[t], bioJobs[t][1])
        BY <1>11 DEF ThreadRun, BioTypeOK
      <4>2. Len(executed[t]) = created[t] - Len(bioJobs[t])
        <5>1. Len(executed[t]) = created[t] - Len(bioJobs[t]) + 0
          BY <4>1 DEF Progress
        <5>2. created[t] \in Nat /\ Len(bioJobs[t]) \in Nat
          BY BioTypes
        <5> QED BY <5>1, <5>2
      <4>3. bioJobs[t][1] = Len(executed[t]) + 1
        <5>1. 1 \in 1..Len(bioJobs[t]) /\ bioJobs[t][1] = created[t] - Len(bioJobs[t]) + 1
          BY <4>1, BioTypes DEF Queue
        <5> QED BY <5>1, <4>2
      <4>4. Len(executed'[t]) = Len(executed[t]) + 1 /\ \A i \in 1..Len(executed'[t]) : executed'[t][i] = i
        BY <4>1, <4>3, BioTypes DEF Progress
      <4> QED BY <3>2, <4>1, <4>2, <4>4, BioTypes DEF Progress
    <3> QED BY <3>1, <3>2
  <2> QED BY <2>1, <2>2, <2>3, <2>4
<1>12. ASSUME NEW t \in JobType, ThreadDone(t) PROVE BioInv'
  BY <1>12 DEF ThreadDone, BioTypeOK, Holder, Queue, Progress, ThreadState
<1>13. ASSUME NEW t \in JobType, ThreadRemove(t) PROVE BioInv'
  <2>1. BioTypeOK'
    BY <1>13 DEF ThreadRemove, BioTypeOK, Queue, ThreadState
  <2>2. ASSUME NEW u \in JobType PROVE Holder(u)'
    BY <1>13 DEF ThreadRemove, BioTypeOK, Holder, ThreadState
  <2>3. ASSUME NEW u \in JobType PROVE Queue(u)'
    BY <1>13 DEF ThreadRemove, BioTypeOK, Queue, ThreadState
  <2>4. ASSUME NEW u \in JobType PROVE Progress(u)'
    <3>1. CASE u # t
      BY <3>1, <1>13 DEF ThreadRemove, BioTypeOK, Progress
    <3>2. CASE u = t
      <4>1. /\ bioThread[t] = "remove" /\ bioThread'[t] = "look" /\ created' = created /\ executed' = executed
            /\ bioJobs'[t] = Tail(bioJobs[t])
        BY <1>13 DEF ThreadRemove, BioTypeOK
      <4>2. Len(bioJobs'[t]) = Len(bioJobs[t]) - 1
        BY <4>1, BioTypes DEF Queue
      <4>3. Len(executed[t]) = created[t] - Len(bioJobs[t]) + 1
        BY <4>1 DEF Progress
      <4> QED BY <3>2, <4>1, <4>2, <4>3, BioTypes DEF Progress
    <3> QED BY <3>1, <3>2
  <2> QED BY <2>1, <2>2, <2>3, <2>4
<1> QED
  BY <1>1, <1>2, <1>3, <1>4, <1>5, <1>6, <1>7, <1>8, <1>9, <1>10, <1>11, <1>12, <1>13
  DEF BioNext, MainStep, ThreadStep

(* The invariant holds in every state of bio.c's two sides.                *)
THEOREM BioInvariant == BioSpec => []BioInv
  BY BioInitInv, BioNextInv, PTL DEF BioSpec

(* A count of zero pending jobs means that all jobs created were executed. *)
THEOREM NothingOverlookedAlways == BioSpec => []NothingOverlooked
<1>1. BioInv => NothingOverlooked
  <2> SUFFICES ASSUME BioInv, NEW t \in JobType, bioPending[t] = 0 PROVE Len(executed[t]) = created[t]
    BY DEF NothingOverlooked
  <2>1. Len(bioJobs[t]) = 0 /\ ~ bioThread[t] \in {"done", "remove"}
    BY BioTypes DEF BioInv, Queue
  <2> QED BY <2>1, BioTypes DEF BioInv, Progress
<1> QED BY <1>1, BioInvariant, PTL

(* Every job is executed at most once, in the order of creation.           *)
THEOREM JobsInOrderAlways == BioSpec => []JobsInOrder
<1>1. BioInv => JobsInOrder
  BY DEF BioInv, JobsInOrder, Progress
<1> QED BY <1>1, BioInvariant, PTL

-----------------------------------------------------------------------------
(* Snapshots *)

ChildState == [st : {"none", "ok", "err", "signal", "usr1"}] \cup [st : {"writing"}, data : Nat]

SnapshotState ==
  [points : SavePoints, stop_writes : BOOLEAN, up : BOOLEAN, data : Nat, dirty : Int, dirty_before : Int,
   lastsave : Nat, lasttry : Nat, status : {"ok", "err"}, shutdown_asap : BOOLEAN, child : ChildState,
   dump : Nat, now : Nat, faults : Nat, left : BOOLEAN]

\* The file is never ahead of the data set; the child's is between the two.
FileBehind(s) ==
  /\ s.dump <= s.data
  /\ s.child.st = "writing" => s.dump <= s.child.data /\ s.child.data <= s.data

\* What dirty has to cover now, and when the cron has heard that the child succeeded.
Covered(s) ==
  s.up => /\ s.dirty >= s.data - s.dump
          /\ s.child.st = "writing" => s.dirty - s.dirty_before >= s.data - s.child.data
          /\ s.child.st = "ok" => s.dirty - s.dirty_before >= s.data - s.dump

\* A server that is down has no child, and if it left by a save it lost nothing.
Gone(s) ==
  /\ ~ s.up => s.child.st = "none"
  /\ s.left => ~ s.up /\ s.dump = s.data

Sound(s) == s \in SnapshotState /\ FileBehind(s) /\ Covered(s) /\ Gone(s)
SnapshotInv == Sound(snapshot)

\* What the child may have become: the step keeps the file, or replaces it by a newer one.
Follows(s, t) == Sound(t) /\ t.dump >= s.dump

LEMMA SnapshotInitInv == SnapshotInit => SnapshotInv
  BY DEF SnapshotInit, SnapshotInv, Sound, SnapshotState, ChildState, FileBehind, Covered, Gone, NoSaveChild

\* Steps are followed field by field; t differs from s in what a lemma says it does.
Fields(s, t) ==
  /\ t \in SnapshotState
  /\ t.up \in BOOLEAN /\ t.left \in BOOLEAN
  /\ s.dump \in Nat /\ s.data \in Nat /\ s.dirty \in Int /\ s.dirty_before \in Int
  /\ t.dump \in Nat /\ t.data \in Nat /\ t.dirty \in Int /\ t.dirty_before \in Int

LEMMA FieldTypes == ASSUME NEW s \in SnapshotState, NEW t \in SnapshotState PROVE Fields(s, t)
  BY DEF Fields, SnapshotState

LEMMA ChildTypes ==
  ASSUME NEW s \in SnapshotState
  PROVE  /\ s.child.st \in {"none", "ok", "err", "signal", "usr1", "writing"}
         /\ s.child.st = "writing" => s.child.data \in Nat
         /\ s.child.st = "none" <=> s.child = NoSaveChild
  BY DEF SnapshotState, ChildState, NoSaveChild

\* What FileBehind, Covered and Gone look at, apart from the child.
Books(s, t) == t.up = s.up /\ t.data = s.data /\ t.dump = s.dump /\ t.dirty = s.dirty /\ t.left = s.left

\* A save in the background, begun while there is no child.
LEMMA BackgroundFollows ==
  ASSUME NEW s, Sound(s), s.up, s.child.st = "none", NEW ok \in BOOLEAN
  PROVE  Follows(s, rdbSaveBackground(s, ok))
<1> DEFINE t == rdbSaveBackground(s, ok)
           writing == [st |-> "writing", data |-> s.data]
           more == s.faults + 1
<1>0. s \in SnapshotState
  BY DEF Sound
<1>1. writing \in ChildState /\ writing.st = "writing" /\ writing.data = s.data /\ more \in Nat
  BY <1>0 DEF SnapshotState, ChildState
<1> HIDE DEF writing, t, more
<1>2. ASSUME ok PROVE Follows(s, t)
  <2>1. t = [s EXCEPT !.dirty_before = s.dirty, !.lasttry = s.now, !.child = writing]
    BY <1>2 DEF rdbSaveBackground, writing, t
  <2>2. t \in SnapshotState
    BY <1>0, <1>1, <2>1 DEF SnapshotState
  <2>3. Books(s, t) /\ t.dirty_before = s.dirty /\ t.child = writing
    BY <1>0, <2>1 DEF SnapshotState, Books
  <2> QED BY <1>0, <1>1, <2>2, <2>3, FieldTypes DEF Sound, FileBehind, Covered, Gone, Follows, Fields, Books
<1>3. ASSUME ~ ok PROVE Follows(s, t)
  <2>1. t = [s EXCEPT !.dirty_before = s.dirty, !.lasttry = s.now, !.status = "err", !.faults = more]
    BY <1>0, <1>3 DEF rdbSaveBackground, SnapshotState, t, more
  <2>2. t \in SnapshotState
    BY <1>0, <1>1, <2>1 DEF SnapshotState
  <2>3. Books(s, t) /\ t.child = s.child
    BY <1>0, <2>1 DEF SnapshotState, Books
  <2> QED BY <1>0, <2>2, <2>3, FieldTypes DEF Sound, FileBehind, Covered, Gone, Follows, Fields, Books
<1> QED BY <1>2, <1>3 DEF t

\* A child that is killed no longer writes; one that has ended is left for the cron.
Killed(s, t) ==
  /\ Books(s, t) /\ t.dirty_before = s.dirty_before /\ t.points = s.points /\ t.now = s.now
  /\ t.child.st # "writing" /\ (t.child.st = "ok" => s.child.st = "ok") /\ (s.child.st = "none" => t.child.st = "none")

LEMMA KillKills == ASSUME NEW s \in SnapshotState PROVE KillChild(s) \in SnapshotState /\ Killed(s, KillChild(s))
<1> DEFINE t == KillChild(s)
           usr1 == [st |-> "usr1"]
<1>1. usr1 \in ChildState /\ usr1.st = "usr1"
  BY DEF ChildState
<1> HIDE DEF usr1, t
<1>2. ASSUME s.child.st = "writing" PROVE t \in SnapshotState /\ Killed(s, t)
  <2>1. t = [s EXCEPT !.child = usr1]
    BY <1>2 DEF KillChild, t, usr1
  <2> QED BY <1>1, <1>2, <2>1 DEF SnapshotState, Killed, Books
<1>3. ASSUME s.child.st # "writing" PROVE t \in SnapshotState /\ Killed(s, t)
  <2>1. t = s
    BY <1>3 DEF KillChild, t
  <2> QED BY <1>3, <2>1 DEF Killed, Books
<1> QED BY <1>2, <1>3 DEF t

\* A save in the foreground leaves the child and what it will subtract alone.
Saved(s, t, ok) ==
  /\ t.up = s.up /\ t.data = s.data /\ t.left = s.left /\ t.child = s.child /\ t.dirty_before = s.dirty_before
  /\ IF ok THEN t.dump = s.data /\ t.dirty = 0 ELSE t.dump = s.dump /\ t.dirty = s.dirty

LEMMA SaveSaves ==
  ASSUME NEW s \in SnapshotState, NEW ok \in BOOLEAN
  PROVE  rdbSave(s, ok) \in SnapshotState /\ Saved(s, rdbSave(s, ok), ok)
<1> DEFINE t == rdbSave(s, ok)
           more == s.faults + 1
           zero == 0
<1>1. more \in Nat /\ zero \in Int /\ zero = 0
  BY DEF SnapshotState
<1> HIDE DEF t, more, zero
<1>2. ASSUME ok PROVE t \in SnapshotState /\ Saved(s, t, ok)
  <2>1. t = [s EXCEPT !.dump = s.data, !.dirty = zero, !.lastsave = s.now, !.status = "ok"]
    BY <1>2 DEF rdbSave, t, zero
  <2> QED BY <1>1, <1>2, <2>1 DEF SnapshotState, Saved
<1>3. ASSUME ~ ok PROVE t \in SnapshotState /\ Saved(s, t, ok)
  <2>1. t = [s EXCEPT !.faults = more]
    BY <1>3 DEF rdbSave, SnapshotState, t, more
  <2> QED BY <1>1, <1>3, <2>1 DEF SnapshotState, Saved
<1> QED BY <1>2, <1>3 DEF t

\* SAVE, when there is no child.
LEMMA SaveFollows ==
  ASSUME NEW s, Sound(s), s.up, s.child.st = "none", NEW ok \in BOOLEAN
  PROVE  Follows(s, rdbSave(s, ok))
<1> DEFINE t == rdbSave(s, ok)
<1>1. s \in SnapshotState
  BY DEF Sound
<1>2. t \in SnapshotState /\ Saved(s, t, ok)
  BY <1>1, SaveSaves
<1> HIDE DEF t
<1>3. Follows(s, t)
  BY <1>1, <1>2, FieldTypes DEF Sound, FileBehind, Covered, Gone, Follows, Fields, Saved
<1> QED BY <1>3 DEF t

\* FLUSHALL: two changes are counted for one, and the count is kept though the file is saved.
LEMMA FlushFollows ==
  ASSUME NEW s, Sound(s), s.up, NEW ok \in BOOLEAN
  PROVE  Follows(s, Flush(s, ok))
<1> DEFINE k == KillChild(s)
           data == k.data + 1
           dirty == k.dirty + 1
           f == [k EXCEPT !.data = data, !.dirty = dirty]
           w == rdbSave(f, ok)
           t == IF s.points # {} THEN [w EXCEPT !.dirty = dirty] ELSE f
           twice == dirty + 1
           r == [t EXCEPT !.dirty = twice]
<1>1. s \in SnapshotState
  BY DEF Sound
<1>2. k \in SnapshotState /\ Killed(s, k)
  BY <1>1, KillKills
<1> HIDE DEF k
<1>3. data \in Nat /\ dirty \in Int /\ twice \in Int /\ data = k.data + 1 /\ twice = k.dirty + 2
  BY <1>2 DEF SnapshotState
<1> HIDE DEF data, dirty, twice
<1>4. f \in SnapshotState /\ f.data = data /\ f.dirty = dirty /\ f.up = k.up /\ f.left = k.left /\ f.child = k.child
      /\ f.dirty_before = k.dirty_before /\ f.dump = k.dump
  BY <1>2, <1>3 DEF SnapshotState
<1> HIDE DEF f
<1>5. w \in SnapshotState /\ Saved(f, w, ok)
  BY <1>4, SaveSaves
<1> HIDE DEF w
<1>6. t \in SnapshotState /\ t.data = data /\ t.dirty = dirty /\ t.up = k.up /\ t.left = k.left /\ t.child = k.child
      /\ t.dirty_before = k.dirty_before /\ t.dump \in {k.dump, data}
  BY <1>3, <1>4, <1>5 DEF SnapshotState, Saved
<1>7. Flush(s, ok) = r
  <2>1. f = [k EXCEPT !.data = @ + 1, !.dirty = @ + 1]
    BY <1>2 DEF f, data, dirty, SnapshotState
  <2>2. Flush(s, ok) = [(IF s.points # {} THEN [rdbSave(f, ok) EXCEPT !.dirty = f.dirty] ELSE f) EXCEPT !.dirty = @ + 1]
    BY <2>1 DEF Flush, k
  <2>3. Flush(s, ok) = [t EXCEPT !.dirty = @ + 1]
    BY <2>2, <1>4 DEF w
  <2> QED BY <2>3, <1>6 DEF SnapshotState, twice
<1> HIDE DEF t
<1>8. r \in SnapshotState /\ r.data = data /\ r.dirty = twice /\ r.up = k.up /\ r.left = k.left /\ r.child = k.child
      /\ r.dirty_before = k.dirty_before /\ r.dump \in {k.dump, data}
  BY <1>3, <1>6 DEF SnapshotState
<1> HIDE DEF r
<1>9. Follows(s, r)
  BY <1>1, <1>2, <1>3, <1>8, FieldTypes DEF Sound, FileBehind, Covered, Gone, Follows, Fields, Killed, Books
<1> QED BY <1>7, <1>9

\* SHUTDOWN: only a save that failed keeps the server, and what is left of its child, up.
LEMMA ShutdownFollows ==
  ASSUME NEW s, Sound(s), s.up, NEW how, NEW ok \in BOOLEAN
  PROVE  Follows(s, ShutdownSaves(s, how, ok))
<1> DEFINE k == KillChild(s)
           saves == how = "save" \/ (s.points # {} /\ how # "nosave")
           t == IF saves THEN rdbSave(k, ok) ELSE k
           up == saves /\ ~ ok
           left == saves /\ ok
           left_child == IF up THEN t.child ELSE NoSaveChild
           r == [t EXCEPT !.up = up, !.left = left, !.shutdown_asap = FALSE, !.child = left_child]
<1>1. s \in SnapshotState
  BY DEF Sound
<1>2. k \in SnapshotState /\ Killed(s, k)
  BY <1>1, KillKills
<1>3. rdbSave(k, ok) \in SnapshotState /\ Saved(k, rdbSave(k, ok), ok)
  BY <1>2, SaveSaves
<1> HIDE DEF k
<1>4. t \in SnapshotState /\ (saves => Saved(k, t, ok)) /\ (~ saves => t = k)
  BY <1>2, <1>3
<1>5. ShutdownSaves(s, how, ok) = r
  BY <1>4 DEF ShutdownSaves, k, SnapshotState
<1>6. up \in BOOLEAN /\ left \in BOOLEAN /\ (up => ~ left) /\ (left => saves /\ ok) /\ (up => saves /\ ~ ok)
  OBVIOUS
<1> HIDE DEF t, saves, up, left
<1>7. left_child \in ChildState /\ (up => left_child = t.child) /\ (~ up => left_child.st = "none")
  BY <1>4 DEF SnapshotState, ChildState, NoSaveChild
<1> HIDE DEF left_child
<1>8. r \in SnapshotState /\ r.data = t.data /\ r.dirty = t.dirty /\ r.dump = t.dump /\ r.dirty_before = t.dirty_before
      /\ r.up = up /\ r.left = left /\ r.child = left_child
  BY <1>4, <1>6, <1>7 DEF SnapshotState
<1> HIDE DEF r
<1>9. ASSUME up PROVE Follows(s, r)
  <2>1. /\ r.data = s.data /\ r.dirty = s.dirty /\ r.dump = s.dump /\ r.dirty_before = s.dirty_before
        /\ r.up /\ ~ r.left /\ r.child.st # "writing" /\ (r.child.st = "ok" => s.child.st = "ok")
    BY <1>2, <1>4, <1>6, <1>7, <1>8, <1>9 DEF Killed, Books, Saved
  <2> QED BY <1>1, <1>8, <2>1, FieldTypes DEF Sound, FileBehind, Covered, Gone, Follows, Fields
<1>10. ASSUME ~ up PROVE Follows(s, r)
  <2>1. /\ r.data = s.data /\ (r.dump = s.dump \/ r.dump = s.data) /\ (left => r.dump = s.data)
        /\ ~ r.up /\ r.left = left /\ r.child.st = "none"
    BY <1>2, <1>4, <1>6, <1>7, <1>8, <1>10 DEF Killed, Books, Saved
  <2> QED BY <1>1, <1>8, <2>1, FieldTypes DEF Sound, FileBehind, Covered, Gone, Follows, Fields
<1> QED BY <1>5, <1>9, <1>10

\* The cron hears of a child's end: of a success it subtracts what the child had to save.
LEMMA DoneFollows ==
  ASSUME NEW s, Sound(s), s.up, s.child.st \notin {"none", "writing"}
  PROVE  Follows(s, backgroundSaveDoneHandler(s))
<1> DEFINE rest == s.dirty - s.dirty_before
           ok == s.child.st = "ok"
           d == IF ok THEN rest ELSE s.dirty
           r == backgroundSaveDoneHandler(s)
<1>1. s \in SnapshotState
  BY DEF Sound
<1>2. s.child.st \in {"ok", "err", "signal", "usr1"}
  BY <1>1, ChildTypes
<1>3. rest \in Int /\ rest = s.dirty - s.dirty_before /\ NoSaveChild \in ChildState /\ NoSaveChild.st = "none"
  BY <1>1 DEF SnapshotState, ChildState, NoSaveChild
<1>4. r \in SnapshotState /\ r.data = s.data /\ r.dump = s.dump /\ r.up = s.up /\ r.left = s.left /\ r.child = NoSaveChild
      /\ r.dirty = d
  <2>1. CASE s.child.st = "ok"
    <3>1. r = [s EXCEPT !.dirty = rest, !.lastsave = s.now, !.status = "ok", !.child = NoSaveChild]
      BY <1>1, <2>1 DEF backgroundSaveDoneHandler, SnapshotState
    <3> HIDE DEF rest, r
    <3> QED BY <1>1, <1>3, <2>1, <3>1 DEF SnapshotState
  <2>2. CASE s.child.st \in {"err", "signal"}
    <3>1. r = [s EXCEPT !.status = "err", !.child = NoSaveChild]
      BY <2>2 DEF backgroundSaveDoneHandler
    <3> HIDE DEF rest, r
    <3> QED BY <1>1, <1>3, <2>2, <3>1 DEF SnapshotState
  <2>3. CASE s.child.st = "usr1"
    <3>1. r = [s EXCEPT !.child = NoSaveChild]
      BY <2>3 DEF backgroundSaveDoneHandler
    <3> HIDE DEF rest, r
    <3> QED BY <1>1, <1>3, <2>3, <3>1 DEF SnapshotState
  <2> QED BY <1>2, <2>1, <2>2, <2>3
<1> HIDE DEF r, rest
<1>5. Follows(s, r)
  BY <1>1, <1>3, <1>4, FieldTypes DEF Sound, FileBehind, Covered, Gone, Follows, Fields
<1> QED BY <1>5 DEF r

LEMMA SnapshotStepInv == SnapshotInv /\ [SnapshotNext]_snapshotVars => SnapshotInv' /\ snapshot'.dump >= snapshot.dump
<1> SUFFICES ASSUME SnapshotInv, [SnapshotNext]_snapshotVars
             PROVE  SnapshotInv' /\ snapshot'.dump >= snapshot.dump
  OBVIOUS
<1> DEFINE s == snapshot
           t == snapshot'
<1>0. Sound(s) /\ s \in SnapshotState /\ (Sound(t) => SnapshotInv')
  BY DEF SnapshotInv, Sound
<1>1. SUFFICES Follows(s, t)
  BY <1>0 DEF Follows
<1>2. s.child = NoSaveChild <=> s.child.st = "none"
  BY <1>0, ChildTypes
<1>3. CASE UNCHANGED snapshotVars
  BY <1>0, <1>3 DEF snapshotVars, Follows, SnapshotState
<1>4. CASE processWrite
  <2> DEFINE data == s.data + 1
             dirty == s.dirty + 1
  <2>1. data \in Nat /\ dirty \in Int /\ t = [s EXCEPT !.data = data, !.dirty = dirty] /\ s.up
    BY <1>0, <1>4 DEF processWrite, Step, Up, SnapshotState
  <2>2. data = s.data + 1 /\ dirty = s.dirty + 1
    OBVIOUS
  <2> HIDE DEF data, dirty
  <2>3. t \in SnapshotState /\ t.data = data /\ t.dirty = dirty /\ t.up /\ t.left = s.left /\ t.child = s.child
        /\ t.dirty_before = s.dirty_before /\ t.dump = s.dump
    BY <1>0, <2>1 DEF SnapshotState
  <2> QED BY <1>0, <2>1, <2>2, <2>3, FieldTypes, ChildTypes DEF Sound, FileBehind, Covered, Gone, Follows, Fields
<1>5. CASE saveCommand
  BY <1>0, <1>2, <1>5, SaveFollows DEF saveCommand, Step, Up
<1>6. CASE bgsaveCommand
  BY <1>0, <1>2, <1>6, BackgroundFollows DEF bgsaveCommand, Step, Up
<1>7. CASE flushallCommand
  BY <1>0, <1>7, FlushFollows DEF flushallCommand, Step, Up
<1>8. CASE ChildEnds
  <2>1. ASSUME t = [s EXCEPT !.dump = s.child.data, !.child = [st |-> "ok"]], s.child.st = "writing" PROVE Follows(s, t)
    <3> DEFINE done == [st |-> "ok"]
    <3>1. done \in ChildState /\ done.st = "ok" /\ s.child.data \in Nat /\ t = [s EXCEPT !.dump = s.child.data, !.child = done]
      BY <1>0, <2>1, ChildTypes DEF ChildState
    <3> HIDE DEF done
    <3>2. t \in SnapshotState /\ t.data = s.data /\ t.dirty = s.dirty /\ t.up = s.up /\ t.left = s.left /\ t.child = done
          /\ t.dirty_before = s.dirty_before /\ t.dump = s.child.data
      BY <1>0, <3>1 DEF SnapshotState
    <3> QED BY <1>0, <2>1, <3>1, <3>2, FieldTypes DEF Sound, FileBehind, Covered, Gone, Follows, Fields
  <2>2. ASSUME NEW how \in {"err", "signal"}, t = [s EXCEPT !.child = [st |-> how], !.faults = @ + 1], s.child.st = "writing"
        PROVE  Follows(s, t)
    <3> DEFINE done == [st |-> how]
               more == s.faults + 1
    <3>1. done \in ChildState /\ done.st \in {"err", "signal"} /\ more \in Nat /\ t = [s EXCEPT !.child = done, !.faults = more]
      BY <1>0, <2>2 DEF ChildState, SnapshotState
    <3> HIDE DEF done, more
    <3>2. t \in SnapshotState /\ t.data = s.data /\ t.dirty = s.dirty /\ t.up = s.up /\ t.left = s.left /\ t.child = done
          /\ t.dirty_before = s.dirty_before /\ t.dump = s.dump
      BY <1>0, <3>1 DEF SnapshotState
    <3> QED BY <1>0, <2>2, <3>1, <3>2, FieldTypes DEF Sound, FileBehind, Covered, Gone, Follows, Fields
  <2> QED BY <1>8, <2>1, <2>2 DEF ChildEnds, Step
<1>9. CASE shutdownCommand
  BY <1>0, <1>9, ShutdownFollows DEF shutdownCommand, Step, Up
<1>10. ASSUME t \in SnapshotState, Books(s, t), t.child = s.child, t.dirty_before = s.dirty_before PROVE Follows(s, t)
  BY <1>0, <1>10, FieldTypes, ChildTypes DEF Sound, FileBehind, Covered, Gone, Follows, Fields, Books
<1>11. CASE sigtermHandler
  <2>1. t = [s EXCEPT !.shutdown_asap = TRUE]
    BY <1>11 DEF sigtermHandler, Step
  <2> QED BY <1>0, <1>10, <2>1 DEF SnapshotState, Books
<1>12. CASE CronSaves
  BY <1>0, <1>2, <1>12, ShutdownFollows, DoneFollows, BackgroundFollows DEF CronSaves, Step, Up
<1>13. CASE Tick
  <2> DEFINE later == s.now + 1
  <2>1. t = [s EXCEPT !.now = later] /\ later \in Nat
    BY <1>0, <1>13 DEF Tick, Step, SnapshotState
  <2> HIDE DEF later
  <2> QED BY <1>0, <1>10, <2>1 DEF SnapshotState, Books
<1>14. CASE Crash
  <2> DEFINE more == s.faults + 1
  <2>1. t = [s EXCEPT !.up = FALSE, !.child = NoSaveChild, !.faults = more] /\ more \in Nat /\ s.up
    BY <1>0, <1>14 DEF Crash, Step, Up, SnapshotState
  <2>2. NoSaveChild \in ChildState /\ NoSaveChild.st = "none"
    BY DEF ChildState, NoSaveChild
  <2> HIDE DEF more
  <2>3. t \in SnapshotState /\ t.data = s.data /\ ~ t.up /\ t.left = s.left /\ t.child = NoSaveChild /\ t.dump = s.dump
    BY <1>0, <2>1, <2>2 DEF SnapshotState
  <2> QED BY <1>0, <2>1, <2>2, <2>3, FieldTypes DEF Sound, FileBehind, Covered, Gone, Follows, Fields
<1>15. CASE loadDataFromDisk
  <2> DEFINE zero == 0
  <2>1. zero \in Nat /\ zero \in Int /\ zero = 0
    OBVIOUS
  <2>2. ~ s.up /\ t = [s EXCEPT !.up = TRUE, !.data = s.dump, !.dirty = zero, !.dirty_before = zero, !.lastsave = s.now,
                           !.lasttry = zero, !.status = "ok", !.shutdown_asap = FALSE, !.left = FALSE]
    BY <1>15 DEF loadDataFromDisk, Step, Up
  <2> HIDE DEF zero
  <2>3. t \in SnapshotState /\ t.data = s.dump /\ t.dirty = zero /\ t.up /\ ~ t.left /\ t.child = s.child /\ t.dump = s.dump
    BY <1>0, <2>1, <2>2 DEF SnapshotState
  <2> QED BY <1>0, <2>1, <2>2, <2>3, FieldTypes DEF Sound, FileBehind, Covered, Gone, Follows, Fields
<1> QED
  BY <1>3, <1>4, <1>5, <1>6, <1>7, <1>8, <1>9, <1>11, <1>12, <1>13, <1>14, <1>15 DEF SnapshotNext

-----------------------------------------------------------------------------
(* The invariant, of every behaviour: the file is never ahead of the data    *)
(* set, a child's snapshot is between the two, and what the cron will        *)
(* subtract when the child has succeeded is covered by what remains.         *)
THEOREM SnapshotInvariant == SnapshotSpec => []SnapshotInv
<1>1. SnapshotInv /\ [SnapshotNext]_snapshotVars => SnapshotInv'
  BY SnapshotStepInv
<1> QED BY <1>1, SnapshotInitInv, PTL DEF SnapshotSpec

(* For any save points and any number of changes, faults and restarts,       *)
(* server.dirty counts at least the changes that dump.rdb does not have, and *)
(* a server that has left after saving lost nothing.                         *)
THEOREM ChangesCounted == SnapshotSpec => []DirtyCovers
<1>1. SnapshotInv => DirtyCovers
  BY DEF SnapshotInv, Sound, Covered, Gone, DirtyCovers, Up
<1> QED BY <1>1, SnapshotInvariant, PTL

(* No step replaces dump.rdb by an older data set: the action property, from *)
(* the same invariant.                                                       *)
THEOREM DumpsOnlyNewer == SnapshotSpec => DumpNeverOlder
<1>1. SnapshotInv /\ [SnapshotNext]_snapshotVars => [snapshot'.dump >= snapshot.dump]_snapshotVars
  BY SnapshotStepInv
<1> QED BY <1>1, SnapshotInvariant, PTL DEF SnapshotSpec, DumpNeverOlder

-----------------------------------------------------------------------------
(* The append only file: AOF *)

-----------------------------------------------------------------------------
(* Prefixes of sequences *)

LEMMA LeastIn ==
  ASSUME NEW T \in SUBSET Nat, T # {}
  PROVE  \E n \in T : \A k \in Nat : k < n => k \notin T
<1> DEFINE Less == OpToRel(<, Nat)
<1>1. IsWellFoundedOn(Less, Nat) /\ \A p \in Nat \X Nat : p[1] < p[2] => p \in Less
  BY NatLessThanWellFounded DEF OpToRel
<1> HIDE DEF Less
<1>2. PICK x \in T : \A y \in T : ~ (<<y, x>> \in Less)
  BY <1>1, WFMin
<1>3. ASSUME NEW y \in T, y < x PROVE FALSE
  <2> DEFINE yx == <<y, x>>
  <2>1. yx \in Nat \X Nat /\ yx[1] = y /\ yx[2] = x /\ yx \notin Less
    BY <1>2
  <2> HIDE DEF yx
  <2> QED BY <1>1, <1>3, <2>1
<1> QED BY <1>3

\* The first n elements of a sequence.
Upto(s, n) == SubSeq(s, 1, n)

LEMMA UptoProperties ==
  ASSUME NEW S, NEW s \in Seq(S), NEW n \in 0..Len(s)
  PROVE  /\ Upto(s, n) \in Seq(S) /\ Len(Upto(s, n)) = n
         /\ \A i \in 1..n : Upto(s, n)[i] = s[i]
         /\ \A m \in 0..n : Upto(Upto(s, n), m) = Upto(s, m)
<1>1. Len(s) \in Nat /\ n \in Nat /\ \A i \in 1..Len(s) : s[i] \in S
  BY ElementOfSeq
<1>2. \A m \in 0..Len(s) : /\ Upto(s, m) \in Seq(S) /\ Len(Upto(s, m)) = m
                           /\ \A i \in 1..m : Upto(s, m)[i] = s[i]
  BY <1>1 DEF Upto
<1>3. ASSUME NEW m \in 0..n PROVE Upto(Upto(s, n), m) = Upto(s, m)
  BY <1>1, <1>2, <1>3 DEF Upto
<1> QED BY <1>2, <1>3

LEMMA UptoStep ==
  ASSUME NEW S, NEW s \in Seq(S), NEW n \in 1..Len(s)
  PROVE  /\ Upto(s, n) = Append(Upto(s, n - 1), s[n]) /\ s[n] \in S
         /\ Upto(s, n - 1) \in Seq(S) /\ Len(Upto(s, n - 1)) = n - 1 /\ n - 1 \in Nat
<1>1. Len(s) \in Nat /\ n \in Nat /\ n - 1 \in 0..Len(s) /\ \A i \in 1..Len(s) : s[i] \in S
  BY ElementOfSeq
<1>2. Upto(s, n - 1) \in Seq(S) /\ Len(Upto(s, n - 1)) = n - 1
  BY <1>1 DEF Upto
<1>3. Upto(s, n) = Append(Upto(s, n - 1), s[n])
  BY <1>1, <1>2 DEF Upto
<1> QED BY <1>1, <1>2, <1>3

LEMMA UptoEnds == ASSUME NEW S, NEW s \in Seq(S) PROVE Upto(s, 0) = << >> /\ Upto(s, Len(s)) = s
BY DEF Upto

LEMMA UptoAppend ==
  ASSUME NEW S, NEW s \in Seq(S), NEW e \in S
  PROVE  /\ Append(s, e) \in Seq(S) /\ Len(Append(s, e)) = Len(s) + 1
         /\ \A n \in 0..Len(s) : Upto(Append(s, e), n) = Upto(s, n)
BY DEF Upto

LEMMA UptoConcat ==
  ASSUME NEW S, NEW s \in Seq(S), NEW t \in Seq(S)
  PROVE  /\ s \o t \in Seq(S) /\ Len(s \o t) = Len(s) + Len(t)
         /\ \A n \in 0..Len(s) : Upto(s \o t, n) = Upto(s, n)
BY DEF Upto

-----------------------------------------------------------------------------
(* The fake client of the loader *)

LoaderStart == [db |-> 0, data |-> EmptyDBs]

\* The loader, as far as command n.
Loads(s, n, g) == g = [i \in 0..n |-> IF i = 0 THEN LoaderStart ELSE RunCommand(g[i - 1], s[i])]

LEMMA LoadsExist ==
  ASSUME NEW s
  PROVE  \A n \in Nat : \E g : Loads(s, n, g)
<1> DEFINE T == {n \in Nat : ~ \E g : Loads(s, n, g)}
<1> SUFFICES ASSUME T # {} PROVE FALSE
  OBVIOUS
<1>1. PICK n \in T : \A k \in Nat : k < n => k \notin T
  <2>1. T \in SUBSET Nat
    OBVIOUS
  <2> HIDE DEF T
  <2> QED BY <2>1, LeastIn
<1>2. n # 0
  <2> DEFINE h == [i \in 0..0 |-> LoaderStart]
  <2>1. h = [i \in 0..0 |-> IF i = 0 THEN LoaderStart ELSE RunCommand(h[i - 1], s[i])]
    OBVIOUS
  <2> HIDE DEF h
  <2>2. Loads(s, 0, h)
    BY <2>1 DEF Loads
  <2> QED BY <2>2
<1>3. n - 1 \in Nat /\ n - 1 < n
  BY <1>2
<1>4. PICK g : Loads(s, n - 1, g)
  BY <1>1, <1>3
<1> DEFINE h == [i \in 0..n |-> IF i = n THEN RunCommand(g[n - 1], s[n]) ELSE g[i]]
<1>5. ASSUME NEW i \in 0..n PROVE h[i] = IF i = 0 THEN LoaderStart ELSE RunCommand(h[i - 1], s[i])
  <2>1. CASE i = n
    BY <2>1, <1>2, <1>3
  <2>2. CASE i # n
    <3>1. i \in 0..(n - 1) /\ (i # 0 => i - 1 \in 0..n /\ i - 1 # n)
      BY <2>2, <1>3
    <3>2. h[i] = g[i] /\ (i # 0 => h[i - 1] = g[i - 1])
      BY <3>1, <2>2
    <3>3. g[i] = IF i = 0 THEN LoaderStart ELSE RunCommand(g[i - 1], s[i])
      BY <1>4, <3>1 DEF Loads
    <3> HIDE DEF h
    <3> QED BY <3>1, <3>2, <3>3
  <2> QED BY <2>1, <2>2
<1>6. h = [i \in 0..n |-> h[i]]
  OBVIOUS
<1> HIDE DEF h
<1>7. Loads(s, n, h)
  BY <1>5, <1>6 DEF Loads
<1> QED BY <1>7, <1>1

LEMMA ReplayedLoads ==
  ASSUME NEW s, Len(s) \in Nat
  PROVE  \E g : Loads(s, Len(s), g) /\ Replayed(s) = g[Len(s)]
<1>1. \E g : Loads(s, Len(s), g)
  BY LoadsExist
<1> QED BY <1>1 DEF Loads, Replayed, LoaderStart

LEMMA ReplayedNothing == Replayed(<< >>) = LoaderStart
<1>1. PICK g : Loads(<< >>, Len(<< >>), g) /\ Replayed(<< >>) = g[Len(<< >>)]
  BY ReplayedLoads
<1>2. Len(<< >>) = 0
  OBVIOUS
<1> QED BY <1>1, <1>2 DEF Loads

LEMMA ReplayedAppend ==
  ASSUME NEW S, NEW s \in Seq(S), NEW e \in S
  PROVE  Replayed(Append(s, e)) = RunCommand(Replayed(s), e)
<1> DEFINE n == Len(s)
           t == Append(s, e)
<1>1. n \in Nat /\ Len(t) = n + 1 /\ t[n + 1] = e /\ \A i \in 1..n : t[i] = s[i]
  OBVIOUS
<1>2. PICK g : Loads(s, n, g) /\ Replayed(s) = g[n]
  BY <1>1, ReplayedLoads
<1>3. PICK h : Loads(t, n + 1, h) /\ Replayed(t) = h[n + 1]
  <2> HIDE DEF n, t
  <2>1. Len(t) \in Nat
    BY <1>1
  <2>2. \E h : Loads(t, Len(t), h) /\ Replayed(t) = h[Len(t)]
    BY <2>1, ReplayedLoads
  <2> QED BY <1>1, <2>2
<1> HIDE DEF n, t
<1> DEFINE T == {i \in 0..n : h[i] # g[i]}
<1>4. T = {}
  <2> SUFFICES ASSUME T # {} PROVE FALSE
    OBVIOUS
  <2>1. PICK i \in T : \A k \in Nat : k < i => k \notin T
    <3>1. T \in SUBSET Nat
      BY <1>1
    <3> HIDE DEF T
    <3> QED BY <3>1, LeastIn
  <2>2. i \in 0..n /\ i \in 0..(n + 1)
    BY <1>1
  <2>3. /\ g[i] = IF i = 0 THEN LoaderStart ELSE RunCommand(g[i - 1], s[i])
        /\ h[i] = IF i = 0 THEN LoaderStart ELSE RunCommand(h[i - 1], t[i])
    BY <1>2, <1>3, <2>2 DEF Loads
  <2>4. CASE i = 0
    BY <2>1, <2>3, <2>4
  <2>5. CASE i # 0
    <3>1. i - 1 \in 0..n /\ i - 1 \in Nat /\ i - 1 < i /\ i \in 1..n
      BY <1>1, <2>2, <2>5
    <3>2. h[i - 1] = g[i - 1] /\ t[i] = s[i]
      BY <1>1, <2>1, <3>1
    <3> QED BY <2>1, <2>3, <2>5, <3>2
  <2> QED BY <2>4, <2>5
<1>5. h[n] = g[n]
  BY <1>1, <1>4
<1>6. h[n + 1] = RunCommand(h[n], t[n + 1])
  <2>1. n + 1 \in 0..(n + 1) /\ n + 1 # 0 /\ (n + 1) - 1 = n
    BY <1>1
  <2>2. h[n + 1] = IF n + 1 = 0 THEN LoaderStart ELSE RunCommand(h[(n + 1) - 1], t[n + 1])
    BY <1>3, <2>1 DEF Loads
  <2> QED BY <2>1, <2>2
<1> QED BY <1>1, <1>2, <1>3, <1>5, <1>6 DEF t

\* The commands the server writes, and what the fake client can be in.
Command == [op : {"select"}, arg : DBs] \cup [op : {"write"}, arg : Nat]
LoaderState == [db : DBs, data : [DBs -> Seq(Nat)]]

LEMMA DBNumbers == DBs \subseteq Nat /\ 0 \in DBs
BY AofAssumption DEF DBs

LEMMA Commands ==
  /\ Command \subseteq Entry
  /\ \A d \in DBs : Select(d) \in Command
  /\ \A n \in Nat : Write(n) \in Command
  /\ \A e \in Command : (\E d \in DBs : e = Select(d)) \/ (\E n \in Nat : e = Write(n))
  /\ \A d, n : Select(d) # Write(n)
<1>1. DBs \subseteq Nat
  BY DBNumbers
<1>2. \A d, n : Select(d).op = "select" /\ Write(n).op = "write"
  BY DEF Select, Write
<1>3. Command \subseteq Entry
  BY <1>1 DEF Command, Entry
<1>4. (\A d \in DBs : Select(d) \in Command) /\ (\A n \in Nat : Write(n) \in Command)
  BY DEF Command, Select, Write
<1>5. ASSUME NEW e \in Command PROVE (\E d \in DBs : e = Select(d)) \/ (\E n \in Nat : e = Write(n))
  <2>1. CASE e \in [op : {"select"}, arg : DBs]
    <3>1. e.arg \in DBs /\ e = Select(e.arg)
      BY <2>1 DEF Select
    <3> QED BY <3>1
  <2>2. CASE e \in [op : {"write"}, arg : Nat]
    <3>1. e.arg \in Nat /\ e = Write(e.arg)
      BY <2>2 DEF Write
    <3> QED BY <3>1
  <2> QED BY <2>1, <2>2 DEF Command
<1>6. \A d, n : Select(d) # Write(n)
  BY <1>2
<1> QED BY <1>3, <1>4, <1>5, <1>6

LEMMA RunSelect ==
  ASSUME NEW s \in LoaderState, NEW d \in DBs
  PROVE  RunCommand(s, Select(d)) = [db |-> d, data |-> s.data] /\ RunCommand(s, Select(d)) \in LoaderState
BY DEF RunCommand, Select, LoaderState

LEMMA RunWrite ==
  ASSUME NEW s \in LoaderState, NEW n \in Nat
  PROVE  /\ RunCommand(s, Write(n)) = [db |-> s.db, data |-> [s.data EXCEPT ![s.db] = Append(@, n)]]
         /\ RunCommand(s, Write(n)) \in LoaderState
<1> DEFINE data == [s.data EXCEPT ![s.db] = Append(@, n)]
<1>1. s.db \in DBs /\ s.data \in [DBs -> Seq(Nat)] /\ s = [db |-> s.db, data |-> s.data]
  BY DEF LoaderState
<1>2. data \in [DBs -> Seq(Nat)]
  BY <1>1
<1>3. RunCommand(s, Write(n)) = [s EXCEPT !.data = data]
  BY <1>1 DEF RunCommand, Write
<1> HIDE DEF data
<1>4. RunCommand(s, Write(n)) = [db |-> s.db, data |-> data]
  BY <1>1, <1>3
<1> QED BY <1>1, <1>2, <1>4 DEF LoaderState, data

LEMMA ReplayedType ==
  ASSUME NEW s \in Seq(Command)
  PROVE  Replayed(s) \in LoaderState
<1> DEFINE T == {n \in 0..Len(s) : Replayed(Upto(s, n)) \notin LoaderState}
<1>1. T = {}
  <2> SUFFICES ASSUME T # {} PROVE FALSE
    OBVIOUS
  <2>1. PICK n \in T : \A k \in Nat : k < n => k \notin T
    <3>1. T \in SUBSET Nat
      OBVIOUS
    <3> HIDE DEF T
    <3> QED BY <3>1, LeastIn
  <2>2. CASE n = 0
    <3>1. Upto(s, n) = << >>
      BY <2>2, UptoEnds
    <3>2. LoaderStart \in LoaderState
      BY DBNumbers DEF LoaderStart, LoaderState, EmptyDBs
    <3> QED BY <2>1, <3>1, <3>2, ReplayedNothing
  <2>3. CASE n # 0
    <3>1. n \in 1..Len(s)
      BY <2>3
    <3>2. /\ Upto(s, n) = Append(Upto(s, n - 1), s[n]) /\ s[n] \in Command
          /\ Upto(s, n - 1) \in Seq(Command) /\ n - 1 \in Nat
      BY <3>1, UptoStep
    <3>3. Replayed(Upto(s, n - 1)) \in LoaderState
      BY <2>1, <3>1, <3>2
    <3>4. RunCommand(Replayed(Upto(s, n - 1)), s[n]) \in LoaderState
      BY <3>2, <3>3, Commands, RunSelect, RunWrite
    <3>5. Replayed(Upto(s, n)) = RunCommand(Replayed(Upto(s, n - 1)), s[n])
      BY <3>2, ReplayedAppend
    <3> QED BY <2>1, <3>4, <3>5
  <2> QED BY <2>2, <2>3
<1>2. Replayed(Upto(s, Len(s))) \in LoaderState
  BY <1>1
<1> QED BY <1>2, UptoEnds

-----------------------------------------------------------------------------
(* The databases after a number of writes *)

Stored(data, d, n) == [data EXCEPT ![d] = Append(@, n)]

\* The writes, as far as write n.
Executes(dbs, n, g) == g = [i \in 0..n |-> IF i = 0 THEN EmptyDBs ELSE Stored(g[i - 1], dbs[i], i)]

LEMMA ExecutesExist ==
  ASSUME NEW dbs
  PROVE  \A n \in Nat : \E g : Executes(dbs, n, g)
<1> DEFINE T == {n \in Nat : ~ \E g : Executes(dbs, n, g)}
<1> SUFFICES ASSUME T # {} PROVE FALSE
  OBVIOUS
<1>1. PICK n \in T : \A k \in Nat : k < n => k \notin T
  <2>1. T \in SUBSET Nat
    OBVIOUS
  <2> HIDE DEF T
  <2> QED BY <2>1, LeastIn
<1>2. n # 0
  <2> DEFINE h == [i \in 0..0 |-> EmptyDBs]
  <2>1. h = [i \in 0..0 |-> IF i = 0 THEN EmptyDBs ELSE Stored(h[i - 1], dbs[i], i)]
    OBVIOUS
  <2> HIDE DEF h
  <2>2. Executes(dbs, 0, h)
    BY <2>1 DEF Executes
  <2> QED BY <2>2
<1>3. n - 1 \in Nat /\ n - 1 < n
  BY <1>2
<1>4. PICK g : Executes(dbs, n - 1, g)
  BY <1>1, <1>3
<1> DEFINE h == [i \in 0..n |-> IF i = n THEN Stored(g[n - 1], dbs[n], n) ELSE g[i]]
<1>5. ASSUME NEW i \in 0..n PROVE h[i] = IF i = 0 THEN EmptyDBs ELSE Stored(h[i - 1], dbs[i], i)
  <2>1. CASE i = n
    BY <2>1, <1>2, <1>3
  <2>2. CASE i # n
    <3>1. i \in 0..(n - 1) /\ (i # 0 => i - 1 \in 0..n /\ i - 1 # n)
      BY <2>2, <1>3
    <3>2. h[i] = g[i] /\ (i # 0 => h[i - 1] = g[i - 1])
      BY <3>1, <2>2
    <3>3. g[i] = IF i = 0 THEN EmptyDBs ELSE Stored(g[i - 1], dbs[i], i)
      BY <1>4, <3>1 DEF Executes
    <3> HIDE DEF h
    <3> QED BY <3>1, <3>2, <3>3
  <2> QED BY <2>1, <2>2
<1>6. h = [i \in 0..n |-> h[i]]
  OBVIOUS
<1> HIDE DEF h
<1>7. Executes(dbs, n, h)
  BY <1>5, <1>6 DEF Executes
<1> QED BY <1>7, <1>1


LEMMA ExecutedExecutes ==
  ASSUME NEW s, Len(s) \in Nat
  PROVE  \E g : Executes(s, Len(s), g) /\ Executed(s) = g[Len(s)]
<1>1. \E g : Executes(s, Len(s), g)
  BY ExecutesExist
<1> QED BY <1>1 DEF Executes, Executed, Stored

LEMMA ExecutedNothing == Executed(<< >>) = EmptyDBs
<1>1. PICK g : Executes(<< >>, Len(<< >>), g) /\ Executed(<< >>) = g[Len(<< >>)]
  BY ExecutedExecutes
<1>2. Len(<< >>) = 0
  OBVIOUS
<1> QED BY <1>1, <1>2 DEF Executes

LEMMA ExecutedAppend ==
  ASSUME NEW S, NEW s \in Seq(S), NEW e \in S
  PROVE  Executed(Append(s, e)) = Stored(Executed(s), e, Len(s) + 1)
<1> DEFINE n == Len(s)
           t == Append(s, e)
<1>1. n \in Nat /\ Len(t) = n + 1 /\ t[n + 1] = e /\ \A i \in 1..n : t[i] = s[i]
  OBVIOUS
<1>2. PICK g : Executes(s, n, g) /\ Executed(s) = g[n]
  BY <1>1, ExecutedExecutes
<1>3. PICK h : Executes(t, n + 1, h) /\ Executed(t) = h[n + 1]
  <2> HIDE DEF n, t
  <2>1. Len(t) \in Nat
    BY <1>1
  <2>2. \E h : Executes(t, Len(t), h) /\ Executed(t) = h[Len(t)]
    BY <2>1, ExecutedExecutes
  <2> QED BY <1>1, <2>2
<1> HIDE DEF n, t
<1> DEFINE T == {i \in 0..n : h[i] # g[i]}
<1>4. T = {}
  <2> SUFFICES ASSUME T # {} PROVE FALSE
    OBVIOUS
  <2>1. PICK i \in T : \A k \in Nat : k < i => k \notin T
    <3>1. T \in SUBSET Nat
      BY <1>1
    <3> HIDE DEF T
    <3> QED BY <3>1, LeastIn
  <2>2. i \in 0..n /\ i \in 0..(n + 1)
    BY <1>1
  <2>3. /\ g[i] = IF i = 0 THEN EmptyDBs ELSE Stored(g[i - 1], s[i], i)
        /\ h[i] = IF i = 0 THEN EmptyDBs ELSE Stored(h[i - 1], t[i], i)
    BY <1>2, <1>3, <2>2 DEF Executes
  <2>4. CASE i = 0
    BY <2>1, <2>3, <2>4
  <2>5. CASE i # 0
    <3>1. i - 1 \in 0..n /\ i - 1 \in Nat /\ i - 1 < i /\ i \in 1..n
      BY <1>1, <2>2, <2>5
    <3>2. h[i - 1] = g[i - 1] /\ t[i] = s[i]
      BY <1>1, <2>1, <3>1
    <3> QED BY <2>1, <2>3, <2>5, <3>2
  <2> QED BY <2>4, <2>5
<1>5. h[n] = g[n]
  BY <1>1, <1>4
<1>6. h[n + 1] = Stored(h[n], t[n + 1], n + 1)
  <2>1. n + 1 \in 0..(n + 1) /\ n + 1 # 0 /\ (n + 1) - 1 = n
    BY <1>1
  <2>2. h[n + 1] = IF n + 1 = 0 THEN EmptyDBs ELSE Stored(h[(n + 1) - 1], t[n + 1], n + 1)
    BY <1>3, <2>1 DEF Executes
  <2> QED BY <2>1, <2>2
<1> QED BY <1>1, <1>2, <1>3, <1>5, <1>6 DEF t, n


LEMMA ExecutedType ==
  ASSUME NEW dbs \in Seq(DBs)
  PROVE  Executed(dbs) \in [DBs -> Seq(1..Len(dbs))]
<1> DEFINE N == Len(dbs)
           T == {n \in 0..N : Executed(Upto(dbs, n)) \notin [DBs -> Seq(1..N)]}
<1>0. N \in Nat
  OBVIOUS
<1>1. T = {}
  <2> SUFFICES ASSUME T # {} PROVE FALSE
    OBVIOUS
  <2>1. PICK n \in T : \A k \in Nat : k < n => k \notin T
    <3>1. T \in SUBSET Nat
      OBVIOUS
    <3> HIDE DEF T
    <3> QED BY <3>1, LeastIn
  <2>2. CASE n = 0
    <3>1. Upto(dbs, n) = << >>
      BY <2>2, UptoEnds
    <3>2. EmptyDBs \in [DBs -> Seq(1..N)]
      BY DEF EmptyDBs
    <3> QED BY <2>1, <3>1, <3>2, ExecutedNothing
  <2>3. CASE n # 0
    <3>1. n \in 1..N
      BY <2>3
    <3>2. /\ Upto(dbs, n) = Append(Upto(dbs, n - 1), dbs[n]) /\ dbs[n] \in DBs
          /\ Upto(dbs, n - 1) \in Seq(DBs) /\ n - 1 \in Nat /\ Len(Upto(dbs, n - 1)) = n - 1
      BY <3>1, UptoStep
    <3> DEFINE X == Executed(Upto(dbs, n - 1))
    <3>3. X \in [DBs -> Seq(1..N)]
      BY <2>1, <3>1, <3>2
    <3>4. Executed(Upto(dbs, n)) = Stored(X, dbs[n], n)
      <4>1. (n - 1) + 1 = n
        BY <3>1
      <4> QED BY <3>2, <4>1, ExecutedAppend
    <3> HIDE DEF X
    <3>5. Stored(X, dbs[n], n) \in [DBs -> Seq(1..N)]
      <4> HIDE DEF N
      <4> QED BY <1>0, <3>1, <3>2, <3>3 DEF Stored
    <3> QED BY <2>1, <3>4, <3>5
  <2> QED BY <2>2, <2>3
<1>2. Executed(Upto(dbs, N)) \in [DBs -> Seq(1..N)]
  BY <1>0, <1>1
<1> QED BY <1>2, UptoEnds

\* Different numbers of writes leave different databases: the last write is in one of them.
LEMMA ExecutedGrows ==
  ASSUME NEW dbs \in Seq(DBs), NEW k \in 0..Len(dbs), NEW j \in 0..Len(dbs),
         Executed(Upto(dbs, k)) = Executed(Upto(dbs, j))
  PROVE  k = j
<1>1. ASSUME NEW n \in 0..Len(dbs), NEW m \in 0..Len(dbs), m < n
      PROVE  Executed(Upto(dbs, n)) # Executed(Upto(dbs, m))
  <2>1. /\ Upto(dbs, n) = Append(Upto(dbs, n - 1), dbs[n]) /\ dbs[n] \in DBs
        /\ Upto(dbs, n - 1) \in Seq(DBs) /\ Len(Upto(dbs, n - 1)) = n - 1 /\ n \in Nat \ {0} /\ m \in Nat
    BY <1>1, UptoStep
  <2> DEFINE X == Executed(Upto(dbs, n - 1))
             Y == Executed(Upto(dbs, m))
             d == dbs[n]
  <2>2. X \in [DBs -> Seq(1..(n - 1))] /\ Y \in [DBs -> Seq(1..m)]
    <3>1. Upto(dbs, m) \in Seq(DBs) /\ Len(Upto(dbs, m)) = m
      BY UptoProperties
    <3>2. X \in [DBs -> Seq(1..Len(Upto(dbs, n - 1)))] /\ Y \in [DBs -> Seq(1..Len(Upto(dbs, m)))]
      BY <2>1, <3>1, ExecutedType
    <3> QED BY <2>1, <3>1, <3>2
  <2>3. Executed(Upto(dbs, n)) = Stored(X, d, n)
    <3>1. (n - 1) + 1 = n
      BY <2>1
    <3> QED BY <2>1, <3>1, ExecutedAppend
  <2> HIDE DEF X, Y, d
  <2>4. Stored(X, d, n)[d] = Append(X[d], n) /\ X[d] \in Seq(1..(n - 1)) /\ Y[d] \in Seq(1..m)
    BY <2>1, <2>2 DEF Stored, d
  <2>5. Append(X[d], n)[Len(X[d]) + 1] = n /\ Len(Append(X[d], n)) = Len(X[d]) + 1 /\ Len(X[d]) \in Nat
    BY <2>4
  <2>6. Append(X[d], n) # Y[d]
    <3>1. \A i \in 1..Len(Y[d]) : Y[d][i] \in 1..m
      BY <2>4, ElementOfSeq
    <3>2. n \notin 1..m
      BY <1>1, <2>1
    <3> QED BY <2>5, <3>1, <3>2
  <2> QED BY <2>3, <2>4, <2>6 DEF Y
<1>2. k < j \/ j < k \/ k = j
  OBVIOUS
<1> QED BY <1>1, <1>2

-----------------------------------------------------------------------------
(* The file a child writes *)

\* What rewriteAppendOnlyFile() writes for a database, and for the first n databases.
Dump(data, d) ==
  IF data[d] = <<>> THEN <<>> ELSE <<Select(d)>> \o [i \in 1..Len(data[d]) |-> Write(data[d][i])]

Dumps(data, n, g) == g = [i \in 0..n |-> IF i = 0 THEN <<>> ELSE g[i - 1] \o Dump(data, i - 1)]

LEMMA DumpsExist ==
  ASSUME NEW data
  PROVE  \A n \in Nat : \E g : Dumps(data, n, g)
<1> DEFINE T == {n \in Nat : ~ \E g : Dumps(data, n, g)}
<1> SUFFICES ASSUME T # {} PROVE FALSE
  OBVIOUS
<1>1. PICK n \in T : \A k \in Nat : k < n => k \notin T
  <2>1. T \in SUBSET Nat
    OBVIOUS
  <2> HIDE DEF T
  <2> QED BY <2>1, LeastIn
<1>2. n # 0
  <2> DEFINE h == [i \in 0..0 |-> <<>>]
  <2>1. h = [i \in 0..0 |-> IF i = 0 THEN <<>> ELSE h[i - 1] \o Dump(data, i - 1)]
    OBVIOUS
  <2> HIDE DEF h
  <2>2. Dumps(data, 0, h)
    BY <2>1 DEF Dumps
  <2> QED BY <2>2
<1>3. n - 1 \in Nat /\ n - 1 < n
  BY <1>2
<1>4. PICK g : Dumps(data, n - 1, g)
  BY <1>1, <1>3
<1> DEFINE h == [i \in 0..n |-> IF i = n THEN g[n - 1] \o Dump(data, n - 1) ELSE g[i]]
<1>5. ASSUME NEW i \in 0..n PROVE h[i] = IF i = 0 THEN <<>> ELSE h[i - 1] \o Dump(data, i - 1)
  <2>1. CASE i = n
    BY <2>1, <1>2, <1>3
  <2>2. CASE i # n
    <3>1. i \in 0..(n - 1) /\ (i # 0 => i - 1 \in 0..n /\ i - 1 # n)
      BY <2>2, <1>3
    <3>2. h[i] = g[i] /\ (i # 0 => h[i - 1] = g[i - 1])
      BY <3>1, <2>2
    <3>3. g[i] = IF i = 0 THEN <<>> ELSE g[i - 1] \o Dump(data, i - 1)
      BY <1>4, <3>1 DEF Dumps
    <3> HIDE DEF h
    <3> QED BY <3>1, <3>2, <3>3
  <2> QED BY <2>1, <2>2
<1>6. h = [i \in 0..n |-> h[i]]
  OBVIOUS
<1> HIDE DEF h
<1>7. Dumps(data, n, h)
  BY <1>5, <1>6 DEF Dumps
<1> QED BY <1>7, <1>1

LEMMA DumpReplayed ==
  ASSUME NEW s \in Seq(Command), NEW d \in DBs, NEW data \in [DBs -> Seq(Nat)], Replay(s)[d] = << >>
  PROVE  /\ s \o Dump(data, d) \in Seq(Command)
         /\ Replay(s \o Dump(data, d)) = [Replay(s) EXCEPT ![d] = data[d]]
<1> DEFINE v == data[d]
           R == Replay(s)
<1>1. v \in Seq(Nat) /\ Len(v) \in Nat /\ Replayed(s) \in LoaderState /\ R \in [DBs -> Seq(Nat)] /\ R[d] = << >>
  BY ReplayedType DEF LoaderState, Replay
<1>2. CASE v = << >>
  <2>1. Dump(data, d) = << >> /\ s \o << >> = s
    BY <1>2 DEF Dump
  <2>2. [R EXCEPT ![d] = v] = R
    BY <1>1, <1>2
  <2> QED BY <2>1, <2>2
<1>3. CASE v # << >>
  <2> DEFINE w == [i \in 1..Len(v) |-> Write(v[i])]
             e == Select(d)
             D == <<e>> \o w
             f == s \o D
             n == Len(s)
  <2>1. Dump(data, d) = D
    BY <1>3 DEF Dump
  <2>2. w \in Seq(Command) /\ Len(w) = Len(v) /\ \A i \in 1..Len(v) : w[i] = Write(v[i]) /\ v[i] \in Nat
    <3>1. \A i \in 1..Len(v) : v[i] \in Nat /\ Write(v[i]) \in Command
      BY <1>1, Commands, ElementOfSeq
    <3> QED BY <1>1, <3>1
  <2>3. e \in Command /\ n \in Nat
    BY Commands
  <2> HIDE DEF w, e
  <2>4. D \in Seq(Command) /\ Len(D) = 1 + Len(v) /\ D[1] = e /\ \A i \in 1..Len(v) : D[1 + i] = w[i]
    <3>1. <<e>> \in Seq(Command) /\ Len(<<e>>) = 1 /\ <<e>>[1] = e
      BY <2>3
    <3> DEFINE es == <<e>>
               c == es \o w
               l == Len(v)
    <3>2. l \in Nat /\ Len(w) = l /\ w \in Seq(Command)
      BY <1>1, <2>2
    <3>3. es \in Seq(Command) /\ Len(es) = 1 /\ es[1] = e
      BY <3>1
    <3> HIDE DEF es, l
    <3>4. c \in Seq(Command) /\ Len(c) = Len(es) + Len(w)
          /\ \A i \in 1..Len(es) + Len(w) : c[i] = IF i <= Len(es) THEN es[i] ELSE w[i - Len(es)]
      BY <3>2, <3>3, ConcatProperties
    <3> HIDE DEF c
    <3>5. \A i \in 1..1 + l : c[i] = IF i <= 1 THEN es[i] ELSE w[i - 1]
      BY <3>2, <3>3, <3>4
    <3>6. c[1] = e /\ \A i \in 1..l : c[1 + i] = w[i]
      BY <3>2, <3>3, <3>5
    <3>7. c \in Seq(Command) /\ Len(c) = 1 + l
      BY <3>2, <3>3, <3>4
    <3> QED BY <3>6, <3>7 DEF es, c, l
  <2> HIDE DEF D
  <2>5. /\ f \in Seq(Command) /\ Len(f) = n + 1 + Len(v) /\ f[n + 1] = Select(d)
        /\ \A i \in 1..Len(v) : f[n + 1 + i] = Write(v[i])
        /\ Upto(f, n) = s
    <3>1. f \in Seq(Command) /\ Len(f) = n + 1 + Len(v)
      <4>1. f \in Seq(Command) /\ Len(f) = Len(s) + Len(D)
        BY <2>4, UptoConcat
      <4> QED BY <1>1, <2>4, <4>1
    <3>2. \A i \in 1..(1 + Len(v)) : f[n + i] = D[i]
      BY <1>1, <2>3, <2>4
    <3>3. f[n + 1] = Select(d)
      BY <1>1, <2>4, <3>2 DEF e
    <3>4. ASSUME NEW i \in 1..Len(v) PROVE f[n + 1 + i] = Write(v[i])
      <4>1. 1 + i \in 1..(1 + Len(v)) /\ n + (1 + i) = n + 1 + i
        BY <1>1, <2>3
      <4> QED BY <2>2, <2>4, <3>2, <4>1
    <3>5. Upto(f, n) = s
      BY <2>3, <2>4 DEF Upto
    <3> QED BY <3>1, <3>3, <3>4, <3>5
  <2> HIDE DEF f, n
  <2>6. Replayed(Upto(f, n + 1)) = [db |-> d, data |-> R]
    <3>1. n + 1 \in 1..Len(f) /\ (n + 1) - 1 = n
      BY <1>1, <2>3, <2>5
    <3>2. Upto(f, n + 1) = Append(s, Select(d))
      BY <2>5, <3>1, UptoStep
    <3>3. Replayed(Append(s, Select(d))) = RunCommand(Replayed(s), Select(d))
      BY Commands, ReplayedAppend
    <3> QED BY <1>1, <3>2, <3>3, RunSelect DEF Replay
  <2> DEFINE P(m) == Replayed(Upto(f, n + 1 + m)) = [db |-> d, data |-> [R EXCEPT ![d] = Upto(v, m)]]
             T == {m \in 0..Len(v) : ~P(m)}
  <2>7. T = {}
    <3> SUFFICES ASSUME T # {} PROVE FALSE
      OBVIOUS
    <3>1. PICK m \in T : \A k \in Nat : k < m => k \notin T
      <4>1. T \in SUBSET Nat
        OBVIOUS
      <4> HIDE DEF T
      <4> QED BY <4>1, LeastIn
    <3>2. CASE m = 0
      <4>1. Upto(v, 0) = << >> /\ n + 1 + 0 = n + 1
        BY <1>1, <2>3, UptoEnds
      <4>2. [R EXCEPT ![d] = << >>] = R
        BY <1>1
      <4> QED BY <2>6, <3>1, <3>2, <4>1, <4>2
    <3>3. CASE m # 0
      <4> DEFINE i == n + 1 + m
      <4>0. i = n + 1 + m /\ P(m) = (Replayed(Upto(f, i)) = [db |-> d, data |-> [R EXCEPT ![d] = Upto(v, m)]])
        OBVIOUS
      <4> HIDE DEF i
      <4> DEFINE old == [db |-> d, data |-> [R EXCEPT ![d] = Upto(v, m - 1)]]
      <4>1. m \in 1..Len(v) /\ m - 1 \in Nat /\ m - 1 < m /\ i \in 1..Len(f) /\ i - 1 = n + 1 + (m - 1) /\ f[i] = Write(v[m])
        BY <1>1, <2>3, <2>5, <3>3, <4>0
      <4>2. /\ Upto(f, i) = Append(Upto(f, i - 1), f[i]) /\ f[i] \in Command
            /\ Upto(f, i - 1) \in Seq(Command)
        BY <2>5, <4>1, UptoStep
      <4>3. Upto(v, m) = Append(Upto(v, m - 1), v[m]) /\ v[m] \in Nat /\ Upto(v, m - 1) \in Seq(Nat)
        BY <1>1, <4>1, UptoStep
      <4>4. Replayed(Upto(f, i - 1)) = old
        <5>1. P(m - 1)
          <6>1. m - 1 \in 0..Len(v) /\ m - 1 \notin T
            BY <1>1, <3>1, <4>1
          <6> HIDE DEF P
          <6> QED BY <6>1
        <5> QED BY <4>1, <5>1
      <4>5. Replayed(Upto(f, i)) = RunCommand(old, Write(v[m]))
        BY <4>1, <4>2, <4>4, ReplayedAppend
      <4>6. old \in LoaderState /\ old.db = d /\ old.data = [R EXCEPT ![d] = Upto(v, m - 1)]
        BY <1>1, <4>3 DEF LoaderState
      <4> HIDE DEF old
      <4>7. RunCommand(old, Write(v[m])) = [db |-> old.db, data |-> [old.data EXCEPT ![old.db] = Append(@, v[m])]]
        BY <4>3, <4>6, RunWrite
      <4>8. [old.data EXCEPT ![old.db] = Append(@, v[m])] = [R EXCEPT ![d] = Upto(v, m)]
        BY <1>1, <4>3, <4>6
      <4> QED BY <3>1, <4>0, <4>5, <4>6, <4>7, <4>8
    <3> QED BY <3>2, <3>3
  <2>8. P(Len(v))
    <3>1. Len(v) \in 0..Len(v)
      BY <1>1
    <3> HIDE DEF P
    <3> QED BY <2>7, <3>1
  <2>9. Upto(f, Len(f)) = f /\ Upto(v, Len(v)) = v
    BY <1>1, <2>5, UptoEnds
  <2>10. Replay(f) = [R EXCEPT ![d] = v]
    BY <2>5, <2>8, <2>9 DEF Replay
  <2> QED BY <2>1, <2>5, <2>10 DEF f
<1> QED BY <1>2, <1>3

\* Loading the child's file brings back the databases it was made from.
LEMMA RewriteReplayed ==
  ASSUME NEW data \in [DBs -> Seq(Nat)]
  PROVE  rewriteAppendOnlyFile(data) \in Seq(Command) /\ Replay(rewriteAppendOnlyFile(data)) = data
<1>1. DbNum \in Nat \ {0} /\ \A d \in DBs : d \in 0..(DbNum - 1)
  BY AofAssumption DEF DBs
<1>2. PICK g : Dumps(data, DbNum, g) /\ rewriteAppendOnlyFile(data) = g[DbNum]
  <2>1. \E g : Dumps(data, DbNum, g)
    BY <1>1, DumpsExist
  <2> QED BY <2>1 DEF Dumps, Dump, rewriteAppendOnlyFile
<1> DEFINE Part(j) == [d \in DBs |-> IF d < j THEN data[d] ELSE << >>]
           P(j) == g[j] \in Seq(Command) /\ Replay(g[j]) = Part(j)
           T == {j \in 0..DbNum : ~P(j)}
<1>3. T = {}
  <2> SUFFICES ASSUME T # {} PROVE FALSE
    OBVIOUS
  <2>1. PICK j \in T : \A k \in Nat : k < j => k \notin T
    <3>1. T \in SUBSET Nat
      BY <1>1
    <3> HIDE DEF T
    <3> QED BY <3>1, LeastIn
  <2>2. g[j] = IF j = 0 THEN <<>> ELSE g[j - 1] \o Dump(data, j - 1)
    BY <1>2, <2>1 DEF Dumps
  <2>3. CASE j = 0
    <3>1. g[j] = << >> /\ << >> \in Seq(Command)
      BY <2>2, <2>3
    <3>2. Replay(<< >>) = EmptyDBs
      BY ReplayedNothing DEF Replay, LoaderStart
    <3>3. Part(0) = EmptyDBs
      BY <1>1 DEF EmptyDBs
    <3> QED BY <2>1, <2>3, <3>1, <3>2, <3>3
  <2>4. CASE j # 0
    <3>1. j \in 1..DbNum /\ j - 1 \in Nat /\ j - 1 < j /\ j - 1 \in DBs /\ j - 1 \in 0..DbNum
      BY <1>1, <2>1, <2>4 DEF DBs
    <3>2. g[j - 1] \in Seq(Command) /\ Replay(g[j - 1]) = Part(j - 1)
      BY <2>1, <3>1
    <3>3. Part(j - 1)[j - 1] = << >>
      BY <3>1
    <3>4. g[j] = g[j - 1] \o Dump(data, j - 1)
      BY <2>2, <2>4
    <3>5. g[j] \in Seq(Command) /\ Replay(g[j]) = [Part(j - 1) EXCEPT ![j - 1] = data[j - 1]]
      <4>1. Replay(g[j - 1])[j - 1] = << >>
        BY <3>2, <3>3
      <4> HIDE DEF Part
      <4>2. /\ g[j - 1] \o Dump(data, j - 1) \in Seq(Command)
            /\ Replay(g[j - 1] \o Dump(data, j - 1)) = [Replay(g[j - 1]) EXCEPT ![j - 1] = data[j - 1]]
        BY <3>1, <3>2, <4>1, DumpReplayed
      <4> QED BY <3>2, <3>4, <4>2
    <3>6. [Part(j - 1) EXCEPT ![j - 1] = data[j - 1]] = Part(j)
      <4>1. \A d \in DBs : d < j <=> d < j - 1 \/ d = j - 1
        BY <1>1, <3>1
      <4> QED BY <3>1, <4>1
    <3> QED BY <2>1, <3>5, <3>6
  <2> QED BY <2>3, <2>4
<1>4. P(DbNum)
  <2>1. DbNum \in 0..DbNum
    BY <1>1
  <2> HIDE DEF P
  <2> QED BY <1>3, <2>1
<1>5. Part(DbNum) = data
  BY <1>1
<1> QED BY <1>2, <1>4, <1>5

-----------------------------------------------------------------------------
(* Bytes *)

LEMMA BytesAt ==
  ASSUME NEW L \in Seq(Command)
  PROVE  /\ Bytes(L) \in Seq(Byte) /\ Len(Bytes(L)) = 2 * Len(L)
         /\ \A i \in 1..Len(L) : Bytes(L)[2 * i - 1] = <<L[i], 1>> /\ Bytes(L)[2 * i] = <<L[i], 0>>
         /\ \A j \in 1..2 * Len(L) : Bytes(L)[j] = <<L[(j + 1) \div 2], j % 2>>
<1>1. Len(L) \in Nat /\ 2 * Len(L) \in Nat /\ \A i \in 1..Len(L) : L[i] \in Entry
  BY Commands, ElementOfSeq
<1>2. ASSUME NEW j \in 1..2 * Len(L) PROVE (j + 1) \div 2 \in 1..Len(L) /\ j % 2 \in {0, 1}
  BY <1>1
<1>3. \A j \in 1..2 * Len(L) : Bytes(L)[j] = <<L[(j + 1) \div 2], j % 2>> /\ Bytes(L)[j] \in Byte
  BY <1>1, <1>2 DEF Bytes, Byte
<1>4. Bytes(L) \in Seq(Byte) /\ Len(Bytes(L)) = 2 * Len(L)
  BY <1>1, <1>3 DEF Bytes
<1>5. ASSUME NEW i \in 1..Len(L) PROVE Bytes(L)[2 * i - 1] = <<L[i], 1>> /\ Bytes(L)[2 * i] = <<L[i], 0>>
  <2>1. /\ 2 * i - 1 \in 1..2 * Len(L) /\ 2 * i \in 1..2 * Len(L)
        /\ ((2 * i - 1) + 1) \div 2 = i /\ (2 * i - 1) % 2 = 1 /\ (2 * i + 1) \div 2 = i /\ (2 * i) % 2 = 0
    BY <1>1
  <2> QED BY <1>3, <2>1
<1> QED BY <1>3, <1>4, <1>5

LEMMA BytesConcat ==
  ASSUME NEW L \in Seq(Command), NEW M \in Seq(Command)
  PROVE  Bytes(L \o M) = Bytes(L) \o Bytes(M)
<1> DEFINE n == Len(L)
           m == Len(M)
           LM == L \o M
           A == Bytes(L)
           B == Bytes(M)
<1>1. n \in Nat /\ m \in Nat /\ LM \in Seq(Command) /\ Len(LM) = n + m
      /\ (\A i \in 1..n : LM[i] = L[i]) /\ (\A i \in 1..m : LM[n + i] = M[i])
  OBVIOUS
<1>2. A \in Seq(Byte) /\ B \in Seq(Byte) /\ Len(A) = 2 * n /\ Len(B) = 2 * m /\ Len(Bytes(LM)) = 2 * (n + m) /\ Bytes(LM) \in Seq(Byte)
  BY <1>1, BytesAt
<1>3. A \o B \in Seq(Byte) /\ Len(A \o B) = 2 * n + 2 * m
      /\ (\A i \in 1..2 * n : (A \o B)[i] = A[i]) /\ (\A i \in 1..2 * m : (A \o B)[2 * n + i] = B[i])
  <2> HIDE DEF A, B, n, m
  <2>1. /\ Len(A \o B) = Len(A) + Len(B) /\ A \o B \in Seq(Byte)
        /\ \A i \in 1..Len(A) + Len(B) : (A \o B)[i] = IF i <= Len(A) THEN A[i] ELSE B[i - Len(A)]
    BY <1>2, ConcatProperties
  <2>2. \A i \in 1..2 * n : (A \o B)[i] = A[i]
    BY <1>1, <1>2, <2>1
  <2>3. ASSUME NEW i \in 1..2 * m PROVE (A \o B)[2 * n + i] = B[i]
    <3>1. 2 * n + i \in 1..(2 * n + 2 * m) /\ ~(2 * n + i <= 2 * n) /\ (2 * n + i) - 2 * n = i
      BY <1>1
    <3> QED BY <1>2, <2>1, <3>1
  <2> QED BY <1>2, <2>1, <2>2, <2>3
<1>4. /\ \A j \in 1..2 * n : A[j] = <<L[(j + 1) \div 2], j % 2>>
      /\ \A j \in 1..2 * m : B[j] = <<M[(j + 1) \div 2], j % 2>>
      /\ \A j \in 1..2 * (n + m) : Bytes(LM)[j] = <<LM[(j + 1) \div 2], j % 2>>
  BY <1>1, BytesAt
<1> HIDE DEF A, B, n, m, LM
<1>5. ASSUME NEW j \in 1..2 * (n + m) PROVE Bytes(LM)[j] = (A \o B)[j]
  <2>1. CASE j <= 2 * n
    <3>1. j \in 1..2 * n /\ (j + 1) \div 2 \in 1..n
      BY <1>1, <2>1
    <3> QED BY <1>1, <1>3, <1>4, <3>1
  <2>2. CASE j > 2 * n
    <3> DEFINE i == j - 2 * n
    <3>1. i \in 1..2 * m /\ j = 2 * n + i /\ (i + 1) \div 2 \in 1..m /\ (j + 1) \div 2 = n + (i + 1) \div 2 /\ j % 2 = i % 2
      BY <1>1, <2>2
    <3> HIDE DEF i
    <3> DEFINE k == (i + 1) \div 2
    <3>2. k \in 1..m /\ (j + 1) \div 2 = n + k
      BY <3>1
    <3>3. B[i] = <<M[k], i % 2>>
      BY <1>4, <3>1
    <3>4. (A \o B)[j] = B[i] /\ j % 2 = i % 2
      BY <1>3, <3>1
    <3> HIDE DEF k
    <3>5. Bytes(LM)[j] = <<LM[n + k], j % 2>>
      BY <1>4, <3>2
    <3>6. LM[n + k] = M[k]
      BY <1>1, <3>2
    <3> QED BY <3>3, <3>4, <3>5, <3>6
  <2>3. j <= 2 * n \/ j > 2 * n
    BY <1>1
  <2> QED BY <2>1, <2>2, <2>3
<1>6. Bytes(LM) = A \o B
  <2>1. Len(A \o B) = 2 * (n + m) /\ Len(Bytes(LM)) = 2 * (n + m)
    BY <1>1, <1>2, <1>3
  <2>2. \A j \in 1..Len(Bytes(LM)) : Bytes(LM)[j] = (A \o B)[j]
    BY <1>5, <2>1
  <2> DEFINE C == A \o B
             D == Bytes(LM)
  <2> HIDE DEF C, D
  <2>3. C \in Seq(Byte) /\ D \in Seq(Byte) /\ Len(C) = Len(D) /\ \A j \in 1..Len(D) : D[j] = C[j]
    BY <1>2, <1>3, <2>1, <2>2 DEF C, D
  <2>4. C = D
    BY <2>3
  <2> QED BY <2>4 DEF C, D
<1> QED BY <1>6 DEF A, B, LM

\* What the loader finds in the first n bytes.
LEMMA CutLoads ==
  ASSUME NEW L \in Seq(Command), NEW c \in 0..Len(L), NEW n \in 0..2 * Len(L), n = 2 * c \/ n = 2 * c + 1
  PROVE  /\ Complete(Upto(Bytes(L), n)) = c
         /\ Entries(Upto(Bytes(L), n)) = Upto(L, c)
         /\ Loadable(Upto(Bytes(L), n)) <=> n = 2 * c
<1> DEFINE b == Upto(Bytes(L), n)
<1>1. Len(L) \in Nat /\ c \in Nat /\ n \in Nat /\ n \div 2 = c
  OBVIOUS
<1>2. Len(b) = n /\ \A i \in 1..n : b[i] = Bytes(L)[i]
  <2>1. Bytes(L) \in Seq(Byte) /\ n \in 0..Len(Bytes(L))
    BY BytesAt
  <2> QED BY <2>1, UptoProperties
<1>3. \A i \in 1..c : b[2 * i - 1] = <<L[i], 1>> /\ b[2 * i] = <<L[i], 0>>
  <2> TAKE i \in 1..c
  <2>1. 2 * i - 1 \in 1..n /\ 2 * i \in 1..n /\ i \in 1..Len(L)
    BY <1>1
  <2> QED BY <1>2, <2>1, BytesAt
<1> HIDE DEF b
<1> DEFINE good(k) == \A i \in 1..k : b[2*i - 1][2] = 1 /\ b[2*i] = <<b[2*i - 1][1], 0>>
<1>4. good(c)
  <2>1. ASSUME NEW i \in 1..c PROVE b[2*i - 1][2] = 1 /\ b[2*i] = <<b[2*i - 1][1], 0>>
    <3>1. b[2*i - 1] = <<L[i], 1>> /\ b[2*i] = <<L[i], 0>>
      BY <1>3
    <3> QED BY <3>1
  <2> QED BY <2>1
<1>5. Complete(b) = CHOOSE k \in 0..(Len(b) \div 2) : good(k) /\ \A j \in (k + 1)..(Len(b) \div 2) : ~good(j)
  BY DEF Complete
<1>6. Complete(b) = c
  <2> HIDE DEF good
  <2>1. Len(b) \div 2 = c
    BY <1>1, <1>2
  <2>2. c \in 0..c /\ \A j \in (c + 1)..c : ~good(j)
    BY <1>1
  <2>3. \A k \in 0..c : (\A j \in (k + 1)..c : ~good(j)) => k = c
    BY <1>1, <1>4
  <2> QED BY <1>4, <1>5, <2>1, <2>2, <2>3
<1>7. Entries(b) = Upto(L, c)
  <2>1. Entries(b) = [i \in 1..c |-> b[2*i][1]]
    BY <1>6 DEF Entries
  <2>2. Upto(L, c) \in Seq(Command) /\ Len(Upto(L, c)) = c /\ \A i \in 1..c : Upto(L, c)[i] = L[i]
    BY UptoProperties
  <2>3. \A i \in 1..c : b[2*i][1] = L[i]
    BY <1>3
  <2>4. Upto(L, c) = [i \in 1..c |-> Upto(L, c)[i]]
    BY <2>2
  <2> QED BY <2>1, <2>2, <2>3, <2>4
<1>8. Loadable(b) <=> n = 2 * c
  BY <1>2, <1>6 DEF Loadable
<1> QED BY <1>6, <1>7, <1>8 DEF b

-----------------------------------------------------------------------------
(* Logs: sequences of commands that bring back the writes of a history *)

\* The databases after the first k writes of a history.
After(h, k) == Executed(Upto(h, k))

\* From command b on, every prefix of the log brings back the databases after some number
\* of writes, and a longer prefix no fewer writes than a shorter one.
PrefixLog(h, L, b) ==
  \A m \in b..Len(L) : \A j \in b..m : \E k \in 0..Len(h) : \E i \in 0..k :
    Replay(Upto(L, m)) = After(h, k) /\ Replay(Upto(L, j)) = After(h, i)

\* The log of the whole history, which ends in database db unless that is -1.
LogOf(h, L, b, db) ==
  /\ L \in Seq(Command) /\ b \in 0..Len(L)
  /\ PrefixLog(h, L, b)
  /\ Replay(L) = After(h, Len(h))
  /\ db = -1 \/ Replayed(L).db = db

LEMMA AfterAppend ==
  ASSUME NEW h \in Seq(DBs), NEW d \in DBs
  PROVE  /\ After(Append(h, d), Len(h) + 1) = Stored(After(h, Len(h)), d, Len(h) + 1)
         /\ \A k \in 0..Len(h) : After(Append(h, d), k) = After(h, k)
         /\ Append(h, d) \in Seq(DBs) /\ Len(Append(h, d)) = Len(h) + 1 /\ Len(h) \in Nat
<1>1. Append(h, d) \in Seq(DBs) /\ Len(Append(h, d)) = Len(h) + 1 /\ Len(h) \in Nat
      /\ \A k \in 0..Len(h) : Upto(Append(h, d), k) = Upto(h, k)
  BY UptoAppend
<1>2. Upto(Append(h, d), Len(h) + 1) = Append(h, d) /\ Upto(h, Len(h)) = h
  BY <1>1, UptoEnds
<1> QED BY <1>1, <1>2, ExecutedAppend DEF After

LEMMA ReplayUpto ==
  ASSUME NEW L \in Seq(Command)
  PROVE  Upto(L, Len(L)) = L /\ Replay(L) \in [DBs -> Seq(Nat)] /\ Replayed(L) = [db |-> Replayed(L).db, data |-> Replay(L)]
BY UptoEnds, ReplayedType DEF Replay, LoaderState

LEMMA LogSelects ==
  ASSUME NEW h \in Seq(DBs), NEW L, NEW b, NEW db, NEW d \in DBs, LogOf(h, L, b, db)
  PROVE  LogOf(h, Append(L, Select(d)), b, d)
<1> DEFINE n == Len(L)
           M == Append(L, Select(d))
<1>1. L \in Seq(Command) /\ n \in Nat /\ b \in 0..n /\ PrefixLog(h, L, b) /\ Replay(L) = After(h, Len(h)) /\ Len(h) \in Nat
  BY DEF LogOf
<1>2. M \in Seq(Command) /\ Len(M) = n + 1 /\ \A m \in 0..n : Upto(M, m) = Upto(L, m)
  BY <1>1, Commands, UptoAppend
<1>3. Replayed(M) = [db |-> d, data |-> Replay(L)]
  <2>1. Replayed(M) = RunCommand(Replayed(L), Select(d))
    BY <1>1, Commands, ReplayedAppend
  <2> QED BY <1>1, <2>1, ReplayedType, RunSelect DEF Replay
<1>4. Replay(M) = After(h, Len(h)) /\ Replayed(M).db = d
  BY <1>1, <1>3 DEF Replay
<1> HIDE DEF n, M
<1>5. Upto(M, n + 1) = M /\ Upto(L, n) = L
  BY <1>1, <1>2, UptoEnds DEF n
<1>6. \A m \in b..n : \A j \in b..m : \E k \in 0..Len(h) : \E i \in 0..k :
        Replay(Upto(L, m)) = After(h, k) /\ Replay(Upto(L, j)) = After(h, i)
  BY <1>1 DEF PrefixLog, n
<1>7. ASSUME NEW m \in b..(n + 1), NEW j \in b..m
      PROVE  \E k \in 0..Len(h) : \E i \in 0..k : Replay(Upto(M, m)) = After(h, k) /\ Replay(Upto(M, j)) = After(h, i)
  <2>1. CASE m <= n
    <3>1. m \in b..n /\ Upto(M, m) = Upto(L, m) /\ Upto(M, j) = Upto(L, j)
      BY <1>1, <1>2, <2>1
    <3> QED BY <1>6, <3>1
  <2>2. CASE m = n + 1 /\ j <= n
    <3>1. n \in b..n /\ j \in b..n /\ Upto(M, j) = Upto(L, j)
      BY <1>1, <1>2, <2>2
    <3>2. PICK i \in 0..Len(h) : Replay(Upto(L, j)) = After(h, i)
      <4>1. \E k \in 0..Len(h) : \E i \in 0..k : Replay(Upto(L, j)) = After(h, i)
        BY <1>6, <3>1
      <4> QED BY <1>1, <4>1
    <3>3. Len(h) \in 0..Len(h)
      BY <1>1
    <3> QED BY <1>4, <1>5, <2>2, <3>1, <3>2, <3>3
  <2>3. CASE m = n + 1 /\ j = n + 1
    <3>1. Len(h) \in 0..Len(h)
      BY <1>1
    <3> QED BY <1>4, <1>5, <2>3, <3>1
  <2> QED BY <1>1, <2>1, <2>2, <2>3
<1>8. PrefixLog(h, M, b)
  BY <1>2, <1>7 DEF PrefixLog
<1>9. b \in 0..Len(M)
  BY <1>1, <1>2
<1> QED BY <1>2, <1>4, <1>8, <1>9 DEF LogOf, M

LEMMA LogWrites ==
  ASSUME NEW h \in Seq(DBs), NEW L, NEW b, NEW d \in DBs, LogOf(h, L, b, d)
  PROVE  LogOf(Append(h, d), Append(L, Write(Len(h) + 1)), b, d)
<1> DEFINE n == Len(L)
           w == Len(h) + 1
           M == Append(L, Write(w))
           g == Append(h, d)
<1>1. /\ L \in Seq(Command) /\ n \in Nat /\ b \in 0..n /\ PrefixLog(h, L, b) /\ Replay(L) = After(h, Len(h))
      /\ Len(h) \in Nat /\ w \in Nat /\ Replayed(L).db = d
  BY DBNumbers DEF LogOf
<1>2. M \in Seq(Command) /\ Len(M) = n + 1 /\ \A m \in 0..n : Upto(M, m) = Upto(L, m)
  BY <1>1, Commands, UptoAppend
<1>3. Replayed(M) = [db |-> d, data |-> Stored(Replay(L), d, w)]
  <2>1. Replayed(M) = RunCommand(Replayed(L), Write(w))
    BY <1>1, Commands, ReplayedAppend
  <2>2. Replayed(L) \in LoaderState
    BY <1>1, ReplayedType
  <2> HIDE DEF w, n
  <2>3. RunCommand(Replayed(L), Write(w)) = [db |-> Replayed(L).db, data |-> [Replayed(L).data EXCEPT ![Replayed(L).db] = Append(@, w)]]
    BY <1>1, <2>2, RunWrite
  <2> QED BY <1>1, <2>1, <2>3 DEF Replay, Stored
<1>4. /\ After(g, w) = Stored(After(h, Len(h)), d, w) /\ g \in Seq(DBs) /\ Len(g) = w
      /\ \A k \in 0..Len(h) : After(g, k) = After(h, k)
  BY AfterAppend
<1>5. Replay(M) = After(g, w) /\ Replayed(M).db = d
  BY <1>1, <1>3, <1>4 DEF Replay
<1>6. w = Len(h) + 1
  OBVIOUS
<1> HIDE DEF n, M, g, w
<1>7. Upto(M, n + 1) = M
  BY <1>1, <1>2, UptoEnds
<1>8. \A m \in b..n : \A j \in b..m : \E k \in 0..Len(h) : \E i \in 0..k :
        Replay(Upto(L, m)) = After(h, k) /\ Replay(Upto(L, j)) = After(h, i)
  BY <1>1 DEF PrefixLog, n
<1>9. ASSUME NEW m \in b..(n + 1), NEW j \in b..m
      PROVE  \E k \in 0..w : \E i \in 0..k : Replay(Upto(M, m)) = After(g, k) /\ Replay(Upto(M, j)) = After(g, i)
  <2>1. CASE m <= n
    <3>1. m \in b..n /\ Upto(M, m) = Upto(L, m) /\ Upto(M, j) = Upto(L, j)
      BY <1>1, <1>2, <2>1
    <3>2. PICK k \in 0..Len(h) : \E i \in 0..k : Replay(Upto(L, m)) = After(h, k) /\ Replay(Upto(L, j)) = After(h, i)
      BY <1>8, <3>1
    <3>3. PICK i \in 0..k : Replay(Upto(L, m)) = After(h, k) /\ Replay(Upto(L, j)) = After(h, i)
      BY <3>2
    <3>4. k \in 0..w /\ i \in 0..Len(h)
      BY <1>1, <1>6
    <3> QED BY <1>4, <3>1, <3>3, <3>4
  <2>2. CASE m = n + 1 /\ j <= n
    <3>1. n \in b..n /\ j \in b..n /\ Upto(M, j) = Upto(L, j)
      BY <1>1, <1>2, <2>2
    <3>2. PICK i \in 0..Len(h) : Replay(Upto(L, j)) = After(h, i)
      <4>1. \E k \in 0..Len(h) : \E i \in 0..k : Replay(Upto(L, j)) = After(h, i)
        BY <1>8, <3>1
      <4> QED BY <1>1, <4>1
    <3>3. i \in 0..Len(h) /\ i \in 0..w /\ w \in 0..w
      BY <1>1, <1>6
    <3> QED BY <1>4, <1>5, <1>7, <2>2, <3>1, <3>2, <3>3
  <2>3. CASE m = n + 1 /\ j = n + 1
    <3>1. w \in 0..w
      BY <1>1
    <3> QED BY <1>5, <1>7, <2>3, <3>1
  <2> QED BY <1>1, <2>1, <2>2, <2>3
<1>10. PrefixLog(g, M, b)
  BY <1>2, <1>4, <1>9 DEF PrefixLog
<1>11. b \in 0..Len(M)
  BY <1>1, <1>2
<1> QED BY <1>2, <1>4, <1>5, <1>10, <1>11 DEF LogOf, M, g, w

\* A log stays one when less is asked of it.
LEMMA LogWeakens ==
  ASSUME NEW h \in Seq(DBs), NEW L, NEW b, NEW db, LogOf(h, L, b, db), NEW c \in b..Len(L)
  PROVE  LogOf(h, L, c, db) /\ LogOf(h, L, c, -1)
<1>1. Len(L) \in Nat /\ b \in 0..Len(L) /\ c \in 0..Len(L) /\ c \in b..Len(L)
  BY DEF LogOf
<1>2. PrefixLog(h, L, c)
  <2>1. \A m \in c..Len(L) : m \in b..Len(L) /\ \A j \in c..m : j \in b..m
    BY <1>1
  <2> QED BY <2>1 DEF LogOf, PrefixLog
<1> QED BY <1>1, <1>2 DEF LogOf

\* The log that is a dump of the databases.
LEMMA LogDumps ==
  ASSUME NEW h \in Seq(DBs), NEW k \in 0..Len(h)
  PROVE  /\ rewriteAppendOnlyFile(After(h, k)) \in Seq(Command)
         /\ PrefixLog(h, rewriteAppendOnlyFile(After(h, k)), Len(rewriteAppendOnlyFile(After(h, k))))
         /\ k = Len(h) => LogOf(h, rewriteAppendOnlyFile(After(h, k)), Len(rewriteAppendOnlyFile(After(h, k))), -1)
<1> DEFINE L == rewriteAppendOnlyFile(After(h, k))
<1>1. After(h, k) \in [DBs -> Seq(Nat)]
  <2>1. Upto(h, k) \in Seq(DBs) /\ Len(Upto(h, k)) = k /\ k \in Nat
    BY UptoProperties
  <2>2. After(h, k) \in [DBs -> Seq(1..k)]
    BY <2>1, ExecutedType DEF After
  <2> QED BY <2>1, <2>2
<1>2. L \in Seq(Command) /\ Replay(L) = After(h, k)
  BY <1>1, RewriteReplayed
<1> HIDE DEF L
<1>3. Len(L) \in Nat /\ Upto(L, Len(L)) = L /\ Len(h) \in Nat
  BY <1>2, UptoEnds
<1>4. PrefixLog(h, L, Len(L))
  <2>1. ASSUME NEW m \in Len(L)..Len(L), NEW j \in Len(L)..m
        PROVE  \E x \in 0..Len(h) : \E i \in 0..x : Replay(Upto(L, m)) = After(h, x) /\ Replay(Upto(L, j)) = After(h, i)
    <3>1. m = Len(L) /\ j = Len(L) /\ k \in 0..Len(h) /\ k \in 0..k
      BY <1>3
    <3> QED BY <1>2, <1>3, <3>1
  <2> QED BY <2>1 DEF PrefixLog
<1>5. k = Len(h) => LogOf(h, L, Len(L), -1)
  BY <1>2, <1>3, <1>4 DEF LogOf
<1> QED BY <1>2, <1>4, <1>5 DEF L

\* The commands of write w in database d, for a file in database db.
Fresh(w, d, db) == (IF d = db THEN <<>> ELSE <<Select(d)>>) \o <<Write(w)>>

LEMMA Pair == ASSUME NEW S, NEW x \in S, NEW y \in S PROVE <<x>> \o <<y>> = <<x, y>>
<1> DEFINE a == <<x>>
           b == <<y>>
           c == a \o b
           d == <<x, y>>
<1>1. a \in Seq(S) /\ b \in Seq(S) /\ Len(a) = 1 /\ Len(b) = 1 /\ a[1] = x /\ b[1] = y
  OBVIOUS
<1>2. d \in Seq(S) /\ Len(d) = 2 /\ d[1] = x /\ d[2] = y
  OBVIOUS
<1> HIDE DEF a, b, d
<1>3. c \in Seq(S) /\ Len(c) = Len(a) + Len(b)
      /\ \A i \in 1..Len(a) + Len(b) : c[i] = IF i <= Len(a) THEN a[i] ELSE b[i - Len(a)]
  BY <1>1, ConcatProperties
<1> HIDE DEF c
<1>4. Len(c) = 2 /\ c[1] = x /\ c[2] = y
  BY <1>1, <1>3
<1>5. c = d
  BY <1>2, <1>3, <1>4
<1> QED BY <1>5 DEF a, b, c, d

LEMMA LogFed ==
  ASSUME NEW h \in Seq(DBs), NEW L, NEW b, NEW db \in DBs \cup {-1}, NEW d \in DBs, LogOf(h, L, b, db)
  PROVE  /\ LogOf(Append(h, d), L \o Fresh(Len(h) + 1, d, db), b, d)
         /\ Fresh(Len(h) + 1, d, db) \in Seq(Command)
<1> DEFINE w == Len(h) + 1
<1>1. L \in Seq(Command) /\ w \in Nat /\ Select(d) \in Command /\ Write(w) \in Command
  BY Commands DEF LogOf
<1>2. CASE d = db
  <2>1. Replayed(L).db = d
    <3>1. d # -1
      BY DBNumbers
    <3> QED BY <1>2, <3>1 DEF LogOf
  <2>2. LogOf(h, L, b, d)
    BY <2>1 DEF LogOf
  <2>3. LogOf(Append(h, d), Append(L, Write(w)), b, d)
    BY <2>2, LogWrites
  <2>4. Fresh(w, d, db) = <<Write(w)>>
    BY <1>1, <1>2 DEF Fresh
  <2>5. Append(L, Write(w)) = L \o <<Write(w)>> /\ <<Write(w)>> \in Seq(Command)
    BY <1>1
  <2> QED BY <2>3, <2>4, <2>5
<1>3. CASE d # db
  <2>1. LogOf(h, Append(L, Select(d)), b, d)
    BY LogSelects
  <2>2. LogOf(Append(h, d), Append(Append(L, Select(d)), Write(w)), b, d)
    BY <2>1, LogWrites
  <2>3. Fresh(w, d, db) = <<Select(d), Write(w)>>
    <3>1. Fresh(w, d, db) = <<Select(d)>> \o <<Write(w)>>
      BY <1>3 DEF Fresh
    <3>2. <<Select(d)>> \o <<Write(w)>> = <<Select(d), Write(w)>>
      BY <1>1, Pair
    <3> QED BY <3>1, <3>2
  <2>4. Append(Append(L, Select(d)), Write(w)) = L \o <<Select(d), Write(w)>> /\ <<Select(d), Write(w)>> \in Seq(Command)
    BY <1>1
  <2> QED BY <2>2, <2>3, <2>4
<1> QED BY <1>2, <1>3

\* The server that loads a log has the history the log brings back.
LEMMA LogLoads ==
  ASSUME NEW h \in Seq(DBs), NEW L \in Seq(Command), NEW b \in 0..Len(L), PrefixLog(h, L, b),
         NEW r \in 0..Len(h), Replay(L) = After(h, r)
  PROVE  LogOf(Upto(h, r), L, b, -1)
<1> DEFINE g == Upto(h, r)
           n == Len(L)
<1>1. g \in Seq(DBs) /\ Len(g) = r /\ r \in Nat /\ n \in Nat /\ b \in 0..n /\ Len(h) \in Nat /\ Upto(L, n) = L
  BY UptoProperties, UptoEnds
<1>2. \A k \in 0..r : After(g, k) = After(h, k)
  BY UptoProperties DEF After
<1> HIDE DEF g
<1>3. \A m \in b..n : \A j \in b..m : \E k \in 0..Len(h) : \E i \in 0..k :
        Replay(Upto(L, m)) = After(h, k) /\ Replay(Upto(L, j)) = After(h, i)
  BY DEF PrefixLog
<1> HIDE DEF n
<1>4. ASSUME NEW k \in 0..Len(h), NEW j \in 0..Len(h), After(h, k) = After(h, j) PROVE k = j
  BY <1>4, ExecutedGrows DEF After
<1>5. ASSUME NEW m \in b..n PROVE \E k \in 0..r : Replay(Upto(L, m)) = After(h, k)
  <2>1. n \in b..n /\ m \in b..n
    BY <1>1, <1>5
  <2>2. PICK k \in 0..Len(h) : \E i \in 0..k : Replay(Upto(L, n)) = After(h, k) /\ Replay(Upto(L, m)) = After(h, i)
    BY <1>3, <2>1
  <2>3. k = r
    BY <1>1, <1>4, <2>2
  <2> QED BY <2>2, <2>3
<1>6. ASSUME NEW m \in b..n, NEW j \in b..m
      PROVE  \E k \in 0..Len(g) : \E i \in 0..k : Replay(Upto(L, m)) = After(g, k) /\ Replay(Upto(L, j)) = After(g, i)
  <2>1. PICK k \in 0..r : Replay(Upto(L, m)) = After(h, k)
    BY <1>5
  <2>2. PICK x \in 0..Len(h) : \E i \in 0..x : Replay(Upto(L, m)) = After(h, x) /\ Replay(Upto(L, j)) = After(h, i)
    BY <1>3
  <2>3. k \in 0..Len(h)
    BY <1>1
  <2>4. x = k
    BY <1>4, <2>1, <2>2, <2>3
  <2>5. PICK i \in 0..k : Replay(Upto(L, j)) = After(h, i)
    BY <2>2, <2>4
  <2>6. i \in 0..r /\ k \in 0..Len(g)
    BY <1>1
  <2> QED BY <1>2, <2>1, <2>5, <2>6
<1>7. PrefixLog(g, L, b)
  BY <1>6 DEF PrefixLog, n
<1>8. Replay(L) = After(g, Len(g))
  <2>1. r \in 0..r
    BY <1>1
  <2> QED BY <1>1, <1>2, <2>1
<1> QED BY <1>1, <1>7, <1>8 DEF LogOf, g, n

\* What a cut of the log's bytes brings back.
LEMMA LogCut ==
  ASSUME NEW h \in Seq(DBs), NEW L \in Seq(Command), NEW b \in 0..Len(L), PrefixLog(h, L, b),
         NEW n \in 0..2 * Len(L), b <= n \div 2
  PROVE  /\ \E k \in 0..Len(h) : Replay(Entries(Upto(Bytes(L), n))) = After(h, k)
         /\ Complete(Upto(Bytes(L), n)) = n \div 2 /\ n \div 2 \in b..Len(L)
         /\ Entries(Upto(Bytes(L), n)) = Upto(L, n \div 2)
         /\ Loadable(Upto(Bytes(L), n)) <=> n = 2 * (n \div 2)
<1> DEFINE c == n \div 2
<1>1. c \in 0..Len(L) /\ (n = 2 * c \/ n = 2 * c + 1) /\ c \in b..Len(L) /\ c \in b..c /\ Len(L) \in Nat
  OBVIOUS
<1> HIDE DEF c
<1>2. /\ Complete(Upto(Bytes(L), n)) = c /\ Entries(Upto(Bytes(L), n)) = Upto(L, c)
      /\ Loadable(Upto(Bytes(L), n)) <=> n = 2 * c
  BY <1>1, CutLoads
<1>3. \E k \in 0..Len(h) : Replay(Upto(L, c)) = After(h, k)
  BY <1>1 DEF PrefixLog
<1> QED BY <1>1, <1>2, <1>3 DEF c

\* A whole number of commands.
LEMMA BytesUpto ==
  ASSUME NEW L \in Seq(Command), NEW c \in 0..Len(L)
  PROVE  Upto(Bytes(L), 2 * c) = Bytes(Upto(L, c))
<1> DEFINE A == Bytes(L)
           B == Upto(A, 2 * c)
           U == Upto(L, c)
           C == Bytes(U)
<1>1. Len(L) \in Nat /\ c \in Nat /\ 2 * c \in 0..2 * Len(L)
  OBVIOUS
<1>2. U \in Seq(Command) /\ Len(U) = c /\ \A i \in 1..c : U[i] = L[i]
  BY UptoProperties
<1>3. A \in Seq(Byte) /\ Len(A) = 2 * Len(L) /\ \A j \in 1..2 * Len(L) : A[j] = <<L[(j + 1) \div 2], j % 2>>
  BY BytesAt
<1> HIDE DEF U, A
<1>4. C \in Seq(Byte) /\ Len(C) = 2 * c /\ \A j \in 1..2 * c : C[j] = <<U[(j + 1) \div 2], j % 2>>
  BY <1>2, BytesAt
<1>5. B \in Seq(Byte) /\ Len(B) = 2 * c /\ \A j \in 1..2 * c : B[j] = A[j]
  BY <1>1, <1>3, UptoProperties
<1>6. ASSUME NEW j \in 1..2 * c PROVE B[j] = C[j]
  <2>1. (j + 1) \div 2 \in 1..c /\ j \in 1..2 * Len(L)
    BY <1>1
  <2> QED BY <1>2, <1>3, <1>4, <1>5, <2>1
<1> HIDE DEF B, C
<1>7. B = C
  BY <1>1, <1>4, <1>5, <1>6
<1> QED BY <1>7 DEF A, B, U, C

-----------------------------------------------------------------------------
(* The outcomes of a flush *)

FileType == [bytes : Seq(Byte), synced : Nat]

Flushable ==
  /\ aof_fd = "open" /\ file \in FileType /\ file.synced <= Len(file.bytes)
  /\ aof_buf \in Seq(Byte) /\ aof_current_size = Len(file.bytes) /\ faults \in Nat

\* No byte is lost, repeated or moved.
Preserved(r) ==
  /\ r.file \in FileType /\ r.buf \in Seq(Byte)
  /\ r.file.bytes \o r.buf = file.bytes \o aof_buf
  /\ r.size = Len(r.file.bytes)
  /\ file.synced <= r.file.synced /\ r.file.synced <= Len(r.file.bytes)
  /\ r.faults \in Nat

Fatal(r) == Fsync = "always" => r.exits

Kind(r, force) ==
  \/ r.file = file /\ r.buf = aof_buf /\ (aof_buf = <<>> \/ ~ force) /\ (aof_buf = <<>> \/ Fsync = "everysec")
  \/ faults < MaxFaults /\ Fatal(r)
  \/ r.buf = <<>> /\ (Fsync = "always" /\ ~ NoFsyncOnRewrite => r.file.synced = Len(r.file.bytes))

LEMMA AppendedBytes ==
  ASSUME Flushable, NEW n \in 0..Len(aof_buf)
  PROVE  /\ Appended(n) = [bytes |-> file.bytes \o Upto(aof_buf, n), synced |-> file.synced]
         /\ file.bytes \o Upto(aof_buf, n) \in Seq(Byte)
         /\ Len(file.bytes \o Upto(aof_buf, n)) = Len(file.bytes) + n
         /\ Upto(file.bytes \o Upto(aof_buf, n), Len(file.bytes)) = file.bytes
         /\ SubSeq(aof_buf, n + 1, Len(aof_buf)) \in Seq(Byte)
         /\ (file.bytes \o Upto(aof_buf, n)) \o SubSeq(aof_buf, n + 1, Len(aof_buf)) = file.bytes \o aof_buf
<1> DEFINE F == file.bytes
           U == Upto(aof_buf, n)
           V == SubSeq(aof_buf, n + 1, Len(aof_buf))
           B == aof_buf
<1>1. F \in Seq(Byte) /\ B \in Seq(Byte) /\ Len(F) \in Nat /\ Len(B) \in Nat /\ n \in 0..Len(B)
  BY DEF Flushable, FileType
<1>2. U \in Seq(Byte) /\ Len(U) = n /\ \A i \in 1..n : U[i] = B[i]
  BY <1>1, UptoProperties
<1>3. V \in Seq(Byte) /\ Len(V) = Len(B) - n /\ \A i \in 1..(Len(B) - n) : V[i] = B[i + n]
  BY <1>1
<1>4. Appended(n) = [bytes |-> F \o U, synced |-> file.synced]
  <2>1. file = [bytes |-> file.bytes, synced |-> file.synced]
    BY DEF Flushable, FileType
  <2>2. [file EXCEPT !.bytes = F \o U] = [bytes |-> F \o U, synced |-> file.synced]
    BY <2>1
  <2> QED BY <2>2 DEF Appended, Upto
<1> HIDE DEF F, U, V, B
<1>5. F \o U \in Seq(Byte) /\ Len(F \o U) = Len(F) + n /\ \A k \in 0..Len(F) : Upto(F \o U, k) = Upto(F, k)
  BY <1>1, <1>2, UptoConcat
<1>6. Upto(F, Len(F)) = F
  BY <1>1, UptoEnds
<1>7. U \o V = B
  <2>1. U \o V \in Seq(Byte) /\ Len(U \o V) = Len(B)
        /\ \A i \in 1..Len(B) : (U \o V)[i] = IF i <= n THEN U[i] ELSE V[i - n]
    BY <1>1, <1>2, <1>3, ConcatProperties
  <2> DEFINE W == U \o V
  <2>2. ASSUME NEW i \in 1..Len(B) PROVE W[i] = B[i]
    <3>1. CASE i <= n
      BY <1>1, <1>2, <2>1, <3>1
    <3>2. CASE ~ (i <= n)
      <4>1. i - n \in 1..(Len(B) - n) /\ (i - n) + n = i
        BY <1>1, <3>2
      <4> QED BY <1>3, <2>1, <3>2, <4>1
    <3> QED BY <3>1, <3>2
  <2>3. W \in Seq(Byte) /\ Len(W) = Len(B)
    BY <2>1
  <2> HIDE DEF W
  <2>4. W = B
    BY <1>1, <2>2, <2>3
  <2> QED BY <2>4 DEF W
<1>8. (F \o U) \o V = F \o (U \o V)
  BY <1>1, <1>2, <1>3
<1>9. Len(F) \in 0..Len(F)
  BY <1>1
<1> QED BY <1>3, <1>4, <1>5, <1>6, <1>7, <1>8, <1>9 DEF F, U, V, B

LEMMA Keeps ==
  ASSUME Flushable, NEW r, NEW f \in FileType, NEW b \in Seq(Byte), f.bytes \o b = file.bytes \o aof_buf,
         file.synced <= f.synced, f.synced <= Len(f.bytes),
         r.file = f, r.buf = b, r.size = Len(f.bytes), r.faults \in Nat
  PROVE  Preserved(r)
BY DEF Preserved

LEMMA FlushError ==
  ASSUME Flushable, NEW r, r \in WriteFails \cup ShortWrites
  PROVE  Preserved(r) /\ faults < MaxFaults /\ Fatal(r)
<1> DEFINE S == aof_current_size
           E == Fsync = "always"
           Made(f, s, b) == [file |-> f, buf |-> b, size |-> s, status |-> FALSE, postponed |-> FALSE,
                             jobs |-> jobs, faults |-> faults + 1, exits |-> E]
<1>1. aof_fd = "open" /\ file \in FileType /\ S = Len(file.bytes) /\ S \in Nat /\ file.synced <= S /\ file.synced \in Nat
      /\ aof_buf \in Seq(Byte) /\ Len(aof_buf) \in Nat /\ file.bytes \in Seq(Byte) /\ faults \in Nat
  BY DEF Flushable, FileType
<1>2. ASSUME NEW f, NEW s, NEW b, r = Made(f, s, b), f \in FileType, b \in Seq(Byte), s = Len(f.bytes),
             f.bytes \o b = file.bytes \o aof_buf, file.synced <= f.synced, f.synced <= Len(f.bytes)
      PROVE  Preserved(r) /\ Fatal(r)
  <2>1. r.file = f /\ r.buf = b /\ r.size = s /\ r.faults = faults + 1
    BY <1>2
  <2>2. r.exits = E
    BY <1>2
  <2>3. Fatal(r)
    BY <2>2 DEF Fatal
  <2>4. r.faults \in Nat /\ r.size = Len(f.bytes)
    BY <1>1, <1>2, <2>1
  <2> HIDE DEF Made
  <2> QED BY <1>2, <2>1, <2>3, <2>4, Keeps
<1>3. CASE r \in WriteFails
  <2>1. r = AfterError(Untouched) /\ faults < MaxFaults
    BY <1>1, <1>3 DEF WriteFails
  <2>2. r = Made(file, S, aof_buf)
    BY <2>1 DEF AfterError, Untouched
  <2>3. file.synced <= file.synced /\ file.synced <= Len(file.bytes)
    BY <1>1
  <2> HIDE DEF Made
  <2> QED BY <1>1, <1>2, <2>1, <2>2, <2>3
<1>4. CASE r \in ShortWrites
  <2> DEFINE A(n) == AfterError([Untouched EXCEPT
                   !.file.bytes = SubSeq(Appended(n).bytes, 1, aof_current_size),
                   !.file.synced = IF @ < aof_current_size THEN @ ELSE aof_current_size])
             B(n) == AfterError([Untouched EXCEPT
                   !.file = Appended(n),
                   !.size = @ + n,
                   !.buf = SubSeq(@, n + 1, Len(@))])
             N == 1..(Len(aof_buf) - 1)
  <2>7. ShortWrites = IF aof_fd # "open" \/ faults >= MaxFaults THEN {} ELSE UNION {{A(n), B(n)} : n \in N}
    BY DEF ShortWrites
  <2>1. faults < MaxFaults
    <3> HIDE DEF A, B, N
    <3>1. ~ (faults >= MaxFaults)
      BY <1>4, <2>7
    <3> QED BY <1>1, <3>1, AofAssumption
  <2>8. \E n \in N : r = A(n) \/ r = B(n)
    <3> HIDE DEF A, B, N
    <3> QED BY <1>4, <2>7
  <2>2. PICK n \in 1..(Len(aof_buf) - 1) :
          \/ r = AfterError([Untouched EXCEPT
                   !.file.bytes = SubSeq(Appended(n).bytes, 1, aof_current_size),
                   !.file.synced = IF @ < aof_current_size THEN @ ELSE aof_current_size])
          \/ r = AfterError([Untouched EXCEPT
                   !.file = Appended(n),
                   !.size = @ + n,
                   !.buf = SubSeq(@, n + 1, Len(@))])
    BY <2>8
  <2> DEFINE G == file.bytes \o Upto(aof_buf, n)
             V == SubSeq(aof_buf, n + 1, Len(aof_buf))
  <2>3. n \in 0..Len(aof_buf)
    BY <1>1
  <2>4. /\ Appended(n) = [bytes |-> G, synced |-> file.synced] /\ G \in Seq(Byte) /\ Len(G) = Len(file.bytes) + n
        /\ Upto(G, Len(file.bytes)) = file.bytes /\ V \in Seq(Byte) /\ G \o V = file.bytes \o aof_buf
    BY <2>3, AppendedBytes
  <2> HIDE DEF G, V
  <2>5. CASE r = AfterError([Untouched EXCEPT
                   !.file.bytes = SubSeq(Appended(n).bytes, 1, aof_current_size),
                   !.file.synced = IF @ < aof_current_size THEN @ ELSE aof_current_size])
    <3>1. SubSeq(Appended(n).bytes, 1, aof_current_size) = file.bytes
      BY <1>1, <2>4 DEF Upto
    <3>2. (IF file.synced < aof_current_size THEN file.synced ELSE aof_current_size) = file.synced
      BY <1>1
    <3> DEFINE X == SubSeq(Appended(n).bytes, 1, aof_current_size)
               Y == IF file.synced < aof_current_size THEN file.synced ELSE aof_current_size
               Z == [[file EXCEPT !.bytes = X] EXCEPT !.synced = Y]
    <3>3. r.file = Z /\ r.buf = aof_buf /\ r.size = S /\ r.faults = faults + 1 /\ r.exits = E
      <4> HIDE DEF X, Y
      <4> QED BY <2>5 DEF AfterError, Untouched, X, Y
    <3>4. Z = file
      <4>1. file = [bytes |-> file.bytes, synced |-> file.synced]
        BY <1>1 DEF FileType
      <4> HIDE DEF X, Y
      <4> QED BY <3>1, <3>2, <4>1 DEF X, Y
    <3>6. Fatal(r)
      BY <3>3 DEF Fatal
    <3>7. r.faults \in Nat
      BY <1>1, <3>3
    <3>5. file.synced <= file.synced /\ file.synced <= Len(file.bytes)
      BY <1>1
    <3> HIDE DEF Z
    <3> QED BY <1>1, <2>1, <3>3, <3>4, <3>5, <3>6, <3>7, Keeps
  <2>6. CASE r = AfterError([Untouched EXCEPT
                   !.file = Appended(n),
                   !.size = @ + n,
                   !.buf = SubSeq(@, n + 1, Len(@))])
    <3> DEFINE f == [bytes |-> G, synced |-> file.synced]
    <3>1. r = Made(f, S + n, V)
      BY <2>4, <2>6 DEF AfterError, Untouched, V
    <3>2. f \in FileType /\ f.bytes = G /\ f.synced = file.synced
      BY <1>1, <2>4 DEF FileType
    <3> HIDE DEF Made, f
    <3>3. S + n = Len(f.bytes) /\ file.synced <= f.synced /\ f.synced <= Len(f.bytes)
      BY <1>1, <2>3, <2>4, <3>2
    <3> QED BY <1>2, <2>1, <2>4, <3>1, <3>2, <3>3
  <2> QED BY <2>2, <2>5, <2>6
<1> QED BY <1>3, <1>4

LEMMA FlushSuccess ==
  ASSUME Flushable, NEW r, r \in WriteSucceeds
  PROVE  /\ Preserved(r) /\ r.buf = <<>>
         /\ Fsync = "always" /\ ~ NoFsyncOnRewrite => r.file.synced = Len(r.file.bytes)
<1> DEFINE N == Len(aof_buf)
           A == Appended(N)
           G == file.bytes \o Upto(aof_buf, N)
           w == [Untouched EXCEPT !.file = A, !.buf = <<>>, !.size = @ + N, !.status = TRUE, !.postponed = FALSE]
           x == [w EXCEPT !.file.synced = Len(w.file.bytes)]
           y == [w EXCEPT !.jobs = IF SyncInProgress THEN @ ELSE Append(@, TRUE)]
           f == [bytes |-> G, synced |-> file.synced]
           fs == [bytes |-> G, synced |-> Len(G)]
<1>1. /\ aof_fd = "open" /\ file \in FileType /\ aof_current_size = Len(file.bytes) /\ Len(file.bytes) \in Nat
      /\ file.synced <= Len(file.bytes) /\ file.synced \in Nat
      /\ aof_buf \in Seq(Byte) /\ N \in Nat /\ N \in 0..N /\ file.bytes \in Seq(Byte) /\ faults \in Nat
  BY DEF Flushable, FileType
<1>2. A = f /\ G \in Seq(Byte) /\ Len(G) = Len(file.bytes) + N /\ G = file.bytes \o aof_buf
  <2>1. Upto(aof_buf, N) = aof_buf
    BY <1>1, UptoEnds
  <2> QED BY <1>1, <2>1, AppendedBytes
<1>3. (r = w /\ (Fsync # "always" \/ NoFsyncOnRewrite)) \/ r = x \/ (r = y /\ Fsync # "always")
  BY <1>1, AofAssumption DEF WriteSucceeds
<1> HIDE DEF N, G, A
<1>4. w.file = A /\ w.buf = <<>> /\ w.size = aof_current_size + N /\ w.faults = faults
  BY DEF Untouched
<1>5. x.file = [A EXCEPT !.synced = Len(A.bytes)] /\ x.buf = <<>> /\ x.size = aof_current_size + N /\ x.faults = faults
  BY DEF Untouched
<1>6. y.file = A /\ y.buf = <<>> /\ y.size = aof_current_size + N /\ y.faults = faults
  BY DEF Untouched
<1> HIDE DEF w, x, y
<1>7. [A EXCEPT !.synced = Len(A.bytes)] = fs
  <2> DEFINE n == Len(G)
  <2>1. A = [bytes |-> G, synced |-> file.synced] /\ A.bytes = G
    BY <1>2
  <2>2. Len(A.bytes) = n
    BY <2>1
  <2> HIDE DEF n
  <2>3. [A EXCEPT !.synced = n] = [bytes |-> G, synced |-> n]
    BY <2>1
  <2> QED BY <2>2, <2>3 DEF n
<1>8. /\ f \in FileType /\ fs \in FileType /\ Len(G) \in Nat /\ G \o <<>> = G /\ <<>> \in Seq(Byte)
      /\ f.bytes = G /\ fs.bytes = G /\ f.synced = file.synced /\ fs.synced = Len(G)
      /\ file.synced <= Len(G)
  BY <1>1, <1>2 DEF FileType
<1> HIDE DEF f, fs
<1>9. ASSUME NEW h, h = f \/ h = fs, r.file = h, r.buf = <<>>, r.size = aof_current_size + N, r.faults = faults
      PROVE  Preserved(r)
  <2>1. h \in FileType /\ h.bytes = G /\ file.synced <= h.synced /\ h.synced <= Len(G)
    BY <1>1, <1>8, <1>9
  <2>2. r.size = Len(h.bytes) /\ h.bytes \o <<>> = file.bytes \o aof_buf
    BY <1>1, <1>2, <1>8, <1>9, <2>1
  <2> QED BY <1>1, <1>8, <1>9, <2>1, <2>2, Keeps
<1>10. CASE r = w /\ (Fsync # "always" \/ NoFsyncOnRewrite)
  BY <1>2, <1>4, <1>9, <1>10
<1>11. CASE r = x
  BY <1>5, <1>7, <1>8, <1>9, <1>11
<1>12. CASE r = y /\ Fsync # "always"
  BY <1>2, <1>6, <1>9, <1>12
<1> QED BY <1>3, <1>10, <1>11, <1>12

LEMMA FlushOutcomes ==
  ASSUME Flushable, NEW force \in BOOLEAN, NEW r \in flushAppendOnlyFile(force)
  PROVE  Preserved(r) /\ Kind(r, force)
<1> DEFINE later == [Untouched EXCEPT !.postponed = TRUE]
           written == WriteFails \cup ShortWrites \cup WriteSucceeds
<1>1. ASSUME r.file = file, r.buf = aof_buf, r.size = aof_current_size, r.faults = faults PROVE Preserved(r)
  BY <1>1 DEF Preserved, Flushable, FileType
<1>2. CASE aof_buf = <<>>
  <2>1. r = Untouched
    BY <1>2 DEF flushAppendOnlyFile
  <2>2. r.file = file /\ r.buf = aof_buf /\ r.size = aof_current_size /\ r.faults = faults
    BY <2>1 DEF Untouched
  <2> QED BY <1>1, <1>2, <2>2 DEF Kind
<1>3. CASE aof_buf # <<>> /\ r = later /\ SyncInProgress /\ ~ force
  <2>1. r.file = file /\ r.buf = aof_buf /\ r.size = aof_current_size /\ r.faults = faults
    BY <1>3 DEF Untouched
  <2> QED BY <1>1, <1>3, <2>1 DEF Kind, SyncInProgress
<1>4. CASE r \in WriteFails \cup ShortWrites
  BY <1>4, FlushError DEF Kind
<1>5. CASE r \in WriteSucceeds
  BY <1>5, FlushSuccess DEF Kind
<1>6. aof_buf = <<>> \/ (aof_buf # <<>> /\ r = later /\ SyncInProgress /\ ~ force) \/ r \in written
  <2> HIDE DEF later
  <2> QED BY DEF flushAppendOnlyFile, later
<1> QED BY <1>2, <1>3, <1>4, <1>5, <1>6

-----------------------------------------------------------------------------
(* The file, the buffer and the child against the history *)

\* The file and the buffer together are a log of the history.
Kept(f, buf, h, db) == \E L : f.bytes \o buf = Bytes(L) /\ LogOf(h, L, f.synced \div 2, db)

\* The file is the start of one.
OnDisk(f, h) ==
  \E L \in Seq(Command) :
    /\ Len(f.bytes) <= 2 * Len(L) /\ f.bytes = Upto(Bytes(L), Len(f.bytes))
    /\ PrefixLog(h, L, f.synced \div 2)

\* What a child that saw k writes dumps; with the difference it is a log of the history.
Base(h, k) == rewriteAppendOnlyFile(After(h, k))
ChildKept(k, diff, h, db) ==
  \E D \in Seq(Command) : diff = Bytes(D) /\ LogOf(h, Base(h, k) \o D, Len(Base(h, k)), db)

SoundFile(f) == f \in FileType /\ f.synced <= Len(f.bytes)

LEMMA SoundFiles ==
  ASSUME NEW f, SoundFile(f)
  PROVE  /\ f.bytes \in Seq(Byte) /\ Len(f.bytes) \in Nat /\ f.synced \in Nat /\ f.synced <= Len(f.bytes)
         /\ f.synced \div 2 \in Nat /\ f = [bytes |-> f.bytes, synced |-> f.synced]
<1>1. f.bytes \in Seq(Byte) /\ f.synced \in Nat /\ f = [bytes |-> f.bytes, synced |-> f.synced] /\ f.synced <= Len(f.bytes)
  BY DEF SoundFile, FileType
<1>2. Len(f.bytes) \in Nat /\ f.synced \div 2 \in Nat
  BY <1>1
<1> QED BY <1>1, <1>2

LEMMA KeptOnDisk ==
  ASSUME NEW f, SoundFile(f), NEW buf \in Seq(Byte), NEW h, NEW db, Kept(f, buf, h, db)
  PROVE  OnDisk(f, h)
<1>1. PICK L : f.bytes \o buf = Bytes(L) /\ LogOf(h, L, f.synced \div 2, db)
  BY DEF Kept
<1>2. L \in Seq(Command) /\ PrefixLog(h, L, f.synced \div 2)
  BY <1>1 DEF LogOf
<1> DEFINE F == f.bytes
<1>3. F \in Seq(Byte) /\ Len(F) \in Nat /\ Len(buf) \in Nat /\ Len(F) \in 0..Len(F)
  BY SoundFiles
<1> HIDE DEF F
<1>4. Len(F \o buf) = Len(F) + Len(buf) /\ Upto(F \o buf, Len(F)) = Upto(F, Len(F)) /\ Upto(F, Len(F)) = F
  BY <1>3, UptoConcat, UptoEnds
<1>5. Len(Bytes(L)) = 2 * Len(L) /\ Len(L) \in Nat
  BY <1>2, BytesAt
<1>6. Len(F) <= 2 * Len(L) /\ F = Upto(Bytes(L), Len(F))
  BY <1>1, <1>3, <1>4, <1>5 DEF F
<1> QED BY <1>2, <1>6 DEF OnDisk, F

LEMMA KeptFlushed ==
  ASSUME NEW f, SoundFile(f), NEW buf \in Seq(Byte), NEW h \in Seq(DBs), NEW db, Kept(f, buf, h, db),
         NEW g, SoundFile(g), NEW c \in Seq(Byte), g.bytes \o c = f.bytes \o buf, f.synced <= g.synced
  PROVE  Kept(g, c, h, db) /\ Kept(g, c, h, -1)
<1>1. PICK L : f.bytes \o buf = Bytes(L) /\ LogOf(h, L, f.synced \div 2, db)
  BY DEF Kept
<1> DEFINE b == f.synced \div 2
           e == g.synced \div 2
           G == g.bytes
<1>2. L \in Seq(Command) /\ Len(L) \in Nat /\ Len(Bytes(L)) = 2 * Len(L) /\ b \in 0..Len(L)
  <2>1. L \in Seq(Command) /\ b \in 0..Len(L)
    BY <1>1 DEF LogOf
  <2> QED BY <2>1, BytesAt
<1>3. G \in Seq(Byte) /\ Len(G) \in Nat /\ Len(c) \in Nat /\ g.synced \in Nat /\ f.synced \in Nat /\ g.synced <= Len(G)
  BY SoundFiles
<1>4. Len(G \o c) = Len(G) + Len(c)
  BY <1>3, UptoConcat
<1>5. Len(G) + Len(c) = 2 * Len(L)
  BY <1>1, <1>2, <1>4
<1>6. e \in b..Len(L)
  <2> DEFINE x == f.synced
             y == g.synced
             z == Len(L)
  <2>1. x \in Nat /\ y \in Nat /\ z \in Nat /\ x <= y /\ y <= 2 * z
    BY <1>2, <1>3, <1>5
  <2> HIDE DEF x, y, z
  <2>2. y \div 2 \in (x \div 2)..z
    BY <2>1
  <2> QED BY <2>2 DEF x, y, z
<1> HIDE DEF e, b
<1>7. LogOf(h, L, e, db) /\ LogOf(h, L, e, -1)
  <2>1. LogOf(h, L, b, db)
    BY <1>1 DEF b
  <2> QED BY <1>6, <2>1, LogWeakens
<1> QED BY <1>1, <1>7 DEF Kept, e

LEMMA KeptFed ==
  ASSUME NEW f, SoundFile(f), NEW buf \in Seq(Byte), NEW h \in Seq(DBs), NEW db \in DBs \cup {-1}, NEW d \in DBs,
         Kept(f, buf, h, db)
  PROVE  /\ Kept(f, buf \o Bytes(Fresh(Len(h) + 1, d, db)), Append(h, d), d)
         /\ buf \o Bytes(Fresh(Len(h) + 1, d, db)) \in Seq(Byte)
<1>1. PICK L : f.bytes \o buf = Bytes(L) /\ LogOf(h, L, f.synced \div 2, db)
  BY DEF Kept
<1> DEFINE D == Fresh(Len(h) + 1, d, db)
           F == f.bytes
           X == Bytes(D)
<1>2. LogOf(Append(h, d), L \o D, f.synced \div 2, d) /\ D \in Seq(Command)
  BY <1>1, LogFed
<1> HIDE DEF D
<1>3. X \in Seq(Byte) /\ Bytes(L \o D) = Bytes(L) \o X
  <2>1. L \in Seq(Command)
    BY <1>1 DEF LogOf
  <2> QED BY <1>2, <2>1, BytesAt, BytesConcat
<1>4. F \in Seq(Byte)
  BY SoundFiles
<1> HIDE DEF F, X
<1>5. (F \o buf) \o X = F \o (buf \o X) /\ buf \o X \in Seq(Byte)
  BY <1>3, <1>4
<1>6. F \o (buf \o X) = Bytes(L \o D)
  BY <1>1, <1>3, <1>5 DEF F
<1>7. Kept(f, buf \o X, Append(h, d), d)
  BY <1>2, <1>6 DEF Kept, F
<1> QED BY <1>5, <1>7 DEF X, D

LEMMA KeptLoads ==
  ASSUME NEW f, SoundFile(f), NEW buf \in Seq(Byte), NEW h \in Seq(DBs), NEW db, Kept(f, buf, h, db)
  PROVE  Loadable(f.bytes \o buf) /\ Replay(Entries(f.bytes \o buf)) = After(h, Len(h))
<1>1. PICK L : f.bytes \o buf = Bytes(L) /\ LogOf(h, L, f.synced \div 2, db)
  BY DEF Kept
<1> DEFINE b == f.synced \div 2
           n == 2 * Len(L)
<1>2. L \in Seq(Command) /\ Len(L) \in Nat /\ b \in 0..Len(L) /\ PrefixLog(h, L, b) /\ Replay(L) = After(h, Len(h))
  BY <1>1 DEF LogOf
<1>3. n \in 0..2 * Len(L) /\ n \div 2 = Len(L) /\ b <= n \div 2 /\ n = 2 * (n \div 2)
  BY <1>2
<1> HIDE DEF b, n
<1>4. Entries(Upto(Bytes(L), n)) = Upto(L, n \div 2) /\ Loadable(Upto(Bytes(L), n))
  BY <1>2, <1>3, LogCut
<1>5. Bytes(L) \in Seq(Byte) /\ Len(Bytes(L)) = n
  BY <1>2, BytesAt DEF n
<1>6. Upto(Bytes(L), n) = Bytes(L) /\ Upto(L, n \div 2) = L
  BY <1>2, <1>3, <1>5, UptoEnds
<1> QED BY <1>1, <1>2, <1>4, <1>6

LEMMA OnDiskGrows ==
  ASSUME NEW f, NEW h \in Seq(DBs), NEW d \in DBs, OnDisk(f, h)
  PROVE  OnDisk(f, Append(h, d))
<1>1. PICK L \in Seq(Command) :
        /\ Len(f.bytes) <= 2 * Len(L) /\ f.bytes = Upto(Bytes(L), Len(f.bytes))
        /\ PrefixLog(h, L, f.synced \div 2)
  BY DEF OnDisk
<1> DEFINE b == f.synced \div 2
           g == Append(h, d)
<1>2. Len(g) = Len(h) + 1 /\ Len(h) \in Nat /\ \A k \in 0..Len(h) : After(g, k) = After(h, k)
  BY AfterAppend
<1> HIDE DEF g, b
<1>3. ASSUME NEW m \in b..Len(L), NEW j \in b..m
      PROVE  \E k \in 0..Len(g) : \E i \in 0..k : Replay(Upto(L, m)) = After(g, k) /\ Replay(Upto(L, j)) = After(g, i)
  <2>1. PICK k \in 0..Len(h) : \E i \in 0..k : Replay(Upto(L, m)) = After(h, k) /\ Replay(Upto(L, j)) = After(h, i)
    BY <1>1 DEF PrefixLog, b
  <2>2. PICK i \in 0..k : Replay(Upto(L, m)) = After(h, k) /\ Replay(Upto(L, j)) = After(h, i)
    BY <2>1
  <2>3. k \in 0..Len(g) /\ i \in 0..Len(h)
    BY <1>2
  <2> QED BY <1>2, <2>2, <2>3
<1>4. PrefixLog(g, L, b)
  BY <1>3 DEF PrefixLog
<1> QED BY <1>1, <1>4 DEF OnDisk, b, g

LEMMA OnDiskCut ==
  ASSUME NEW f, SoundFile(f), NEW h \in Seq(DBs), OnDisk(f, h), NEW n \in 0..Len(f.bytes), f.synced \div 2 <= n \div 2
  PROVE  /\ OnDisk([bytes |-> SubSeq(f.bytes, 1, n), synced |-> n], h)
         /\ SoundFile([bytes |-> SubSeq(f.bytes, 1, n), synced |-> n])
         /\ \E k \in 0..Len(h) : Replay(Entries(SubSeq(f.bytes, 1, n))) = After(h, k)
         /\ n = Len(f.bytes) => Complete(f.bytes) = n \div 2 /\ (Loadable(f.bytes) <=> n = 2 * (n \div 2))
<1>1. PICK L \in Seq(Command) :
        /\ Len(f.bytes) <= 2 * Len(L) /\ f.bytes = Upto(Bytes(L), Len(f.bytes))
        /\ PrefixLog(h, L, f.synced \div 2)
  BY DEF OnDisk
<1> DEFINE b == f.synced \div 2
           e == n \div 2
           F == f.bytes
           C == Upto(F, n)
           B == Bytes(L)
           g == [bytes |-> C, synced |-> n]
<1>2. F \in Seq(Byte) /\ Len(F) \in Nat /\ b \in Nat /\ n \in 0..Len(F) /\ B \in Seq(Byte) /\ Len(B) = 2 * Len(L) /\ Len(L) \in Nat
  BY SoundFiles, BytesAt
<1>3. b <= e /\ Len(F) <= 2 * Len(L) /\ F = Upto(B, Len(F)) /\ PrefixLog(h, L, b)
  BY <1>1
<1>4. n \in Nat /\ e \in b..Len(L) /\ b \in 0..Len(L) /\ n \in 0..2 * Len(L) /\ n <= 2 * Len(L)
  BY <1>2, <1>3
<1> HIDE DEF b, e, F, B
<1>5. C \in Seq(Byte) /\ Len(C) = n /\ C = Upto(B, n)
  <2>1. Len(F) \in 0..Len(B)
    BY <1>2, <1>3
  <2>2. \A m \in 0..Len(F) : Upto(Upto(B, Len(F)), m) = Upto(B, m)
    BY <1>2, <2>1, UptoProperties
  <2>3. C = Upto(B, n)
    BY <1>2, <1>3, <2>2
  <2> QED BY <1>2, <2>3, UptoProperties
<1>6. PrefixLog(h, L, e)
  <2>1. \A m \in e..Len(L) : m \in b..Len(L) /\ \A j \in e..m : j \in b..m
    BY <1>2, <1>4
  <2> QED BY <1>3, <2>1 DEF PrefixLog
<1> HIDE DEF C
<1>7. g.bytes = C /\ g.synced = n
  OBVIOUS
<1>8. SoundFile(g)
  BY <1>4, <1>5 DEF SoundFile, FileType
<1> HIDE DEF g
<1>9. OnDisk(g, h)
  BY <1>4, <1>5, <1>6, <1>7 DEF OnDisk, e, B
<1>10. /\ \E k \in 0..Len(h) : Replay(Entries(C)) = After(h, k)
       /\ Complete(C) = e /\ (Loadable(C) <=> n = 2 * e)
  BY <1>3, <1>4, <1>5, LogCut DEF b, e, B
<1>11. n = Len(F) => C = F
  BY <1>2, UptoEnds DEF C
<1> QED BY <1>8, <1>9, <1>10, <1>11 DEF g, C, F, Upto, e

LEMMA OnDiskSynced ==
  ASSUME NEW f, SoundFile(f), NEW h \in Seq(DBs), OnDisk(f, h)
  PROVE  OnDisk([f EXCEPT !.synced = Len(f.bytes)], h) /\ SoundFile([f EXCEPT !.synced = Len(f.bytes)])
<1> DEFINE n == Len(f.bytes)
<1>1. f = [bytes |-> f.bytes, synced |-> f.synced] /\ n \in 0..n /\ f.synced \in Nat /\ f.synced <= n /\ f.bytes \in Seq(Byte) /\ n \in Nat
  BY SoundFiles
<1>2. f.synced \div 2 <= n \div 2
  BY <1>1
<1>3. SubSeq(f.bytes, 1, n) = f.bytes
  BY <1>1, UptoEnds DEF Upto
<1>4. OnDisk([bytes |-> f.bytes, synced |-> n], h) /\ SoundFile([bytes |-> f.bytes, synced |-> n])
  BY <1>1, <1>2, <1>3, OnDiskCut
<1> HIDE DEF n
<1>5. [f EXCEPT !.synced = n] = [bytes |-> f.bytes, synced |-> n]
  BY <1>1
<1> QED BY <1>4, <1>5 DEF n

LEMMA OnDiskLoads ==
  ASSUME NEW f, SoundFile(f), NEW h \in Seq(DBs), OnDisk(f, h), Loadable(f.bytes),
         NEW r \in 0..Len(h), Replay(Entries(f.bytes)) = After(h, r)
  PROVE  Kept(f, <<>>, Upto(h, r), -1)
<1>1. PICK L \in Seq(Command) :
        /\ Len(f.bytes) <= 2 * Len(L) /\ f.bytes = Upto(Bytes(L), Len(f.bytes))
        /\ PrefixLog(h, L, f.synced \div 2)
  BY DEF OnDisk
<1> DEFINE b == f.synced \div 2
           n == Len(f.bytes)
           e == n \div 2
           M == Upto(L, e)
           F == f.bytes
<1>2. F \in Seq(Byte) /\ n \in Nat /\ b \in Nat /\ f.synced \in Nat /\ f.synced <= n /\ Len(L) \in Nat
  BY SoundFiles
<1>3. n <= 2 * Len(L) /\ F = Upto(Bytes(L), n) /\ PrefixLog(h, L, b)
  BY <1>1
<1>4. b <= e /\ e \in 0..Len(L) /\ b \in 0..Len(L) /\ n \in 0..2 * Len(L) /\ b <= n \div 2
  <2> DEFINE x == f.synced
             z == Len(L)
  <2>1. x \in Nat /\ n \in Nat /\ x <= n /\ z \in Nat /\ n <= 2 * z
    BY <1>2, <1>3
  <2> HIDE DEF x, z, n
  <2>2. x \div 2 <= n \div 2 /\ n \div 2 \in 0..z /\ x \div 2 \in 0..z /\ n \in 0..2 * z
    BY <2>1
  <2> QED BY <2>2 DEF x, z, n
<1> HIDE DEF F
<1>5. Entries(F) = M /\ n = 2 * e
  <2> HIDE DEF b, n
  <2>1. Entries(Upto(Bytes(L), n)) = Upto(L, n \div 2) /\ (Loadable(Upto(Bytes(L), n)) <=> n = 2 * (n \div 2))
    BY <1>3, <1>4, LogCut
  <2> QED BY <1>3, <2>1 DEF F
<1>6. F = Bytes(M)
  <2> HIDE DEF n, e
  <2> QED BY <1>3, <1>4, <1>5, BytesUpto
<1> HIDE DEF b, n, e, M
<1>7. M \in Seq(Command) /\ Len(M) = e /\ \A m \in 0..e : Upto(M, m) = Upto(L, m)
  BY <1>4, UptoProperties DEF M
<1>8. PrefixLog(h, M, b)
  <2>1. Len(L) \in Nat /\ e \in 0..Len(L) /\ b \in Nat
    BY <1>2, <1>4
  <2>2. ASSUME NEW m \in b..Len(M), NEW j \in b..m
        PROVE  \E k \in 0..Len(h) : \E i \in 0..k : Replay(Upto(M, m)) = After(h, k) /\ Replay(Upto(M, j)) = After(h, i)
    <3>1. m \in b..Len(L) /\ m \in 0..e /\ j \in 0..e
      BY <1>7, <2>1
    <3>2. \E k \in 0..Len(h) : \E i \in 0..k : Replay(Upto(L, m)) = After(h, k) /\ Replay(Upto(L, j)) = After(h, i)
      BY <1>3, <3>1 DEF PrefixLog
    <3> QED BY <1>7, <3>1, <3>2
  <2> QED BY <2>2 DEF PrefixLog
<1>9. b \in 0..Len(M)
  BY <1>2, <1>4, <1>7
<1>10. Replay(M) = After(h, r)
  BY <1>5 DEF F
<1>11. LogOf(Upto(h, r), M, b, -1)
  BY <1>7, <1>8, <1>9, <1>10, LogLoads
<1>12. F \o <<>> = F
  BY <1>2 DEF F
<1> QED BY <1>6, <1>11, <1>12 DEF Kept, F, b

LEMMA ChildStarts ==
  ASSUME NEW h \in Seq(DBs)
  PROVE  ChildKept(Len(h), <<>>, h, -1) /\ Len(h) \in 0..Len(h)
<1> DEFINE B == Base(h, Len(h))
           D == <<>>
<1>1. Len(h) \in 0..Len(h)
  OBVIOUS
<1>2. LogOf(h, B, Len(B), -1)
  BY <1>1, LogDumps DEF Base
<1>3. B \in Seq(Command)
  BY <1>2 DEF LogOf
<1> HIDE DEF B
<1>4. D \in Seq(Command) /\ Len(D) = 0 /\ B \o D = B
  BY <1>3
<1> HIDE DEF D
<1>5. Bytes(D) = <<>>
  <2>1. Bytes(D) \in Seq(Byte) /\ Len(Bytes(D)) = 2 * Len(D)
    BY <1>4, BytesAt
  <2>2. Len(Bytes(D)) = 0
    BY <1>4, <2>1
  <2> QED BY <2>1, <2>2
<1>6. LogOf(h, B \o D, Len(B), -1)
  BY <1>2, <1>4
<1> QED BY <1>1, <1>4, <1>5, <1>6 DEF ChildKept, B

LEMMA ChildFed ==
  ASSUME NEW h \in Seq(DBs), NEW k \in 0..Len(h), NEW diff \in Seq(Byte), NEW db \in DBs \cup {-1}, NEW d \in DBs,
         ChildKept(k, diff, h, db)
  PROVE  /\ ChildKept(k, diff \o Bytes(Fresh(Len(h) + 1, d, db)), Append(h, d), d)
         /\ diff \o Bytes(Fresh(Len(h) + 1, d, db)) \in Seq(Byte)
<1> DEFINE B == Base(h, k)
           N == Fresh(Len(h) + 1, d, db)
<1>1. PICK D \in Seq(Command) : diff = Bytes(D) /\ LogOf(h, B \o D, Len(B), db)
  BY DEF ChildKept
<1>2. Base(Append(h, d), k) = B /\ B \in Seq(Command)
  BY AfterAppend, LogDumps DEF Base
<1> HIDE DEF B
<1>3. LogOf(Append(h, d), (B \o D) \o N, Len(B), d) /\ N \in Seq(Command)
  BY <1>1, LogFed
<1> HIDE DEF N
<1>4. (B \o D) \o N = B \o (D \o N) /\ D \o N \in Seq(Command)
  BY <1>1, <1>2, <1>3
<1>5. Bytes(D \o N) = Bytes(D) \o Bytes(N) /\ Bytes(D \o N) \in Seq(Byte)
  BY <1>1, <1>3, <1>4, BytesConcat, BytesAt
<1>6. ChildKept(k, diff \o Bytes(N), Append(h, d), d)
  <2>1. diff \o Bytes(N) = Bytes(D \o N) /\ LogOf(Append(h, d), B \o (D \o N), Len(B), d)
    BY <1>1, <1>3, <1>4, <1>5
  <2> QED BY <1>2, <1>4, <2>1 DEF ChildKept
<1> QED BY <1>1, <1>5, <1>6 DEF N

\* The rename of a child's file, with as much of it durable as the filesystem promises.
LEMMA ChildRenamed ==
  ASSUME NEW h \in Seq(DBs), NEW k \in 0..Len(h), NEW diff \in Seq(Byte), NEW db, NEW s,
         s = Len(Bytes(Base(h, k)) \o diff) \/ s = Len(Bytes(Base(h, k)))
  PROVE  /\ SoundFile([bytes |-> Bytes(Base(h, k)) \o diff, synced |-> s])
         /\ ChildKept(k, diff, h, db) => /\ Kept([bytes |-> Bytes(Base(h, k)) \o diff, synced |-> s], <<>>, h, db)
                                         /\ OnDisk([bytes |-> Bytes(Base(h, k)) \o diff, synced |-> s], h)
         /\ diff = <<>> => OnDisk([bytes |-> Bytes(Base(h, k)) \o diff, synced |-> s], h)
<1> DEFINE B == Base(h, k)
           A == Bytes(B)
           X == A \o diff
           g == [bytes |-> X, synced |-> s]
<1>1. B \in Seq(Command) /\ PrefixLog(h, B, Len(B))
  BY LogDumps DEF Base
<1>2. A \in Seq(Byte) /\ Len(A) = 2 * Len(B) /\ Len(B) \in Nat
  BY <1>1, BytesAt
<1> HIDE DEF B
<1> HIDE DEF A
<1>3. X \in Seq(Byte) /\ Len(X) = Len(A) + Len(diff) /\ Len(diff) \in Nat /\ Upto(X, Len(A)) = A /\ Len(X) \in Nat
  <2>1. Len(A) \in 0..Len(A) /\ Upto(A, Len(A)) = A
    BY <1>2, UptoEnds
  <2>2. X \in Seq(Byte) /\ Len(X) = Len(A) + Len(diff) /\ \A n \in 0..Len(A) : Upto(X, n) = Upto(A, n)
    BY <1>2, UptoConcat
  <2> HIDE DEF X
  <2>3. Len(diff) \in Nat /\ Len(X) \in Nat
    BY <2>2
  <2> QED BY <2>1, <2>2, <2>3
<1>4. s = Len(X) \/ s = Len(A)
  BY DEF A, B
<1>5. s \in Nat /\ s <= Len(X) /\ Len(A) <= s
  BY <1>2, <1>3, <1>4
<1> HIDE DEF X
<1>6. SoundFile(g) /\ g.bytes = X /\ g.synced = s
  BY <1>3, <1>5 DEF SoundFile, FileType
<1> HIDE DEF g
<1>7. ASSUME ChildKept(k, diff, h, db) PROVE Kept(g, <<>>, h, db) /\ OnDisk(g, h)
  <2>1. PICK D \in Seq(Command) : diff = Bytes(D) /\ LogOf(h, B \o D, Len(B), db)
    BY <1>7 DEF ChildKept, B
  <2>2. X = Bytes(B \o D)
    BY <1>1, <2>1, BytesConcat DEF X, A
  <2> DEFINE L == B \o D
  <2>9. L \in Seq(Command)
    BY <1>1
  <2> HIDE DEF L
  <2>3. L \in Seq(Command) /\ Len(Bytes(L)) = 2 * Len(L) /\ Len(L) \in Nat
    BY <2>9, BytesAt
  <2>4. s \div 2 \in Len(B)..Len(L)
    <3> DEFINE x == Len(B)
               y == Len(L)
    <3>1. x \in Nat /\ y \in Nat /\ s \in Nat /\ 2 * x <= s /\ s <= 2 * y
      BY <1>2, <1>5, <2>2, <2>3 DEF L
    <3> HIDE DEF x, y
    <3>2. s \div 2 \in x..y
      BY <3>1
    <3> QED BY <3>2 DEF x, y
  <2> DEFINE c == s \div 2
  <2> HIDE DEF c
  <2>5. LogOf(h, L, Len(B), db)
    BY <2>1 DEF L
  <2>6. LogOf(h, L, c, db)
    BY <2>4, <2>5, LogWeakens DEF c
  <2>7. X \o <<>> = X /\ <<>> \in Seq(Byte)
    BY <1>3
  <2>8. Kept(g, <<>>, h, db)
    BY <1>6, <2>2, <2>6, <2>7 DEF Kept, c, L
  <2> QED BY <1>6, <2>7, <2>8, KeptOnDisk
<1>8. ASSUME diff = <<>> PROVE OnDisk(g, h)
  <2>1. X = A /\ Upto(A, Len(A)) = A
    BY <1>2, <1>8, UptoEnds DEF X
  <2>2. s = 2 * Len(B)
    BY <1>2, <1>4, <2>1
  <2>3. s \div 2 = Len(B)
    BY <1>2, <2>2
  <2>4. Len(A) <= 2 * Len(B)
    BY <1>2
  <2> QED BY <1>1, <1>6, <2>1, <2>3, <2>4 DEF OnDisk, A
<1> QED BY <1>6, <1>7, <1>8 DEF g, X, A, B

-----------------------------------------------------------------------------
(* The invariant *)

\* stopAppendOnly() leaves nothing in aof_buf: it is not issued, or its flush
\* cannot fail and go on.
CleanStop == ~ Reconfigures \/ Fsync = "always" \/ MaxFaults = 0

ChildType == [pid : {"none", "running", "ok", "err"}, from : Nat]

Typed ==
  /\ hist \in Seq(DBs) /\ faults \in Nat /\ crashes \in Nat
  /\ aof_state \in {"off", "on", "wait"} /\ aof_selected_db \in DBs \cup {-1}
  /\ child \in ChildType /\ rewrite_buf \in Seq(Byte)

Down ==
  /\ ~ CleanStop => proc = "up"
  /\ proc # "up" => /\ aof_state = "off" /\ child.pid = "none" /\ aof_buf = <<>>
                    /\ aof_selected_db = -1 /\ phase = "before"

FileSound == CleanStop \/ aof_state = "on" \/ phase = "renamed" => SoundFile(file)

\* Only an AOF that is on has bytes to flush.
BufferSound ==
  /\ CleanStop \/ aof_state = "on" => aof_buf \in Seq(Byte)
  /\ CleanStop /\ aof_state # "on" => aof_buf = <<>>

DescriptorSound ==
  /\ aof_state # "off" => aof_fd = "open"
  /\ aof_state = "on" /\ phase # "renamed" => aof_current_size = Len(file.bytes)

ChildSound ==
  /\ child.pid = "none" => rewrite_buf = <<>>
  /\ child.pid # "none" => child.from \in 0..Len(hist)
  /\ child.pid # "none" /\ aof_state = "off" => rewrite_buf = <<>>
  /\ child.pid # "none" /\ aof_state # "off" => ChildKept(child.from, rewrite_buf, hist, aof_selected_db)

LogSound ==
  /\ aof_state = "on" /\ phase # "renamed" => Kept(file, aof_buf, hist, aof_selected_db)
  /\ aof_state # "off" /\ phase = "renamed" => Kept(file, <<>>, hist, aof_selected_db)
  /\ CleanStop => OnDisk(file, hist)

\* The inductive invariant.
AofInv ==
  Typed /\ Down /\ FileSound /\ BufferSound /\ DescriptorSound /\ ChildSound /\ LogSound

LEMMA Nothing == <<>> \in Seq(Byte)
OBVIOUS

LEMMA Frame ==
  ASSUME AofInv, proc = "up", proc' = proc, hist' = hist, aof_state' = aof_state, aof_fd' = aof_fd,
         aof_selected_db' = aof_selected_db, file' = file, aof_buf' = aof_buf,
         aof_current_size' = aof_current_size, rewrite_buf' = rewrite_buf,
         faults' \in Nat, crashes' \in Nat, child' \in ChildType, child'.from = child.from,
         child'.pid = "none" <=> child.pid = "none",
         phase = "renamed" <=> phase' = "renamed"
  PROVE  AofInv'
BY DEF AofInv, Typed, Down, FileSound, BufferSound, DescriptorSound, ChildSound, LogSound

\* A flush that goes on changes the file and the buffer, nothing else.
LEMMA FlushExits ==
  ASSUME NEW force \in BOOLEAN, NEW r \in flushAppendOnlyFile(force), faults \in Nat
  PROVE  /\ r.exits => Fsync = "always"
         /\ r.faults \in Nat
         /\ aof_buf = <<>> => r = Untouched
<1> DEFINE later == [Untouched EXCEPT !.postponed = TRUE]
<1>1. CASE aof_buf = <<>>
  <2>1. r = Untouched
    BY <1>1 DEF flushAppendOnlyFile
  <2>2. r.exits = FALSE /\ r.faults = faults
    BY <2>1 DEF Untouched
  <2> QED BY <2>1, <2>2
<1>2. CASE aof_buf # <<>>
  <2>1. r = later \/ r \in WriteFails \/ r \in ShortWrites \/ r \in WriteSucceeds
    <3> HIDE DEF later
    <3> QED BY <1>2 DEF flushAppendOnlyFile, later
  <2>2. CASE r = later
    <3>1. r.exits = FALSE /\ r.faults = faults
      BY <2>2 DEF Untouched
    <3> QED BY <1>2, <3>1
  <2>3. CASE r \in WriteFails
    <3>1. r = AfterError(Untouched) \/ r = [AfterError(Untouched) EXCEPT !.faults = faults]
      BY <2>3 DEF WriteFails
    <3>2. r.exits = (Fsync = "always") /\ (r.faults = faults \/ r.faults = faults + 1)
      BY <3>1 DEF AfterError, Untouched
    <3>8. r.exits => Fsync = "always"
      BY <3>2
    <3>9. r.faults \in Nat
      BY <3>2
    <3> QED BY <1>2, <3>8, <3>9
  <2>4. CASE r \in ShortWrites
    <3> DEFINE A(n) == AfterError([Untouched EXCEPT
                     !.file.bytes = SubSeq(Appended(n).bytes, 1, aof_current_size),
                     !.file.synced = IF @ < aof_current_size THEN @ ELSE aof_current_size])
               B(n) == AfterError([Untouched EXCEPT
                     !.file = Appended(n),
                     !.size = @ + n,
                     !.buf = SubSeq(@, n + 1, Len(@))])
               N == 1..(Len(aof_buf) - 1)
    <3>1. ShortWrites = IF aof_fd # "open" \/ faults >= MaxFaults THEN {} ELSE UNION {{A(n), B(n)} : n \in N}
      BY DEF ShortWrites
    <3>2. \A n : /\ A(n).exits = (Fsync = "always") /\ A(n).faults = faults + 1
                 /\ B(n).exits = (Fsync = "always") /\ B(n).faults = faults + 1
      BY DEF AfterError, Untouched
    <3> HIDE DEF A, B, N
    <3>3. \E n \in N : r = A(n) \/ r = B(n)
      BY <2>4, <3>1
    <3>4. r.exits = (Fsync = "always") /\ r.faults = faults + 1
      BY <3>2, <3>3
    <3>8. r.exits => Fsync = "always"
      BY <3>4
    <3>9. r.faults \in Nat
      BY <3>4
    <3> QED BY <1>2, <3>8, <3>9
  <2>5. CASE r \in WriteSucceeds
    <3> DEFINE w == [Untouched EXCEPT !.file = Appended(Len(aof_buf)), !.buf = <<>>, !.size = @ + Len(aof_buf),
                                      !.status = TRUE, !.postponed = FALSE]
    <3>1. \/ r = w \/ r = [w EXCEPT !.file.synced = Len(w.file.bytes)]
          \/ r = [w EXCEPT !.jobs = IF SyncInProgress THEN @ ELSE Append(@, TRUE)]
      BY <2>5 DEF WriteSucceeds
    <3>2. r.exits = FALSE /\ r.faults = faults
      BY <3>1 DEF Untouched
    <3> QED BY <1>2, <3>2
  <2> QED BY <2>1, <2>2, <2>3, <2>4, <2>5
<1> QED BY <1>1, <1>2

\* Every outcome is a record of the same fields.
Shaped(r) == r = [x \in {"file", "buf", "size", "status", "postponed", "jobs", "faults", "exits"} |-> r[x]]

LEMMA ShapedOutcomes ==
  /\ Shaped(Untouched)
  /\ \A r : Shaped(r) => Shaped(AfterError(r))
  /\ \A r, v : Shaped(r) => /\ Shaped([r EXCEPT !.file = v]) /\ Shaped([r EXCEPT !.buf = v]) /\ Shaped([r EXCEPT !.size = v])
                            /\ Shaped([r EXCEPT !.postponed = v]) /\ Shaped([r EXCEPT !.faults = v]) /\ Shaped([r EXCEPT !.jobs = v])
  /\ \A r, v : Shaped(r) => Shaped([r EXCEPT !.file.synced = v]) /\ [r EXCEPT !.file.synced = v].file = [r.file EXCEPT !.synced = v]
                            /\ [r EXCEPT !.file.synced = v].buf = r.buf /\ [r EXCEPT !.file.synced = v].faults = r.faults
<1>1. Shaped(Untouched)
  BY DEF Shaped, Untouched
<1>2. ASSUME NEW r, Shaped(r) PROVE Shaped(AfterError(r))
  BY <1>2 DEF Shaped, AfterError
<1>3. ASSUME NEW r, NEW v, Shaped(r)
      PROVE  /\ Shaped([r EXCEPT !.file = v]) /\ Shaped([r EXCEPT !.buf = v]) /\ Shaped([r EXCEPT !.size = v])
             /\ Shaped([r EXCEPT !.postponed = v]) /\ Shaped([r EXCEPT !.faults = v]) /\ Shaped([r EXCEPT !.jobs = v])
  BY <1>3 DEF Shaped
<1>4. ASSUME NEW r, NEW v, Shaped(r)
      PROVE  Shaped([r EXCEPT !.file.synced = v]) /\ [r EXCEPT !.file.synced = v].file = [r.file EXCEPT !.synced = v]
             /\ [r EXCEPT !.file.synced = v].buf = r.buf /\ [r EXCEPT !.file.synced = v].faults = r.faults
  BY <1>4 DEF Shaped
<1> QED BY <1>1, <1>2, <1>3, <1>4

LEMMA FlushRecord ==
  ASSUME NEW force \in BOOLEAN, NEW r \in flushAppendOnlyFile(force)
  PROVE  /\ [r EXCEPT !.file.synced = Len(r.file.bytes)].file = [r.file EXCEPT !.synced = Len(r.file.bytes)]
         /\ [r EXCEPT !.file.synced = Len(r.file.bytes)].buf = r.buf
         /\ [r EXCEPT !.file.synced = Len(r.file.bytes)].faults = r.faults
<1> DEFINE later == [Untouched EXCEPT !.postponed = TRUE]
           w == [Untouched EXCEPT !.file = Appended(Len(aof_buf)), !.buf = <<>>, !.size = @ + Len(aof_buf),
                                  !.status = TRUE, !.postponed = FALSE]
           A(n) == AfterError([Untouched EXCEPT
                     !.file.bytes = SubSeq(Appended(n).bytes, 1, aof_current_size),
                     !.file.synced = IF @ < aof_current_size THEN @ ELSE aof_current_size])
           B(n) == AfterError([Untouched EXCEPT
                     !.file = Appended(n),
                     !.size = @ + n,
                     !.buf = SubSeq(@, n + 1, Len(@))])
           N == 1..(Len(aof_buf) - 1)
           x == [w EXCEPT !.file.synced = Len(w.file.bytes)]
           y == [w EXCEPT !.jobs = IF SyncInProgress THEN @ ELSE Append(@, TRUE)]
<1>1. Shaped(Untouched)
  BY ShapedOutcomes
<1>2. Shaped(later)
  BY <1>1, ShapedOutcomes
<1>3. Shaped(w)
  BY DEF Shaped, Untouched
<1>4. ASSUME NEW n PROVE Shaped(A(n)) /\ Shaped(B(n))
  <2> DEFINE X == SubSeq(Appended(n).bytes, 1, aof_current_size)
             Y == IF file.synced < aof_current_size THEN file.synced ELSE aof_current_size
             F == [[file EXCEPT !.bytes = X] EXCEPT !.synced = Y]
             a == [Untouched EXCEPT !.file.bytes = SubSeq(Appended(n).bytes, 1, aof_current_size),
                                    !.file.synced = IF @ < aof_current_size THEN @ ELSE aof_current_size]
             b == [Untouched EXCEPT !.file = Appended(n), !.size = @ + n, !.buf = SubSeq(@, n + 1, Len(@))]
  <2>1. Shaped(a)
    BY DEF Shaped, Untouched
  <2>2. Shaped(b)
    BY DEF Shaped, Untouched
  <2> HIDE DEF a, b
  <2>3. Shaped(AfterError(a)) /\ Shaped(AfterError(b))
    BY <2>1, <2>2, ShapedOutcomes
  <2> QED BY <2>3 DEF a, b
<1>5. Shaped(x) /\ Shaped(y)
  <2> HIDE DEF w
  <2> QED BY <1>3, ShapedOutcomes DEF Shaped
<1>6. Shaped(AfterError(Untouched)) /\ Shaped([AfterError(Untouched) EXCEPT !.faults = faults])
  BY <1>1, ShapedOutcomes
<1>7. ShortWrites = IF aof_fd # "open" \/ faults >= MaxFaults THEN {} ELSE UNION {{A(n), B(n)} : n \in N}
  BY DEF ShortWrites
<1>8. r \in WriteSucceeds => r = w \/ r = x \/ r = y
  BY DEF WriteSucceeds
<1>9. r \in WriteFails => r = AfterError(Untouched) \/ r = [AfterError(Untouched) EXCEPT !.faults = faults]
  BY DEF WriteFails
<1>10. r = Untouched \/ r = later \/ r \in WriteFails \/ r \in ShortWrites \/ r \in WriteSucceeds
  <2> HIDE DEF later
  <2> QED BY DEF flushAppendOnlyFile, later
<1> HIDE DEF later, w, x, y, A, B, N
<1>11. r \in ShortWrites => \E n \in N : r = A(n) \/ r = B(n)
  BY <1>7
<1>12. Shaped(r)
  BY <1>1, <1>2, <1>3, <1>4, <1>5, <1>6, <1>8, <1>9, <1>10, <1>11
<1> QED BY <1>12, ShapedOutcomes

\* What every flush of an AOF that is on does to the log.
LEMMA FlushKeeps ==
  ASSUME AofInv, aof_state = "on", phase # "renamed", NEW force \in BOOLEAN, NEW r \in flushAppendOnlyFile(force)
  PROVE  /\ Preserved(r) /\ Kind(r, force) /\ SoundFile(r.file)
         /\ Kept(r.file, r.buf, hist, aof_selected_db)
         /\ OnDisk(r.file, hist)
<1>1. /\ SoundFile(file) /\ aof_buf \in Seq(Byte) /\ aof_fd = "open" /\ aof_current_size = Len(file.bytes)
      /\ faults \in Nat /\ hist \in Seq(DBs) /\ Kept(file, aof_buf, hist, aof_selected_db)
  BY DEF AofInv, Typed, FileSound, BufferSound, DescriptorSound, LogSound
<1>2. Flushable
  BY <1>1 DEF Flushable, SoundFile
<1>3. Preserved(r) /\ Kind(r, force)
  BY <1>2, FlushOutcomes
<1>4. SoundFile(r.file) /\ r.buf \in Seq(Byte) /\ r.file.bytes \o r.buf = file.bytes \o aof_buf /\ file.synced <= r.file.synced
  BY <1>3 DEF Preserved, SoundFile
<1>5. Kept(r.file, r.buf, hist, aof_selected_db)
  BY <1>1, <1>4, KeptFlushed
<1> QED BY <1>1, <1>3, <1>4, <1>5, KeptOnDisk

\* The process ends and the file may lose its end.
LEMMA EndsSound ==
  ASSUME AofInv, NEW how, Ends(how), how # "up", CleanStop, SoundFile(file'), OnDisk(file', hist),
         faults' \in Nat, crashes' \in Nat
  PROVE  AofInv'
<1>1. child'.pid = "none" /\ child' \in ChildType /\ -1 \in DBs \cup {-1}
  BY DEF Ends, ChildType
<1> QED BY <1>1, Nothing DEF Ends, AofInv, Typed, Down, FileSound, BufferSound, DescriptorSound, ChildSound, LogSound

LEMMA FlushSound ==
  ASSUME AofInv, proc = "up", phase # "renamed", NEW next, next # "renamed", FlushThen(next)
  PROVE  AofInv'
<1>1. PICK r \in flushAppendOnlyFile(FALSE) :
        \/ /\ r.exits
           /\ Ends("killed")
           /\ file' = r.file /\ faults' = r.faults
           /\ UNCHANGED crashes
        \/ /\ ~r.exits
           /\ Flushed(r)
           /\ phase' = next
           /\ UNCHANGED <<proc, fired, clientVars, hist, aofVars, rewriteVars, crashes>>
  BY DEF FlushThen
<1>2. (r.exits => Fsync = "always") /\ r.faults \in Nat /\ (aof_buf = <<>> => r = Untouched) /\ crashes \in Nat /\ hist \in Seq(DBs)
  BY FlushExits DEF AofInv, Typed
<1>3. CASE aof_state = "on"
  <2>1. /\ SoundFile(r.file) /\ Kept(r.file, r.buf, hist, aof_selected_db) /\ OnDisk(r.file, hist)
        /\ r.buf \in Seq(Byte) /\ r.size = Len(r.file.bytes)
    BY <1>3, FlushKeeps DEF Preserved
  <2>2. CASE r.exits /\ Ends("killed") /\ file' = r.file /\ faults' = r.faults /\ UNCHANGED crashes
    <3>1. CleanStop
      BY <1>2, <2>2 DEF CleanStop
    <3> QED BY <1>2, <2>1, <2>2, <3>1, EndsSound
  <2>3. CASE Flushed(r) /\ phase' = next /\ UNCHANGED <<proc, fired, clientVars, hist, aofVars, rewriteVars, crashes>>
    BY <1>2, <1>3, <2>1, <2>3
    DEF Flushed, aofVars, rewriteVars, AofInv, Typed, Down, FileSound, BufferSound, DescriptorSound, ChildSound, LogSound
  <2> QED BY <1>1, <2>2, <2>3
<1>4. CASE aof_state # "on" /\ CleanStop
  <2>1. r = Untouched
    BY <1>2, <1>4 DEF AofInv, BufferSound
  <2>2. r.file = file /\ r.buf = aof_buf /\ r.size = aof_current_size /\ r.exits = FALSE
    BY <2>1 DEF Untouched
  <2>3. Flushed(r) /\ phase' = next /\ UNCHANGED <<proc, fired, clientVars, hist, aofVars, rewriteVars, crashes>>
    BY <1>1, <2>2
  <2> QED BY <1>2, <1>4, <2>2, <2>3
    DEF Flushed, aofVars, rewriteVars, AofInv, Typed, Down, FileSound, BufferSound, DescriptorSound, ChildSound, LogSound
<1>5. CASE aof_state # "on" /\ ~ CleanStop
  <2>1. ~ r.exits
    BY <1>2, <1>5 DEF CleanStop
  <2>2. Flushed(r) /\ phase' = next /\ UNCHANGED <<proc, fired, clientVars, hist, aofVars, rewriteVars, crashes>>
    BY <1>1, <2>1
  <2> QED BY <1>2, <1>5, <2>2
    DEF Flushed, aofVars, rewriteVars, AofInv, Typed, Down, FileSound, BufferSound, DescriptorSound, ChildSound, LogSound
<1> QED BY <1>3, <1>4, <1>5

-----------------------------------------------------------------------------
(* The steps *)

LEMMA InitSound == Init => AofInv
<1> SUFFICES ASSUME Init PROVE AofInv
  OBVIOUS
<1> DEFINE L == <<>>
           h == <<>>
<1>1. /\ hist = h /\ file = [bytes |-> <<>>, synced |-> 0] /\ aof_buf = <<>> /\ rewrite_buf = <<>> /\ faults = 0 /\ crashes = 0
      /\ aof_state = "on" /\ aof_fd = "open" /\ aof_selected_db = -1 /\ child = NoChild /\ proc = "up" /\ phase = "before"
      /\ aof_current_size = 0
  BY DEF Init
<1>2. L \in Seq(Command) /\ Len(L) = 0 /\ h \in Seq(DBs) /\ Len(h) = 0
  OBVIOUS
<1> HIDE DEF L, h
<1>3. SoundFile(file) /\ file.bytes = <<>> /\ file.synced = 0 /\ Len(<<>>) = 0
  BY <1>1 DEF SoundFile, FileType
<1>4. Bytes(L) = <<>>
  <2>1. Bytes(L) \in Seq(Byte) /\ Len(Bytes(L)) = 2 * Len(L)
    BY <1>2, BytesAt
  <2>2. Len(Bytes(L)) = 0
    BY <1>2, <2>1
  <2> QED BY <2>1, <2>2
<1>5. LogOf(h, L, 0, -1)
  <2>1. Upto(L, 0) = L /\ Upto(h, 0) = h
    BY <1>2, UptoEnds
  <2>2. Replay(L) = After(h, 0)
    <3>1. Replay(L) = EmptyDBs
      BY ReplayedNothing DEF Replay, LoaderStart, L
    <3>2. Executed(h) = EmptyDBs
      BY ExecutedNothing DEF h
    <3> QED BY <2>1, <3>1, <3>2 DEF After
  <2>3. ASSUME NEW m \in 0..Len(L), NEW j \in 0..m
        PROVE  \E k \in 0..Len(h) : \E i \in 0..k : Replay(Upto(L, m)) = After(h, k) /\ Replay(Upto(L, j)) = After(h, i)
    <3>1. m = 0 /\ j = 0 /\ 0 \in 0..Len(h) /\ 0 \in 0..0
      BY <1>2
    <3> QED BY <2>1, <2>2, <3>1
  <2>4. PrefixLog(h, L, 0)
    BY <2>3 DEF PrefixLog
  <2> QED BY <1>2, <2>2, <2>4 DEF LogOf
<1>6. Kept(file, <<>>, hist, -1)
  <2>1. <<>> \o <<>> = <<>> /\ 0 \div 2 = 0
    OBVIOUS
  <2> QED BY <1>1, <1>3, <1>4, <1>5, <2>1 DEF Kept
<1>7. OnDisk(file, hist)
  BY <1>3, <1>6, Nothing, KeptOnDisk
<1>8. child.pid = "none" /\ child \in ChildType
  BY <1>1 DEF NoChild, ChildType
<1> QED BY <1>1, <1>2, <1>3, <1>6, <1>7, <1>8, Nothing
  DEF AofInv, Typed, Down, FileSound, BufferSound, DescriptorSound, ChildSound, LogSound

LEMMA LoopFrame ==
  ASSUME AofInv,
         aeApiPoll \/ (\E next \in {"cron", "before"} : processTimeEvents(next)) \/ (\E c \in Clients : RefuseWrite(c) \/ sendReplyToClient(c))
           \/ RdbChild \/ ChildExits
  PROVE  AofInv'
<1>0. faults \in Nat /\ crashes \in Nat /\ child \in ChildType
  BY DEF AofInv, Typed
<1>1. CASE aeApiPoll \/ (\E next \in {"cron", "before"} : processTimeEvents(next)) \/ (\E c \in Clients : RefuseWrite(c) \/ sendReplyToClient(c))
             \/ RdbChild
  <2>1. /\ proc = "up" /\ UNCHANGED <<proc, hist, aofVars, file, aof_buf, aof_current_size, faults, child, rewrite_buf, crashes>>
        /\ phase # "renamed" /\ phase' # "renamed"
    BY <1>1 DEF aeApiPoll, processTimeEvents, RefuseWrite, sendReplyToClient, RdbChild, Serving, Served,
         loopVars, clientVars, rewriteVars, flushVars
  <2> QED BY <1>0, <2>1, Frame DEF aofVars
<1>2. CASE ChildExits
  <2>1. /\ child.pid = "running" /\ child'.from = child.from /\ child'.pid # "none" /\ child' \in ChildType
    BY <1>0, <1>2 DEF ChildExits, ChildType
  <2>2. proc = "up"
    BY <2>1 DEF AofInv, Down
  <2>3. faults' \in Nat
    BY <1>0, <1>2 DEF ChildExits, ForkFails
  <2> QED BY <1>0, <1>2, <2>1, <2>2, <2>3, Frame DEF ChildExits, loopVars, aofVars
<1> QED BY <1>1, <1>2

LEMMA CallSound ==
  ASSUME AofInv, NEW c \in Clients, NEW d \in DBs, call(c, d)
  PROVE  AofInv'
<1> DEFINE F == Bytes(Fresh(Len(hist) + 1, d, aof_selected_db))
<1>1. /\ hist \in Seq(DBs) /\ aof_selected_db \in DBs \cup {-1} /\ proc = "up" /\ phase # "renamed" /\ rewrite_buf \in Seq(Byte)
      /\ child \in ChildType
  BY DEF AofInv, Typed, call, Serving
<1>2. /\ UNCHANGED <<proc, phase, aof_state, aof_fd, file, aof_current_size, faults, child, crashes>>
      /\ hist' = Append(hist, d)
  BY DEF call, Served
<1>3. hist' \in Seq(DBs) /\ \A k \in 0..Len(hist) : k \in 0..Len(hist')
  BY <1>1, <1>2, AfterAppend
<1>4. CleanStop => OnDisk(file, hist')
  BY <1>1, <1>2, OnDiskGrows DEF AofInv, LogSound
<1>5. CASE aof_state = "off"
  <2>1. UNCHANGED <<aof_selected_db, aof_buf, rewrite_buf>>
    BY <1>5 DEF call
  <2> QED BY <1>1, <1>2, <1>3, <1>4, <1>5, <2>1
    DEF AofInv, Typed, Down, FileSound, BufferSound, DescriptorSound, ChildSound, LogSound
<1>6. CASE aof_state # "off"
  <2>1. /\ aof_selected_db' = d
        /\ aof_buf' = IF aof_state = "on" THEN aof_buf \o F ELSE aof_buf
        /\ rewrite_buf' = IF child.pid # "none" THEN rewrite_buf \o F ELSE rewrite_buf
    BY <1>6 DEF call, feedAppendOnlyFile, Fed, Fresh
  <2>2. ASSUME aof_state = "on" PROVE Kept(file, aof_buf \o F, hist', d) /\ aof_buf \o F \in Seq(Byte)
    <3>1. SoundFile(file) /\ aof_buf \in Seq(Byte) /\ Kept(file, aof_buf, hist, aof_selected_db)
      BY <1>1, <2>2 DEF AofInv, FileSound, BufferSound, LogSound
    <3> QED BY <1>1, <1>2, <3>1, KeptFed
  <2>3. ASSUME child.pid # "none" PROVE ChildKept(child.from, rewrite_buf \o F, hist', d) /\ rewrite_buf \o F \in Seq(Byte)
    <3>1. child.from \in 0..Len(hist) /\ ChildKept(child.from, rewrite_buf, hist, aof_selected_db)
      BY <1>6, <2>3 DEF AofInv, ChildSound
    <3> QED BY <1>1, <1>2, <3>1, ChildFed
  <2> HIDE DEF F
  <2>4. rewrite_buf' \in Seq(Byte) /\ d \in DBs \cup {-1}
    BY <1>1, <2>1, <2>3
  <2>5. ChildSound'
    BY <1>2, <1>3, <1>6, <2>1, <2>3 DEF AofInv, ChildSound
  <2>6. BufferSound' /\ LogSound'
    BY <1>1, <1>2, <1>4, <1>6, <2>1, <2>2 DEF AofInv, BufferSound, LogSound
  <2> QED BY <1>1, <1>2, <1>3, <1>6, <2>1, <2>4, <2>5, <2>6
    DEF AofInv, Typed, Down, FileSound, DescriptorSound
<1> QED BY <1>5, <1>6

\* A child starts.
LEMMA ForksSound ==
  ASSUME AofInv, proc = "up", phase # "renamed", phase' # "renamed", Forks, faults' \in Nat,
         UNCHANGED <<proc, hist, file, aof_buf, aof_current_size, rewrite_buf, crashes>>,
         UNCHANGED <<aof_state, aof_fd>> \/ (aof_state = "off" /\ aof_state' = "wait" /\ aof_fd' = "open")
  PROVE  AofInv'
<1>1. hist \in Seq(DBs) /\ child.pid = "none" /\ rewrite_buf = <<>> /\ crashes \in Nat
  BY DEF AofInv, Typed, ChildSound, Forks
<1>2. ChildKept(Len(hist), <<>>, hist, -1) /\ Len(hist) \in 0..Len(hist) /\ Len(hist) \in Nat
  BY <1>1, ChildStarts
<1>3. child' \in ChildType /\ child'.from = Len(hist) /\ child'.pid = "running" /\ aof_selected_db' = -1
  BY <1>2 DEF Forks, ChildType
<1>4. ASSUME aof_state = "on" PROVE Kept(file, aof_buf, hist, -1)
  <2>1. SoundFile(file) /\ aof_buf \in Seq(Byte) /\ Kept(file, aof_buf, hist, aof_selected_db)
    BY <1>4 DEF AofInv, FileSound, BufferSound, LogSound
  <2>2. file.synced <= file.synced
    BY <2>1, SoundFiles
  <2> QED BY <1>1, <2>1, <2>2, KeptFlushed
<1>5. ChildSound'
  BY <1>1, <1>2, <1>3 DEF ChildSound
<1>6. LogSound' /\ BufferSound' /\ FileSound'
  BY <1>3, <1>4 DEF AofInv, LogSound, BufferSound, FileSound
<1>7. Typed'
  BY <1>1, <1>3 DEF AofInv, Typed
<1> QED BY <1>5, <1>6, <1>7 DEF AofInv, Down, DescriptorSound

LEMMA BgrewriteSound ==
  ASSUME AofInv, bgrewriteaofCommand
  PROVE  AofInv'
<1>1. /\ proc = "up" /\ phase = "events"
      /\ UNCHANGED <<proc, phase, hist, aof_state, aof_fd, file, aof_buf, aof_current_size, faults, rewrite_buf, crashes>>
      /\ UNCHANGED <<child, aof_selected_db>> \/ Forks
  BY DEF bgrewriteaofCommand, loopVars, flushVars
<1>2. faults \in Nat /\ crashes \in Nat /\ child \in ChildType
  BY DEF AofInv, Typed
<1>3. CASE UNCHANGED <<child, aof_selected_db>>
  BY <1>1, <1>2, <1>3, Frame
<1>4. CASE Forks
  BY <1>1, <1>2, <1>4, ForksSound
<1> QED BY <1>1, <1>3, <1>4

LEMMA AfterChildrenPhase == AfterChildren \in {"flush", "before", "retry"}
BY DEF AfterChildren

LEMMA CronSound ==
  ASSUME AofInv, serverCron
  PROVE  AofInv'
<1>1. /\ proc = "up" /\ phase = "cron" /\ phase' # "renamed"
      /\ UNCHANGED <<proc, hist, aof_state, aof_fd, file, aof_buf, aof_current_size, rewrite_buf, crashes>>
      /\ \/ Forks /\ UNCHANGED faults
         \/ UNCHANGED <<child, aof_selected_db>> /\ (UNCHANGED faults \/ ForkFails)
  BY AfterChildrenPhase DEF serverCron
<1>2. faults \in Nat /\ crashes \in Nat /\ child \in ChildType
  BY DEF AofInv, Typed
<1>3. CASE UNCHANGED <<child, aof_selected_db>> /\ (UNCHANGED faults \/ ForkFails)
  <2>1. faults' \in Nat
    BY <1>2, <1>3 DEF ForkFails
  <2> QED BY <1>1, <1>2, <1>3, <2>1, Frame
<1>4. CASE Forks /\ UNCHANGED faults
  BY <1>1, <1>2, <1>4, ForksSound
<1> QED BY <1>1, <1>3, <1>4

LEMMA StartSound ==
  ASSUME AofInv, startAppendOnly
  PROVE  AofInv'
<1>1. /\ proc = "up" /\ phase = "events" /\ aof_state = "off"
      /\ UNCHANGED <<proc, phase, hist, file, aof_buf, aof_current_size, rewrite_buf, crashes>>
      /\ \/ Forks /\ aof_fd' = "open" /\ aof_state' = "wait" /\ UNCHANGED faults
         \/ (UNCHANGED faults \/ ForkFails) /\ UNCHANGED <<aof_state, child, aof_selected_db>>
  BY DEF startAppendOnly, loopVars
<1>2. faults \in Nat /\ crashes \in Nat /\ child \in ChildType
  BY DEF AofInv, Typed
<1>3. CASE (UNCHANGED faults \/ ForkFails) /\ UNCHANGED <<aof_state, child, aof_selected_db>>
  <2>1. faults' \in Nat
    BY <1>2, <1>3 DEF ForkFails
  <2> QED BY <1>1, <1>2, <1>3, <2>1
    DEF AofInv, Typed, Down, FileSound, BufferSound, DescriptorSound, ChildSound, LogSound
<1>4. CASE Forks /\ aof_fd' = "open" /\ aof_state' = "wait" /\ UNCHANGED faults
  BY <1>1, <1>2, <1>4, ForksSound
<1> QED BY <1>1, <1>3, <1>4

LEMMA RenameSound ==
  ASSUME AofInv, RewriteRename
  PROVE  AofInv'
<1> DEFINE k == child.from
           A == Bytes(Base(hist, k))
           X == A \o rewrite_buf
           s == IF RenameBarrier THEN Len(X) ELSE Len(A)
           g == [bytes |-> X, synced |-> s]
<1>1. /\ proc = "up" /\ phase = "cron" /\ child.pid = "ok" /\ phase' = "renamed"
      /\ UNCHANGED <<proc, hist, aof_state, aof_fd, aof_selected_db, aof_buf, aof_current_size, faults, child, rewrite_buf, crashes>>
  BY DEF RewriteRename, aofVars, rewriteVars
<1>2. hist \in Seq(DBs) /\ k \in 0..Len(hist) /\ rewrite_buf \in Seq(Byte) /\ child \in ChildType
  BY <1>1 DEF AofInv, Typed, ChildSound
<1>3. file' = g
  BY DEF RewriteRename, Renamed, Rewritten, ChildFile, DataAfter, Base, After, Upto
<1>4. s = Len(X) \/ s = Len(A)
  OBVIOUS
<1> HIDE DEF s
<1>5. /\ SoundFile(g)
      /\ ChildKept(k, rewrite_buf, hist, aof_selected_db) => Kept(g, <<>>, hist, aof_selected_db) /\ OnDisk(g, hist)
      /\ rewrite_buf = <<>> => OnDisk(g, hist)
  <2>1. \A db : /\ SoundFile([bytes |-> Bytes(Base(hist, k)) \o rewrite_buf, synced |-> s])
                /\ ChildKept(k, rewrite_buf, hist, db) =>
                     /\ Kept([bytes |-> Bytes(Base(hist, k)) \o rewrite_buf, synced |-> s], <<>>, hist, db)
                     /\ OnDisk([bytes |-> Bytes(Base(hist, k)) \o rewrite_buf, synced |-> s], hist)
                /\ rewrite_buf = <<>> => OnDisk([bytes |-> Bytes(Base(hist, k)) \o rewrite_buf, synced |-> s], hist)
    <3> HIDE DEF k
    <3> QED BY <1>2, <1>4, ChildRenamed
  <2> QED BY <2>1
<1> HIDE DEF g, k
<1>6. aof_state # "off" => Kept(g, <<>>, hist, aof_selected_db) /\ OnDisk(g, hist)
  BY <1>1, <1>5 DEF AofInv, ChildSound, k
<1>7. aof_state = "off" => OnDisk(g, hist)
  BY <1>1, <1>5 DEF AofInv, ChildSound
<1>8. LogSound' /\ FileSound'
  BY <1>1, <1>3, <1>5, <1>6, <1>7 DEF LogSound, FileSound
<1> QED BY <1>1, <1>3, <1>8 DEF AofInv, Typed, Down, BufferSound, DescriptorSound, ChildSound

LEMMA CleanedUp == Cleanup => rewrite_buf' = <<>> /\ child'.pid = "none" /\ child' \in ChildType
BY DEF Cleanup, NoChild, ChildType

LEMMA DoneSound ==
  ASSUME AofInv, backgroundRewriteDoneHandler
  PROVE  AofInv'
<1>1. /\ proc = "up" /\ phase = "renamed" /\ phase' # "renamed"
      /\ rewrite_buf' = <<>> /\ child'.pid = "none" /\ child' \in ChildType
      /\ aof_state' = IF aof_state = "wait" THEN "on" ELSE aof_state
      /\ UNCHANGED <<proc, hist, faults, crashes>>
  BY CleanedUp, AfterChildrenPhase DEF backgroundRewriteDoneHandler
<1>2. hist \in Seq(DBs) /\ faults \in Nat /\ crashes \in Nat /\ SoundFile(file) /\ aof_state \in {"off", "on", "wait"}
  BY <1>1 DEF AofInv, Typed, FileSound
<1>3. CASE aof_fd = "none" /\ UNCHANGED <<aof_fd, file, jobs, aof_selected_db, aof_current_size, aof_buf>>
  <2>1. aof_state = "off" /\ aof_state' = "off"
    BY <1>1, <1>3 DEF AofInv, DescriptorSound
  <2> QED BY <1>1, <1>2, <1>3, <2>1, Nothing
    DEF AofInv, Typed, Down, FileSound, BufferSound, DescriptorSound, ChildSound, LogSound
<1>4. CASE SwitchFile
  <2>1. /\ aof_fd' = "open" /\ aof_selected_db' = -1 /\ aof_buf' = <<>> /\ aof_current_size' = Len(file.bytes)
        /\ file' = file \/ file' = [file EXCEPT !.synced = Len(file.bytes)]
    BY <1>4 DEF SwitchFile
  <2>2. SoundFile(file') /\ file'.bytes = file.bytes /\ file.synced <= file'.synced
    <3>1. CASE file' = file
      BY <1>2, <3>1, SoundFiles
    <3>2. CASE file' = [file EXCEPT !.synced = Len(file.bytes)]
      <4> DEFINE n == Len(file.bytes)
      <4>1. file = [bytes |-> file.bytes, synced |-> file.synced] /\ file.bytes \in Seq(Byte) /\ n \in Nat /\ file.synced <= n
        BY <1>2, SoundFiles
      <4>2. file' = [file EXCEPT !.synced = n]
        BY <3>2
      <4> HIDE DEF n
      <4>3. file' = [bytes |-> file.bytes, synced |-> n]
        BY <4>1, <4>2
      <4>4. file'.bytes = file.bytes /\ file'.synced = n
        BY <4>3
      <4>5. n <= Len(file.bytes)
        BY <4>1 DEF n
      <4>6. file' \in FileType
        BY <4>1, <4>3 DEF FileType
      <4> QED BY <4>1, <4>4, <4>5, <4>6 DEF SoundFile
    <3> QED BY <2>1, <3>1, <3>2
  <2>3. ASSUME aof_state # "off" PROVE Kept(file', <<>>, hist, -1) /\ OnDisk(file', hist)
    <3>1. Kept(file, <<>>, hist, aof_selected_db)
      BY <1>1, <2>3 DEF AofInv, LogSound
    <3>2. file'.bytes \o <<>> = file.bytes \o <<>>
      BY <2>2
    <3> DEFINE g == file'
    <3>3. SoundFile(g) /\ g.bytes \o <<>> = file.bytes \o <<>> /\ file.synced <= g.synced
      BY <2>2, <3>2
    <3> HIDE DEF g
    <3>4. Kept(g, <<>>, hist, -1)
      BY <1>2, <3>1, <3>3, Nothing, KeptFlushed
    <3>5. OnDisk(g, hist)
      BY <3>3, <3>4, Nothing, KeptOnDisk
    <3> QED BY <3>4, <3>5 DEF g
  <2>4. CleanStop => OnDisk(file', hist)
    <3>1. ASSUME CleanStop PROVE OnDisk(file, hist) /\ OnDisk([file EXCEPT !.synced = Len(file.bytes)], hist)
      BY <1>2, <3>1, OnDiskSynced DEF AofInv, LogSound
    <3> QED BY <2>1, <3>1
  <2>5. aof_state' \in {"off", "on"} /\ (aof_state' = "on" => aof_state # "off")
    BY <1>1, <1>2
  <2> QED BY <1>1, <1>2, <2>1, <2>2, <2>3, <2>4, <2>5, Nothing
    DEF AofInv, Typed, Down, FileSound, BufferSound, DescriptorSound, ChildSound, LogSound
<1> QED BY <1>3, <1>4 DEF backgroundRewriteDoneHandler

LEMMA FailsSound ==
  ASSUME AofInv, RewriteFails
  PROVE  AofInv'
<1>1. /\ proc = "up" /\ phase = "cron" /\ phase' # "renamed"
      /\ rewrite_buf' = <<>> /\ child'.pid = "none" /\ child' \in ChildType
      /\ UNCHANGED <<aof_state, proc, hist, aof_fd, aof_selected_db, file, aof_buf, aof_current_size, crashes>>
      /\ UNCHANGED faults \/ ForkFails
  BY CleanedUp, AfterChildrenPhase DEF RewriteFails
<1>2. faults' \in Nat
  BY <1>1 DEF ForkFails, AofInv, Typed
<1> QED BY <1>1, <1>2, Nothing
  DEF AofInv, Typed, Down, FileSound, BufferSound, DescriptorSound, ChildSound, LogSound

LEMMA Synced ==
  ASSUME NEW f, SoundFile(f), NEW h \in Seq(DBs), NEW g, g = [f EXCEPT !.synced = Len(f.bytes)]
  PROVE  /\ SoundFile(g) /\ g.bytes = f.bytes /\ g.synced = Len(f.bytes) /\ f.synced <= g.synced
         /\ OnDisk(f, h) => OnDisk(g, h)
         /\ \A buf \in Seq(Byte) : \A db : Kept(f, buf, h, db) => Kept(g, buf, h, db) /\ Kept(g, buf, h, -1)
<1> DEFINE n == Len(f.bytes)
<1>1. f = [bytes |-> f.bytes, synced |-> f.synced] /\ f.bytes \in Seq(Byte) /\ n \in Nat /\ f.synced <= n
  BY SoundFiles
<1>2. g = [f EXCEPT !.synced = n]
  OBVIOUS
<1> HIDE DEF n
<1>3. g = [bytes |-> f.bytes, synced |-> n]
  BY <1>1, <1>2
<1>4. g.bytes = f.bytes /\ g.synced = n
  BY <1>3
<1>5. n <= Len(f.bytes) /\ n = Len(f.bytes)
  BY <1>1 DEF n
<1>6. g \in FileType
  BY <1>1, <1>3 DEF FileType
<1>7. SoundFile(g)
  BY <1>4, <1>5, <1>6 DEF SoundFile
<1>8. OnDisk(f, h) => OnDisk(g, h)
  BY OnDiskSynced
<1>9. ASSUME NEW buf \in Seq(Byte), NEW db, Kept(f, buf, h, db) PROVE Kept(g, buf, h, db) /\ Kept(g, buf, h, -1)
  <2>1. g.bytes \o buf = f.bytes \o buf /\ f.synced <= g.synced
    BY <1>1, <1>4
  <2> QED BY <1>7, <1>9, <2>1, KeptFlushed
<1> QED BY <1>1, <1>4, <1>5, <1>7, <1>8, <1>9

LEMMA BioSound ==
  ASSUME AofInv, bioProcessBackgroundJobs
  PROVE  AofInv'
<1>1. /\ proc = "up"
      /\ file' = file \/ file' = [file EXCEPT !.synced = Len(file.bytes)]
      /\ UNCHANGED <<proc, phase, hist, aof_state, aof_fd, aof_selected_db, aof_buf, aof_current_size, faults, child, rewrite_buf, crashes>>
  BY DEF bioProcessBackgroundJobs, loopVars, aofVars, rewriteVars
<1>2. hist \in Seq(DBs) /\ faults \in Nat /\ crashes \in Nat /\ child \in ChildType
  BY DEF AofInv, Typed
<1>3. CASE file' = file
  BY <1>1, <1>2, <1>3, Frame
<1>4. CASE file' = [file EXCEPT !.synced = Len(file.bytes)]
  <2> DEFINE g == file'
  <2>1. SoundFile(file) => /\ SoundFile(g) /\ g.bytes = file.bytes
                           /\ OnDisk(file, hist) => OnDisk(g, hist)
                           /\ \A buf \in Seq(Byte) : \A db : Kept(file, buf, hist, db) => Kept(g, buf, hist, db)
    <3>1. g = [file EXCEPT !.synced = Len(file.bytes)]
      BY <1>4
    <3> HIDE DEF g
    <3> QED BY <1>2, <3>1, Synced
  <2>2. FileSound'
    BY <1>1, <2>1 DEF AofInv, FileSound
  <2>3. DescriptorSound'
    BY <1>1, <2>1 DEF AofInv, FileSound, DescriptorSound
  <2>4. LogSound'
    BY <1>1, <2>1, Nothing DEF AofInv, FileSound, BufferSound, LogSound
  <2> QED BY <1>1, <1>2, <2>2, <2>3, <2>4 DEF AofInv, Typed, Down, BufferSound, ChildSound
<1> QED BY <1>1, <1>3, <1>4

LEMMA StopSound ==
  ASSUME AofInv, stopAppendOnly
  PROVE  AofInv'
<1>1. PICK r \in flushAppendOnlyFile(TRUE) :
       \/ /\ r.exits
          /\ Ends("killed")
          /\ file' = r.file /\ faults' = r.faults
       \/ /\ ~r.exits
          /\ Flushed([r EXCEPT !.file.synced = Len(r.file.bytes)])
          /\ aof_fd' = "none" /\ aof_selected_db' = -1 /\ aof_state' = "off"
          /\ child' = NoChild
          /\ rewrite_buf' = IF child.pid = "none" THEN rewrite_buf ELSE <<>>
          /\ UNCHANGED <<proc, loopVars, clientVars, hist, scheduled, rdb>>
  BY DEF stopAppendOnly
<1>2. proc = "up" /\ phase = "events" /\ aof_state # "off" /\ Reconfigures /\ crashes' = crashes
  BY DEF stopAppendOnly
<1>3. (r.exits => Fsync = "always") /\ r.faults \in Nat /\ (aof_buf = <<>> => r = Untouched) /\ crashes \in Nat /\ hist \in Seq(DBs)
      /\ faults \in Nat
  BY FlushExits DEF AofInv, Typed
<1>4. aof_state = "on" => /\ SoundFile(r.file) /\ OnDisk(r.file, hist) /\ r.buf \in Seq(Byte) /\ Kind(r, TRUE)
  BY <1>2, FlushKeeps DEF Preserved
<1>5. aof_state # "on" /\ CleanStop => SoundFile(r.file) /\ OnDisk(r.file, hist) /\ r.buf = <<>> /\ r.exits = FALSE
  <2>1. ASSUME aof_state # "on", CleanStop PROVE r = Untouched /\ aof_buf = <<>> /\ SoundFile(file) /\ OnDisk(file, hist)
    BY <1>3, <2>1 DEF AofInv, BufferSound, FileSound, LogSound
  <2>2. Untouched.file = file /\ Untouched.buf = aof_buf /\ Untouched.exits = FALSE
    BY DEF Untouched
  <2> QED BY <2>1, <2>2
<1>6. CASE r.exits /\ Ends("killed") /\ file' = r.file /\ faults' = r.faults
  <2>1. CleanStop
    BY <1>3, <1>6 DEF CleanStop
  <2>2. SoundFile(r.file) /\ OnDisk(r.file, hist)
    BY <1>4, <1>5, <2>1
  <2> QED BY <1>2, <1>3, <1>6, <2>1, <2>2, EndsSound
<1>7. CASE /\ ~r.exits
           /\ Flushed([r EXCEPT !.file.synced = Len(r.file.bytes)])
           /\ aof_fd' = "none" /\ aof_selected_db' = -1 /\ aof_state' = "off"
           /\ child' = NoChild
           /\ rewrite_buf' = IF child.pid = "none" THEN rewrite_buf ELSE <<>>
           /\ UNCHANGED <<proc, loopVars, clientVars, hist, scheduled, rdb>>
  <2> DEFINE q == [r EXCEPT !.file.synced = Len(r.file.bytes)]
  <2>1. file' = q.file /\ aof_buf' = q.buf /\ faults' = q.faults
    BY <1>7 DEF Flushed
  <2>2. rewrite_buf' = <<>> /\ child'.pid = "none" /\ child' \in ChildType
    BY <1>7 DEF AofInv, ChildSound, NoChild, ChildType
  <2>3. q.file = [r.file EXCEPT !.synced = Len(r.file.bytes)] /\ q.buf = r.buf /\ q.faults = r.faults
    BY FlushRecord
  <2> HIDE DEF q
  <2>4. CleanStop => SoundFile(q.file) /\ OnDisk(q.file, hist) /\ r.buf = <<>>
    <3>1. ASSUME CleanStop PROVE SoundFile(r.file) /\ OnDisk(r.file, hist)
      BY <1>4, <1>5, <3>1
    <3>2. CleanStop => SoundFile(q.file) /\ OnDisk(q.file, hist)
      BY <1>3, <2>3, <3>1, Synced
    <3>3. ASSUME CleanStop, aof_state = "on" PROVE r.buf = <<>>
      <4>1. Fsync = "always" \/ MaxFaults = 0
        BY <1>2, <3>3 DEF CleanStop
      <4>2. ~ (faults < MaxFaults /\ Fatal(r))
        <5>1. CASE Fsync = "always"
          BY <1>7, <5>1 DEF Fatal
        <5>2. CASE MaxFaults = 0
          BY <1>3, <5>2
        <5> QED BY <4>1, <5>1, <5>2
      <4>3. Kind(r, TRUE)
        BY <1>4, <3>3
      <4> QED BY <4>2, <4>3 DEF Kind
    <3> QED BY <1>5, <3>2, <3>3
  <2>5. UNCHANGED <<proc, phase, hist>>
    BY <1>7 DEF loopVars
  <2> QED BY <1>2, <1>3, <1>7, <2>1, <2>2, <2>3, <2>4, <2>5, Nothing
    DEF AofInv, Typed, Down, FileSound, BufferSound, DescriptorSound, ChildSound, LogSound
<1> QED BY <1>1, <1>6, <1>7

LEMMA CrashSound ==
  ASSUME CleanStop \/ MaxCrashes = 0, AofInv, Kill \/ PowerLoss \/ prepareForShutdown
  PROVE  AofInv'
<1>1. /\ proc = "up" /\ crashes < MaxCrashes /\ crashes' = crashes + 1 /\ faults' = faults
      /\ Ends("killed") \/ Ends("shutdown")
  BY DEF Kill, PowerLoss, prepareForShutdown
<1>2. crashes \in Nat /\ faults \in Nat /\ hist \in Seq(DBs)
  BY DEF AofInv, Typed
<1>3. CleanStop
  BY <1>1, <1>2
<1>4. SoundFile(file) /\ OnDisk(file, hist)
  BY <1>3 DEF AofInv, FileSound, LogSound
<1> DEFINE g == file'
<1>5. SoundFile(g) /\ OnDisk(g, hist)
  <2>1. CASE Kill
    BY <1>4, <2>1 DEF Kill
  <2>2. CASE PowerLoss
    <3>1. PICK n \in file.synced..Len(file.bytes) : file' = [bytes |-> SubSeq(file.bytes, 1, n), synced |-> n]
      BY <2>2 DEF PowerLoss
    <3>2. n \in 0..Len(file.bytes) /\ file.synced \div 2 <= n \div 2
      <4> DEFINE x == file.synced
                 y == Len(file.bytes)
      <4>1. x \in Nat /\ y \in Nat /\ n \in x..y
        BY <1>4, SoundFiles
      <4> HIDE DEF x, y
      <4>2. n \in 0..y /\ x \div 2 <= n \div 2
        BY <4>1
      <4> QED BY <4>2 DEF x, y
    <3> QED BY <1>2, <1>4, <3>1, <3>2, OnDiskCut
  <2>3. CASE prepareForShutdown
    <3>1. g = [file EXCEPT !.synced = Len(file.bytes)]
      BY <2>3 DEF prepareForShutdown
    <3> HIDE DEF g
    <3> QED BY <1>2, <1>4, <3>1, Synced
  <2> QED BY <2>1, <2>2, <2>3
<1> QED BY <1>1, <1>2, <1>3, <1>5, EndsSound

LEMMA CheckSound ==
  ASSUME AofInv, redisCheckAof
  PROVE  AofInv'
<1> DEFINE n == 2 * Complete(file.bytes)
<1>1. /\ proc # "up" /\ file' = [bytes |-> SubSeq(file.bytes, 1, n), synced |-> n]
      /\ UNCHANGED <<proc, phase, hist, aof_state, aof_fd, aof_selected_db, aof_buf, faults, child, rewrite_buf, crashes>>
  BY DEF redisCheckAof, loopVars, aofVars, rewriteVars
<1>2. CleanStop /\ hist \in Seq(DBs) /\ phase = "before" /\ aof_state = "off"
  BY <1>1 DEF AofInv, Typed, Down
<1>3. SoundFile(file) /\ OnDisk(file, hist)
  BY <1>2 DEF AofInv, FileSound, LogSound
<1>4. n \in 0..Len(file.bytes) /\ file.synced \div 2 <= n \div 2
  <2> DEFINE x == file.synced
             y == Len(file.bytes)
  <2>1. x \in Nat /\ y \in Nat /\ x <= y
    BY <1>3, SoundFiles
  <2>2. y \in 0..Len(file.bytes)
    BY <2>1
  <2> HIDE DEF n
  <2>3. x \div 2 <= y \div 2 /\ y = Len(file.bytes)
    <3>1. y = Len(file.bytes)
      OBVIOUS
    <3> HIDE DEF x, y
    <3>2. x \div 2 <= y \div 2
      BY <2>1
    <3> QED BY <3>1, <3>2
  <2>4. Complete(file.bytes) = y \div 2
    BY <1>2, <1>3, <2>2, <2>3, OnDiskCut
  <2>5. n = 2 * (y \div 2)
    BY <2>4 DEF n
  <2> HIDE DEF x, y
  <2>6. n \in 0..y /\ n \div 2 = y \div 2
    BY <2>1, <2>5
  <2> QED BY <2>3, <2>6 DEF x, y
<1> HIDE DEF n
<1> DEFINE g == file'
<1>5. SoundFile(g) /\ OnDisk(g, hist)
  BY <1>1, <1>2, <1>3, <1>4, OnDiskCut
<1> QED BY <1>1, <1>2, <1>5 DEF AofInv, Typed, Down, FileSound, BufferSound, DescriptorSound, ChildSound, LogSound

LEMMA LoadSound ==
  ASSUME AofInv, loadAppendOnlyFile
  PROVE  AofInv'
<1> DEFINE R == Recovered(file.bytes)
<1>1. /\ proc # "up" /\ Loadable(file.bytes) /\ proc' = "up" /\ hist' = Upto(hist, R)
      /\ aof_state' = "on" /\ aof_fd' = "open" /\ aof_current_size' = Len(file.bytes)
      /\ UNCHANGED <<phase, aof_selected_db, child, rewrite_buf, file, aof_buf, faults, crashes>>
  BY DEF loadAppendOnlyFile, loopVars, rewriteVars, Upto
<1>2. /\ CleanStop /\ hist \in Seq(DBs) /\ phase = "before" /\ aof_state = "off" /\ child.pid = "none" /\ aof_buf = <<>>
      /\ aof_selected_db = -1 /\ rewrite_buf = <<>>
  BY <1>1 DEF AofInv, Typed, Down, ChildSound
<1>3. SoundFile(file) /\ OnDisk(file, hist)
  BY <1>2 DEF AofInv, FileSound, LogSound
<1>4. \E k \in 0..Len(hist) : Replay(Entries(file.bytes)) = After(hist, k)
  <2> DEFINE n == Len(file.bytes)
  <2>1. n \in 0..Len(file.bytes) /\ SubSeq(file.bytes, 1, n) = file.bytes
    BY <1>3, SoundFiles, UptoEnds DEF Upto
  <2>2. file.synced \div 2 <= n \div 2
    <3> DEFINE x == file.synced
    <3>1. x \in Nat /\ n \in Nat /\ x <= n
      BY <1>3, SoundFiles
    <3> HIDE DEF x, n
    <3>2. x \div 2 <= n \div 2
      BY <3>1
    <3> QED BY <3>2 DEF x
  <2>3. \E k \in 0..Len(hist) : Replay(Entries(SubSeq(file.bytes, 1, n))) = After(hist, k)
    BY <1>2, <1>3, <2>1, <2>2, OnDiskCut
  <2> QED BY <2>1, <2>3
<1>5. R \in 0..Len(hist) /\ Replay(Entries(file.bytes)) = After(hist, R)
  BY <1>4 DEF Recovered, DataAfter, After, Upto
<1> HIDE DEF R
<1>6. Kept(file, <<>>, hist', -1) /\ hist' \in Seq(DBs)
  BY <1>1, <1>2, <1>3, <1>5, OnDiskLoads, UptoProperties
<1>7. OnDisk(file, hist')
  BY <1>3, <1>6, Nothing, KeptOnDisk
<1> QED BY <1>1, <1>2, <1>3, <1>6, <1>7, Nothing
  DEF AofInv, Typed, Down, FileSound, BufferSound, DescriptorSound, ChildSound, LogSound

LEMMA StepSound ==
  ASSUME CleanStop \/ MaxCrashes = 0, AofInv, Next
  PROVE  AofInv'
<1>1. CASE beforeSleep
  BY <1>1, FlushSound DEF beforeSleep
<1>2. CASE aeApiPoll \/ (\E next \in {"cron", "before"} : processTimeEvents(next)) \/ (\E c \in Clients : RefuseWrite(c) \/ sendReplyToClient(c))
             \/ RdbChild \/ ChildExits
  BY <1>2, LoopFrame
<1>3. CASE RewriteRename
  BY <1>3, RenameSound
<1>4. CASE backgroundRewriteDoneHandler
  BY <1>4, DoneSound
<1>5. CASE RewriteFails
  BY <1>5, FailsSound
<1>6. CASE serverCron
  BY <1>6, CronSound
<1>7. CASE CronFlush
  <2>1. CASE phase = "flush" /\ FlushThen("retry")
    BY <1>7, <2>1, FlushSound DEF CronFlush
  <2>2. CASE phase = "retry" /\ FlushThen("before")
    BY <1>7, <2>2, FlushSound DEF CronFlush
  <2>3. CASE phase = "retry" /\ phase' = "before" /\ UNCHANGED <<proc, fired, clientVars, hist, aofVars, flushVars, rewriteVars, crashes>>
    <3>1. faults \in Nat /\ crashes \in Nat /\ child \in ChildType /\ proc = "up"
      BY <1>7 DEF AofInv, Typed, CronFlush
    <3> QED BY <2>3, <3>1, Frame DEF aofVars, flushVars, rewriteVars
  <2> QED BY <1>7, <2>1, <2>2, <2>3 DEF CronFlush
<1>8. CASE \E c \in Clients : \E d \in DBs : call(c, d)
  BY <1>8, CallSound
<1>9. CASE bgrewriteaofCommand
  BY <1>9, BgrewriteSound
<1>10. CASE bioProcessBackgroundJobs
  BY <1>10, BioSound
<1>11. CASE stopAppendOnly
  BY <1>11, StopSound
<1>12. CASE startAppendOnly
  BY <1>12, StartSound
<1>13. CASE Kill \/ PowerLoss \/ prepareForShutdown
  BY <1>13, CrashSound
<1>14. CASE loadAppendOnlyFile
  BY <1>14, LoadSound
<1>15. CASE redisCheckAof
  BY <1>15, CheckSound
<1> QED BY <1>1, <1>2, <1>3, <1>4, <1>5, <1>6, <1>7, <1>8, <1>9, <1>10, <1>11, <1>12, <1>13, <1>14, <1>15 DEF Next, Loop

LEMMA StutterSound ==
  ASSUME AofInv, UNCHANGED vars
  PROVE  AofInv'
BY DEF vars, loopVars, aofVars, flushVars, rewriteVars, AofInv, Typed, Down, FileSound, BufferSound, DescriptorSound,
       ChildSound, LogSound

LEMMA InvNothingMissing == AofInv => NothingMissing
<1> SUFFICES ASSUME AofInv PROVE NothingMissing
  OBVIOUS
<1>1. hist \in Seq(DBs) /\ DataAfter(Len(hist)) = After(hist, Len(hist))
  BY DEF AofInv, Typed, DataAfter, After, Upto
<1>2. ASSUME aof_state = "on", phase # "renamed"
      PROVE  Loadable(file.bytes \o aof_buf) /\ Replay(Entries(file.bytes \o aof_buf)) = DataAfter(Len(hist))
  <2>1. SoundFile(file) /\ aof_buf \in Seq(Byte) /\ Kept(file, aof_buf, hist, aof_selected_db)
    BY <1>2 DEF AofInv, FileSound, BufferSound, LogSound
  <2> QED BY <1>1, <2>1, KeptLoads
<1>3. ASSUME aof_state # "off", child.pid # "none"
      PROVE  Loadable(Rewritten) /\ Replay(Entries(Rewritten)) = DataAfter(Len(hist))
  <2> DEFINE k == child.from
             X == Bytes(Base(hist, k)) \o rewrite_buf
             g == [bytes |-> X, synced |-> Len(X)]
  <2>1. k \in 0..Len(hist) /\ rewrite_buf \in Seq(Byte) /\ ChildKept(k, rewrite_buf, hist, aof_selected_db)
    BY <1>3 DEF AofInv, Typed, ChildSound
  <2>2. Rewritten = X
    BY DEF Rewritten, ChildFile, DataAfter, Base, After, Upto
  <2>3. SoundFile(g) /\ Kept(g, <<>>, hist, aof_selected_db)
    <3> HIDE DEF k
    <3> QED BY <1>1, <2>1, ChildRenamed
  <2>4. g.bytes = X
    OBVIOUS
  <2> HIDE DEF g
  <2>5. Loadable(X \o <<>>) /\ Replay(Entries(X \o <<>>)) = After(hist, Len(hist))
    BY <1>1, <2>3, <2>4, Nothing, KeptLoads
  <2>6. X \o <<>> = X
    <3>1. X \in Seq(Byte)
      BY <2>3, <2>4, SoundFiles
    <3> HIDE DEF X
    <3> QED BY <3>1
  <2> QED BY <1>1, <2>2, <2>5, <2>6
<1> QED BY <1>2, <1>3 DEF NothingMissing

LEMMA InvRecoversPrefix == ASSUME CleanStop PROVE AofInv => RecoversPrefix
<1> SUFFICES ASSUME AofInv, NEW n \in file.synced..Len(file.bytes)
             PROVE  \E k \in 0..Len(hist) : Replay(Entries(SubSeq(file.bytes, 1, n))) = DataAfter(k)
  BY DEF RecoversPrefix
<1>1. SoundFile(file) /\ OnDisk(file, hist) /\ hist \in Seq(DBs)
  BY DEF AofInv, FileSound, LogSound, Typed
<1>2. n \in 0..Len(file.bytes) /\ file.synced \div 2 <= n \div 2
  <2> DEFINE x == file.synced
             y == Len(file.bytes)
  <2>1. x \in Nat /\ y \in Nat /\ n \in x..y
    BY <1>1, SoundFiles
  <2> HIDE DEF x, y
  <2>2. n \in 0..y /\ x \div 2 <= n \div 2
    BY <2>1
  <2> QED BY <2>2 DEF x, y
<1> QED BY <1>1, <1>2, OnDiskCut DEF DataAfter, After, Upto

\* The invariant holds, whatever the policy, the faults and the crashes.
THEOREM AofInvariant ==
  ASSUME CleanStop \/ MaxCrashes = 0
  PROVE  Spec => []AofInv
<1>1. Init => AofInv
  BY InitSound
<1>2. AofInv /\ [Next]_vars => AofInv'
  BY StepSound, StutterSound
<1> QED BY <1>1, <1>2, PTL DEF Spec

\* The file and aof_buf, or the child's file and the difference, hold exactly the
\* databases in memory (feedAppendOnlyFile, backgroundRewriteDoneHandler).
THEOREM NothingMissingAlways ==
  ASSUME CleanStop \/ MaxCrashes = 0
  PROVE  Spec => []NothingMissing
<1>1. AofInv => NothingMissing
  BY InvNothingMissing
<1>2. Spec => []AofInv
  BY AofInvariant
<1> QED BY <1>1, <1>2, PTL

\* Wherever a power failure cuts the file, it brings back the databases after some
\* number of writes, and nothing is missing from what will be in it.
THEOREM FileWholeAlways ==
  ASSUME CleanStop
  PROVE  Spec => []FileWhole
<1>1. AofInv => FileWhole
  BY InvNothingMissing, InvRecoversPrefix DEF FileWhole
<1>2. Spec => []AofInv
  BY AofInvariant
<1> QED BY <1>1, <1>2, PTL

-----------------------------------------------------------------------------
(* Acknowledged writes *)

\* A write that the log brings back was logged.
LEMMA ReplayedWasLogged ==
  ASSUME NEW E \in Seq(Command), NEW n, NEW d \in DBs, NEW p \in 1..Len(Replay(E)[d]), Replay(E)[d][p] = n
  PROVE  \E i \in 1..Len(E) : E[i] = Write(n)
<1> DEFINE Has(m) == \E x \in DBs : \E j \in 1..Len(Replay(Upto(E, m))[x]) : Replay(Upto(E, m))[x][j] = n
           N == Len(E)
           P(m) == Has(m) => \E i \in 1..m : E[i] = Write(n)
           T == {m \in 0..N : ~ P(m)}
<1>1. N \in Nat /\ Upto(E, N) = E /\ Upto(E, 0) = <<>>
  BY UptoEnds
<1>2. T = {}
  <2> SUFFICES ASSUME T # {} PROVE FALSE
    OBVIOUS
  <2>1. PICK m \in T : \A k \in Nat : k < m => k \notin T
    <3>1. T \in SUBSET Nat
      BY <1>1
    <3> HIDE DEF T
    <3> QED BY <3>1, LeastIn
  <2>2. m \in 0..N /\ Has(m) /\ ~ \E i \in 1..m : E[i] = Write(n)
    BY <2>1
  <2>3. PICK x \in DBs : \E j \in 1..Len(Replay(Upto(E, m))[x]) : Replay(Upto(E, m))[x][j] = n
    BY <2>2
  <2>4. PICK j \in 1..Len(Replay(Upto(E, m))[x]) : Replay(Upto(E, m))[x][j] = n
    BY <2>3
  <2>5. m # 0
    <3>1. ASSUME m = 0 PROVE FALSE
      <4>1. Replay(Upto(E, m)) = EmptyDBs
        BY <1>1, <3>1, ReplayedNothing DEF Replay, LoaderStart
      <4>2. Replay(Upto(E, m))[x] = <<>>
        BY <4>1 DEF EmptyDBs
      <4> QED BY <2>4, <4>2
    <3> QED BY <3>1
  <2> DEFINE A == Upto(E, m - 1)
             e == E[m]
             D == Replay(A)
  <2>6. Upto(E, m) = Append(A, e) /\ e \in Command /\ A \in Seq(Command) /\ m - 1 \in Nat
    BY <1>1, <2>2, <2>5, UptoStep
  <2>7. Replayed(Upto(E, m)) = RunCommand(Replayed(A), e) /\ Replayed(A) \in LoaderState
    BY <2>6, ReplayedAppend, ReplayedType
  <2>8. D \in [DBs -> Seq(Nat)] /\ Replayed(A).db \in DBs /\ D = Replayed(A).data
    BY <2>7 DEF LoaderState, Replay
  <2>9. m - 1 \in 0..N /\ m - 1 < m /\ m \in 1..m
    <3>1. N \in Nat /\ m \in 0..N /\ m # 0
      BY <1>1, <2>2, <2>5
    <3> HIDE DEF N
    <3> QED BY <3>1
  <2>10. ~ Has(m - 1)
    <3>1. m - 1 \notin T
      BY <2>1, <2>6, <2>9
    <3>2. P(m - 1)
      BY <2>9, <3>1
    <3>3. \A i \in 1..(m - 1) : i \in 1..m
      BY <2>2
    <3> HIDE DEF Has
    <3> QED BY <2>2, <3>2, <3>3
  <2>11. \A y \in DBs : \A i \in 1..Len(D[y]) : D[y][i] # n
    BY <2>10
  <2> HIDE DEF Has, T, D, A
  <2>12. CASE \E db \in DBs : e = Select(db)
    <3>1. PICK db \in DBs : e = Select(db)
      BY <2>12
    <3>2. RunCommand(Replayed(A), e).data = D
      BY <2>7, <2>8, <3>1, RunSelect
    <3>3. Replay(Upto(E, m)) = D
      BY <2>7, <3>2 DEF Replay
    <3> QED BY <2>4, <2>11, <3>3
  <2>13. CASE \E w \in Nat : e = Write(w)
    <3>1. PICK w \in Nat : e = Write(w)
      BY <2>13
    <3> DEFINE z == Replayed(A).db
    <3>2. RunCommand(Replayed(A), e).data = [D EXCEPT ![z] = Append(@, w)]
      <4> DEFINE s == Replayed(A)
                 v == [s.data EXCEPT ![s.db] = Append(@, w)]
      <4>1. RunCommand(s, Write(w)) = [db |-> s.db, data |-> v]
        BY <2>7, RunWrite
      <4> HIDE DEF v
      <4>2. RunCommand(s, Write(w)).data = v
        BY <4>1
      <4> QED BY <2>8, <3>1, <4>2 DEF v
    <3>3. Replay(Upto(E, m)) = [D EXCEPT ![z] = Append(@, w)]
      BY <2>7, <3>2 DEF Replay
    <3>4. z \in DBs
      BY <2>8
    <3> HIDE DEF z
    <3>5. CASE x # z
      <4>1. Replay(Upto(E, m))[x] = D[x]
        BY <2>8, <3>3, <3>5
      <4> QED BY <2>4, <2>11, <4>1
    <3>6. CASE x = z
      <4> DEFINE s == D[x]
      <4>1. Replay(Upto(E, m))[x] = Append(s, w) /\ s \in Seq(Nat)
        BY <2>8, <3>3, <3>6
      <4>2. \A i \in 1..Len(s) : s[i] # n
        BY <2>11
      <4>3. j \in 1..Len(Append(s, w)) /\ Append(s, w)[j] = n
        BY <2>4, <4>1
      <4> HIDE DEF s
      <4>4. j = Len(s) + 1 \/ j \in 1..Len(s)
        BY <4>1, <4>3
      <4>5. n = w
        BY <3>1, <4>1, <4>2, <4>3, <4>4
      <4> QED BY <2>2, <2>9, <3>1, <4>5
    <3> QED BY <3>5, <3>6
  <2> QED BY <2>6, <2>12, <2>13, Commands
<1>3. P(N)
  <2>1. N \in 0..N
    BY <1>1
  <2> HIDE DEF P
  <2> QED BY <1>2, <2>1
<1>4. Has(N)
  BY <1>1
<1> QED BY <1>3, <1>4

\* The databases after k writes hold each of them.
LEMMA ExecutedHolds ==
  ASSUME NEW h \in Seq(DBs), NEW k \in 0..Len(h), NEW n \in 1..k
  PROVE  \E d \in DBs : \E p \in 1..Len(After(h, k)[d]) : After(h, k)[d][p] = n
<1> DEFINE P(m) == \E d \in DBs : \E p \in 1..Len(After(h, m)[d]) : After(h, m)[d][p] = n
           T == {m \in n..k : ~ P(m)}
<1>1. k \in Nat /\ n \in Nat \ {0} /\ n <= k /\ k <= Len(h) /\ Len(h) \in Nat
  OBVIOUS
<1>2. T = {}
  <2> SUFFICES ASSUME T # {} PROVE FALSE
    OBVIOUS
  <2>1. PICK m \in T : \A x \in Nat : x < m => x \notin T
    <3>1. T \in SUBSET Nat
      BY <1>1
    <3> HIDE DEF T
    <3> QED BY <3>1, LeastIn
  <2>2. m \in n..k /\ ~ P(m)
    BY <2>1
  <2>3. m \in 1..Len(h) /\ m - 1 \in Nat /\ m - 1 < m /\ m \in Nat
    BY <1>1, <2>2
  <2> DEFINE A == Upto(h, m - 1)
             d == h[m]
             D == After(h, m - 1)
  <2>4. Upto(h, m) = Append(A, d) /\ d \in DBs /\ A \in Seq(DBs) /\ Len(A) = m - 1
    BY <2>3, UptoStep
  <2>5. After(h, m) = Stored(D, d, m)
    <3>1. Executed(Append(A, d)) = Stored(Executed(A), d, Len(A) + 1)
      BY <2>4, ExecutedAppend
    <3>2. Len(A) + 1 = m
      BY <2>3, <2>4
    <3> QED BY <2>4, <3>1, <3>2 DEF After
  <2>6. D \in [DBs -> Seq(Nat)]
    <3>1. D \in [DBs -> Seq(1..(m - 1))]
      BY <2>4, ExecutedType DEF After
    <3> QED BY <3>1
  <2> HIDE DEF D, A, d
  <2>7. After(h, m) = [D EXCEPT ![d] = Append(@, m)]
    BY <2>5 DEF Stored
  <2>8. CASE m = n
    <3> DEFINE s == D[d]
    <3>1. After(h, m)[d] = Append(s, m) /\ s \in Seq(Nat)
      BY <2>4, <2>6, <2>7
    <3> HIDE DEF s
    <3>2. Len(s) + 1 \in 1..Len(Append(s, m)) /\ Append(s, m)[Len(s) + 1] = m
      BY <2>3, <3>1
    <3>3. P(m)
      BY <2>4, <2>8, <3>1, <3>2
    <3> QED BY <2>2, <3>3
  <2>9. CASE m # n
    <3>1. m - 1 \in n..k
      BY <1>1, <2>2, <2>9
    <3>2. P(m - 1)
      BY <2>1, <2>3, <3>1
    <3>3. PICK x \in DBs : \E p \in 1..Len(D[x]) : D[x][p] = n
      BY <3>2 DEF D
    <3>4. PICK p \in 1..Len(D[x]) : D[x][p] = n
      BY <3>3
    <3> DEFINE s == D[x]
    <3>5. s \in Seq(Nat) /\ p \in 1..Len(s) /\ s[p] = n /\ After(h, m)[x] = IF x = d THEN Append(s, m) ELSE s
      BY <2>4, <2>6, <2>7, <3>4
    <3> HIDE DEF s
    <3>6. p \in 1..Len(Append(s, m)) /\ Append(s, m)[p] = n
      BY <2>3, <3>5
    <3>7. P(m)
      BY <3>5, <3>6
    <3> QED BY <2>2, <3>7
  <2> QED BY <2>8, <2>9
<1>3. P(k)
  <2>1. k \in n..k
    BY <1>1
  <2> HIDE DEF P
  <2> QED BY <1>2, <2>1
<1> QED BY <1>3

\* The durable part of a file brings back the first k writes.
DurableTo(f, h, k) == k \in 0..Len(h) /\ Replay(Entries(Upto(f.bytes, f.synced))) = After(h, k)

\* The durable part, when the file is the start of the bytes of a log.
LEMMA DurableEntries ==
  ASSUME NEW f, SoundFile(f), NEW h \in Seq(DBs), OnDisk(f, h)
  PROVE  /\ Entries(Upto(f.bytes, f.synced)) \in Seq(Command)
         /\ \E k : DurableTo(f, h, k)
<1>1. PICK L \in Seq(Command) :
        /\ Len(f.bytes) <= 2 * Len(L) /\ f.bytes = Upto(Bytes(L), Len(f.bytes))
        /\ PrefixLog(h, L, f.synced \div 2)
  BY DEF OnDisk
<1> DEFINE n == f.synced
           b == n \div 2
           F == f.bytes
           B == Bytes(L)
<1>2. F \in Seq(Byte) /\ Len(F) \in Nat /\ n \in Nat /\ n <= Len(F) /\ Len(L) \in Nat /\ B \in Seq(Byte) /\ Len(B) = 2 * Len(L)
  BY SoundFiles, BytesAt
<1>3. Len(F) <= 2 * Len(L) /\ F = Upto(B, Len(F)) /\ PrefixLog(h, L, b)
  BY <1>1
<1> HIDE DEF F, n, B
<1>4. b \in 0..Len(L) /\ b <= n \div 2 /\ n \in 0..2 * Len(L) /\ n \in 0..Len(F) /\ Len(F) \in 0..Len(B)
  BY <1>2, <1>3
<1> HIDE DEF b
<1>5. Upto(F, n) = Upto(B, n)
  <2>1. \A m \in 0..Len(F) : Upto(Upto(B, Len(F)), m) = Upto(B, m)
    BY <1>2, <1>4, UptoProperties
  <2> QED BY <1>3, <1>4, <2>1
<1>6. /\ \E k \in 0..Len(h) : Replay(Entries(Upto(B, n))) = After(h, k)
      /\ Entries(Upto(B, n)) = Upto(L, n \div 2) /\ n \div 2 \in b..Len(L)
  BY <1>3, <1>4, LogCut DEF B
<1>7. Upto(L, n \div 2) \in Seq(Command)
  <2>1. n \div 2 \in 0..Len(L)
    BY <1>2, <1>4, <1>6
  <2> QED BY <2>1, UptoProperties
<1> QED BY <1>5, <1>6, <1>7 DEF DurableTo, F, n

\* Two files that are starts of the same log: the one with more durable brings back no fewer writes.
LEMMA DurableGrows ==
  ASSUME NEW h \in Seq(DBs), NEW L \in Seq(Command), NEW f, NEW g, NEW k,
         SoundFile(f), SoundFile(g),
         Upto(f.bytes, f.synced) = Upto(Bytes(L), f.synced), Upto(g.bytes, g.synced) = Upto(Bytes(L), g.synced),
         f.synced \div 2 <= g.synced \div 2, g.synced <= 2 * Len(L), f.synced <= 2 * Len(L),
         PrefixLog(h, L, f.synced \div 2), DurableTo(f, h, k)
  PROVE  \E j \in k..Len(h) : DurableTo(g, h, j)
<1> DEFINE x == f.synced
           y == g.synced
           b == x \div 2
           e == y \div 2
           B == Bytes(L)
<1>1. x \in Nat /\ y \in Nat /\ Len(L) \in Nat /\ Len(h) \in Nat /\ k \in 0..Len(h)
  BY SoundFiles DEF DurableTo
<1>2. b <= e /\ y <= 2 * Len(L) /\ x <= 2 * Len(L) /\ PrefixLog(h, L, b)
  OBVIOUS
<1>3. Upto(f.bytes, x) = Upto(B, x) /\ Upto(g.bytes, y) = Upto(B, y)
  OBVIOUS
<1> HIDE DEF x, y, B
<1>4. b \in 0..Len(L) /\ b <= x \div 2 /\ b <= y \div 2 /\ x \in 0..2 * Len(L) /\ y \in 0..2 * Len(L)
  BY <1>1, <1>2
<1>5. Entries(Upto(B, x)) = Upto(L, b) /\ Entries(Upto(B, y)) = Upto(L, e) /\ e \in b..Len(L)
  <2>1. Entries(Upto(B, x)) = Upto(L, x \div 2)
    BY <1>2, <1>4, LogCut DEF B
  <2>2. Entries(Upto(B, y)) = Upto(L, y \div 2) /\ y \div 2 \in b..Len(L)
    BY <1>2, <1>4, LogCut DEF B
  <2> QED BY <2>1, <2>2
<1> HIDE DEF b, e
<1>6. b \in b..e
  BY <1>1, <1>2, <1>4, <1>5
<1>7. PICK j \in 0..Len(h) : \E i \in 0..j : Replay(Upto(L, e)) = After(h, j) /\ Replay(Upto(L, b)) = After(h, i)
  BY <1>2, <1>5, <1>6 DEF PrefixLog
<1>8. PICK i \in 0..j : Replay(Upto(L, b)) = After(h, i)
  BY <1>7
<1>9. i = k
  <2>1. After(h, k) = After(h, i)
    BY <1>3, <1>5, <1>8 DEF DurableTo, x
  <2>2. i \in 0..Len(h)
    BY <1>1
  <2> QED BY <1>1, <2>1, <2>2, ExecutedGrows DEF After
<1>10. j \in k..Len(h)
  BY <1>1, <1>9
<1>11. DurableTo(g, h, j)
  BY <1>3, <1>5, <1>7 DEF DurableTo, y
<1> QED BY <1>10, <1>11

LEMMA FullyDurable ==
  ASSUME NEW f, SoundFile(f), NEW h \in Seq(DBs), NEW db, Kept(f, <<>>, h, db), f.synced = Len(f.bytes)
  PROVE  DurableTo(f, h, Len(h))
<1> DEFINE F == f.bytes
<1>1. F \in Seq(Byte) /\ Len(h) \in 0..Len(h)
  BY SoundFiles
<1>2. Replay(Entries(F \o <<>>)) = After(h, Len(h))
  BY Nothing, KeptLoads
<1>3. f.synced = Len(F)
  OBVIOUS
<1> HIDE DEF F
<1>4. F \o <<>> = F /\ Upto(F, Len(F)) = F
  BY <1>1, UptoEnds
<1> QED BY <1>1, <1>2, <1>3, <1>4 DEF DurableTo, F

LEMMA KeptDurable ==
  ASSUME NEW f, SoundFile(f), NEW buf \in Seq(Byte), NEW h \in Seq(DBs), NEW db, Kept(f, buf, h, db),
         NEW g, SoundFile(g), NEW c \in Seq(Byte), g.bytes \o c = f.bytes \o buf, f.synced <= g.synced,
         NEW k, DurableTo(f, h, k)
  PROVE  \E j \in k..Len(h) : DurableTo(g, h, j)
<1>1. PICK L : f.bytes \o buf = Bytes(L) /\ LogOf(h, L, f.synced \div 2, db)
  BY DEF Kept
<1> DEFINE F == f.bytes
           G == g.bytes
           B == Bytes(L)
           x == f.synced
           y == g.synced
<1>2. L \in Seq(Command) /\ PrefixLog(h, L, x \div 2) /\ B = F \o buf /\ B = G \o c
  BY <1>1 DEF LogOf
<1>3. /\ F \in Seq(Byte) /\ G \in Seq(Byte) /\ x \in Nat /\ y \in Nat /\ x <= Len(F) /\ y <= Len(G) /\ x <= y
      /\ Len(F) \in Nat /\ Len(G) \in Nat /\ Len(buf) \in Nat /\ Len(c) \in Nat
  BY SoundFiles
<1>4. Len(B) = 2 * Len(L) /\ Len(L) \in Nat
  BY <1>2, BytesAt
<1> HIDE DEF F, G, B, x, y
<1>5. /\ Len(B) = Len(F) + Len(buf) /\ \A n \in 0..Len(F) : Upto(B, n) = Upto(F, n)
      /\ Len(B) = Len(G) + Len(c) /\ \A n \in 0..Len(G) : Upto(B, n) = Upto(G, n)
  <2>1. Len(F \o buf) = Len(F) + Len(buf) /\ \A n \in 0..Len(F) : Upto(F \o buf, n) = Upto(F, n)
    BY <1>3, UptoConcat
  <2>2. Len(G \o c) = Len(G) + Len(c) /\ \A n \in 0..Len(G) : Upto(G \o c, n) = Upto(G, n)
    BY <1>3, UptoConcat
  <2> QED BY <1>2, <2>1, <2>2
<1>6. Upto(F, x) = Upto(B, x) /\ Upto(G, y) = Upto(B, y) /\ x <= 2 * Len(L) /\ y <= 2 * Len(L) /\ x \div 2 <= y \div 2
  <2>1. x \in 0..Len(F) /\ y \in 0..Len(G)
    BY <1>3
  <2>2. x <= 2 * Len(L) /\ y <= 2 * Len(L) /\ x \div 2 <= y \div 2
    BY <1>3, <1>4, <1>5
  <2> QED BY <1>5, <2>1, <2>2
<1> QED BY <1>2, <1>6, DurableGrows DEF F, G, B, x, y

LEMMA DiskDurable ==
  ASSUME NEW f, SoundFile(f), NEW h \in Seq(DBs), OnDisk(f, h), NEW n \in 0..Len(f.bytes), f.synced \div 2 <= n \div 2,
         NEW g, g = [bytes |-> SubSeq(f.bytes, 1, n), synced |-> n],
         NEW k, DurableTo(f, h, k)
  PROVE  \E j \in k..Len(h) : DurableTo(g, h, j)
<1>1. PICK L \in Seq(Command) :
        /\ Len(f.bytes) <= 2 * Len(L) /\ f.bytes = Upto(Bytes(L), Len(f.bytes))
        /\ PrefixLog(h, L, f.synced \div 2)
  BY DEF OnDisk
<1>2. SoundFile(g)
  BY OnDiskCut
<1> DEFINE F == f.bytes
           B == Bytes(L)
           x == f.synced
           G == Upto(F, n)
<1>3. F \in Seq(Byte) /\ x \in Nat /\ x <= Len(F) /\ Len(F) \in Nat /\ n \in 0..Len(F) /\ Len(L) \in Nat
      /\ B \in Seq(Byte) /\ Len(B) = 2 * Len(L)
  BY SoundFiles, BytesAt
<1>4. Len(F) <= 2 * Len(L) /\ F = Upto(B, Len(F)) /\ g.bytes = G /\ g.synced = n /\ PrefixLog(h, L, x \div 2) /\ x \div 2 <= n \div 2
  BY <1>1 DEF Upto
<1> HIDE DEF F, B, x
<1>5. \A m \in 0..Len(F) : Upto(F, m) = Upto(B, m)
  <2>1. Len(F) \in 0..Len(B)
    BY <1>3, <1>4
  <2>2. \A m \in 0..Len(F) : Upto(Upto(B, Len(F)), m) = Upto(B, m)
    BY <1>3, <2>1, UptoProperties
  <2> QED BY <1>4, <2>2
<1>6. Upto(G, n) = G
  <2>1. G \in Seq(Byte) /\ Len(G) = n
    BY <1>3, UptoProperties
  <2> HIDE DEF G
  <2> QED BY <2>1, UptoEnds
<1>7. Upto(F, x) = Upto(B, x) /\ Upto(G, n) = Upto(B, n) /\ x <= 2 * Len(L) /\ n <= 2 * Len(L)
  <2>1. x \in 0..Len(F) /\ x <= 2 * Len(L) /\ n <= 2 * Len(L)
    BY <1>3, <1>4
  <2> QED BY <1>3, <1>5, <1>6, <2>1
<1> HIDE DEF G
<1> QED BY <1>2, <1>4, <1>7, DurableGrows DEF F, B, x

-----------------------------------------------------------------------------
(* The invariant of the acknowledgements *)

\* The write is durable before the reply can be sent: fsync at every flush and on a
\* rename, a flush between the execution of a command and the next writable event.
Synchronous == Fsync = "always" /\ ~ NoFsyncOnRewrite /\ ~ Pipelining /\ RenameBarrier /\ ~ Reconfigures

AckTyped ==
  /\ proc = "up" => aof_state = "on"
  /\ fired \in [Clients -> SUBSET {"r", "w"}]
  /\ \A c \in Clients : out[c] \subseteq 1..Len(hist)
  /\ out \in [Clients -> SUBSET Nat]
  /\ proc # "up" => \A c \in Clients : out[c] = {}

\* A reply that is queued is about a durable write, or the buffer that holds the write
\* is flushed before the reply can be sent.
RepliesHeld(k) ==
  /\ phase = "poll" => aof_buf = <<>>
  /\ aof_buf = <<>> => \A c \in Clients : out[c] \subseteq 1..k
  /\ phase = "events" => \A c \in Clients : "w" \in fired[c] => "r" \notin fired[c] /\ out[c] \subseteq 1..k

AckHeld(k) ==
  /\ DurableTo(file, hist, k) /\ acked \subseteq 1..k
  /\ proc = "up" => RepliesHeld(k)

\* The first k writes are durable, and only they are acknowledged.
AckInv == AckTyped /\ \E k : AckHeld(k)

\* No less is durable than before.
NoLessDurable == \A k : DurableTo(file, hist, k) => \E j \in k..Len(hist) : DurableTo(file', hist, j)

LEMMA SameFile == ASSUME hist \in Seq(DBs), file' = file PROVE NoLessDurable
<1> SUFFICES ASSUME NEW k, DurableTo(file, hist, k) PROVE \E j \in k..Len(hist) : DurableTo(file, hist, j)
  BY DEF NoLessDurable
<1>1. k \in k..Len(hist)
  BY DEF DurableTo
<1> QED BY <1>1

\* More of the file was made durable, or its end was cut.
LEMMA CutFile ==
  ASSUME hist \in Seq(DBs), SoundFile(file), OnDisk(file, hist),
         NEW n \in 0..Len(file.bytes), file.synced \div 2 <= n \div 2,
         file' = [bytes |-> SubSeq(file.bytes, 1, n), synced |-> n]
  PROVE  NoLessDurable
<1> DEFINE g == [bytes |-> SubSeq(file.bytes, 1, n), synced |-> n]
<1>1. \A k : DurableTo(file, hist, k) => \E j \in k..Len(hist) : DurableTo(g, hist, j)
  BY DiskDurable
<1> HIDE DEF g
<1>2. file' = g
  BY DEF g
<1> QED BY <1>1, <1>2 DEF NoLessDurable

LEMMA HalfOf ==
  ASSUME NEW f, SoundFile(f), NEW n \in f.synced..Len(f.bytes)
  PROVE  n \in 0..Len(f.bytes) /\ f.synced \div 2 <= n \div 2
<1> DEFINE x == f.synced
           y == Len(f.bytes)
<1>1. x \in Nat /\ y \in Nat /\ n \in x..y
  BY SoundFiles
<1> HIDE DEF x, y
<1>2. n \in 0..y /\ x \div 2 <= n \div 2
  BY <1>1
<1> QED BY <1>2 DEF x, y

\* fsync
LEMMA SyncFile ==
  ASSUME hist \in Seq(DBs), SoundFile(file), OnDisk(file, hist), file' = [file EXCEPT !.synced = Len(file.bytes)]
  PROVE  NoLessDurable
<1> DEFINE n == Len(file.bytes)
<1>1. file = [bytes |-> file.bytes, synced |-> file.synced] /\ n \in file.synced..n /\ SubSeq(file.bytes, 1, n) = file.bytes
  BY SoundFiles, UptoEnds DEF Upto
<1>2. n \in 0..n /\ file.synced \div 2 <= n \div 2
  BY <1>1, HalfOf
<1> HIDE DEF n
<1>3. file' = [bytes |-> file.bytes, synced |-> n]
  BY <1>1 DEF n
<1> QED BY <1>1, <1>2, <1>3, CutFile DEF n

LEMMA AckFrame ==
  ASSUME AckInv, UNCHANGED <<proc, aof_state, out, acked, hist, aof_buf>>, NoLessDurable, hist \in Seq(DBs),
         phase' = "poll" => phase = "poll" \/ aof_buf = <<>>,
         phase' = "events" => phase = "events",
         fired' \in [Clients -> SUBSET {"r", "w"}],
         phase' = "events" => \A c \in Clients : fired'[c] \subseteq fired[c]
  PROVE  AckInv'
<1>1. PICK k : AckHeld(k)
  BY DEF AckInv
<1>2. PICK j \in k..Len(hist) : DurableTo(file', hist, j)
  BY <1>1 DEF AckHeld, NoLessDurable
<1>3. 1..k \subseteq 1..j
  <2>1. k \in Nat /\ j \in Nat /\ k <= j
    BY <1>1, <1>2 DEF AckHeld, DurableTo
  <2> QED BY <2>1
<1>4. acked' \subseteq 1..j
  BY <1>1, <1>3 DEF AckHeld
<1>5. ASSUME proc = "up" PROVE RepliesHeld(j)'
  <2>1. RepliesHeld(k)
    BY <1>1, <1>5 DEF AckHeld
  <2>2. aof_buf' = <<>> => \A c \in Clients : out'[c] \subseteq 1..j
    BY <1>3, <2>1 DEF RepliesHeld
  <2>3. phase' = "events" => \A c \in Clients : "w" \in fired'[c] => "r" \notin fired'[c] /\ out'[c] \subseteq 1..j
    <3> SUFFICES ASSUME phase' = "events", NEW c \in Clients, "w" \in fired'[c]
                 PROVE  "r" \notin fired'[c] /\ out'[c] \subseteq 1..j
      OBVIOUS
    <3>1. phase = "events" /\ fired'[c] \subseteq fired[c]
      OBVIOUS
    <3>2. "r" \notin fired[c]
      <4>1. "w" \in fired[c]
        BY <3>1
      <4> QED BY <2>1, <3>1, <4>1 DEF RepliesHeld
    <3>3. out[c] \subseteq 1..k
      BY <2>1, <3>1 DEF RepliesHeld
    <3> QED BY <1>3, <3>1, <3>2, <3>3
  <2> QED BY <2>1, <2>2, <2>3 DEF RepliesHeld
<1>6. AckHeld(j)'
  BY <1>2, <1>4, <1>5 DEF AckHeld
<1>7. AckTyped'
  BY DEF AckInv, AckTyped
<1> QED BY <1>6, <1>7 DEF AckInv

\* Everything executed is durable.
LEMMA AckAll ==
  ASSUME AckInv, UNCHANGED <<proc, aof_state, out, acked, hist, fired>>, hist \in Seq(DBs),
         DurableTo(file', hist, Len(hist)), phase' # "events", aof_buf' = <<>> \/ phase' # "poll"
  PROVE  AckInv'
<1>1. PICK k : AckHeld(k)
  BY DEF AckInv
<1> DEFINE n == Len(hist)
<1>2. acked \subseteq 1..n /\ \A c \in Clients : out[c] \subseteq 1..n
  <2>1. k \in 0..n /\ n \in Nat
    BY <1>1 DEF AckHeld, DurableTo
  <2>2. 1..k \subseteq 1..n
    BY <2>1
  <2> QED BY <1>1, <2>2 DEF AckHeld, AckInv, AckTyped
<1>3. AckHeld(n)'
  <2> HIDE DEF n
  <2>1. DurableTo(file', hist', n')
    BY DEF n
  <2> QED BY <1>2, <2>1 DEF AckHeld, RepliesHeld, n
<1>4. AckTyped'
  BY DEF AckInv, AckTyped
<1> QED BY <1>3, <1>4 DEF AckInv

\* The process ends; what is durable stays durable.
LEMMA AckEnds ==
  ASSUME AckInv, hist \in Seq(DBs), NEW how, how # "up", Ends(how), NoLessDurable
  PROVE  AckInv'
<1>1. PICK k : AckHeld(k)
  BY DEF AckInv
<1>2. PICK j \in k..Len(hist) : DurableTo(file', hist, j)
  BY <1>1 DEF AckHeld, NoLessDurable
<1>3. k \in Nat /\ j \in Nat /\ k <= j
  BY <1>1, <1>2 DEF AckHeld, DurableTo
<1>4. 1..k \subseteq 1..j
  BY <1>3
<1>5. acked' \subseteq 1..j /\ hist' = hist /\ proc' # "up"
  BY <1>1, <1>4 DEF AckHeld, Ends
<1>6. AckHeld(j)'
  BY <1>2, <1>5 DEF AckHeld
<1>7. AckTyped'
  BY <1>5 DEF AckTyped, Ends
<1> QED BY <1>6, <1>7 DEF AckInv

-----------------------------------------------------------------------------
(* The steps, under appendfsync always *)

LEMMA SyncCleanStop == Synchronous => CleanStop
BY DEF Synchronous, CleanStop

LEMMA AckInit == Init => AckInv
<1> SUFFICES ASSUME Init PROVE AckInv
  OBVIOUS
<1>1. /\ hist = <<>> /\ file = [bytes |-> <<>>, synced |-> 0] /\ aof_buf = <<>> /\ acked = {} /\ proc = "up"
      /\ aof_state = "on" /\ out = [c \in Clients |-> {}] /\ fired = [c \in Clients |-> {}] /\ phase = "before"
  BY DEF Init
<1>2. AofInv
  BY InitSound
<1>3. SoundFile(file) /\ Kept(file, <<>>, hist, aof_selected_db) /\ hist \in Seq(DBs) /\ file.synced = 0 /\ file.bytes = <<>>
  BY <1>1, <1>2 DEF AofInv, FileSound, LogSound, Typed
<1>4. DurableTo(file, hist, Len(hist)) /\ Len(hist) = 0
  <2>1. Len(<<>>) = 0
    OBVIOUS
  <2>2. file.synced = Len(file.bytes)
    BY <1>3, <2>1
  <2> QED BY <1>1, <1>3, <2>1, <2>2, FullyDurable
<1>5. AckHeld(0)
  BY <1>1, <1>4 DEF AckHeld, RepliesHeld
<1>6. AckTyped
  BY <1>1 DEF AckTyped
<1> QED BY <1>5, <1>6 DEF AckInv

LEMMA AckTimers ==
  ASSUME AofInv, AckInv,
         (\E next \in {"cron", "before"} : processTimeEvents(next)) \/ (\E c \in Clients : RefuseWrite(c)) \/ RdbChild \/ ChildExits
           \/ bgrewriteaofCommand \/ serverCron \/ RewriteFails
  PROVE  AckInv'
<1>1. hist \in Seq(DBs)
  BY DEF AofInv, Typed
<1>2. fired \in [Clients -> SUBSET {"r", "w"}]
  BY DEF AckInv, AckTyped
<1>3. CASE (\E next \in {"cron", "before"} : processTimeEvents(next)) \/ RdbChild \/ ChildExits \/ bgrewriteaofCommand
  <2>1. /\ UNCHANGED <<proc, aof_state, out, acked, hist, file, aof_buf, fired>>
        /\ phase' = phase \/ phase' \in {"cron", "before"}
    BY <1>3 DEF processTimeEvents, RdbChild, ChildExits, bgrewriteaofCommand, loopVars, clientVars, flushVars, aofVars
  <2> QED BY <1>1, <1>2, <2>1, SameFile, AckFrame
<1>4. CASE \E c \in Clients : RefuseWrite(c)
  <2>1. PICK c \in Clients : RefuseWrite(c)
    BY <1>4
  <2>2. UNCHANGED <<proc, phase, aof_state, out, acked, hist, file, aof_buf>> /\ fired' = [fired EXCEPT ![c] = @ \ {"r"}]
    BY <2>1 DEF RefuseWrite, Served, clientVars, flushVars, aofVars
  <2>3. fired' \in [Clients -> SUBSET {"r", "w"}] /\ \A x \in Clients : fired'[x] \subseteq fired[x]
    BY <1>2, <2>2
  <2> QED BY <1>1, <2>2, <2>3, SameFile, AckFrame
<1>5. CASE serverCron \/ RewriteFails
  <2>1. UNCHANGED <<proc, aof_state, out, acked, hist, file, aof_buf, fired>> /\ phase' = AfterChildren
    BY <1>5 DEF serverCron, RewriteFails, clientVars
  <2> QED BY <1>1, <1>2, <2>1, AfterChildrenPhase, SameFile, AckFrame
<1> QED BY <1>3, <1>4, <1>5

LEMMA AckPoll ==
  ASSUME ~ Pipelining, AckInv, aeApiPoll
  PROVE  AckInv'
<1>1. /\ proc = "up" /\ phase = "poll" /\ phase' = "events"
      /\ UNCHANGED <<proc, aof_state, out, acked, hist, file, aof_buf>>
      /\ fired' \in [Clients -> SUBSET {"r", "w"}] /\ \A c \in Clients : fired'[c] \subseteq Pollable(c)
  BY DEF aeApiPoll, clientVars, flushVars, aofVars
<1>2. PICK k : AckHeld(k)
  BY DEF AckInv
<1>3. \A c \in Clients : out[c] \subseteq 1..k
  BY <1>1, <1>2 DEF AckHeld, RepliesHeld
<1>4. \A c \in Clients : "w" \in fired'[c] => "r" \notin fired'[c]
  BY <1>1 DEF Pollable
<1>5. RepliesHeld(k)'
  BY <1>1, <1>3, <1>4 DEF RepliesHeld
<1>6. AckHeld(k)'
  BY <1>1, <1>2, <1>5 DEF AckHeld
<1>7. AckTyped'
  BY <1>1 DEF AckInv, AckTyped
<1> QED BY <1>6, <1>7 DEF AckInv

LEMMA AckReply ==
  ASSUME AckInv, NEW c \in Clients, sendReplyToClient(c)
  PROVE  AckInv'
<1>1. /\ proc = "up" /\ phase = "events" /\ "w" \in fired[c]
      /\ UNCHANGED <<proc, phase, aof_state, hist, file, aof_buf>>
      /\ fired' = [fired EXCEPT ![c] = @ \ {"w"}]
      /\ acked' = acked \union out[c] /\ out' = [out EXCEPT ![c] = {}]
  BY DEF sendReplyToClient, Serving, Served, flushVars, aofVars
<1>2. /\ fired \in [Clients -> SUBSET {"r", "w"}] /\ out \in [Clients -> SUBSET Nat]
      /\ \A x \in Clients : out[x] \subseteq 1..Len(hist)
  BY DEF AckInv, AckTyped
<1>3. PICK k : AckHeld(k)
  BY DEF AckInv
<1>4. RepliesHeld(k) /\ out[c] \subseteq 1..k
  BY <1>1, <1>3 DEF AckHeld, RepliesHeld
<1>5. \A x \in Clients : fired'[x] \subseteq fired[x] /\ out'[x] \subseteq out[x]
  BY <1>1, <1>2
<1>6. RepliesHeld(k)'
  <2>1. aof_buf' = <<>> => \A x \in Clients : out'[x] \subseteq 1..k
    BY <1>1, <1>4, <1>5 DEF RepliesHeld
  <2>2. ASSUME NEW x \in Clients, "w" \in fired'[x] PROVE "r" \notin fired'[x] /\ out'[x] \subseteq 1..k
    <3>1. "w" \in fired[x]
      BY <1>5, <2>2
    <3>2. "r" \notin fired[x] /\ out[x] \subseteq 1..k
      BY <1>1, <1>4, <3>1 DEF RepliesHeld
    <3> QED BY <1>5, <3>2
  <2> QED BY <1>1, <2>1, <2>2 DEF RepliesHeld
<1>7. AckHeld(k)'
  BY <1>1, <1>3, <1>4, <1>6 DEF AckHeld
<1>8. AckTyped'
  <2>1. fired' \in [Clients -> SUBSET {"r", "w"}] /\ out' \in [Clients -> SUBSET Nat]
    BY <1>1, <1>2
  <2>2. \A x \in Clients : out'[x] \subseteq 1..Len(hist')
    BY <1>1, <1>2, <1>5
  <2> QED BY <1>1, <2>1, <2>2 DEF AckInv, AckTyped
<1> QED BY <1>7, <1>8 DEF AckInv

LEMMA FedSomething == ASSUME NEW buf \in Seq(Byte), NEW n \in Nat, NEW d \in DBs PROVE buf \o Fed(n, d) # <<>>
<1> DEFINE s == IF d = aof_selected_db THEN <<>> ELSE <<Select(d)>>
           w == <<Write(n)>>
           L == s \o w
           B == Bytes(L)
<1>1. s \in Seq(Command) /\ w \in Seq(Command) /\ Len(w) = 1
  BY Commands
<1>2. Fed(n, d) = B
  BY DEF Fed
<1> HIDE DEF s, w
<1>3. L \in Seq(Command) /\ Len(L) = Len(s) + Len(w) /\ Len(s) \in Nat
  <2>1. s \o w \in Seq(Command) /\ Len(s \o w) = Len(s) + Len(w)
    BY <1>1, UptoConcat
  <2> QED BY <1>1, <2>1
<1> HIDE DEF L
<1>4. B \in Seq(Byte) /\ Len(B) = 2 * Len(L)
  BY <1>3, BytesAt
<1>5. Len(L) >= 1 /\ Len(L) \in Nat
  BY <1>1, <1>3
<1> HIDE DEF B
<1>6. Len(B) > 0 /\ Len(B) \in Nat /\ Len(buf) \in Nat
  BY <1>4, <1>5
<1>7. Len(buf \o B) = Len(buf) + Len(B)
  BY <1>4, UptoConcat
<1>8. Len(buf \o B) # 0
  BY <1>6, <1>7
<1>9. Len(<<>>) = 0
  OBVIOUS
<1> QED BY <1>2, <1>8, <1>9

LEMMA AckCall ==
  ASSUME AofInv, AckInv, NEW c \in Clients, NEW d \in DBs, call(c, d)
  PROVE  AckInv'
<1> DEFINE n == Len(hist) + 1
<1>1. /\ proc = "up" /\ phase = "events" /\ "r" \in fired[c]
      /\ UNCHANGED <<proc, phase, acked, aof_state, file>>
      /\ fired' = [fired EXCEPT ![c] = @ \ {"r"}]
      /\ hist' = Append(hist, d) /\ out' = [out EXCEPT ![c] = @ \union {n}]
  BY DEF call, Serving, Served
<1>2. /\ fired \in [Clients -> SUBSET {"r", "w"}] /\ out \in [Clients -> SUBSET Nat] /\ aof_state = "on"
      /\ \A x \in Clients : out[x] \subseteq 1..Len(hist)
  BY <1>1 DEF AckInv, AckTyped
<1>3. hist \in Seq(DBs) /\ aof_buf \in Seq(Byte) /\ Len(hist) \in Nat
  BY <1>2 DEF AofInv, Typed, BufferSound
<1>4. PICK k : AckHeld(k)
  BY DEF AckInv
<1>5. aof_buf' # <<>>
  <2>1. aof_buf' = aof_buf \o Fed(n, d)
    BY <1>2 DEF call, feedAppendOnlyFile
  <2>2. n \in Nat
    BY <1>3
  <2> HIDE DEF n
  <2> QED BY <1>3, <2>1, <2>2, FedSomething
<1>6. Len(hist') = n /\ \A m \in 0..Len(hist) : After(hist', m) = After(hist, m)
  BY <1>1, <1>3, AfterAppend
<1>7. n \in Nat /\ n = Len(hist) + 1
  BY <1>3
<1> HIDE DEF n
<1>8. DurableTo(file', hist', k)
  <2>1. DurableTo(file, hist, k)
    BY <1>4 DEF AckHeld
  <2>2. k \in 0..Len(hist) /\ k \in 0..Len(hist')
    BY <1>3, <1>6, <1>7, <2>1 DEF DurableTo
  <2> QED BY <1>1, <1>6, <2>1, <2>2 DEF DurableTo
<1>9. RepliesHeld(k)'
  <2>1. RepliesHeld(k)
    BY <1>1, <1>4 DEF AckHeld
  <2>2. "w" \notin fired[c]
    BY <1>1, <2>1 DEF RepliesHeld
  <2>3. ASSUME NEW x \in Clients, "w" \in fired'[x] PROVE "r" \notin fired'[x] /\ out'[x] \subseteq 1..k
    <3>1. x # c
      BY <1>1, <1>2, <2>2, <2>3
    <3>2. fired'[x] = fired[x] /\ out'[x] = out[x]
      BY <1>1, <1>2, <3>1
    <3>3. "w" \in fired[x] /\ phase = "events"
      BY <1>1, <2>3, <3>2
    <3>4. "r" \notin fired[x] /\ out[x] \subseteq 1..k
      BY <2>1, <3>3 DEF RepliesHeld
    <3> QED BY <3>2, <3>4
  <2> QED BY <1>1, <1>5, <2>3 DEF RepliesHeld
<1>10. AckHeld(k)'
  BY <1>1, <1>4, <1>8, <1>9 DEF AckHeld
<1>11. AckTyped'
  <2>1. fired' \in [Clients -> SUBSET {"r", "w"}]
    BY <1>1, <1>2
  <2>2. out' \in [Clients -> SUBSET Nat]
    BY <1>1, <1>2, <1>7
  <2>3. 1..Len(hist) \subseteq 1..n /\ n \in 1..n
    BY <1>3, <1>7
  <2>4. \A x \in Clients : out'[x] \subseteq 1..Len(hist')
    BY <1>1, <1>2, <1>6, <2>3
  <2> QED BY <1>1, <1>2, <2>1, <2>2, <2>4 DEF AckTyped
<1> QED BY <1>10, <1>11 DEF AckInv


LEMMA AckFlush ==
  ASSUME Synchronous, AofInv, AckInv, proc = "up", phase # "renamed",
         NEW next \in {"poll", "retry", "before"}, FlushThen(next)
  PROVE  AckInv'
<1>1. PICK r \in flushAppendOnlyFile(FALSE) :
        \/ /\ r.exits
           /\ Ends("killed")
           /\ file' = r.file /\ faults' = r.faults
           /\ UNCHANGED crashes
        \/ /\ ~r.exits
           /\ Flushed(r)
           /\ phase' = next
           /\ UNCHANGED <<proc, fired, clientVars, hist, aofVars, rewriteVars, crashes>>
  BY DEF FlushThen
<1>2. /\ hist \in Seq(DBs) /\ aof_state = "on" /\ SoundFile(file) /\ aof_buf \in Seq(Byte)
      /\ Kept(file, aof_buf, hist, aof_selected_db) /\ fired \in [Clients -> SUBSET {"r", "w"}]
  BY DEF AofInv, Typed, FileSound, BufferSound, LogSound, AckInv, AckTyped
<1>3. /\ Preserved(r) /\ Kind(r, FALSE) /\ SoundFile(r.file) /\ Kept(r.file, r.buf, hist, aof_selected_db)
  BY <1>2, FlushKeeps
<1>4. r.buf \in Seq(Byte) /\ r.file.bytes \o r.buf = file.bytes \o aof_buf /\ file.synced <= r.file.synced
  BY <1>3 DEF Preserved
<1>5. \A k : DurableTo(file, hist, k) => \E j \in k..Len(hist) : DurableTo(r.file, hist, j)
  BY <1>2, <1>3, <1>4, KeptDurable
<1>6. CASE r.exits /\ Ends("killed") /\ file' = r.file
  <2>1. NoLessDurable
    BY <1>5, <1>6 DEF NoLessDurable
  <2> QED BY <1>2, <1>6, <2>1, AckEnds
<1>7. CASE ~r.exits /\ Flushed(r) /\ phase' = next /\ UNCHANGED <<proc, fired, clientVars, hist, aofVars, rewriteVars, crashes>>
  <2>1. /\ file' = r.file /\ aof_buf' = r.buf /\ phase' = next
        /\ UNCHANGED <<proc, aof_state, out, acked, hist, fired>>
    BY <1>7 DEF Flushed, clientVars, aofVars
  <2>2. ~ Fatal(r)
    BY <1>7 DEF Fatal, Synchronous
  <2>3. (r.file = file /\ r.buf = aof_buf /\ aof_buf = <<>>) \/ (r.buf = <<>> /\ r.file.synced = Len(r.file.bytes))
    BY <1>3, <2>2 DEF Kind, Synchronous
  <2>4. CASE r.file = file /\ r.buf = aof_buf /\ aof_buf = <<>>
    BY <1>2, <2>1, <2>4, SameFile, AckFrame
  <2>5. CASE r.buf = <<>> /\ r.file.synced = Len(r.file.bytes)
    <3>1. DurableTo(file', hist, Len(hist))
      BY <1>2, <1>3, <2>1, <2>5, FullyDurable
    <3> QED BY <1>2, <2>1, <2>5, <3>1, AckAll
  <2> QED BY <2>3, <2>4, <2>5
<1> QED BY <1>1, <1>6, <1>7

LEMMA AckRewrite ==
  ASSUME Synchronous, AofInv, AofInv', AckInv, RewriteRename \/ backgroundRewriteDoneHandler
  PROVE  AckInv'
<1>1. /\ proc = "up" /\ UNCHANGED <<proc, fired, out, acked, hist>>
  BY DEF RewriteRename, backgroundRewriteDoneHandler, clientVars
<1>2. hist \in Seq(DBs) /\ aof_state = "on"
  BY <1>1 DEF AofInv, Typed, AckInv, AckTyped
<1>3. CASE RewriteRename
  <2>1. file' = Renamed /\ phase' = "renamed" /\ aof_state' = "on"
    BY <1>2, <1>3 DEF RewriteRename, aofVars
  <2>2. file'.synced = Len(file'.bytes)
    BY <2>1 DEF Renamed, Synchronous
  <2>3. SoundFile(file') /\ Kept(file', <<>>, hist', aof_selected_db')
    BY <2>1 DEF AofInv, FileSound, LogSound
  <2>4. DurableTo(file', hist, Len(hist))
    BY <1>1, <1>2, <2>2, <2>3, FullyDurable
  <2> QED BY <1>1, <1>2, <2>1, <2>4, AckAll
<1>4. CASE backgroundRewriteDoneHandler
  <2>1. phase' = AfterChildren /\ aof_state' = "on" /\ SwitchFile
    BY <1>2, <1>4 DEF backgroundRewriteDoneHandler, AofInv, DescriptorSound
  <2>2. file' = [file EXCEPT !.synced = Len(file.bytes)] /\ aof_buf' = <<>>
    BY <2>1 DEF SwitchFile, Synchronous
  <2>3. SoundFile(file)
    BY <1>2 DEF AofInv, FileSound
  <2>4. file'.synced = Len(file'.bytes)
    <3> DEFINE n == Len(file.bytes)
    <3>1. file = [bytes |-> file.bytes, synced |-> file.synced]
      BY <2>3, SoundFiles
    <3> HIDE DEF n
    <3>2. file' = [file EXCEPT !.synced = n]
      BY <2>2 DEF n
    <3>3. file'.synced = n /\ file'.bytes = file.bytes
      BY <3>1, <3>2
    <3> QED BY <3>3 DEF n
  <2>5. SoundFile(file') /\ Kept(file', <<>>, hist', aof_selected_db')
    BY <2>1, <2>2, AfterChildrenPhase DEF AofInv, FileSound, LogSound
  <2>6. DurableTo(file', hist, Len(hist))
    BY <1>1, <1>2, <2>4, <2>5, FullyDurable
  <2> QED BY <1>1, <1>2, <2>1, <2>2, <2>6, AfterChildrenPhase, AckAll
<1> QED BY <1>3, <1>4

LEMMA AckSync ==
  ASSUME Synchronous, AofInv, AckInv, bioProcessBackgroundJobs \/ Kill \/ PowerLoss \/ prepareForShutdown
  PROVE  AckInv'
<1>1. hist \in Seq(DBs) /\ SoundFile(file) /\ OnDisk(file, hist) /\ fired \in [Clients -> SUBSET {"r", "w"}]
  BY SyncCleanStop DEF AofInv, Typed, FileSound, LogSound, AckInv, AckTyped
<1>2. CASE bioProcessBackgroundJobs
  <2>1. /\ file' = file \/ file' = [file EXCEPT !.synced = Len(file.bytes)]
        /\ UNCHANGED <<proc, aof_state, out, acked, hist, aof_buf, phase, fired>>
    BY <1>2 DEF bioProcessBackgroundJobs, loopVars, clientVars, aofVars
  <2>2. NoLessDurable
    <3>1. CASE file' = file
      BY <1>1, <3>1, SameFile
    <3>2. CASE file' = [file EXCEPT !.synced = Len(file.bytes)]
      BY <1>1, <3>2, SyncFile
    <3> QED BY <2>1, <3>1, <3>2
  <2> QED BY <1>1, <2>1, <2>2, AckFrame
<1>3. CASE Kill
  <2>1. Ends("killed") /\ file' = file
    BY <1>3 DEF Kill
  <2> QED BY <1>1, <2>1, SameFile, AckEnds
<1>4. CASE PowerLoss
  <2>1. Ends("killed")
    BY <1>4 DEF PowerLoss
  <2>2. PICK n \in file.synced..Len(file.bytes) : file' = [bytes |-> SubSeq(file.bytes, 1, n), synced |-> n]
    BY <1>4 DEF PowerLoss
  <2>3. n \in 0..Len(file.bytes) /\ file.synced \div 2 <= n \div 2
    BY <1>1, HalfOf
  <2>4. NoLessDurable
    BY <1>1, <2>2, <2>3, CutFile
  <2> QED BY <1>1, <2>1, <2>4, AckEnds
<1>5. CASE prepareForShutdown
  <2>1. Ends("shutdown") /\ file' = [file EXCEPT !.synced = Len(file.bytes)]
    BY <1>5 DEF prepareForShutdown
  <2> QED BY <1>1, <2>1, SyncFile, AckEnds
<1> QED BY <1>2, <1>3, <1>4, <1>5

LEMMA AckCheck ==
  ASSUME Synchronous, AofInv, AckInv, redisCheckAof
  PROVE  AckInv'
<1> DEFINE n == 2 * Complete(file.bytes)
           y == Len(file.bytes)
<1>1. /\ file' = [bytes |-> SubSeq(file.bytes, 1, n), synced |-> n]
      /\ UNCHANGED <<proc, phase, fired, out, acked, hist, aof_state, aof_buf>>
  BY DEF redisCheckAof, loopVars, clientVars, aofVars
<1>2. hist \in Seq(DBs) /\ SoundFile(file) /\ OnDisk(file, hist) /\ fired \in [Clients -> SUBSET {"r", "w"}]
  BY SyncCleanStop DEF AofInv, Typed, FileSound, LogSound, AckInv, AckTyped
<1>3. y \in file.synced..Len(file.bytes) /\ y \in Nat
  BY <1>2, SoundFiles
<1>4. y \in 0..Len(file.bytes) /\ file.synced \div 2 <= y \div 2
  BY <1>2, <1>3, HalfOf
<1>5. Complete(file.bytes) = y \div 2
  BY <1>2, <1>4, OnDiskCut
<1>6. n = 2 * (y \div 2)
  BY <1>5
<1> HIDE DEF n
<1>7. n \in 0..Len(file.bytes) /\ file.synced \div 2 <= n \div 2
  <2>1. y = Len(file.bytes)
    OBVIOUS
  <2> HIDE DEF y
  <2>2. n \in 0..y /\ n \div 2 = y \div 2
    BY <1>3, <1>6
  <2> QED BY <1>4, <2>1, <2>2
<1>8. NoLessDurable
  BY <1>1, <1>2, <1>7, CutFile
<1> QED BY <1>1, <1>2, <1>8, AckFrame

\* The file that is loaded brings back what was executed, and no less than what was durable.
LEMMA LoadedUpto ==
  ASSUME CleanStop, AofInv, loadAppendOnlyFile
  PROVE  /\ Recovered(file.bytes) \in 0..Len(hist)
         /\ \A k : DurableTo(file, hist, k) => k <= Recovered(file.bytes)
<1> DEFINE R == Recovered(file.bytes)
           n == Len(file.bytes)
           g == [bytes |-> SubSeq(file.bytes, 1, n), synced |-> n]
<1>1. hist \in Seq(DBs) /\ SoundFile(file) /\ OnDisk(file, hist)
  BY DEF AofInv, Typed, FileSound, LogSound
<1>2. n \in Nat /\ n \in file.synced..Len(file.bytes) /\ file.bytes \in Seq(Byte)
  BY <1>1, SoundFiles
<1>3. n \in 0..Len(file.bytes) /\ file.synced \div 2 <= n \div 2
  BY <1>1, <1>2, HalfOf
<1>4. SubSeq(file.bytes, 1, n) = file.bytes /\ Upto(file.bytes, n) = file.bytes
  BY <1>2, UptoEnds DEF Upto
<1>5. \E k \in 0..Len(hist) : Replay(Entries(file.bytes)) = After(hist, k)
  BY <1>1, <1>3, <1>4, OnDiskCut
<1>6. R \in 0..Len(hist) /\ Replay(Entries(file.bytes)) = After(hist, R)
  BY <1>5 DEF Recovered, DataAfter, After, Upto
<1>7. ASSUME NEW k, DurableTo(file, hist, k) PROVE k <= R
  <2>1. PICK j \in k..Len(hist) : DurableTo(g, hist, j)
    BY <1>1, <1>3, <1>7, DiskDurable
  <2>2. j \in 0..Len(hist) /\ Replay(Entries(Upto(g.bytes, g.synced))) = After(hist, j)
    BY <2>1 DEF DurableTo
  <2>3. Upto(g.bytes, g.synced) = file.bytes
    <3>1. g.bytes = file.bytes /\ g.synced = n
      BY <1>4
    <3> HIDE DEF g, n
    <3> QED BY <1>4, <3>1
  <2> HIDE DEF R
  <2>4. j = R
    BY <1>1, <1>6, <2>2, <2>3, ExecutedGrows DEF After
  <2>5. k \in 0..Len(hist) /\ Len(hist) \in Nat
    BY <1>1, <1>7 DEF DurableTo
  <2> QED BY <2>1, <2>4, <2>5
<1> QED BY <1>6, <1>7

LEMMA AckLoad ==
  ASSUME Synchronous, AofInv, AckInv, loadAppendOnlyFile
  PROVE  AckInv'
<1> DEFINE R == Recovered(file.bytes)
<1>1. /\ proc # "up" /\ proc' = "up" /\ hist' = Upto(hist, R) /\ acked' = {n \in acked : n <= R}
      /\ aof_state' = "on" /\ UNCHANGED <<phase, fired, out, file, aof_buf>>
  BY DEF loadAppendOnlyFile, loopVars, Upto
<1>2. hist \in Seq(DBs) /\ phase = "before" /\ fired \in [Clients -> SUBSET {"r", "w"}]
  BY <1>1 DEF AofInv, Typed, Down, AckInv, AckTyped
<1>3. \A c \in Clients : out'[c] = {}
  BY <1>1 DEF AckInv, AckTyped
<1>4. R \in 0..Len(hist) /\ \A k : DurableTo(file, hist, k) => k <= R
  BY SyncCleanStop, LoadedUpto
<1> HIDE DEF R
<1>5. PICK k : AckHeld(k)
  BY DEF AckInv
<1>6. DurableTo(file, hist, k) /\ acked \subseteq 1..k /\ k <= R /\ k \in 0..Len(hist)
  BY <1>4, <1>5 DEF AckHeld, DurableTo
<1>7. Len(hist') = R /\ \A m \in 0..R : Upto(hist', m) = Upto(hist, m)
  BY <1>1, <1>2, <1>4, UptoProperties
<1>8. k \in 0..R
  BY <1>4, <1>6
<1>9. DurableTo(file', hist', k)
  BY <1>1, <1>6, <1>7, <1>8 DEF DurableTo, After
<1>10. AckHeld(k)'
  BY <1>1, <1>2, <1>3, <1>6, <1>9 DEF AckHeld, RepliesHeld
<1>11. AckTyped'
  BY <1>1, <1>2, <1>3 DEF AckInv, AckTyped
<1> QED BY <1>10, <1>11 DEF AckInv

LEMMA AckStep ==
  ASSUME Synchronous, AofInv, AckInv, Next
  PROVE  AckInv'
<1>0. AofInv' /\ ~ Pipelining /\ ~ Reconfigures
  BY SyncCleanStop, StepSound DEF Synchronous
<1>1. CASE beforeSleep
  BY <1>1, AckFlush DEF beforeSleep
<1>2. CASE aeApiPoll
  BY <1>0, <1>2, AckPoll
<1>3. CASE (\E next \in {"cron", "before"} : processTimeEvents(next)) \/ (\E c \in Clients : RefuseWrite(c)) \/ RdbChild \/ ChildExits
           \/ bgrewriteaofCommand \/ serverCron \/ RewriteFails
  BY <1>3, AckTimers
<1>4. CASE RewriteRename \/ backgroundRewriteDoneHandler
  BY <1>0, <1>4, AckRewrite
<1>5. CASE CronFlush
  <2>1. CASE phase = "flush" /\ FlushThen("retry")
    BY <1>5, <2>1, AckFlush DEF CronFlush
  <2>2. CASE phase = "retry" /\ FlushThen("before")
    BY <1>5, <2>2, AckFlush DEF CronFlush
  <2>3. CASE phase = "retry" /\ phase' = "before" /\ UNCHANGED <<proc, fired, clientVars, hist, aofVars, flushVars, rewriteVars, crashes>>
    <3>1. UNCHANGED <<proc, fired, out, acked, hist, aof_state, file, aof_buf>>
      BY <2>3 DEF clientVars, aofVars, flushVars
    <3>2. hist \in Seq(DBs) /\ fired \in [Clients -> SUBSET {"r", "w"}]
      BY DEF AofInv, Typed, AckInv, AckTyped
    <3> QED BY <2>3, <3>1, <3>2, SameFile, AckFrame
  <2> QED BY <1>5, <2>1, <2>2, <2>3 DEF CronFlush
<1>6. CASE \E c \in Clients : \E d \in DBs : call(c, d)
  BY <1>6, AckCall
<1>7. CASE \E c \in Clients : sendReplyToClient(c)
  BY <1>7, AckReply
<1>8. CASE bioProcessBackgroundJobs \/ Kill \/ PowerLoss \/ prepareForShutdown
  BY <1>8, AckSync
<1>9. CASE stopAppendOnly \/ startAppendOnly
  BY <1>0, <1>9 DEF stopAppendOnly, startAppendOnly
<1>10. CASE loadAppendOnlyFile
  BY <1>10, AckLoad
<1>11. CASE redisCheckAof
  BY <1>11, AckCheck
<1> QED BY <1>1, <1>2, <1>3, <1>4, <1>5, <1>6, <1>7, <1>8, <1>9, <1>10, <1>11 DEF Next, Loop

LEMMA AckStutter ==
  ASSUME AckInv, UNCHANGED vars
  PROVE  AckInv'
<1>1. UNCHANGED <<proc, phase, fired, out, acked, hist, aof_state, file, aof_buf>>
  BY DEF vars, loopVars, clientVars, aofVars, flushVars
<1>2. PICK k : AckHeld(k)
  BY DEF AckInv
<1>3. AckHeld(k)' /\ AckTyped'
  BY <1>1, <1>2 DEF AckInv, AckHeld, AckTyped, RepliesHeld
<1> QED BY <1>3 DEF AckInv

LEMMA InvAckedDurable ==
  ASSUME CleanStop
  PROVE  AofInv /\ AckInv => AckedDurable
<1> SUFFICES ASSUME AofInv, AckInv, NEW n \in acked, proc = "up"
             PROVE  /\ n \in 1..Len(hist)
                    /\ \E i \in 1..Len(Entries(SubSeq(file.bytes, 1, file.synced))) :
                         Entries(SubSeq(file.bytes, 1, file.synced))[i] = Write(n)
  BY DEF AckedDurable
<1>1. hist \in Seq(DBs) /\ SoundFile(file) /\ OnDisk(file, hist)
  BY DEF AofInv, Typed, FileSound, LogSound
<1> DEFINE E == Entries(Upto(file.bytes, file.synced))
<1>2. PICK k : AckHeld(k)
  BY DEF AckInv
<1>3. k \in 0..Len(hist) /\ Replay(E) = After(hist, k) /\ n \in 1..k
  BY <1>2 DEF AckHeld, DurableTo
<1>4. E \in Seq(Command)
  BY <1>1, DurableEntries
<1> HIDE DEF E
<1>5. PICK d \in DBs : \E p \in 1..Len(Replay(E)[d]) : Replay(E)[d][p] = n
  <2>1. \E d \in DBs : \E p \in 1..Len(After(hist, k)[d]) : After(hist, k)[d][p] = n
    BY <1>1, <1>3, ExecutedHolds
  <2> QED BY <1>3, <2>1
<1>6. \E i \in 1..Len(E) : E[i] = Write(n)
  BY <1>4, <1>5, ReplayedWasLogged
<1>7. n \in 1..Len(hist)
  <2>1. Len(hist) \in Nat
    BY <1>1
  <2> QED BY <1>3, <2>1
<1> QED BY <1>6, <1>7 DEF E, Upto

\* appendfsync always, without no-appendfsync-on-rewrite and without pipelining: a write the
\* client was told of is in the part of the file a power failure cannot take, through short
\* writes, rewrites, crashes and restarts (call, flushAppendOnlyFile, sendReplyToClient).
THEOREM AckedDurableAlways ==
  ASSUME Synchronous
  PROVE  Spec => []AckedDurable
<1>1. Init => AckInv
  BY AckInit
<1>2. AofInv /\ AckInv /\ [Next]_vars => AckInv'
  BY AckStep, AckStutter
<1>3. AofInv /\ AckInv => AckedDurable
  BY SyncCleanStop, InvAckedDurable
<1>4. Spec => []AofInv
  BY SyncCleanStop, AofInvariant
<1> QED BY <1>1, <1>2, <1>3, <1>4, PTL DEF Spec

=============================================================================
