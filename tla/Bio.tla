--------------------------------- MODULE Bio ---------------------------------
(***************************************************************************)
(* The background threads of bio.c: one thread and one queue per type of   *)
(* job (close a file, fsync the append only file), a mutex and a condition *)
(* variable.  The main thread adds jobs and asks how many are pending; the *)
(* AOF takes the answer 0 to mean that no fsync is under way.  A lock, an  *)
(* unlock and everything done between them are steps of their own, and     *)
(* waiting on the condition variable may end without a signal, as POSIX    *)
(* allows.  bioKillThreads(), used only while a crash is reported, is left *)
(* out.                                                                    *)
(***************************************************************************)
EXTENDS Integers, Sequences

CONSTANTS JobType,   \* REDIS_BIO_CLOSE_FILE, REDIS_BIO_AOF_FSYNC
          MaxBioJobs    \* bound: the jobs of one type

ASSUME BioAssumption == MaxBioJobs \in Nat

VARIABLES bioJobs,      \* bio_jobs: for each type the queue of jobs, numbered as they are created
          bioPending,   \* bio_pending
          bioMutex,     \* who holds bio_mutex: "nobody", "main" or "thread"
          bioThread,    \* where each thread is
          bioMain,      \* where the main thread is: its operation and the type it is about
          created,      \* jobs of each type created so far
          executed      \* jobs of each type executed so far, in order

bioVars == <<bioJobs, bioPending, bioMutex, bioThread, bioMain, created, executed>>

Idle == "idle"

BioInit ==
  /\ bioJobs = [t \in JobType |-> <<>>]
  /\ bioPending = [t \in JobType |-> 0]
  /\ bioMutex = [t \in JobType |-> "nobody"]
  /\ bioThread = [t \in JobType |-> "lock"]
  /\ bioMain = [t \in JobType |-> Idle]
  /\ created = [t \in JobType |-> 0]
  /\ executed = [t \in JobType |-> <<>>]

MainIdle == \A t \in JobType : bioMain[t] = Idle

-----------------------------------------------------------------------------
(* The main thread *)

\* bioCreateBackgroundJob: the mutex is taken ...
CreateLock(t) ==
  /\ MainIdle /\ created[t] < MaxBioJobs
  /\ bioMutex[t] = "nobody"
  /\ bioMutex' = [bioMutex EXCEPT ![t] = "main"]
  /\ bioMain' = [bioMain EXCEPT ![t] = "add"]
  /\ UNCHANGED <<bioJobs, bioPending, bioThread, created, executed>>

\* mutant: the signal is given only for the first job of a queue that was empty before
SignalOnce(t) == bioThread[t] = "wait" /\ bioPending[t] = 0 /\ created[t] = 0

\* the thread that waits, if it does, is woken; a signal for nobody is lost
CondSignal(t) == bioThread[t] = "wait"

\* ... the job is queued and signalled ...
CreateAdd(t) ==
  /\ bioMain[t] = "add"
  /\ created' = [created EXCEPT ![t] = @ + 1]
  /\ bioJobs' = [bioJobs EXCEPT ![t] = Append(@, created[t] + 1)]
  /\ bioPending' = [bioPending EXCEPT ![t] = @ + 1]
  /\ bioThread' = IF CondSignal(t) THEN [bioThread EXCEPT ![t] = "relock"] ELSE bioThread
  /\ bioMain' = [bioMain EXCEPT ![t] = "unlock"]
  /\ UNCHANGED <<bioMutex, executed>>

\* ... and the mutex is given back.  bioPendingJobsOfType ends the same way.
MainUnlock(t) ==
  /\ bioMain[t] = "unlock"
  /\ bioMutex' = [bioMutex EXCEPT ![t] = "nobody"]
  /\ bioMain' = [bioMain EXCEPT ![t] = Idle]
  /\ UNCHANGED <<bioJobs, bioPending, bioThread, created, executed>>

\* bioPendingJobsOfType
PendingLock(t) ==
  /\ MainIdle
  /\ bioMutex[t] = "nobody"
  /\ bioMutex' = [bioMutex EXCEPT ![t] = "main"]
  /\ bioMain' = [bioMain EXCEPT ![t] = "read"]
  /\ UNCHANGED <<bioJobs, bioPending, bioThread, created, executed>>

\* the number in bioPending is returned
PendingRead(t) ==
  /\ bioMain[t] = "read"
  /\ bioMain' = [bioMain EXCEPT ![t] = "unlock"]
  /\ UNCHANGED <<bioJobs, bioPending, bioMutex, bioThread, created, executed>>

-----------------------------------------------------------------------------
(* The threads: bioProcessBackgroundJobs *)

\* the mutex is taken, at the start or when waiting ends
ThreadLock(t) ==
  /\ bioThread[t] \in {"lock", "relock"}
  /\ bioMutex[t] = "nobody"
  /\ bioMutex' = [bioMutex EXCEPT ![t] = "thread"]
  /\ bioThread' = [bioThread EXCEPT ![t] = "look"]
  /\ UNCHANGED <<bioJobs, bioPending, bioMain, created, executed>>

\* an empty queue: waiting gives the mutex back in the same step
ThreadWait(t) ==
  /\ bioThread[t] = "look" /\ bioJobs[t] = <<>>
  /\ bioThread' = [bioThread EXCEPT ![t] = "wait"]
  /\ bioMutex' = [bioMutex EXCEPT ![t] = "nobody"]
  /\ UNCHANGED <<bioJobs, bioPending, bioMain, created, executed>>

SpuriousWakeup(t) ==
  /\ bioThread[t] = "wait"
  /\ bioThread' = [bioThread EXCEPT ![t] = "relock"]
  /\ UNCHANGED <<bioJobs, bioPending, bioMutex, bioMain, created, executed>>

\* mutant: the job is taken off the queue and uncounted before it runs
TakeEarly(t) ==
  /\ bioThread[t] = "look" /\ bioJobs[t] # <<>>
  /\ bioThread' = [bioThread EXCEPT ![t] = "run"]
  /\ bioMutex' = [bioMutex EXCEPT ![t] = "nobody"]
  /\ bioPending' = [bioPending EXCEPT ![t] = @ - 1]
  /\ UNCHANGED <<bioJobs, bioMain, created, executed>>

\* the first job is looked up, not taken off, and the mutex is given back
ThreadTake(t) ==
  /\ bioThread[t] = "look" /\ bioJobs[t] # <<>>
  /\ bioThread' = [bioThread EXCEPT ![t] = "run"]
  /\ bioMutex' = [bioMutex EXCEPT ![t] = "nobody"]
  /\ UNCHANGED <<bioJobs, bioPending, bioMain, created, executed>>

\* close() or fsync(), without the mutex
ThreadRun(t) ==
  /\ bioThread[t] = "run"
  /\ executed' = [executed EXCEPT ![t] = Append(@, bioJobs[t][1])]
  /\ bioThread' = [bioThread EXCEPT ![t] = "done"]
  /\ UNCHANGED <<bioJobs, bioPending, bioMutex, bioMain, created>>

\* the mutex is taken again ...
ThreadDone(t) ==
  /\ bioThread[t] = "done"
  /\ bioMutex[t] = "nobody"
  /\ bioMutex' = [bioMutex EXCEPT ![t] = "thread"]
  /\ bioThread' = [bioThread EXCEPT ![t] = "remove"]
  /\ UNCHANGED <<bioJobs, bioPending, bioMain, created, executed>>

\* ... and only now is the job taken off the queue
ThreadRemove(t) ==
  /\ bioThread[t] = "remove"
  /\ bioJobs' = [bioJobs EXCEPT ![t] = Tail(@)]
  /\ bioPending' = [bioPending EXCEPT ![t] = @ - 1]
  /\ bioThread' = [bioThread EXCEPT ![t] = "look"]
  /\ UNCHANGED <<bioMutex, bioMain, created, executed>>

MainStep(t) == CreateAdd(t) \/ MainUnlock(t) \/ PendingRead(t)
ThreadStep(t) ==
  \/ ThreadLock(t) \/ ThreadWait(t) \/ ThreadTake(t) \/ ThreadRun(t) \/ ThreadDone(t) \/ ThreadRemove(t)

BioNext == \E t \in JobType : CreateLock(t) \/ PendingLock(t) \/ MainStep(t) \/ ThreadStep(t) \/ SpuriousWakeup(t)

\* The main thread finishes what it has begun; a thread runs when it can, and gets the
\* mutex in the end although the main thread takes it again and again.
BioFairness ==
  \A t \in JobType : WF_bioVars(MainStep(t)) /\ SF_bioVars(ThreadLock(t)) /\ SF_bioVars(ThreadDone(t))
                     /\ WF_bioVars(ThreadStep(t))

BioSpec == BioInit /\ [][BioNext]_bioVars /\ BioFairness

-----------------------------------------------------------------------------

ThreadState == {"lock", "look", "wait", "relock", "run", "done", "remove"}

BioTypeOK ==
  /\ bioJobs \in [JobType -> Seq(Nat)]
  /\ bioPending \in [JobType -> Nat]
  /\ bioMutex \in [JobType -> {"nobody", "main", "thread"}]
  /\ bioThread \in [JobType -> ThreadState]
  /\ bioMain \in [JobType -> {Idle, "add", "read", "unlock"}]
  /\ created \in [JobType -> Nat]
  /\ executed \in [JobType -> Seq(Nat)]

(* Whenever the number bioPendingJobsOfType() reads is zero, every job     *)
(* that was created has been executed: an fsync that is under way is never *)
(* overlooked, although the thread runs it without the mutex.              *)
NothingOverlooked == \A t \in JobType : bioPending[t] = 0 => Len(executed[t]) = created[t]

(* Jobs are executed once each, in the order in which they were created.   *)
JobsInOrder == \A t \in JobType : \A i \in 1..Len(executed[t]) : executed[t][i] = i

(* Every job is executed in the end: no wakeup is lost between the test of *)
(* the queue and pthread_cond_wait().                                      *)
JobsFinish == \A t \in JobType : \A n \in 1..MaxBioJobs : created[t] = n ~> Len(executed[t]) >= n
=============================================================================
