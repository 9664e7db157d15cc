----------------------------- MODULE Snapshots -----------------------------
(***************************************************************************)
(* When the data set is saved: SAVE, BGSAVE, the save points of            *)
(* serverCron(), FLUSHALL, SHUTDOWN and SIGTERM, with the counter of       *)
(* changes they share, a child that writes while the data set changes,     *)
(* failures of fork(), of the disk and of the child, crashes and restarts. *)
(* (rdb.c, and what redis.c and db.c do with it.)                          *)
(*                                                                         *)
(* A data set is the number of changes that made it.  A crash leaves the   *)
(* file system as it is: a rename() that has been done stays done.         *)
(***************************************************************************)
EXTENDS Integers, FiniteSets

CONSTANTS SavePoints,      \* the sets of save points to try: pairs of seconds and changes
          RetryDelay,      \* REDIS_BGSAVE_RETRY_DELAY
          MaxChanges, MaxTime, MaxSaveFaults

VARIABLES snapshot         \* the server, its child and the file dump.rdb
snapshotVars == <<snapshot>>

NoSaveChild == [st |-> "none"]

SnapshotInit ==
  \E points \in SavePoints, stop \in BOOLEAN :
    snapshot = [points |-> points, stop_writes |-> stop,
                up |-> TRUE, data |-> 0, dirty |-> 0, dirty_before |-> 0, lastsave |-> 0, lasttry |-> 0, status |-> "ok",
                shutdown_asap |-> FALSE, child |-> NoSaveChild, dump |-> 0, now |-> 0, faults |-> 0, left |-> FALSE]

Step(s) == snapshot' = s
Up == snapshot.up
Fault == snapshot.faults < MaxSaveFaults

\* processCommand(): no write after a save in the background has failed
processWrite ==
  /\ Up /\ snapshot.data < MaxChanges
  /\ ~ (snapshot.stop_writes /\ snapshot.points # {} /\ snapshot.status = "err")
  /\ Step([snapshot EXCEPT !.data = @ + 1, !.dirty = @ + 1])

\* a temporary file, renamed when it is complete; a failure leaves everything as it was
rdbSave(s, ok) ==
  IF ok THEN [s EXCEPT !.dump = s.data, !.dirty = 0, !.lastsave = s.now, !.status = "ok"]
  ELSE [s EXCEPT !.faults = @ + 1]

rdbSaveBackground(s, forked) ==
  LET t == [s EXCEPT !.dirty_before = s.dirty, !.lasttry = s.now]
  IN IF forked THEN [t EXCEPT !.child = [st |-> "writing", data |-> s.data]]
     ELSE [t EXCEPT !.status = "err", !.faults = @ + 1]

saveCommand ==
  /\ Up /\ snapshot.child = NoSaveChild
  /\ \E ok \in BOOLEAN : (ok \/ Fault) /\ Step(rdbSave(snapshot, ok))

bgsaveCommand ==
  /\ Up /\ snapshot.child = NoSaveChild
  /\ \E ok \in BOOLEAN : (ok \/ Fault) /\ Step(rdbSaveBackground(snapshot, ok))

\* SIGUSR1, and its temporary file is removed
KillChild(s) == IF s.child.st = "writing" THEN [s EXCEPT !.child = [st |-> "usr1"]] ELSE s

\* mutant: FLUSHALL leaves the child alone
FlushKeepsChild(s, ok) ==
  LET f == [s EXCEPT !.data = @ + 1, !.dirty = @ + 1]
      t == IF s.points # {} THEN [rdbSave(f, ok) EXCEPT !.dirty = f.dirty] ELSE f
  IN [t EXCEPT !.dirty = @ + 1]

\* the empty data set is saved at once if there are save points, and counts as a change all the same
Flush(s, ok) ==
  LET f == [KillChild(s) EXCEPT !.data = @ + 1, !.dirty = @ + 1]
      t == IF s.points # {} THEN [rdbSave(f, ok) EXCEPT !.dirty = f.dirty] ELSE f
  IN [t EXCEPT !.dirty = @ + 1]
flushallCommand ==
  /\ Up /\ snapshot.data < MaxChanges
  /\ \E ok \in BOOLEAN : (ok \/ (Fault /\ snapshot.points # {})) /\ Step(Flush(snapshot, ok))

\* the child: done and renamed, a write error, or a signal that nobody here sent
ChildEnds ==
  /\ snapshot.child.st = "writing"
  /\ \/ Step([snapshot EXCEPT !.dump = snapshot.child.data, !.child = [st |-> "ok"]])
     \/ Fault /\ \E how \in {"err", "signal"} : Step([snapshot EXCEPT !.child = [st |-> how], !.faults = @ + 1])

\* mutant: the changes made while the child was writing are forgotten too
DoneForgetsChanges(s) ==
  LET t == CASE s.child.st = "ok" -> [s EXCEPT !.dirty = 0, !.lastsave = s.now, !.status = "ok"]
             [] s.child.st \in {"err", "signal"} -> [s EXCEPT !.status = "err"]
             [] s.child.st = "usr1" -> s
  IN [t EXCEPT !.child = NoSaveChild]

backgroundSaveDoneHandler(s) ==
  LET t == CASE s.child.st = "ok" -> [s EXCEPT !.dirty = @ - s.dirty_before, !.lastsave = s.now, !.status = "ok"]
             [] s.child.st \in {"err", "signal"} -> [s EXCEPT !.status = "err"]
             [] s.child.st = "usr1" -> s
  IN [t EXCEPT !.child = NoSaveChild]

\* SHUTDOWN, SHUTDOWN SAVE, SHUTDOWN NOSAVE, or the cron after a SIGTERM; a failed save keeps the server up
ShutdownSaves(s, how, ok) ==
  LET saves == how = "save" \/ (s.points # {} /\ how # "nosave")
      t == IF saves THEN rdbSave(KillChild(s), ok) ELSE KillChild(s)
  IN [t EXCEPT !.up = saves /\ ~ ok, !.left = saves /\ ok, !.shutdown_asap = FALSE,
               !.child = IF saves /\ ~ ok THEN @ ELSE NoSaveChild]
shutdownCommand ==
  /\ Up
  /\ \E how \in {"plain", "save", "nosave"}, ok \in BOOLEAN :
       (ok \/ (Fault /\ how # "nosave" /\ (how = "save" \/ snapshot.points # {}))) /\ Step(ShutdownSaves(snapshot, how, ok))
sigtermHandler == Up /\ ~ snapshot.shutdown_asap /\ Step([snapshot EXCEPT !.shutdown_asap = TRUE])

Due(s) == \E p \in s.points : /\ s.dirty >= p[2] /\ s.now - s.lastsave > p[1]
                              /\ (s.now - s.lasttry > RetryDelay \/ s.status = "ok")
CronSaves ==
  /\ Up
  /\ \/ /\ snapshot.shutdown_asap
        /\ \E ok \in BOOLEAN : (ok \/ (Fault /\ snapshot.points # {})) /\ Step(ShutdownSaves(snapshot, "plain", ok))
     \/ /\ ~ snapshot.shutdown_asap /\ snapshot.child.st \notin {"none", "writing"}
        /\ Step(backgroundSaveDoneHandler(snapshot))
     \/ /\ ~ snapshot.shutdown_asap /\ snapshot.child = NoSaveChild /\ Due(snapshot)
        /\ \E ok \in BOOLEAN : (ok \/ Fault) /\ Step(rdbSaveBackground(snapshot, ok))

Tick == snapshot.now < MaxTime /\ Step([snapshot EXCEPT !.now = @ + 1])

\* the machine stops, with the server and its child
Crash == /\ Up /\ Fault
         /\ Step([snapshot EXCEPT !.up = FALSE, !.child = NoSaveChild, !.faults = @ + 1])

\* a new process loads the file
loadDataFromDisk ==
  /\ ~ Up
  /\ Step([snapshot EXCEPT !.up = TRUE, !.data = snapshot.dump, !.dirty = 0, !.dirty_before = 0, !.lastsave = snapshot.now,
                           !.lasttry = 0, !.status = "ok", !.shutdown_asap = FALSE, !.left = FALSE])

SnapshotNext == \/ processWrite \/ saveCommand \/ bgsaveCommand \/ flushallCommand \/ ChildEnds
                \/ shutdownCommand \/ sigtermHandler \/ CronSaves \/ Tick \/ Crash \/ loadDataFromDisk
SnapshotSpec == SnapshotInit /\ [][SnapshotNext]_snapshotVars

-----------------------------------------------------------------------------
(* server.dirty, by which the save points decide, never counts less than a  *)
(* crash would lose: the changes that dump.rdb does not have, whichever     *)
(* saves were under way, failed or were killed; and a server that has left  *)
(* after saving lost nothing (dirty_before_bgsave and its users).           *)
DirtyCovers == /\ Up => snapshot.dirty >= snapshot.data - snapshot.dump
               /\ snapshot.left => snapshot.dump = snapshot.data

(* dump.rdb is never replaced by an older data set: not by a child that was *)
(* forked before a FLUSHALL or a SHUTDOWN saved (flushallCommand and        *)
(* prepareForShutdown kill it).                                             *)
DumpNeverOlder == [][snapshot'.dump >= snapshot.dump]_snapshotVars
=============================================================================
