-------------------------------- MODULE Backups --------------------------------
(* Backups of the database: backup.py, scheduler.py 30-60, api.py 3938-3952.   *)
(* A snapshot is copied to a temporary file, verified, flushed, renamed to a   *)
(* name made of the time, and then the oldest ones are deleted.  The directory *)
(* is flushed in between as far as it can be: a flush that fails is passed     *)
(* over.  The process may die and the power may fail at any point.             *)
EXTENDS Integers, FiniteSets

CONSTANTS
  Callers,     \* the scheduler's thread and requests of administrators
  Unlocked,
  Keep,        \* GOBLINDOCK_BACKUP_KEEP
  MaxBackups,  \* bound: calls of backup_now that get the lock
  MaxVersions, \* bound: commits to the database
  ClockBack    \* whether the clock may be set back

ASSUME UnlockedIsNoCaller == Unlocked \notin Callers
ASSUME KeepNat == Keep \in Nat
ASSUME BackupBounds == MaxBackups \in Nat /\ MaxVersions \in Nat

VARIABLES
  db,        \* the last transaction of the live database
  clock,     \* what _timestamp would say
  publisher, \* _PUBLICATION_LOCK
  caller,    \* place and destination of each call, and whether its directory was flushed
  dir,       \* the backups that can be seen in the directory
  disk,      \* those that a loss of power would leave
  made       \* calls that got the lock

backups == <<db, clock, publisher, caller, dir, disk, made>>

Backup == [name : Nat, version : Nat]
Absent == [pc |-> "idle", name |-> 0, version |-> 0, flushed |-> FALSE]
Newer(b, s) == {c \in s : c.name > b.name}
Kept == IF Keep < 1 THEN 1 ELSE Keep

BackupsInit ==
  /\ db = 0 /\ clock = 1
  /\ publisher = Unlocked
  /\ caller = [c \in Callers |-> Absent]
  /\ dir = {} /\ disk = {}
  /\ made = 0

Call(c, pc) == caller[c].pc = pc
Step(c, pc) == caller' = [caller EXCEPT ![c].pc = pc]
Dest(c) == [name |-> caller[c].name, version |-> caller[c].version]

\* The worker and the handlers commit meanwhile.
CommitRow ==
  /\ db < MaxVersions
  /\ db' = db + 1
  /\ UNCHANGED <<clock, publisher, caller, dir, disk, made>>

Unheld == publisher = Unlocked

\* The lock is taken and the destination named.
Enter(c) ==
  /\ Call(c, "idle") /\ made < MaxBackups
  /\ Unheld
  /\ publisher' = c
  /\ caller' = [caller EXCEPT ![c] = [pc |-> "copy", name |-> clock, version |-> 0, flushed |-> FALSE]]
  /\ clock' = clock + 1
  /\ made' = made + 1
  /\ UNCHANGED <<db, dir, disk>>

SetBack ==
  /\ ClockBack
  /\ \E t \in 1..clock : clock' = t
  /\ UNCHANGED <<db, publisher, caller, dir, disk, made>>

\* sqlite3's backup copies one transaction's image, whatever commits beside it.
Copy(c) ==
  /\ Call(c, "copy")
  /\ caller' = [caller EXCEPT ![c].pc = "publish", ![c].version = db]
  /\ UNCHANGED <<db, clock, publisher, dir, disk, made>>

\* A copy, quick_check or flush of the file that fails: the temporary file goes, the lock is free.
Fail(c) ==
  /\ caller[c].pc \in {"copy", "publish"}
  /\ caller' = [caller EXCEPT ![c] = Absent]
  /\ publisher' = Unlocked
  /\ UNCHANGED <<db, clock, dir, disk, made>>

\* os.replace of the verified and flushed file
Publish(c) ==
  /\ Call(c, "publish")
  /\ dir' = {b \in dir : b.name # caller[c].name} \cup {Dest(c)}
  /\ Step(c, "flush")
  /\ UNCHANGED <<db, clock, publisher, disk, made>>

\* Mutant of Flushed: the rename is left to the file system.
NotFlushed == disk' = disk

\* os.fsync of the directory
Flushed == disk' = dir

\* _flush_directory is best effort: an OSError, or a system that cannot open a directory,
\* is passed over, and backup_now goes on to rotate either way.
Flush(c) ==
  /\ Call(c, "flush")
  /\ \E ok \in BOOLEAN :
       /\ IF ok THEN Flushed ELSE disk' = disk
       /\ caller' = [caller EXCEPT ![c].pc = "rotate", ![c].flushed = ok]
  /\ UNCHANGED <<db, clock, publisher, dir, made>>

\* Mutant of Surplus: the list is taken oldest first.
SurplusReversed(b) == Cardinality({c \in dir : c.name < b.name}) >= Kept

\* files[max(1, keep):] of the names, newest first
Surplus(b) == Cardinality(Newer(b, dir)) >= Kept

\* One unlink after the other; one that fails is left for the next rotation.
Rotate(c) ==
  /\ Call(c, "rotate")
  /\ \E b \in dir : Surplus(b) /\ dir' = dir \ {b}
  /\ UNCHANGED <<db, clock, publisher, caller, disk, made>>

Return(c) ==
  /\ Call(c, "rotate")
  /\ caller' = [caller EXCEPT ![c] = Absent]
  /\ publisher' = Unlocked
  /\ UNCHANGED <<db, clock, dir, disk, made>>

Forgotten == caller' = [c \in Callers |-> Absent] /\ publisher' = Unlocked

\* The process dies: the directory is what it is, temporary files are not backups.
Die ==
  /\ ~Unheld
  /\ Forgotten
  /\ UNCHANGED <<db, clock, dir, disk, made>>

\* Any of the changes to the directory that were not flushed may be lost.
PowerLoss ==
  /\ Forgotten
  /\ \E lost \in SUBSET ((dir \ disk) \cup (disk \ dir)) :
       dir' = (dir \ lost) \cup (disk \cap lost)
  /\ disk' = dir'
  /\ UNCHANGED <<db, clock, made>>

BackupsNext ==
  \/ CommitRow \/ SetBack \/ Die \/ PowerLoss
  \/ \E c \in Callers :
       Enter(c) \/ Copy(c) \/ Fail(c) \/ Publish(c) \/ Flush(c) \/ Rotate(c) \/ Return(c)

BackupsSpec == BackupsInit /\ [][BackupsNext]_backups

--------------------------------------------------------------------------------
BackupsTypeOK ==
  /\ db \in 0..MaxVersions
  /\ clock \in Nat \ {0}
  /\ publisher \in Callers \cup {Unlocked}
  /\ caller \in [Callers -> [pc : {"idle", "copy", "publish", "flush", "rotate"},
                             name : Nat, version : Nat, flushed : BOOLEAN]]
  /\ dir \subseteq Backup /\ disk \subseteq Backup
  /\ made \in 0..MaxBackups

\* "automatic rotating snapshot is the cheapest possible disaster-recovery net" (backup.py
\* 3-9): the backup with the newest name holds the newest data, of however many callers.
NewestNameNewestData ==
  \A a, b \in dir : a.name < b.name => a.version <= b.version

\* A call that answers (backup.py 162-168; api.py 3949-3952) leaves its backup in the
\* directory, where the death of the process cannot reach it; and if the flush of the
\* directory took effect a loss of power does not take it away either.
AnsweredIsDurable ==
  [][\A c \in Callers :
       Call(c, "rotate") /\ caller'[c] = Absent /\ dir' = dir /\ disk' = disk
       => Dest(c) \in dir /\ (caller[c].flushed => Dest(c) \in disk)]_backups

\* Some backup in the directory is there without the flush that should have followed it:
\* the flush failed, or the process died before it.
Doubt == \E b \in dir \ disk : \A c \in Callers : Call(c, "flush") => Dest(c) # b

\* The directory and what a loss of power leaves of it are a BackupStore: whole snapshots,
\* the newest ones, never fewer than are to be kept if the last flush took effect, and
\* only what enough newer ones had replaced is missing if it did not (backup.py 50-69,
\* 108-121).
Store == INSTANCE BackupStore WITH seen <- dir, firm <- disk, doubt <- Doubt
StoreImplemented == Store!StoreSpec
================================================================================
