----------------------------- MODULE Operations -----------------------------
(***************************************************************************)
(* The workspace of one server: its database with the write-ahead log, its *)
(* file objects, the service that opens them (createApplication, Database: *)
(* migrations, WAL) and restoreOfflineBackup, which exchanges them by a    *)
(* row of renames and, when one fails, by the reverse row. Backups share   *)
(* the operation lock with restores, and neither runs while the service    *)
(* does.                                                                   *)
(*                                                                         *)
(* A lineage is the history of one database: -k for the k-th the service   *)
(* created itself, n for what the n-th restore staged. Only rename and     *)
(* removal move data, so a directory of objects is the set of lineages     *)
(* whose objects it holds.                                                 *)
(***************************************************************************)
EXTENDS BackupStore

CONSTANTS
  MaxFresh,     \* bound: databases the service creates
  MaxRestores   \* bound: restores begun

Lineages == (-MaxFresh)..(-1) \cup 1..MaxRestores
Recoveries == 1..MaxRestores
Dbs == [set : Lineages, schema : 0..MaxVersion, epoch : 0..MaxRestores]
Content == [db : Dbs \cup {Null}, wal : Lineages \cup {Null}, files : SUBSET Lineages]

\* Seeded bug: the database appears before its objects.
RenamesDbFirst ==
  << <<"db", "target", "recovery">>, <<"wal", "target", "recovery">>,
     <<"files", "target", "recovery">>,
     <<"db", "stage", "target">>, <<"files", "stage", "target">> >>

\* The renames of a restore in their order: what, whence, whither. The last step only
\* removes the stage.
Renames == << <<"db", "target", "recovery">>, <<"wal", "target", "recovery">>,
              <<"files", "target", "recovery">>,
              <<"files", "stage", "target">>, <<"db", "stage", "target">> >>
Last == Len(Renames) + 1

Restores ==
  [n : Recoveries, step : 0..Last, back : BOOLEAN, moved : SUBSET (1..Last),
   failed : BOOLEAN, before : Content]

ASSUME OperationsAssumption ==
  /\ MaxFresh \in Nat /\ MaxRestores \in Nat
  /\ Null \notin Lineages /\ Null \notin Dbs /\ Null \notin Restores

VARIABLES
  disk,      \* target, stage and recovery directories: database, WAL, objects
  service,   \* the server process
  restore,   \* the restore under way, or Null
  fresh,     \* databases created so far
  restores,  \* restores so far
  broken,    \* a RestoreRecoveryError was raised: an operator takes over
  \* history
  served,    \* <<lineage, stream epoch>> pairs clients have seen
  unflushed, \* lineages with committed writes only their WAL has
  split      \* a restore died while a database and its WAL were apart, or after
             \* a rename back had failed

work == <<disk, service, restore, fresh, restores, broken>>
history == <<served, unflushed, split>>
vars == <<program, backups, task, faults, work, history>>

\* The service's own place, the stage, and the n-th restore's recovery directory n.
Target == 0
StageDir == -1
Homes == {Target} \cup Recoveries
Places == Homes \cup {StageDir}

Nowhere == [db |-> Null, wal |-> Null, files |-> {}]
target == disk[Target]

\* Seeded bug: operations without a lock.
FreeUnlocked == service = "stopped" /\ ~broken

\* Operations hold the lock and need the service stopped.
Free == service = "stopped" /\ task = Null /\ restore = Null /\ ~broken
-----------------------------------------------------------------------------
(* The service *)

\* Opening a path with no database creates one (epoch '1', here 0) and SQLite
\* discards a WAL it finds there; the objects that lie there stay.
Start ==
  /\ Free
  /\ IF target.db = Null
     THEN /\ fresh < MaxFresh
          /\ fresh' = fresh + 1
          /\ disk' = [disk EXCEPT ![Target] =
               [db |-> [set |-> -fresh', schema |-> 0, epoch |-> 0],
                wal |-> Null, files |-> target.files \cup {-fresh'}]]
     ELSE target.db.schema <= program /\ UNCHANGED <<fresh, disk>>
  /\ service' = "starting"
  /\ UNCHANGED <<program, backupVars, faults, restore, restores, broken, history>>

\* Each migration commits by itself, its history row with it (runMigrations).
Migrate ==
  /\ service = "starting" /\ target.db.schema < program
  /\ disk' = [disk EXCEPT ![Target].db.schema = @ + 1,
                          ![Target].wal = target.db.set]
  /\ unflushed' = unflushed \cup {target.db.set}
  /\ UNCHANGED <<program, backupVars, faults, service, restore, fresh, restores, broken,
                 served, split>>

\* A write that only the WAL has yet.
Write ==
  /\ service = "running"
  /\ disk' = [disk EXCEPT ![Target].wal = target.db.set]
  /\ unflushed' = unflushed \cup {target.db.set}
  /\ UNCHANGED <<program, backupVars, faults, service, restore, fresh, restores, broken,
                 served, split>>

Ready ==
  /\ service = "starting" /\ target.db.schema = program
  /\ service' = "running"
  /\ served' = served \cup {<<target.db.set, target.db.epoch>>}
  /\ UNCHANGED <<program, backupVars, faults, disk, restore, fresh, restores, broken,
                 unflushed, split>>

\* close(), also after a failed migration: the last connection writes the WAL back
\* and removes it.
Stop ==
  /\ service # "stopped"
  /\ service' = "stopped"
  /\ disk' = [disk EXCEPT ![Target].wal = Null]
  /\ unflushed' = unflushed \ {target.db.set}
  /\ UNCHANGED <<program, backupVars, faults, restore, fresh, restores, broken, served, split>>

Kill ==
  /\ service # "stopped"
  /\ service' = "stopped"
  /\ Fault
  /\ UNCHANGED <<program, backupVars, disk, restore, fresh, restores, broken, history>>

\* Another version of the program is installed.
Install ==
  /\ Free
  /\ program' \in Versions \ {program}
  /\ UNCHANGED <<backupVars, faults, work, history>>
-----------------------------------------------------------------------------
(* Backups *)

Backup ==
  /\ \/ Free /\ target.db # Null /\ \E n \in Sizes : Publish(target.db, n)
     \/ BackupStep
  /\ UNCHANGED <<program, work, history>>
-----------------------------------------------------------------------------
(* Restore *)

\* The catch block takes them back in this order.
Reverse == <<5, 4, 3, 1, 2>>

At(name) ==
  CASE name = "target" -> Target
    [] name = "stage" -> StageDir
    [] name = "recovery" -> restore.n
Absent(part) == IF part = "files" THEN {} ELSE Null

\* rename(): a missing WAL is passed over; objects do not replace objects.
Renamed(part, p, q) ==
  IF disk[p][part] = Absent(part) THEN disk
  ELSE [disk EXCEPT ![q][part] = disk[p][part], ![p][part] = Absent(part)]
Blocked(part, q) == part = "files" /\ disk[q].files # {}

\* Seeded bug: the WAL stays behind.
AppliesToMain(i) ==
  CASE i = 1 -> restore.before.db # Null
    [] i = 2 -> FALSE
    [] i = 3 -> restore.before.files # {}
    [] OTHER -> TRUE

\* The current database and objects are looked at once, before the first rename.
Applies(i) ==
  CASE i \in {1, 2} -> restore.before.db # Null
    [] i = 3 -> restore.before.files # {}
    [] OTHER -> TRUE

\* Seeded bug: the way back forgets the WAL.
MustReturnMain(i) == i # 2 /\ i \in restore.moved

\* oldDbMoved, oldFilesMoved, newFilesMoved, newDbMoved: the WAL goes with its database.
MustReturn(i) == (IF i = 2 THEN 1 ELSE i) \in restore.moved

\* Seeded bug: the answer is not looked at.
CompletedAnyhow(rotated) == TRUE

\* All three answers of the injected finalization must be true.
Completed(rotated) == rotated

\* A verified backup is copied to a stage.
Stage(i) ==
  /\ Free /\ restores < MaxRestores
  /\ Verified(backups[i])
  /\ restores' = restores + 1
  /\ disk' = [disk EXCEPT ![StageDir] =
       [db |-> [backups[i].db EXCEPT !.set = restores'],
        wal |-> Null, files |-> {restores'}]]
  /\ restore' = [n |-> restores', step |-> 0, back |-> FALSE, moved |-> {},
                 failed |-> FALSE, before |-> target]
  /\ UNCHANGED <<program, backupVars, faults, service, fresh, broken, history>>

\* The injected finalization may rotate the epoch and may fall short.
Finalize ==
  /\ restore # Null /\ restore.step = 0 /\ ~restore.back
  /\ \E rotated \in BOOLEAN :
       /\ disk' = IF rotated THEN [disk EXCEPT ![StageDir].db.epoch = restore.n] ELSE disk
       /\ restore' = [restore EXCEPT !.step = 1, !.back = ~Completed(rotated)]
  /\ UNCHANGED <<program, backupVars, faults, service, fresh, restores, broken, history>>

\* One rename, or the first that fails and sends the restore back.
Forward ==
  /\ restore # Null /\ ~restore.back /\ restore.step \in 1..(Last - 1)
  /\ LET i == restore.step
         part == Renames[i][1]
     IN \/ /\ disk' = IF Applies(i)
                      THEN Renamed(part, At(Renames[i][2]), At(Renames[i][3])) ELSE disk
           /\ restore' = [restore EXCEPT !.step = @ + 1,
                            !.moved = IF Applies(i) THEN @ \cup {i} ELSE @]
           /\ NoFault
        \/ /\ Applies(i)
           /\ restore' = [restore EXCEPT !.step = 1, !.back = TRUE]
           /\ Fault
           /\ UNCHANGED disk
  /\ UNCHANGED <<program, backupVars, service, fresh, restores, broken, history>>

\* The stage is removed and the restore is done, or that fails and takes it back.
Restored ==
  /\ restore # Null /\ ~restore.back /\ restore.step = Last
  /\ \/ restore' = Null /\ disk' = [disk EXCEPT ![StageDir] = Nowhere] /\ NoFault
     \/ restore' = [restore EXCEPT !.step = 1, !.back = TRUE] /\ Fault /\ UNCHANGED disk
  /\ UNCHANGED <<program, backupVars, service, fresh, restores, broken, history>>

\* One rename back; a failure is noted and the rest goes on.
Back ==
  /\ restore # Null /\ restore.back /\ restore.step < Last
  /\ LET i == Reverse[restore.step]
         part == Renames[i][1]
         p == At(Renames[i][2])
         q == At(Renames[i][3])
     IN \/ /\ MustReturn(i) => ~Blocked(part, p)
           /\ disk' = IF MustReturn(i) THEN Renamed(part, q, p) ELSE disk
           /\ restore' = [restore EXCEPT !.step = @ + 1]
           /\ NoFault
        \/ /\ MustReturn(i)
           /\ restore' = [restore EXCEPT !.step = @ + 1, !.failed = TRUE]
           /\ IF Blocked(part, p) THEN NoFault ELSE Fault
           /\ UNCHANGED disk
  /\ UNCHANGED <<program, backupVars, service, fresh, restores, broken, history>>

\* RestoreRecoveryError keeps every directory; a plain failure removes the stage.
GiveUp ==
  /\ restore # Null /\ restore.back /\ restore.step = Last
  /\ broken' = restore.failed
  /\ disk' = IF restore.failed THEN disk ELSE [disk EXCEPT ![StageDir] = Nowhere]
  /\ restore' = Null
  /\ UNCHANGED <<program, backupVars, faults, service, fresh, restores, history>>

\* The database of a lineage in one directory, its WAL in another.
Apart ==
  \E p, q \in Homes :
    /\ p # q /\ disk[p].db # Null
    /\ disk[q].wal = disk[p].db.set

\* The process dies; the stage it leaves is never read again.
RestoreDies ==
  /\ restore # Null
  /\ restore' = Null
  /\ disk' = [disk EXCEPT ![StageDir] = Nowhere]
  /\ split' = (split \/ Apart \/ restore.failed)
  /\ Fault
  /\ UNCHANGED <<program, backupVars, service, fresh, restores, broken, served, unflushed>>

Restore ==
  \/ \E i \in DOMAIN backups : Stage(i)
  \/ Finalize \/ Forward \/ Restored \/ Back \/ GiveUp \/ RestoreDies
-----------------------------------------------------------------------------
Init ==
  /\ program \in Versions
  /\ BackupInit
  /\ disk = [p \in Places |-> Nowhere]
  /\ service = "stopped" /\ restore = Null
  /\ fresh = 0 /\ restores = 0 /\ broken = FALSE
  /\ served = {} /\ unflushed = {} /\ split = FALSE

Next ==
  \/ Start \/ Migrate \/ Ready \/ Write \/ Stop \/ Kill \/ Install
  \/ Backup \/ Restore

Spec == Init /\ [][Next]_vars
-----------------------------------------------------------------------------
(* Properties *)

TypeOK ==
  /\ program \in Versions
  /\ BackupTypeOK(Dbs)
  /\ disk \in [Places -> Content]
  /\ service \in {"stopped", "starting", "running"}
  /\ service # "stopped" => task = Null /\ restore = Null
  /\ restore \in Restores \cup {Null}
  /\ task = Null \/ restore = Null
  /\ fresh \in 0..MaxFresh /\ restores \in 0..MaxRestores
  /\ broken \in BOOLEAN /\ split \in BOOLEAN
  /\ served \subseteq Lineages \X (0..MaxRestores)
  /\ unflushed \subseteq Lineages

\* At every moment, in the middle of a restore and after it died too, a database at
\* the service's path has its objects beside it and no other database's WAL: the
\* order of the renames. After a RestoreRecoveryError nothing is promised, nor after
\* the process died between the rename of a database and of its WAL or during a way
\* back that had failed already.
TargetWhole ==
  broken \/ (restore # Null /\ restore.failed) \/ split \/ target.db = Null
    \/ /\ target.db.set \in target.files
       /\ target.wal \in {Null, target.db.set}

\* Nothing that was ever served is lost by a restore, whatever fails or dies: its
\* database and its objects are at the target or in a recovery directory, and, once
\* no restore is under way, the WAL its last writes are in is beside the database.
\* After the two deaths TargetWhole excepts, only the database is promised.
Kept ==
  \A pair \in served :
    LET s == pair[1]
        homes == {p \in Homes : disk[p].db # Null /\ disk[p].db.set = s}
    IN /\ homes # {}
       /\ split \/ \E p \in Homes : s \in disk[p].files
       /\ s \in unflushed /\ ~split =>
            \/ \E p \in homes : disk[p].wal = s
            \/ (restore # Null \/ broken) /\ \E p \in Homes : disk[p].wal = s

\* A restore that failed without a RestoreRecoveryError leaves the workspace exactly
\* as it found it, however far it had come.
RolledBack ==
  restore # Null /\ restore.back /\ restore.step = Last /\ ~restore.failed =>
    target = restore.before

\* A cursor names positions of one history: the epoch a restored database is served
\* under was never served by another, so older cursors are refused. (Two databases
\* the service created itself do share the first epoch.)
EpochNames ==
  \A p, q \in served :
    p[2] = q[2] /\ p[1] # q[1] => p[1] < 0 /\ q[1] < 0
=============================================================================
