-------------------------- MODULE Operations_proofs --------------------------
(***************************************************************************)
(* For any versions, sizes and limits, and any number of databases,        *)
(* backups, restores and faults: the workspace of a server keeps what was  *)
(* served, and its target directory stays whole, through restores that     *)
(* fail, are taken back or die between any two renames.                    *)
(***************************************************************************)
EXTENDS Operations, SequenceTheorems, TLAPS

\* The epoch that a lineage is served under.
Epoch(s) == IF s < 0 THEN 0 ELSE s

\* A database has its objects and no other database's WAL beside it.
Whole(c) ==
  IF c.db = Null THEN c.wal = Null
  ELSE c.db.set \in c.files /\ c.wal \in {Null, c.db.set}

ServiceOK ==
  /\ service # "stopped" => target.db # Null
  /\ broken => service = "stopped" /\ restore = Null

\* Recovery directories are used in turn.
DirsOK ==
  /\ restore # Null => restore.n = restores
  /\ \A n \in Recoveries : n > restores => disk[n] = Nowhere

\* Only what a restore staged has an epoch of its own, and that is its own.
EpochsOK ==
  /\ \A p \in Homes : disk[p].db # Null => disk[p].db.epoch = Epoch(disk[p].db.set)
  /\ \A pair \in served : pair[2] = Epoch(pair[1])
  /\ restore # Null /\ restore.before.db # Null =>
       restore.before.db.epoch = Epoch(restore.before.db.set)

WholeOK ==
  ~split =>
    /\ restore = Null /\ ~broken => Whole(target)
    /\ restore # Null => Whole(restore.before)

\* The homes that a restore under way does not touch.
Away == Homes \ (IF restore = Null THEN {} ELSE {Target, restore.n})

Held(c, s) == c.db # Null /\ c.db.set = s

\* Where the database, the objects and the last writes of a lineage are: in a home no
\* restore touches, or among what the restore under way found at the target.
DbKept(s) ==
  \/ \E p \in Away : Held(disk[p], s)
  \/ restore # Null /\ Held(restore.before, s)
FilesKept(s) ==
  \/ \E p \in Away : s \in disk[p].files
  \/ restore # Null /\ s \in restore.before.files
WalKept(s) ==
  \/ \E p \in Away : Held(disk[p], s) /\ disk[p].wal = s
  \/ restore # Null /\ Held(restore.before, s) /\ restore.before.wal = s
  \/ broken /\ \E p \in Homes : disk[p].wal = s

KeptOK ==
  /\ \A pair \in served : DbKept(pair[1]) /\ (split \/ FilesKept(pair[1]))
  /\ \A s \in unflushed : split \/ WalKept(s)

\* The step of the way back that undoes rename i.
Turn == <<4, 5, 3, 2, 1>>

\* Rename i has been made for sure, or is not in effect for sure; after a failure on
\* the way back it may be either.
Made(i) == i \in restore.moved /\ (restore.back => restore.step <= Turn[i])
Unmade(i) ==
  \/ i \notin restore.moved
  \/ restore.back /\ ~restore.failed /\ restore.step > Turn[i]

\* A restore that is not on its way back made the renames before its step, one
\* that is on it a first part of them.
MovedOK ==
  /\ restore.moved \subseteq 1..5
  /\ restore.step = 0 => ~restore.back
  /\ restore.failed => restore.back
  /\ ~restore.back => \A i \in 1..5 : i \in restore.moved <=> i < restore.step /\ Applies(i)
  /\ \A i \in restore.moved : Applies(i) /\ \A j \in 1..(i-1) : Applies(j) => j \in restore.moved

staged == disk[StageDir]
saved == disk[restore.n]

\* What was at the target is there or in the recovery directory, each part in one of
\* them; what was staged is at the stage or, its way being free, at the target.
LiesOK ==
  /\ staged.wal = Null /\ staged.files \in {{}, {restore.n}}
  /\ staged.db # Null => staged.db.set = restore.n
  /\ saved.db \in {Null, restore.before.db}
  /\ saved.wal \in {Null, restore.before.wal}
  /\ saved.files \in {{}, restore.before.files}
  /\ target.wal = IF saved.wal = Null THEN restore.before.wal ELSE Null
  /\ IF staged.files = {} THEN target.files = {restore.n} /\ saved.files = restore.before.files
     ELSE target.files = IF saved.files = {} THEN restore.before.files ELSE {}
  /\ IF restore.before.db # Null /\ saved.db = Null THEN target.db = restore.before.db
     ELSE IF staged.db # Null THEN target.db = Null
     ELSE target.db # Null /\ target.db.set = restore.n /\ target.db.epoch = restore.n
  /\ staged.db # Null /\ (restore.moved # {} \/ (~restore.back /\ restore.step >= 1)) =>
       staged.db.epoch = restore.n

\* Which part lies where is known, except for what a failed way back reached.
MadeOK ==
  /\ (Made(1) => saved.db = restore.before.db) /\ (Unmade(1) => saved.db = Null)
  /\ (Made(2) => saved.wal = restore.before.wal) /\ (Unmade(2) => saved.wal = Null)
  /\ (Made(3) => saved.files = restore.before.files) /\ (Unmade(3) => saved.files = {})
  /\ (Made(4) => staged.files = {}) /\ (Unmade(4) => staged.files # {})
  /\ (Made(5) => staged.db = Null) /\ (Unmade(5) => staged.db # Null)

RestoreOK == restore # Null => MovedOK /\ LiesOK /\ MadeOK

IInv ==
  TypeOK /\ ServiceOK /\ DirsOK /\ EpochsOK /\ WholeOK /\ KeptOK /\ RestoreOK

USE BackupAssumption, OperationsAssumption DEF target, staged, saved
-----------------------------------------------------------------------------
(* The operators *)

\* The renames and the way back, read off their lists.
LEMMA Lists ==
  /\ Last = 6
  /\ Renames[1] = <<"db", "target", "recovery">>
  /\ Renames[2] = <<"wal", "target", "recovery">>
  /\ Renames[3] = <<"files", "target", "recovery">>
  /\ Renames[4] = <<"files", "stage", "target">>
  /\ Renames[5] = <<"db", "stage", "target">>
  /\ Reverse = <<5, 4, 3, 1, 2>>
  BY DEF Last, Renames, Reverse

\* A restore has six steps, the last without a rename.
LEMMA SixSteps == Last = 6
  BY DEF Last, Renames

\* How a restore begins.
LEMMA Begun ==
  ASSUME NEW n \in Recoveries, NEW c \in Content
  PROVE  [n |-> n, step |-> 0, back |-> FALSE, moved |-> {}, failed |-> FALSE,
          before |-> c] \in Restores
<1>1. 0 \in 0..Last /\ {} \in SUBSET (1..Last)
  BY SixSteps
<1> QED BY <1>1 DEF Restores

\* Which step of the way back undoes which rename.
LEMMA Turns ==
  Turn[1] = 4 /\ Turn[2] = 5 /\ Turn[3] = 3 /\ Turn[4] = 2 /\ Turn[5] = 1
  BY DEF Turn

\* The three kinds of directories are different places.
LEMMA Apartness ==
  /\ Target \in Homes /\ Target \in Places /\ StageDir \in Places /\ StageDir \notin Homes
  /\ Target # StageDir
  /\ Recoveries \subseteq Homes /\ Homes \subseteq Places
  /\ \A n \in Recoveries : n \in Nat /\ n > 0 /\ n # Target /\ n # StageDir
  BY DEF Target, StageDir, Homes, Places, Recoveries

\* rename() of a database moves it, over one that lies there, or does nothing.
LEMMA RenamedDb ==
  ASSUME disk \in [Places -> Content], NEW p \in Places, NEW q \in Places, p # q
  PROVE  LET d == Renamed("db", p, q)
         IN /\ d \in [Places -> Content]
            /\ \A x \in Places \ {p, q} : d[x] = disk[x]
            /\ \A x \in Places : d[x].wal = disk[x].wal /\ d[x].files = disk[x].files
            /\ d[p].db = Null
            /\ d[q].db = IF disk[p].db = Null THEN disk[q].db ELSE disk[p].db
  BY DEF Renamed, Absent, Content

\* The same of a WAL; one that is missing is passed over.
LEMMA RenamedWal ==
  ASSUME disk \in [Places -> Content], NEW p \in Places, NEW q \in Places, p # q
  PROVE  LET d == Renamed("wal", p, q)
         IN /\ d \in [Places -> Content]
            /\ \A x \in Places \ {p, q} : d[x] = disk[x]
            /\ \A x \in Places : d[x].db = disk[x].db /\ d[x].files = disk[x].files
            /\ d[p].wal = Null
            /\ d[q].wal = IF disk[p].wal = Null THEN disk[q].wal ELSE disk[p].wal
  BY DEF Renamed, Absent, Content

\* The same of the objects' directory.
LEMMA RenamedFiles ==
  ASSUME disk \in [Places -> Content], NEW p \in Places, NEW q \in Places, p # q
  PROVE  LET d == Renamed("files", p, q)
         IN /\ d \in [Places -> Content]
            /\ \A x \in Places \ {p, q} : d[x] = disk[x]
            /\ \A x \in Places : d[x].db = disk[x].db /\ d[x].wal = disk[x].wal
            /\ d[p].files = {}
            /\ d[q].files = IF disk[p].files = {} THEN disk[q].files ELSE disk[p].files
  BY DEF Renamed, Absent, Content
-----------------------------------------------------------------------------
(* The service and the backups *)

\* Empty directories satisfy the invariant.
LEMMA InitOK == Init => IInv
<1> SUFFICES ASSUME Init PROVE IInv
  OBVIOUS
<1>1. TypeOK
  <2>1. BackupTypeOK(Dbs)
    BY DEF Init, BackupInit, BackupTypeOK
  <2>2. Nowhere \in Content
    BY DEF Nowhere, Content
  <2>3. disk \in [Places -> Content]
    BY <2>2 DEF Init
  <2>4. fresh \in 0..MaxFresh /\ restores \in 0..MaxRestores
    BY DEF Init
  <2>5. /\ program \in Versions /\ service = "stopped" /\ restore = Null /\ task = Null
        /\ broken = FALSE /\ split = FALSE /\ served = {} /\ unflushed = {}
    BY DEF Init, BackupInit
  <2> QED BY <2>1, <2>3, <2>4, <2>5 DEF TypeOK
<1>2. ServiceOK /\ DirsOK /\ RestoreOK
  BY DEF Init, ServiceOK, DirsOK, RestoreOK, Places, Recoveries, Homes
<1>3. EpochsOK /\ WholeOK /\ KeptOK
  BY Apartness DEF Init, EpochsOK, WholeOK, KeptOK, Whole, Nowhere
<1> QED BY <1>1, <1>2, <1>3 DEF IInv

\* What the backups need keeps its types while they are left alone.
LEMMA BackupFrame ==
  ASSUME IInv, UNCHANGED backupVars, faults' \in 0..MaxFaults
  PROVE  BackupTypeOK(Dbs)'
  BY DEF IInv, TypeOK, BackupTypeOK, backupVars

\* Whether or not a fault is counted, their number stays within the bound.
LEMMA FaultsOK ==
  ASSUME IInv, Fault \/ NoFault
  PROVE  faults' \in 0..MaxFaults
  BY DEF IInv, TypeOK, BackupTypeOK, Fault, NoFault

\* The service opens its database or creates one (Database).
LEMMA StartOK == IInv /\ Start => IInv'
<1> SUFFICES ASSUME IInv, Start PROVE IInv'
  OBVIOUS
<1>1. /\ service = "stopped" /\ task = Null /\ restore = Null /\ ~broken
      /\ service' = "starting"
      /\ UNCHANGED <<program, backupVars, faults, restore, restores, broken>>
      /\ UNCHANGED <<served, unflushed, split>>
  BY DEF Start, Free, history
<1>2. disk \in [Places -> Content] /\ fresh \in Nat /\ faults \in 0..MaxFaults
  BY DEF IInv, TypeOK, BackupTypeOK
<1>3. BackupTypeOK(Dbs)'
  BY <1>1, <1>2, BackupFrame
<1>4. CASE target.db # Null
  <2>1. UNCHANGED <<fresh, disk>>
    BY <1>4 DEF Start
  <2>2. TypeOK'
    BY <1>1, <1>3, <2>1 DEF IInv, TypeOK, backupVars
  <2>3. ServiceOK' /\ DirsOK' /\ EpochsOK' /\ WholeOK' /\ RestoreOK'
    BY <1>1, <1>4, <2>1 DEF IInv, ServiceOK, DirsOK, EpochsOK, WholeOK, RestoreOK
  <2>4. KeptOK'
    BY <1>1, <2>1 DEF IInv, KeptOK, DbKept, FilesKept, WalKept, Away
  <2> QED BY <2>2, <2>3, <2>4 DEF IInv
<1>5. CASE target.db = Null
  <2> DEFINE made == [set |-> -fresh', schema |-> 0, epoch |-> 0]
             content == [db |-> made, wal |-> Null, files |-> target.files \cup {-fresh'}]
  <2>1. fresh < MaxFresh /\ fresh' = fresh + 1 /\ disk' = [disk EXCEPT ![Target] = content]
    BY <1>5 DEF Start
  <2>2. -fresh' \in Lineages /\ -fresh' < 0 /\ fresh' \in 0..MaxFresh
    BY <1>2, <2>1 DEF Lineages
  <2>3. made \in Dbs /\ made # Null
    BY <2>2 DEF Dbs
  <2>4. content \in Content
    BY <1>2, <2>2, <2>3, Apartness DEF Content
  <2>5. /\ disk' \in [Places -> Content]
        /\ target' = content
        /\ \A p \in Places \ {Target} : disk'[p] = disk[p]
    BY <1>2, <2>1, <2>4, Apartness
  <2>6. TypeOK'
    BY <1>1, <1>3, <2>2, <2>5 DEF IInv, TypeOK, backupVars
  <2>7. ServiceOK' /\ DirsOK' /\ RestoreOK'
    BY <1>1, <2>3, <2>5, Apartness DEF IInv, ServiceOK, DirsOK, RestoreOK
  <2>8. EpochsOK'
    BY <1>1, <2>2, <2>5, Apartness DEF IInv, EpochsOK, Epoch
  <2>9. WholeOK'
    BY <1>1, <2>3, <2>5 DEF WholeOK, Whole
  <2>10. KeptOK'
    <3>1. \A s : DbKept(s) => DbKept(s)'
      BY <1>1, <1>5, <2>5, Apartness DEF DbKept, Away, Held
    <3>2. \A s : FilesKept(s) => FilesKept(s)'
      BY <1>1, <2>5, Apartness DEF FilesKept, Away
    <3>3. \A s : WalKept(s) => WalKept(s)'
      BY <1>1, <1>5, <2>5, Apartness DEF WalKept, Away, Held
    <3> QED BY <1>1, <3>1, <3>2, <3>3 DEF IInv, KeptOK
  <2> QED BY <2>6, <2>7, <2>8, <2>9, <2>10 DEF IInv
<1> QED BY <1>4, <1>5

\* A committed write, of a migration or of a request, is in the WAL beside its
\* database (runMigrations, run).
LEMMA WrittenOK ==
  ASSUME IInv, NEW content \in Content, service # "stopped", service' = service,
         content.db \in Dbs, content.db.set = target.db.set,
         content.db.epoch = target.db.epoch, content.wal = target.db.set,
         content.files = target.files, disk' = [disk EXCEPT ![Target] = content],
         unflushed' = unflushed \cup {target.db.set},
         UNCHANGED <<program, backupVars, faults, restore, fresh, restores, broken,
                     served, split>>
  PROVE  IInv'
<1>1. /\ disk \in [Places -> Content] /\ restore = Null /\ task = Null /\ ~broken
      /\ target.db # Null /\ target.db \in Dbs /\ content.db # Null
      /\ faults \in 0..MaxFaults
  BY Apartness DEF IInv, TypeOK, BackupTypeOK, ServiceOK, Content
<1>2. target.db.set \in Lineages
  BY <1>1, Apartness DEF Content, Dbs
<1>3. /\ disk' \in [Places -> Content]
      /\ target' = content
      /\ \A p \in Places \ {Target} : disk'[p] = disk[p]
  BY <1>1, <1>2, Apartness
<1>4. TypeOK'
  BY <1>1, <1>2, <1>3, BackupFrame DEF IInv, TypeOK, backupVars
<1>5. ServiceOK' /\ DirsOK' /\ RestoreOK'
  BY <1>1, <1>3, Apartness DEF IInv, ServiceOK, DirsOK, RestoreOK
<1>6. EpochsOK'
  BY <1>1, <1>3, Apartness DEF IInv, EpochsOK
<1>7. WholeOK'
  BY <1>1, <1>3 DEF IInv, WholeOK, Whole
<1>8. KeptOK'
  <2>1. \A s : DbKept(s) => DbKept(s)'
    BY <1>1, <1>3, Apartness DEF DbKept, Away, Held
  <2>2. \A s : FilesKept(s) => FilesKept(s)'
    BY <1>1, <1>3, Apartness DEF FilesKept, Away
  <2>3. \A s : WalKept(s) => WalKept(s)'
    BY <1>1, <1>3, Apartness DEF WalKept, Away, Held
  <2>4. WalKept(target.db.set)'
    BY <1>1, <1>3, Apartness DEF WalKept, Away, Held
  <2> QED BY <2>1, <2>2, <2>3, <2>4 DEF IInv, KeptOK
<1> QED BY <1>4, <1>5, <1>6, <1>7, <1>8 DEF IInv

\* A migration commits (runMigrations).
LEMMA MigrateOK == IInv /\ Migrate => IInv'
<1> SUFFICES ASSUME IInv, Migrate PROVE IInv'
  OBVIOUS
<1> DEFINE d == [target.db EXCEPT !.schema = @ + 1]
<1>1. disk \in [Places -> Content] /\ target.db \in Dbs /\ program \in Versions
  BY Apartness DEF IInv, TypeOK, ServiceOK, Content, Migrate
<1>2. d \in Dbs /\ d.set = target.db.set /\ d.epoch = target.db.epoch
  BY <1>1 DEF Dbs, Migrate, Versions
<1> DEFINE content == [target EXCEPT !.db = d, !.wal = target.db.set]
<1>3. /\ content \in Content /\ content.db = d /\ content.wal = target.db.set
      /\ content.files = target.files
  BY <1>1, <1>2, Apartness DEF Content, Dbs
<1>5. disk' = [disk EXCEPT ![Target] = content]
  BY <1>1, Apartness DEF Migrate
<1>4. /\ service # "stopped" /\ service' = service
      /\ unflushed' = unflushed \cup {target.db.set}
      /\ UNCHANGED <<program, backupVars, faults, restore, fresh, restores, broken,
                     served, split>>
  BY DEF Migrate
<1> HIDE DEF d, content
<1> QED BY <1>2, <1>3, <1>4, <1>5, WrittenOK

\* A request commits (run).
LEMMA WriteOK == IInv /\ Write => IInv'
<1> SUFFICES ASSUME IInv, Write PROVE IInv'
  OBVIOUS
<1>1. disk \in [Places -> Content] /\ target.db \in Dbs
  BY Apartness DEF IInv, TypeOK, ServiceOK, Content, Write
<1> DEFINE content == [target EXCEPT !.wal = target.db.set]
<1>2. /\ content \in Content /\ content.db = target.db /\ content.wal = target.db.set
      /\ content.files = target.files
  BY <1>1, Apartness DEF Content, Dbs
<1>4. disk' = [disk EXCEPT ![Target] = content]
  BY DEF Write
<1>3. /\ service # "stopped" /\ service' = service
      /\ unflushed' = unflushed \cup {target.db.set}
      /\ UNCHANGED <<program, backupVars, faults, restore, fresh, restores, broken,
                     served, split>>
  BY DEF Write
<1> HIDE DEF content
<1> QED BY <1>1, <1>2, <1>3, <1>4, WrittenOK

\* The service is ready and clients see its lineage and epoch (createApplication).
LEMMA ReadyOK == IInv /\ Ready => IInv'
<1> SUFFICES ASSUME IInv, Ready PROVE IInv'
  OBVIOUS
<1> DEFINE pair == <<target.db.set, target.db.epoch>>
<1>1. /\ service = "starting" /\ service' = "running"
      /\ served' = served \cup {pair}
      /\ UNCHANGED <<program, backupVars, faults, disk, restore, fresh, restores, broken,
                     unflushed, split>>
  BY DEF Ready
<1>2. /\ disk \in [Places -> Content] /\ restore = Null /\ task = Null /\ ~broken
      /\ target.db # Null /\ target.db \in Dbs /\ faults \in 0..MaxFaults
  BY <1>1, Apartness DEF IInv, TypeOK, BackupTypeOK, ServiceOK, Content
<1>3. TypeOK'
  <2>1. pair \in Lineages \X (0..MaxRestores)
    BY <1>2 DEF Dbs
  <2> QED BY <1>1, <1>2, <2>1, BackupFrame DEF IInv, TypeOK, backupVars
<1>4. ServiceOK' /\ DirsOK' /\ RestoreOK' /\ WholeOK'
  BY <1>1, <1>2 DEF IInv, ServiceOK, DirsOK, RestoreOK, WholeOK
<1>5. EpochsOK'
  BY <1>1, <1>2, Apartness DEF IInv, EpochsOK
<1>6. KeptOK'
  <2>1. \A s : /\ DbKept(s) => DbKept(s)'
               /\ FilesKept(s) => FilesKept(s)'
               /\ WalKept(s) => WalKept(s)'
    BY <1>1 DEF DbKept, FilesKept, WalKept, Away, Held
  <2>2. DbKept(pair[1])' /\ (split \/ FilesKept(pair[1])')
    BY <1>1, <1>2, Apartness DEF IInv, WholeOK, Whole, DbKept, FilesKept, Away, Held
  <2> QED BY <1>1, <2>1, <2>2 DEF IInv, KeptOK
<1> QED BY <1>3, <1>4, <1>5, <1>6 DEF IInv

\* The service closes: its last connection writes the WAL back (close).
LEMMA StopOK == IInv /\ Stop => IInv'
<1> SUFFICES ASSUME IInv, Stop PROVE IInv'
  OBVIOUS
<1>1. /\ service # "stopped" /\ service' = "stopped"
      /\ disk' = [disk EXCEPT ![Target].wal = Null]
      /\ unflushed' = unflushed \ {target.db.set}
      /\ UNCHANGED <<program, backupVars, faults, restore, fresh, restores, broken, served, split>>
  BY DEF Stop
<1>2. /\ disk \in [Places -> Content] /\ restore = Null /\ task = Null /\ ~broken
      /\ target.db # Null /\ faults \in 0..MaxFaults
  BY <1>1, Apartness DEF IInv, TypeOK, BackupTypeOK, ServiceOK
<1>3. /\ disk' \in [Places -> Content]
      /\ target'.wal = Null /\ target'.db = target.db /\ target'.files = target.files
      /\ \A p \in Places \ {Target} : disk'[p] = disk[p]
  BY <1>1, <1>2, Apartness DEF Content
<1>4. TypeOK'
  BY <1>1, <1>2, <1>3, BackupFrame DEF IInv, TypeOK, backupVars
<1>5. ServiceOK' /\ DirsOK' /\ RestoreOK'
  BY <1>1, <1>2, <1>3, Apartness DEF IInv, ServiceOK, DirsOK, RestoreOK
<1>6. EpochsOK' /\ WholeOK'
  BY <1>1, <1>2, <1>3, Apartness DEF IInv, EpochsOK, WholeOK, Whole
<1>7. KeptOK'
  <2>1. \A s : DbKept(s) => DbKept(s)'
    BY <1>1, <1>2, <1>3, Apartness DEF DbKept, Away, Held
  <2>2. \A s : FilesKept(s) => FilesKept(s)'
    BY <1>1, <1>2, <1>3, Apartness DEF FilesKept, Away
  <2>3. \A s : s # target.db.set /\ WalKept(s) => WalKept(s)'
    BY <1>1, <1>2, <1>3, Apartness DEF WalKept, Away, Held
  <2> QED BY <1>1, <2>1, <2>2, <2>3 DEF IInv, KeptOK
<1> QED BY <1>4, <1>5, <1>6, <1>7 DEF IInv

\* Steps that leave the workspace alone: a killed service, another program, a backup.
LEMMA WorkspaceFrame ==
  ASSUME IInv, TypeOK', service' \in {service, "stopped"},
         UNCHANGED <<disk, restore, fresh, restores, broken, history>>
  PROVE  IInv'
<1>1. ServiceOK' /\ DirsOK' /\ EpochsOK' /\ WholeOK'
  BY DEF IInv, ServiceOK, DirsOK, EpochsOK, WholeOK, history
<1>2. KeptOK'
  BY DEF IInv, KeptOK, DbKept, FilesKept, WalKept, Away, history
<1>3. RestoreOK'
  BY DEF IInv, RestoreOK, MovedOK, LiesOK, MadeOK, Made, Unmade, Applies
<1> QED BY <1>1, <1>2, <1>3 DEF IInv

\* The process of the service is killed.
LEMMA KillOK == IInv /\ Kill => IInv'
<1> SUFFICES ASSUME IInv, Kill PROVE IInv'
  OBVIOUS
<1>1. faults' \in 0..MaxFaults
  BY FaultsOK DEF Kill
<1>2. TypeOK'
  BY <1>1, BackupFrame DEF Kill, IInv, TypeOK, backupVars, history
<1> QED BY <1>2, WorkspaceFrame DEF Kill

\* Another version is installed.
LEMMA InstallOK == IInv /\ Install => IInv'
<1> SUFFICES ASSUME IInv, Install PROVE IInv'
  OBVIOUS
<1>1. faults' \in 0..MaxFaults
  BY DEF Install, IInv, TypeOK, BackupTypeOK
<1>2. TypeOK'
  BY <1>1, BackupFrame DEF Install, IInv, TypeOK, backupVars, history, work
<1> QED BY <1>2, WorkspaceFrame DEF Install, work

BackupRow(db) ==
  [db : db, size : Sizes, state : {"whole", "torn", "gone"}, done : BOOLEAN]

\* Marking a backup keeps the shelf's type.
LEMMA BecomesOK ==
  ASSUME NEW i, NEW s \in {"whole", "torn", "gone"}, Becomes(i, s),
         backups \in Seq(BackupRow(Dbs))
  PROVE  backups' \in Seq(BackupRow(Dbs)) /\ DOMAIN backups' = DOMAIN backups
<1>1. /\ backups \in [1..Len(backups) -> BackupRow(Dbs)] /\ Len(backups) \in Nat
  OBVIOUS
<1>2. backups' \in [1..Len(backups) -> BackupRow(Dbs)]
  BY <1>1 DEF Becomes, BackupRow
<1> QED BY <1>1, <1>2, SeqDef

\* One step of a backup run (createOfflineBackup).
LEMMA BackupOK == IInv /\ Backup => IInv'
<1> SUFFICES ASSUME IInv, Backup PROVE IInv'
  OBVIOUS
<1> DEFINE Steps == [step : {"checking", "pruning", "undoing"}, kept : SUBSET (DOMAIN backups)]
<1>1. UNCHANGED <<program, work, history>>
  BY DEF Backup
<1>2. /\ backups \in Seq(BackupRow(Dbs)) /\ task \in Steps \cup {Null}
      /\ faults \in 0..MaxFaults
  BY DEF IInv, TypeOK, BackupTypeOK, BackupRow
<1>3. service = "stopped" /\ restore = Null
  BY DEF Backup, Free, BackupStep, CheckAll, Prune, Pruning, Finish, Undo, BackupDies, IInv, TypeOK
<1>4. faults' \in 0..MaxFaults
  <2>1. Fault \/ NoFault
    BY DEF Backup, Publish, BackupStep, CheckAll, Prune, Finish, Undo, BackupDies
  <2> QED BY <2>1, FaultsOK
<1>5. /\ backups' \in Seq(BackupRow(Dbs))
      /\ task' \in {Null} \cup
           [step : {"checking", "pruning", "undoing"}, kept : SUBSET (DOMAIN backups')]
  <2>1. CASE Free /\ target.db # Null /\ \E n \in Sizes : Publish(target.db, n)
    <3>1. PICK n \in Sizes : Publish(target.db, n)
      BY <2>1
    <3>2. target.db \in Dbs
      BY <2>1, Apartness DEF IInv, TypeOK, Content
    <3>3. [db |-> target.db, size |-> n, state |-> "whole", done |-> FALSE] \in BackupRow(Dbs)
      BY <3>2 DEF BackupRow
    <3> QED BY <1>2, <3>1, <3>3, AppendProperties DEF Publish
  <2>2. CASE CheckAll
    BY <1>2, <2>2 DEF CheckAll, Shelf
  <2>3. CASE Prune
    <3> DEFINE old == Victim(task.kept)
    <3>1. task \in Steps
      BY <1>2, <2>3 DEF Prune, Pruning
    <3>2. CASE Becomes(old, "gone") /\ task' = [task EXCEPT !.kept = @ \ {old}]
      BY <1>2, <3>1, <3>2, BecomesOK
    <3>3. CASE /\ \E s \in {"whole", "torn"} : Becomes(old, s)
               /\ task' = [step |-> "undoing", kept |-> {}]
      BY <1>2, <3>3, BecomesOK
    <3> QED BY <2>3, <3>2, <3>3 DEF Prune
  <2>4. CASE Finish
    <3>1. backups \in [1..Len(backups) -> BackupRow(Dbs)] /\ Len(backups) \in Nat
      BY <1>2
    <3>2. backups' \in [1..Len(backups) -> BackupRow(Dbs)]
      BY <2>4, <3>1 DEF Finish, BackupRow
    <3>3. backups' \in Seq(BackupRow(Dbs))
      BY <3>1, <3>2, SeqDef
    <3> QED BY <2>4, <3>3 DEF Finish
  <2>5. CASE Undo
    <3>1. \E s \in {"whole", "torn", "gone"} : Becomes(New, s)
      BY <2>5 DEF Undo
    <3> QED BY <1>2, <2>5, <3>1, BecomesOK DEF Undo
  <2>6. CASE BackupDies
    <3>1. UNCHANGED backups \/ \E i : Becomes(i, "torn")
      BY <2>6 DEF BackupDies
    <3> QED BY <1>2, <2>6, <3>1, BecomesOK DEF BackupDies
  <2> QED BY <2>1, <2>2, <2>3, <2>4, <2>5, <2>6 DEF Backup, BackupStep
<1>6. TypeOK'
  BY <1>1, <1>3, <1>4, <1>5 DEF IInv, TypeOK, BackupTypeOK, BackupRow, work, history
<1> QED BY <1>1, <1>6, WorkspaceFrame DEF work
-----------------------------------------------------------------------------
(* A restore *)

\* A verified backup is staged; the target and everything else stay as they are.
LEMMA StageOK == ASSUME IInv, NEW i \in DOMAIN backups, Stage(i) PROVE IInv'
<1> DEFINE n == restores + 1
           db == [backups[i].db EXCEPT !.set = n]
           content == [db |-> db, wal |-> Null, files |-> {n}]
           begun == [n |-> n, step |-> 0, back |-> FALSE, moved |-> {},
                     failed |-> FALSE, before |-> target]
<1>1. /\ service = "stopped" /\ task = Null /\ restore = Null /\ ~broken
      /\ restores < MaxRestores /\ restores' = n
      /\ disk' = [disk EXCEPT ![StageDir] = content]
      /\ restore' = begun
      /\ UNCHANGED <<program, backupVars, faults, service, fresh, broken>>
      /\ UNCHANGED <<served, unflushed, split>>
  BY DEF Stage, Free, history
<1>2. /\ disk \in [Places -> Content] /\ restores \in 0..MaxRestores
      /\ faults \in 0..MaxFaults /\ backups[i].db \in Dbs
  <2>1. backups \in Seq(BackupRow(Dbs))
    BY DEF IInv, TypeOK, BackupTypeOK, BackupRow
  <2>2. backups[i] \in BackupRow(Dbs)
    BY <2>1
  <2> QED BY <2>2 DEF BackupRow, IInv, TypeOK, BackupTypeOK
<1>3. n \in Recoveries /\ n \in 0..MaxRestores /\ n \in Lineages /\ restores < n
  BY <1>1, <1>2 DEF Recoveries, Lineages
<1>4. db \in Dbs /\ db # Null /\ db.set = n
  BY <1>2, <1>3 DEF Dbs
<1>5. content \in Content
  BY <1>3, <1>4 DEF Content
<1>6. begun \in Restores /\ begun # Null
  <2>1. target \in Content
    BY <1>2, Apartness
  <2>2. begun \in Restores
    BY <1>3, <2>1, Begun
  <2> QED BY <2>2
<1>7. /\ disk' \in [Places -> Content]
      /\ disk'[StageDir] = content
      /\ \A p \in Places \ {StageDir} : disk'[p] = disk[p]
  BY <1>1, <1>2, <1>5, Apartness
<1>8. /\ restore'.n = n /\ restore'.step = 0 /\ ~restore'.back /\ restore'.moved = {}
      /\ ~restore'.failed /\ restore'.before = target
  BY <1>1
<1>9. /\ content.db = db /\ content.wal = Null /\ content.files = {n}
  OBVIOUS
<1> HIDE DEF n, db, content, begun
<1>10. TypeOK'
  BY <1>1, <1>2, <1>3, <1>6, <1>7, BackupFrame DEF IInv, TypeOK, backupVars
<1>11. disk[n] = Nowhere /\ disk'[n] = Nowhere
  BY <1>1, <1>3, <1>7, Apartness DEF IInv, DirsOK
<1>12. ServiceOK' /\ DirsOK'
  BY <1>1, <1>2, <1>3, <1>7, <1>8, Apartness DEF IInv, ServiceOK, DirsOK, Recoveries, n
<1>13. EpochsOK' /\ WholeOK'
  BY <1>1, <1>6, <1>7, <1>8, Apartness DEF IInv, EpochsOK, WholeOK
<1>14. KeptOK'
  <2>1. Away = Homes /\ Away' = Homes \ {Target, n}
    BY <1>1, <1>6, <1>8 DEF Away
  <2>2. \A p \in Homes : disk'[p] = disk[p]
    BY <1>7, Apartness
  <2>3. \A s : DbKept(s) => DbKept(s)'
    BY <1>1, <1>6, <1>8, <1>11, <2>1, <2>2 DEF DbKept, Held, Nowhere
  <2>4. \A s : FilesKept(s) => FilesKept(s)'
    BY <1>1, <1>6, <1>8, <1>11, <2>1, <2>2 DEF FilesKept, Nowhere
  <2>5. \A s : WalKept(s) => WalKept(s)'
    BY <1>1, <1>6, <1>8, <1>11, <2>1, <2>2 DEF WalKept, Held, Nowhere
  <2> QED BY <1>1, <2>3, <2>4, <2>5 DEF IInv, KeptOK
<1>15. RestoreOK'
  <2>1. MovedOK'
    BY <1>8 DEF MovedOK
  <2>2. LiesOK'
    BY <1>3, <1>4, <1>7, <1>8, <1>9, <1>11, Apartness DEF LiesOK, Nowhere
  <2>3. MadeOK'
    BY <1>4, <1>7, <1>8, <1>9, <1>11, Apartness DEF MadeOK, Made, Unmade, Nowhere
  <2> QED BY <2>1, <2>2, <2>3 DEF RestoreOK
<1> QED BY <1>10, <1>12, <1>13, <1>14, <1>15 DEF IInv

\* What a restore under way has.
LEMMA UnderWay ==
  ASSUME IInv, restore # Null
  PROVE  /\ restore \in Restores /\ restore.n \in Recoveries /\ restore.n = restores
         /\ restore.before \in Content /\ restore.step \in 0..6
         /\ restore.n # Target /\ restore.n # StageDir
         /\ restore.n \in Places /\ restore.n \in Homes
         /\ disk \in [Places -> Content]
         /\ At("target") = Target /\ At("stage") = StageDir /\ At("recovery") = restore.n
         /\ service = "stopped" /\ task = Null /\ ~broken
         /\ MovedOK /\ LiesOK /\ MadeOK
<1>1. restore \in Restores /\ disk \in [Places -> Content]
  BY DEF IInv, TypeOK
<1>2. restore.n \in Recoveries /\ restore.before \in Content /\ restore.step \in 0..6
  BY <1>1, SixSteps DEF Restores
<1>3. service = "stopped" /\ task = Null /\ ~broken /\ restore.n = restores
  BY DEF IInv, TypeOK, ServiceOK, DirsOK
<1>4. MovedOK /\ LiesOK /\ MadeOK
  BY DEF IInv, RestoreOK
<1>5. At("target") = Target /\ At("stage") = StageDir /\ At("recovery") = restore.n
  BY DEF At
<1> QED BY <1>1, <1>2, <1>3, <1>4, <1>5, Apartness

\* A step of a restore that goes on: what it keeps apart from its own part of the
\* invariant.
LEMMA GoesOn ==
  ASSUME IInv, restore # Null, restore' # Null, restore' \in Restores,
         restore'.n = restore.n, restore'.before = restore.before,
         disk' \in [Places -> Content],
         \A p \in Homes \ {Target, restore.n} : disk'[p] = disk[p],
         Fault \/ NoFault,
         UNCHANGED <<program, backupVars, service, fresh, restores, broken, history>>,
         MovedOK', LiesOK', MadeOK'
  PROVE  IInv'
<1>1. /\ restore.n \in Recoveries /\ restore.n = restores /\ service = "stopped" /\ task = Null
      /\ ~broken /\ UNCHANGED <<served, unflushed, split>>
  BY UnderWay DEF history
<1>2. faults' \in 0..MaxFaults
  BY FaultsOK
<1>3. TypeOK'
  BY <1>1, <1>2, BackupFrame DEF IInv, TypeOK, backupVars
<1>4. ServiceOK' /\ RestoreOK' /\ WholeOK'
  BY <1>1 DEF IInv, ServiceOK, RestoreOK, WholeOK
<1>5. DirsOK'
  BY <1>1, Apartness DEF IInv, DirsOK, Recoveries
<1>6. EpochsOK'
  <2>1. restore.before.db # Null => restore.before.db.epoch = Epoch(restore.before.db.set)
    BY DEF IInv, EpochsOK
  <2>2. restore.n = Epoch(restore.n)
    BY <1>1, Apartness DEF Epoch
  <2>3. \A p \in {Target, restore.n} :
          disk'[p].db # Null => disk'[p].db.epoch = Epoch(disk'[p].db.set)
    BY <2>1, <2>2 DEF LiesOK
  <2> QED BY <1>1, <2>1, <2>3 DEF IInv, EpochsOK
<1>7. KeptOK'
  <2>1. Away' = Away /\ \A p \in Away : disk'[p] = disk[p]
    BY DEF Away
  <2>2. \A s : (DbKept(s) => DbKept(s)') /\ (FilesKept(s) => FilesKept(s)')
    BY <2>1 DEF DbKept, FilesKept, Held
  <2>3. \A s : WalKept(s) => WalKept(s)'
    BY <1>1, <2>1 DEF WalKept, Held
  <2> QED BY <1>1, <2>2, <2>3 DEF IInv, KeptOK
<1> QED BY <1>3, <1>4, <1>5, <1>6, <1>7 DEF IInv

\* The injected finalization changes the stage's epoch only.
LEMMA FinalizeOK == IInv /\ Finalize => IInv'
<1> SUFFICES ASSUME IInv, Finalize PROVE IInv'
  OBVIOUS
<1>1. PICK rotated \in BOOLEAN :
        /\ disk' = IF rotated THEN [disk EXCEPT ![StageDir].db.epoch = restore.n] ELSE disk
        /\ restore' = [restore EXCEPT !.step = 1, !.back = ~rotated]
  BY DEF Finalize, Completed
<1>2. /\ restore # Null /\ restore.step = 0 /\ ~restore.back
      /\ UNCHANGED <<program, backupVars, faults, service, fresh, restores, broken, history>>
  BY DEF Finalize
<1>3. /\ restore \in Restores /\ restore.n \in Recoveries /\ disk \in [Places -> Content]
      /\ restore.n # StageDir /\ restore.n \in Places
      /\ MovedOK /\ LiesOK /\ MadeOK
  BY <1>2, UnderWay
<1>4. restore.moved = {} /\ ~restore.failed
  BY <1>2, <1>3 DEF MovedOK
<1>5. /\ restore' \in Restores /\ restore'.n = restore.n /\ restore'.step = 1
      /\ restore'.back = ~rotated /\ restore'.moved = {} /\ ~restore'.failed
      /\ restore'.before = restore.before
  <2>1. 1 \in 0..Last /\ (~rotated) \in BOOLEAN
    BY SixSteps
  <2>2. restore' = [restore EXCEPT !.step = 1, !.back = ~rotated]
    BY <1>1
  <2>3. /\ restore' \in Restores /\ restore'.n = restore.n /\ restore'.step = 1
        /\ restore'.back = ~rotated /\ restore'.moved = restore.moved
        /\ restore'.failed = restore.failed /\ restore'.before = restore.before
    BY <1>3, <2>1, <2>2 DEF Restores
  <2> QED BY <1>4, <2>3
<1>6. staged.db \in Dbs /\ staged.db # Null /\ restore.n \in 0..MaxRestores
  BY <1>3, <1>4, Apartness DEF MadeOK, Unmade, Content, Recoveries
<1>7. /\ disk' \in [Places -> Content]
      /\ \A p \in Places \ {StageDir} : disk'[p] = disk[p]
      /\ staged'.wal = staged.wal /\ staged'.files = staged.files
      /\ staged'.db \in Dbs /\ staged'.db.set = staged.db.set
      /\ rotated => staged'.db.epoch = restore.n
  <2>1. CASE rotated
    <3> DEFINE db == [staged.db EXCEPT !.epoch = restore.n]
               content == [staged EXCEPT !.db = db]
    <3>1. db \in Dbs /\ db.set = staged.db.set /\ db.epoch = restore.n
      BY <1>6 DEF Dbs
    <3>2. content \in Content /\ content.db = db /\ content.wal = staged.wal
          /\ content.files = staged.files
      BY <1>3, <3>1, Apartness DEF Content
    <3>3. disk' = [disk EXCEPT ![StageDir] = content]
      BY <1>1, <2>1
    <3> HIDE DEF db, content
    <3> QED BY <1>3, <3>1, <3>2, <3>3, Apartness
  <2>2. CASE ~rotated
    BY <1>1, <1>3, <1>6, <2>2, Apartness
  <2> QED BY <2>1, <2>2
<1>8. staged'.db # Null
  BY <1>7
<1>9. MovedOK'
  BY <1>5 DEF MovedOK
<1>10. LiesOK'
  <2>1. target' = target /\ saved' = saved
    BY <1>3, <1>5, <1>7, Apartness
  <2>2. staged'.db.set = restore.n /\ target.db = IF restore.before.db # Null /\ saved.db = Null
                                     THEN restore.before.db ELSE Null
    BY <1>3, <1>6, <1>7 DEF LiesOK
  <2> HIDE DEF target, staged, saved
  <2> QED BY <1>3, <1>5, <1>6, <1>7, <1>8, <2>1, <2>2 DEF LiesOK
<1>11. MadeOK'
  BY <1>3, <1>4, <1>5, <1>6, <1>7, <1>8, Apartness DEF MadeOK, Made, Unmade
<1>12. Fault \/ NoFault
  BY <1>2 DEF NoFault
<1> QED BY <1>2, <1>5, <1>7, <1>9, <1>10, <1>11, <1>12, Apartness, GoesOn

\* A rename that fails, or the removal of the stage, sends the restore back.
LEMMA TurnsBack ==
  ASSUME IInv, restore # Null, ~restore.back, restore.step >= 1,
         restore' = [restore EXCEPT !.step = 1, !.back = TRUE],
         UNCHANGED disk, Fault,
         UNCHANGED <<program, backupVars, service, fresh, restores, broken, history>>
  PROVE  IInv'
<1>1. restore \in Restores /\ disk \in [Places -> Content] /\ MovedOK /\ LiesOK /\ MadeOK
  BY UnderWay
<1>2. /\ restore' \in Restores /\ restore'.n = restore.n /\ restore'.step = 1
      /\ restore'.back /\ restore'.moved = restore.moved /\ ~restore'.failed
      /\ restore'.before = restore.before
  <2>1. 1 \in 0..Last
    BY SixSteps
  <2>2. /\ restore' \in Restores /\ restore'.n = restore.n /\ restore'.step = 1
        /\ restore'.back /\ restore'.moved = restore.moved
        /\ restore'.failed = restore.failed /\ restore'.before = restore.before
    BY <1>1, <2>1 DEF Restores
  <2>3. ~restore.failed
    BY <1>1 DEF MovedOK
  <2> QED BY <2>2, <2>3
<1>3. MovedOK'
  BY <1>1, <1>2 DEF MovedOK, Applies
<1>4. LiesOK'
  BY <1>1, <1>2 DEF LiesOK
<1>5. MadeOK'
  BY <1>1, <1>2, Turns DEF MadeOK, Made, Unmade
<1> QED BY <1>1, <1>2, <1>3, <1>4, <1>5, GoesOn

\* Before the way back, which renames are in effect is known exactly.
LEMMA OnTheWay ==
  ASSUME IInv, restore # Null, ~restore.back
  PROVE  /\ ~restore.failed
         /\ \A i \in 1..5 : i \in restore.moved <=> i < restore.step /\ Applies(i)
         /\ \A i \in 1..5 : (Made(i) <=> i \in restore.moved) /\ (Unmade(i) <=> i \notin restore.moved)
<1>1. MovedOK
  BY UnderWay
<1> QED BY <1>1 DEF MovedOK, Made, Unmade

\* A rename that is made, or one there is nothing to do for, takes the restore on.
LEMMA Advances ==
  ASSUME IInv, restore # Null, ~restore.back, NEW i \in 1..5, restore.step = i,
         restore' = [restore EXCEPT !.step = @ + 1,
                       !.moved = IF Applies(i) THEN @ \cup {i} ELSE @]
  PROVE  /\ restore' \in Restores /\ restore' # Null /\ restore'.n = restore.n
         /\ restore'.step = i + 1 /\ ~restore'.back /\ ~restore'.failed
         /\ restore'.before = restore.before
         /\ restore'.moved = IF Applies(i) THEN restore.moved \cup {i} ELSE restore.moved
         /\ \A j \in 1..5 : Applies(j)' <=> Applies(j)
         /\ \A j \in 1..5 : (Made(j)' <=> j \in restore'.moved)
                            /\ (Unmade(j)' <=> j \notin restore'.moved)
         /\ MovedOK'
<1>1. restore \in Restores /\ MovedOK /\ ~restore.failed
  BY UnderWay, OnTheWay
<1>2. i + 1 \in 0..Last /\ i \in 1..Last
  BY SixSteps
<1> DEFINE m == IF Applies(i) THEN restore.moved \cup {i} ELSE restore.moved
<1>3. restore' = [restore EXCEPT !.step = i + 1, !.moved = m]
  BY <1>1 DEF Restores
<1>4. m \in SUBSET (1..Last)
  BY <1>1, <1>2 DEF Restores
<1> HIDE DEF m
<1>5. /\ restore' \in Restores /\ restore'.n = restore.n /\ restore'.step = i + 1
      /\ restore'.back = restore.back /\ restore'.failed = restore.failed
      /\ restore'.before = restore.before /\ restore'.moved = m
  BY <1>1, <1>2, <1>3, <1>4 DEF Restores
<1>6. \A j \in 1..5 : Applies(j)' <=> Applies(j)
  BY <1>5 DEF Applies
<1>7. \A j \in 1..5 : (Made(j)' <=> j \in restore'.moved)
                      /\ (Unmade(j)' <=> j \notin restore'.moved)
  BY <1>1, <1>5 DEF Made, Unmade
<1>8. MovedOK'
  <2>1. m \subseteq 1..5 /\ \A j \in 1..5 : j \in m <=> j < i + 1 /\ Applies(j)
    BY <1>1 DEF MovedOK, m
  <2> QED BY <1>1, <1>5, <1>6, <2>1 DEF MovedOK
<1> QED BY <1>1, <1>5, <1>6, <1>7, <1>8 DEF m

\* The database goes to the recovery directory.
LEMMA DbLeaves ==
  ASSUME IInv, restore # Null, ~restore.back, restore.step = 1, Applies(1),
         disk' = Renamed("db", Target, restore.n),
         restore' = [restore EXCEPT !.step = @ + 1,
                       !.moved = IF Applies(1) THEN @ \cup {1} ELSE @]
  PROVE  LiesOK' /\ MadeOK'
<1>1. /\ MovedOK /\ LiesOK /\ MadeOK /\ disk \in [Places -> Content]
      /\ restore.n \in Places /\ restore.n # Target /\ restore.n # StageDir
  BY UnderWay
<1>2. \A i \in 1..5 : i \notin restore.moved /\ Unmade(i)
  BY OnTheWay
<1>3. /\ restore'.n = restore.n /\ restore'.before = restore.before
      /\ restore'.step = 2 /\ ~restore'.back
      /\ Made(1)' /\ ~Unmade(1)' /\ \A j \in 2..5 : ~Made(j)' /\ Unmade(j)'
  BY <1>2, Advances
<1>4. /\ staged' = staged
      /\ target'.db = Null /\ target'.wal = target.wal /\ target'.files = target.files
      /\ saved'.db = (IF target.db = Null THEN saved.db ELSE target.db)
      /\ saved'.wal = saved.wal /\ saved'.files = saved.files
  BY <1>1, <1>3, RenamedDb, Apartness
<1> HIDE DEF target, staged, saved
<1>5. /\ saved.db = Null /\ saved.wal = Null /\ saved.files = {} /\ staged.files # {}
      /\ staged.db # Null /\ restore.before.db # Null
  BY <1>1, <1>2 DEF MadeOK, Applies
<1>6. target.db = restore.before.db
  BY <1>1, <1>5 DEF LiesOK
<1>7. LiesOK'
  BY <1>1, <1>3, <1>4, <1>5, <1>6 DEF LiesOK
<1> QED BY <1>3, <1>4, <1>5, <1>6, <1>7 DEF MadeOK

\* Its WAL follows.
LEMMA WalLeaves ==
  ASSUME IInv, restore # Null, ~restore.back, restore.step = 2, Applies(2),
         disk' = Renamed("wal", Target, restore.n),
         restore' = [restore EXCEPT !.step = @ + 1,
                       !.moved = IF Applies(2) THEN @ \cup {2} ELSE @]
  PROVE  LiesOK' /\ MadeOK'
<1>1. /\ MovedOK /\ LiesOK /\ MadeOK /\ disk \in [Places -> Content]
      /\ restore.n \in Places /\ restore.n # Target /\ restore.n # StageDir
  BY UnderWay
<1>2. /\ Made(1) /\ \A i \in 2..5 : i \notin restore.moved /\ Unmade(i)
      /\ restore.moved = {1}
  <2>1. Applies(1)
    BY DEF Applies
  <2> QED BY <1>1, <2>1, OnTheWay DEF MovedOK
<1>3. /\ restore'.n = restore.n /\ restore'.before = restore.before
      /\ restore'.step = 3 /\ ~restore'.back
      /\ Made(1)' /\ Made(2)' /\ ~Unmade(1)' /\ ~Unmade(2)'
      /\ \A j \in 3..5 : ~Made(j)' /\ Unmade(j)'
  <2>1. /\ restore'.moved = {1, 2} /\ restore'.n = restore.n /\ restore'.step = 3
        /\ restore'.before = restore.before /\ ~restore'.back
        /\ \A j \in 1..5 : (Made(j)' <=> j \in restore'.moved)
                           /\ (Unmade(j)' <=> j \notin restore'.moved)
    <3>1. 2 \in 1..5 /\ restore.moved \cup {2} = {1, 2}
      BY <1>2
    <3>2. restore'.moved = restore.moved \cup {2}
      BY <3>1, Advances
    <3> QED BY <3>1, <3>2, Advances
  <2> QED BY <2>1
<1>4. /\ staged' = staged
      /\ target'.db = target.db /\ target'.wal = Null /\ target'.files = target.files
      /\ saved'.db = saved.db
      /\ saved'.wal = (IF target.wal = Null THEN saved.wal ELSE target.wal)
      /\ saved'.files = saved.files
  BY <1>1, <1>3, RenamedWal, Apartness
<1> HIDE DEF target, staged, saved
<1>5. /\ saved.db = restore.before.db /\ saved.wal = Null /\ saved.files = {}
      /\ staged.files # {} /\ staged.db # Null /\ restore.before.db # Null
  BY <1>1, <1>2 DEF MadeOK, Applies
<1>6. target.wal = restore.before.wal /\ saved'.wal = restore.before.wal
  BY <1>1, <1>4, <1>5 DEF LiesOK
<1>7. LiesOK'
  BY <1>1, <1>2, <1>3, <1>4, <1>5, <1>6 DEF LiesOK
<1> QED BY <1>3, <1>4, <1>5, <1>6, <1>7 DEF MadeOK

\* The objects follow.
LEMMA FilesLeave ==
  ASSUME IInv, restore # Null, ~restore.back, restore.step = 3, Applies(3),
         disk' = Renamed("files", Target, restore.n),
         restore' = [restore EXCEPT !.step = @ + 1,
                       !.moved = IF Applies(3) THEN @ \cup {3} ELSE @]
  PROVE  LiesOK' /\ MadeOK'
<1>1. /\ MovedOK /\ LiesOK /\ MadeOK /\ disk \in [Places -> Content]
      /\ restore.n \in Places /\ restore.n # Target /\ restore.n # StageDir
  BY UnderWay
<1>2. /\ restore.before.db # Null => Made(1) /\ Made(2)
      /\ restore.before.db = Null => Unmade(1) /\ Unmade(2)
      /\ \A i \in 3..5 : i \notin restore.moved /\ Unmade(i)
  BY OnTheWay DEF Applies
<1>3. /\ restore'.n = restore.n /\ restore'.before = restore.before
      /\ restore'.step = 4 /\ ~restore'.back
      /\ \A j \in 1..2 : (Made(j)' <=> Made(j)) /\ (Unmade(j)' <=> Unmade(j))
      /\ Made(3)' /\ ~Unmade(3)' /\ \A j \in 4..5 : ~Made(j)' /\ Unmade(j)'
  BY <1>2, Advances, OnTheWay
<1>4. /\ staged' = staged
      /\ target'.db = target.db /\ target'.wal = target.wal /\ target'.files = {}
      /\ saved'.db = saved.db /\ saved'.wal = saved.wal
      /\ saved'.files = (IF target.files = {} THEN saved.files ELSE target.files)
  BY <1>1, <1>3, RenamedFiles, Apartness
<1> HIDE DEF target, staged, saved
<1>5. /\ saved.files = {} /\ staged.files # {} /\ staged.db # Null
      /\ restore.before.files # {}
  BY <1>1, <1>2 DEF MadeOK, Applies
<1>6. target.files = restore.before.files /\ saved'.files = restore.before.files
  BY <1>1, <1>4, <1>5 DEF LiesOK
<1>7. LiesOK'
  BY <1>1, <1>2, <1>3, <1>4, <1>5, <1>6 DEF LiesOK
<1> QED BY <1>1, <1>3, <1>4, <1>5, <1>6, <1>7 DEF MadeOK

\* The staged objects come into place.
LEMMA FilesArrive ==
  ASSUME IInv, restore # Null, ~restore.back, restore.step = 4, Applies(4),
         disk' = Renamed("files", StageDir, Target),
         restore' = [restore EXCEPT !.step = @ + 1,
                       !.moved = IF Applies(4) THEN @ \cup {4} ELSE @]
  PROVE  LiesOK' /\ MadeOK'
<1>1. /\ MovedOK /\ LiesOK /\ MadeOK /\ disk \in [Places -> Content]
      /\ restore.n \in Places /\ restore.n # Target /\ restore.n # StageDir
  BY UnderWay
<1>2. /\ \A i \in {4, 5} : i \notin restore.moved /\ Unmade(i)
      /\ restore.before.files # {} => Made(3)
      /\ restore.before.files = {} => Unmade(3)
  BY OnTheWay DEF Applies
<1>3. /\ restore'.n = restore.n /\ restore'.before = restore.before
      /\ restore'.step = 5 /\ ~restore'.back
      /\ \A j \in 1..3 : (Made(j)' <=> Made(j)) /\ (Unmade(j)' <=> Unmade(j))
      /\ Made(4)' /\ ~Unmade(4)' /\ ~Made(5)' /\ Unmade(5)'
  BY <1>2, Advances, OnTheWay
<1>4. /\ saved' = saved
      /\ target'.db = target.db /\ target'.wal = target.wal
      /\ target'.files = (IF staged.files = {} THEN target.files ELSE staged.files)
      /\ staged'.db = staged.db /\ staged'.wal = staged.wal /\ staged'.files = {}
  BY <1>1, <1>3, RenamedFiles, Apartness
<1> HIDE DEF target, staged, saved
<1>5. /\ saved.files = restore.before.files /\ staged.files # {} /\ staged.db # Null
  BY <1>1, <1>2 DEF MadeOK, Applies
<1>6. target'.files = {restore.n}
  BY <1>1, <1>4, <1>5 DEF LiesOK
<1>7. LiesOK'
  BY <1>1, <1>2, <1>3, <1>4, <1>5, <1>6 DEF LiesOK
<1> QED BY <1>1, <1>3, <1>4, <1>5, <1>6, <1>7 DEF MadeOK

\* The staged database comes into place, last.
LEMMA DbArrives ==
  ASSUME IInv, restore # Null, ~restore.back, restore.step = 5, Applies(5),
         disk' = Renamed("db", StageDir, Target),
         restore' = [restore EXCEPT !.step = @ + 1,
                       !.moved = IF Applies(5) THEN @ \cup {5} ELSE @]
  PROVE  LiesOK' /\ MadeOK'
<1>1. /\ MovedOK /\ LiesOK /\ MadeOK /\ disk \in [Places -> Content]
      /\ restore.n \in Places /\ restore.n # Target /\ restore.n # StageDir
  BY UnderWay
<1>2. /\ 5 \notin restore.moved /\ Unmade(5)
      /\ restore.before.db # Null => Made(1)
      /\ restore.before.db = Null => Unmade(1)
  BY OnTheWay DEF Applies
<1>3. /\ restore'.n = restore.n /\ restore'.before = restore.before
      /\ restore'.step = 6 /\ ~restore'.back
      /\ \A j \in 1..4 : (Made(j)' <=> Made(j)) /\ (Unmade(j)' <=> Unmade(j))
      /\ Made(5)' /\ ~Unmade(5)'
  BY <1>2, Advances, OnTheWay
<1>4. /\ saved' = saved
      /\ target'.db = (IF staged.db = Null THEN target.db ELSE staged.db)
      /\ target'.wal = target.wal /\ target'.files = target.files
      /\ staged'.db = Null /\ staged'.wal = staged.wal /\ staged'.files = staged.files
  BY <1>1, <1>3, RenamedDb, Apartness
<1> HIDE DEF target, staged, saved
<1>5. /\ saved.db = restore.before.db /\ staged.db # Null
  BY <1>1, <1>2 DEF MadeOK, Applies
<1>6. /\ target'.db # Null /\ target'.db.set = restore.n /\ target'.db.epoch = restore.n
  BY <1>1, <1>4, <1>5 DEF LiesOK
<1>7. LiesOK'
  BY <1>1, <1>2, <1>3, <1>4, <1>5, <1>6 DEF LiesOK
<1> QED BY <1>1, <1>3, <1>4, <1>5, <1>6, <1>7 DEF MadeOK

\* A rename that does not apply changes nothing on disk.
LEMMA PassedOver ==
  ASSUME IInv, restore # Null, ~restore.back, NEW i \in 1..5, restore.step = i,
         ~Applies(i), UNCHANGED disk,
         restore' = [restore EXCEPT !.step = @ + 1,
                       !.moved = IF Applies(i) THEN @ \cup {i} ELSE @]
  PROVE  LiesOK' /\ MadeOK'
<1>1. MovedOK /\ LiesOK /\ MadeOK
  BY UnderWay
<1>2. /\ restore'.n = restore.n /\ restore'.before = restore.before
      /\ restore'.moved = restore.moved /\ ~restore'.back
      /\ \A j \in 1..5 : (Made(j)' <=> Made(j)) /\ (Unmade(j)' <=> Unmade(j))
  BY Advances, OnTheWay
<1>3. staged' = staged /\ saved' = saved /\ target' = target
  BY <1>2
<1> HIDE DEF target, staged, saved
<1> QED BY <1>1, <1>2, <1>3 DEF LiesOK, MadeOK

\* One rename of the way forward, or the failure that ends it.
LEMMA ForwardOK == IInv /\ Forward => IInv'
<1> SUFFICES ASSUME IInv, Forward PROVE IInv'
  OBVIOUS
<1> DEFINE i == restore.step
           part == Renames[i][1]
<1>1. /\ restore # Null /\ ~restore.back /\ i \in 1..5
      /\ UNCHANGED <<program, backupVars, service, fresh, restores, broken, history>>
  BY SixSteps DEF Forward
<1>2. \/ /\ disk' = IF Applies(i)
                   THEN Renamed(part, At(Renames[i][2]), At(Renames[i][3])) ELSE disk
         /\ restore' = [restore EXCEPT !.step = @ + 1,
                          !.moved = IF Applies(i) THEN @ \cup {i} ELSE @]
         /\ NoFault
      \/ /\ restore' = [restore EXCEPT !.step = 1, !.back = TRUE]
         /\ Fault /\ UNCHANGED disk
  BY DEF Forward
<1>3. CASE /\ restore' = [restore EXCEPT !.step = 1, !.back = TRUE]
           /\ Fault /\ UNCHANGED disk
  BY <1>1, <1>3, TurnsBack
<1>4. CASE /\ disk' = IF Applies(i)
                   THEN Renamed(part, At(Renames[i][2]), At(Renames[i][3])) ELSE disk
           /\ restore' = [restore EXCEPT !.step = @ + 1,
                            !.moved = IF Applies(i) THEN @ \cup {i} ELSE @]
           /\ NoFault
  <2>1. /\ restore' \in Restores /\ restore' # Null /\ restore'.n = restore.n
        /\ restore'.before = restore.before /\ MovedOK'
    BY <1>1, <1>4, Advances
  <2>2. /\ At("target") = Target /\ At("stage") = StageDir /\ At("recovery") = restore.n
        /\ restore.n \in Places /\ restore.n # Target /\ restore.n # StageDir
        /\ restore.n \in Homes /\ disk \in [Places -> Content]
    BY <1>1, UnderWay
  <2>3. /\ disk' \in [Places -> Content]
        /\ \A p \in Homes \ {Target, restore.n} : disk'[p] = disk[p]
        /\ LiesOK' /\ MadeOK'
    <3>1. CASE ~Applies(i)
      <4>1. UNCHANGED disk
        BY <1>4, <3>1
      <4> QED BY <1>1, <1>4, <2>2, <3>1, <4>1, PassedOver
    <3>2. CASE Applies(i) /\ i = 1
      <4>1. disk' = Renamed("db", Target, restore.n)
        BY <1>4, <2>2, <3>2, Lists
      <4> HIDE DEF i, part
      <4>2. LiesOK' /\ MadeOK'
        BY <1>1, <1>4, <3>2, <4>1, DbLeaves DEF i
      <4> QED BY <2>2, <4>1, <4>2, RenamedDb, Apartness
    <3>3. CASE Applies(i) /\ i = 2
      <4>1. disk' = Renamed("wal", Target, restore.n)
        BY <1>4, <2>2, <3>3, Lists
      <4> HIDE DEF i, part
      <4>2. LiesOK' /\ MadeOK'
        BY <1>1, <1>4, <3>3, <4>1, WalLeaves DEF i
      <4> QED BY <2>2, <4>1, <4>2, RenamedWal, Apartness
    <3>4. CASE Applies(i) /\ i = 3
      <4>1. disk' = Renamed("files", Target, restore.n)
        BY <1>4, <2>2, <3>4, Lists
      <4> HIDE DEF i, part
      <4>2. LiesOK' /\ MadeOK'
        BY <1>1, <1>4, <3>4, <4>1, FilesLeave DEF i
      <4> QED BY <2>2, <4>1, <4>2, RenamedFiles, Apartness
    <3>5. CASE Applies(i) /\ i = 4
      <4>1. disk' = Renamed("files", StageDir, Target)
        BY <1>4, <2>2, <3>5, Lists
      <4> HIDE DEF i, part
      <4>2. LiesOK' /\ MadeOK'
        BY <1>1, <1>4, <3>5, <4>1, FilesArrive DEF i
      <4> QED BY <2>2, <4>1, <4>2, RenamedFiles, Apartness
    <3>6. CASE Applies(i) /\ i = 5
      <4>1. disk' = Renamed("db", StageDir, Target)
        BY <1>4, <2>2, <3>6, Lists
      <4> HIDE DEF i, part
      <4>2. LiesOK' /\ MadeOK'
        BY <1>1, <1>4, <3>6, <4>1, DbArrives DEF i
      <4> QED BY <2>2, <4>1, <4>2, RenamedDb, Apartness
    <3> QED BY <1>1, <3>1, <3>2, <3>3, <3>4, <3>5, <3>6
  <2> QED BY <1>1, <1>4, <2>1, <2>3, GoesOn
<1> QED BY <1>2, <1>3, <1>4

\* One step of the way back: what has been taken back and what has not.
LEMMA Returns ==
  ASSUME IInv, restore # Null, restore.back, NEW k \in 1..5, restore.step = k,
         NEW f \in BOOLEAN, restore.failed => f,
         restore' = [restore EXCEPT !.step = @ + 1, !.failed = f]
  PROVE  /\ restore' \in Restores /\ restore' # Null /\ restore'.n = restore.n
         /\ restore'.step = k + 1 /\ restore'.back /\ restore'.failed = f
         /\ restore'.before = restore.before /\ restore'.moved = restore.moved
         /\ \A j \in 1..5 : Made(j)' => Made(j) /\ j # Reverse[k]
         /\ \A j \in 1..5 : Unmade(j)' => Unmade(j) \/ (j = Reverse[k] /\ ~f)
         /\ MovedOK'
<1>1. restore \in Restores /\ MovedOK
  BY UnderWay
<1>2. k + 1 \in 0..Last
  BY SixSteps
<1>3. restore' = [restore EXCEPT !.step = k + 1, !.failed = f]
  BY <1>1 DEF Restores
<1>4. /\ restore' \in Restores /\ restore'.n = restore.n /\ restore'.step = k + 1
      /\ restore'.back = restore.back /\ restore'.failed = f
      /\ restore'.before = restore.before /\ restore'.moved = restore.moved
  BY <1>1, <1>2, <1>3 DEF Restores
<1>5. \A j \in 1..5 : Turn[j] = k <=> j = Reverse[k]
  BY Turns, Lists
<1>6. \A j \in 1..5 : Turn[j] \in 1..5
  BY Turns
<1>7. \A j \in 1..5 : Made(j)' => Made(j) /\ j # Reverse[k]
  BY <1>4, <1>5, <1>6 DEF Made
<1>8. \A j \in 1..5 : Unmade(j)' => Unmade(j) \/ (j = Reverse[k] /\ ~f)
  BY <1>4, <1>5, <1>6 DEF Unmade
<1>9. MovedOK'
  BY <1>1, <1>4 DEF MovedOK, Applies
<1> QED BY <1>1, <1>4, <1>7, <1>8, <1>9

\* What a failed rename back, or one there is no need for, leaves.
LEMMA LeftAlone ==
  ASSUME IInv, restore # Null, restore.back, UNCHANGED disk,
         restore'.n = restore.n, restore'.before = restore.before,
         restore'.moved = restore.moved, restore'.back,
         \A j \in 1..5 : (Made(j)' => Made(j)) /\ (Unmade(j)' => Unmade(j))
  PROVE  LiesOK' /\ MadeOK'
<1>1. LiesOK /\ MadeOK
  BY UnderWay
<1>2. staged' = staged /\ saved' = saved /\ target' = target
  OBVIOUS
<1> HIDE DEF target, staged, saved
<1> QED BY <1>1, <1>2 DEF LiesOK, MadeOK

\* The new database leaves the target first.
LEMMA DbTakenBack ==
  ASSUME IInv, restore # Null, restore.back, restore.step = 1, 5 \in restore.moved,
         disk' = Renamed("db", Target, StageDir),
         restore'.n = restore.n, restore'.before = restore.before,
         restore'.moved = restore.moved, restore'.back,
         \A j \in 1..5 : Made(j)' => Made(j) /\ j # 5,
         \A j \in 1..5 : Unmade(j)' => Unmade(j) \/ j = 5
  PROVE  LiesOK' /\ MadeOK'
<1>1. /\ MovedOK /\ LiesOK /\ MadeOK /\ disk \in [Places -> Content]
      /\ restore.n \in Places /\ restore.n # Target /\ restore.n # StageDir
  BY UnderWay
<1>2. Made(5) /\ (restore.before.db # Null => Made(1))
  BY <1>1, Turns DEF Made, MovedOK, Applies
<1>3. /\ saved' = saved
      /\ target'.db = Null /\ target'.wal = target.wal /\ target'.files = target.files
      /\ staged'.db = (IF target.db = Null THEN staged.db ELSE target.db)
      /\ staged'.wal = staged.wal /\ staged'.files = staged.files
  BY <1>1, RenamedDb, Apartness
<1> HIDE DEF target, staged, saved
<1>4. staged.db = Null /\ (restore.before.db # Null => saved.db = restore.before.db)
  BY <1>1, <1>2 DEF MadeOK
<1>5. /\ staged'.db # Null /\ staged'.db.set = restore.n /\ staged'.db.epoch = restore.n
  BY <1>1, <1>3, <1>4 DEF LiesOK
<1>6. LiesOK'
  BY <1>1, <1>3, <1>4, <1>5 DEF LiesOK
<1> QED BY <1>1, <1>3, <1>5, <1>6 DEF MadeOK

\* The new objects follow it.
LEMMA FilesTakenBack ==
  ASSUME IInv, restore # Null, restore.back, restore.step = 2, 4 \in restore.moved,
         disk' = Renamed("files", Target, StageDir),
         restore'.n = restore.n, restore'.before = restore.before,
         restore'.moved = restore.moved, restore'.back,
         \A j \in 1..5 : Made(j)' => Made(j) /\ j # 4,
         \A j \in 1..5 : Unmade(j)' => Unmade(j) \/ j = 4
  PROVE  LiesOK' /\ MadeOK'
<1>1. /\ MovedOK /\ LiesOK /\ MadeOK /\ disk \in [Places -> Content]
      /\ restore.n \in Places /\ restore.n # Target /\ restore.n # StageDir
  BY UnderWay
<1>2. Made(4)
  BY <1>1, Turns DEF Made
<1>3. /\ saved' = saved
      /\ target'.db = target.db /\ target'.wal = target.wal /\ target'.files = {}
      /\ staged'.db = staged.db /\ staged'.wal = staged.wal
      /\ staged'.files = (IF target.files = {} THEN staged.files ELSE target.files)
  BY <1>1, RenamedFiles, Apartness
<1> HIDE DEF target, staged, saved
<1>4. /\ staged.files = {} /\ target.files = {restore.n}
      /\ saved.files = restore.before.files
  BY <1>1, <1>2 DEF MadeOK, LiesOK
<1>5. LiesOK'
  BY <1>1, <1>3, <1>4 DEF LiesOK
<1> QED BY <1>1, <1>3, <1>4, <1>5 DEF MadeOK

\* The old objects return.
LEMMA FilesReturn ==
  ASSUME IInv, restore # Null, restore.back, restore.step = 3, 3 \in restore.moved,
         disk' = Renamed("files", restore.n, Target), target.files = {},
         restore'.n = restore.n, restore'.before = restore.before,
         restore'.moved = restore.moved, restore'.back,
         \A j \in 1..5 : Made(j)' => Made(j) /\ j # 3,
         \A j \in 1..5 : Unmade(j)' => Unmade(j) \/ j = 3
  PROVE  LiesOK' /\ MadeOK'
<1>1. /\ MovedOK /\ LiesOK /\ MadeOK /\ disk \in [Places -> Content]
      /\ restore.n \in Places /\ restore.n # Target /\ restore.n # StageDir
  BY UnderWay
<1>2. Made(3) /\ restore.before.files # {}
  BY <1>1, Turns DEF Made, MovedOK, Applies
<1>3. /\ staged' = staged
      /\ target'.db = target.db /\ target'.wal = target.wal
      /\ target'.files = (IF saved.files = {} THEN target.files ELSE saved.files)
      /\ saved'.db = saved.db /\ saved'.wal = saved.wal /\ saved'.files = {}
  <2> DEFINE d == Renamed("files", restore.n, Target)
  <2>1. /\ \A x \in Places \ {restore.n, Target} : d[x] = disk[x]
        /\ \A x \in Places : d[x].db = disk[x].db /\ d[x].wal = disk[x].wal
        /\ d[restore.n].files = {}
        /\ d[Target].files =
             IF disk[restore.n].files = {} THEN disk[Target].files ELSE disk[restore.n].files
    BY ONLY <1>1, RenamedFiles, Apartness
  <2> HIDE DEF d
  <2>2. disk' = d
    BY DEF d
  <2> QED BY <1>1, <2>1, <2>2, Apartness
<1> HIDE DEF target, staged, saved
<1>4. saved.files = restore.before.files /\ staged.files # {}
  BY <1>1, <1>2 DEF MadeOK, LiesOK
<1>5. LiesOK'
  BY <1>1, <1>2, <1>3, <1>4 DEF LiesOK
<1> QED BY <1>1, <1>3, <1>4, <1>5 DEF MadeOK

\* The old database returns.
LEMMA DbReturns ==
  ASSUME IInv, restore # Null, restore.back, restore.step = 4, 1 \in restore.moved,
         disk' = Renamed("db", restore.n, Target),
         restore'.n = restore.n, restore'.before = restore.before,
         restore'.moved = restore.moved, restore'.back,
         \A j \in 1..5 : Made(j)' => Made(j) /\ j # 1,
         \A j \in 1..5 : Unmade(j)' => Unmade(j) \/ j = 1
  PROVE  LiesOK' /\ MadeOK'
<1>1. /\ MovedOK /\ LiesOK /\ MadeOK /\ disk \in [Places -> Content]
      /\ restore.n \in Places /\ restore.n # Target /\ restore.n # StageDir
  BY UnderWay
<1>2. Made(1) /\ restore.before.db # Null
  BY <1>1, Turns DEF Made, MovedOK, Applies
<1>3. /\ staged' = staged
      /\ target'.db = (IF saved.db = Null THEN target.db ELSE saved.db)
      /\ target'.wal = target.wal /\ target'.files = target.files
      /\ saved'.db = Null /\ saved'.wal = saved.wal /\ saved'.files = saved.files
  BY <1>1, RenamedDb, Apartness
<1> HIDE DEF target, staged, saved
<1>4. saved.db = restore.before.db
  BY <1>1, <1>2 DEF MadeOK
<1>5. LiesOK'
  BY <1>1, <1>2, <1>3, <1>4 DEF LiesOK
<1> QED BY <1>1, <1>3, <1>4, <1>5 DEF MadeOK

\* Its WAL returns, if it had left.
LEMMA WalReturns ==
  ASSUME IInv, restore # Null, restore.back, restore.step = 5,
         disk' = Renamed("wal", restore.n, Target),
         restore'.n = restore.n, restore'.before = restore.before,
         restore'.moved = restore.moved, restore'.back,
         \A j \in 1..5 : Made(j)' => Made(j) /\ j # 2,
         \A j \in 1..5 : Unmade(j)' => Unmade(j) \/ j = 2
  PROVE  LiesOK' /\ MadeOK'
<1>1. /\ MovedOK /\ LiesOK /\ MadeOK /\ disk \in [Places -> Content]
      /\ restore.n \in Places /\ restore.n # Target /\ restore.n # StageDir
  BY UnderWay
<1>2. /\ staged' = staged
      /\ target'.db = target.db /\ target'.files = target.files
      /\ target'.wal = (IF saved.wal = Null THEN target.wal ELSE saved.wal)
      /\ saved'.db = saved.db /\ saved'.files = saved.files /\ saved'.wal = Null
  BY <1>1, RenamedWal, Apartness
<1> HIDE DEF target, staged, saved
<1>3. target'.wal = restore.before.wal
  BY <1>1, <1>2 DEF LiesOK
<1>4. LiesOK'
  BY <1>1, <1>2, <1>3 DEF LiesOK
<1> QED BY <1>1, <1>2, <1>4 DEF MadeOK

\* One step of the way back, whether it renames, has nothing to do or fails.
LEMMA BackOK == IInv /\ Back => IInv'
<1> SUFFICES ASSUME IInv, Back PROVE IInv'
  OBVIOUS
<1> DEFINE k == restore.step
           i == Reverse[k]
           part == Renames[i][1]
           p == At(Renames[i][2])
           q == At(Renames[i][3])
<1>1. /\ restore # Null /\ restore.back /\ k < 6
      /\ UNCHANGED <<program, backupVars, service, fresh, restores, broken, history>>
  BY SixSteps DEF Back
<1>2. /\ k \in 1..5 /\ MovedOK /\ restore \in Restores /\ disk \in [Places -> Content]
      /\ restore.n \in Places /\ restore.n # Target /\ restore.n # StageDir
      /\ restore.n \in Homes
      /\ At("target") = Target /\ At("stage") = StageDir /\ At("recovery") = restore.n
  <2>1. restore.step \in 0..6 /\ MovedOK
    BY <1>1, UnderWay
  <2>2. restore.step # 0
    BY <1>1, <2>1 DEF MovedOK
  <2> QED BY <1>1, <2>1, <2>2, UnderWay
<1>3. \/ /\ MustReturn(i) => ~Blocked(part, p)
         /\ disk' = IF MustReturn(i) THEN Renamed(part, q, p) ELSE disk
         /\ restore' = [restore EXCEPT !.step = @ + 1]
         /\ NoFault
      \/ /\ restore' = [restore EXCEPT !.step = @ + 1, !.failed = TRUE]
         /\ Fault \/ NoFault
         /\ UNCHANGED disk
  BY DEF Back
<1>4. CASE /\ restore' = [restore EXCEPT !.step = @ + 1, !.failed = TRUE]
           /\ Fault \/ NoFault
           /\ UNCHANGED disk
  <2>1. /\ restore' \in Restores /\ restore' # Null /\ restore'.n = restore.n
        /\ restore'.before = restore.before /\ restore'.moved = restore.moved
        /\ restore'.back /\ MovedOK'
        /\ \A j \in 1..5 : (Made(j)' => Made(j)) /\ (Unmade(j)' => Unmade(j))
    BY <1>1, <1>2, <1>4, Returns
  <2>2. LiesOK' /\ MadeOK'
    BY <1>1, <1>4, <2>1, LeftAlone
  <2> QED BY <1>1, <1>2, <1>4, <2>1, <2>2, GoesOn
<1>5. CASE /\ MustReturn(i) => ~Blocked(part, p)
           /\ disk' = IF MustReturn(i) THEN Renamed(part, q, p) ELSE disk
           /\ restore' = [restore EXCEPT !.step = @ + 1]
           /\ NoFault
  <2>1. restore.failed \in BOOLEAN /\ restore.moved \subseteq 1..5
    BY <1>2 DEF Restores, MovedOK
  <2>2. restore' = [restore EXCEPT !.step = @ + 1, !.failed = restore.failed]
    BY <1>2, <1>5 DEF Restores
  <2>3. /\ restore' \in Restores /\ restore' # Null /\ restore'.n = restore.n
        /\ restore'.before = restore.before /\ restore'.moved = restore.moved
        /\ restore'.back /\ MovedOK'
        /\ \A j \in 1..5 : Made(j)' => Made(j) /\ j # i
        /\ \A j \in 1..5 : Unmade(j)' => Unmade(j) \/ j = i
    BY <1>1, <1>2, <2>1, <2>2, Returns
  <2>4. /\ disk' \in [Places -> Content]
        /\ \A h \in Homes \ {Target, restore.n} : disk'[h] = disk[h]
        /\ LiesOK' /\ MadeOK'
    <3>1. CASE ~MustReturn(i)
      <4>1. i \notin restore.moved
        BY <1>2, <3>1 DEF MustReturn, MovedOK, Applies
      <4>2. \A j \in 1..5 : (Made(j)' => Made(j)) /\ (Unmade(j)' => Unmade(j))
        BY <2>3, <4>1 DEF Unmade
      <4> QED BY <1>1, <1>2, <1>5, <2>3, <3>1, <4>2, LeftAlone
    <3>2. CASE MustReturn(i) /\ k = 1
      <4>1. /\ i = 5 /\ 5 \in restore.moved /\ disk' = Renamed("db", Target, StageDir)
        BY <1>2, <1>5, <3>2, Lists DEF MustReturn
      <4>2. LiesOK' /\ MadeOK'
        BY <1>1, <2>3, <3>2, <4>1, DbTakenBack
      <4> QED BY <1>2, <4>1, <4>2, RenamedDb, Apartness
    <3>3. CASE MustReturn(i) /\ k = 2
      <4>1. /\ i = 4 /\ 4 \in restore.moved /\ disk' = Renamed("files", Target, StageDir)
        BY <1>2, <1>5, <3>3, Lists DEF MustReturn
      <4>2. LiesOK' /\ MadeOK'
        BY <1>1, <2>3, <3>3, <4>1, FilesTakenBack
      <4> QED BY <1>2, <4>1, <4>2, RenamedFiles, Apartness
    <3>4. CASE MustReturn(i) /\ k = 3
      <4>1. /\ i = 3 /\ 3 \in restore.moved /\ disk' = Renamed("files", restore.n, Target)
        BY <1>2, <1>5, <3>4, Lists DEF MustReturn
      <4>2. target.files = {}
        BY <1>2, <1>5, <3>4, <4>1, Lists DEF Blocked
      <4>3. LiesOK' /\ MadeOK'
        BY <1>1, <2>3, <3>4, <4>1, <4>2, FilesReturn
      <4> QED BY <1>2, <4>1, <4>3, RenamedFiles, Apartness
    <3>5. CASE MustReturn(i) /\ k = 4
      <4>1. /\ i = 1 /\ 1 \in restore.moved /\ disk' = Renamed("db", restore.n, Target)
        BY <1>2, <1>5, <3>5, Lists DEF MustReturn
      <4>2. LiesOK' /\ MadeOK'
        BY <1>1, <2>3, <3>5, <4>1, DbReturns
      <4> QED BY <1>2, <4>1, <4>2, RenamedDb, Apartness
    <3>6. CASE MustReturn(i) /\ k = 5
      <4>1. i = 2 /\ disk' = Renamed("wal", restore.n, Target)
        BY <1>2, <1>5, <3>6, Lists
      <4>2. LiesOK' /\ MadeOK'
        BY <1>1, <2>3, <3>6, <4>1, WalReturns
      <4> QED BY <1>2, <4>1, <4>2, RenamedWal, Apartness
    <3> QED BY <1>2, <3>1, <3>2, <3>3, <3>4, <3>5, <3>6
  <2> QED BY <1>1, <1>2, <1>5, <2>3, <2>4, GoesOn
<1> QED BY <1>3, <1>4, <1>5

-----------------------------------------------------------------------------
(* The end of a restore *)

\* What a restore found at the target lies there or in its recovery directory.
LEMMA BeforeHeld ==
  ASSUME IInv, restore # Null
  PROVE  /\ restore.before.db # Null =>
              target.db = restore.before.db \/ saved.db = restore.before.db
         /\ restore.before.files # {} =>
              target.files = restore.before.files \/ saved.files = restore.before.files
         /\ target.wal = restore.before.wal \/ saved.wal = restore.before.wal
<1>1. LiesOK
  BY UnderWay
<1> HIDE DEF target, staged, saved
<1> QED BY <1>1 DEF LiesOK

\* A restore that has not met a failure on its way back has a whole database at the
\* target, or none.
LEMMA WholeWithin ==
  ASSUME IInv, restore # Null, ~restore.failed, ~split, target.db # Null
  PROVE  Whole(target)
<1>1. /\ MovedOK /\ LiesOK /\ MadeOK /\ restore.before \in Content
      /\ Whole(restore.before) /\ restore.step \in 0..6 /\ restore.n \in Recoveries
  BY UnderWay DEF IInv, WholeOK
<1> HIDE DEF target, staged, saved
<1>2. CASE restore.before.db # Null /\ saved.db = Null
  <2>1. target.db = restore.before.db
    BY <1>1, <1>2 DEF LiesOK
  <2>2. ~Made(1) /\ Applies(1) /\ Applies(4)
    BY <1>1, <1>2 DEF MadeOK, Applies
  <2>3. Unmade(3) /\ Unmade(4)
    <3>1. CASE 1 \notin restore.moved
      <4>1. 3 \notin restore.moved /\ 4 \notin restore.moved
        BY <1>1, <2>2, <3>1 DEF MovedOK
      <4> QED BY <4>1 DEF Unmade
    <3>2. CASE 1 \in restore.moved
      <4>1. restore.back /\ restore.step > 4
        BY <1>1, <2>2, <3>2, Turns DEF Made
      <4> QED BY <1>1, <4>1, Turns DEF Unmade
    <3> QED BY <3>1, <3>2
  <2>4. saved.files = {} /\ staged.files # {}
    BY <1>1, <2>3 DEF MadeOK
  <2>5. target.files = restore.before.files
    BY <1>1, <2>4 DEF LiesOK
  <2>6. target.wal \in {Null, restore.before.wal}
    BY <1>1 DEF LiesOK
  <2> QED BY <1>1, <1>2, <2>1, <2>5, <2>6 DEF Whole
<1>3. CASE ~(restore.before.db # Null /\ saved.db = Null)
  <2>1. staged.db = Null /\ target.db.set = restore.n
    BY <1>1, <1>3 DEF LiesOK
  <2>2. ~Unmade(5) /\ Applies(4)
    BY <1>1, <2>1 DEF MadeOK, Applies
  <2>3. 5 \in restore.moved /\ (restore.back => restore.step <= 1)
    BY <1>1, <2>2, Turns DEF Unmade
  <2>4. /\ 4 \in restore.moved
        /\ \A i \in 1..3 : Applies(i) => i \in restore.moved
    BY <1>1, <2>2, <2>3 DEF MovedOK
  <2>5. Made(4) /\ (restore.before.db # Null => Made(2))
    BY <1>1, <2>3, <2>4, Turns DEF Made, Applies
  <2>6. target.files = {restore.n}
    BY <1>1, <2>5 DEF MadeOK, LiesOK
  <2>7. target.wal = Null
    <3>1. CASE restore.before.db # Null
      <4>1. saved.wal = restore.before.wal
        BY <1>1, <2>5, <3>1 DEF MadeOK
      <4> QED BY <1>1, <4>1 DEF LiesOK
    <3>2. CASE restore.before.db = Null
      <4>1. restore.before.wal = Null
        BY <1>1, <3>2 DEF Whole
      <4> QED BY <1>1, <4>1 DEF LiesOK
    <3> QED BY <3>1, <3>2
  <2> QED BY <2>1, <2>6, <2>7 DEF Whole
<1> QED BY <1>2, <1>3

\* At the end of the way back without a failure the target is what it was.
LEMMA AsBefore ==
  ASSUME IInv, restore # Null, restore.back, restore.step = 6, ~restore.failed
  PROVE  target = restore.before
<1>1. /\ LiesOK /\ MadeOK /\ restore.before \in Content /\ target \in Content
  BY UnderWay, Apartness
<1>2. \A i \in 1..5 : Unmade(i)
  BY Turns DEF Unmade
<1> HIDE DEF target, staged, saved
<1>3. /\ saved.db = Null /\ saved.wal = Null /\ saved.files = {}
      /\ staged.db # Null /\ staged.files # {}
  BY <1>1, <1>2 DEF MadeOK
<1>4. /\ target.wal = restore.before.wal /\ target.files = restore.before.files
      /\ target.db = restore.before.db
  BY <1>1, <1>3 DEF LiesOK
<1> QED BY <1>1, <1>4 DEF Content

\* What every end of a restore keeps; how the target is left is for each to say.
LEMMA Ends ==
  ASSUME IInv, restore # Null, restore' = Null, disk' \in [Places -> Content],
         \A p \in Homes : disk'[p] = disk[p],
         faults' \in 0..MaxFaults, broken' \in BOOLEAN, split' \in BOOLEAN,
         split => split',
         UNCHANGED <<program, backupVars, service, fresh, restores, served, unflushed>>,
         ~split' /\ ~broken' => Whole(target),
         \A s : ~split' /\ Held(restore.before, s) /\ restore.before.wal = s =>
           \/ \E p \in Homes : Held(disk[p], s) /\ disk[p].wal = s
           \/ broken' /\ \E p \in Homes : disk[p].wal = s
  PROVE  IInv'
<1>1. /\ service = "stopped" /\ task = Null /\ ~broken /\ restore.n = restores
      /\ restore.n \in Homes
  BY UnderWay
<1>2. TypeOK'
  BY <1>1, BackupFrame DEF IInv, TypeOK, backupVars
<1>3. ServiceOK' /\ DirsOK' /\ RestoreOK'
  BY <1>1, Apartness DEF IInv, ServiceOK, DirsOK, RestoreOK
<1>4. EpochsOK'
  BY <1>1 DEF IInv, EpochsOK
<1>5. WholeOK'
  BY Apartness DEF WholeOK
<1>6. Away' = Homes /\ Away = Homes \ {Target, restore.n}
  BY DEF Away
<1>7. \A s : DbKept(s) => DbKept(s)'
  <2> SUFFICES ASSUME NEW s, DbKept(s) PROVE DbKept(s)'
    OBVIOUS
  <2>1. PICK p \in Homes : Held(disk[p], s)
    <3>1. CASE \E p \in Away : Held(disk[p], s)
      BY <1>6, <3>1
    <3>2. CASE Held(restore.before, s)
      <4>1. Held(target, s) \/ Held(saved, s)
        BY <3>2, BeforeHeld DEF Held
      <4> QED BY <1>1, <4>1, Apartness
    <3> QED BY <3>1, <3>2 DEF DbKept
  <2>2. p \in Away' /\ Held(disk'[p], s)
    BY <1>6, <2>1
  <2> QED BY <2>2 DEF DbKept, Held
<1>8. \A s : FilesKept(s) => FilesKept(s)'
  <2> SUFFICES ASSUME NEW s, FilesKept(s) PROVE \E p \in Homes : s \in disk[p].files
    BY <1>6 DEF FilesKept
  <2>1. CASE \E p \in Away : s \in disk[p].files
    BY <1>6, <2>1
  <2>2. CASE s \in restore.before.files
    <3>1. s \in target.files \/ s \in saved.files
      BY <2>2, BeforeHeld
    <3> QED BY <1>1, <3>1, Apartness
  <2> QED BY <2>1, <2>2 DEF FilesKept
<1>9. \A s : ~split' /\ WalKept(s) => WalKept(s)'
  <2> SUFFICES ASSUME NEW s, ~split', WalKept(s) PROVE WalKept(s)'
    OBVIOUS
  <2>1. CASE \E p \in Away : Held(disk[p], s) /\ disk[p].wal = s
    BY <1>6, <2>1 DEF WalKept, Held
  <2>2. CASE Held(restore.before, s) /\ restore.before.wal = s
    BY <1>6, <2>2 DEF WalKept, Held
  <2> QED BY <1>1, <2>1, <2>2 DEF WalKept
<1>10. KeptOK'
  BY <1>7, <1>8, <1>9 DEF IInv, KeptOK
<1> QED BY <1>2, <1>3, <1>4, <1>5, <1>10 DEF IInv

\* The stage is removed.
LEMMA StageRemoved ==
  ASSUME IInv, disk' = [disk EXCEPT ![StageDir] = Nowhere]
  PROVE  disk' \in [Places -> Content] /\ \A p \in Homes : disk'[p] = disk[p]
<1>1. Nowhere \in Content
  BY DEF Nowhere, Content
<1> QED BY <1>1, Apartness DEF IInv, TypeOK

\* The restore is done: what was at the target is whole in the recovery directory.
LEMMA RestoredOK == IInv /\ Restored => IInv'
<1> SUFFICES ASSUME IInv, Restored PROVE IInv'
  OBVIOUS
<1>1. /\ restore # Null /\ ~restore.back /\ restore.step = 6
      /\ UNCHANGED <<program, backupVars, service, fresh, restores, broken, history>>
  BY SixSteps DEF Restored
<1>2. CASE restore' = [restore EXCEPT !.step = 1, !.back = TRUE] /\ Fault /\ UNCHANGED disk
  BY <1>1, <1>2, TurnsBack
<1>3. CASE restore' = Null /\ disk' = [disk EXCEPT ![StageDir] = Nowhere] /\ NoFault
  <2>1. /\ LiesOK /\ MadeOK /\ ~broken /\ restore.n \in Homes /\ ~restore.failed
        /\ restore.before.db # Null => Made(1) /\ Made(2)
        /\ Made(5) /\ (restore.before.db = Null => Unmade(1))
    BY <1>1, UnderWay, OnTheWay DEF Applies
  <2>2. restore.before.db # Null =>
          saved.db = restore.before.db /\ saved.wal = restore.before.wal
    BY <2>1 DEF MadeOK
  <2>3. target.db # Null
    <3> HIDE DEF target, staged, saved
    <3>1. staged.db = Null
      BY <2>1 DEF MadeOK
    <3> QED BY <2>1, <2>2, <3>1 DEF LiesOK
  <2>4. ~split => Whole(target)
    BY <1>1, <2>1, <2>3, WholeWithin
  <2>5. \A s : Held(restore.before, s) /\ restore.before.wal = s =>
          \E p \in Homes : Held(disk[p], s) /\ disk[p].wal = s
    BY <2>1, <2>2 DEF Held
  <2>6. /\ disk' \in [Places -> Content] /\ \A p \in Homes : disk'[p] = disk[p]
        /\ faults' \in 0..MaxFaults /\ broken' \in BOOLEAN /\ split' \in BOOLEAN
        /\ split' = split /\ UNCHANGED <<served, unflushed>>
    BY <1>1, <1>3, StageRemoved, FaultsOK DEF IInv, TypeOK, history
  <2> QED BY <1>1, <1>3, <2>4, <2>5, <2>6, Ends
<1> QED BY <1>2, <1>3 DEF Restored

\* The way back is at its end.
LEMMA GiveUpOK == IInv /\ GiveUp => IInv'
<1> SUFFICES ASSUME IInv, GiveUp PROVE IInv'
  OBVIOUS
<1>1. /\ restore # Null /\ restore.back /\ restore.step = 6 /\ restore' = Null
      /\ broken' = restore.failed
      /\ disk' = IF restore.failed THEN disk ELSE [disk EXCEPT ![StageDir] = Nowhere]
      /\ UNCHANGED <<program, backupVars, faults, service, fresh, restores>>
      /\ split' = split /\ UNCHANGED <<served, unflushed>>
  BY SixSteps DEF GiveUp, history
<1>2. /\ restore \in Restores /\ restore.n \in Homes /\ disk \in [Places -> Content]
  BY <1>1, UnderWay
<1>3. /\ disk' \in [Places -> Content] /\ \A p \in Homes : disk'[p] = disk[p]
      /\ faults' \in 0..MaxFaults /\ broken' \in BOOLEAN /\ split' \in BOOLEAN
  <2>1. restore.failed \in BOOLEAN
    BY <1>2 DEF Restores
  <2>2. disk' \in [Places -> Content] /\ \A p \in Homes : disk'[p] = disk[p]
    BY <1>1, <1>2, StageRemoved
  <2> QED BY <1>1, <2>1, <2>2 DEF IInv, TypeOK, BackupTypeOK
<1>4. ~restore.failed => target = restore.before
  BY <1>1, AsBefore
<1>5. ~split' /\ ~broken' => Whole(target)
  BY <1>1, <1>4 DEF IInv, WholeOK
<1>6. \A s : Held(restore.before, s) /\ restore.before.wal = s =>
        \/ \E p \in Homes : Held(disk[p], s) /\ disk[p].wal = s
        \/ broken' /\ \E p \in Homes : disk[p].wal = s
  <2>1. CASE restore.failed
    BY <1>1, <1>2, <2>1, BeforeHeld, Apartness
  <2>2. CASE ~restore.failed
    BY <1>4, <2>2, Apartness
  <2> QED BY <2>1, <2>2
<1> QED BY <1>1, <1>3, <1>5, <1>6, Ends

\* The process dies in the middle of a restore.
LEMMA RestoreDiesOK == IInv /\ RestoreDies => IInv'
<1> SUFFICES ASSUME IInv, RestoreDies PROVE IInv'
  OBVIOUS
<1>1. /\ restore # Null /\ restore' = Null
      /\ disk' = [disk EXCEPT ![StageDir] = Nowhere]
      /\ split' = (split \/ Apart \/ restore.failed) /\ Fault
      /\ UNCHANGED <<program, backupVars, service, fresh, restores, broken, served, unflushed>>
  BY DEF RestoreDies
<1>2. /\ restore \in Restores /\ restore.n \in Homes /\ disk \in [Places -> Content]
      /\ LiesOK /\ ~broken /\ restore.n # Target
  BY <1>1, UnderWay
<1>3. /\ disk' \in [Places -> Content] /\ \A p \in Homes : disk'[p] = disk[p]
      /\ faults' \in 0..MaxFaults /\ broken' \in BOOLEAN /\ split' \in BOOLEAN
      /\ split => split'
  <2>1. faults' \in 0..MaxFaults
    BY <1>1, FaultsOK
  <2>2. disk' \in [Places -> Content] /\ \A p \in Homes : disk'[p] = disk[p]
    BY <1>1, <1>2, StageRemoved
  <2>3. broken' \in BOOLEAN
    BY <1>1 DEF IInv, TypeOK
  <2>4. split' \in BOOLEAN /\ (split => split')
    BY <1>1
  <2> QED BY <2>1, <2>2, <2>3, <2>4
<1>4. ~split' => ~split /\ ~Apart /\ ~restore.failed
  BY <1>1
<1>5. ~split' => Whole(target)
  <2> SUFFICES ASSUME ~split' PROVE Whole(target)
    OBVIOUS
  <2>1. CASE target.db # Null
    BY <1>1, <1>4, <2>1, WholeWithin
  <2>2. CASE target.db = Null
    <3> SUFFICES ASSUME target.wal # Null PROVE FALSE
      BY <2>2 DEF Whole
    <3>1. Whole(restore.before)
      BY <1>1, <1>4 DEF IInv, WholeOK
    <3>2. restore.before.wal = target.wal
      BY <1>2 DEF LiesOK
    <3>3. restore.before.db # Null /\ target.wal = restore.before.db.set
      BY <3>1, <3>2 DEF Whole
    <3>4. saved.db = restore.before.db
      BY <1>1, <2>2, <3>3, BeforeHeld
    <3>5. Apart
      BY <1>2, <3>3, <3>4, Apartness DEF Apart
    <3> QED BY <1>4, <3>5
  <2> QED BY <2>1, <2>2
<1>6. \A s : ~split' /\ Held(restore.before, s) /\ restore.before.wal = s =>
        \E p \in Homes : Held(disk[p], s) /\ disk[p].wal = s
  <2> SUFFICES ASSUME NEW s, ~split', Held(restore.before, s), restore.before.wal = s
               PROVE  \E p \in Homes : Held(disk[p], s) /\ disk[p].wal = s
    OBVIOUS
  <2>1. PICK p \in {Target, restore.n} : Held(disk[p], s)
    BY <1>1, BeforeHeld DEF Held
  <2>2. PICK q \in {Target, restore.n} : disk[q].wal = s
    BY <1>1, BeforeHeld
  <2>3. p = q
    BY <1>2, <1>4, <2>1, <2>2, Apartness DEF Apart, Held
  <2> QED BY <1>2, <2>1, <2>2, <2>3, Apartness
<1> QED BY <1>1, <1>2, <1>3, <1>5, <1>6, Ends

-----------------------------------------------------------------------------
(* The theorems *)

\* Every step of the specification keeps the invariant.
LEMMA NextOK == IInv /\ [Next]_vars => IInv'
<1> SUFFICES ASSUME IInv, [Next]_vars PROVE IInv'
  OBVIOUS
<1>1. CASE Start \/ Migrate \/ Ready \/ Write \/ Stop \/ Kill \/ Install \/ Backup
  BY <1>1, StartOK, MigrateOK, ReadyOK, WriteOK, StopOK, KillOK, InstallOK, BackupOK
<1>2. CASE Restore
  BY <1>2, StageOK, FinalizeOK, ForwardOK, RestoredOK, BackOK, GiveUpOK, RestoreDiesOK
     DEF Restore
<1>3. CASE UNCHANGED vars
  <2>1. UNCHANGED <<program, backupVars, faults, service, disk, restore, fresh, restores, broken, history>>
    BY <1>3 DEF vars, work, backupVars
  <2>2. TypeOK'
    BY <2>1 DEF IInv, TypeOK, BackupTypeOK, backupVars, history
  <2> QED BY <2>1, <2>2, WorkspaceFrame
<1> QED BY <1>1, <1>2, <1>3 DEF Next

\* The invariant behind what follows holds in every reachable state, for any limits
\* and any number of restores, failures and deaths of the process.
THEOREM Inductive == Spec => []IInv
  BY InitOK, NextOK, PTL DEF Spec

\* The workspace, the backups and the restore under way keep their shape, and no two
\* operations run at once or while the service does (runExclusive).
THEOREM Types == Spec => []TypeOK
<1>1. IInv => TypeOK
  BY DEF IInv
<1> QED BY <1>1, Inductive, PTL

\* A database at the service's path has its objects and no other database's WAL beside
\* it, wherever a restore fails or dies (restoreOfflineBackup).
THEOREM AlwaysWhole == Spec => []TargetWhole
<1>1. IInv => TargetWhole
  <2> SUFFICES ASSUME IInv, ~broken, ~split, target.db # Null,
                      restore # Null => ~restore.failed
               PROVE  target.db.set \in target.files /\ target.wal \in {Null, target.db.set}
    BY DEF TargetWhole
  <2>1. Whole(target)
    BY WholeWithin DEF IInv, WholeOK
  <2> QED BY <2>1 DEF Whole
<1> QED BY <1>1, Inductive, PTL

\* No restore loses what was ever served, whatever fails or dies: it lies at the
\* target or in a recovery directory (restoreOfflineBackup).
THEOREM NothingServedIsLost == Spec => []Kept
<1>1. IInv => Kept
  <2> SUFFICES ASSUME IInv, NEW pair \in served, NEW s, s = pair[1]
               PROVE  /\ \E p \in Homes : Held(disk[p], s)
                      /\ split \/ \E p \in Homes : s \in disk[p].files
                      /\ s \in unflushed /\ ~split =>
                           \/ \E p \in Homes : Held(disk[p], s) /\ disk[p].wal = s
                           \/ (restore # Null \/ broken) /\ \E p \in Homes : disk[p].wal = s
    BY DEF Kept, Held
  <2>1. DbKept(s) /\ (split \/ FilesKept(s)) /\ (s \in unflushed /\ ~split => WalKept(s))
    BY DEF IInv, KeptOK
  <2>2. Away \subseteq Homes
    BY DEF Away
  <2>3. restore # Null => restore.n \in Homes
    BY UnderWay
  <2>4. \E p \in Homes : Held(disk[p], s)
    BY <2>1, <2>2, <2>3, BeforeHeld, Apartness DEF DbKept, Held
  <2>5. split \/ \E p \in Homes : s \in disk[p].files
    BY <2>1, <2>2, <2>3, BeforeHeld, Apartness DEF FilesKept
  <2>6. s \in unflushed /\ ~split =>
          \/ \E p \in Homes : Held(disk[p], s) /\ disk[p].wal = s
          \/ (restore # Null \/ broken) /\ \E p \in Homes : disk[p].wal = s
    BY <2>1, <2>2, <2>3, BeforeHeld, Apartness DEF WalKept
  <2> QED BY <2>4, <2>5, <2>6
<1> QED BY <1>1, Inductive, PTL

\* A restore that fails without a RestoreRecoveryError leaves the workspace exactly as
\* it found it (the catch block of restoreOfflineBackup).
THEOREM FailsWithoutTrace == Spec => []RolledBack
<1>1. IInv => RolledBack
  BY AsBefore, SixSteps DEF RolledBack
<1> QED BY <1>1, Inductive, PTL

\* No two histories are served under one epoch a restore gave
\* (rotateRestoredEventStreamEpoch).
THEOREM CursorsOfOneHistory == Spec => []EpochNames
<1>1. IInv => EpochNames
  <2>1. IInv => \A pair \in served : pair[1] \in Lineages /\ pair[2] = Epoch(pair[1])
    BY DEF IInv, TypeOK, EpochsOK
  <2> QED BY <2>1 DEF EpochNames, Epoch, Lineages
<1> QED BY <1>1, Inductive, PTL
=============================================================================
