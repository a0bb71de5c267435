----------------------------- MODULE FileStore -----------------------------
(***************************************************************************)
(* modules/files on top of the job store: rows in the database, objects on *)
(* a disk that no transaction covers. Uploads, the deletion handler and    *)
(* the sweep of abandoned uploads each alternate transactions with file    *)
(* operations, interleave with each other at every await, fail at any of   *)
(* them and die with the process; maintain() runs retention, the job batch *)
(* and the sweep one after the other.                                      *)
(*                                                                         *)
(* A file's deletion job is identified with the file (its dedupKey). Every *)
(* object key is fresh, so each file has a path of its own.                *)
(***************************************************************************)
EXTENDS JobStore, FiniteSets

CONSTANTS
  Reserved,      \* size units an upload reserves (FILE_MAX_BYTES)
  Quota,         \* size units of one server's quota
  Slow,          \* the uploads that may take longer than an hour
  MaxFaults,     \* bound on file operations that fail
  MaxCrashes     \* bound on crashes of the process

Files == Jobs

ASSUME FileAssumption ==
  /\ IsFiniteSet(Files) /\ Slow \subseteq Files
  /\ Reserved \in Nat \ {0} /\ Quota \in Nat
  /\ MaxFaults \in Nat /\ MaxCrashes \in Nat

VARIABLES
  rows,          \* files: [state, size]
  temps,         \* the .part files on the disk
  objects,       \* the objects on the disk
  uploads,       \* where each prepare() is
  age,           \* created_at: "fresh", "stale" after an hour, "old" after 14 days
  phase,         \* where maintain() is
  handler,       \* where the deletion handler of `worker` is
  late,          \* handlers that outlived their timeout
  sweep,         \* reconcileOrphans(): rows still to do, the one in hand, its step
  faults, crashes

queue == <<jobs, worker, handler, late>>
disk == <<temps, objects>>
bounds == <<faults, crashes>>
vars == <<queue, rows, disk, uploads, age, phase, sweep, bounds>>

Counted == {"uploading", "ready", "attached", "deleting"}
Idle == [todo |-> {}, file |-> Null, step |-> "idle"]
Deleted == [state |-> "deleted", size |-> 0]

\* The units of the quota that rows in one of the states S hold, each with its file, so
\* that the sum over the rows is their number.
Units(S) == UNION {{f} \X (1..rows[f].size) : f \in {g \in Files : rows[g].state \in S}}

\* Seeded bug: what uploads and deletions still hold is not counted.
UsedWhenReady == Cardinality(Units({"ready", "attached"}))

\* The quota query of prepare().
Used == Cardinality(Units(Counted))

\* A file operation that fails leaves what it should have removed; otherwise S goes.
Removed(from, S, fails) ==
  IF fails THEN /\ faults < MaxFaults
                /\ faults' = faults + 1
                /\ UNCHANGED from
  ELSE from' = from \ S /\ UNCHANGED faults
-----------------------------------------------------------------------------
(* prepare(): one upload, from its intent to 'ready' or back *)

\* The intent: its transaction reserves the size before anything is written.
Reserve(f) ==
  /\ rows[f].state = "absent"
  /\ Used + Reserved <= Quota
  /\ rows' = [rows EXCEPT ![f] = [state |-> "uploading", size |-> Reserved]]
  /\ uploads' = [uploads EXCEPT ![f] = "opening"]
  /\ UNCHANGED <<queue, disk, age, phase, sweep, bounds>>

Go(f, from, to) == uploads[f] = from /\ uploads' = [uploads EXCEPT ![f] = to]

\* The temporary file is created; its bytes follow.
Open(f) ==
  /\ Go(f, "opening", "writing")
  /\ temps' = temps \cup {f}
  /\ UNCHANGED <<queue, rows, objects, age, phase, sweep, bounds>>

\* The stream ended and its content is accepted.
Written(f) ==
  /\ Go(f, "writing", "moving")
  /\ UNCHANGED <<queue, rows, disk, age, phase, sweep, bounds>>

\* moveObject(): a rename, or across file systems a copy and a removal.
Rename(f) ==
  /\ f \in temps
  /\ Go(f, "moving", "recording")
  /\ temps' = temps \ {f} /\ objects' = objects \cup {f}
  /\ UNCHANGED <<queue, rows, age, phase, sweep, bounds>>

Copy(f) ==
  /\ f \in temps
  /\ Go(f, "moving", "dropping")
  /\ objects' = objects \cup {f}
  /\ UNCHANGED <<queue, rows, temps, age, phase, sweep, bounds>>

DropTemp(f) ==
  /\ Go(f, "dropping", "recording")
  /\ temps' = temps \ {f}
  /\ UNCHANGED <<queue, rows, objects, age, phase, sweep, bounds>>

\* The row becomes ready, unless something else changed it meanwhile.
Record(f, n) ==
  /\ IF rows[f].state = "uploading"
     THEN /\ Go(f, "recording", "none")
          /\ rows' = [rows EXCEPT ![f] = [state |-> "ready", size |-> n]]
     ELSE Go(f, "recording", "undoing") /\ UNCHANGED rows
  /\ UNCHANGED <<queue, disk, age, phase, sweep, bounds>>

\* Any error: the stream, the content, the disk.
BreakOff(f) ==
  /\ uploads[f] \in {"opening", "writing", "moving", "dropping"}
  /\ uploads' = [uploads EXCEPT ![f] = "undoing"]
  /\ UNCHANGED <<queue, rows, disk, age, phase, sweep, bounds>>

\* The catch block removes both paths, ignores errors and leaves the row.
UndoTemp(f, fails) ==
  /\ Go(f, "undoing", "undone")
  /\ Removed(temps, {f}, fails)
  /\ UNCHANGED <<queue, rows, objects, age, phase, sweep, crashes>>

UndoObject(f, fails) ==
  /\ Go(f, "undone", "none")
  /\ Removed(objects, {f}, fails)
  /\ UNCHANGED <<queue, rows, temps, age, phase, sweep, crashes>>

\* bind(), in the transaction of messages.create.
Attach(f) ==
  /\ rows[f].state = "ready"
  /\ rows' = [rows EXCEPT ![f].state = "attached"]
  /\ UNCHANGED <<queue, disk, uploads, age, phase, sweep, bounds>>
-----------------------------------------------------------------------------
(* maintain() *)

\* Seeded bug: rows are condemned without a job.
CondemnSilently(S) == jobs' = jobs

\* scheduleDelete(): the state and the job change in one transaction.
Condemn(S) == jobs' = Enqueued(S)

\* expireBatch(), for rows past their 14 days; its job runs later.
Expire ==
  /\ phase = "retention"
  /\ \E S \in SUBSET {f \in Files : rows[f].state \in {"ready", "attached"} /\ age[f] = "old"} :
       /\ rows' = [f \in Files |-> IF f \in S THEN [rows[f] EXCEPT !.state = "deleting"]
                                   ELSE rows[f]]
       /\ Condemn(S)
  /\ phase' = "jobs"
  /\ UNCHANGED <<worker, handler, late, disk, uploads, age, sweep, bounds>>

Maintain ==
  /\ phase = "idle"
  /\ phase' = "retention"
  /\ UNCHANGED <<queue, rows, disk, uploads, age, sweep, bounds>>

\* runBatch() claims a job; the handler looks at the row and starts.
Claim(f) ==
  /\ phase = "jobs" /\ worker = Null /\ f \in Claimable
  /\ jobs' = [jobs EXCEPT ![f] = Claimed(f)]
  /\ IF jobs'[f].status = "running"
     THEN /\ worker' = f
          /\ handler' = CASE rows[f].state = "deleting" -> "removing"
                          [] rows[f].state = "deleted"  -> "done"
                          [] OTHER                      -> "failed"
     ELSE UNCHANGED <<worker, handler>>
  /\ UNCHANGED <<late, rows, disk, uploads, age, phase, sweep, bounds>>

\* Seeded bug: a removal that failed is taken for one that worked.
RemoveQuietly(fails) ==
  /\ handler = "removing"
  /\ Removed(objects, {worker}, fails)
  /\ handler' = "marking"
  /\ UNCHANGED <<jobs, worker, late, rows, temps, uploads, age, phase, sweep, crashes>>

Remove(fails) ==
  /\ handler = "removing"
  /\ Removed(objects, {worker}, fails)
  /\ handler' = IF fails THEN "failed" ELSE "marking"
  /\ UNCHANGED <<jobs, worker, late, rows, temps, uploads, age, phase, sweep, crashes>>

Marked(f) == IF rows[f].state = "deleting" THEN [rows EXCEPT ![f] = Deleted] ELSE rows

Mark ==
  /\ handler = "marking"
  /\ rows' = Marked(worker)
  /\ handler' = "done"
  /\ UNCHANGED <<jobs, worker, late, disk, uploads, age, phase, sweep, bounds>>

\* The timeout wins the race; the handler goes on all the same. (One late handler
\* per file is followed.)
TimeOut ==
  /\ handler = "removing" /\ late[worker] = "none"
  /\ late' = [late EXCEPT ![worker] = "removing"]
  /\ handler' = "failed"
  /\ UNCHANGED <<jobs, worker, rows, disk, uploads, age, phase, sweep, bounds>>

LateRemove(f, fails) ==
  /\ late[f] = "removing"
  /\ Removed(objects, {f}, fails)
  /\ late' = [late EXCEPT ![f] = IF fails THEN "none" ELSE "marking"]
  /\ UNCHANGED <<jobs, worker, handler, rows, temps, uploads, age, phase, sweep, crashes>>

LateMark(f) ==
  /\ late[f] = "marking"
  /\ rows' = Marked(f)
  /\ late' = [late EXCEPT ![f] = "none"]
  /\ UNCHANGED <<jobs, worker, handler, disk, uploads, age, phase, sweep, bounds>>

\* The runner settles the job and goes on to the next.
Settle ==
  /\ handler \in {"done", "failed"}
  /\ jobs' = IF handler = "done" THEN Settled("completed") ELSE RetryOrFail
  /\ worker' = Null /\ handler' = "idle"
  /\ UNCHANGED <<late, rows, disk, uploads, age, phase, sweep, bounds>>

\* Seeded bug: only what left a temporary file is collected.
AbandonedOnDisk == {f \in temps : rows[f].state = "uploading" /\ age[f] # "fresh"}

\* Seeded bug: uploads are collected however young they are.
AbandonedAlready == {f \in Files : rows[f].state = "uploading"}

\* reconcileOrphans(): uploads that began more than an hour ago.
Abandoned == {f \in Files : rows[f].state = "uploading" /\ age[f] # "fresh"}

Sweep ==
  /\ phase = "jobs" /\ worker = Null /\ Claimable = {}
  /\ phase' = "sweep"
  /\ sweep' = [Idle EXCEPT !.todo = Abandoned]
  /\ UNCHANGED <<queue, rows, disk, uploads, age, bounds>>

SweepTemp(f) ==
  /\ phase = "sweep" /\ sweep.file = Null /\ f \in sweep.todo
  /\ temps' = temps \ {f}
  /\ sweep' = [todo |-> sweep.todo \ {f}, file |-> f, step |-> "object"]
  /\ UNCHANGED <<queue, rows, objects, uploads, age, phase, bounds>>

SweepObject ==
  /\ sweep.step = "object"
  /\ objects' = objects \ {sweep.file}
  /\ sweep' = [sweep EXCEPT !.step = "row"]
  /\ UNCHANGED <<queue, rows, temps, uploads, age, phase, bounds>>

\* Seeded bug: the state is not looked at again.
SweepRowAnyway ==
  /\ sweep.step = "row"
  /\ rows' = [rows EXCEPT ![sweep.file] = Deleted]
  /\ sweep' = [sweep EXCEPT !.file = Null, !.step = "idle"]
  /\ UNCHANGED <<queue, disk, uploads, age, phase, bounds>>

SweepRow ==
  /\ sweep.step = "row"
  /\ rows' = IF rows[sweep.file].state = "uploading"
             THEN [rows EXCEPT ![sweep.file] = Deleted] ELSE rows
  /\ sweep' = [sweep EXCEPT !.file = Null, !.step = "idle"]
  /\ UNCHANGED <<queue, disk, uploads, age, phase, bounds>>

\* A removal that fails ends the sweep.
SweepFails ==
  /\ phase = "sweep" /\ (sweep.todo # {} \/ sweep.step = "object")
  /\ sweep.step # "row"
  /\ faults < MaxFaults
  /\ faults' = faults + 1
  /\ sweep' = Idle /\ phase' = "idle"
  /\ UNCHANGED <<queue, rows, disk, uploads, age, crashes>>

Rest ==
  /\ phase = "sweep" /\ sweep = Idle
  /\ phase' = "idle"
  /\ UNCHANGED <<queue, rows, disk, uploads, age, sweep, bounds>>
-----------------------------------------------------------------------------
(* Time and crashes *)

\* An hour passes, then the 14 days. Uploads outside Slow are over within the hour.
Age(f) ==
  /\ rows[f].state # "absent"
  /\ \/ age[f] = "fresh" /\ (f \in Slow \/ uploads[f] = "none")
        /\ age' = [age EXCEPT ![f] = "stale"]
     \/ age[f] = "stale" /\ uploads[f] = "none"
        /\ age' = [age EXCEPT ![f] = "old"]
  /\ UNCHANGED <<queue, rows, disk, uploads, phase, sweep, bounds>>

Clock(j) ==
  /\ Wake(j) \/ Lapse(j)
  /\ UNCHANGED <<handler, late, rows, disk, uploads, age, phase, sweep, bounds>>

\* The process dies; the database and the disk stay as they are.
Crash ==
  /\ crashes < MaxCrashes
  /\ crashes' = crashes + 1
  /\ uploads' = [f \in Files |-> "none"]
  /\ late' = [f \in Files |-> "none"]
  /\ worker' = Null /\ handler' = "idle"
  /\ phase' = "idle" /\ sweep' = Idle
  /\ UNCHANGED <<jobs, rows, disk, age, faults>>

Init ==
  /\ JobsInit
  /\ rows = [f \in Files |-> [state |-> "absent", size |-> 0]]
  /\ temps = {} /\ objects = {}
  /\ uploads = [f \in Files |-> "none"]
  /\ age = [f \in Files |-> "fresh"]
  /\ phase = "idle" /\ handler = "idle" /\ sweep = Idle
  /\ late = [f \in Files |-> "none"]
  /\ faults = 0 /\ crashes = 0

Upload(f) ==
  \/ Open(f) \/ Written(f) \/ Rename(f) \/ Copy(f) \/ DropTemp(f)
  \/ \E n \in 1..Reserved : Record(f, n)
  \/ UndoTemp(f, FALSE) \/ UndoObject(f, FALSE)

Runner ==
  \/ Maintain \/ Expire \/ (\E f \in Files : Claim(f)) \/ Remove(FALSE) \/ Mark \/ Settle
  \/ Sweep \/ (\E f \in Files : SweepTemp(f)) \/ SweepObject \/ SweepRow \/ Rest

Next ==
  \/ \E f \in Files :
       \/ Reserve(f) \/ Upload(f) \/ BreakOff(f) \/ UndoTemp(f, TRUE) \/ UndoObject(f, TRUE)
       \/ Attach(f) \/ LateRemove(f, FALSE) \/ LateRemove(f, TRUE) \/ LateMark(f)
       \/ Age(f) \/ Clock(f)
  \/ Runner \/ Remove(TRUE) \/ TimeOut \/ SweepFails
  \/ Crash

Spec == Init /\ [][Next]_vars

\* Uploads end, time passes, and maintain() runs every minute to its end.
FairSpec ==
  /\ Spec
  /\ WF_vars(Runner)
  /\ \A f \in Files : WF_vars(Upload(f)) /\ WF_vars(Age(f)) /\ WF_vars(Clock(f))
-----------------------------------------------------------------------------
(* Properties *)

FileStates == {"absent", "deleted"} \cup Counted

TypeOK ==
  /\ jobs \in [Files -> [status : Statuses, attempt : 0..(MaxAttempts + 1)]]
  /\ worker \in Files \cup {Null}
  /\ handler \in {"idle", "removing", "marking", "done", "failed"}
  /\ worker = Null <=> handler = "idle"
  /\ rows \in [Files -> [state : FileStates, size : 0..Reserved]]
  /\ temps \subseteq Files /\ objects \subseteq Files
  /\ late \in [Files -> {"none", "removing", "marking"}]
  /\ sweep.todo \subseteq Files /\ sweep.file \in Files \cup {Null}

\* The quota holds however uploads, failures and deletions overlap: intents count
\* before their bytes arrive and condemned files until their bytes are gone (prepare).
QuotaHeld == Used <= Quota

\* Nothing is on the disk that the quota does not count and no row would ever
\* remove: the bytes go before the row says so, through every failure and crash
\* (delete handler, reconcileOrphans). Uploads that outlast the hour are excepted.
DiskAccounted ==
  \A f \in (temps \cup objects) \ Slow : rows[f].state \in Counted

\* A file that may be attached or downloaded is on the disk, and whole.
ReadyOnDisk(S) ==
  \A f \in S : rows[f].state \in {"ready", "attached"} => f \in objects \ temps

\* For uploads that end within the hour, whatever fails or crashes around them.
PromptReadyOnDisk == ReadyOnDisk(Files \ Slow)

\* For every upload: the sweep of abandoned uploads protects the ones under way.
EveryReadyOnDisk == ReadyOnDisk(Files)

\* A job answers for every condemned file until the file is gone: a completed job
\* means that it is, and a file whose job was given up is still in 'deleting'.
JobsAnswer ==
  \A f \in Files :
    /\ rows[f].state = "deleting" => jobs[f].status \notin {"none", "completed"}
    /\ jobs[f].status = "completed" => rows[f].state = "deleted" /\ f \notin objects

Lifecycle == INSTANCE FileLifecycle WITH phase <- [f \in Files |-> rows[f].state]

\* A row's state only moves forward, one step at a time, although three processes
\* write it after file operations during which the others may have written it.
ImplementsLifecycle == Lifecycle!LifecycleSpec

\* A condemned file goes away, unless its job was given up.
CondemnedGoes ==
  \A f \in Files :
    rows[f].state = "deleting" ~> rows[f].state = "deleted" \/ jobs[f].status = "failed"

\* An upload that failed or died with its process gives its reservation back.
ReservationsReturn ==
  \A f \in Files : rows[f].state = "uploading" ~> rows[f].state # "uploading"
=============================================================================
