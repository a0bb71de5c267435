------------------------ MODULE FileStore_proofs ------------------------
(***************************************************************************)
(* Theorems about FileStore, for every finite set of files, quota, and     *)
(* number of faults and crashes.                                           *)
(***************************************************************************)
EXTENDS FileStore, FiniteSetTheorems, TLAPS

Steps == {"none", "opening", "writing", "moving", "dropping", "recording", "undoing", "undone"}
SweepRecord == [todo : SUBSET Files, file : Files \cup {Null}, step : {"idle", "object", "row"}]

\* TypeOK, and the types of the variables it leaves out.
Typed ==
  /\ TypeOK
  /\ uploads \in [Files -> Steps]
  /\ age \in [Files -> {"fresh", "stale", "old"}]
  /\ sweep \in SweepRecord

\* What a row says of its upload and its job.
RowOK(f) ==
  /\ rows[f].state = "absent" =>
       uploads[f] = "none" /\ age[f] = "fresh" /\ f \notin temps \cup objects
  /\ uploads[f] # "none" =>
       jobs[f].status = "none" /\ rows[f].state \in {"uploading", "deleted"}
  /\ jobs[f].status # "none" => rows[f].state \in {"deleting", "deleted"}
  /\ jobs[f].status = "completed" => rows[f].state = "deleted"
  /\ rows[f].state = "deleting" => jobs[f].status # "none"
  /\ rows[f].state = "deleted" /\ jobs[f].status # "none" => f \notin objects

\* Where the bytes of an upload are that ends within the hour.
PromptOK(f) ==
  /\ uploads[f] # "none" => age[f] = "fresh" /\ rows[f].state = "uploading"
  /\ uploads[f] = "dropping" => f \in objects
  /\ uploads[f] = "recording" => f \in objects \ temps
  /\ rows[f].state \in {"ready", "attached"} => f \in objects \ temps
  /\ rows[f].state = "deleting" => f \notin temps
  /\ rows[f].state = "deleted" => f \notin temps \cup objects

\* The handler at work, and those that outlived their timeout.
QueueOK ==
  /\ \A f \in Files : jobs[f].status # "failed" => jobs[f].attempt <= MaxAttempts
  /\ worker # Null => jobs[worker].status \in {"running", "lapsed"}
  /\ handler \in {"marking", "done"} => worker \notin objects
  /\ handler = "done" => rows[worker].state = "deleted"
  /\ \A f \in Files : late[f] # "none" => jobs[f].status # "none"
  /\ \A f \in Files : late[f] = "marking" => f \notin objects

\* The sweep only has uploads in hand that are over, if they end within the hour.
SweepOK ==
  /\ sweep.file = Null <=> sweep.step = "idle"
  /\ \A f \in Files \ Slow :
       /\ f \in sweep.todo \/ f = sweep.file =>
            age[f] # "fresh" /\ rows[f].state \in {"uploading", "deleted"}
       /\ f = sweep.file => f \notin temps
       /\ f = sweep.file /\ sweep.step = "row" => f \notin objects

IInv ==
  /\ Typed
  /\ \A f \in Files : RowOK(f)
  /\ \A f \in Files \ Slow : PromptOK(f)
  /\ QueueOK
  /\ SweepOK
USE JobAssumption, FileAssumption
USE DEF Files, queue, disk, bounds
-----------------------------------------------------------------------------
(* One lemma per action *)

\* The intent takes a row that has nothing yet.
LEMMA ReserveKeeps ==
  ASSUME IInv, NEW f \in Files, Reserve(f)
  PROVE  IInv'
<1> USE DEF IInv
<1>1. Typed'
  BY DEF Reserve, Typed, TypeOK, Steps, FileStates, Counted
<1>2. \A x \in Files : RowOK(x)'
  BY DEF Reserve, Typed, TypeOK, RowOK, QueueOK, SweepOK
<1>3. \A x \in Files \ Slow : PromptOK(x)'
  BY DEF Reserve, Typed, TypeOK, RowOK, PromptOK, QueueOK, SweepOK
<1>4. QueueOK'
  BY DEF Reserve, Typed, TypeOK, RowOK, QueueOK
<1>5. SweepOK'
  BY DEF Reserve, Typed, TypeOK, RowOK, PromptOK, SweepOK
<1> QED BY <1>1, <1>2, <1>3, <1>4, <1>5

\* The temporary file belongs to a row that is uploading.
LEMMA OpenKeeps ==
  ASSUME IInv, NEW f \in Files, Open(f)
  PROVE  IInv'
<1> USE DEF IInv
<1>1. Typed'
  BY DEF Open, Go, Typed, TypeOK, Steps
<1>2. \A x \in Files : RowOK(x)'
  BY DEF Open, Go, Typed, TypeOK, RowOK, QueueOK, SweepOK
<1>3. \A x \in Files \ Slow : PromptOK(x)'
  BY DEF Open, Go, Typed, TypeOK, RowOK, PromptOK, QueueOK, SweepOK
<1>4. QueueOK'
  BY DEF Open, Go, Typed, TypeOK, RowOK, QueueOK
<1>5. SweepOK'
  BY DEF Open, Go, Typed, TypeOK, RowOK, PromptOK, SweepOK
<1> QED BY <1>1, <1>2, <1>3, <1>4, <1>5

\* Nothing changes on the disk.
LEMMA WrittenKeeps ==
  ASSUME IInv, NEW f \in Files, Written(f)
  PROVE  IInv'
<1> USE DEF IInv
<1>1. Typed'
  BY DEF Written, Go, Typed, TypeOK, Steps
<1>2. \A x \in Files : RowOK(x)'
  BY DEF Written, Go, Typed, TypeOK, RowOK, QueueOK, SweepOK
<1>3. \A x \in Files \ Slow : PromptOK(x)'
  BY DEF Written, Go, Typed, TypeOK, RowOK, PromptOK, QueueOK, SweepOK
<1>4. QueueOK'
  BY DEF Written, Go, Typed, TypeOK, RowOK, QueueOK
<1>5. SweepOK'
  BY DEF Written, Go, Typed, TypeOK, RowOK, PromptOK, SweepOK
<1> QED BY <1>1, <1>2, <1>3, <1>4, <1>5

\* The object is on the disk before the row says so.
LEMMA RenameKeeps ==
  ASSUME IInv, NEW f \in Files, Rename(f)
  PROVE  IInv'
<1> USE DEF IInv
<1>1. Typed'
  BY DEF Rename, Go, Typed, TypeOK, Steps
<1>2. \A x \in Files : RowOK(x)'
  BY DEF Rename, Go, Typed, TypeOK, RowOK, QueueOK, SweepOK
<1>3. \A x \in Files \ Slow : PromptOK(x)'
  BY DEF Rename, Go, Typed, TypeOK, RowOK, PromptOK, QueueOK, SweepOK
<1>4. QueueOK'
  BY DEF Rename, Go, Typed, TypeOK, RowOK, QueueOK
<1>5. SweepOK'
  BY DEF Rename, Go, Typed, TypeOK, RowOK, PromptOK, SweepOK
<1> QED BY <1>1, <1>2, <1>3, <1>4, <1>5

\* The object is there while the temporary file still is.
LEMMA CopyKeeps ==
  ASSUME IInv, NEW f \in Files, Copy(f)
  PROVE  IInv'
<1> USE DEF IInv
<1>1. Typed'
  BY DEF Copy, Go, Typed, TypeOK, Steps
<1>2. \A x \in Files : RowOK(x)'
  BY DEF Copy, Go, Typed, TypeOK, RowOK, QueueOK, SweepOK
<1>3. \A x \in Files \ Slow : PromptOK(x)'
  BY DEF Copy, Go, Typed, TypeOK, RowOK, PromptOK, QueueOK, SweepOK
<1>4. QueueOK'
  BY DEF Copy, Go, Typed, TypeOK, RowOK, QueueOK
<1>5. SweepOK'
  BY DEF Copy, Go, Typed, TypeOK, RowOK, PromptOK, SweepOK
<1> QED BY <1>1, <1>2, <1>3, <1>4, <1>5

\* The temporary file is gone before the row is ready.
LEMMA DropTempKeeps ==
  ASSUME IInv, NEW f \in Files, DropTemp(f)
  PROVE  IInv'
<1> USE DEF IInv
<1>1. Typed'
  BY DEF DropTemp, Go, Typed, TypeOK, Steps
<1>2. \A x \in Files : RowOK(x)'
  BY DEF DropTemp, Go, Typed, TypeOK, RowOK, QueueOK, SweepOK
<1>3. \A x \in Files \ Slow : PromptOK(x)'
  BY DEF DropTemp, Go, Typed, TypeOK, RowOK, PromptOK, QueueOK, SweepOK
<1>4. QueueOK'
  BY DEF DropTemp, Go, Typed, TypeOK, RowOK, QueueOK
<1>5. SweepOK'
  BY DEF DropTemp, Go, Typed, TypeOK, RowOK, PromptOK, SweepOK
<1> QED BY <1>1, <1>2, <1>3, <1>4, <1>5

\* The row becomes ready, or the upload finds that it lost its row.
LEMMA RecordKeeps ==
  ASSUME IInv, NEW f \in Files, NEW n \in 1..Reserved, Record(f, n)
  PROVE  IInv'
<1> USE DEF IInv
<1>1. CASE rows[f].state = "uploading"
  <2>0. /\ uploads[f] = "recording"
        /\ uploads' = [uploads EXCEPT ![f] = "none"]
        /\ rows' = [rows EXCEPT ![f] = [state |-> "ready", size |-> n]]
        /\ UNCHANGED <<queue, disk, age, phase, sweep, bounds>>
    BY <1>1 DEF Record, Go
  <2>a. [state |-> "ready", size |-> n] \in [state : FileStates, size : 0..Reserved]
    BY DEF FileStates, Counted
  <2>1. Typed'
    BY <2>0, <2>a DEF Typed, TypeOK, Steps
  <2>2. \A x \in Files : RowOK(x)'
    BY <2>0 DEF Typed, TypeOK, RowOK
  <2>3. \A x \in Files \ Slow : PromptOK(x)'
    BY <2>0 DEF Typed, TypeOK, PromptOK
  <2>4. QueueOK'
    BY <2>0, <1>1 DEF Typed, TypeOK, QueueOK
  <2>5. SweepOK'
    BY <2>0 DEF Typed, TypeOK, PromptOK, SweepOK
  <2> QED BY <2>1, <2>2, <2>3, <2>4, <2>5
<1>2. CASE rows[f].state # "uploading"
  <2>0. /\ uploads' = [uploads EXCEPT ![f] = "undoing"]
        /\ uploads[f] = "recording"
        /\ UNCHANGED <<rows, queue, disk, age, phase, sweep, bounds>>
    BY <1>2 DEF Record, Go
  <2>1. Typed'
    BY <2>0 DEF Typed, TypeOK, Steps
  <2>2. \A x \in Files : RowOK(x)'
    BY <2>0 DEF Typed, TypeOK, RowOK
  <2>3. \A x \in Files \ Slow : PromptOK(x)'
    BY <2>0 DEF Typed, TypeOK, PromptOK
  <2>4. QueueOK'
    BY <2>0 DEF QueueOK
  <2>5. SweepOK'
    BY <2>0 DEF SweepOK
  <2> QED BY <2>1, <2>2, <2>3, <2>4, <2>5
<1> QED BY <1>1, <1>2

\* A failed upload keeps its row.
LEMMA BreakOffKeeps ==
  ASSUME IInv, NEW f \in Files, BreakOff(f)
  PROVE  IInv'
<1> USE DEF IInv
<1>1. Typed'
  BY DEF BreakOff, Typed, TypeOK, Steps
<1>2. \A x \in Files : RowOK(x)'
  BY DEF BreakOff, Typed, TypeOK, RowOK, QueueOK, SweepOK
<1>3. \A x \in Files \ Slow : PromptOK(x)'
  BY DEF BreakOff, Typed, TypeOK, RowOK, PromptOK, QueueOK, SweepOK
<1>4. QueueOK'
  BY DEF BreakOff, Typed, TypeOK, RowOK, QueueOK
<1>5. SweepOK'
  BY DEF BreakOff, Typed, TypeOK, RowOK, PromptOK, SweepOK
<1> QED BY <1>1, <1>2, <1>3, <1>4, <1>5

\* Whether or not the removal works, the row stays.
LEMMA UndoTempKeeps ==
  ASSUME IInv, NEW f \in Files, NEW fails \in BOOLEAN, UndoTemp(f, fails)
  PROVE  IInv'
<1> USE DEF IInv
<1>1. Typed'
  BY DEF UndoTemp, Go, Removed, Typed, TypeOK, Steps
<1>2. \A x \in Files : RowOK(x)'
  BY DEF UndoTemp, Go, Removed, Typed, TypeOK, RowOK, QueueOK, SweepOK
<1>3. \A x \in Files \ Slow : PromptOK(x)'
  BY DEF UndoTemp, Go, Removed, Typed, TypeOK, RowOK, PromptOK, QueueOK, SweepOK
<1>4. QueueOK'
  BY DEF UndoTemp, Go, Removed, Typed, TypeOK, RowOK, QueueOK
<1>5. SweepOK'
  BY DEF UndoTemp, Go, Removed, Typed, TypeOK, RowOK, PromptOK, SweepOK
<1> QED BY <1>1, <1>2, <1>3, <1>4, <1>5

\* Likewise, and the upload is over.
LEMMA UndoObjectKeeps ==
  ASSUME IInv, NEW f \in Files, NEW fails \in BOOLEAN, UndoObject(f, fails)
  PROVE  IInv'
<1> USE DEF IInv
<1>1. Typed'
  BY DEF UndoObject, Go, Removed, Typed, TypeOK, Steps
<1>2. \A x \in Files : RowOK(x)'
  BY DEF UndoObject, Go, Removed, Typed, TypeOK, RowOK, QueueOK, SweepOK
<1>3. \A x \in Files \ Slow : PromptOK(x)'
  BY DEF UndoObject, Go, Removed, Typed, TypeOK, RowOK, PromptOK, QueueOK, SweepOK
<1>4. QueueOK'
  BY DEF UndoObject, Go, Removed, Typed, TypeOK, RowOK, QueueOK
<1>5. SweepOK'
  BY DEF UndoObject, Go, Removed, Typed, TypeOK, RowOK, PromptOK, SweepOK
<1> QED BY <1>1, <1>2, <1>3, <1>4, <1>5

\* A ready file is attached.
LEMMA AttachKeeps ==
  ASSUME IInv, NEW f \in Files, Attach(f)
  PROVE  IInv'
<1> USE DEF IInv
<1>1. Typed'
  BY DEF Attach, Typed, TypeOK, Steps, FileStates, Counted
<1>2. \A x \in Files : RowOK(x)'
  BY DEF Attach, Typed, TypeOK, RowOK, QueueOK, SweepOK
<1>3. \A x \in Files \ Slow : PromptOK(x)'
  BY DEF Attach, Typed, TypeOK, RowOK, PromptOK, QueueOK, SweepOK
<1>4. QueueOK'
  BY DEF Attach, Typed, TypeOK, RowOK, QueueOK
<1>5. SweepOK'
  BY DEF Attach, Typed, TypeOK, RowOK, PromptOK, SweepOK
<1> QED BY <1>1, <1>2, <1>3, <1>4, <1>5

\* Only maintain()'s own position changes.
LEMMA MaintainKeeps ==
  ASSUME IInv, Maintain
  PROVE  IInv'
<1> USE DEF IInv
<1>1. Typed'
  BY DEF Maintain, Typed, TypeOK, Steps
<1>2. \A x \in Files : RowOK(x)'
  BY DEF Maintain, Typed, TypeOK, RowOK, QueueOK, SweepOK
<1>3. \A x \in Files \ Slow : PromptOK(x)'
  BY DEF Maintain, Typed, TypeOK, RowOK, PromptOK, QueueOK, SweepOK
<1>4. QueueOK'
  BY DEF Maintain, Typed, TypeOK, RowOK, QueueOK
<1>5. SweepOK'
  BY DEF Maintain, Typed, TypeOK, RowOK, PromptOK, SweepOK
<1> QED BY <1>1, <1>2, <1>3, <1>4, <1>5

\* Rows are condemned together with their jobs.
LEMMA ExpireKeeps ==
  ASSUME IInv, Expire
  PROVE  IInv'
<1> USE DEF IInv
<1>0. PICK S \in SUBSET {f \in Files : rows[f].state \in {"ready", "attached"} /\ age[f] = "old"} :
        /\ rows' = [f \in Files |-> IF f \in S THEN [rows[f] EXCEPT !.state = "deleting"]
                                    ELSE rows[f]]
        /\ Condemn(S)
  BY DEF Expire
<1>u. UNCHANGED <<worker, handler, late, disk, uploads, age, sweep, bounds>>
  BY DEF Expire
<1>a. \A f \in Files :
        /\ f \in S => rows[f].state \in {"ready", "attached"}
        /\ f \in S => rows'[f] = [rows[f] EXCEPT !.state = "deleting"]
        /\ f \notin S => rows'[f] = rows[f]
  BY <1>0
<1>b. \A f \in Files :
        /\ f \in S => jobs'[f] = [status |-> "due", attempt |-> 0]
        /\ f \notin S => jobs'[f] = jobs[f]
  BY <1>0, <1>a DEF Condemn, Enqueued, RowOK
<1>r. \A f \in Files : rows[f] \in [state : FileStates, size : 0..Reserved]
  BY DEF Typed, TypeOK
<1>d. "deleting" \in FileStates
  BY DEF FileStates, Counted
<1>c. ASSUME NEW f \in Files, f \in S
      PROVE  /\ rows'[f] \in [state : FileStates, size : 0..Reserved]
             /\ rows'[f].state = "deleting"
  <2>1. rows[f] \in [state : FileStates, size : 0..Reserved]
    BY <1>r
  <2>2. rows'[f] = [rows[f] EXCEPT !.state = "deleting"]
    BY <1>a, <1>c
  <2> QED BY <2>1, <2>2, <1>d
<1>1. Typed'
  <2>1. \A f \in Files : rows'[f] \in [state : FileStates, size : 0..Reserved]
    BY <1>a, <1>c, <1>r
  <2>2. rows' \in [Files -> [state : FileStates, size : 0..Reserved]]
    BY <2>1, <1>0
  <2>3. [status |-> "due", attempt |-> 0] \in [status : Statuses, attempt : 0..(MaxAttempts + 1)]
    BY DEF Statuses
  <2>4. jobs' \in [Files -> [status : Statuses, attempt : 0..(MaxAttempts + 1)]]
    BY <1>0, <2>3 DEF Condemn, Enqueued, Typed, TypeOK
  <2> QED BY <1>u, <2>2, <2>4 DEF Typed, TypeOK
<1>s. \A f \in Files : /\ f \in S => rows'[f].state = "deleting" /\ jobs'[f].status = "due"
                       /\ f \notin S => rows'[f].state = rows[f].state
  <2>1. \A f \in Files : f \in S => rows'[f].state = "deleting"
    BY <1>c
  <2>2. \A f \in Files : f \notin S => rows'[f].state = rows[f].state
    BY <1>a
  <2>3. \A f \in Files : f \in S => jobs'[f].status = "due"
    BY <1>b
  <2> QED BY <2>1, <2>2, <2>3
<1>2. \A f \in Files : RowOK(f)'
  BY <1>s, <1>u, <1>a, <1>b DEF RowOK
<1>3. \A f \in Files \ Slow : PromptOK(f)'
  BY <1>s, <1>u, <1>a DEF PromptOK, RowOK
<1>4. QueueOK'
  <2>1. \A f \in Files : jobs'[f].status # "failed" => jobs'[f].attempt <= MaxAttempts
    BY <1>b, JobAssumption DEF QueueOK
  <2>2. \A f \in Files : jobs[f].status # "none" => f \notin S
    BY <1>a DEF RowOK
  <2>3. worker # Null => worker \in Files /\ worker \notin S
    BY <2>2 DEF QueueOK, Typed, TypeOK
  <2>4. worker # Null => jobs'[worker].status \in {"running", "lapsed"}
    BY <1>u, <1>b, <2>3 DEF QueueOK
  <2>5. handler = "done" => rows'[worker].state = "deleted"
    BY <1>s, <2>3 DEF QueueOK, Typed, TypeOK
  <2>6. \A f \in Files : late[f] # "none" => jobs'[f].status # "none"
    BY <1>s, <1>b DEF QueueOK
  <2> QED BY <1>u, <2>1, <2>4, <2>5, <2>6 DEF QueueOK, disk
<1>5. SweepOK'
  BY <1>s, <1>u, <1>a DEF SweepOK
<1> QED BY <1>1, <1>2, <1>3, <1>4, <1>5

\* A claimed job's handler starts from what the row says.
LEMMA ClaimKeeps ==
  ASSUME IInv, NEW f \in Files, Claim(f)
  PROVE  IInv'
<1> USE DEF IInv
<1>0. /\ jobs[f].status \in {"due", "lapsed"}
      /\ worker = Null /\ handler = "idle"
      /\ jobs' = [jobs EXCEPT ![f] = Claimed(f)]
      /\ UNCHANGED <<late, rows, disk, uploads, age, sweep, bounds>>
  BY DEF Claim, Claimable, Typed, TypeOK
<1>a. /\ Claimed(f) \in [status : {"failed", "running"}, attempt : 0..(MaxAttempts + 1)]
      /\ Claimed(f).status = "running" => Claimed(f).attempt <= MaxAttempts
  BY <1>0 DEF Claimed, QueueOK, Typed, TypeOK
<1>b. /\ jobs' \in [Files -> [status : Statuses, attempt : 0..(MaxAttempts + 1)]]
      /\ jobs'[f] = Claimed(f) /\ \A x \in Files : x # f => jobs'[x] = jobs[x]
  BY <1>0, <1>a DEF Typed, TypeOK, Statuses
<1>c. rows[f].state \in {"deleting", "deleted"}
  BY <1>0 DEF RowOK
<1>d. \/ Claimed(f).status = "failed" /\ UNCHANGED <<worker, handler>>
      \/ /\ Claimed(f).status = "running"
         /\ worker' = f
         /\ handler' = IF rows[f].state = "deleting" THEN "removing" ELSE "done"
  BY <1>a, <1>b, <1>c DEF Claim
<1>1. Typed'
  BY <1>0, <1>b, <1>d DEF Typed, TypeOK
<1>2. \A x \in Files : RowOK(x)'
  BY <1>0, <1>a, <1>b DEF RowOK
<1>3. \A x \in Files \ Slow : PromptOK(x)'
  BY <1>0 DEF PromptOK
<1>4. QueueOK'
  BY <1>0, <1>a, <1>b, <1>c, <1>d DEF QueueOK, RowOK
<1>5. SweepOK'
  BY <1>0 DEF SweepOK
<1> QED BY <1>1, <1>2, <1>3, <1>4, <1>5

\* The handler goes on to the row only when the object is gone.
LEMMA RemoveKeeps ==
  ASSUME IInv, NEW fails \in BOOLEAN, Remove(fails)
  PROVE  IInv'
<1> USE DEF IInv
<1>1. Typed'
  BY DEF Remove, Removed, Typed, TypeOK, Steps
<1>2. \A x \in Files : RowOK(x)'
  BY DEF Remove, Removed, Typed, TypeOK, RowOK, QueueOK, SweepOK
<1>3. \A x \in Files \ Slow : PromptOK(x)'
  BY DEF Remove, Removed, Typed, TypeOK, RowOK, PromptOK, QueueOK, SweepOK
<1>4. QueueOK'
  BY DEF Remove, Removed, Typed, TypeOK, RowOK, QueueOK
<1>5. SweepOK'
  BY DEF Remove, Removed, Typed, TypeOK, RowOK, PromptOK, SweepOK
<1> QED BY <1>1, <1>2, <1>3, <1>4, <1>5

\* The row says deleted after the object went.
LEMMA MarkKeeps ==
  ASSUME IInv, Mark
  PROVE  IInv'
<1> USE DEF IInv
<1>1. Typed'
  BY DEF Mark, Marked, Deleted, Typed, TypeOK, Steps, FileStates
<1>2. \A x \in Files : RowOK(x)'
  BY DEF Mark, Marked, Deleted, Typed, TypeOK, RowOK, QueueOK, SweepOK
<1>3. \A x \in Files \ Slow : PromptOK(x)'
  BY DEF Mark, Marked, Deleted, Typed, TypeOK, RowOK, PromptOK, QueueOK, SweepOK
<1>4. QueueOK'
  BY DEF Mark, Marked, Deleted, Typed, TypeOK, RowOK, QueueOK
<1>5. SweepOK'
  BY DEF Mark, Marked, Deleted, Typed, TypeOK, RowOK, PromptOK, SweepOK
<1> QED BY <1>1, <1>2, <1>3, <1>4, <1>5

\* The handler goes on beside the retry.
LEMMA TimeOutKeeps ==
  ASSUME IInv, TimeOut
  PROVE  IInv'
<1> USE DEF IInv
<1>1. Typed'
  BY DEF TimeOut, Typed, TypeOK, Steps
<1>2. \A x \in Files : RowOK(x)'
  BY DEF TimeOut, Typed, TypeOK, RowOK, QueueOK, SweepOK
<1>3. \A x \in Files \ Slow : PromptOK(x)'
  BY DEF TimeOut, Typed, TypeOK, RowOK, PromptOK, QueueOK, SweepOK
<1>4. QueueOK'
  BY DEF TimeOut, Typed, TypeOK, RowOK, QueueOK
<1>5. SweepOK'
  BY DEF TimeOut, Typed, TypeOK, RowOK, PromptOK, SweepOK
<1> QED BY <1>1, <1>2, <1>3, <1>4, <1>5

\* A late handler removes what the job's retry may have removed.
LEMMA LateRemoveKeeps ==
  ASSUME IInv, NEW f \in Files, NEW fails \in BOOLEAN, LateRemove(f, fails)
  PROVE  IInv'
<1> USE DEF IInv
<1>1. Typed'
  BY DEF LateRemove, Removed, Typed, TypeOK, Steps
<1>2. \A x \in Files : RowOK(x)'
  BY DEF LateRemove, Removed, Typed, TypeOK, RowOK, QueueOK, SweepOK
<1>3. \A x \in Files \ Slow : PromptOK(x)'
  BY DEF LateRemove, Removed, Typed, TypeOK, RowOK, PromptOK, QueueOK, SweepOK
<1>4. QueueOK'
  BY DEF LateRemove, Removed, Typed, TypeOK, RowOK, QueueOK
<1>5. SweepOK'
  BY DEF LateRemove, Removed, Typed, TypeOK, RowOK, PromptOK, SweepOK
<1> QED BY <1>1, <1>2, <1>3, <1>4, <1>5

\* A late handler marks a row that may be marked.
LEMMA LateMarkKeeps ==
  ASSUME IInv, NEW f \in Files, LateMark(f)
  PROVE  IInv'
<1> USE DEF IInv
<1>1. Typed'
  BY DEF LateMark, Marked, Deleted, Typed, TypeOK, Steps, FileStates
<1>2. \A x \in Files : RowOK(x)'
  BY DEF LateMark, Marked, Deleted, Typed, TypeOK, RowOK, QueueOK, SweepOK
<1>3. \A x \in Files \ Slow : PromptOK(x)'
  BY DEF LateMark, Marked, Deleted, Typed, TypeOK, RowOK, PromptOK, QueueOK, SweepOK
<1>4. QueueOK'
  BY DEF LateMark, Marked, Deleted, Typed, TypeOK, RowOK, QueueOK
<1>5. SweepOK'
  BY DEF LateMark, Marked, Deleted, Typed, TypeOK, RowOK, PromptOK, SweepOK
<1> QED BY <1>1, <1>2, <1>3, <1>4, <1>5

\* A job is completed only for a file that is gone.
LEMMA SettleKeeps ==
  ASSUME IInv, Settle
  PROVE  IInv'
<1> USE DEF IInv
<1>1. Typed'
  BY DEF Settle, Settled, RetryOrFail, Typed, TypeOK, Steps, Statuses
<1>2. \A x \in Files : RowOK(x)'
  BY DEF Settle, Settled, RetryOrFail, Typed, TypeOK, RowOK, QueueOK, SweepOK
<1>3. \A x \in Files \ Slow : PromptOK(x)'
  BY DEF Settle, Settled, RetryOrFail, Typed, TypeOK, RowOK, PromptOK, QueueOK, SweepOK
<1>4. QueueOK'
  BY DEF Settle, Settled, RetryOrFail, Typed, TypeOK, RowOK, QueueOK
<1>5. SweepOK'
  BY DEF Settle, Settled, RetryOrFail, Typed, TypeOK, RowOK, PromptOK, SweepOK
<1> QED BY <1>1, <1>2, <1>3, <1>4, <1>5

\* The uploads selected are over, if they end within the hour.
LEMMA SweepKeeps ==
  ASSUME IInv, Sweep
  PROVE  IInv'
<1> USE DEF IInv
<1>1. Typed'
  BY DEF Sweep, Abandoned, Idle, Typed, TypeOK, Steps, SweepRecord
<1>2. \A x \in Files : RowOK(x)'
  BY DEF Sweep, Abandoned, Idle, Typed, TypeOK, RowOK, QueueOK, SweepOK, SweepRecord
<1>3. \A x \in Files \ Slow : PromptOK(x)'
  BY DEF Sweep, Abandoned, Idle, Typed, TypeOK, RowOK, PromptOK, QueueOK, SweepOK, SweepRecord
<1>4. QueueOK'
  BY DEF Sweep, Abandoned, Idle, Typed, TypeOK, RowOK, QueueOK
<1>5. SweepOK'
  BY DEF Sweep, Abandoned, Idle, Typed, TypeOK, RowOK, PromptOK, SweepOK, SweepRecord
<1> QED BY <1>1, <1>2, <1>3, <1>4, <1>5

\* The temporary file goes first.
LEMMA SweepTempKeeps ==
  ASSUME IInv, NEW f \in Files, SweepTemp(f)
  PROVE  IInv'
<1> USE DEF IInv
<1>1. Typed'
  BY DEF SweepTemp, Typed, TypeOK, Steps, SweepRecord
<1>2. \A x \in Files : RowOK(x)'
  BY DEF SweepTemp, Typed, TypeOK, RowOK, QueueOK, SweepOK, SweepRecord
<1>3. \A x \in Files \ Slow : PromptOK(x)'
  BY DEF SweepTemp, Typed, TypeOK, RowOK, PromptOK, QueueOK, SweepOK, SweepRecord
<1>4. QueueOK'
  BY DEF SweepTemp, Typed, TypeOK, RowOK, QueueOK
<1>5. SweepOK'
  BY DEF SweepTemp, Typed, TypeOK, RowOK, PromptOK, SweepOK, SweepRecord
<1> QED BY <1>1, <1>2, <1>3, <1>4, <1>5

\* Then the object.
LEMMA SweepObjectKeeps ==
  ASSUME IInv, SweepObject
  PROVE  IInv'
<1> USE DEF IInv
<1>1. Typed'
  BY DEF SweepObject, Typed, TypeOK, Steps, SweepRecord
<1>2. \A x \in Files : RowOK(x)'
  BY DEF SweepObject, Typed, TypeOK, RowOK, QueueOK, SweepOK, SweepRecord
<1>3. \A x \in Files \ Slow : PromptOK(x)'
  BY DEF SweepObject, Typed, TypeOK, RowOK, PromptOK, QueueOK, SweepOK, SweepRecord
<1>4. QueueOK'
  BY DEF SweepObject, Typed, TypeOK, RowOK, QueueOK
<1>5. SweepOK'
  BY DEF SweepObject, Typed, TypeOK, RowOK, PromptOK, SweepOK, SweepRecord
<1> QED BY <1>1, <1>2, <1>3, <1>4, <1>5

\* Then the row, if it is still uploading.
LEMMA SweepRowKeeps ==
  ASSUME IInv, SweepRow
  PROVE  IInv'
<1> USE DEF IInv
<1>0. sweep.file \in Files
  BY DEF SweepRow, SweepOK, Typed, TypeOK
<1>1. Typed'
  <2>1. Deleted \in [state : FileStates, size : 0..Reserved]
    BY DEF Deleted, FileStates
  <2>2. rows' \in [Files -> [state : FileStates, size : 0..Reserved]]
    BY <1>0, <2>1 DEF SweepRow, Typed, TypeOK
  <2>3. sweep' \in SweepRecord
    BY DEF SweepRow, Typed, SweepRecord
  <2> QED BY <2>2, <2>3 DEF SweepRow, Typed, TypeOK, SweepRecord
<1>2. \A x \in Files : RowOK(x)'
  BY <1>0 DEF SweepRow, Deleted, RowOK, Typed, TypeOK
<1>3. \A x \in Files \ Slow : PromptOK(x)'
  BY <1>0 DEF SweepRow, Deleted, PromptOK, SweepOK, Typed, TypeOK
<1>4. QueueOK'
  BY <1>0 DEF SweepRow, Deleted, QueueOK, Typed, TypeOK
<1>5. SweepOK'
  BY <1>0 DEF SweepRow, Deleted, SweepOK, SweepRecord, Typed, TypeOK
<1> QED BY <1>1, <1>2, <1>3, <1>4, <1>5

\* A failed sweep forgets what it had in hand.
LEMMA SweepFailsKeeps ==
  ASSUME IInv, SweepFails
  PROVE  IInv'
<1> USE DEF IInv
<1>1. Typed'
  BY DEF SweepFails, Idle, Typed, TypeOK, Steps, SweepRecord
<1>2. \A x \in Files : RowOK(x)'
  BY DEF SweepFails, Idle, Typed, TypeOK, RowOK, QueueOK, SweepOK, SweepRecord
<1>3. \A x \in Files \ Slow : PromptOK(x)'
  BY DEF SweepFails, Idle, Typed, TypeOK, RowOK, PromptOK, QueueOK, SweepOK, SweepRecord
<1>4. QueueOK'
  BY DEF SweepFails, Idle, Typed, TypeOK, RowOK, QueueOK
<1>5. SweepOK'
  BY DEF SweepFails, Idle, Typed, TypeOK, RowOK, PromptOK, SweepOK, SweepRecord
<1> QED BY <1>1, <1>2, <1>3, <1>4, <1>5

\* Only maintain()'s own position changes.
LEMMA RestKeeps ==
  ASSUME IInv, Rest
  PROVE  IInv'
<1> USE DEF IInv
<1>1. Typed'
  BY DEF Rest, Typed, TypeOK, Steps
<1>2. \A x \in Files : RowOK(x)'
  BY DEF Rest, Typed, TypeOK, RowOK, QueueOK, SweepOK
<1>3. \A x \in Files \ Slow : PromptOK(x)'
  BY DEF Rest, Typed, TypeOK, RowOK, PromptOK, QueueOK, SweepOK
<1>4. QueueOK'
  BY DEF Rest, Typed, TypeOK, RowOK, QueueOK
<1>5. SweepOK'
  BY DEF Rest, Typed, TypeOK, RowOK, PromptOK, SweepOK
<1> QED BY <1>1, <1>2, <1>3, <1>4, <1>5

\* Only uploads that are over, or slow, grow old.
LEMMA AgeKeeps ==
  ASSUME IInv, NEW f \in Files, Age(f)
  PROVE  IInv'
<1> USE DEF IInv
<1>0. UNCHANGED <<queue, rows, disk, uploads, phase, sweep, bounds>>
  BY DEF Age
<1>a. age' \in [Files -> {"fresh", "stale", "old"}]
  <2>1. CASE age' = [age EXCEPT ![f] = "stale"]
    BY <2>1 DEF Typed
  <2>2. CASE age' = [age EXCEPT ![f] = "old"]
    BY <2>2 DEF Typed
  <2> QED BY <2>1, <2>2 DEF Age
<1>1. Typed'
  BY <1>0, <1>a DEF Typed, TypeOK, queue, disk
<1>2. \A x \in Files : RowOK(x)'
  BY DEF Age, Typed, TypeOK, RowOK, QueueOK, SweepOK
<1>3. \A x \in Files \ Slow : PromptOK(x)'
  BY DEF Age, Typed, TypeOK, RowOK, PromptOK, QueueOK, SweepOK
<1>4. QueueOK'
  BY DEF Age, Typed, TypeOK, RowOK, QueueOK
<1>5. SweepOK'
  BY DEF Age, Typed, TypeOK, RowOK, PromptOK, SweepOK
<1> QED BY <1>1, <1>2, <1>3, <1>4, <1>5

\* Jobs become due and leases lapse; no job appears or ends.
LEMMA ClockKeeps ==
  ASSUME IInv, NEW f \in Files, Clock(f)
  PROVE  IInv'
<1> USE DEF IInv
<1>0. PICK s \in {"due", "lapsed"} :
        /\ jobs[f].status \notin {"none", "failed", "completed"}
        /\ s = "due" => jobs[f].status = "waiting"
        /\ s = "lapsed" => jobs[f].status = "running"
        /\ jobs' = [jobs EXCEPT ![f].status = s]
        /\ UNCHANGED <<worker, handler, late, rows, disk, uploads, age, phase, sweep, bounds>>
  BY DEF Clock, Wake, Lapse
<1>a. /\ jobs' \in [Files -> [status : Statuses, attempt : 0..(MaxAttempts + 1)]]
      /\ \A x \in Files : jobs'[x].attempt = jobs[x].attempt
      /\ \A x \in Files : x # f => jobs'[x] = jobs[x]
      /\ jobs'[f].status = s
  BY <1>0 DEF Typed, TypeOK, Statuses
<1>1. Typed'
  BY <1>0, <1>a DEF Typed, TypeOK
<1>2. \A x \in Files : RowOK(x)'
  BY <1>0, <1>a DEF RowOK
<1>3. \A x \in Files \ Slow : PromptOK(x)'
  BY <1>0 DEF PromptOK
<1>4. QueueOK'
  BY <1>0, <1>a DEF QueueOK, Typed, TypeOK
<1>5. SweepOK'
  BY <1>0 DEF SweepOK
<1> QED BY <1>1, <1>2, <1>3, <1>4, <1>5

\* What was in memory goes; rows, jobs and disk stay.
LEMMA CrashKeeps ==
  ASSUME IInv, Crash
  PROVE  IInv'
<1> USE DEF IInv
<1>1. Typed'
  BY DEF Crash, Idle, Typed, TypeOK, Steps, SweepRecord
<1>2. \A x \in Files : RowOK(x)'
  BY DEF Crash, Idle, Typed, TypeOK, RowOK, QueueOK, SweepOK, SweepRecord
<1>3. \A x \in Files \ Slow : PromptOK(x)'
  BY DEF Crash, Idle, Typed, TypeOK, RowOK, PromptOK, QueueOK, SweepOK, SweepRecord
<1>4. QueueOK'
  BY DEF Crash, Idle, Typed, TypeOK, RowOK, QueueOK
<1>5. SweepOK'
  BY DEF Crash, Idle, Typed, TypeOK, RowOK, PromptOK, SweepOK, SweepRecord
<1> QED BY <1>1, <1>2, <1>3, <1>4, <1>5

-----------------------------------------------------------------------------
\* Nothing is there at the start.
LEMMA InitKeeps == Init => IInv
  BY DEF Init, JobsInit, Idle, IInv, Typed, TypeOK, Steps, SweepRecord, Statuses, FileStates,
         RowOK, PromptOK, QueueOK, SweepOK

\* Every step keeps the invariant.
LEMMA NextKeeps == IInv /\ [Next]_vars => IInv'
<1> SUFFICES ASSUME IInv, [Next]_vars PROVE IInv'
  OBVIOUS
<1>1. ASSUME NEW f \in Files, Upload(f) PROVE IInv'
  BY <1>1, OpenKeeps, WrittenKeeps, RenameKeeps, CopyKeeps, DropTempKeeps, RecordKeeps,
     UndoTempKeeps, UndoObjectKeeps DEF Upload
<1>2. CASE Runner
  BY <1>2, MaintainKeeps, ExpireKeeps, ClaimKeeps, RemoveKeeps, MarkKeeps, SettleKeeps,
     SweepKeeps, SweepTempKeeps, SweepObjectKeeps, SweepRowKeeps, RestKeeps DEF Runner
<1>3. CASE UNCHANGED vars
  BY <1>3 DEF vars, IInv, Typed, TypeOK, RowOK, PromptOK, QueueOK, SweepOK
<1>4. ASSUME NEW f \in Files,
             \/ Reserve(f) \/ BreakOff(f) \/ UndoTemp(f, TRUE) \/ UndoObject(f, TRUE)
             \/ Attach(f) \/ LateRemove(f, FALSE) \/ LateRemove(f, TRUE) \/ LateMark(f)
             \/ Age(f) \/ Clock(f)
      PROVE IInv'
  BY <1>4, ReserveKeeps, BreakOffKeeps, UndoTempKeeps, UndoObjectKeeps, AttachKeeps,
     LateRemoveKeeps, LateMarkKeeps, AgeKeeps, ClockKeeps
<1>5. CASE Remove(TRUE) \/ TimeOut \/ SweepFails \/ Crash
  BY <1>5, RemoveKeeps, TimeOutKeeps, SweepFailsKeeps, CrashKeeps
<1> QED BY <1>1, <1>2, <1>3, <1>4, <1>5 DEF Next

\* The strengthened invariant holds in every reachable state.
THEOREM Inductive == Spec => []IInv
  BY InitKeeps, NextKeeps, PTL DEF Spec

\* The variables keep their types, and a handler runs exactly while the runner waits
\* for a job.
THEOREM TypeCorrect == Spec => []TypeOK
<1>1. IInv => TypeOK
  BY DEF IInv, Typed
<1> QED BY <1>1, Inductive, PTL

\* Nothing is on the disk that the quota does not count, for uploads that end within
\* the hour: the bytes go before the row says so.
THEOREM DiskAccount == Spec => []DiskAccounted
<1>1. IInv => DiskAccounted
  <2> SUFFICES ASSUME IInv, NEW f \in (temps \cup objects) \ Slow
               PROVE  rows[f].state \in Counted
    BY DEF DiskAccounted
  <2>1. f \in Files \ Slow /\ rows[f].state \in FileStates
    BY DEF IInv, Typed, TypeOK
  <2>2. rows[f].state \notin {"absent", "deleted"}
    BY <2>1 DEF IInv, RowOK, PromptOK
  <2> QED BY <2>1, <2>2 DEF FileStates
<1> QED BY <1>1, Inductive, PTL

\* A file that may be attached or downloaded is on the disk, whole, if its upload
\* ended within the hour.
THEOREM PromptReady == Spec => []PromptReadyOnDisk
<1>1. IInv => PromptReadyOnDisk
  BY DEF IInv, PromptOK, PromptReadyOnDisk, ReadyOnDisk
<1> QED BY <1>1, Inductive, PTL

\* A condemned file has a job that is not over before the file is.
THEOREM JobsAnswered == Spec => []JobsAnswer
<1>1. IInv => JobsAnswer
  BY DEF IInv, RowOK, JobsAnswer
<1> QED BY <1>1, Inductive, PTL

\* A step leaves the row of f where it is, or moves it along the lifecycle.
Moved(f) ==
  rows'[f].state # rows[f].state => <<rows[f].state, rows'[f].state>> \in Lifecycle!Moves

\* A row's state moves along the lifecycle, whoever writes it.
LEMMA RowsMove ==
  ASSUME IInv, [Next]_vars
  PROVE  \A f \in Files : Moved(f)
<1> USE DEF Moved, Lifecycle!Moves
<1>t. rows \in [Files -> [state : FileStates, size : 0..Reserved]]
  BY DEF IInv, Typed, TypeOK
<1>1. ASSUME NEW f \in Files, Reserve(f) PROVE \A x \in Files : Moved(x)
  BY <1>1, <1>t DEF Reserve
<1>2. ASSUME NEW f \in Files, NEW n \in 1..Reserved, Record(f, n) PROVE \A x \in Files : Moved(x)
  <2>1. CASE rows[f].state = "uploading"
    BY <1>2, <2>1, <1>t DEF Record
  <2>2. CASE rows[f].state # "uploading"
    BY <1>2, <2>2 DEF Record
  <2> QED BY <2>1, <2>2
<1>3. ASSUME NEW f \in Files, Attach(f) PROVE \A x \in Files : Moved(x)
  BY <1>3, <1>t DEF Attach
<1>4. ASSUME Expire PROVE \A x \in Files : Moved(x)
  <2>0. PICK S \in SUBSET {f \in Files : /\ rows[f].state \in {"ready", "attached"}
                                        /\ age[f] = "old"} :
          rows' = [f \in Files |-> IF f \in S THEN [rows[f] EXCEPT !.state = "deleting"]
                                   ELSE rows[f]]
    BY <1>4 DEF Expire
  <2>1. ASSUME NEW x \in S PROVE Moved(x)
    <3>1. /\ x \in Files /\ rows[x].state \in {"ready", "attached"}
          /\ rows[x] \in [state : FileStates, size : 0..Reserved]
      BY <2>1, <1>t
    <3>2. rows'[x] = [rows[x] EXCEPT !.state = "deleting"]
      BY <2>0, <3>1
    <3>3. rows'[x].state = "deleting"
      BY <3>1, <3>2
    <3> QED BY <3>1, <3>3
  <2>2. ASSUME NEW x \in Files \ S PROVE Moved(x)
    BY <2>0
  <2> QED BY <2>1, <2>2
<1>5. ASSUME NEW f \in Files, rows' = Marked(f) PROVE \A x \in Files : Moved(x)
  BY <1>5, <1>t DEF Marked, Deleted
<1>6. ASSUME SweepRow PROVE \A x \in Files : Moved(x)
  <2>1. CASE rows[sweep.file].state = "uploading"
    BY <1>6, <2>1, <1>t DEF SweepRow, Deleted
  <2>2. CASE rows[sweep.file].state # "uploading"
    BY <1>6, <2>2 DEF SweepRow
  <2> QED BY <2>1, <2>2
<1>7. CASE rows' = rows
  BY <1>7
<1>8. ASSUME NEW f \in Files, Upload(f)
      PROVE  (\E n \in 1..Reserved : Record(f, n)) \/ rows' = rows
  BY <1>8 DEF Upload, Open, Written, Rename, Copy, DropTemp, UndoTemp, UndoObject
<1>9. ASSUME Runner
      PROVE  Expire \/ Mark \/ SweepRow \/ rows' = rows
  BY <1>9 DEF Runner, Maintain, Claim, Remove, Settle, Sweep, SweepTemp, SweepObject, Rest
<1>10. ASSUME NEW f \in Files,
              \/ BreakOff(f) \/ UndoTemp(f, TRUE) \/ UndoObject(f, TRUE)
              \/ LateRemove(f, FALSE) \/ LateRemove(f, TRUE) \/ Age(f) \/ Clock(f)
       PROVE rows' = rows
  BY <1>10 DEF BreakOff, UndoTemp, UndoObject, LateRemove, Age, Clock
<1>11. ASSUME Remove(TRUE) \/ TimeOut \/ SweepFails \/ Crash \/ UNCHANGED vars
       PROVE  rows' = rows
  BY <1>11 DEF Remove, TimeOut, SweepFails, Crash, vars
<1>12. ASSUME Mark PROVE \A x \in Files : Moved(x)
  <2>1. worker \in Files /\ rows' = Marked(worker)
    BY <1>12 DEF Mark, IInv, Typed, TypeOK
  <2> QED BY <2>1, <1>5
<1>13. ASSUME NEW f \in Files, LateMark(f) PROVE \A x \in Files : Moved(x)
  BY <1>13, <1>5 DEF LateMark
<1> QED
  BY ONLY [Next]_vars, <1>1, <1>2, <1>3, <1>4, <1>6, <1>7, <1>8, <1>9, <1>10, <1>11, <1>12, <1>13
  DEF Next

\* The files' rows implement the lifecycle: a row's state only moves forward, one step
\* at a time, although uploads, handlers and the sweep write it.
THEOREM Implements == Spec => ImplementsLifecycle
<1>1. Init => Lifecycle!LifecycleInit
  BY DEF Init, Lifecycle!LifecycleInit
<1>2. IInv /\ IInv' /\ [Next]_vars =>
        Lifecycle!LifecycleNext \/ UNCHANGED [f \in Files |-> rows[f].state]
  <2> SUFFICES ASSUME IInv, IInv', [Next]_vars PROVE Lifecycle!LifecycleNext
    OBVIOUS
  <2>1. \A f \in Files : rows'[f].state \in FileStates
    BY DEF IInv, Typed, TypeOK
  <2>2. FileStates = Lifecycle!Phases
    BY DEF FileStates, Counted, Lifecycle!Phases
  <2> QED BY <2>1, <2>2, RowsMove DEF Lifecycle!LifecycleNext, Moved
<1> QED
  BY <1>1, <1>2, Inductive, PTL DEF Spec, ImplementsLifecycle, Lifecycle!LifecycleSpec
-----------------------------------------------------------------------------
(* The quota *)

\* An upload under way holds its whole reservation, and the quota holds.
QuotaOK ==
  /\ \A f \in Files : rows[f].state = "uploading" => rows[f].size = Reserved
  /\ QuotaHeld

\* The units held are finite, since rows and reservations are.
LEMMA UnitsFinite ==
  ASSUME Typed
  PROVE  IsFiniteSet(Units(Counted)) /\ Used \in Nat
<1>1. IsFiniteSet(1..Reserved)
  BY 1 \in Int, Reserved \in Int, FS_Interval
<1>2. IsFiniteSet(Files \X (1..Reserved))
  BY ONLY <1>1, FileAssumption, FS_Product DEF Files
<1>3. Units(Counted) \subseteq Files \X (1..Reserved)
  <2>1. ASSUME NEW f \in Files PROVE {f} \X (1..rows[f].size) \subseteq Files \X (1..Reserved)
    <3>1. rows[f].size \in 0..Reserved
      BY DEF Typed, TypeOK
    <3> QED BY <3>1
  <2> QED BY <2>1 DEF Units
<1>4. IsFiniteSet(Units(Counted))
  BY ONLY <1>2, <1>3, FS_Subset
<1> QED BY ONLY <1>4, FS_CardinalityType DEF Used

\* A step that counts no more of any row counts no more in all.
LEMMA UnitsShrink ==
  ASSUME Typed, QuotaOK, Typed',
         \A f \in Files : rows'[f].state = "uploading" => rows'[f] = rows[f],
         \A f \in Files : rows'[f].state \in Counted =>
           rows[f].state \in Counted /\ rows'[f].size <= rows[f].size
  PROVE  QuotaOK'
<1>1. Units(Counted)' \subseteq Units(Counted)
  <2> SUFFICES ASSUME NEW f \in Files, rows'[f].state \in Counted, NEW n \in 1..rows'[f].size
               PROVE  <<f, n>> \in Units(Counted)
    BY DEF Units
  <2>1. rows[f].size \in 0..Reserved /\ rows'[f].size \in 0..Reserved
    BY DEF Typed, TypeOK
  <2>2. rows[f].state \in Counted /\ n \in 1..rows[f].size
    BY <2>1
  <2> QED BY <2>2 DEF Units
<1>2. Used' <= Used
  BY <1>1, UnitsFinite, FS_Subset DEF Used
<1>3. Used \in Nat /\ Used' \in Nat
  <2>1. IsFiniteSet(Units(Counted)')
    BY <1>1, UnitsFinite, FS_Subset
  <2> QED BY <2>1, UnitsFinite, FS_CardinalityType DEF Used
<1>4. QuotaHeld'
  BY <1>2, <1>3 DEF QuotaOK, QuotaHeld
<1> QED BY <1>4 DEF QuotaOK

\* The intent adds its reservation to what is counted.
LEMMA ReserveRoom ==
  ASSUME Typed, QuotaOK, NEW f \in Files, Reserve(f)
  PROVE  QuotaOK'
<1> DEFINE new == {f} \X (1..Reserved)
<1>0. /\ rows' = [rows EXCEPT ![f] = [state |-> "uploading", size |-> Reserved]]
      /\ rows \in [Files -> [state : FileStates, size : 0..Reserved]]
      /\ Used + Reserved <= Quota
  BY DEF Reserve, Typed, TypeOK
<1>1. Units(Counted)' \subseteq Units(Counted) \cup new
  <2> SUFFICES ASSUME NEW g \in Files, rows'[g].state \in Counted, NEW n \in 1..rows'[g].size
               PROVE  <<g, n>> \in Units(Counted) \cup new
    BY DEF Units
  <2>1. CASE g = f
    BY <1>0, <2>1
  <2>2. CASE g # f
    <3>1. rows'[g] = rows[g]
      BY <1>0, <2>2
    <3> QED BY <3>1 DEF Units
  <2> QED BY <2>1, <2>2
<1>2. IsFiniteSet(new) /\ Cardinality(new) = Reserved
  <2>1. IsFiniteSet(1..Reserved) /\ Cardinality(1..Reserved) = Reserved
    BY 1 \in Int, Reserved \in Int, FS_Interval
  <2>2. IsFiniteSet({f}) /\ Cardinality({f}) = 1
    BY FS_Singleton
  <2>3. IsFiniteSet(new) /\ Cardinality(new) = 1 * Reserved
    BY ONLY <2>1, <2>2, FS_Product
  <2> QED BY <2>3
<1> HIDE DEF new
<1>3. IsFiniteSet(Units(Counted)) /\ Used \in Nat
  BY UnitsFinite
<1>4. /\ IsFiniteSet(Units(Counted) \cup new)
      /\ Cardinality(Units(Counted) \cup new) <= Used + Reserved
  <2>1. IsFiniteSet(Units(Counted) \cap new)
    BY ONLY <1>2, FS_Subset
  <2>2. Cardinality(Units(Counted) \cap new) \in Nat
    BY ONLY <2>1, FS_CardinalityType
  <2>3. /\ IsFiniteSet(Units(Counted) \cup new)
        /\ Cardinality(Units(Counted) \cup new)
             = Cardinality(Units(Counted)) + Cardinality(new) - Cardinality(Units(Counted) \cap new)
    BY ONLY <1>2, <1>3, FS_Union
  <2> QED BY <1>2, <1>3, <2>2, <2>3 DEF Used
<1>5. IsFiniteSet(Units(Counted)') /\ Used' <= Cardinality(Units(Counted) \cup new)
  BY ONLY <1>1, <1>4, FS_Subset DEF Used
<1>6. Used' \in Nat /\ Cardinality(Units(Counted) \cup new) \in Nat
  BY ONLY <1>4, <1>5, FS_CardinalityType DEF Used
<1>7. QuotaHeld'
  BY <1>0, <1>3, <1>4, <1>5, <1>6 DEF QuotaHeld
<1> QED BY <1>0, <1>7 DEF QuotaOK

\* What every step but an intent does to the rows: it leaves a row that is under way as
\* it was, and counts no more of any.
Lighter ==
  \A f \in Files :
    /\ rows'[f].state = "uploading" => rows'[f] = rows[f]
    /\ rows'[f].state \in Counted =>
         rows[f].state \in Counted /\ rows'[f].size <= rows[f].size

\* A step that gives one row less weight is one of these.
LEMMA RowLighter ==
  ASSUME IInv, NEW f \in Files, NEW row,
         rows' = [rows EXCEPT ![f] = row],
         row.state # "uploading",
         row.state \in Counted => rows[f].state \in Counted /\ row.size <= rows[f].size
  PROVE  Lighter
<1>1. rows \in [Files -> [state : FileStates, size : 0..Reserved]]
  BY DEF IInv, Typed, TypeOK
<1>2. \A g \in Files : rows'[g] = IF g = f THEN row ELSE rows[g]
  BY <1>1
<1>3. \A g \in Files : rows[g].size <= rows[g].size
  BY <1>1
<1> QED BY <1>2, <1>3 DEF Lighter

\* A recorded size is within the reservation; every other change of a row keeps its size
\* or gives it back.
LEMMA OthersLighter ==
  ASSUME IInv, QuotaOK, Next, ~ \E f \in Files : Reserve(f)
  PROVE  Lighter
<1> DEFINE Row == [state : FileStates, size : 0..Reserved]
<1>0. rows \in [Files -> Row] /\ worker \in Files \cup {Null} /\ sweep.file \in Files \cup {Null}
  BY DEF IInv, Typed, TypeOK
<1>1. CASE UNCHANGED rows
  BY <1>0, <1>1 DEF Lighter
<1>2. ASSUME NEW f \in Files, NEW n \in 1..Reserved, Record(f, n), rows' # rows PROVE Lighter
  <2>1. /\ rows' = [rows EXCEPT ![f] = [state |-> "ready", size |-> n]]
        /\ rows[f].state = "uploading"
    BY <1>2 DEF Record
  <2>2. rows[f].size = Reserved
    BY <2>1 DEF QuotaOK
  <2> DEFINE row == [state |-> "ready", size |-> n]
  <2>3. row.state = "ready" /\ row.size <= rows[f].size /\ rows[f].state \in Counted
    BY <2>1, <2>2 DEF Counted
  <2>4. rows' = [rows EXCEPT ![f] = row]
    BY <2>1
  <2> HIDE DEF row
  <2> QED BY <2>3, <2>4, RowLighter
<1>3. ASSUME NEW f \in Files, Attach(f) PROVE Lighter
  <2>1. rows' = [rows EXCEPT ![f] = [rows[f] EXCEPT !.state = "attached"]]
    BY <1>0, <1>3 DEF Attach
  <2>2. rows[f].size <= rows[f].size /\ rows[f].state \in Counted
    BY <1>0, <1>3 DEF Attach, Counted
  <2>3. [rows[f] EXCEPT !.state = "attached"].state = "attached"
    /\  [rows[f] EXCEPT !.state = "attached"].size = rows[f].size
    BY <1>0
  <2> QED BY <2>1, <2>2, <2>3, RowLighter DEF Counted
<1>4. CASE Expire
  <2>1. PICK S \in SUBSET {f \in Files : rows[f].state \in {"ready", "attached"} /\ age[f] = "old"} :
          rows' = [f \in Files |-> IF f \in S THEN [rows[f] EXCEPT !.state = "deleting"]
                                   ELSE rows[f]]
    BY <1>4 DEF Expire
  <2> SUFFICES ASSUME NEW f \in Files
               PROVE  /\ rows'[f].state = "uploading" => rows'[f] = rows[f]
                      /\ rows'[f].state \in Counted =>
                           rows[f].state \in Counted /\ rows'[f].size <= rows[f].size
    BY DEF Lighter
  <2>2. CASE f \in S
    BY <1>0, <2>1, <2>2 DEF Counted
  <2>3. CASE f \notin S
    BY <1>0, <2>1, <2>3
  <2> QED BY <2>2, <2>3
<1>5. ASSUME NEW f \in Files, rows' = [rows EXCEPT ![f] = Deleted] PROVE Lighter
  <2>1. Deleted.state \notin Counted /\ Deleted.state # "uploading"
    BY DEF Deleted, Counted
  <2> QED BY <1>5, <2>1, RowLighter
<1>6. ASSUME Mark PROVE Lighter
  <2>1. worker \in Files
    BY <1>0, <1>6 DEF IInv, Typed, TypeOK, Mark
  <2> QED BY <1>1, <1>5, <1>6, <2>1 DEF Mark, Marked
<1>7. ASSUME NEW f \in Files, LateMark(f) PROVE Lighter
  BY <1>1, <1>5, <1>7 DEF LateMark, Marked
<1>8. ASSUME SweepRow PROVE Lighter
  <2>1. sweep.file \in Files
    BY <1>0, <1>8 DEF IInv, SweepOK, SweepRow
  <2> QED BY <1>1, <1>5, <1>8, <2>1 DEF SweepRow
<1>9. ASSUME NEW f \in Files, Upload(f) PROVE Lighter
  BY <1>1, <1>2, <1>9 DEF Upload, Open, Written, Rename, Copy, DropTemp, UndoTemp, UndoObject
<1>10. CASE Runner
  BY <1>1, <1>4, <1>6, <1>8, <1>10
     DEF Runner, Maintain, Claim, Remove, Settle, Sweep, SweepTemp, SweepObject, Rest
<1>11. ASSUME NEW f \in Files,
              \/ BreakOff(f) \/ UndoTemp(f, TRUE) \/ UndoObject(f, TRUE)
              \/ LateRemove(f, FALSE) \/ LateRemove(f, TRUE) \/ Age(f) \/ Clock(f)
       PROVE  Lighter
  BY <1>1, <1>11 DEF BreakOff, UndoTemp, UndoObject, LateRemove, Age, Clock
<1>12. CASE Remove(TRUE) \/ TimeOut \/ SweepFails \/ Crash
  BY <1>1, <1>12 DEF Remove, TimeOut, SweepFails, Crash
<1> QED BY <1>3, <1>7, <1>9, <1>10, <1>11, <1>12 DEF Next

\* The quota holds however uploads, failures, deletions and crashes overlap: an intent
\* counts before its bytes arrive, and a condemned file until its bytes are gone.
THEOREM QuotaKept == Spec => []QuotaHeld
<1>1. Init => QuotaOK
  <2> SUFFICES ASSUME Init PROVE QuotaOK
    OBVIOUS
  <2>1. \A f \in Files : rows[f].state = "absent"
    BY DEF Init
  <2>2. Units(Counted) = {}
    BY <2>1 DEF Units, Counted
  <2>3. Used = 0
    BY <2>2, FS_EmptySet DEF Used
  <2> QED BY <2>1, <2>3 DEF QuotaOK, QuotaHeld
<1>2. IInv /\ IInv' /\ QuotaOK /\ [Next]_vars => QuotaOK'
  <2> SUFFICES ASSUME IInv, IInv', QuotaOK, [Next]_vars PROVE QuotaOK'
    OBVIOUS
  <2>0. Typed /\ Typed'
    BY DEF IInv
  <2>1. CASE \E f \in Files : Reserve(f)
    BY <2>0, <2>1, ReserveRoom
  <2>2. CASE Next /\ ~ \E f \in Files : Reserve(f)
    BY <2>0, <2>2, OthersLighter, UnitsShrink DEF Lighter
  <2>3. CASE UNCHANGED vars
    BY <2>3 DEF vars, QuotaOK, QuotaHeld, Used, Units
  <2> QED BY <2>1, <2>2, <2>3
<1>3. QuotaOK => QuotaHeld
  BY DEF QuotaOK
<1> QED BY <1>1, <1>2, <1>3, Inductive, PTL DEF Spec
=============================================================================
