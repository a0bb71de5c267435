------------------------------ MODULE JobStore ------------------------------
(***************************************************************************)
(* platform/jobs: the table of persistent jobs and the one runner that     *)
(* claims them under a lease, hands them to their handler, and completes,  *)
(* retries or fails them. What a handler does is the composing module's.   *)
(*                                                                         *)
(* Instants are abstracted to what the statements compare with the clock:  *)
(* a pending job's next_run_at has come ("due") or not ("waiting"), and a  *)
(* running job's lease holds ("running") or is over ("lapsed").            *)
(***************************************************************************)
EXTENDS Naturals

CONSTANTS
  Jobs,          \* the jobs that may be enqueued, by their deduplication key
  MaxAttempts,   \* claims after which a job is given up (10)
  Null

ASSUME JobAssumption == MaxAttempts \in Nat \ {0} /\ Null \notin Jobs

VARIABLES
  jobs,          \* platform_jobs: [status, attempt]
  worker         \* the job runBatch() waits for, or Null

Statuses == {"none", "waiting", "due", "running", "lapsed", "completed", "failed"}

JobsInit ==
  /\ jobs = [j \in Jobs |-> [status |-> "none", attempt |-> 0]]
  /\ worker = Null

\* enqueue(), in the transaction of its caller: a key that has a job keeps it.
Enqueued(S) ==
  [j \in Jobs |->
     IF j \in S /\ jobs[j].status = "none" THEN [status |-> "due", attempt |-> 0]
     ELSE jobs[j]]

\* Seeded bug: a job whose process died is not taken over.
ClaimableOnce == {j \in Jobs : jobs[j].status = "due"}

Claimable == {j \in Jobs : jobs[j].status \in {"due", "lapsed"}}

\* Seeded bug: attempts are not counted against the maximum.
ClaimedAgain(j) == [status |-> "running", attempt |-> jobs[j].attempt + 1]

\* claim() of the job j: the last attempt may have died with its process.
Claimed(j) ==
  [status |-> IF jobs[j].attempt + 1 > MaxAttempts THEN "failed" ELSE "running",
   attempt |-> jobs[j].attempt + 1]

\* complete(), retry(), fail(): without the lease they change nothing.
Settled(status) ==
  IF jobs[worker].status = "running" THEN [jobs EXCEPT ![worker].status = status]
  ELSE jobs

\* A handler that failed, timed out or asked to run again.
RetryOrFail ==
  Settled(IF jobs[worker].attempt >= MaxAttempts THEN "failed" ELSE "waiting")

\* next_run_at comes.
Wake(j) ==
  /\ jobs[j].status = "waiting"
  /\ jobs' = [jobs EXCEPT ![j].status = "due"]
  /\ UNCHANGED worker

\* lease_until passes: the process that held it is gone, or was stalled longer than
\* the handler's timeout.
Lapse(j) ==
  /\ jobs[j].status = "running"
  /\ jobs' = [jobs EXCEPT ![j].status = "lapsed"]
  /\ UNCHANGED worker
=============================================================================
