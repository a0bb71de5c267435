---------------------------- MODULE BackupStore ----------------------------
(***************************************************************************)
(* The backup directory of apps/server/src/platform/operations: a run      *)
(* publishes a new backup with one rename, verifies every published one,   *)
(* and removes the oldest beyond the limits. Whatever fails after the      *)
(* rename takes the new backup back. What fails before it leaves a         *)
(* '.partial' directory nobody reads, and is not an action here.           *)
(***************************************************************************)
EXTENDS Integers, Sequences, FiniteSets, FiniteSetsExt

CONSTANTS
  MaxVersion,   \* migrations the newest program has
  MaxBackups,   \* bound: backups published
  Keep,         \* keepCount
  Limit,        \* limitBytes
  Sizes,        \* bytes a backup may have
  MaxFaults,    \* bound: file operations that fail and processes that die
  Null

ASSUME BackupAssumption ==
  /\ MaxVersion \in Nat \ {0} /\ MaxBackups \in Nat /\ MaxFaults \in Nat
  /\ Keep \in Nat \ {0} /\ Limit \in Nat \ {0}
  /\ Sizes \subseteq Nat \ {0}
  /\ Null \notin [step : {"checking", "pruning", "undoing"}, kept : SUBSET Nat]

VARIABLES
  program,   \* version of the installed program: the migrations it knows
  backups,   \* published backups, oldest first; one that went leaves its place
  task,      \* the run under way, or Null
  faults     \* faults so far

backupVars == <<backups, task>>
Versions == 1..MaxVersion

New == Len(backups)
Shelf == {i \in DOMAIN backups : backups[i].state # "gone"}

\* verifyOfflineBackupLocked: complete, unaltered, and of exactly this program's
\* schema (validateDatabase compares the whole migration history).
Verified(b) == b.state = "whole" /\ b.db.schema = program

Becomes(i, s) == backups' = [backups EXCEPT ![i].state = s]
Fault == faults < MaxFaults /\ faults' = faults + 1
NoFault == UNCHANGED faults
-----------------------------------------------------------------------------
Publish(db, size) ==
  /\ task = Null /\ New < MaxBackups
  /\ db.schema = program /\ size <= Limit
  /\ backups' = Append(backups,
       [db |-> db, size |-> size, state |-> "whole", done |-> FALSE])
  /\ task' = [step |-> "checking", kept |-> {}]
  /\ NoFault

\* One that does not verify, an old one too, fails the run.
CheckAll ==
  /\ task # Null /\ task.step = "checking"
  /\ task' = IF \A i \in Shelf : Verified(backups[i])
             THEN [step |-> "pruning", kept |-> Shelf]
             ELSE [step |-> "undoing", kept |-> {}]
  /\ UNCHANGED backups /\ NoFault

Over(S) ==
  Cardinality(S) > Keep \/ MapThenSumSet(LAMBDA i : backups[i].size, S) > Limit

\* The oldest other one; there is one, for the new backup alone is within limits.
Victim(S) == Min(S \ {New})

Pruning == task # Null /\ task.step = "pruning" /\ Over(task.kept)

Prune ==
  /\ Pruning
  /\ LET old == Victim(task.kept)
     IN \/ /\ Becomes(old, "gone")
           /\ task' = [task EXCEPT !.kept = @ \ {old}]
           /\ NoFault
        \/ /\ \E s \in {"whole", "torn"} : Becomes(old, s)
           /\ task' = [step |-> "undoing", kept |-> {}]
           /\ Fault

Finish ==
  /\ task # Null /\ task.step = "pruning" /\ ~Over(task.kept)
  /\ backups' = [backups EXCEPT ![New].done = TRUE]
  /\ task' = Null
  /\ NoFault

\* The catch block; what its rm cannot do is ignored.
Undo ==
  /\ task # Null /\ task.step = "undoing"
  /\ \/ Becomes(New, "gone") /\ NoFault
     \/ (\E s \in {"whole", "torn"} : Becomes(New, s)) /\ Fault
  /\ task' = Null

\* The process dies: a directory being removed may be left in part.
BackupDies ==
  /\ task # Null
  /\ \/ UNCHANGED backups
     \/ Pruning /\ Becomes(Victim(task.kept), "torn")
     \/ task.step = "undoing" /\ Becomes(New, "torn")
  /\ task' = Null
  /\ Fault

BackupStep == CheckAll \/ Prune \/ Finish \/ Undo \/ BackupDies

BackupInit ==
  /\ backups = <<>> /\ task = Null /\ faults = 0
-----------------------------------------------------------------------------
(* Properties *)

BackupTypeOK(Dbs) ==
  /\ backups \in Seq([db : Dbs, size : Sizes, state : {"whole", "torn", "gone"},
                      done : BOOLEAN])
  /\ task \in {Null} \cup
       [step : {"checking", "pruning", "undoing"}, kept : SUBSET (DOMAIN backups)]
  /\ faults \in 0..MaxFaults

\* What the feature list promises: once a backup succeeded, a good one remains
\* through size limits, interruptions and failed verification (the removal loop and
\* the catch block of createOfflineBackupLocked).
LastGoodKept ==
  (\E i \in DOMAIN backups : backups[i].done) =>
     \E i \in DOMAIN backups : backups[i].state = "whole"
=============================================================================
