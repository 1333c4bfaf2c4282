---------------------------- MODULE ImportBatch ----------------------------
(***************************************************************************)
(* One import batch (modules/importer) and the Celery runs that work on it *)
(* (tasks/import_tasks.py).  A batch is created as "processing" by an       *)
(* upload or by a crawler result, and its message is sent after the commit. *)
(* A run takes the session advisory lock of the batch or gives its message  *)
(* up, looks at the status, works row by row - one transaction per row -    *)
(* and writes counts and the final status, by id only.  Messages are        *)
(* acknowledged when they are taken: a run that dies (hard time limit, lost *)
(* worker) takes its message with it, and its database session drops the    *)
(* lock.                                                                    *)
(***************************************************************************)
EXTENDS Integers, FiniteSets

CONSTANTS
    Row,        \* the rows of the file
    Run,        \* Celery worker processes
    NoRun,      \* nobody holds the advisory lock
    MaxRetries, \* retry_count < 3 in claim_for_retry
    Crawled,    \* TRUE: the batch comes from a crawler result; FALSE: an
                \* upload by hand, which no crawler task ever names
    MaxFaults   \* bound: runs that die, messages that cannot be sent

ASSUME RowAssumption == IsFiniteSet(Row) /\ Row # {}
ASSUME RunAssumption == NoRun \notin Run
ASSUME BoundAssumption == MaxRetries \in Nat /\ MaxFaults \in Nat /\ Crawled \in BOOLEAN

VARIABLES
    batch,  \* the import_batch row
    job,    \* import_job rows, by row number
    queue,  \* messages waiting: "full", "only" (only_failed)
    run,    \* the runs
    lock,   \* holder of the advisory lock
    linked, \* some successful crawler_task names this batch
    faults

vars == <<batch, job, queue, run, lock, linked, faults>>

-----------------------------------------------------------------------------

Message == {"full", "only"}
Final == {"completed", "partial", "failed"}

Batch == [status : {"none", "processing"} \cup Final, total : Nat, failed : Nat, retries : Nat]

(* success, filled, skipped and conflict are one: rows that did not fail. *)
Job == {"none", "ok", "failed"}

(* pc "claimed": holds the lock and saw "processing"; "rows": todo is left;
   "leaving": still holds the lock.  ok and bad count this run's rows. *)
RunState == [pc : {"idle", "claimed", "rows", "leaving"}, only : BOOLEAN,
             todo : SUBSET Row, ok : Nat, bad : Nat]

TypeOK ==
    /\ batch \in Batch /\ batch.retries <= MaxRetries
    /\ job \in [Row -> Job]
    /\ queue \subseteq Message
    /\ run \in [Run -> RunState]
    /\ lock \in Run \cup {NoRun}
    /\ linked \in BOOLEAN
    /\ faults \in 0..MaxFaults

IdleRun == [pc |-> "idle", only |-> FALSE, todo |-> {}, ok |-> 0, bad |-> 0]

Init ==
    /\ batch = [status |-> "none", total |-> 0, failed |-> 0, retries |-> 0]
    /\ job = [n \in Row |-> "none"]
    /\ queue = {}
    /\ run = [r \in Run |-> IdleRun]
    /\ lock = NoRun
    /\ linked = FALSE
    /\ faults = 0

Fault == faults < MaxFaults /\ faults' = faults + 1

(* delay or apply_async after the commit: the broker takes the message, or
   the call fails and nothing is queued. *)
Enqueue(m) ==
    \/ queue' = queue \cup {m} /\ UNCHANGED faults
    \/ Fault /\ UNCHANGED queue

-----------------------------------------------------------------------------
(* Requests *)

(* upload and upload_for_crawler: UNIQUE(tenant, source, hash) lets one INSERT
   through, ever. *)
Upload ==
    /\ batch.status = "none"
    /\ batch' = [batch EXCEPT !.status = "processing"]
    /\ linked' = Crawled
    /\ Enqueue("full")
    /\ UNCHANGED <<job, run, lock>>

(* upload_for_crawler on a hash that exists: the task is linked to the batch,
   and a failed batch is claimed again without touching retry_count. *)
Reuse ==
    /\ Crawled
    /\ batch.status \in Final
    /\ linked' = TRUE
    /\ \/ /\ batch.status = "failed"
          /\ batch' = [batch EXCEPT !.status = "processing"]
          /\ Enqueue("full")
       \/ /\ batch.status # "failed"
          /\ UNCHANGED <<batch, queue, faults>>
    /\ UNCHANGED <<job, run, lock>>

(* retry: the atomic claim, then only the failed rows, if any were counted. *)
Retry ==
    /\ batch.status \in {"partial", "failed"}
    /\ batch.retries < MaxRetries
    /\ batch' = [batch EXCEPT !.status = "processing", !.retries = @ + 1]
    /\ Enqueue(IF batch.failed > 0 THEN "only" ELSE "full")
    /\ UNCHANGED <<job, run, lock, linked>>

(* Mutant: looks for the batches that need no help. *)
RecoverFailed ==
    /\ linked /\ batch.status = "failed"
    /\ "full" \notin queue
    /\ Enqueue("full")
    /\ UNCHANGED <<batch, job, run, lock, linked>>

(* recover_stalled_crawler_imports: updated_at is 35 minutes old, which says
   when the batch was created, claimed or recovered, not whether it runs. *)
Recover ==
    /\ linked /\ batch.status = "processing"
    /\ "full" \notin queue
    /\ Enqueue("full")
    /\ UNCHANGED <<batch, job, run, lock, linked>>

-----------------------------------------------------------------------------
(* Runs *)

(* Mutant: no lock. *)
AcquiresAlways(r) == TRUE

(* pg_try_advisory_lock *)
Acquires(r) == lock = NoRun

(* _run_import_batch_claimed: only "processing" may run. *)
MayRun(r) == batch.status = "processing"

(* A message is taken; without the lock it is dropped ("already_running"). *)
Take(r) ==
    /\ run[r].pc = "idle"
    /\ \E m \in queue :
          /\ queue' = queue \ {m}
          /\ IF Acquires(r)
             THEN /\ lock' = r
                  /\ run' = [run EXCEPT ![r] = [IdleRun EXCEPT
                               !.pc = IF MayRun(r) THEN "claimed" ELSE "leaving",
                               !.only = (m = "only")]]
             ELSE UNCHANGED <<lock, run>>
    /\ UNCHANGED <<batch, job, linked, faults>>

FailedRows == {n \in Row : job[n] = "failed"}

(* The file, or the failed rows of import_job. *)
Load(r) ==
    /\ run[r].pc = "claimed"
    /\ run' = [run EXCEPT ![r].pc = "rows",
                          ![r].todo = IF run[r].only THEN FailedRows ELSE Row]
    /\ UNCHANGED <<batch, job, queue, lock, linked, faults>>

(* _mark_batch_failed: no adapter, no file, nothing to parse, too many rows. *)
MarkFailed(r) ==
    /\ run[r].pc = "claimed"
    /\ batch' = [batch EXCEPT !.status = "failed"]
    /\ run' = [run EXCEPT ![r].pc = "leaving"]
    /\ UNCHANGED <<job, queue, lock, linked, faults>>

(* _process_one_row: the row and its job in one transaction, or the job alone
   as failed; counted in memory. *)
ProcessRow(r) ==
    /\ run[r].pc = "rows"
    /\ \E n \in run[r].todo, result \in {"ok", "failed"} :
          /\ job' = [job EXCEPT ![n] = result]
          /\ run' = [run EXCEPT ![r].todo = @ \ {n},
                                ![r].ok = IF result = "ok" THEN @ + 1 ELSE @,
                                ![r].bad = IF result = "failed" THEN @ + 1 ELSE @]
    /\ UNCHANGED <<batch, queue, lock, linked, faults>>

Attempted == {n \in Row : job[n] # "none"}

(* Mutants: no recount; a run stops at its first failed row. *)
TallyOfRun(r) == [total |-> run[r].ok + run[r].bad, failed |-> run[r].bad]
RowsDoneOrFailed(r) == run[r].pc = "rows" /\ (run[r].todo = {} \/ run[r].bad > 0)

RowsDone(r) == run[r].pc = "rows" /\ run[r].todo = {}

(* The counts written: this run's, or a recount of import_job (only_failed). *)
Tally(r) ==
    IF run[r].only
    THEN [total |-> Cardinality(Attempted), failed |-> Cardinality(FailedRows)]
    ELSE [total |-> run[r].ok + run[r].bad, failed |-> run[r].bad]

Verdict(t) ==
    IF t.failed = 0 /\ t.total > 0 THEN "completed"
    ELSE IF t.failed = t.total THEN "failed" ELSE "partial"

(* _summarize_batch *)
Summarize(r) ==
    /\ RowsDone(r)
    /\ batch' = [batch EXCEPT !.status = Verdict(Tally(r)),
                              !.total = Tally(r).total, !.failed = Tally(r).failed]
    /\ run' = [run EXCEPT ![r].pc = "leaving"]
    /\ UNCHANGED <<job, queue, lock, linked, faults>>

Ends(r) ==
    /\ run' = [run EXCEPT ![r] = IdleRun]
    /\ lock' = IF lock = r THEN NoRun ELSE lock

Unlock(r) ==
    /\ run[r].pc = "leaving"
    /\ Ends(r)
    /\ UNCHANGED <<batch, job, queue, linked, faults>>

(* task_time_limit, a killed or redeployed worker, a database error outside
   the guarded parts. *)
Die(r) ==
    /\ run[r].pc # "idle"
    /\ Fault
    /\ Ends(r)
    /\ UNCHANGED <<batch, job, queue, linked>>

-----------------------------------------------------------------------------

RunStep(r) == \/ Take(r) \/ Load(r) \/ MarkFailed(r)
              \/ ProcessRow(r) \/ Summarize(r) \/ Unlock(r)

Next ==
    \/ Upload \/ Reuse \/ Retry \/ Recover
    \/ \E r \in Run : RunStep(r) \/ Die(r)

Spec == Init /\ [][Next]_vars

(* Workers keep working, beat keeps calling the recovery every 15 minutes. *)
FairSpec == Spec /\ WF_vars(Recover) /\ \A r \in Run : WF_vars(RunStep(r))

-----------------------------------------------------------------------------
(* Properties *)

(* "completed" is what the user goes by: every row of the file is in, whatever
   retries, recoveries and dead runs there were. *)
CompletedIsImported == batch.status = "completed" => \A n \in Row : job[n] = "ok"

(* _summarize_batch: the counts shown with a result are those of import_job,
   although a full run counts in memory and runs die half way. *)
CountsMatchJobs ==
    batch.status \in {"completed", "partial"} =>
       batch.total = Cardinality(Row) /\ batch.failed = Cardinality(FailedRows)

(* retry sends only the failed rows when a failed row was counted: then there
   is no row that was never tried. *)
RetryMissesNoRow == batch.failed > 0 => Attempted = Row

(* The final UPDATEs name the batch by id only: no late run reopens or spoils
   a completed batch. *)
CompletedIsFinal == [][batch.status = "completed" => batch' = batch]_vars

(* A batch somebody waits for gets its result.  For a crawler batch the
   recovery task sees to it. *)
ProcessingEnds == batch.status = "processing" ~> batch.status \in Final

=============================================================================
