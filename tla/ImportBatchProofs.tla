------------------------- MODULE ImportBatchProofs -------------------------
(***************************************************************************)
(* The safety of an import batch, for any file, any workers, any number of  *)
(* retries and faults.  The argument: the advisory lock lets one run in,    *)
(* and while it works the batch says "processing", so no count and no       *)
(* verdict is written by anybody else; the run's own counts are those of    *)
(* the rows it has been through.                                            *)
(***************************************************************************)
EXTENDS ImportBatchContract, ImportConflicts, FiniteSetTheorems, TLAPS

-----------------------------------------------------------------------------
(* The inductive invariant *)

(* The run that is not idle holds the lock, and the batch is "processing"
   until it leaves. *)
LockInv ==
    \A r \in Run :
        /\ run[r].pc # "idle" <=> lock = r
        /\ run[r].pc \in {"claimed", "rows"} => batch.status = "processing"

(* The rows a run has been through. *)
Done(r) == Row \ run[r].todo

(* The counts of a run over the whole file. *)
FullInv ==
    \A r \in Run : run[r].pc = "rows" /\ ~run[r].only =>
        /\ Done(r) \subseteq Attempted
        /\ run[r].ok + run[r].bad = Cardinality(Done(r))
        /\ run[r].bad = Cardinality(Done(r) \cap FailedRows)

(* A run counts from zero. *)
ClaimInv == \A r \in Run : run[r].pc = "claimed" => run[r].ok = 0 /\ run[r].bad = 0

(* Only-failed runs are asked for when every row has been tried. *)
OnlyInv ==
    /\ batch.failed > 0 => Attempted = Row
    /\ "only" \in queue => Attempted = Row
    /\ \A r \in Run : run[r].pc # "idle" /\ run[r].only => Attempted = Row

IInv ==
    /\ TypeOK /\ LockInv /\ ClaimInv /\ FullInv /\ OnlyInv
    /\ CompletedIsImported /\ CountsMatchJobs

-----------------------------------------------------------------------------

LEMMA RowsAreFinite ==
    ASSUME NEW S \in SUBSET Row
    PROVE  IsFiniteSet(S) /\ Cardinality(S) \in Nat
BY RowAssumption, FS_Subset, FS_CardinalityType

LEMMA InitInv == Init => IInv
<1> SUFFICES ASSUME Init PROVE IInv
  OBVIOUS
<1>1. TypeOK
  <2>1. IdleRun \in RunState
    BY DEF IdleRun, RunState
  <2>2. batch \in Batch /\ batch.retries <= MaxRetries /\ faults \in 0..MaxFaults
    BY BoundAssumption DEF Init, Batch
  <2>3. QED
    BY <2>1, <2>2 DEF Init, TypeOK, Job
<1>2. LockInv
  BY RunAssumption DEF Init, LockInv, IdleRun
<1>3. ClaimInv /\ FullInv /\ OnlyInv /\ CompletedIsImported /\ CountsMatchJobs
  BY DEF Init, ClaimInv, FullInv, OnlyInv, IdleRun, CompletedIsImported, CountsMatchJobs
<1>4. QED
  BY <1>1, <1>2, <1>3 DEF IInv

LEMMA Enqueued ==
    ASSUME IInv, NEW m \in Message, Enqueue(m)
    PROVE  queue' \in {queue, queue \cup {m}} /\ faults' \in 0..MaxFaults
BY BoundAssumption DEF IInv, TypeOK, Enqueue, Fault

(* A request leaves the rows and the runs alone; it may open the batch again. *)
LEMMA RequestStep ==
    ASSUME IInv, Upload \/ Reuse \/ Retry \/ Recover
    PROVE  IInv'
<1>1. UNCHANGED <<job, run, lock>>
  BY DEF Upload, Reuse, Retry, Recover
<1>2. /\ batch' \in Batch /\ batch'.retries <= MaxRetries /\ batch'.failed = batch.failed
      /\ batch' = batch \/ batch'.status = "processing"
  <2>1. CASE Retry
    <3>1. batch.retries + 1 <= MaxRetries /\ batch.retries + 1 \in Nat
      BY <2>1, BoundAssumption DEF Retry, IInv, TypeOK, Batch
    <3>2. QED
      BY <2>1, <3>1 DEF Retry, IInv, TypeOK, Batch
  <2>2. CASE Upload \/ Reuse \/ Recover
    BY <2>2 DEF Upload, Reuse, Recover, IInv, TypeOK, Batch
  <2>3. QED
    BY <2>1, <2>2
<1>3. /\ queue' \in {queue, queue \cup {"full"}, queue \cup {"only"}}
      /\ "only" \in queue' => "only" \in queue \/ batch.failed > 0
      /\ faults' \in 0..MaxFaults
  <2>1. CASE Upload \/ Reuse \/ Recover
    <3>1. Enqueue("full") \/ UNCHANGED <<queue, faults>>
      BY <2>1 DEF Upload, Reuse, Recover
    <3>2. QED
      BY <3>1, Enqueued DEF Message, IInv, TypeOK
  <2>2. CASE Retry
    <3>1. CASE batch.failed > 0
      BY <2>2, <3>1, Enqueued DEF Retry, Message
    <3>2. CASE ~(batch.failed > 0)
      BY <2>2, <3>2, Enqueued DEF Retry, Message
    <3>3. QED
      BY <3>1, <3>2
  <2>3. QED
    BY <2>1, <2>2
<1>4. linked' \in BOOLEAN
  BY BoundAssumption DEF Upload, Reuse, Retry, Recover, IInv, TypeOK
<1>5. TypeOK'
  BY <1>1, <1>2, <1>3, <1>4 DEF IInv, TypeOK, Message
<1>6. LockInv' /\ ClaimInv' /\ FullInv'
  BY <1>1, <1>2 DEF IInv, LockInv, ClaimInv, FullInv, Done, Attempted, FailedRows
<1>7. OnlyInv'
  BY <1>1, <1>2, <1>3 DEF IInv, OnlyInv, Attempted
<1>8. CompletedIsImported' /\ CountsMatchJobs'
  BY <1>1, <1>2 DEF IInv, CompletedIsImported, CountsMatchJobs, FailedRows
<1>9. QED
  BY <1>5, <1>6, <1>7, <1>8 DEF IInv

(* The lock lets one run work. *)
LEMMA OneRun ==
    ASSUME IInv, NEW r \in Run, NEW s \in Run, run[r].pc # "idle", run[s].pc # "idle"
    PROVE  r = s
BY DEF IInv, LockInv

LEMMA TakeStep == ASSUME IInv, NEW r \in Run, Take(r) PROVE IInv'
<1>1. PICK m \in queue :
          /\ queue' = queue \ {m}
          /\ \/ /\ lock = NoRun /\ lock' = r
                /\ \E pc \in {"claimed", "leaving"} :
                      /\ pc = "claimed" => batch.status = "processing"
                      /\ run' = [run EXCEPT ![r] =
                                   [IdleRun EXCEPT !.pc = pc, !.only = (m = "only")]]
             \/ UNCHANGED <<lock, run>>
  BY DEF Take, Acquires, MayRun
<1>2. UNCHANGED <<batch, job, linked, faults>>
  BY DEF Take
<1>3. CASE UNCHANGED <<lock, run>>
  <2>1. TypeOK' /\ LockInv' /\ ClaimInv' /\ FullInv' /\ OnlyInv'
    BY <1>1, <1>2, <1>3 DEF IInv, TypeOK, LockInv, ClaimInv, FullInv, OnlyInv, Done, Attempted, FailedRows
  <2>2. CompletedIsImported' /\ CountsMatchJobs'
    BY <1>2 DEF IInv, CompletedIsImported, CountsMatchJobs, FailedRows
  <2>3. QED
    BY <2>1, <2>2 DEF IInv
<1>4. CASE lock = NoRun /\ lock' = r /\ ~ UNCHANGED <<lock, run>>
  <2>1. PICK pc \in {"claimed", "leaving"} :
           /\ pc = "claimed" => batch.status = "processing"
           /\ run' = [run EXCEPT ![r] = [IdleRun EXCEPT !.pc = pc, !.only = (m = "only")]]
    BY <1>1, <1>4
  <2> DEFINE x == [IdleRun EXCEPT !.pc = pc, !.only = (m = "only")]
  <2>2. x \in RunState /\ x.pc = pc /\ (x.only <=> m = "only") /\ x.ok = 0 /\ x.bad = 0
    BY DEF IdleRun, RunState
  <2>3. run'[r] = x /\ \A s \in Run \ {r} : run'[s] = run[s]
    BY <2>1 DEF IInv, TypeOK
  <2>4. TypeOK'
    BY <1>1, <1>2, <1>4, <2>1, <2>2 DEF IInv, TypeOK
  <2>5. \A s \in Run : run[s].pc = "idle"
    BY <1>4, RunAssumption DEF IInv, LockInv
  <2> HIDE DEF x
  <2>6. LockInv'
    BY <1>2, <1>4, <2>1, <2>2, <2>3, <2>5 DEF IInv, LockInv
  <2>7. ClaimInv' /\ FullInv'
    BY <2>2, <2>3, <2>5 DEF ClaimInv, FullInv
  <2>8. OnlyInv'
    BY <1>1, <1>2, <2>2, <2>3, <2>5 DEF IInv, OnlyInv, Attempted
  <2>9. CompletedIsImported' /\ CountsMatchJobs'
    BY <1>2 DEF IInv, CompletedIsImported, CountsMatchJobs, FailedRows
  <2>10. QED
    BY <2>4, <2>6, <2>7, <2>8, <2>9 DEF IInv
<1>5. QED
  BY <1>1, <1>3, <1>4

(* A run ends, and its lock with it. *)
LEMMA EndStep == ASSUME IInv, NEW r \in Run, Unlock(r) \/ Die(r) PROVE IInv'
<1>1. /\ run' = [run EXCEPT ![r] = IdleRun] /\ lock = r /\ lock' = NoRun
      /\ UNCHANGED <<batch, job, queue, linked>> /\ faults' \in 0..MaxFaults
  BY BoundAssumption DEF Unlock, Die, Ends, Fault, IInv, TypeOK, LockInv
<1>2. IdleRun \in RunState /\ IdleRun.pc = "idle"
  BY DEF IdleRun, RunState
<1>3. run'[r] = IdleRun /\ \A s \in Run \ {r} : run'[s] = run[s] /\ run[s].pc = "idle"
  BY <1>1 DEF IInv, TypeOK, LockInv
<1>4. TypeOK'
  BY <1>1, <1>2 DEF IInv, TypeOK
<1>5. LockInv' /\ ClaimInv' /\ FullInv'
  BY <1>1, <1>2, <1>3, RunAssumption DEF IInv, LockInv, ClaimInv, FullInv
<1>6. OnlyInv'
  BY <1>1, <1>2, <1>3 DEF IInv, OnlyInv, Attempted
<1>7. CompletedIsImported' /\ CountsMatchJobs'
  BY <1>1 DEF IInv, CompletedIsImported, CountsMatchJobs, FailedRows
<1>8. QED
  BY <1>4, <1>5, <1>6, <1>7 DEF IInv

LEMMA LoadStep == ASSUME IInv, NEW r \in Run, Load(r) PROVE IInv'
<1> DEFINE todo == IF run[r].only THEN FailedRows ELSE Row
           x == [run[r] EXCEPT !.pc = "rows", !.todo = todo]
<1>1. run[r] \in RunState /\ run[r].pc = "claimed" /\ todo \subseteq Row
  BY DEF Load, IInv, TypeOK, FailedRows
<1>2. run' = [run EXCEPT ![r] = x] /\ UNCHANGED <<batch, job, queue, lock, linked, faults>>
  BY DEF Load
<1>3. /\ x \in RunState /\ x.pc = "rows" /\ x.todo = todo /\ x.only = run[r].only
      /\ x.ok = run[r].ok /\ x.bad = run[r].bad
  BY <1>1 DEF RunState
<1> HIDE DEF x
<1>4. run'[r] = x /\ \A s \in Run \ {r} : run'[s] = run[s] /\ run[s].pc = "idle"
  BY <1>1, <1>2, OneRun DEF IInv, TypeOK
<1>5. TypeOK'
  BY <1>2, <1>3 DEF IInv, TypeOK
<1>6. LockInv'
  BY <1>1, <1>2, <1>3, <1>4 DEF IInv, LockInv
<1>7. FullInv'
  <2>1. run[r].ok = 0 /\ run[r].bad = 0
    BY <1>1 DEF IInv, ClaimInv
  <2>2. ~run[r].only => Done(r)' = {}
    BY <1>3, <1>4 DEF Done
  <2>3. Cardinality({}) = 0
    BY FS_EmptySet
  <2>4. ~run[r].only => /\ Done(r)' \subseteq Attempted'
                        /\ run'[r].ok + run'[r].bad = Cardinality(Done(r)')
                        /\ run'[r].bad = Cardinality(Done(r)' \cap FailedRows')
    <3>1. SUFFICES ASSUME ~run[r].only PROVE /\ Done(r)' \subseteq Attempted'
                                            /\ run'[r].ok + run'[r].bad = Cardinality(Done(r)')
                                            /\ run'[r].bad = Cardinality(Done(r)' \cap FailedRows')
      OBVIOUS
    <3>2. Done(r)' = {} /\ Done(r)' \cap FailedRows' = {}
      BY <2>2, <3>1
    <3>3. run'[r].ok = 0 /\ run'[r].bad = 0
      BY <1>3, <1>4, <2>1
    <3>4. QED
      BY <2>3, <3>2, <3>3
  <2>5. QED
    BY <1>3, <1>4, <2>4 DEF FullInv
<1>8. OnlyInv'
  BY <1>1, <1>2, <1>3, <1>4 DEF IInv, OnlyInv, Attempted
<1>9. CompletedIsImported' /\ CountsMatchJobs' /\ ClaimInv'
  BY <1>2, <1>3, <1>4 DEF IInv, CompletedIsImported, CountsMatchJobs, FailedRows, ClaimInv
<1>10. QED
  BY <1>5, <1>6, <1>7, <1>8, <1>9 DEF IInv

LEMMA MarkFailedStep == ASSUME IInv, NEW r \in Run, MarkFailed(r) PROVE IInv'
<1> DEFINE x == [run[r] EXCEPT !.pc = "leaving"]
<1>1. run[r] \in RunState /\ run[r].pc = "claimed" /\ batch \in Batch
  BY DEF MarkFailed, IInv, TypeOK
<1>2. /\ run' = [run EXCEPT ![r] = x] /\ batch' = [batch EXCEPT !.status = "failed"]
      /\ UNCHANGED <<job, queue, lock, linked, faults>>
  BY DEF MarkFailed
<1>3. x \in RunState /\ x.pc = "leaving" /\ x.only = run[r].only
  BY <1>1 DEF RunState
<1>4. /\ batch' \in Batch /\ batch'.status = "failed"
      /\ batch'.failed = batch.failed /\ batch'.retries = batch.retries
  BY <1>1, <1>2 DEF Batch, Final
<1> HIDE DEF x
<1>5. run'[r] = x /\ \A s \in Run \ {r} : run'[s] = run[s] /\ run[s].pc = "idle"
  BY <1>1, <1>2, OneRun DEF IInv, TypeOK
<1>6. TypeOK'
  BY <1>2, <1>3, <1>4 DEF IInv, TypeOK
<1>7. LockInv' /\ ClaimInv' /\ FullInv'
  BY <1>1, <1>2, <1>3, <1>5 DEF IInv, LockInv, ClaimInv, FullInv
<1>8. OnlyInv'
  BY <1>1, <1>2, <1>3, <1>4, <1>5 DEF IInv, OnlyInv, Attempted
<1>9. CompletedIsImported' /\ CountsMatchJobs'
  BY <1>4 DEF CompletedIsImported, CountsMatchJobs
<1>10. QED
  BY <1>6, <1>7, <1>8, <1>9 DEF IInv

(* One more row: the counts of a full run stay those of the rows behind it. *)
LEMMA RowStep == ASSUME IInv, NEW r \in Run, ProcessRow(r) PROVE IInv'
<1>0. run \in [Run -> RunState]
  BY DEF IInv, TypeOK
<1>1. PICK n \in run[r].todo, result \in {"ok", "failed"} :
          /\ job' = [job EXCEPT ![n] = result]
          /\ run' = [run EXCEPT ![r].todo = @ \ {n},
                                ![r].ok = IF result = "ok" THEN @ + 1 ELSE @,
                                ![r].bad = IF result = "failed" THEN @ + 1 ELSE @]
  BY DEF ProcessRow
<1>2. run[r] \in RunState /\ run[r].pc = "rows" /\ n \in Row
      /\ UNCHANGED <<batch, queue, lock, linked, faults>>
  BY <1>1 DEF ProcessRow, IInv, TypeOK, RunState
<1> DEFINE ok == IF result = "ok" THEN run[r].ok + 1 ELSE run[r].ok
           bad == IF result = "failed" THEN run[r].bad + 1 ELSE run[r].bad
           x == [run[r] EXCEPT !.todo = run[r].todo \ {n}, !.ok = ok, !.bad = bad]
<1>3. /\ x \in RunState /\ x.pc = "rows" /\ x.only = run[r].only
      /\ x.todo = run[r].todo \ {n} /\ x.ok = ok /\ x.bad = bad
  <2>1. ok \in Nat /\ bad \in Nat
    BY <1>2 DEF RunState
  <2> HIDE DEF ok, bad
  <2>2. QED
    BY <1>2, <2>1 DEF RunState
<1>4. run' = [run EXCEPT ![r] = x]
  BY <1>0, <1>1, <1>2 DEF RunState
<1> HIDE DEF x
<1>5. run'[r] = x /\ \A s \in Run \ {r} : run'[s] = run[s] /\ run[s].pc = "idle"
  BY <1>2, <1>4, OneRun DEF IInv, TypeOK
<1>6. job' \in [Row -> Job] /\ job'[n] = result /\ \A i \in Row \ {n} : job'[i] = job[i]
  BY <1>1, <1>2 DEF IInv, TypeOK, Job
<1>7. batch.status = "processing"
  BY <1>2 DEF IInv, LockInv
<1>8. TypeOK'
  BY <1>2, <1>3, <1>4, <1>6 DEF IInv, TypeOK
<1>9. LockInv' /\ ClaimInv'
  BY <1>2, <1>3, <1>5 DEF IInv, LockInv, ClaimInv
<1>10. FullInv'
  <2> SUFFICES ASSUME ~run[r].only
               PROVE  /\ Done(r)' \subseteq Attempted'
                      /\ run'[r].ok + run'[r].bad = Cardinality(Done(r)')
                      /\ run'[r].bad = Cardinality(Done(r)' \cap FailedRows')
    BY <1>3, <1>5 DEF FullInv
  <2>1. /\ Done(r) \subseteq Attempted
        /\ run[r].ok + run[r].bad = Cardinality(Done(r))
        /\ run[r].bad = Cardinality(Done(r) \cap FailedRows)
    BY <1>2 DEF IInv, FullInv
  <2>2. Done(r)' = Done(r) \cup {n} /\ n \notin Done(r) /\ Done(r) \subseteq Row
    BY <1>1, <1>2, <1>3, <1>5 DEF Done
  <2>3. Done(r)' \subseteq Attempted'
    BY <1>2, <1>6, <2>1, <2>2 DEF Attempted
  <2>4. Cardinality(Done(r)') = Cardinality(Done(r)) + 1
    BY <2>2, RowsAreFinite, FS_AddElement
  <2>5. run[r].ok \in Nat /\ run[r].bad \in Nat
    BY <1>2 DEF RunState
  <2>6. Done(r)' \cap FailedRows' = IF result = "failed" THEN (Done(r) \cap FailedRows) \cup {n}
                                    ELSE Done(r) \cap FailedRows
    BY <1>2, <1>6, <2>2 DEF FailedRows
  <2>7. Cardinality((Done(r) \cap FailedRows) \cup {n}) = Cardinality(Done(r) \cap FailedRows) + 1
    <3>1. IsFiniteSet(Done(r) \cap FailedRows)
      BY <2>2, RowsAreFinite
    <3>2. QED
      BY <2>2, <3>1, FS_AddElement
  <2>8. CASE result = "ok"
    <3>1. run'[r].ok = run[r].ok + 1 /\ run'[r].bad = run[r].bad
      BY <1>3, <1>5, <2>8
    <3>2. run[r].ok + 1 + run[r].bad = Cardinality(Done(r)) + 1
      BY <2>1, <2>5
    <3>3. Done(r)' \cap FailedRows' = Done(r) \cap FailedRows
      BY <2>6, <2>8
    <3>4. QED
      BY <2>1, <2>3, <2>4, <3>1, <3>2, <3>3
  <2>9. CASE result = "failed"
    <3>1. run'[r].ok = run[r].ok /\ run'[r].bad = run[r].bad + 1
      BY <1>3, <1>5, <2>9
    <3>2. run[r].ok + (run[r].bad + 1) = Cardinality(Done(r)) + 1
      BY <2>1, <2>5
    <3>3. Done(r)' \cap FailedRows' = (Done(r) \cap FailedRows) \cup {n}
      BY <2>6, <2>9
    <3>4. QED
      BY <2>1, <2>3, <2>4, <2>7, <3>1, <3>2, <3>3
  <2>10. QED
    BY <2>8, <2>9
<1>11. OnlyInv'
  <2>1. Attempted \subseteq Attempted' /\ Attempted' \subseteq Row
    BY <1>6 DEF Attempted
  <2>2. QED
    BY <1>2, <1>3, <1>5, <2>1 DEF IInv, OnlyInv
<1>12. CompletedIsImported' /\ CountsMatchJobs'
  BY <1>2, <1>7 DEF CompletedIsImported, CountsMatchJobs
<1>13. QED
  BY <1>8, <1>9, <1>10, <1>11, <1>12 DEF IInv

(* A run that is through has seen every row tried, and whichever way it counts,
   its counts are those of the rows. *)
LEMMA TallyIsRight ==
    ASSUME IInv, NEW r \in Run, Summarize(r)
    PROVE  /\ Attempted = Row
           /\ Tally(r).total = Cardinality(Row)
           /\ Tally(r).failed = Cardinality(FailedRows)
<1>1. run[r] \in RunState /\ run[r].pc = "rows" /\ run[r].todo = {}
  BY DEF Summarize, RowsDone, IInv, TypeOK
<1>2. Attempted = Row
  <2>1. CASE run[r].only
    BY <1>1, <2>1 DEF IInv, OnlyInv
  <2>2. CASE ~run[r].only
    BY <1>1, <2>2 DEF IInv, FullInv, Done, Attempted
  <2>3. QED
    BY <2>1, <2>2
<1>3. CASE run[r].only
  BY <1>2, <1>3 DEF Tally
<1>4. CASE ~run[r].only
  <2>1. Done(r) = Row /\ Done(r) \cap FailedRows = FailedRows
    BY <1>1 DEF Done, FailedRows
  <2>2. QED
    BY <1>1, <1>2, <1>4, <2>1 DEF Tally, IInv, FullInv
<1>5. QED
  BY <1>3, <1>4

(* The verdict: whichever way the counts were made, they are those of the
   rows, and all rows have been tried. *)
LEMMA SummarizeStep == ASSUME IInv, NEW r \in Run, Summarize(r) PROVE IInv'
<1> DEFINE x == [run[r] EXCEPT !.pc = "leaving"]
           t == Tally(r)
<1>1. run[r] \in RunState /\ run[r].pc = "rows" /\ run[r].todo = {} /\ batch \in Batch
  BY DEF Summarize, RowsDone, IInv, TypeOK
<1>2. /\ batch' = [batch EXCEPT !.status = Verdict(t), !.total = t.total, !.failed = t.failed]
      /\ run' = [run EXCEPT ![r] = x]
      /\ UNCHANGED <<job, queue, lock, linked, faults>>
  BY DEF Summarize
<1>3. Attempted = Row
  BY TallyIsRight
<1>4. FailedRows \subseteq Row /\ Cardinality(FailedRows) \in Nat /\ Cardinality(Row) \in Nat
      /\ IsFiniteSet(FailedRows)
  BY RowsAreFinite DEF FailedRows
<1>5. t.total = Cardinality(Row) /\ t.failed = Cardinality(FailedRows)
  BY TallyIsRight
<1>6. Verdict(t) \in Final /\ (Verdict(t) = "completed" => t.failed = 0)
  BY DEF Verdict, Final
<1> HIDE DEF t
<1>7. /\ batch' \in Batch /\ batch'.status = Verdict(t) /\ batch'.total = t.total
      /\ batch'.failed = t.failed /\ batch'.retries = batch.retries
  BY <1>1, <1>2, <1>4, <1>5, <1>6 DEF Batch
<1>8. x \in RunState /\ x.pc = "leaving" /\ x.only = run[r].only
  BY <1>1 DEF RunState
<1> HIDE DEF x
<1>9. run'[r] = x /\ \A s \in Run \ {r} : run'[s] = run[s] /\ run[s].pc = "idle"
  BY <1>1, <1>2, OneRun DEF IInv, TypeOK
<1>10. TypeOK'
  BY <1>2, <1>7, <1>8 DEF IInv, TypeOK
<1>11. LockInv' /\ ClaimInv' /\ FullInv'
  BY <1>1, <1>2, <1>8, <1>9 DEF IInv, LockInv, ClaimInv, FullInv
<1>12. OnlyInv'
  BY <1>2, <1>3 DEF OnlyInv, Attempted
<1>13. CountsMatchJobs'
  BY <1>2, <1>5, <1>7 DEF CountsMatchJobs, FailedRows
<1>14. CompletedIsImported'
  <2> SUFFICES ASSUME Verdict(t) = "completed", NEW n \in Row PROVE job[n] = "ok"
    BY <1>2, <1>7 DEF CompletedIsImported
  <2>1. FailedRows = {}
    BY <1>4, <1>5, <1>6, FS_EmptySet
  <2>2. job[n] # "none" /\ job[n] # "failed" /\ job[n] \in Job
    BY <1>3, <2>1 DEF Attempted, FailedRows, IInv, TypeOK
  <2>3. QED
    BY <2>2 DEF Job
<1>15. QED
  BY <1>10, <1>11, <1>12, <1>13, <1>14 DEF IInv

LEMMA NextInv == IInv /\ [Next]_vars => IInv'
<1> SUFFICES ASSUME IInv, [Next]_vars PROVE IInv'
  OBVIOUS
<1>1. CASE Upload \/ Reuse \/ Retry \/ Recover
  BY <1>1, RequestStep
<1>2. CASE \E r \in Run : RunStep(r) \/ Die(r)
  BY <1>2, TakeStep, LoadStep, MarkFailedStep, RowStep, SummarizeStep, EndStep DEF RunStep
<1>3. CASE UNCHANGED vars
  BY <1>3 DEF vars, IInv, TypeOK, LockInv, ClaimInv, FullInv, OnlyInv, Done, Attempted,
              FailedRows, CompletedIsImported, CountsMatchJobs
<1>4. QED
  BY <1>1, <1>2, <1>3 DEF Next

THEOREM Invariant == Spec => []IInv
BY InitInv, NextInv, PTL DEF Spec

-----------------------------------------------------------------------------
(* The properties *)

(* The batch row, its jobs, the queue and the runs keep their types, for any
   file, number of runs, retries and faults; retry_count never passes its limit. *)
THEOREM TypeCorrect == Spec => []TypeOK
BY Invariant, PTL DEF IInv

(* _summarize_batch: however runs, retries and recoveries overlap, a batch that
   says "completed" has every row of its file in. *)
THEOREM CompletedMeansImported == Spec => []CompletedIsImported
BY Invariant, PTL DEF IInv

(* _summarize_batch, _recount_from_jobs: the counts of a batch with a result are
   those of its import_job rows, whichever of the two ways they were made. *)
THEOREM CountsAreRight == Spec => []CountsMatchJobs
BY Invariant, PTL DEF IInv

(* retry sends only_failed exactly when a failed row was counted, and then no
   row of the file is untried: _load_failed_rows misses none. *)
THEOREM RetryIsComplete == Spec => []RetryMissesNoRow
<1>1. IInv => RetryMissesNoRow
  BY DEF IInv, OnlyInv, RetryMissesNoRow
<1>2. QED
  BY Invariant, <1>1, PTL

(* The UPDATEs of the runs name the batch by id only; still no run, retry or
   recovery changes a completed batch. *)
THEOREM CompletedStaysFinal == Spec => CompletedIsFinal
<1>1. IInv /\ [Next]_vars => [batch.status = "completed" => batch' = batch]_vars
  <2> SUFFICES ASSUME IInv, [Next]_vars, batch.status = "completed" PROVE batch' = batch
    OBVIOUS
  <2>1. \A r \in Run : run[r].pc \notin {"claimed", "rows"}
    BY DEF IInv, LockInv
  <2>2. CASE Upload \/ Reuse \/ Retry \/ Recover
    BY <2>2 DEF Upload, Reuse, Retry, Recover
  <2>3. CASE \E r \in Run : RunStep(r) \/ Die(r)
    BY <2>1, <2>3 DEF RunStep, Take, Load, MarkFailed, ProcessRow, Summarize, RowsDone, Unlock,
                      Die
  <2>4. CASE UNCHANGED vars
    BY <2>4 DEF vars
  <2>5. QED
    BY <2>2, <2>3, <2>4 DEF Next
<1>2. QED
  BY Invariant, <1>1, PTL DEF Spec, CompletedIsFinal

-----------------------------------------------------------------------------
(* The batch implements BatchContract *)

LEMMA RequestAsks ==
    ASSUME IInv, Upload \/ Reuse \/ Retry \/ Recover
    PROVE  Whole!Ask \/ UNCHANGED Whole!result
<1>1. UNCHANGED job /\ batch \in Batch
  BY DEF Upload, Reuse, Retry, Recover, IInv, TypeOK
<1>2. CASE UNCHANGED batch
  BY <1>1, <1>2 DEF Whole!result, CountsOf
<1>3. CASE ~ UNCHANGED batch
  <2>1. batch.status \in {"none", "partial", "failed"}
    BY <1>3 DEF Upload, Reuse, Retry, Recover
  <2>2. /\ batch'.status = "processing"
        /\ batch'.total = batch.total /\ batch'.failed = batch.failed
    BY <1>1, <1>3 DEF Upload, Reuse, Retry, Recover, Batch
  <2>3. QED
    BY <1>1, <2>1, <2>2 DEF Whole!Ask, CountsOf
<1>4. QED
  BY <1>2, <1>3

LEMMA VerdictConcludes ==
    ASSUME IInv, NEW r \in Run, Summarize(r)
    PROVE  Whole!Conclude
<1> DEFINE t == Tally(r)
<1>1. Attempted = Row /\ t.total = Cardinality(Row) /\ t.failed = Cardinality(FailedRows)
  BY TallyIsRight
<1>2. batch.status = "processing" /\ batch \in Batch /\ UNCHANGED job
  BY DEF Summarize, RowsDone, IInv, TypeOK, LockInv
<1>3. batch' = [batch EXCEPT !.status = Verdict(t), !.total = t.total, !.failed = t.failed]
  BY DEF Summarize
<1> HIDE DEF t
<1>4. batch'.status = Verdict(t) /\ batch'.total = t.total /\ batch'.failed = t.failed
  BY <1>2, <1>3 DEF Batch
<1>5. \A n \in Row : job[n] # "none"
  BY <1>1 DEF Attempted
<1>6. Whole!FailedOf = FailedRows
  BY DEF Whole!FailedOf, FailedRows
<1>7. CountsOf(batch)' = [total |-> Whole!Cardinality(Row),
                          failed |-> Whole!Cardinality(Whole!FailedOf)]
  <2>1. ASSUME NEW S PROVE Whole!Cardinality(S) = Cardinality(S)
    BY DEF Whole!Cardinality, Cardinality
  <2>2. QED
    BY <1>1, <1>4, <1>6, <2>1 DEF CountsOf
<1>8. /\ FailedRows = {} <=> Cardinality(FailedRows) = 0
      /\ FailedRows = Row <=> Cardinality(FailedRows) = Cardinality(Row)
      /\ Cardinality(Row) > 0
  <2>1. FailedRows \subseteq Row /\ IsFiniteSet(FailedRows) /\ IsFiniteSet(Row)
        /\ Cardinality(Row) \in Nat
    BY RowsAreFinite DEF FailedRows
  <2>2. FailedRows = {} <=> Cardinality(FailedRows) = 0
    BY <2>1, FS_EmptySet
  <2>3. Cardinality(Row) # 0
    BY RowAssumption, FS_EmptySet
  <2>4. Cardinality(FailedRows) = Cardinality(Row) => FailedRows = Row
    BY <2>1, FS_Subset
  <2>5. QED
    BY <2>1, <2>2, <2>3, <2>4
<1>9. Verdict(t) = IF FailedRows = {} THEN "completed"
                   ELSE IF FailedRows = Row THEN "failed" ELSE "partial"
  BY <1>1, <1>8 DEF Verdict
<1>10. batch.status' = IF Whole!FailedOf = {} THEN "completed"
                       ELSE IF Whole!FailedOf = Row THEN "failed" ELSE "partial"
  BY <1>4, <1>6, <1>9
<1>11. QED
  BY <1>2, <1>5, <1>7, <1>10 DEF Whole!Conclude

LEMMA RunWorks ==
    ASSUME IInv, NEW r \in Run, RunStep(r) \/ Die(r)
    PROVE  [Whole!Next]_(Whole!result)
<1>1. CASE Take(r) \/ Load(r) \/ Unlock(r) \/ Die(r)
  <2>1. UNCHANGED <<batch, job>>
    BY <1>1 DEF Take, Load, Unlock, Die
  <2>2. QED
    BY <2>1 DEF Whole!result, CountsOf
<1>2. CASE MarkFailed(r)
  <2>1. /\ batch.status = "processing" /\ UNCHANGED job
        /\ batch' = [batch EXCEPT !.status = "failed"] /\ batch \in Batch
    BY <1>2 DEF MarkFailed, IInv, TypeOK, LockInv
  <2>2. batch'.status = "failed" /\ CountsOf(batch') = CountsOf(batch)
    BY <2>1 DEF Batch, CountsOf
  <2>3. QED
    BY <2>1, <2>2 DEF Whole!GiveUp, Whole!Next
<1>3. CASE ProcessRow(r)
  <2>1. batch.status = "processing" /\ UNCHANGED batch
    BY <1>3 DEF ProcessRow, IInv, LockInv
  <2>2. \E n \in Row, outcome \in {"ok", "failed"} : job' = [job EXCEPT ![n] = outcome]
    BY <1>3 DEF ProcessRow, IInv, TypeOK, RunState
  <2>3. QED
    BY <2>1, <2>2 DEF Whole!Work, Whole!Next, CountsOf
<1>4. CASE Summarize(r)
  BY <1>4, VerdictConcludes DEF Whole!Next
<1>5. QED
  BY <1>1, <1>2, <1>3, <1>4 DEF RunStep

(* However many messages are sent for a batch, by uploads, retries and the
   recovery task, and whenever a run dies, the batch behaves as if one worker
   went through it: BatchContract. *)
THEOREM BatchesTellTheTruth == Spec => ImplementsBatchContract
<1>1. ASSUME Init PROVE Whole!Init
  BY <1>1 DEF Init, Whole!Init, CountsOf
<1>2. ASSUME IInv, [Next]_vars PROVE [Whole!Next]_(Whole!result)
  <2>1. CASE UNCHANGED vars
    BY <2>1 DEF vars, Whole!result, CountsOf
  <2>2. QED
    BY <1>2, <2>1, RequestAsks, RunWorks DEF Next, Whole!Next
<1>3. QED
  BY <1>1, <1>2, Invariant, PTL DEF Spec, ImplementsBatchContract, Whole!Spec

-----------------------------------------------------------------------------
(* Import conflicts: the inductive invariant *)

(* Who is about to write the object holds its lock and has read it as it is;
   nobody else holds the lock but a row that claims the blogger. *)
HoldInv ==
    /\ \A b \in Batches :
          /\ at[b].pc = "write" => objX = b /\ at[b].read = obj
          /\ at[b].pc = "claim" => at[b].claim
          /\ objX = b => \/ at[b].pc = "write"
                         \/ at[b].claim /\ at[b].pc \in {"lockConf", "lockObj"}
    /\ \A u \in Users : /\ user[u].pc = "apply" <=> objX = u
                        /\ user[u].pc = "apply" => user[u].read = obj

ConflictsIInv == ConflictsTypeOK /\ HoldInv /\ OnlyCarriedFieldsLose

(* A conflict that an earlier batch has left. *)
LEMMA EarlierType ==
    ASSUME obj \in Record, NEW file \in Record
    PROVE  Earlier(file) \in Conflict /\ \A f \in Fields : Earlier(file).file[f] = file[f]
<1>1. Blank \in Record
  BY DEF Blank, Record
<1>2. CASE Given(file) = {}
  <2>1. Earlier(file) = NoConf /\ NoConf \in Conflict
    BY <1>1, <1>2, ConflictBounds DEF Earlier, NoConf, Conflict
  <2>2. \A f \in Fields : file[f] = Empty
    BY <1>2 DEF Given
  <2>3. QED
    BY <2>1, <2>2 DEF NoConf, Blank
<1>3. CASE Given(file) # {}
  <2> DEFINE sys == [f \in Fields |-> IF file[f] # Empty THEN obj[f] ELSE Empty]
  <2>1. sys \in Record
    BY DEF Record
  <2> HIDE DEF sys
  <2>2. Earlier(file) = [id |-> 1, batch |-> None, file |-> file, carried |-> {}, sys |-> sys]
    BY <1>3 DEF Earlier, sys
  <2>3. QED
    BY <2>1, <2>2, ConflictBounds DEF Conflict
<1>4. QED
  BY <1>2, <1>3

LEMMA ConflictsInitInv == ConflictsInit => ConflictsIInv
<1> SUFFICES ASSUME ConflictsInit PROVE ConflictsIInv
  OBVIOUS
<1>1. Blank \in Record /\ owed \in Record /\ obj \in Record
  BY DEF Blank, Record, ConflictsInit
<1>2. conf \in Conflict /\ \A f \in Fields : conf.file[f] = owed[f]
  BY <1>1, EarlierType DEF ConflictsInit
<1>3. ConflictsTypeOK
  <2>1. lastId \in 0 .. MaxConf
    BY <1>2 DEF ConflictsInit, Conflict
  <2>2. NoRow \in [pc : {"idle", "claim", "lockConf", "lockObj", "write"}, row : Record,
                   read : Record, c : 0 .. MaxConf, claim : BOOLEAN]
        /\ NoUser \in Resolution
    BY <1>1, ConflictBounds DEF NoRow, NoUser, Resolution
  <2>3. QED
    BY <1>1, <1>2, <2>1, <2>2, ConflictBounds DEF ConflictsInit, ConflictsTypeOK
<1>4. HoldInv
  BY HolderAssumption DEF ConflictsInit, HoldInv, NoRow, NoUser
<1>5. OnlyCarriedFieldsLose
  BY <1>2 DEF OnlyCarriedFieldsLose
<1>6. QED
  BY <1>3, <1>4, <1>5 DEF ConflictsIInv

-----------------------------------------------------------------------------
(* What a row writes *)

(* The row as it is read beside the earlier ones of its batch. *)
LEMMA ScreenedType ==
    ASSUME ConflictsTypeOK, NEW b \in Batches
    PROVE  Screened(b) \in Record /\ at[b].read \in Record
BY DEF ConflictsTypeOK, Screened, Record

(* A conflict that is inserted, and one that takes in a row of its batch, are
   conflicts. *)
LEMMA RecordedType ==
    ASSUME ConflictsTypeOK, NEW b \in Batches, RecordConflict(b) \/ TouchConflict(b)
    PROVE  conf' \in Conflict /\ lastId' \in 0 .. MaxConf
<1>1. Screened(b) \in Record /\ at[b].read \in Record /\ Blank \in Record
  BY ScreenedType DEF Blank, Record
<1>2. conf \in Conflict /\ lastId \in 0 .. MaxConf
  BY DEF ConflictsTypeOK
<1>3. ASSUME NEW carried \in SUBSET Fields, Insert(b, carried)
      PROVE  conf' \in Conflict /\ lastId' \in 0 .. MaxConf
  <2>1. lastId + 1 \in 0 .. MaxConf
    BY <1>2, <1>3, ConflictBounds DEF Insert
  <2>2. QED
    BY <1>1, <1>2, <1>3, <2>1 DEF Insert, NewConflict, Record, Conflict
<1>4. Merged(b) \in Conflict
  BY <1>1, <1>2 DEF Merged, Record, Conflict
<1>5. NoConf \in Conflict
  BY <1>1, ConflictBounds DEF NoConf, Conflict
<1>6. QED
  <2>1. Carried(b) \subseteq Fields
    BY DEF Carried, Listed, Given
  <2>2. QED
    BY <1>2, <1>3, <1>4, <1>5, <2>1 DEF RecordConflict, TouchConflict

(* Whatever the row does to the conflict, and however it came by the one it
   looks at, a difference is lost only where the row meets a carried field. *)
LEMMA DifferencesStay ==
    ASSUME ConflictsTypeOK, OnlyCarriedFieldsLose, NEW b \in Batches,
           RecordConflict(b) \/ TouchConflict(b), owed' = OwedAfter(b), masked' = MaskedAfter(b)
    PROVE  OnlyCarriedFieldsLose'
<1> SUFFICES ASSUME NEW f \in Fields, owed'[f] # Empty, conf'.file[f] # owed'[f]
             PROVE  f \in masked'
  BY DEF OnlyCarriedFieldsLose
<1>1. owed[f] # Empty => conf.file[f] = owed[f] \/ f \in masked
  BY DEF OnlyCarriedFieldsLose
<1>2. conf.file \in Record
  BY DEF ConflictsTypeOK, Conflict
<1>3. CASE f \in Reported(b) /\ ~Standing(b, f)
  <2>1. owed'[f] = Screened(b)[f]
    BY <1>3 DEF OwedAfter
  <2>2. CASE conf.batch = b /\ f \in Listed
    BY <1>3, <2>2 DEF MaskedAfter
  <2>3. CASE ~(conf.batch = b /\ f \in Listed)
    <3>1. CASE \E carried : Insert(b, carried)
      BY <1>3, <2>1, <3>1 DEF Insert, NewConflict
    <3>2. CASE conf.batch = b /\ conf' = Merged(b)
      BY <1>3, <2>1, <2>3, <3>2 DEF Merged
    <3>3. QED
      BY <1>3, <3>1, <3>2 DEF RecordConflict, TouchConflict
  <2>4. QED BY <2>2, <2>3
<1>4. CASE f \in Reported(b) /\ Standing(b, f)
  <2>1. owed'[f] = owed[f] /\ (f \in masked => f \in masked')
    BY <1>4 DEF OwedAfter, MaskedAfter
  <2>2. conf' = Merged(b)
    BY <1>4, HolderAssumption DEF Standing, RecordConflict, TouchConflict, NoConf
  <2>3. Merged(b).file[f] = conf.file[f]
    BY <1>2, <1>4 DEF Standing, Merged, Record
  <2>4. QED BY <1>1, <2>1, <2>2, <2>3
<1>5. CASE f \notin Reported(b)
  <2>1. owed'[f] = owed[f] /\ (f \in masked => f \in masked')
    BY <1>5 DEF OwedAfter, MaskedAfter
  <2> SUFFICES ASSUME conf.file[f] = owed[f] PROVE FALSE
    BY <1>1, <2>1
  <2>2. /\ f \in Listed /\ at[b].read[f] # owed[f]
        /\ ~(f \in Compared(b) /\ conf.batch # b)
    BY <1>5, <2>1 DEF OwedAfter, Listed, Given
  <2>3. conf # NoConf
    BY <2>2 DEF NoConf, Listed, Given, Blank
  <2>4. conf.batch # b => f \in Carried(b)
    BY <2>2 DEF Carried
  <2>5. CASE Insert(b, Carried(b)) /\ conf.batch # b
    BY <1>5, <2>1, <2>4, <2>5 DEF Insert, NewConflict
  <2>6. CASE conf' = Merged(b)
    BY <1>2, <1>5, <2>1, <2>6 DEF Merged, Record
  <2>7. CASE TouchConflict(b)
    <3>1. ~(conf.batch # b /\ Listed \subseteq Compared(b))
      BY <2>2
    <3>2. QED
      BY <2>1, <2>7, <3>1 DEF TouchConflict
  <2>8. QED
    BY <2>3, <2>5, <2>6, <2>7 DEF RecordConflict
<1>6. QED
  BY <1>3, <1>4, <1>5

-----------------------------------------------------------------------------
(* The steps of a row *)

LEMMA WriteRowStep ==
    ASSUME ConflictsIInv, NEW b \in Batches, WriteRow(b)
    PROVE  ConflictsIInv'
<1>1. /\ ConflictsTypeOK /\ HoldInv /\ OnlyCarriedFieldsLose
      /\ at[b].pc = "write" /\ objX = b
  BY DEF ConflictsIInv, HoldInv, WriteRow
<1>2. ConflictsTypeOK'
  <2>1. Screened(b) \in Record /\ at[b].read \in Record /\ Blank \in Record
    BY <1>1, ScreenedType DEF Blank, Record
  <2>2. conf' \in Conflict /\ lastId' \in 0 .. MaxConf
    BY <1>1, RecordedType DEF WriteRow
  <2>3. obj' \in Record /\ owed' \in Record /\ masked' \in SUBSET Fields
    BY <1>1, <2>1 DEF WriteRow, OwedAfter, MaskedAfter, Record, ConflictsTypeOK
  <2>4. seen' \in [Batches -> Record]
    BY <1>1 DEF WriteRow, Record, ConflictsTypeOK
  <2>5. QED
    BY <1>1, <2>1, <2>2, <2>3, <2>4, ConflictBounds
    DEF WriteRow, ConflictsTypeOK, NoRow, Free, bounds
<1>3. HoldInv'
  BY <1>1, HolderAssumption DEF WriteRow, HoldInv, ConflictsTypeOK, NoRow, Free
<1>4. OnlyCarriedFieldsLose'
  BY <1>1, DifferencesStay DEF WriteRow
<1>5. QED
  BY <1>2, <1>3, <1>4 DEF ConflictsIInv

(* The other steps of a row leave object, conflict and what is owed alone. *)
LEMMA OtherRowSteps ==
    ASSUME ConflictsIInv, NEW b \in Batches,
           \/ \E row \in Sheets, claim \in BOOLEAN : FindRow(b, row, claim)
           \/ ClaimObject(b) \/ LockPending(b) \/ LockObject(b) \/ FailRow(b) \/ RunAgain(b)
    PROVE  ConflictsIInv'
<1>1. ConflictsTypeOK /\ HoldInv /\ Blank \in Record /\ conf.id \in 0 .. MaxConf
  BY DEF ConflictsIInv, ConflictsTypeOK, Conflict, Blank, Record
<1>2. UNCHANGED <<obj, conf, owed, masked, user>>
  BY DEF FindRow, Found, ClaimObject, LockPending, LockObject, FailRow, RunAgain, ghosts
<1>3. OnlyCarriedFieldsLose'
  BY <1>2 DEF ConflictsIInv, OnlyCarriedFieldsLose
<1>4. ASSUME NEW row \in Sheets, NEW claim \in BOOLEAN, FindRow(b, row, claim)
      PROVE  ConflictsTypeOK' /\ HoldInv'
  <2>1. rows' \in 0 .. MaxRows /\ row \in Record
    BY <1>1, <1>4, ConflictBounds, SheetAssumption DEF FindRow, Found, ConflictsTypeOK
  <2>2. /\ at[b].pc = "idle" /\ UNCHANGED objX
        /\ at' = [at EXCEPT ![b] = [pc |-> IF claim THEN "claim" ELSE "lockConf", row |-> row,
                                   read |-> Blank, c |-> conf.id, claim |-> claim]]
    BY <1>4 DEF FindRow, Found
  <2>3. ConflictsTypeOK'
    BY <1>1, <1>4, <2>1, <2>2 DEF FindRow, Found, ConflictsTypeOK, ghosts
  <2>4. HoldInv'
    BY <1>1, <1>2, <2>2 DEF HoldInv, ConflictsTypeOK
  <2>5. QED BY <2>3, <2>4
<1>5. CASE ClaimObject(b)
  <2>1. ConflictsTypeOK'
    BY <1>1, <1>5 DEF ClaimObject, ConflictsTypeOK, bounds, ghosts
  <2>2. HoldInv'
    <3>1. /\ objX = None /\ objX' = b
          /\ at'[b].claim /\ at'[b].pc = "lockConf"
          /\ \A c \in Batches : c # b => at'[c] = at[c]
      BY <1>1, <1>5 DEF ClaimObject, ConflictsTypeOK, HoldInv
    <3>2. QED
      BY <1>1, <1>2, <3>1, HolderAssumption DEF HoldInv
  <2>3. QED BY <1>3, <2>1, <2>2 DEF ConflictsIInv
<1>6. CASE LockPending(b)
  <2>1. ConflictsTypeOK'
    BY <1>1, <1>6, ConflictBounds DEF LockPending, ConflictsTypeOK, bounds, ghosts
  <2>2. HoldInv'
    BY <1>1, <1>6 DEF LockPending, HoldInv, ConflictsTypeOK
  <2>3. QED BY <1>3, <2>1, <2>2 DEF ConflictsIInv
<1>7. CASE LockObject(b)
  <2>1. ConflictsTypeOK'
    BY <1>1, <1>7 DEF LockObject, ConflictsTypeOK, bounds, ghosts
  <2>2. HoldInv'
    BY <1>1, <1>7, HolderAssumption DEF LockObject, HoldInv, ConflictsTypeOK
  <2>3. QED BY <1>3, <2>1, <2>2 DEF ConflictsIInv
<1>8. CASE FailRow(b)
  <2>1. ConflictsTypeOK'
    BY <1>1, <1>8, ConflictBounds DEF FailRow, ConflictsTypeOK, NoRow, Free, bounds, ghosts
  <2>2. HoldInv'
    BY <1>1, <1>8, HolderAssumption DEF FailRow, HoldInv, ConflictsTypeOK, NoRow, Free
  <2>3. QED BY <1>3, <2>1, <2>2 DEF ConflictsIInv
<1>9. CASE RunAgain(b)
  <2>1. ConflictsTypeOK'
    BY <1>1, <1>9 DEF RunAgain, ConflictsTypeOK, bounds, ghosts
  <2>2. HoldInv'
    BY <1>1, <1>9 DEF RunAgain, HoldInv
  <2>3. QED BY <1>3, <2>1, <2>2 DEF ConflictsIInv
<1>10. QED
  BY <1>3, <1>4, <1>5, <1>6, <1>7, <1>8, <1>9 DEF ConflictsIInv

-----------------------------------------------------------------------------
(* The steps of a resolution *)

(* A resolution closes the conflict, and with it what was owed. *)
LEMMA ClosingSteps ==
    ASSUME ConflictsIInv, NEW u \in Users, Keep(u) \/ Gone(u) \/ Overwrite(u)
    PROVE  ConflictsIInv'
<1>1. ConflictsTypeOK /\ HoldInv /\ Blank \in Record
  BY DEF ConflictsIInv, Blank, Record
<1>2. Close(u) /\ user[u].pc \in {"close", "lockObj", "apply"}
  BY DEF Keep, Gone, Overwrite
<1>3. OnlyCarriedFieldsLose'
  BY <1>2 DEF Close, OnlyCarriedFieldsLose, Blank
<1>4. UNCHANGED <<lastId, at, seen, bounds, alive>>
  BY DEF Keep, Gone, Overwrite
<1>5. obj' \in Record /\ (obj' # obj => objX = u)
  BY <1>1 DEF Keep, Gone, Overwrite, HoldInv, ConflictsTypeOK, Resolution, Conflict, Record
<1>6. NoConf \in Conflict /\ NoUser \in Resolution
  BY <1>1, ConflictBounds DEF NoConf, NoUser, Conflict, Resolution
<1>7. ConflictsTypeOK'
  BY <1>1, <1>2, <1>4, <1>5, <1>6 DEF Close, Answer, Free, ConflictsTypeOK, Resolution, bounds
<1>8. HoldInv'
  BY <1>1, <1>2, <1>4, <1>5, HolderAssumption
  DEF Close, Answer, Free, HoldInv, ConflictsTypeOK, Resolution, NoUser
<1>9. QED
  BY <1>3, <1>7, <1>8 DEF ConflictsIInv

(* What a user is shown of a conflict. *)
LEMMA ShownType ==
    ASSUME NoUser \in Resolution, NEW id \in 0 .. MaxConf, NEW expect \in Record
    PROVE  [NoUser EXCEPT !.pc = "shown", !.id = id, !.expect = expect] \in Resolution
BY DEF Resolution

(* The other steps of a user leave object, conflict and what is owed alone. *)
LEMMA OtherUserSteps ==
    ASSUME ConflictsIInv, NEW u \in Users,
           \/ View(u) \/ \E d \in {"keep", "overwrite"} : Decide(u, d)
           \/ LockConflict(u) \/ NotPending(u) \/ LockForOverwrite(u)
           \/ AnswerStale(u) \/ ResolutionFails(u)
    PROVE  ConflictsIInv'
<1>1. ConflictsTypeOK /\ HoldInv /\ Blank \in Record
  BY DEF ConflictsIInv, Blank, Record
<1>2. UNCHANGED <<obj, alive, conf, lastId, at, seen, bounds, owed, masked>>
  BY DEF View, Decide, LockConflict, NotPending, LockForOverwrite, AnswerStale, ResolutionFails, ghosts
<1>3. OnlyCarriedFieldsLose'
  BY <1>2 DEF ConflictsIInv, OnlyCarriedFieldsLose
<1>4. NoUser \in Resolution
  BY <1>1, ConflictBounds DEF NoUser, Resolution
<1>5. ASSUME NEW d \in {"keep", "overwrite"}, View(u) \/ Decide(u, d) PROVE ConflictsIInv'
  <2>1. ConflictsTypeOK'
    <3>1. user[u] \in Resolution /\ conf.id \in 0 .. MaxConf /\ conf.sys \in Record
      BY <1>1 DEF ConflictsTypeOK, Conflict
    <3>2. [NoUser EXCEPT !.pc = "shown", !.id = conf.id, !.expect = conf.sys] \in Resolution
          /\ [user[u] EXCEPT !.pc = "lock", !.decision = d] \in Resolution
      BY <1>4, <3>1, ShownType DEF Resolution
    <3>3. user' \in [Users -> Resolution] /\ UNCHANGED <<confX, objX>>
      <4>1. CASE View(u)
        BY <1>1, <3>2, <4>1 DEF View, ConflictsTypeOK
      <4>2. CASE Decide(u, d)
        <5>1. user' = [user EXCEPT ![u] = [user[u] EXCEPT !.pc = "lock", !.decision = d]]
          BY <1>1, <4>2 DEF Decide, ConflictsTypeOK, Resolution
        <5>2. QED
          BY <1>1, <3>2, <4>2, <5>1 DEF Decide, ConflictsTypeOK
      <4>3. QED BY <1>5, <4>1, <4>2
    <3>4. QED
      BY <1>1, <1>2, <3>3 DEF ConflictsTypeOK, bounds
  <2>2. HoldInv'
    <3>1. /\ user[u].pc # "apply" /\ user'[u].pc # "apply" /\ UNCHANGED objX
          /\ \A v \in Users : v # u => user'[v] = user[v]
      BY <1>1, <1>5 DEF View, Decide, ConflictsTypeOK, Resolution, NoUser
    <3>2. QED
      BY <1>1, <1>2, <3>1 DEF HoldInv
  <2>3. QED BY <1>3, <2>1, <2>2 DEF ConflictsIInv
<1>6. CASE LockConflict(u)
  <2>1. ConflictsTypeOK'
    BY <1>1, <1>2, <1>6 DEF LockConflict, ConflictsTypeOK, Resolution, bounds
  <2>2. HoldInv'
    BY <1>1, <1>2, <1>6 DEF LockConflict, HoldInv, ConflictsTypeOK, Resolution
  <2>3. QED BY <1>3, <2>1, <2>2 DEF ConflictsIInv
<1>7. CASE LockForOverwrite(u)
  <2>1. ConflictsTypeOK'
    BY <1>1, <1>2, <1>7 DEF LockForOverwrite, ConflictsTypeOK, Resolution, bounds
  <2>2. HoldInv'
    BY <1>1, <1>2, <1>7, HolderAssumption DEF LockForOverwrite, HoldInv, ConflictsTypeOK, Resolution
  <2>3. QED BY <1>3, <2>1, <2>2 DEF ConflictsIInv
<1>8. CASE NotPending(u) \/ ResolutionFails(u)
  <2>1. Answer(u)
    BY <1>8 DEF NotPending, ResolutionFails
  <2>2. ConflictsTypeOK'
    BY <1>1, <1>2, <1>4, <2>1 DEF Answer, Free, ConflictsTypeOK, Resolution, bounds
  <2>3. HoldInv'
    BY <1>1, <1>2, <2>1, HolderAssumption DEF Answer, Free, HoldInv, ConflictsTypeOK, Resolution, NoUser
  <2>4. QED BY <1>3, <2>2, <2>3 DEF ConflictsIInv
<1>9. CASE AnswerStale(u)
  <2>1. ConflictsTypeOK'
    <3> DEFINE current == [f \in Fields |-> IF f \in Listed THEN user[u].read[f] ELSE Empty]
    <3>1. current \in Record /\ conf.id \in 0 .. MaxConf
      BY <1>1 DEF ConflictsTypeOK, Conflict, Resolution, Record
    <3> HIDE DEF current
    <3>2. [NoUser EXCEPT !.pc = "shown", !.id = conf.id, !.expect = current] \in Resolution
      BY <1>4, <3>1, ShownType
    <3>3. user' = [user EXCEPT ![u] = [NoUser EXCEPT !.pc = "shown", !.id = conf.id,
                                                   !.expect = current]]
      BY <1>9 DEF AnswerStale, current
    <3>4. QED
      BY <1>1, <1>2, <1>9, <3>2, <3>3 DEF AnswerStale, ConflictsTypeOK, bounds
  <2>2. HoldInv'
    BY <1>1, <1>2, <1>9, HolderAssumption DEF AnswerStale, HoldInv, ConflictsTypeOK, Resolution, NoUser
  <2>3. QED BY <1>3, <2>1, <2>2 DEF ConflictsIInv
<1>10. QED
  BY <1>5, <1>6, <1>7, <1>8, <1>9

(* Nobody edits, deletes or restores an object that is locked. *)
LEMMA OutsideSteps ==
    ASSUME ConflictsIInv, (\E rec \in Record : EditByHand(rec)) \/ Delete \/ Restore
    PROVE  ConflictsIInv'
<1>1. ConflictsTypeOK /\ HoldInv /\ objX = None /\ UNCHANGED <<conf, owed, masked>>
  BY DEF ConflictsIInv, EditByHand, Delete, Restore, ghosts
<1>2. ConflictsTypeOK'
  <2>1. ASSUME NEW rec \in Record, EditByHand(rec) PROVE ConflictsTypeOK'
    BY <1>1, <2>1, ConflictBounds DEF EditByHand, ConflictsTypeOK, ghosts
  <2>2. CASE Delete \/ Restore
    BY <1>1, <2>2 DEF Delete, Restore, ConflictsTypeOK, bounds, ghosts
  <2>3. QED BY <2>1, <2>2
<1>3. HoldInv'
  BY <1>1, HolderAssumption DEF EditByHand, Delete, Restore, HoldInv
<1>4. OnlyCarriedFieldsLose'
  BY <1>1 DEF ConflictsIInv, OnlyCarriedFieldsLose
<1>5. QED
  BY <1>2, <1>3, <1>4 DEF ConflictsIInv

LEMMA ConflictsNextInv == ConflictsIInv /\ [ConflictsNext]_conflictsVars => ConflictsIInv'
<1> SUFFICES ASSUME ConflictsIInv, [ConflictsNext]_conflictsVars PROVE ConflictsIInv'
  OBVIOUS
<1>1. CASE \E b \in Batches :
              ImportStep(b) \/ RunAgain(b) \/
                 \E row \in Sheets, claim \in BOOLEAN : FindRow(b, row, claim)
  BY <1>1, WriteRowStep, OtherRowSteps DEF ImportStep
<1>2. CASE \E u \in Users :
              UserStep(u) \/ View(u) \/ \E d \in {"keep", "overwrite"} : Decide(u, d)
  BY <1>2, ClosingSteps, OtherUserSteps DEF UserStep
<1>3. CASE (\E rec \in Record : EditByHand(rec)) \/ Delete \/ Restore
  BY <1>3, OutsideSteps
<1>4. CASE UNCHANGED conflictsVars
  BY <1>4 DEF conflictsVars, ghosts, bounds, ConflictsIInv, ConflictsTypeOK, HoldInv, OnlyCarriedFieldsLose
<1>5. QED
  BY <1>1, <1>2, <1>3, <1>4 DEF ConflictsNext

THEOREM ConflictsInvariant == ConflictsSpec => []ConflictsIInv
BY ConflictsInitInv, ConflictsNextInv, PTL DEF ConflictsSpec

-----------------------------------------------------------------------------
(* Import conflicts: the properties *)

(* Object, conflict, rows and resolutions keep their types, for any fields,
   batches and users. *)
THEOREM ConflictsTypeCorrect == ConflictsSpec => []ConflictsTypeOK
BY ConflictsInvariant, PTL DEF ConflictsIInv

(* ConflictRecorder.record, touch: whatever rows of whichever batches follow a
   reported difference, and however runs and resolutions overlap, it stands in the
   pending conflict until it is settled, unless the field was listed there from
   another batch. *)
THEOREM DifferencesAreKept == ConflictsSpec => []OnlyCarriedFieldsLose
BY ConflictsInvariant, PTL DEF ConflictsIInv

(* lock_pending, _resolve_one, load_for_update, self_claim: whoever holds the object
   waits for nothing, but a row that claims the blogger and waits for the conflict. *)
THEOREM LocksAreOrdered == ConflictsSpec => []OnlyClaimsMeet
<1>1. ConflictsIInv => OnlyClaimsMeet
  BY HolderAssumption DEF ConflictsIInv, HoldInv, OnlyClaimsMeet, Waits, ConflictsTypeOK
<1>2. QED
  BY ConflictsInvariant, <1>1, PTL

(* load_for_update, _resolve_one: a row changes a value outside the statistics
   only if there was none, a resolution only one that its user was shown. *)
THEOREM NothingIsOverwrittenUnseen == ConflictsSpec => NoBlindWrite
<1> DEFINE RowKeeps(b, f) ==
      at[b].pc = "write" /\ at'[b].pc = "idle" /\ obj'[f] # obj[f] => obj[f] = Empty
<1> DEFINE UserKeeps(u, f) ==
      user[u].pc = "apply" /\ user'[u].pc = "idle" /\ obj'[f] # obj[f]
        => obj[f] = user[u].expect[f]
<1> DEFINE Seen == /\ \A b \in Batches, f \in Fields \ Statistics : RowKeeps(b, f)
                   /\ \A u \in Users, f \in Fields : UserKeeps(u, f)
<1>1. ConflictsIInv /\ [ConflictsNext]_conflictsVars => [Seen]_conflictsVars
  <2> SUFFICES ASSUME ConflictsIInv, [ConflictsNext]_conflictsVars PROVE Seen
    OBVIOUS
  <2>1. HoldInv /\ ConflictsTypeOK
    BY DEF ConflictsIInv
  <2>2. CASE UNCHANGED obj
    BY <2>2
  <2>3. ASSUME NEW b \in Batches, WriteRow(b) PROVE Seen
    <3>1. objX = b /\ at[b].read = obj /\ UNCHANGED user
      BY <2>1, <2>3 DEF WriteRow, HoldInv
    <3>2. ASSUME NEW c \in Batches, NEW f \in Fields \ Statistics PROVE RowKeeps(c, f)
      BY <2>1, <2>3, <3>1 DEF WriteRow, HoldInv, Fills, Overwritten
    <3>3. ASSUME NEW u \in Users, NEW f \in Fields PROVE UserKeeps(u, f)
      BY <3>1
    <3>4. QED BY <3>2, <3>3
  <2>4. ASSUME NEW u \in Users, Overwrite(u) PROVE Seen
    <3>1. objX = u /\ user[u].read = obj /\ UNCHANGED at
      BY <2>1, <2>4 DEF Overwrite, HoldInv
    <3>2. ASSUME NEW v \in Users, NEW f \in Fields PROVE UserKeeps(v, f)
      BY <2>1, <2>4, <3>1 DEF Overwrite, HoldInv, Stale
    <3>3. ASSUME NEW b \in Batches, NEW f \in Fields \ Statistics PROVE RowKeeps(b, f)
      BY <3>1
    <3>4. QED BY <3>2, <3>3
  <2>5. CASE \E rec \in Record : EditByHand(rec)
    BY <2>1, <2>5, HolderAssumption DEF EditByHand, HoldInv
  <2>6. QED
    BY <2>2, <2>3, <2>4, <2>5
    DEF ConflictsNext, ImportStep, UserStep, FindRow, Found, ClaimObject, LockPending, LockObject, FailRow, RunAgain,
        View, Decide, LockConflict, NotPending, Keep, LockForOverwrite, Gone, AnswerStale,
        ResolutionFails, Delete, Restore, conflictsVars
<1>2. QED
  BY ConflictsInvariant, <1>1, PTL DEF ConflictsSpec, NoBlindWrite

=============================================================================
