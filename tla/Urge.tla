-------------------------------- MODULE Urge --------------------------------
(***************************************************************************)
(* The urge task of one promotion (modules/urge) next to the operations on *)
(* the promotion that end it (publish, cancel, recall, deactivation), all  *)
(* of them database transactions that run at the same time:                *)
(*   - handlers of the promotion hold its row FOR UPDATE (promoX);         *)
(*   - an INSERT that refers to the promotion (task, record, line event)   *)
(*     holds it FOR KEY SHARE (promoS), which waits for FOR UPDATE and is  *)
(*     waited for by it;                                                   *)
(*   - UPDATE urge_task ... WHERE status = ... skips a row whose committed *)
(*     version does not match, waits for a writer of one that does, and    *)
(*     checks again; the uncommitted INSERT of a task is a writer, too.    *)
(* What a transaction writes stays in req[r].w until Commit(r).  Two that  *)
(* wait for each other are a deadlock: PostgreSQL ends one (Victim).       *)
(***************************************************************************)
EXTENDS Naturals, FiniteSets

CONSTANTS
    Req,        \* slots of requests that run at the same time
    Scanner,    \* the slot of the daily scan (Celery Beat); others may scan too
    NoReq,      \* nobody
    MaxUrges,   \* bound: requests urge no more once this many are counted
    MaxDay,     \* bound on the days that pass
    MaxLost     \* bound on the requests that are lost midway

ASSUME ReqAssumption == Scanner \in Req /\ NoReq \notin Req
ASSUME BoundAssumption == MaxUrges \in Nat /\ MaxDay \in Nat /\ MaxLost \in Nat

VARIABLES
    promo,      \* the promotion row: [publish, active]
    task,       \* the urge_task row
    records,    \* how many urge_record rows there are
    autos,      \* those of them the scan wrote today
    day,        \* today
    scanning,   \* the tenant's auto_scan_enabled
    req,        \* the request slots
    promoX, promoS,     \* who holds the promotion row, and how
    taskX,      \* who holds the task row
    lost        \* requests lost so far

vars == <<promo, task, records, autos, day, scanning, req, promoX, promoS, taskX, lost>>
locks == <<promoX, promoS, taskX>>
world == <<promo, task, records, autos, day, scanning>>

-----------------------------------------------------------------------------

(* publish_status '异常' is urgeable as well, but nothing in src/ sets it. *)
Promo == [publish : {"UNPUBLISHED", "PUBLISHED", "CANCELLED"}, active : BOOLEAN]

Reasons == {"NONE", "PUBLISHED", "CANCELLED", "MANUAL", "COMPLETED"}

(* reason "NONE": the task is open.  autoOn: last_auto_urged_on, 0 for NULL. *)
Task == [exists : BOOLEAN, reason : Reasons, count : Nat, autoOn : Nat]

NoTask == [exists |-> FALSE, reason |-> "NONE", count |-> 0, autoOn |-> 0]
FreshTask == [NoTask EXCEPT !.exists = TRUE]
IsOpen(t) == t.exists /\ t.reason = "NONE"

Urging == {"once", "batch", "scan"}     \* operations that send an urge
Closing == {"manual", "complete", "stale"}
Ending == {"publish", "cancel", "recall", "deactivate"}

(* sent, noted: it has inserted the record of an urge, or of a closing. *)
Idle == [op |-> "none", pc |-> "idle", w |-> NoTask, sent |-> FALSE, noted |-> FALSE]

TypeOK ==
    /\ promo \in Promo
    /\ task \in Task
    /\ records \in Nat /\ autos \in Nat /\ day \in Nat \ {0} /\ lost \in Nat
    /\ scanning \in BOOLEAN
    /\ req \in [Req -> [op : Urging \cup Closing \cup Ending \cup {"none"},
                        pc : {"idle", "ensure", "bump", "record", "close", "event",
                              "lock", "end", "commit", "victim"},
                        w : Task, sent : BOOLEAN, noted : BOOLEAN]]
    /\ promoX \in Req \cup {NoReq} /\ taskX \in Req \cup {NoReq}
    /\ promoS \subseteq Req

Init ==
    /\ promo = [publish |-> "UNPUBLISHED", active |-> TRUE]
    /\ task = NoTask
    /\ records = 0 /\ autos = 0 /\ day = 1 /\ lost = 0
    /\ scanning \in BOOLEAN
    /\ req = [r \in Req |-> Idle]
    /\ promoX = NoReq /\ promoS = {} /\ taskX = NoReq

Urgeable(q) == q.active /\ q.publish = "UNPUBLISHED"

-----------------------------------------------------------------------------
(* Locks and transactions. *)

FreeX(r) == promoX \in {NoReq, r} /\ promoS \subseteq {r}
FreeS(r) == promoX \in {NoReq, r}
FreeTask(r) == taskX \in {NoReq, r}

(* The task as request r sees it: its own write, or what is committed. *)
Mine(r) == IF taskX = r THEN req[r].w ELSE task

Go(r, pc) == req' = [req EXCEPT ![r].pc = pc]

Start(r, op, pc) ==
    /\ req[r].pc = "idle"
    /\ req' = [req EXCEPT ![r].op = op, ![r].pc = pc]
    /\ UNCHANGED <<world, locks, lost>>

(* r writes the task row: it takes the lock and keeps it. *)
WriteTask(r, w, pc) ==
    /\ taskX' = r
    /\ req' = [req EXCEPT ![r].w = w, ![r].pc = pc]

Release(r, pc) ==
    /\ promoX' = IF promoX = r THEN NoReq ELSE promoX
    /\ promoS' = promoS \ {r}
    /\ taskX' = IF taskX = r THEN NoReq ELSE taskX
    /\ req' = [req EXCEPT ![r] =
          IF pc = "idle" THEN Idle ELSE [Idle EXCEPT !.op = req[r].op, !.pc = pc]]

(* Rolled back with an answer: a refusal, or nothing to do. *)
Refuse(r) == Release(r, "idle") /\ UNCHANGED <<world, lost>>

-----------------------------------------------------------------------------
(* Urging: urge_once, urge_batch (each of its candidates), scan_tenant. *)

(* The promotion is read without a lock. *)
BeginUrge(r) ==
    /\ Urgeable(promo) /\ task.count < MaxUrges
    /\ \E op \in {"once", "batch"} : Start(r, op, "ensure")

(* Mutant: a stale task is looked for by the publish status only. *)
BeginScanByStatus(r) ==
    /\ scanning
    /\ \/ IsOpen(task) /\ promo.publish # "UNPUBLISHED" /\ Start(r, "stale", "close")
       \/ Urgeable(promo) /\ task.count < MaxUrges /\ Start(r, "scan", "ensure")

(* scan_tenant, unless the tenant has switched it off: a stale open task is
   closed, a candidate is urged.  The window of the schedule may leave a
   candidate out. *)
BeginScan(r) ==
    /\ scanning
    /\ \/ IsOpen(task) /\ ~Urgeable(promo) /\ Start(r, "stale", "close")
       \/ Urgeable(promo) /\ task.count < MaxUrges /\ Start(r, "scan", "ensure")

(* ensure_task: INSERT ... ON CONFLICT DO NOTHING.  It waits for another
   uncommitted insert, and finds that one's task if it commits. *)
EnsureTask(r) ==
    /\ req[r].pc = "ensure"
    /\ \/ task.exists /\ Go(r, "bump") /\ UNCHANGED locks
       \/ /\ ~task.exists /\ FreeTask(r) /\ FreeS(r)
          /\ WriteTask(r, FreshTask, "bump")
          /\ promoS' = promoS \cup {r}
          /\ UNCHANGED promoX
    /\ UNCHANGED <<world, lost>>

Bumped(r, t) ==
    [t EXCEPT !.reason = "NONE", !.count = @ + 1,
              !.autoOn = IF req[r].op = "scan" THEN day ELSE @]

(* Mutant: a scan counts whatever day it already counted. *)
BumpableAnyDay(r, t) ==
    IsOpen(t) \/ (req[r].op = "once" /\ t.exists /\ t.reason = "COMPLETED")

(* reopen_completed and bump_urge_count: open, or completed and urged by hand;
   a scan counts once a day. *)
Bumpable(r, t) ==
    \/ IsOpen(t) /\ (req[r].op = "scan" => t.autoOn # day)
    \/ req[r].op = "once" /\ t.exists /\ t.reason = "COMPLETED"

Bump(r) ==
    /\ req[r].pc = "bump"
    /\ IF Bumpable(r, Mine(r))
       THEN /\ FreeTask(r)
            /\ WriteTask(r, Bumped(r, Mine(r)), "record")
            /\ UNCHANGED <<world, promoX, promoS, lost>>
       ELSE Refuse(r)

(* INSERT INTO urge_record, and the line event. *)
Record(r) ==
    /\ req[r].pc = "record" /\ FreeS(r)
    /\ promoS' = promoS \cup {r}
    /\ req' = [req EXCEPT ![r].sent = TRUE, ![r].pc = "commit"]
    /\ UNCHANGED <<world, promoX, taskX, lost>>

-----------------------------------------------------------------------------
(* Closing: close_task, complete_task, and the stale tasks of a scan. *)

BeginClose(r) ==
    \/ task.exists /\ Start(r, "manual", "close")
    \/ IsOpen(task) /\ Start(r, "complete", "close")

ReasonOf(r) ==
    CASE req[r].op = "manual" -> "MANUAL"
      [] req[r].op = "complete" -> "COMPLETED"
      [] req[r].op = "publish" -> "PUBLISHED"
      [] req[r].op \in {"cancel", "recall"} -> "CANCELLED"
      [] OTHER -> IF promo.publish = "PUBLISHED" THEN "PUBLISHED" ELSE "CANCELLED"

(* Mutant: UPDATE ... WHERE id, without the status. *)
CloseTaskById(r) ==
    /\ req[r].pc = "close"
    /\ FreeTask(r)
    /\ WriteTask(r, [task EXCEPT !.reason = ReasonOf(r)], "event")
    /\ UNCHANGED <<world, promoX, promoS, lost>>

CloseTask(r) ==
    /\ req[r].pc = "close"
    /\ IF IsOpen(task)
       THEN /\ FreeTask(r)
            /\ WriteTask(r, [task EXCEPT !.reason = ReasonOf(r)], "event")
            /\ UNCHANGED <<world, promoX, promoS, lost>>
       ELSE Refuse(r)

(* The line event; a closing by hand inserts an urge_record as well, for the
   note. *)
CloseEvent(r) ==
    /\ req[r].pc = "event" /\ FreeS(r)
    /\ promoS' = promoS \cup {r}
    /\ req' = [req EXCEPT ![r].noted = req[r].op = "manual", ![r].pc = "commit"]
    /\ UNCHANGED <<world, promoX, taskX, lost>>

-----------------------------------------------------------------------------
(* The promotion: publish, cancel, start_recall of an unpublished one, and
   deactivation, which leaves the task to the scan. *)

BeginEnd(r) ==
    /\ Urgeable(promo)
    /\ \E op \in Ending : Start(r, op, "lock")

(* Mutant: FOR NO KEY UPDATE, which does not wait for those who hold the key. *)
LockPromotionShared(r) ==
    /\ req[r].pc = "lock" /\ FreeS(r)
    /\ IF Urgeable(promo)
       THEN promoX' = r /\ Go(r, "end") /\ UNCHANGED <<world, promoS, taskX, lost>>
       ELSE Refuse(r)

LockPromotion(r) ==
    /\ req[r].pc = "lock" /\ FreeX(r)
    /\ IF Urgeable(promo)
       THEN promoX' = r /\ Go(r, "end") /\ UNCHANGED <<world, promoS, taskX, lost>>
       ELSE Refuse(r)

(* close_by_promotion: an open task is closed; a task nobody has committed, or
   a closed one that another request is about to reopen, is not seen. *)
CloseByPromotion(r) ==
    /\ req[r].pc = "end"
    /\ IF IsOpen(task) /\ req[r].op # "deactivate"
       THEN /\ FreeTask(r)
            /\ WriteTask(r, [task EXCEPT !.reason = ReasonOf(r)], "commit")
            /\ UNCHANGED <<promoX, promoS>>
       ELSE Go(r, "commit") /\ UNCHANGED locks
    /\ UNCHANGED <<world, lost>>

Ended(op) ==
    CASE op = "publish" -> [promo EXCEPT !.publish = "PUBLISHED"]
      [] op \in {"cancel", "recall"} -> [promo EXCEPT !.publish = "CANCELLED"]
      [] op = "deactivate" -> [promo EXCEPT !.active = FALSE]
      [] OTHER -> promo

-----------------------------------------------------------------------------

Commit(r) ==
    /\ req[r].pc = "commit"
    /\ promo' = Ended(req[r].op)
    /\ task' = IF taskX = r THEN req[r].w ELSE task
    /\ records' = IF req[r].sent \/ req[r].noted THEN records + 1 ELSE records
    /\ autos' = IF req[r].sent /\ req[r].op = "scan" /\ req[r].w.autoOn = day
                THEN autos + 1 ELSE autos
    /\ Release(r, "idle")
    /\ UNCHANGED <<day, scanning, lost>>

(* r waits for a lock that q holds. *)
Waits(r, q) ==
    /\ r # q
    /\ \/ req[r].pc \in {"record", "event"} /\ promoX = q
       \/ req[r].pc = "ensure" /\ ~task.exists /\ (promoX = q \/ taskX = q)
       \/ req[r].pc = "lock" /\ (promoX = q \/ q \in promoS)
       \/ req[r].pc = "bump" /\ Bumpable(r, Mine(r)) /\ taskX = q
       \/ req[r].pc = "close" /\ IsOpen(task) /\ taskX = q
       \/ req[r].pc = "end" /\ IsOpen(task) /\ req[r].op # "deactivate" /\ taskX = q

(* r is on a cycle of at most three waiting requests. *)
Deadlocked(r) ==
    \E q, s \in Req : Waits(r, q) /\ (Waits(q, r) \/ (Waits(q, s) /\ Waits(s, r)))

(* The database ends one of them.  For publish and cancel the error is raised
   inside _close_urge_task, which swallows it, and the dead transaction goes on
   to a commit that commits nothing. *)
Victim(r) ==
    /\ Deadlocked(r)
    /\ Release(r, "victim")
    /\ UNCHANGED <<world, lost>>

Answer(r) ==
    /\ req[r].pc = "victim"
    /\ req' = [req EXCEPT ![r] = Idle]
    /\ UNCHANGED <<world, locks, lost>>

(* The process, the connection or the screenshot upload fails: rollback. *)
Lose(r) ==
    /\ req[r].pc \notin {"idle", "victim"} /\ lost < MaxLost
    /\ Release(r, "idle")
    /\ lost' = lost + 1
    /\ UNCHANGED world

(* Scans that read their day before midnight are not followed past it. *)
NextDay ==
    /\ day < MaxDay
    /\ \A r \in Req : req[r].op # "scan"
    /\ day' = day + 1 /\ autos' = 0
    /\ UNCHANGED <<promo, task, records, scanning, req, locks, lost>>

(* update_config. *)
SwitchScan ==
    /\ scanning' = ~scanning
    /\ UNCHANGED <<promo, task, records, autos, day, req, locks, lost>>

Step(r) ==
    \/ EnsureTask(r) \/ Bump(r) \/ Record(r) \/ CloseTask(r) \/ CloseEvent(r)
    \/ LockPromotion(r) \/ CloseByPromotion(r) \/ Commit(r) \/ Victim(r) \/ Answer(r)

Next ==
    \/ \E r \in Req : \/ Step(r)
                      \/ Lose(r)
                      \/ BeginScan(r)
                      \/ r # Scanner /\ (BeginUrge(r) \/ BeginClose(r) \/ BeginEnd(r))
    \/ NextDay \/ SwitchScan

(* Transactions run on, the database looks for deadlocks, and Beat keeps
   sending the scan, which does nothing while it is switched off. *)
Fairness ==
    /\ \A r \in Req : WF_vars(Step(r))
    /\ WF_vars(BeginScan(Scanner))

Spec == Init /\ [][Next]_vars /\ Fairness

-----------------------------------------------------------------------------
(* Properties. *)

(* Each urge has one record and one count, and there is one record more for a
   closing by hand: no interleaving of urges, scans and closings, two closings
   of one task among them, loses or repeats either. *)
Recorded(t) == t.count + (IF t.reason = "MANUAL" THEN 1 ELSE 0)
CountMatchesRecords == records = Recorded(task)

(* Claim of the code, which CountMatchesRecords refutes: dashboard_counts, which
   counts the records, counts urges. *)
DashboardCountsUrges == records = task.count

(* However many scans run, a promotion is urged automatically once a day. *)
OneAutoUrgePerDay == autos <= 1

(* A task closed because its promotion ended, or by a manager, stays closed and
   is never counted again; only a completed one can be reopened, and only
   together with an urge. *)
ClosedStaysClosed ==
    [][task.exists /\ task.reason # "NONE" /\ task' # task =>
         task.reason = "COMPLETED" /\ IsOpen(task') /\ task'.count = task.count + 1]_vars

(* Whatever raced with the end of the promotion, a task left open on it is
   closed in the end, by the daily scan if by nobody else, provided that the
   tenant leaves the scan on from some day on. *)
StaleTaskCloses == (<>[]scanning) => (~Urgeable(promo) ~> ~IsOpen(task))

(* Claim of the code: nothing the urge side does may make publish or cancel
   fail. *)
PublishSurvivesUrge ==
    \A r \in Req : req[r].pc = "victim" => req[r].op \notin {"publish", "cancel"}

=============================================================================
