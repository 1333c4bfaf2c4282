------------------------------ MODULE Crawler ------------------------------
(***************************************************************************)
(* The pull queue of crawler tasks: modules/collect on the server,          *)
(* rpa-worker on the office machines, and the failure counter of the        *)
(* platform credential the tasks log in with (modules/credential).          *)
(*                                                                          *)
(* A task is leased by poll under a fresh cred_token.  The token is traded  *)
(* for the password once (exchange) and stays on the row as the generation  *)
(* of the lease: a result is taken only under the token of the row.  Each   *)
(* server handler locks the task row (FOR UPDATE, or SKIP LOCKED in poll)   *)
(* and commits once, so it is one action.  Requests travel in net: a client *)
(* that times out sends again while the first one may still be on its way,  *)
(* and a reply may be lost after the commit.  All worker processes present  *)
(* the same worker token, so the binding of a task to worker_token_id keeps *)
(* none of them out; only the fencing by cred_token does.                   *)
(***************************************************************************)
EXTENDS Integers, FiniteSets

CONSTANTS
    Task,       \* one task per target date, all of one credential
    Worker,     \* worker processes
    Threshold,  \* CONSECUTIVE_FAILURE_THRESHOLD
    MaxTries,   \* range(3) of report_success and report_failed
    MaxFaults   \* bound: faults (lost messages, crashes, slow collectors)

ASSUME TaskAssumption == IsFiniteSet(Task)
ASSUME BoundAssumption ==
    Threshold \in Nat \ {0} /\ MaxTries \in Nat \ {0} /\ MaxFaults \in Nat

VARIABLES
    task,    \* crawler_task rows; late: its lease is over by the clock
    cred,    \* the credential row
    admin,   \* a pause or resume request between its read and its commit
    wk,      \* worker processes
    net,     \* requests sent and not handled yet
    acked,   \* outcomes some worker got a 200 for
    gen,     \* cred_tokens issued so far
    faults   \* faults so far

vars == <<task, cred, admin, wk, net, acked, gen, faults>>

-----------------------------------------------------------------------------

NoTok == 0      \* cred_token IS NULL

Terminal == {"success", "failed"}
Leased == {"assigned", "exchanged"}

TaskRow == [status : {"none", "pending"} \cup Leased \cup Terminal,
            tok : Nat, late : BOOLEAN]

(* pc "exchange": waits for the password; "collect": runs the local adapter;
   a terminal status: waits for the answer to the report of that status. *)
WorkerState == [pc : {"idle", "exchange", "collect"} \cup Terminal,
                k : Task, tok : Nat, try : Nat]

CredStatus == {"active", "paused"}

Request == [w : Worker, k : Task, tok : Nat, what : {"exchange"} \cup Terminal, try : Nat]

TypeOK ==
    /\ task \in [Task -> TaskRow]
    /\ cred \in [status : CredStatus, fails : Nat]
    /\ admin \in [op : {"none", "pause", "resume"}, status : CredStatus, fails : Nat]
    /\ wk \in [Worker -> WorkerState]
    /\ net \subseteq Request
    /\ acked \subseteq Task \X Terminal
    /\ gen \in Nat
    /\ faults \in 0..MaxFaults

AdminIdle == [op |-> "none", status |-> "active", fails |-> 0]

Init ==
    /\ task = [k \in Task |-> [status |-> "none", tok |-> NoTok, late |-> FALSE]]
    /\ cred = [status |-> "paused", fails |-> 0]
    /\ admin = AdminIdle
    /\ \E k \in Task :
          wk = [w \in Worker |-> [pc |-> "idle", k |-> k, tok |-> NoTok, try |-> 0]]
    /\ net = {}
    /\ acked = {}
    /\ gen = 0
    /\ faults = 0

Fault == faults < MaxFaults /\ faults' = faults + 1
NoFault == UNCHANGED faults

(* Costs a fault unless free holds. *)
FaultUnless(free) == IF free THEN NoFault ELSE Fault

-----------------------------------------------------------------------------
(* Scheduling and the administrator *)

(* schedule_for_tenant: INSERT ... ON CONFLICT DO NOTHING for the active
   credential. *)
Schedule(k) ==
    /\ cred.status = "active"
    /\ task[k].status = "none"
    /\ task' = [task EXCEPT ![k].status = "pending"]
    /\ UNCHANGED <<cred, admin, wk, net, acked, gen, faults>>

(* pause and resume read the row without a lock ... *)
AdminRead ==
    /\ admin.op = "none"
    /\ \E op \in {"pause", "resume"} :
          admin' = [op |-> op, status |-> cred.status, fails |-> cred.fails]
    /\ UNCHANGED <<task, cred, wk, net, acked, gen, faults>>

(* ... and their flush writes the attributes that differ from what was read. *)
Column(new, read, now) == IF new = read THEN now ELSE new

AdminWrite ==
    /\ admin.op # "none"
    /\ cred' = IF admin.op = "pause"
               THEN [cred EXCEPT !.status = Column("paused", admin.status, @)]
               ELSE [status |-> Column("active", admin.status, cred.status),
                     fails |-> Column(0, admin.fails, cred.fails)]
    /\ admin' = AdminIdle
    /\ UNCHANGED <<task, wk, net, acked, gen, faults>>

-----------------------------------------------------------------------------
(* Poll *)

(* Mutant: a lease whose password was handed out is never reclaimed. *)
ReclaimedAssigned(k) ==
    IF task[k].status = "assigned" /\ task[k].late
    THEN [status |-> "pending", tok |-> NoTok, late |-> FALSE]
    ELSE task[k]

(* The first UPDATE of poll_next_task: leases that ran out are pending again. *)
Reclaimed(k) ==
    IF task[k].status \in Leased /\ task[k].late
    THEN [status |-> "pending", tok |-> NoTok, late |-> FALSE]
    ELSE task[k]

Ask(w, k, tok, what, try) == [w |-> w, k |-> k, tok |-> tok, what |-> what, try |-> try]

(* The worker goes from one call to the next: state and request in one. *)
Send(w, k, tok, what, try) ==
    /\ wk' = [wk EXCEPT ![w] = [pc |-> what, k |-> k, tok |-> tok, try |-> try]]
    /\ net' = net \cup {Ask(w, k, tok, what, try)}

(* poll_next_task and, if its answer arrives, the exchange request _process
   starts with. *)
Poll(w, arrives) ==
    \E k \in Task :
       /\ Reclaimed(k).status = "pending"
       /\ gen' = gen + 1
       /\ task' = [[j \in Task |-> Reclaimed(j)] EXCEPT
                     ![k] = [status |-> "assigned", tok |-> gen + 1, late |-> FALSE]]
       /\ IF arrives
          THEN wk[w].pc = "idle" /\ Send(w, k, gen + 1, "exchange", 1) /\ NoFault
          ELSE UNCHANGED <<wk, net>> /\ Fault
       /\ UNCHANGED <<cred, admin, acked>>

(* Somebody still works, or waits, under this token. *)
InUse(tok) == \/ \E w \in Worker : wk[w].pc # "idle" /\ wk[w].tok = tok
              \/ \E m \in net : m.tok = tok

(* The clock passes cred_token_expires_at, or assigned_at + 40 minutes.  A
   lease nobody uses any more runs out for certain; one in use only when its
   worker or the network is that slow. *)
LeaseEnds(k) ==
    /\ task[k].status \in Leased /\ ~task[k].late
    /\ FaultUnless(~InUse(task[k].tok))
    /\ task' = [task EXCEPT ![k].late = TRUE]
    /\ UNCHANGED <<cred, admin, wk, net, acked, gen>>

-----------------------------------------------------------------------------
(* The worker's side *)

GoesIdle(w) == wk' = [wk EXCEPT ![w].pc = "idle"]

(* The adapter ends; the result is reported. *)
Collect(w) ==
    /\ wk[w].pc = "collect"
    /\ \E st \in Terminal : Send(w, wk[w].k, wk[w].tok, st, 1)
    /\ UNCHANGED <<task, cred, admin, acked, gen, faults>>

(* The request w waits for, if it has not been handled yet. *)
Current(w) == Ask(w, wk[w].k, wk[w].tok, wk[w].pc, wk[w].try)

(* Its worker still waits for the answer to m. *)
Waits(m) == wk[m.w].pc # "idle" /\ m = Current(m.w)

(* No answer in time: exchange gives up, a report is sent up to MaxTries
   times. *)
Timeout(w) ==
    /\ wk[w].pc \in {"exchange"} \cup Terminal
    /\ FaultUnless(Current(w) \notin net)
    /\ IF wk[w].pc \in Terminal /\ wk[w].try < MaxTries
       THEN Send(w, wk[w].k, wk[w].tok, wk[w].pc, wk[w].try + 1)
       ELSE GoesIdle(w) /\ UNCHANGED net
    /\ UNCHANGED <<task, cred, admin, acked, gen>>

(* The process dies, or is asked to stop and reports nothing any more. *)
Crash(w) ==
    /\ wk[w].pc # "idle"
    /\ Fault
    /\ GoesIdle(w)
    /\ UNCHANGED <<task, cred, admin, net, acked, gen>>

(* A request is lost, or its handler fails and leaves the rows as they are
   (no such password, a file that is no report): 4xx ends the worker's try. *)
Lose(m) ==
    /\ Fault
    /\ net' = net \ {m}
    /\ UNCHANGED wk \/ (Waits(m) /\ GoesIdle(m.w))
    /\ UNCHANGED <<task, cred, admin, acked, gen>>

-----------------------------------------------------------------------------
(* exchange_credential and report_result *)

(* The answer to m: ok moves its worker on, an error ends its task (4xx is
   not retried).  Nobody waits any more, or the answer is lost. *)
Answer(m, ok) ==
    /\ net' = net \ {m}
    /\ \/ /\ Waits(m)
          /\ IF ok /\ m.what = "exchange"
             THEN wk' = [wk EXCEPT ![m.w].pc = "collect"]
             ELSE GoesIdle(m.w)
          /\ acked' = IF ok /\ m.what \in Terminal
                      THEN acked \cup {<<m.k, m.what>>} ELSE acked
          /\ NoFault
       \/ /\ FaultUnless(~Waits(m))
          /\ UNCHANGED <<wk, acked>>

TokenValid(m) ==
    task[m.k].status = "assigned" /\ task[m.k].tok = m.tok /\ ~task[m.k].late

(* exchange_credential: the password for a fresh token, once. *)
Exchange(m) ==
    /\ m.what = "exchange"
    /\ task' = IF TokenValid(m) THEN [task EXCEPT ![m.k].status = "exchanged"] ELSE task
    /\ Answer(m, TokenValid(m))
    /\ UNCHANGED <<cred, admin, gen>>

(* CredentialService.report_success and report_failure *)
Counted(st) ==
    IF st = "success" THEN [cred EXCEPT !.fails = 0]
    ELSE [status |-> IF cred.fails + 1 >= Threshold THEN "paused" ELSE cred.status,
          fails |-> cred.fails + 1]

(* Mutants: the lease is not compared; a repeated report counts again. *)
SameLeaseAny(m) == task[m.k].tok # NoTok

RepeatCounting(m) ==
    /\ task[m.k].status = m.what
    /\ cred' = Counted(m.what)
    /\ Answer(m, TRUE)
    /\ UNCHANGED task

SameLease(m) == task[m.k].tok = m.tok

(* The result was recorded before and its answer got lost. *)
Repeat(m) ==
    /\ task[m.k].status = m.what
    /\ Answer(m, TRUE)
    /\ UNCHANGED <<task, cred>>

(* The result, the credential's counter and, for a success, the import batch
   in one transaction. *)
Record(m) ==
    /\ task[m.k].status = "exchanged"
    /\ task' = [task EXCEPT ![m.k].status = m.what, ![m.k].late = FALSE]
    /\ cred' = Counted(m.what)
    /\ Answer(m, TRUE)

(* A success for a source in RETIRED_SOURCES closes the task, counts against
   nobody and answers 422. *)
Retire(m) ==
    /\ m.what = "success" /\ task[m.k].status = "exchanged"
    /\ task' = [task EXCEPT ![m.k].status = "failed", ![m.k].late = FALSE]
    /\ Answer(m, FALSE)
    /\ UNCHANGED cred

(* Another lease, another outcome, or no password handed out: 409. *)
Refuse(m) ==
    /\ ~(SameLease(m) /\ task[m.k].status \in {"exchanged", m.what})
    /\ Answer(m, FALSE)
    /\ UNCHANGED <<task, cred>>

(* Mutant: the last report wins. *)
ReportLastWins(m) ==
    /\ m.what \in Terminal
    /\ task[m.k].status \in {"exchanged"} \cup Terminal
    /\ task' = [task EXCEPT ![m.k].status = m.what]
    /\ cred' = Counted(m.what)
    /\ Answer(m, TRUE)
    /\ UNCHANGED <<admin, gen>>

Report(m) ==
    /\ m.what \in Terminal
    /\ \/ SameLease(m) /\ (Repeat(m) \/ Record(m) \/ Retire(m))
       \/ Refuse(m)
    /\ UNCHANGED <<admin, gen>>

-----------------------------------------------------------------------------

Handled == \E m \in net : Exchange(m) \/ Report(m)

Next ==
    \/ \E k \in Task : Schedule(k) \/ LeaseEnds(k)
    \/ AdminRead \/ AdminWrite
    \/ \E w \in Worker :
          \/ \E arrives \in BOOLEAN : Poll(w, arrives)
          \/ Collect(w) \/ Timeout(w) \/ Crash(w)
    \/ \E m \in net : Lose(m)
    \/ Handled

Spec == Init /\ [][Next]_vars

(* The server answers, the clock runs, and every worker process goes on: the
   loop of worker/main.py polls for ever, its adapter has a hard timeout. *)
FairSpec ==
    /\ Spec
    /\ WF_vars(Handled)
    /\ \A k \in Task : WF_vars(NoFault /\ LeaseEnds(k))
    /\ \A w \in Worker : /\ WF_vars(Poll(w, TRUE))
                         /\ WF_vars(Collect(w))
                         /\ WF_vars(NoFault /\ Timeout(w))

-----------------------------------------------------------------------------
(* Properties *)

(* report_result: an outcome, once recorded, is final, whatever late, repeated
   or reordered report of whichever lease comes in. *)
TerminalIsFinal ==
    [][\A k \in Task : task[k].status \in Terminal => task'[k] = task[k]]_vars

(* main.py: "never overwrite a success with failed".  What any worker was told
   has been recorded is what the table says. *)
AcksAgree == \A a \in acked : task[a[1]].status = a[2]

(* Fencing: while the holder of the current lease runs its adapter, no earlier
   holder of the task ends it under its feet. *)
HolderKeepsTask ==
    \A w \in Worker :
       wk[w].pc = "collect" /\ wk[w].tok = task[wk[w].k].tok
          => task[wk[w].k].status = "exchanged"

Failed == {k \in Task : task[k].status = "failed"}

(* report_failure: a failed task counts once against the credential, however
   often its report is delivered. *)
FailuresCountedOnce == cred.fails <= Cardinality(Failed)

(* "Reclaims leases left by lost responses or dead workers" (poll_next_task):
   a scheduled task is not lost, as long as faults are finitely many. *)
EveryTaskEnds ==
    \A k \in Task : task[k].status = "pending" ~> task[k].status \in Terminal

=============================================================================
