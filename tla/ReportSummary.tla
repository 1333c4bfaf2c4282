--------------------------- MODULE ReportSummary ---------------------------
(***************************************************************************)
(* The summary tables of the reports (modules/report): refreshes copy what  *)
(* the live queries say into them and record which days they cover; a       *)
(* change of the report's rules (a platform link, a platform metric) clears *)
(* the coverage, and readers go back to the live queries.                   *)
(*                                                                          *)
(* Every refresh, and every rule change, is one transaction under READ      *)
(* COMMITTED.  A refresh tries the tenant's advisory lock and gives up when *)
(* it is held, a rule change waits for it.  The data behind the reports     *)
(* (imports, page edits) changes without that lock.  A version number       *)
(* stands for the data of a day and for the rules.  Meanwhile the calendar    *)
(* moves on, and with it the window of the days the tasks keep fresh.        *)
(***************************************************************************)
EXTENDS Integers, FiniteSets

CONSTANTS
    Day,        \* days of one tenant, past and to come
    FirstToday, \* the day it is at first
    LastToday,  \* bound: the last day that comes
    WindowDays, \* REFRESH_WINDOW_DAYS: 31
    Near,       \* Near[d]: the days of d's week and month
    Change,     \* requests that change the rules, each at most once
    NoOne,      \* nobody holds the advisory lock
    MaxImports, \* bound: imports
    MaxPresses, \* bound: uses of the refresh button
    MaxFaults   \* bound: refreshes that roll back

(* The transactions that refresh: the hourly one, its second transaction for
   days whose urge status drifts, the one an import asks for, the button. *)
Refresh == {"hourly", "drift", "import", "manual"}

ASSUME DayAssumption ==
    /\ IsFiniteSet(Day) /\ Day \subseteq Int
    /\ FirstToday \in Int /\ LastToday \in Int /\ FirstToday <= LastToday
    /\ WindowDays \in Nat
    /\ Near \in [Day -> SUBSET Day] /\ \A d \in Day : d \in Near[d]
ASSUME ChangeAssumption == NoOne \notin Change \cup Refresh /\ Change \cap Refresh = {}
ASSUME BoundAssumption == MaxImports \in Nat /\ MaxPresses \in Nat /\ MaxFaults \in Nat

VARIABLES
    today,   \* the calendar
    data,    \* version of the committed business data of a day
    rules,   \* version of the committed links and metric settings
    cov,     \* report_summary_coverage
    table,   \* the three daily summary tables
    ref,     \* the refresh transactions
    chg,     \* the rule changes
    lock,    \* holder of the advisory lock
    asked,   \* days of the refreshes in the queue that imports asked for
    hour,    \* the day it was when the hourly task began
    late,    \* the refreshes that midnight or a rule change has overtaken
    left     \* imports, presses and faults still to come

vars == <<today, data, rules, cov, table, ref, chg, lock, asked, hour, late, left>>

-----------------------------------------------------------------------------

(* The days the tasks refresh, on a given day: none of them is to come. *)
Window(t) == {d \in Day : t - WindowDays < d /\ d <= t}

(* product_roi_summary, pr_work_progress_summary, shop_daily_summary *)
Table == {"roi", "progress", "shop"}

Version == [data : Nat, rules : Nat]

(* Which table a refresh reads next; pc names the one it read last. *)
NextTable == [locked |-> "roi", roi |-> "progress", progress |-> "shop"]

RefreshState == [pc : {"idle", "due", "planned", "locked"} \cup Table, of : SUBSET Day,
                 days : SUBSET Day, rows : [Table -> [Day -> Version]]]

Budget == [imports : 0..MaxImports, presses : 0..MaxPresses, faults : 0..MaxFaults]

TypeOK ==
    /\ today \in FirstToday..LastToday /\ hour \in FirstToday..LastToday
    /\ late \subseteq Refresh
    /\ data \in [Day -> Nat] /\ rules \in Nat
    /\ cov \subseteq Day
    /\ table \in [Table -> [Day -> Version]]
    /\ ref \in [Refresh -> RefreshState]
    /\ chg \in [Change -> {"new", "waiting", "locked", "done"}]
    /\ lock \in Refresh \cup Change \cup {NoOne}
    /\ asked \subseteq SUBSET Day
    /\ left \in Budget

NoRows == [t \in Table |-> [d \in Day |-> [data |-> 0, rules |-> 0]]]
IdleRefresh == [pc |-> "idle", of |-> {}, days |-> {}, rows |-> NoRows]

Init ==
    /\ today = FirstToday /\ hour = FirstToday /\ late = {}
    /\ data = [d \in Day |-> 0] /\ rules = 0
    /\ cov = {}
    /\ table = NoRows
    /\ ref = [f \in Refresh |-> IdleRefresh]
    /\ chg = [c \in Change |-> "new"]
    /\ lock = NoOne
    /\ asked = {}
    /\ left = [imports |-> MaxImports, presses |-> MaxPresses, faults |-> MaxFaults]

Spend(what) == left[what] > 0 /\ left' = [left EXCEPT ![what] = @ - 1]

-----------------------------------------------------------------------------
(* The calendar and imports *)

(* The refreshes that are under way: midnight and a commit of a rule change
   overtake them. *)
UnderWay == {f \in Refresh : ref[f].days # {}}

NextDay ==
    /\ today < LastToday
    /\ today' = today + 1
    /\ late' = UnderWay
    /\ UNCHANGED <<data, rules, cov, table, ref, chg, lock, asked, hour, left>>

(* _AffectedDates: from the first day to the last. *)
Span(days) == {d \in Day : \E a, b \in days : a <= d /\ d <= b}

(* An import commits rows of some days, past or to come;
   _enqueue_summary_refresh asks for their refresh, or fails and only logs it. *)
Import ==
    /\ Spend("imports")
    /\ \E days \in SUBSET Day \ {{}} :
          /\ data' = [d \in Day |-> IF d \in days THEN data[d] + 1 ELSE data[d]]
          /\ asked' \in {asked, asked \cup {Span(days)}}
    /\ UNCHANGED <<today, rules, cov, table, ref, chg, lock, hour, late>>

-----------------------------------------------------------------------------
(* Refreshes *)

(* target_runs: of the days of an import, those that are covered and those of
   the window. *)
TargetRuns(days) == days \cap (cov \cup Window(today))

Starts(f, of, days) ==
    /\ ref' = [ref EXCEPT ![f] = IF days = {} THEN IdleRefresh
                                 ELSE [IdleRefresh EXCEPT !.pc = "planned", !.of = of, !.days = days]]
    /\ late' = late \ {f}

(* Mutant: skips the days that are covered already. *)
BeginHourlyUncovered ==
    /\ ref["hourly"].pc = "idle" /\ ref["drift"].pc = "idle"
    /\ Starts("hourly", {}, Window(today) \ cov)
    /\ hour' = today
    /\ UNCHANGED <<today, data, rules, cov, table, chg, lock, asked, left>>

BeginHourly ==
    /\ ref["hourly"].pc = "idle" /\ ref["drift"].pc = "idle"
    /\ Starts("hourly", {}, Window(today))
    /\ hour' = today
    /\ UNCHANGED <<today, data, rules, cov, table, chg, lock, asked, left>>

(* urge_drift_dates: some covered days before the window of the hourly task,
   read before the lock is asked for. *)
BeginDrift ==
    /\ ref["drift"].pc = "due"
    /\ \E days \in SUBSET {d \in cov : d <= hour - WindowDays} : Starts("drift", {}, days)
    /\ UNCHANGED <<today, data, rules, cov, table, chg, lock, asked, hour, left>>

(* Mutant: refreshes every day the import touched. *)
BeginImportAll ==
    /\ ref["import"].pc = "idle"
    /\ \E of \in asked :
          /\ Starts("import", of, of)
          /\ asked' = asked \ {of}
    /\ UNCHANGED <<today, data, rules, cov, table, chg, lock, hour, left>>

(* Takes a request from the queue; the coverage is read before the lock is
   asked for. *)
BeginImport ==
    /\ ref["import"].pc = "idle"
    /\ \E of \in asked :
          /\ Starts("import", of, TargetRuns(of))
          /\ asked' = asked \ {of}
    /\ UNCHANGED <<today, data, rules, cov, table, chg, lock, hour, left>>

(* The refresh button, for the days the user chose, up to today. *)
BeginManual ==
    /\ ref["manual"].pc = "idle"
    /\ Spend("presses")
    /\ \E lo, hi \in Day :
          /\ lo <= hi /\ lo <= today
          /\ Starts("manual", {}, {d \in Day : lo <= d /\ d <= hi /\ d <= today})
    /\ UNCHANGED <<today, data, rules, cov, table, chg, lock, asked, hour>>

Begin == BeginHourly \/ BeginDrift \/ BeginImport \/ BeginManual

(* Mutant: no lock for refreshes. *)
FreeAlways == TRUE

Free == lock = NoOne

Ends(f) ==
    /\ ref' = [ref EXCEPT ![f] = IdleRefresh]
    /\ late' = late \ {f}

(* The import's task is retried, until its retries are used up. *)
Requeues(f) ==
    asked' \in (IF f = "import" THEN {asked, asked \cup {ref[f].of}} ELSE {asked})

(* pg_try_advisory_xact_lock *)
TryLock(f) ==
    /\ ref[f].pc = "planned" /\ Free
    /\ lock' = f
    /\ ref' = [ref EXCEPT ![f].pc = "locked"]
    /\ UNCHANGED <<today, data, rules, cov, table, chg, asked, hour, late, left>>

(* SummaryRefreshBusyError: the hourly refresh skips this round, the button
   answers 409, the import's is retried. *)
Busy(f) ==
    /\ ref[f].pc = "planned" /\ ~Free
    /\ Ends(f)
    /\ Requeues(f)
    /\ UNCHANGED <<today, data, rules, cov, table, chg, lock, hour, left>>

(* The shop's table is refreshed in whole weeks and months. *)
Extent(t, days) == IF t = "shop" THEN UNION {Near[d] : d \in days} ELSE days

(* Delete and insert of the days of one table: the new rows are what the live
   query of that table sees committed. *)
Read(f) ==
    /\ ref[f].pc \in DOMAIN NextTable
    /\ LET t == NextTable[ref[f].pc] IN
          ref' = [ref EXCEPT
                    ![f].pc = t,
                    ![f].rows[t] = [d \in Day |->
                         IF d \in Extent(t, ref[f].days)
                         THEN [data |-> data[d], rules |-> rules] ELSE NoRows[t][d]]]
    /\ UNCHANGED <<today, data, rules, cov, table, chg, lock, asked, hour, late, left>>

Releases(who) == lock' = IF lock = who THEN NoOne ELSE lock

(* All three tables and the coverage; the hourly task goes on to the drift. *)
Commit(f) ==
    /\ ref[f].pc = "shop"
    /\ table' = [t \in Table |-> [d \in Day |->
                    IF d \in Extent(t, ref[f].days) THEN ref[f].rows[t][d] ELSE table[t][d]]]
    /\ cov' = cov \cup ref[f].days
    /\ ref' = IF f = "hourly" THEN [ref EXCEPT ![f] = IdleRefresh, !["drift"].pc = "due"]
                              ELSE [ref EXCEPT ![f] = IdleRefresh]
    /\ late' = late \ {f}
    /\ Releases(f)
    /\ UNCHANGED <<today, data, rules, chg, asked, hour, left>>

(* The transaction rolls back: an error, a lost worker.  What an import asked
   for may be lost with it. *)
Abort(f) ==
    /\ ref[f].pc # "idle"
    /\ Spend("faults")
    /\ Ends(f)
    /\ Requeues(f)
    /\ Releases(f)
    /\ UNCHANGED <<today, data, rules, cov, table, chg, hour>>

-----------------------------------------------------------------------------
(* Changes of the rules *)

Moves(c, pc) == chg' = [chg EXCEPT ![c] = pc]

(* A link is changed and flushed before the lock, a metric setting is read and
   changed after it: either is visible at the commit only. *)
Ask(c) ==
    /\ chg[c] = "new"
    /\ Moves(c, "waiting")
    /\ UNCHANGED <<today, data, rules, cov, table, ref, lock, asked, hour, late, left>>

(* Mutant: does not wait for a refresh that is running. *)
WaitLockNot(c) ==
    /\ chg[c] = "waiting"
    /\ Moves(c, "locked")
    /\ UNCHANGED <<today, data, rules, cov, table, ref, lock, asked, hour, late, left>>

(* acquire_summary_refresh_lock: blocks ... *)
WaitLock(c) ==
    /\ chg[c] = "waiting"
    /\ lock = NoOne
    /\ lock' = c
    /\ Moves(c, "locked")
    /\ UNCHANGED <<today, data, rules, cov, table, ref, asked, hour, late, left>>

(* ... for LOCK_TIMEOUT at most; then, or on an error, nothing has changed. *)
GiveUp(c) ==
    /\ chg[c] \in {"waiting", "locked"}
    /\ Releases(c)
    /\ Moves(c, "done")
    /\ UNCHANGED <<today, data, rules, cov, table, ref, asked, hour, late, left>>

(* The business change and the cleared coverage, in one commit. *)
Invalidate(c) ==
    /\ chg[c] = "locked"
    /\ rules' = rules + 1
    /\ cov' = {}
    /\ late' = UnderWay
    /\ Releases(c)
    /\ Moves(c, "done")
    /\ UNCHANGED <<today, data, table, ref, asked, hour, left>>

-----------------------------------------------------------------------------

RefreshStep(f) == TryLock(f) \/ Busy(f) \/ Read(f) \/ Commit(f)
ChangeStep(c) == WaitLock(c) \/ GiveUp(c) \/ Invalidate(c)

Next ==
    \/ NextDay
    \/ Import
    \/ Begin
    \/ \E f \in Refresh : RefreshStep(f) \/ Abort(f)
    \/ \E c \in Change : Ask(c) \/ ChangeStep(c)

Spec == Init /\ [][Next]_vars

(* Beat starts the hourly refresh again and again, the worker takes what is
   queued, and a transaction that is not rolled back ends.  Nobody has to press
   the button or to change the rules, and the property speaks of the day on which
   the calendar stands when nothing is imported any more. *)
FairSpec ==
    /\ Spec
    /\ WF_vars(BeginHourly) /\ WF_vars(BeginDrift) /\ WF_vars(BeginImport)
    /\ \A f \in Refresh : WF_vars(RefreshStep(f))
    /\ \A c \in Change : WF_vars(ChangeStep(c))

-----------------------------------------------------------------------------
(* Properties *)

(* summary_invalidation.py: no refresh that computed with the old rules brings
   their numbers back under a coverage record.  A covered day shows the rules
   in force, in all tables. *)
CoveredUsesCurrentRules ==
    \A t \in Table, d \in cov : table[t][d].rules = rules

(* "Why a lock" (summary_refresh_service.py): of two refreshes of a day the
   one with older data never has the last word. *)
NeverBackwards ==
    [][\A t \in Table, d \in Day : table'[t][d].data >= table[t][d].data]_vars

(* The reports of the last 31 days catch up with the data, although any one
   refresh may find the lock taken or fail: once no more is imported, and for as
   long as the day lasts, they are covered by rows as new as the data. *)
WindowCatchesUp ==
    <>[](\A d \in Window(today) : d \in cov /\ \A t \in Table : table[t][d].data = data[d])

(* target_runs: a day of history that is not covered is read live, and covering
   it would freeze it.  A day outside the window becomes covered by the button,
   or by a task that planned it while it was in the window or covered, and that
   midnight or a rule change has overtaken before its commit. *)
TasksFreezeOnlyLate ==
    [][\A d \in cov' \ (cov \cup Window(today)) : \E f \in Refresh :
          /\ Commit(f) /\ d \in ref[f].days
          /\ (f = "manual" /\ d <= today) \/ f \in late]_vars

(* What target_runs promises without that exception: only the button covers a
   day outside the window. *)
HistoryStaysLive ==
    [][\A d \in cov' \ (cov \cup Window(today)) : Commit("manual")]_vars

=============================================================================
