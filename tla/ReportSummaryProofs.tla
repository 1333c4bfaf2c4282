------------------------ MODULE ReportSummaryProofs ------------------------
(***************************************************************************)
(* The safety of the summary refreshes, for any days, window and rule       *)
(* changes.  The argument: whoever holds the advisory lock is in the middle *)
(* of its transaction, so at most one refresh is reading and the rules do   *)
(* not change under it; what it has read so far is then of the rules in     *)
(* force and at least as new as what the tables hold.  The days a task means  *)
(* to refresh stay covered or in the window until midnight or the commit of   *)
(* a rule change overtakes it.                                               *)
(***************************************************************************)
EXTENDS ReportSummaryContract, TLAPS

-----------------------------------------------------------------------------
(* The inductive invariant *)

Holding == {"locked", "roi", "progress", "shop"}

(* The tables a refresh has read. *)
HasRead(f) == IF ref[f].pc = "roi" THEN {"roi"}
              ELSE IF ref[f].pc = "progress" THEN {"roi", "progress"}
              ELSE IF ref[f].pc = "shop" THEN Table ELSE {}

(* The lock and the transactions agree on who holds it. *)
LockInv ==
    /\ \A f \in Refresh : ref[f].pc \in Holding => lock = f
    /\ \A c \in Change : chg[c] = "locked" => lock = c

(* What a refresh has read is of the rules in force, and as new as the table. *)
RowsInv ==
    \A f \in Refresh : \A t \in HasRead(f) : \A d \in Extent(t, ref[f].days) :
        /\ ref[f].rows[t][d].rules = rules
        /\ table[t][d].data <= ref[f].rows[t][d].data
        /\ ref[f].rows[t][d].data <= data[d]

TableInv == \A t \in Table, d \in Day : table[t][d].data <= data[d]

(* The days of a task that nothing has overtaken are covered or in the window,
   those of the button are not to come. *)
WindowInv ==
    /\ \A f \in Refresh : f = "manual" \/ f \in late \/ ref[f].days \subseteq cov \cup Window(today)
    /\ \A d \in ref["manual"].days : d <= today

IInv == TypeOK /\ LockInv /\ RowsInv /\ TableInv /\ CoveredUsesCurrentRules /\ WindowInv

-----------------------------------------------------------------------------

LEMMA Spending ==
    ASSUME left \in Budget, NEW what \in {"imports", "presses", "faults"}, Spend(what)
    PROVE  left' \in Budget
<1>1. left[what] > 0 /\ left' = [left EXCEPT ![what] = left[what] - 1]
  BY DEF Spend
<1>2. CASE what = "imports"
  BY <1>1, <1>2, BoundAssumption DEF Budget
<1>3. CASE what = "presses"
  BY <1>1, <1>3, BoundAssumption DEF Budget
<1>4. CASE what = "faults"
  BY <1>1, <1>4, BoundAssumption DEF Budget
<1>5. QED
  BY <1>2, <1>3, <1>4

LEMMA IdleIsState == IdleRefresh \in RefreshState
BY DEF IdleRefresh, RefreshState, NoRows, Version, Table

LEMMA InitInv == Init => IInv
<1> SUFFICES ASSUME Init PROVE IInv
  OBVIOUS
<1>1. TypeOK
  <2>1. NoRows \in [Table -> [Day -> Version]]
    BY DEF NoRows, Version
  <2>2. left \in Budget
    BY BoundAssumption DEF Init, Budget
  <2>3. QED
    BY <2>1, <2>2, IdleIsState, DayAssumption DEF Init, TypeOK
<1>2. LockInv /\ RowsInv
  BY DEF Init, LockInv, RowsInv, HasRead, IdleRefresh, Holding
<1>3. TableInv /\ CoveredUsesCurrentRules
  BY DEF Init, TableInv, CoveredUsesCurrentRules, NoRows
<1>4. WindowInv
  BY DEF Init, WindowInv, IdleRefresh, Refresh
<1>5. QED
  BY <1>1, <1>2, <1>3, <1>4 DEF IInv

(* The days of the shop's table include the days themselves. *)
LEMMA ExtentContains ==
    ASSUME NEW t \in Table, NEW days \in SUBSET Day
    PROVE  days \subseteq Extent(t, days) /\ Extent(t, days) \subseteq Day
BY DayAssumption DEF Extent

(* A refresh that begins, gives up or ends without having written anything. *)
LEMMA QuietStep ==
    ASSUME IInv, NEW f \in Refresh, NEW x \in RefreshState, x.pc \notin Holding,
           ref' = [ref EXCEPT ![f] = x],
           lock' = lock \/ (lock = f /\ lock' = NoOne),
           late' = late \ {f}, hour' \in {hour, today},
           UNCHANGED <<today, data, rules, cov, table, chg>>,
           asked' \subseteq SUBSET Day, left' \in Budget,
           f = "manual" => \A d \in x.days : d <= today,
           f # "manual" => x.days \subseteq cov \cup Window(today)
    PROVE  IInv'
<1>1. TypeOK'
  BY DEF IInv, TypeOK
<1>2. ref'[f] = x /\ \A g \in Refresh \ {f} : ref'[g] = ref[g]
  BY DEF IInv, TypeOK
<1>3. LockInv'
  BY <1>2, ChangeAssumption DEF IInv, LockInv
<1>4. RowsInv'
  <2> SUFFICES ASSUME NEW g \in Refresh, NEW t \in HasRead(g)', NEW d \in Extent(t, ref'[g].days)
               PROVE  /\ ref'[g].rows[t][d].rules = rules
                      /\ table[t][d].data <= ref'[g].rows[t][d].data
                      /\ ref'[g].rows[t][d].data <= data[d]
    BY DEF RowsInv, Extent
  <2>1. g # f
    BY <1>2 DEF HasRead, Holding
  <2>2. t \in HasRead(g) /\ ref'[g] = ref[g]
    BY <1>2, <2>1 DEF HasRead
  <2>3. QED
    BY <2>2 DEF IInv, RowsInv
<1>5. TableInv' /\ CoveredUsesCurrentRules'
  BY DEF IInv, TableInv, CoveredUsesCurrentRules
<1>6. WindowInv'
  BY <1>2 DEF IInv, WindowInv, Window, Refresh
<1>7. QED
  BY <1>1, <1>3, <1>4, <1>5, <1>6 DEF IInv

LEMMA StartStep ==
    ASSUME IInv, NEW f \in Refresh, NEW of \in SUBSET Day, NEW days \in SUBSET Day,
           Starts(f, of, days), UNCHANGED <<today, data, rules, cov, table, chg, lock>>,
           hour' \in {hour, today},
           asked' \subseteq SUBSET Day, left' \in Budget,
           f = "manual" => \A d \in days : d <= today,
           f # "manual" => days \subseteq cov \cup Window(today)
    PROVE  IInv'
<1> DEFINE x == IF days = {} THEN IdleRefresh
                ELSE [IdleRefresh EXCEPT !.pc = "planned", !.of = of, !.days = days]
<1>1. x \in RefreshState /\ x.pc \notin Holding /\ (x.days = {} \/ x.days = days)
  BY IdleIsState DEF IdleRefresh, RefreshState, Holding
<1>2. ref' = [ref EXCEPT ![f] = x] /\ late' = late \ {f}
  BY DEF Starts
<1>3. QED
  <2> HIDE DEF x
  <2>1. x.days \subseteq days
    BY <1>1
  <2>2. QED
    BY <1>1, <1>2, <2>1, QuietStep

(* Steps that leave the refreshes, what they read and the tables alone. *)
LEMMA RestStep ==
    ASSUME IInv, TypeOK', LockInv', UNCHANGED <<today, rules, cov, table, ref, late>>,
           \A d \in Day : data'[d] >= data[d]
    PROVE  IInv'
<1>1. RowsInv'
  <2> SUFFICES ASSUME NEW f \in Refresh, NEW t \in HasRead(f), NEW d \in Extent(t, ref[f].days)
               PROVE  /\ ref[f].rows[t][d].rules = rules
                      /\ table[t][d].data <= ref[f].rows[t][d].data
                      /\ ref[f].rows[t][d].data <= data'[d]
    BY DEF RowsInv, Extent, HasRead
  <2>1. t \in Table /\ ref[f].days \in SUBSET Day
    BY DEF HasRead, Table, IInv, TypeOK, RefreshState
  <2>. d \in Day
    BY <2>1, ExtentContains
  <2>2. ref[f].rows[t][d].data \in Nat /\ data[d] \in Nat /\ data'[d] \in Nat
    BY <2>1 DEF IInv, TypeOK, RefreshState, Version
  <2>3. QED
    BY <2>1, <2>2 DEF IInv, RowsInv
<1>2. TableInv'
  <2> SUFFICES ASSUME NEW t \in Table, NEW d \in Day PROVE table[t][d].data <= data'[d]
    BY DEF TableInv
  <2>1. table[t][d].data \in Nat /\ data[d] \in Nat /\ data'[d] \in Nat
    BY DEF IInv, TypeOK, Version
  <2>2. QED
    BY <2>1 DEF IInv, TableInv
<1>3. CoveredUsesCurrentRules' /\ WindowInv'
  BY DEF IInv, CoveredUsesCurrentRules, WindowInv, Window
<1>4. QED
  BY <1>1, <1>2, <1>3 DEF IInv

(* At midnight the window moves, under every task that is under way. *)
LEMMA NextDayStep == IInv /\ NextDay => IInv'
<1> SUFFICES ASSUME IInv, NextDay PROVE IInv'
  OBVIOUS
<1>1. TypeOK'
  BY DayAssumption DEF NextDay, UnderWay, IInv, TypeOK
<1>2. LockInv' /\ RowsInv' /\ TableInv' /\ CoveredUsesCurrentRules'
  BY DEF NextDay, IInv, LockInv, RowsInv, HasRead, Extent, TableInv, CoveredUsesCurrentRules
<1>3. WindowInv'
  <2>1. \A f \in Refresh : f \in late' \/ ref'[f].days = {}
    BY DEF NextDay, UnderWay
  <2>2. \A d \in ref'["manual"].days : d <= today'
    <3>1. ref["manual"].days \subseteq Int
      BY DayAssumption DEF IInv, TypeOK, RefreshState, Refresh
    <3>2. today \in Int /\ today' = today + 1 /\ ref' = ref
      BY DayAssumption DEF NextDay, IInv, TypeOK
    <3>3. \A d \in ref["manual"].days : d <= today
      BY DEF IInv, WindowInv
    <3>4. QED
      BY <3>1, <3>2, <3>3
  <2>3. QED
    BY <2>1, <2>2 DEF WindowInv
<1>4. QED
  BY <1>1, <1>2, <1>3 DEF IInv

LEMMA ImportStep == IInv /\ Import => IInv'
<1> SUFFICES ASSUME IInv, Import PROVE IInv'
  OBVIOUS
<1>1. PICK days \in SUBSET Day \ {{}} :
          /\ data' = [d \in Day |-> IF d \in days THEN data[d] + 1 ELSE data[d]]
          /\ asked' \in {asked, asked \cup {Span(days)}}
  BY DEF Import
<1>2. \A d \in Day : data'[d] >= data[d] /\ data'[d] \in Nat
  BY <1>1 DEF IInv, TypeOK
<1>3. data' \in [Day -> Nat]
  BY <1>1, <1>2
<1>4. left' \in Budget
  BY Spending DEF Import, IInv, TypeOK
<1>5. TypeOK'
  <2>1. Span(days) \in SUBSET Day
    BY DEF Span
  <2>2. asked' \subseteq SUBSET Day
    BY <1>1, <2>1 DEF IInv, TypeOK
  <2>3. QED
    BY <1>3, <1>4, <2>2 DEF Import, IInv, TypeOK
<1>6. LockInv'
  BY DEF Import, IInv, LockInv
<1>7. QED
  <2>1. UNCHANGED <<today, rules, cov, table, ref, late>>
    BY DEF Import
  <2>2. QED
    BY <1>2, <1>5, <1>6, <2>1, RestStep

LEMMA BeginStep == IInv /\ Begin => IInv'
<1> SUFFICES ASSUME IInv, Begin PROVE IInv'
  OBVIOUS
<1> USE DEF IInv, TypeOK
<1>1. CASE BeginHourly
  <2>1. Window(today) \in SUBSET Day
    BY DEF Window
  <2>2. /\ Starts("hourly", {}, Window(today)) /\ hour' = today
        /\ UNCHANGED <<today, data, rules, cov, table, chg, lock, asked, left>>
    BY <1>1 DEF BeginHourly
  <2>3. QED
    BY <2>1, <2>2, StartStep DEF Refresh
<1>2. CASE BeginDrift
  <2>1. PICK days \in SUBSET cov : Starts("drift", {}, days)
    BY <1>2 DEF BeginDrift
  <2>2. QED
    BY <1>2, <2>1, StartStep DEF BeginDrift, Refresh
<1>3. CASE BeginImport
  <2>1. PICK of \in asked : Starts("import", of, TargetRuns(of)) /\ asked' = asked \ {of}
    BY <1>3 DEF BeginImport
  <2>2. TargetRuns(of) \in SUBSET Day /\ of \in SUBSET Day
    BY <2>1 DEF TargetRuns
  <2>3. TargetRuns(of) \subseteq cov \cup Window(today)
    BY DEF TargetRuns
  <2>4. QED
    BY <1>3, <2>1, <2>2, <2>3, StartStep DEF BeginImport, Refresh
<1>4. CASE BeginManual
  <2>1. PICK days \in SUBSET Day : Starts("manual", {}, days) /\ \A d \in days : d <= today
    BY <1>4 DEF BeginManual
  <2>2. left' \in Budget
    BY <1>4, Spending DEF BeginManual
  <2>3. QED
    BY <1>4, <2>1, <2>2, StartStep DEF BeginManual, Refresh
<1>5. QED
  BY <1>1, <1>2, <1>3, <1>4 DEF Begin

LEMMA TryLockStep == ASSUME IInv, NEW f \in Refresh, TryLock(f) PROVE IInv'
<1> USE DEF TryLock
<1>1. ref'[f] = [ref[f] EXCEPT !.pc = "locked"] /\ \A g \in Refresh \ {f} : ref'[g] = ref[g]
  BY DEF IInv, TypeOK
<1>2. TypeOK'
  <2>. ref[f] \in RefreshState
    BY DEF IInv, TypeOK
  <2>1. [ref[f] EXCEPT !.pc = "locked"] \in RefreshState
    BY DEF RefreshState
  <2>2. QED
    BY <2>1 DEF IInv, TypeOK
<1>3. LockInv'
  BY <1>1, ChangeAssumption DEF IInv, LockInv, Free
<1>4. RowsInv'
  <2> SUFFICES ASSUME NEW g \in Refresh, NEW t \in HasRead(g)', NEW d \in Extent(t, ref'[g].days)
               PROVE  /\ ref'[g].rows[t][d].rules = rules
                      /\ table[t][d].data <= ref'[g].rows[t][d].data
                      /\ ref'[g].rows[t][d].data <= data[d]
    BY DEF RowsInv, Extent
  <2>1. g # f
    BY <1>1 DEF HasRead, IInv, TypeOK, RefreshState
  <2>2. t \in HasRead(g) /\ ref'[g] = ref[g]
    BY <1>1, <2>1 DEF HasRead
  <2>3. QED
    BY <2>2 DEF IInv, RowsInv
<1>5. TableInv' /\ CoveredUsesCurrentRules'
  BY DEF IInv, TableInv, CoveredUsesCurrentRules
<1>6. WindowInv'
  BY <1>1 DEF IInv, TypeOK, RefreshState, WindowInv, Window, Refresh
<1>7. QED
  BY <1>2, <1>3, <1>4, <1>5, <1>6 DEF IInv

LEMMA GiveWayStep ==
    ASSUME IInv, NEW f \in Refresh, Busy(f) \/ Abort(f)
    PROVE  IInv'
<1>1. /\ ref' = [ref EXCEPT ![f] = IdleRefresh] /\ late' = late \ {f}
      /\ UNCHANGED <<today, data, rules, cov, table, chg, hour>>
  BY DEF Busy, Abort, Ends
<1>2. lock' = lock \/ (lock = f /\ lock' = NoOne)
  BY DEF Busy, Abort, Releases
<1>3. asked' \subseteq SUBSET Day
  <2>1. ref[f].of \in SUBSET Day /\ asked \subseteq SUBSET Day
    BY DEF IInv, TypeOK, RefreshState
  <2>2. Requeues(f)
    BY DEF Busy, Abort
  <2>3. QED
    BY <2>1, <2>2 DEF Requeues
<1>4. left' \in Budget
  BY Spending DEF Busy, Abort, IInv, TypeOK
<1>5. IdleRefresh \in RefreshState /\ IdleRefresh.pc \notin Holding /\ IdleRefresh.days = {}
  BY IdleIsState DEF IdleRefresh, Holding
<1>6. QED
  BY <1>1, <1>2, <1>3, <1>4, <1>5, QuietStep

(* What a refresh reads now is of the rules in force and as new as the data. *)
LEMMA ReadStep == ASSUME IInv, NEW f \in Refresh, Read(f) PROVE IInv'
<1> DEFINE t0 == NextTable[ref[f].pc]
           fresh == [d \in Day |-> IF d \in Extent(t0, ref[f].days)
                                   THEN [data |-> data[d], rules |-> rules] ELSE NoRows[t0][d]]
<1>a. ref[f] \in RefreshState /\ data \in [Day -> Nat] /\ rules \in Nat
  BY DEF IInv, TypeOK
<1>b. ref[f].pc \in {"locked", "roi", "progress"} /\ t0 \in Table /\ t0 # "locked"
  BY DEF Read, NextTable, Table
<1>c. ref' = [ref EXCEPT ![f].pc = t0, ![f].rows[t0] = fresh]
      /\ UNCHANGED <<today, data, rules, cov, table, chg, lock, asked, hour, late, left>>
  BY DEF Read
<1>d. fresh \in [Day -> Version]
  <2>1. \A d \in Day : NoRows[t0][d] \in Version
    BY <1>b DEF NoRows, Version
  <2>2. QED
    BY <1>a, <2>1 DEF Version
<1>e. ref'[f] = [ref[f] EXCEPT !.pc = t0, !.rows = [ref[f].rows EXCEPT ![t0] = fresh]]
      /\ \A g \in Refresh \ {f} : ref'[g] = ref[g]
  <2> HIDE DEF t0, fresh
  <2>1. QED
    BY <1>a, <1>c DEF IInv, TypeOK, RefreshState
<1>1. TypeOK'
  <2> HIDE DEF t0, fresh
  <2>1. [ref[f].rows EXCEPT ![t0] = fresh] \in [Table -> [Day -> Version]]
    BY <1>a, <1>d DEF RefreshState
  <2>2. ref'[f] \in RefreshState
    BY <1>a, <1>b, <1>e, <2>1 DEF RefreshState
  <2>3. ref' \in [Refresh -> RefreshState]
    BY <1>c, <1>e, <2>2 DEF IInv, TypeOK
  <2>4. QED
    BY <1>c, <2>3 DEF IInv, TypeOK
<1>2. LockInv'
  <2>1. ref[f].pc \in Holding
    BY <1>b DEF Holding
  <2>2. QED
    BY <1>c, <1>e, <2>1 DEF IInv, LockInv
<1>3. RowsInv'
  <2> SUFFICES ASSUME NEW g \in Refresh, NEW t \in HasRead(g)', NEW d \in Extent(t, ref'[g].days)
               PROVE  /\ ref'[g].rows[t][d].rules = rules
                      /\ table[t][d].data <= ref'[g].rows[t][d].data
                      /\ ref'[g].rows[t][d].data <= data[d]
    BY <1>c DEF RowsInv, Extent
  <2>1. CASE g # f
    BY <2>1, <1>e DEF HasRead, IInv, RowsInv
  <2>2. CASE g = f /\ t = t0
    <3>1. d \in Day /\ d \in Extent(t0, ref[f].days)
      <4>1. ref'[f].days = ref[f].days
        BY <1>e, <1>a DEF RefreshState
      <4>2. QED
        BY <2>2, <4>1, <1>a, <1>b, ExtentContains DEF RefreshState
    <3>2. ref'[f].rows[t0] = fresh
      <4> HIDE DEF t0, fresh
      <4>1. QED
        BY <1>a, <1>b, <1>e DEF RefreshState
    <3>3. fresh[d] = [data |-> data[d], rules |-> rules]
      BY <3>1
    <3>4. table[t0][d].data <= data[d] /\ data[d] \in Nat
      BY <1>a, <1>b, <3>1 DEF IInv, TableInv
    <3>5. QED
      BY <2>2, <3>2, <3>3, <3>4
  <2>3. CASE g = f /\ t # t0
    <3>1. t \in HasRead(f)
      BY <2>3, <1>a, <1>b, <1>e DEF HasRead, RefreshState, NextTable, Table
    <3>2. ref'[f].rows[t] = ref[f].rows[t] /\ ref'[f].days = ref[f].days
      <4> HIDE DEF t0, fresh
      <4>1. t \in Table
        BY <3>1 DEF HasRead, Table
      <4>2. QED
        BY <2>3, <1>a, <1>e, <4>1 DEF RefreshState
    <3>3. QED
      BY <2>3, <3>1, <3>2 DEF IInv, RowsInv
  <2>4. QED
    BY <2>1, <2>2, <2>3
<1>4. TableInv' /\ CoveredUsesCurrentRules'
  BY <1>c DEF IInv, TableInv, CoveredUsesCurrentRules
<1>5. WindowInv'
  <2>1. ref'[f].days = ref[f].days
    BY <1>e, <1>a DEF RefreshState
  <2>2. QED
    BY <1>c, <1>e, <2>1 DEF IInv, WindowInv, Window, Refresh
<1>6. QED
  BY <1>1, <1>2, <1>3, <1>4, <1>5 DEF IInv

(* A commit brings the tables to what was read, of the rules in force, and
   never to older data. *)
LEMMA CommitStep ==
    ASSUME IInv, NEW f \in Refresh, Commit(f)
    PROVE  /\ IInv'
           /\ \A t \in Table, d \in Day : table'[t][d].data >= table[t][d].data
<1> DEFINE days == ref[f].days
<1>a. /\ ref[f] \in RefreshState /\ data \in [Day -> Nat] /\ rules \in Nat
      /\ table \in [Table -> [Day -> Version]] /\ cov \subseteq Day
  BY DEF IInv, TypeOK
<1>b. ref[f].pc = "shop" /\ lock = f /\ HasRead(f) = Table
  BY DEF Commit, IInv, LockInv, Holding, HasRead
<1>c. days \in SUBSET Day /\ ref[f].rows \in [Table -> [Day -> Version]]
  BY <1>a DEF RefreshState
<1>d. \A t \in Table, d \in Day :
        table'[t][d] = IF d \in Extent(t, days) THEN ref[f].rows[t][d] ELSE table[t][d]
  BY DEF Commit
<1>e. \A t \in Table, d \in Day : d \in Extent(t, days) =>
        /\ ref[f].rows[t][d].rules = rules
        /\ table[t][d].data <= ref[f].rows[t][d].data
        /\ ref[f].rows[t][d].data <= data[d]
  BY <1>b DEF IInv, RowsInv
<1>f. table' \in [Table -> [Day -> Version]]
  <2>1. \A t \in Table, d \in Day :
          (IF d \in Extent(t, days) THEN ref[f].rows[t][d] ELSE table[t][d]) \in Version
    BY <1>a, <1>c
  <2>2. QED
    BY <2>1 DEF Commit
<1>g. ref' \in [Refresh -> RefreshState]
      /\ \A g \in Refresh : \/ ref'[g] = ref[g] /\ g # f
                            \/ ref'[g].pc \in {"idle", "due"} /\ ref'[g].days \in {{}, ref[g].days}
  <2>1. IdleRefresh \in RefreshState /\ IdleRefresh.pc = "idle" /\ IdleRefresh.days = {}
    BY IdleIsState DEF IdleRefresh
  <2>2. CASE f = "hourly"
    <3>1. ref["drift"] \in RefreshState
      BY DEF IInv, TypeOK, Refresh
    <3>2. [ref["drift"] EXCEPT !.pc = "due"] \in RefreshState
      BY <3>1 DEF RefreshState
    <3>3. [ref["drift"] EXCEPT !.pc = "due"].days = ref["drift"].days
      BY <3>1 DEF RefreshState
    <3>4. [ref["drift"] EXCEPT !.pc = "due"].pc = "due"
      BY <3>1 DEF RefreshState
    <3>5. ref' = [ref EXCEPT !["hourly"] = IdleRefresh,
                             !["drift"] = [ref["drift"] EXCEPT !.pc = "due"]]
      BY <2>2 DEF Commit, Refresh, IInv, TypeOK
    <3>6. QED
      BY <2>1, <2>2, <3>2, <3>3, <3>4, <3>5 DEF IInv, TypeOK, Refresh
  <2>3. CASE f # "hourly"
    BY <2>1, <2>3 DEF Commit, IInv, TypeOK
  <2>4. QED
    BY <2>2, <2>3
<1>1. TypeOK'
  <2>1. cov' \subseteq Day
    BY <1>a, <1>c DEF Commit
  <2>2. QED
    BY <1>f, <1>g, <2>1, <1>b DEF Commit, Releases, IInv, TypeOK
<1>2. LockInv'
  <2>1. lock' = NoOne /\ chg' = chg
    BY <1>b DEF Commit, Releases
  <2>2. \A g \in Refresh : ref'[g].pc \notin Holding
    BY <1>b, <1>g, ChangeAssumption DEF IInv, LockInv, Holding
  <2>3. \A c \in Change : chg[c] # "locked"
    BY <1>b, ChangeAssumption DEF IInv, LockInv
  <2>4. QED
    BY <2>1, <2>2, <2>3 DEF LockInv
<1>3. RowsInv'
  <2>1. \A g \in Refresh : ref'[g].pc \notin Holding
    BY <1>b, <1>g, ChangeAssumption DEF IInv, LockInv, Holding
  <2>2. \A g \in Refresh : HasRead(g)' = {}
    BY <2>1 DEF HasRead, Holding
  <2>3. QED
    BY <2>2 DEF RowsInv
<1>4. TableInv'
  BY <1>d, <1>e DEF Commit, IInv, TableInv
<1>5. CoveredUsesCurrentRules'
  <2> SUFFICES ASSUME NEW t \in Table, NEW d \in cov \cup days
               PROVE  table'[t][d].rules = rules
    BY DEF Commit, CoveredUsesCurrentRules
  <2>1. d \in Day
    BY <1>a, <1>c
  <2>2. CASE d \in Extent(t, days)
    BY <1>d, <1>e, <2>1, <2>2
  <2>3. CASE d \notin Extent(t, days)
    <3>1. d \in cov
      BY <1>c, <2>3, ExtentContains
    <3>2. QED
      BY <1>d, <2>1, <2>3, <3>1 DEF IInv, CoveredUsesCurrentRules
  <2>4. QED
    BY <2>2, <2>3
<1>6. WindowInv'
  <2>1. cov' = cov \cup days /\ late' = late \ {f} /\ today' = today
    BY DEF Commit
  <2>2. \A g \in Refresh : ref'[g].days \subseteq ref[g].days
    BY <1>g
  <2>3. ref'[f].days \subseteq cov'
    BY <2>1, <2>2
  <2>4. QED
    BY <2>1, <2>2, <2>3 DEF IInv, WindowInv, Window, Refresh
<1>7. \A t \in Table, d \in Day : table'[t][d].data >= table[t][d].data
  <2> SUFFICES ASSUME NEW t \in Table, NEW d \in Day
               PROVE  table'[t][d].data >= table[t][d].data
    OBVIOUS
  <2>1. table[t][d].data \in Nat /\ ref[f].rows[t][d].data \in Nat
    BY <1>a, <1>c DEF Version
  <2>2. QED
    BY <1>d, <1>e, <2>1
<1>8. QED
  BY <1>1, <1>2, <1>3, <1>4, <1>5, <1>6, <1>7 DEF IInv

(* A rule change commits while it holds the lock: no refresh is in the middle
   of reading. *)
LEMMA InvalidateStep == ASSUME IInv, NEW c \in Change, Invalidate(c) PROVE IInv'
<1>1. TypeOK'
  BY DEF Invalidate, UnderWay, Moves, Releases, IInv, TypeOK
<1>2. lock = c /\ c \notin Refresh /\ c # NoOne
  BY ChangeAssumption DEF Invalidate, IInv, LockInv
<1>3. \A f \in Refresh : ref[f].pc \notin Holding
  BY <1>2 DEF IInv, LockInv
<1>4. LockInv'
  BY <1>2, <1>3 DEF Invalidate, Moves, Releases, IInv, TypeOK, LockInv
<1>5. RowsInv'
  <2>1. \A f \in Refresh : HasRead(f)' = {}
    BY <1>3 DEF HasRead, Holding, Invalidate
  <2>2. QED
    BY <2>1 DEF RowsInv
<1>6. TableInv' /\ CoveredUsesCurrentRules' /\ WindowInv'
  BY DEF Invalidate, UnderWay, IInv, TableInv, CoveredUsesCurrentRules, WindowInv
<1>7. QED
  BY <1>1, <1>4, <1>5, <1>6 DEF IInv

LEMMA AskStep ==
    ASSUME IInv, NEW c \in Change, Ask(c) \/ WaitLock(c) \/ GiveUp(c)
    PROVE  IInv'
<1>1. UNCHANGED <<today, data, rules, cov, table, ref, hour, late, left>>
  BY DEF Ask, WaitLock, GiveUp
<1>2. TypeOK'
  BY <1>1 DEF Ask, WaitLock, GiveUp, Moves, Releases, IInv, TypeOK
<1>3. LockInv'
  <2>1. CASE Ask(c)
    BY <2>1 DEF Ask, Moves, IInv, TypeOK, LockInv
  <2>2. CASE WaitLock(c)
    BY <2>2, ChangeAssumption DEF WaitLock, Moves, IInv, TypeOK, LockInv
  <2>3. CASE GiveUp(c)
    BY <2>3, ChangeAssumption DEF GiveUp, Moves, Releases, IInv, TypeOK, LockInv
  <2>4. QED
    BY <2>1, <2>2, <2>3
<1>4. \A d \in Day : data'[d] >= data[d]
  BY <1>1 DEF IInv, TypeOK
<1>5. QED
  BY <1>1, <1>2, <1>3, <1>4, RestStep

(* Every step. *)
LEMMA NextInv ==
    ASSUME IInv, [Next]_vars
    PROVE  /\ IInv'
           /\ \A t \in Table, d \in Day : table'[t][d].data >= table[t][d].data
<1>1. CASE \E f \in Refresh : Commit(f)
  BY <1>1, CommitStep
<1>2. CASE ~ \E f \in Refresh : Commit(f)
  <2>1. table' = table
    BY <1>2 DEF Next, vars, NextDay, Import, Begin, BeginHourly, BeginDrift, BeginImport, BeginManual,
                RefreshStep, TryLock, Busy, Read, Abort, Ask, ChangeStep, WaitLock, GiveUp,
                Invalidate
  <2>2. \A t \in Table, d \in Day : table[t][d].data >= table[t][d].data
    BY DEF IInv, TypeOK, Version
  <2>3. CASE UNCHANGED vars
    <3>1. TypeOK' /\ LockInv'
      BY <2>3 DEF vars, IInv, TypeOK, LockInv
    <3>2. \A d \in Day : data'[d] >= data[d]
      BY <2>3 DEF vars, IInv, TypeOK
    <3>3. IInv'
      BY <2>3, <3>1, <3>2, RestStep DEF vars
    <3>4. QED
      BY <2>1, <2>2, <3>3
  <2>4. CASE NextDay \/ Import \/ Begin
    BY <2>1, <2>2, <2>4, NextDayStep, ImportStep, BeginStep
  <2>5. CASE \E f \in Refresh : RefreshStep(f) \/ Abort(f)
    <3>1. PICK f \in Refresh : TryLock(f) \/ Read(f) \/ Busy(f) \/ Abort(f)
      BY <1>2, <2>5 DEF RefreshStep
    <3>2. IInv'
      BY <3>1, TryLockStep, ReadStep, GiveWayStep
    <3>3. QED
      BY <2>1, <2>2, <3>2
  <2>6. CASE \E c \in Change : Ask(c) \/ ChangeStep(c)
    BY <2>1, <2>2, <2>6, AskStep, InvalidateStep DEF ChangeStep
  <2>7. QED
    BY <2>3, <2>4, <2>5, <2>6 DEF Next
<1>3. QED
  BY <1>1, <1>2

THEOREM Invariant == Spec => []IInv
<1>1. IInv /\ [Next]_vars => IInv'
  BY NextInv
<1>2. QED
  BY InitInv, <1>1, PTL DEF Spec

-----------------------------------------------------------------------------
(* The properties *)

(* The state has its type. *)
THEOREM TypeCorrect == Spec => []TypeOK
BY Invariant, PTL DEF IInv

(* summary_invalidation.py: a day that is covered shows the rules in force,
   whatever refreshes and rule changes ran at the same time. *)
THEOREM CoverageIsCurrent == Spec => []CoveredUsesCurrentRules
BY Invariant, PTL DEF IInv

(* summary_refresh_service.py: the advisory lock keeps an older refresh from
   writing over a newer one. *)
THEOREM TablesMoveForward == Spec => NeverBackwards
<1>1. IInv /\ [Next]_vars => [\A t \in Table, d \in Day :
                                table'[t][d].data >= table[t][d].data]_vars
  BY NextInv
<1>2. QED
  BY Invariant, <1>1, PTL DEF Spec, NeverBackwards

(* target_runs: a task covers a day outside the window only when midnight or the
   commit of a rule change came between its plan and its commit. *)
THEOREM TasksFreezeRarely == Spec => TasksFreezeOnlyLate
<1> DEFINE Allowed(d, f) ==
        /\ Commit(f) /\ d \in ref[f].days
        /\ (f = "manual" /\ d <= today) \/ f \in late
<1>1. ASSUME IInv, NEW f \in Refresh, Commit(f)
      PROVE  \A d \in cov' \ (cov \cup Window(today)) : Allowed(d, f)
  BY <1>1 DEF Commit, IInv, WindowInv
<1>2. ASSUME IInv, [Next]_vars, ~ \E f \in Refresh : Commit(f) PROVE cov' \subseteq cov
  BY <1>2 DEF Next, vars, NextDay, Import, Begin, BeginHourly, BeginDrift, BeginImport, BeginManual,
              RefreshStep, TryLock, Busy, Read, Abort, Ask, ChangeStep, WaitLock, GiveUp,
              Invalidate
<1>3. IInv /\ [Next]_vars =>
         [\A d \in cov' \ (cov \cup Window(today)) : \E f \in Refresh : Allowed(d, f)]_vars
  BY <1>1, <1>2
<1>4. QED
  BY Invariant, <1>3, PTL DEF Spec, TasksFreezeOnlyLate

-----------------------------------------------------------------------------
(* ReportSummary implements SummaryContract *)

(* What a refresh commits is of the rules in force, and not older than what was
   there; the days it covers are among those it has written. *)
LEMMA CommitComputes ==
    ASSUME IInv, NEW f \in Refresh, Commit(f)
    PROVE  Summary!Compute(ref[f].days)
<1> DEFINE days == ref[f].days
<1>1. ref[f].pc = "shop" /\ HasRead(f) = Table /\ days \in SUBSET Day
  BY DEF Commit, HasRead, IInv, TypeOK, RefreshState
<1>2. \A t \in Table, d \in Day :
        table'[t][d] = IF d \in Extent(t, days) THEN ref[f].rows[t][d] ELSE table[t][d]
  BY DEF Commit
<1>3. ASSUME NEW t \in Table, NEW d \in Day
      PROVE  Summary!Current(t, d) \/ (d \notin days /\ table'[t][d] = table[t][d])
  <2>1. CASE d \in Extent(t, days)
    <3>1. /\ ref[f].rows[t][d].rules = rules
          /\ table[t][d].data <= ref[f].rows[t][d].data
          /\ ref[f].rows[t][d].data <= data[d]
      BY <1>1, <2>1 DEF IInv, RowsInv
    <3>2. table'[t][d] = ref[f].rows[t][d]
      BY <1>2, <2>1
    <3> QED  BY <3>1, <3>2 DEF Summary!Current
  <2>2. CASE d \notin Extent(t, days)
    BY <1>1, <1>2, <2>2, ExtentContains
  <2> QED  BY <2>1, <2>2
<1>4. cov' = cov \cup days /\ UNCHANGED <<data, rules>>
  BY DEF Commit
<1> QED  BY <1>3, <1>4 DEF Summary!Compute

LEMMA ImportHappens == ASSUME Import PROVE Summary!Happen
<1>1. UNCHANGED <<rules, cov, table>>
  BY DEF Import
<1>2. \E days \in SUBSET Day :
         data' = [d \in Day |-> IF d \in days THEN data[d] + 1 ELSE data[d]]
  BY DEF Import
<1> QED  BY <1>1, <1>2 DEF Summary!Happen

LEMMA QuietIsUnseen ==
    ASSUME \/ NextDay \/ Begin
           \/ \E f \in Refresh : TryLock(f) \/ Busy(f) \/ Read(f) \/ Abort(f)
           \/ \E c \in Change : Ask(c) \/ WaitLock(c) \/ GiveUp(c)
    PROVE  UNCHANGED Summary!tables
BY DEF Summary!tables, NextDay, Begin, BeginHourly, BeginDrift, BeginImport, BeginManual,
       TryLock, Busy, Read, Abort, Ask, WaitLock, GiveUp

(* Refreshes that read one table after the other, give way, roll back and race
   imports and rule changes behave as if tables were computed at once:
   SummaryContract. *)
THEOREM TablesAreComputedAtOnce == Spec => ImplementsSummaryContract
<1>1. ASSUME Init PROVE Summary!Init
  BY <1>1 DEF Init, NoRows, Summary!Init
<1>2. ASSUME IInv, [Next]_vars PROVE [Summary!Next]_(Summary!tables)
  <2>1. CASE UNCHANGED vars
    BY <2>1 DEF vars, Summary!tables
  <2>2. CASE Import
    BY <2>2, ImportHappens DEF Summary!Next
  <2>3. CASE \E f \in Refresh : Commit(f)
    <3>1. PICK f \in Refresh : Commit(f)
      BY <2>3
    <3>2. Summary!Compute(ref[f].days) /\ ref[f].days \in SUBSET Day
      BY <1>2, <3>1, CommitComputes DEF IInv, TypeOK, RefreshState
    <3> QED  BY <3>2 DEF Summary!Next
  <2>4. CASE \E c \in Change : Invalidate(c)
    <3>1. Summary!ChangeRules
      BY <2>4 DEF Invalidate, Summary!ChangeRules
    <3> QED  BY <3>1 DEF Summary!Next
  <2> QED
    BY <1>2, <2>1, <2>2, <2>3, <2>4, QuietIsUnseen DEF Next, RefreshStep, ChangeStep
<1> QED
  BY <1>1, <1>2, Invariant, PTL DEF Spec, ImplementsSummaryContract, Summary!Spec

=============================================================================
