----------------------- MODULE ReportSummaryContract -----------------------
(* ReportSummary implements SummaryContract: transactions that read one table   *)
(* after the other while data changes, plan on coverage read before the lock and  *)
(* roll back, seen through the tables they commit, compute them at once.          *)
EXTENDS ReportSummary

Summary == INSTANCE SummaryContract WITH
    Days <- Day, Tables <- Table, row <- table, covered <- cov

(* Whenever imports, refreshes and rule changes meet, a refresh that commits is
   of the rules in force in every row it writes and goes back in none, and a day
   is covered only when all tables have been written for it. *)
ImplementsSummaryContract == Summary!Spec

=============================================================================
