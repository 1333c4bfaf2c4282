-------------------------- MODULE MCReportSummary --------------------------
(* Instances of ReportSummary for TLC. *)
EXTENDS ReportSummaryContract

(* All days are of one month: a refresh of either writes the shop's rows of
   both, also those of the day that is still to come. *)
MCNear == [d \in Day |-> Day]
=============================================================================
