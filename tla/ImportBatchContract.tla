------------------------ MODULE ImportBatchContract ------------------------
(* ImportBatch implements BatchContract: requests, retries, the recovery task   *)
(* and runs that overlap or die half way, seen through the batch and the jobs of  *)
(* its rows, are one batch being worked on.                                      *)
EXTENDS ImportBatch

CountsOf(b) == [total |-> b.total, failed |-> b.failed]

Whole == INSTANCE BatchContract WITH
    Rows <- Row, status <- batch.status, counts <- CountsOf(batch), row <- job

(* No row is touched behind a result that stands, and a result is about all the
   rows, whichever run of however many writes it and whatever it counted. *)
ImplementsBatchContract == Whole!Spec

=============================================================================
