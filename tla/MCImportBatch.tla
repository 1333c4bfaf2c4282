--------------------------- MODULE MCImportBatch ---------------------------
(* Instances of ImportBatch for TLC. *)
EXTENDS ImportBatchContract
=============================================================================
