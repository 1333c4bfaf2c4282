----------------------------- MODULE MCBulkCreate -----------------------------
(* Instances of BulkCreate for TLC. *)
EXTENDS BulkCreate
=============================================================================
