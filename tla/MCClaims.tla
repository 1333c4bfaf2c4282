------------------------------- MODULE MCClaims -------------------------------
(* Instances of Claims for TLC: batches of up to two items. *)
EXTENDS ClaimsContract
=============================================================================
