------------------------------- MODULE MCUrge -------------------------------
(* Instances of Urge for TLC. *)
EXTENDS UrgeContract, TLC

CONSTANTS r1, r2, scanner

Slots == {r1, r2, scanner}

=============================================================================
