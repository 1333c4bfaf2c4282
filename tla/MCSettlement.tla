---------------------------- MODULE MCSettlement ----------------------------
(* Instances of Settlement for TLC. *)
EXTENDS SettlementContract, TLC

CONSTANTS r1, r2, r3

ThreeRequests == {r1, r2, r3}

(* The slots are interchangeable (used without liveness only). *)
Symmetry == Permutations(Req)

=============================================================================
