--------------------------- MODULE MCPromotionLine ---------------------------
(* An instance of PromotionLine for TLC. *)
EXTENDS PromotionLine, TLC

CONSTANTS i1, i2

TwoImages == {i1, i2}

(* Screenshots are only compared with each other. *)
Symmetry == Permutations(Images)

=============================================================================
