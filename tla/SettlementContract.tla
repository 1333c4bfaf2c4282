------------------------- MODULE SettlementContract -------------------------
(* Settlement implements FeeContract: the concurrent requests on the two     *)
(* tables, read through their committed status columns, are one fee that     *)
(* both departments see turn at once.                                        *)
EXTENDS Settlement

OpsView ==
    CASE promo.settle \in {"NOT_REVIEWED", "PENDING_REVIEW", "REJECTED"} -> "open"
      [] promo.settle = "PENDING_PAYMENT" -> "waiting"
      [] promo.settle = "SETTLEMENT_REJECTED" -> "refused"
      [] promo.settle = "PAID" -> "paid"
      [] promo.settle = "SETTLED" -> "closed"

FinView ==
    CASE doc.status = "NONE" -> "none"
      [] doc.status \in Open -> "waiting"
      [] doc.status = "REJECTED" -> "refused"
      [] doc.status = "PAID" -> "paid"

Fee == INSTANCE FeeContract WITH ops <- OpsView, fin <- FinView

(* Holds for promotions that start in this system (LegacyBackfill = FALSE):
   every commit moves both tables together, or neither; only a payment may move
   one of them for good. *)
ImplementsFeeContract == Fee!Spec

=============================================================================
