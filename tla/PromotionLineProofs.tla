------------------------- MODULE PromotionLineProofs -------------------------
(***************************************************************************)
(* The invariants of one promotion line, for all fees, quotes and          *)
(* screenshots.  What makes them inductive is LineInv: the completion mark *)
(* is set as soon as it is earned (not only earned when it is set), a      *)
(* published row is in the settlement's part of the stage table, and an    *)
(* unpublished one has never been recalled.                                *)
(***************************************************************************)
EXTENDS PromotionLine, TLAPS

LineInv ==
    /\ Finished(p) => p.completed
    /\ p.publish = "PUBLISHED" => p.settle # "NOT_REVIEWED"
    /\ p.publish = "UNPUBLISHED" => p.recall = "NOT"

IInv ==
    /\ TypeOK
    /\ LineInv
    /\ FreightMatchesRecall
    /\ OpenMoneyKeepsActive
    /\ CompletionStaysTrue
    /\ CancelledLeavesWarehouse

-----------------------------------------------------------------------------
(* What the stage table says of the row. *)

LEMMA SettlementStageMeans ==
    ASSUME NEW q \in Promotion
    PROVE  /\ SettlementStage(q) = "TO_REVIEW" => q.settle = "PENDING_REVIEW"
           /\ SettlementStage(q) = "TO_RESUBMIT" => q.settle = "REJECTED"
           /\ SettlementStage(q) = "TO_RESUBMIT_SETTLEMENT" => q.settle = "SETTLEMENT_REJECTED"
           /\ SettlementStage(q) = "TO_SETTLE" => q.settle = "PAID"
           /\ SettlementStage(q) = "ABNORMAL" =>
                \/ q.settle = "NOT_REVIEWED"
                \/ q.settle = "SETTLED" /\ q.metrics /\ q.retro = "DONE"
           /\ SettlementStage(q) \notin {"INACTIVE", "DROPPED", "RECALLING", "TO_PUBLISH"}
  BY DEF SettlementStage, Promotion

LEMMA StageUnderMeans ==
    ASSUME NEW q \in Promotion, NEW recall \in {"NOT", "RECALLING", "SUCCESS", "FAILURE"}
    PROVE  LET s == StageUnder(q, recall) IN
           /\ s = "TO_REVIEW" => ~q.completed /\ q.settle = "PENDING_REVIEW"
           /\ s = "TO_RESUBMIT" => ~q.completed /\ q.settle = "REJECTED"
           /\ s = "TO_RESUBMIT_SETTLEMENT" => ~q.completed /\ q.settle = "SETTLEMENT_REJECTED"
           /\ s = "TO_SETTLE" => ~q.completed /\ q.settle = "PAID"
           /\ s = "ABNORMAL" =>
                /\ ~q.completed
                /\ \/ q.publish = "CANCELLED" /\ recall = "SUCCESS"
                   \/ /\ q.publish = "PUBLISHED"
                      /\ \/ q.settle = "NOT_REVIEWED"
                         \/ q.settle = "SETTLED" /\ q.metrics /\ q.retro = "DONE"
  BY SettlementStageMeans DEF StageUnder, Promotion

LEMMA PublishedStageMeans ==
    ASSUME TypeOK
    PROVE  /\ PublishedStage = "TO_REVIEW" => ~p.completed /\ p.settle = "PENDING_REVIEW"
           /\ PublishedStage = "TO_RESUBMIT" => ~p.completed /\ p.settle = "REJECTED"
           /\ PublishedStage = "TO_RESUBMIT_SETTLEMENT" =>
                ~p.completed /\ p.settle = "SETTLEMENT_REJECTED"
           /\ PublishedStage = "TO_SETTLE" => ~p.completed /\ p.settle = "PAID"
<1>1. p \in Promotion /\ p.recall \in {"NOT", "RECALLING", "SUCCESS", "FAILURE"}
  BY DEF TypeOK, Promotion
<1>2. PublishedStage = StageUnder(p, "NOT") \/ PublishedStage = StageUnder(p, p.recall)
  BY DEF PublishedStage, Stage
<1> QED  BY <1>1, <1>2, StageUnderMeans

LEMMA NeverAbnormal == IInv => StageIsNeverAbnormal
<1> SUFFICES ASSUME IInv PROVE Stage # "ABNORMAL"
  BY DEF StageIsNeverAbnormal
<1>1. p \in Promotion /\ p.recall \in {"NOT", "RECALLING", "SUCCESS", "FAILURE"}
  BY DEF IInv, TypeOK, Promotion
<1> QED  BY <1>1, StageUnderMeans DEF Stage, IInv, LineInv, Finished

LEMMA FeeKeeps ==
    ASSUME NEW q \in Promotion, NEW fee \in Nat, NEW payer \in {"BLOGGER", "US"}
    PROVE  /\ [q EXCEPT !.fee = fee, !.payer = payer] \in Promotion
           /\ [q EXCEPT !.recall = "SUCCESS", !.fee = fee, !.payer = payer] \in Promotion
<1>1. ASSUME NEW r \in Promotion PROVE [r EXCEPT !.fee = fee] \in Promotion
  BY DEF Promotion
<1>2. ASSUME NEW r \in Promotion PROVE [r EXCEPT !.payer = payer] \in Promotion
  BY DEF Promotion
<1>3. [q EXCEPT !.recall = "SUCCESS"] \in Promotion
  BY DEF Promotion
<1> QED  BY <1>1, <1>2, <1>3

LEMMA MaybeCompleteKeeps ==
    ASSUME NEW q \in Promotion PROVE MaybeComplete(q) \in Promotion
<1>1. (q.completed \/ Finished(q)) \in BOOLEAN
  BY DEF Promotion, Finished
<1> QED  BY <1>1 DEF MaybeComplete, Promotion

-----------------------------------------------------------------------------
(* The steps. *)

(* A mode never takes the service fee out of its type. *)
LEMMA QuoteIsNat ==
    ASSUME NEW mode, NEW quote \in Nat PROVE QuoteUnder(mode, quote) \in Nat
  BY DEF QuoteUnder

LEMMA InitIInv == Init => IInv
<1> SUFFICES ASSUME Init PROVE IInv
  OBVIOUS
<1> PICK ship \in {"NULL", "PENDING"}, quote \in Quotes, mode \in Modes \cup {"NONE"} :
       p = NewPromotion(ship, quote, mode)
  BY DEF Init
<1>1. QuoteUnder(mode, quote) \in Nat
  BY MoneyAssumption, QuoteIsNat
<1>2. p \in Promotion
  BY <1>1 DEF Promotion, NewPromotion
<1>3. TypeOK
  BY <1>2 DEF Init, TypeOK, Freight, NoFreight
<1> QED
  BY <1>3
  DEF Init, IInv, NewPromotion, NoFreight, LineInv, Finished, FreightMatchesRecall,
      OpenMoneyKeepsActive, FreightOpen, CompletionStaysTrue, CancelledLeavesWarehouse

LEMMA NextIInv == IInv /\ [Next]_vars => IInv'
<1> SUFFICES ASSUME IInv, [Next]_vars PROVE IInv'
  OBVIOUS
<1> USE MoneyAssumption, ImageAssumption DEF IInv, TypeOK, Promotion, Freight, LineInv, Finished,
      FreightMatchesRecall, OpenMoneyKeepsActive, FreightOpen, CompletionStaysTrue,
      CancelledLeavesWarehouse, PromotionOnly
<1>1. CASE ShipInclude
  BY <1>1 DEF ShipInclude, NotYetOut
<1>2. CASE ShipPush
  BY <1>2 DEF ShipPush, NotYetOut
<1>3. CASE ShipWithdraw
  BY <1>3 DEF ShipWithdraw
<1>4. CASE WarehouseFill
  BY <1>4 DEF WarehouseFill
<1>5. CASE UploadBrandComment
  <2>0. p' = [p EXCEPT !.brand = TRUE] /\ UNCHANGED <<freight, doc, star>>
    BY <1>5 DEF UploadBrandComment
  <2>1. TypeOK'
    BY <2>0
  <2>2. (LineInv /\ CompletionStaysTrue /\ CancelledLeavesWarehouse)'
    BY <2>0
  <2>3. (FreightMatchesRecall /\ OpenMoneyKeepsActive)'
    BY <2>0
  <2> QED  BY <2>1, <2>2, <2>3 DEF IInv
<1>6. CASE Publish
  <2>0. \E settle \in {"PENDING_REVIEW", p.settle} :
           p' = [p EXCEPT !.publish = "PUBLISHED", !.retro = "PENDING", !.settle = settle]
    BY <1>6 DEF Publish
  <2>1. TypeOK'
    <3> PICK settle \in {"PENDING_REVIEW", p.settle} :
           p' = [p EXCEPT !.publish = "PUBLISHED", !.retro = "PENDING", !.settle = settle]
      BY <2>0
    <3>1. [p EXCEPT !.publish = "PUBLISHED", !.retro = "PENDING"] \in Promotion
      OBVIOUS
    <3>2. ASSUME NEW q \in Promotion PROVE [q EXCEPT !.settle = settle] \in Promotion
      OBVIOUS
    <3>3. p' \in Promotion
      <4> HIDE DEF Promotion
      <4> QED  BY <3>1, <3>2
    <3> QED  BY <1>6, <3>3 DEF Publish
  <2>2. (LineInv /\ CompletionStaysTrue /\ CancelledLeavesWarehouse)'
    BY <1>6 DEF Publish
  <2>3. (FreightMatchesRecall /\ OpenMoneyKeepsActive)'
    BY <1>6 DEF Publish
  <2> QED  BY <2>1, <2>2, <2>3 DEF IInv
<1>7. CASE Cancel
  BY <1>7 DEF Cancel
<1>8. CASE StartRecall
  <2>1. TypeOK'
    BY <1>8 DEF StartRecall
  <2>2. (LineInv /\ CompletionStaysTrue /\ CancelledLeavesWarehouse)'
    BY <1>8 DEF StartRecall
  <2>3. (FreightMatchesRecall /\ OpenMoneyKeepsActive)'
    <3>1. freight.status = "NONE"
      BY <1>8 DEF StartRecall
    <3>2. p'.active = p.active /\ freight' = freight /\ doc' = doc
      BY <1>8 DEF StartRecall
    <3> QED  BY <3>1, <3>2
  <2> QED  BY <2>1, <2>2, <2>3 DEF IInv
<1>9. CASE UploadRecallWaybill
  BY <1>9 DEF UploadRecallWaybill
<1>10. CASE RecallFailure
  BY <1>10 DEF RecallFailure, MayFinishRecall
<1>11. CASE RecallSuccess
  <2> PICK fee \in Fees, payer \in {"BLOGGER", "US"} :
         /\ fee > 0 /\ payer = "BLOGGER" => p.qr
         /\ p' = MaybeComplete([p EXCEPT !.recall = "SUCCESS", !.fee = fee, !.payer = payer])
         /\ freight' = IF fee > 0 /\ payer = "BLOGGER"
                       THEN [status |-> "PENDING_REVIEW", amount |-> fee, shot |-> p.shot]
                       ELSE freight
    BY <1>11 DEF RecallSuccess
  <2> DEFINE q == [p EXCEPT !.recall = "SUCCESS", !.fee = fee, !.payer = payer]
  <2>0. fee \in Nat
    BY MoneyAssumption
  <2>1. q \in Promotion
    <3> HIDE DEF Promotion
    <3> QED  BY <2>0, FeeKeeps
  <2>2. p' \in Promotion
    <3> HIDE DEF Promotion
    <3> QED  BY <2>1, MaybeCompleteKeeps
  <2>3. TypeOK'
    BY <1>11, <2>2 DEF RecallSuccess
  <2>4. (LineInv /\ CompletionStaysTrue /\ CancelledLeavesWarehouse)'
    BY <1>11 DEF RecallSuccess, MayFinishRecall, MaybeComplete
  <2>5. (FreightMatchesRecall /\ OpenMoneyKeepsActive)'
    BY <1>11 DEF RecallSuccess, MayFinishRecall, MaybeComplete
  <2> QED  BY <2>3, <2>4, <2>5 DEF IInv
<1>12. CASE EditShippingFee
  <2>1. TypeOK'
    <3> PICK fee \in Fees, payer \in {"BLOGGER", "US"} :
           p' = [p EXCEPT !.fee = fee, !.payer = payer]
      BY <1>12 DEF EditShippingFee
    <3> HIDE DEF Promotion
    <3>1. fee \in Nat
      BY MoneyAssumption
    <3>2. p' \in Promotion
      BY <3>1, FeeKeeps
    <3> QED  BY <1>12, <3>2 DEF EditShippingFee
  <2>2. (LineInv /\ CompletionStaysTrue /\ CancelledLeavesWarehouse)'
    BY <1>12 DEF EditShippingFee
  <2>3. (FreightMatchesRecall /\ OpenMoneyKeepsActive)'
    BY <1>12 DEF EditShippingFee
  <2> QED  BY <2>1, <2>2, <2>3 DEF IInv
<1>13. CASE FreightSubmit
  <2>1. TypeOK'
    <3> PICK amount \in Fees \cup {p.fee} : FreightSubmitted(amount)
      BY <1>13 DEF FreightSubmit
    <3>1. amount \in Nat
      OBVIOUS
    <3>2. p' \in Promotion
      <4> HIDE DEF Promotion
      <4> QED  BY <3>1, FeeKeeps DEF FreightSubmitted
    <3>3. freight' \in Freight
      BY <3>1 DEF FreightSubmitted
    <3> QED  BY <1>13, <3>2, <3>3 DEF FreightSubmit
  <2>2. (LineInv /\ CompletionStaysTrue /\ CancelledLeavesWarehouse)'
    BY <1>13 DEF FreightSubmit, FreightSubmitted
  <2>3. (FreightMatchesRecall /\ OpenMoneyKeepsActive)'
    BY <1>13 DEF FreightSubmit, FreightSubmitted
  <2> QED  BY <2>1, <2>2, <2>3 DEF IInv
<1>14. CASE FreightResubmit
  <2>1. TypeOK'
    <3> PICK amount \in Fees \cup {freight.amount} : FreightSubmitted(amount)
      BY <1>14 DEF FreightResubmit
    <3>1. amount \in Nat
      OBVIOUS
    <3>2. p' \in Promotion
      <4> HIDE DEF Promotion
      <4> QED  BY <3>1, FeeKeeps DEF FreightSubmitted
    <3>3. freight' \in Freight
      BY <3>1 DEF FreightSubmitted
    <3> QED  BY <1>14, <3>2, <3>3 DEF FreightResubmit
  <2>2. (LineInv /\ CompletionStaysTrue /\ CancelledLeavesWarehouse)'
    BY <1>14 DEF FreightResubmit, FreightSubmitted
  <2>3. (FreightMatchesRecall /\ OpenMoneyKeepsActive)'
    BY <1>14 DEF FreightResubmit, FreightSubmitted
  <2> QED  BY <2>1, <2>2, <2>3 DEF IInv
<1>15. CASE FreightReview
  BY <1>15 DEF FreightReview, FreightMove
<1>16. CASE FreightRejectPayment
  BY <1>16 DEF FreightRejectPayment, FreightMove
<1>17. CASE FreightPay
  <2>1. TypeOK'
    BY <1>17 DEF FreightPay, FreightMove
  <2>2. (LineInv /\ CompletionStaysTrue /\ CancelledLeavesWarehouse)'
    BY <1>17 DEF FreightPay, FreightMove
  <2>3. (FreightMatchesRecall /\ OpenMoneyKeepsActive)'
    BY <1>17 DEF FreightPay, FreightMove
  <2> QED  BY <2>1, <2>2, <2>3 DEF IInv
<1>18. CASE UploadQr
  <2>1. TypeOK'
    BY <1>18 DEF UploadQr
  <2>2. (LineInv /\ CompletionStaysTrue /\ CancelledLeavesWarehouse)'
    BY <1>18 DEF UploadQr
  <2>3. (FreightMatchesRecall /\ OpenMoneyKeepsActive)'
    BY <1>18 DEF UploadQr
  <2> QED  BY <2>1, <2>2, <2>3 DEF IInv
<1>19. CASE RemoveQr
  <2>1. TypeOK'
    BY <1>19 DEF RemoveQr
  <2>2. (LineInv /\ CompletionStaysTrue /\ CancelledLeavesWarehouse)'
    BY <1>19 DEF RemoveQr
  <2>3. (FreightMatchesRecall /\ OpenMoneyKeepsActive)'
    BY <1>19 DEF RemoveQr
  <2> QED  BY <2>1, <2>2, <2>3 DEF IInv
<1>20. CASE EditQuote
  <2> PICK quote \in Quotes : p' = [p EXCEPT !.quote = QuoteUnder(p.mode, quote)]
    BY <1>20 DEF EditQuote
  <2>0. QuoteUnder(p.mode, quote) \in Nat /\ UNCHANGED <<freight, doc, star>>
    BY <1>20, QuoteIsNat DEF EditQuote
  <2>1. TypeOK'
    BY <2>0
  <2>2. (LineInv /\ CompletionStaysTrue /\ CancelledLeavesWarehouse)'
    BY <2>0
  <2>3. (FreightMatchesRecall /\ OpenMoneyKeepsActive)'
    BY <2>0
  <2> QED  BY <2>1, <2>2, <2>3 DEF IInv
<1>21. CASE SetReturnWaybill
  <2>0. p' = [p EXCEPT !.returned = TRUE] /\ UNCHANGED <<freight, doc, star>>
    BY <1>21 DEF SetReturnWaybill
  <2>1. TypeOK'
    BY <2>0
  <2>2. (LineInv /\ CompletionStaysTrue /\ CancelledLeavesWarehouse)'
    BY <2>0
  <2>3. (FreightMatchesRecall /\ OpenMoneyKeepsActive)'
    BY <2>0
  <2> QED  BY <2>1, <2>2, <2>3 DEF IInv
<1>22. CASE ReviewApprove
  <2>1. /\ p.active /\ p.publish = "PUBLISHED" /\ freight' = freight /\ star' = star
        /\ p.settle = "PENDING_REVIEW" /\ ~p.completed
    BY <1>22, PublishedStageMeans DEF ReviewApprove, InReview, Writable
  <2>2. CASE p' = MaybeComplete([p EXCEPT !.settle = "SETTLED"]) /\ doc' = doc
    <3> DEFINE q == [p EXCEPT !.settle = "SETTLED"]
    <3>1. q \in Promotion
      OBVIOUS
    <3>2. TypeOK'
      <4> HIDE DEF Promotion
      <4> QED  BY <2>1, <2>2, <3>1, MaybeCompleteKeeps
    <3>3. (LineInv /\ CompletionStaysTrue /\ CancelledLeavesWarehouse)'
      BY <2>1, <2>2 DEF MaybeComplete
    <3>4. (FreightMatchesRecall /\ OpenMoneyKeepsActive)'
      BY <2>1, <2>2 DEF MaybeComplete
    <3> QED  BY <3>2, <3>3, <3>4 DEF IInv
  <2>3. CASE p' = [p EXCEPT !.settle = "PENDING_PAYMENT"] /\ doc' = "PENDING_PAYMENT"
    <3>0. /\ p'.active /\ p'.recall = p.recall /\ p'.payer = p.payer /\ p'.fee = p.fee
          /\ p'.shot = p.shot
      BY <2>1, <2>3
    <3>1. TypeOK'
      BY <2>1, <2>3
    <3>2. (LineInv /\ CompletionStaysTrue /\ CancelledLeavesWarehouse)'
      BY <2>1, <2>3
    <3>3. (FreightMatchesRecall /\ OpenMoneyKeepsActive)'
      BY <2>1, <3>0
    <3> QED  BY <3>1, <3>2, <3>3 DEF IInv
  <2>4. CASE p' = [p EXCEPT !.settle = "PAID"] /\ doc' = doc
    <3>0. /\ p'.active /\ p'.recall = p.recall /\ p'.payer = p.payer /\ p'.fee = p.fee
          /\ p'.shot = p.shot
      BY <2>1, <2>4
    <3>1. TypeOK'
      BY <2>1, <2>4
    <3>2. (LineInv /\ CompletionStaysTrue /\ CancelledLeavesWarehouse)'
      BY <2>1, <2>4
    <3>3. (FreightMatchesRecall /\ OpenMoneyKeepsActive)'
      BY <2>1, <3>0
    <3> QED  BY <3>1, <3>2, <3>3 DEF IInv
  <2> QED  BY <1>22, <2>2, <2>3, <2>4 DEF ReviewApprove
<1>23. CASE ReviewReject
  BY <1>23, PublishedStageMeans DEF ReviewReject, InReview
<1>24. CASE Resubmit
  BY <1>24, PublishedStageMeans DEF Resubmit
<1>25. CASE FinanceFill
  BY <1>25 DEF FinanceFill
<1>26. CASE FinancePay
  BY <1>26 DEF FinancePay
<1>27. CASE FinanceReject
  BY <1>27 DEF FinanceReject
<1>28. CASE ResubmitSettlement
  BY <1>28, PublishedStageMeans DEF ResubmitSettlement, Writable
<1>29. CASE UploadSettlementChat
  <2>1. TypeOK'
    <3>1. [p EXCEPT !.settle = "SETTLED"] \in Promotion
      OBVIOUS
    <3> HIDE DEF Promotion
    <3> QED  BY <1>29, <3>1, MaybeCompleteKeeps DEF UploadSettlementChat
  <2>2. (LineInv /\ CompletionStaysTrue /\ CancelledLeavesWarehouse)'
    BY <1>29, PublishedStageMeans DEF UploadSettlementChat, MaybeComplete
  <2>3. (FreightMatchesRecall /\ OpenMoneyKeepsActive)'
    BY <1>29, PublishedStageMeans DEF UploadSettlementChat, MaybeComplete
  <2> QED  BY <2>1, <2>2, <2>3 DEF IInv
<1>30. CASE SevenDaysPass
  <2>1. TypeOK'
    BY <1>30 DEF SevenDaysPass
  <2>2. (LineInv /\ CompletionStaysTrue /\ CancelledLeavesWarehouse)'
    BY <1>30 DEF SevenDaysPass
  <2>3. (FreightMatchesRecall /\ OpenMoneyKeepsActive)'
    BY <1>30 DEF SevenDaysPass
  <2> QED  BY <2>1, <2>2, <2>3 DEF IInv
<1>31. CASE RecordMetrics
  <2>1. TypeOK'
    BY <1>31 DEF RecordMetrics, MaybeComplete
  <2>2. (LineInv /\ CompletionStaysTrue /\ CancelledLeavesWarehouse)'
    BY <1>31 DEF RecordMetrics, MaybeComplete
  <2>3. (FreightMatchesRecall /\ OpenMoneyKeepsActive)'
    BY <1>31 DEF RecordMetrics, MaybeComplete
  <2> QED  BY <2>1, <2>2, <2>3 DEF IInv
<1>32. CASE WriteRetrospective
  <2>1. TypeOK'
    <3>1. [p EXCEPT !.retro = "DONE"] \in Promotion
      OBVIOUS
    <3> HIDE DEF Promotion
    <3> QED  BY <1>32, <3>1, MaybeCompleteKeeps DEF WriteRetrospective
  <2>2. (LineInv /\ CompletionStaysTrue /\ CancelledLeavesWarehouse)'
    BY <1>32 DEF WriteRetrospective, MaybeComplete
  <2>3. (FreightMatchesRecall /\ OpenMoneyKeepsActive)'
    BY <1>32 DEF WriteRetrospective, MaybeComplete
  <2> QED  BY <2>1, <2>2, <2>3 DEF IInv
<1>33. CASE Deactivate
  <2>1. TypeOK'
    BY <1>33 DEF Deactivate
  <2>2. (LineInv /\ CompletionStaysTrue /\ CancelledLeavesWarehouse)'
    BY <1>33 DEF Deactivate
  <2>3. (FreightMatchesRecall /\ OpenMoneyKeepsActive)'
    BY <1>33 DEF Deactivate
  <2> QED  BY <2>1, <2>2, <2>3 DEF IInv
<1>34. CASE UNCHANGED vars
  BY <1>34 DEF vars
<1>35. CASE FillMode
  <2> PICK mode \in Modes :
         p' = [p EXCEPT !.mode = mode, !.quote = QuoteUnder(mode, p.quote)]
    BY <1>35 DEF FillMode
  <2>0. QuoteUnder(mode, p.quote) \in Nat /\ UNCHANGED <<freight, doc, star>>
    BY <1>35, QuoteIsNat DEF FillMode
  <2>1. TypeOK'
    BY <2>0
  <2>2. (LineInv /\ CompletionStaysTrue /\ CancelledLeavesWarehouse)'
    BY <2>0
  <2>3. (FreightMatchesRecall /\ OpenMoneyKeepsActive)'
    BY <2>0
  <2> QED  BY <2>1, <2>2, <2>3 DEF IInv
<1>36. CASE ImportSettlement
  <2>1. TypeOK' /\ (OpenMoneyKeepsActive)'
    BY <1>36 DEF ImportSettlement
  <2>2. (LineInv /\ CompletionStaysTrue /\ CancelledLeavesWarehouse)'
    BY <1>36 DEF ImportSettlement
  <2>3. FreightMatchesRecall'
    BY <1>36 DEF ImportSettlement
  <2> QED  BY <2>1, <2>2, <2>3 DEF IInv
<1> QED
  BY <1>1, <1>2, <1>3, <1>4, <1>5, <1>6, <1>7, <1>8, <1>9, <1>10, <1>11, <1>12, <1>13, <1>14,
     <1>15, <1>16, <1>17, <1>18, <1>19, <1>20, <1>21, <1>22, <1>23, <1>24, <1>25, <1>26, <1>27,
     <1>28, <1>29, <1>30, <1>31, <1>32, <1>33, <1>34, <1>35, <1>36 DEF Next

-----------------------------------------------------------------------------

LEMMA Invariance == Spec => []IInv
  BY InitIInv, NextIInv, PTL DEF Spec

(* Every handler keeps the rows in their types. *)
THEOREM TypeCorrect == Spec => []TypeOK
  BY Invariance, PTL DEF IInv

(* No sequence of handlers reaches a row that no line of STAGE_RULES fits. *)
THEOREM StageTableIsTotal == Spec => []StageIsNeverAbnormal
  BY Invariance, NeverAbnormal, PTL

(* A freight payment belongs to a successful recall and to the screenshot and
   amount that the promotion shows. *)
THEOREM FreightBelongsToRecall == Spec => []FreightMatchesRecall
  BY Invariance, PTL DEF IInv

(* The gate on deactivation is tight: no payment is left open on a row nobody
   may write. *)
THEOREM NoMoneyOnInactiveRow == Spec => []OpenMoneyKeepsActive
  BY Invariance, PTL DEF IInv

(* What completed a promotion is never undone. *)
THEOREM CompletionIsEarned == Spec => []CompletionStaysTrue
  BY Invariance, PTL DEF IInv

(* No way of cancelling leaves an order with the printer. *)
THEOREM NothingPrintedForCancelled == Spec => []CancelledLeavesWarehouse
  BY Invariance, PTL DEF IInv

=============================================================================
