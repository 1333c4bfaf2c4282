---------------------------- MODULE PromotionLine ----------------------------
(***************************************************************************)
(* One promotion from the warehouse queue to its completion mark: the six  *)
(* state machines that share the promotion row (publish, ship, recall,     *)
(* settlement, 7-day data, retrospective), the return freight payment that *)
(* belongs to it, and the status of its settlement document.               *)
(*                                                                         *)
(* Every handler first takes the promotion row FOR UPDATE, then (when it   *)
(* needs it) the freight row, and commits once at its end, so each handler *)
(* is one action.  The order in which people call them is free.  How the   *)
(* settlement row itself is locked is Settlement.tla; here its handlers    *)
(* are atomic, and only its status matters.                                *)
(***************************************************************************)
EXTENDS Integers

CONSTANTS
    Images,     \* uploaded waybill screenshots
    NoImage,    \* no screenshot
    Quotes,     \* service fees
    Fees        \* return shipping fees

ASSUME ImageAssumption == NoImage \notin Images
ASSUME MoneyAssumption == Quotes \subseteq Nat /\ Fees \subseteq Nat

VARIABLES
    p,          \* the promotion row
    freight,    \* its return_freight_payment row (status "NONE": no row)
    doc,        \* status of its settlement row
    star        \* TRUE: the people on this line include an administrator ("*")

vars == <<p, freight, doc, star>>

-----------------------------------------------------------------------------
(* Enumerations: promotion/enums.py, freight_rules.py, finance/enums.py.  The
   publish states that no handler of src/ ever writes are left out. *)

(* Goods come back, are kept, or are the fee.  Imported history knows no mode. *)
Modes == {"CONSIGNMENT", "GIFT", "BARTER"}

Promotion ==
    [publish : {"UNPUBLISHED", "PUBLISHED", "CANCELLED"},
     ship    : {"NULL", "PENDING", "PRINTING", "SHIPPED"},
     recall  : {"NOT", "RECALLING", "SUCCESS", "FAILURE"},
     settle  : {"NOT_REVIEWED", "PENDING_REVIEW", "REJECTED", "PENDING_PAYMENT",
                "PAID", "SETTLED", "SETTLEMENT_REJECTED"},
     retro   : {"NOT_STARTED", "PENDING", "DONE"},
     seven : BOOLEAN, metrics : BOOLEAN, completed : BOOLEAN, active : BOOLEAN,
     brand : BOOLEAN, qr : BOOLEAN, shot : Images \cup {NoImage},
     quote : Nat, mode : Modes \cup {"NONE"}, returned : BOOLEAN,
     fee : Nat, payer : {"NONE", "BLOGGER", "US"}]

Freight == [status : {"NONE", "PENDING_REVIEW", "PENDING_PAYMENT", "PAID", "REJECTED"},
            amount : Nat, shot : Images \cup {NoImage}]

NoFreight == [status |-> "NONE", amount |-> 0, shot |-> NoImage]

TypeOK ==
    /\ p \in Promotion
    /\ freight \in Freight
    /\ doc \in {"NONE", "PENDING_PAYMENT", "PENDING_FINANCE", "PAID", "REJECTED"}
    /\ star \in BOOLEAN

(* Goods for publicity: the service fee is always zero. *)
QuoteUnder(mode, quote) == IF mode = "BARTER" THEN 0 ELSE quote

(* A promotion as creation leaves it (with or without an order for the
   warehouse) or as the history import leaves it (no order, no mode). *)
NewPromotion(ship, quote, mode) ==
    [publish |-> "UNPUBLISHED", ship |-> ship, recall |-> "NOT",
     settle |-> "NOT_REVIEWED", retro |-> "NOT_STARTED", seven |-> FALSE,
     metrics |-> FALSE, completed |-> FALSE, active |-> TRUE, brand |-> FALSE,
     qr |-> FALSE, shot |-> NoImage, quote |-> QuoteUnder(mode, quote),
     mode |-> mode, returned |-> FALSE, fee |-> 0, payer |-> "NONE"]

Init ==
    /\ \E ship \in {"NULL", "PENDING"}, quote \in Quotes, mode \in Modes \cup {"NONE"} :
          /\ mode = "NONE" => ship = "NULL"
          /\ p = NewPromotion(ship, quote, mode)
    /\ freight = NoFreight
    /\ doc = "NONE"
    /\ star \in BOOLEAN

-----------------------------------------------------------------------------
(* Derived stage: the first rule of STAGE_RULES that holds. *)

(* The rules that follow the publication, on the settlement status. *)
SettlementStage(q) ==
    CASE q.settle = "PENDING_REVIEW"      -> "TO_REVIEW"
      [] q.settle = "REJECTED"            -> "TO_RESUBMIT"
      [] q.settle = "PENDING_PAYMENT"     -> "TO_PAY"
      [] q.settle = "SETTLEMENT_REJECTED" -> "TO_RESUBMIT_SETTLEMENT"
      [] q.settle = "PAID"                -> "TO_SETTLE"
      [] q.settle = "SETTLED" /\ ~q.metrics /\ ~q.seven -> "WAIT_SEVEN_DAYS"
      [] q.settle = "SETTLED" /\ ~q.metrics /\ q.seven  -> "TO_RECORD"
      [] q.settle = "SETTLED" /\ q.metrics /\ q.retro # "DONE" -> "TO_RETRO"
      [] OTHER -> "ABNORMAL"

(* The rules before it, with the recall status as a parameter: published_stage
   asks for the stage the row would have were it not being recalled. *)
StageUnder(q, recall) ==
    CASE ~q.active -> "INACTIVE"
      [] q.active /\ q.completed -> IF q.publish = "CANCELLED" THEN "DONE_RECALLED" ELSE "DONE"
      [] q.active /\ ~q.completed /\ recall = "RECALLING" -> "RECALLING"
      [] q.active /\ ~q.completed /\ q.publish = "CANCELLED" /\ recall \in {"NOT", "FAILURE"} ->
            "DROPPED"
      [] q.active /\ ~q.completed /\ recall # "RECALLING" /\ q.publish = "UNPUBLISHED" ->
            CASE q.ship = "PENDING"  -> "TO_PUSH"
              [] q.ship = "PRINTING" -> "TO_SHIP"
              [] OTHER               -> "TO_PUBLISH"
      [] OTHER -> SettlementStage(q)

Stage == StageUnder(p, p.recall)

(* published_stage: a published promotion keeps its settlement life while its
   goods are being recalled. *)
PublishedStage ==
    IF Stage = "RECALLING" /\ p.publish = "PUBLISHED" THEN StageUnder(p, "NOT") ELSE Stage

(* The matrix columns A to H of a stage. *)
Column ==
    [s \in {"TO_PUSH", "TO_SHIP", "TO_PUBLISH", "TO_REVIEW", "TO_RESUBMIT", "TO_PAY",
            "TO_RESUBMIT_SETTLEMENT", "TO_SETTLE", "WAIT_SEVEN_DAYS", "TO_RECORD", "TO_RETRO",
            "RECALLING", "DONE", "DONE_RECALLED", "DROPPED", "INACTIVE", "ABNORMAL"} |->
        CASE s = "TO_PUSH" -> "A"
          [] s = "TO_SHIP" -> "B"
          [] s = "TO_PUBLISH" -> "C"
          [] s \in {"TO_REVIEW", "TO_RESUBMIT"} -> "D"
          [] s \in {"TO_PAY", "TO_RESUBMIT_SETTLEMENT", "TO_SETTLE"} -> "E"
          [] s \in {"WAIT_SEVEN_DAYS", "TO_RECORD", "TO_RETRO"} -> "F"
          [] s = "RECALLING" -> "G"
          [] OTHER -> "H"]

(* "columns" are open to everybody with the permission, the rest to "*". *)
CellOpen(columns) == star \/ Column[Stage] \in columns

(* The ordinary fields and actions are looked up by the stage a published
   promotion would have were it not being recalled.  Under the recall of a
   cancelled one they are closed for "*" as well, unless they name column G. *)
FieldOpen(columns) ==
    \/ Column[PublishedStage] \in columns
    \/ star /\ Column[PublishedStage] # "G"

(* _writable_promotion: a completed row is read-only, except for "*". *)
Writable == p.active /\ (p.completed => star)

(* maybe_complete's conditional UPDATE. *)
Finished(q) ==
    \/ q.publish = "PUBLISHED" /\ q.settle = "SETTLED" /\ q.metrics /\ q.retro = "DONE"
    \/ q.publish = "CANCELLED" /\ q.recall = "SUCCESS"

MaybeComplete(q) == [q EXCEPT !.completed = @ \/ Finished(q)]

(* A handler that writes the promotion row only. *)
PromotionOnly == UNCHANGED <<freight, doc, star>>

-----------------------------------------------------------------------------
(* The warehouse. *)

NotYetOut == p.publish = "UNPUBLISHED" /\ p.recall = "NOT"

ShipInclude ==
    /\ PromotionOnly
    /\ Writable /\ NotYetOut /\ p.ship = "NULL"
    /\ p' = [p EXCEPT !.ship = "PENDING"]

ShipPush ==
    /\ PromotionOnly
    /\ Writable /\ NotYetOut /\ p.ship = "PENDING"
    /\ p' = [p EXCEPT !.ship = "PRINTING"]

ShipWithdraw ==
    /\ PromotionOnly
    /\ Writable /\ p.ship = "PRINTING" /\ Stage = "TO_SHIP"
    /\ p' = [p EXCEPT !.ship = "PENDING"]

(* The waybill also goes in after the publication: goods may be on the way
   when the blogger posts. *)
WarehouseFill ==
    /\ PromotionOnly
    /\ Writable /\ p.ship \in {"PRINTING", "SHIPPED"}
    /\ CellOpen({"B", "C", "D", "E", "F", "G"})
    /\ p' = [p EXCEPT !.ship = "SHIPPED"]

-----------------------------------------------------------------------------
(* Publication, cancellation, recall. *)

UploadBrandComment ==
    /\ PromotionOnly
    /\ Writable
    /\ FieldOpen({"A", "B", "C"}) \/ PublishedStage = "TO_RESUBMIT"
    /\ p' = [p EXCEPT !.brand = TRUE]

Publish ==
    /\ PromotionOnly
    /\ Writable /\ p.publish = "UNPUBLISHED" /\ p.brand
    /\ p' = [p EXCEPT !.publish = "PUBLISHED", !.retro = "PENDING",
                !.settle = IF @ = "NOT_REVIEWED" THEN "PENDING_REVIEW" ELSE @]

(* Mutant: the row is cancelled, the warehouse keeps its order. *)
CancelAndStillPrint ==
    /\ PromotionOnly
    /\ Writable /\ p.publish = "UNPUBLISHED"
    /\ p' = [p EXCEPT !.publish = "CANCELLED"]

(* An order the warehouse has and has not shipped goes back to waiting. *)
Cancel ==
    /\ PromotionOnly
    /\ Writable /\ p.publish = "UNPUBLISHED"
    /\ p' = [p EXCEPT !.publish = "CANCELLED",
                !.ship = IF @ = "PRINTING" THEN "PENDING" ELSE @]

(* Mutant: any recall can be started again. *)
StartRecallAgain ==
    /\ PromotionOnly
    /\ Writable /\ p.recall # "RECALLING"
    /\ p.publish = "UNPUBLISHED" => p.ship \in {"SHIPPED", "NULL"}
    /\ p' = [p EXCEPT !.recall = "RECALLING",
                !.publish = IF @ = "UNPUBLISHED" THEN "CANCELLED" ELSE @]

(* The goods are out but nothing is published: the recall cancels, too. *)
StartRecall ==
    /\ PromotionOnly
    /\ Writable /\ p.recall \in {"NOT", "FAILURE"}
    /\ p.publish = "UNPUBLISHED" => p.ship \in {"SHIPPED", "NULL"}
    /\ p' = [p EXCEPT !.recall = "RECALLING",
                !.publish = IF @ = "UNPUBLISHED" THEN "CANCELLED" ELSE @]

(* _recall_context: a recall under way outlives the completion of a published
   promotion, and a refused freight payment re-opens the screenshot. *)
Continuing == p.publish = "PUBLISHED" /\ p.recall = "RECALLING"

UploadRecallWaybill ==
    /\ PromotionOnly
    /\ p.active
    /\ freight.status \in {"NONE", "REJECTED"}
    /\ p.completed => star \/ Continuing \/ freight.status = "REJECTED"
    /\ p.recall \in {"RECALLING", "SUCCESS"}
    /\ \E i \in Images : p' = [p EXCEPT !.shot = i]

MayFinishRecall == p.active /\ p.recall = "RECALLING" /\ (p.completed => star \/ Continuing)

RecallFailure ==
    /\ PromotionOnly
    /\ MayFinishRecall
    /\ p' = [p EXCEPT !.recall = "FAILURE"]

(* recall_success, with the freight payment it opens by itself when the
   blogger has paid the shipping, and the completion of a cancelled row. *)
RecallSuccess ==
    /\ MayFinishRecall
    /\ freight.status = "NONE" /\ p.shot # NoImage
    /\ \E fee \in Fees, payer \in {"BLOGGER", "US"} :
          LET owed == fee > 0 /\ payer = "BLOGGER" IN
          /\ owed => p.qr
          /\ p' = MaybeComplete([p EXCEPT !.recall = "SUCCESS", !.fee = fee, !.payer = payer])
          /\ freight' = IF owed THEN [status |-> "PENDING_REVIEW", amount |-> fee,
                                      shot |-> p.shot]
                                ELSE freight
    /\ UNCHANGED <<doc, star>>

(* Mutant: the patch does not look for a payment. *)
EditShippingFeeAnyTime ==
    /\ PromotionOnly
    /\ Writable
    /\ p.recall = "RECALLING" \/ (star /\ p.recall \in {"SUCCESS", "FAILURE"})
    /\ \E fee \in Fees, payer \in {"BLOGGER", "US"} :
          p' = [p EXCEPT !.fee = fee, !.payer = payer]

(* update_promotion on fee and payer: not once a payment exists. *)
EditShippingFee ==
    /\ PromotionOnly
    /\ Writable /\ freight.status = "NONE"
    /\ \/ p.recall = "RECALLING"
       \/ star /\ p.recall \in {"SUCCESS", "FAILURE"}
    /\ \E fee \in Fees, payer \in {"BLOGGER", "US"} :
          p' = [p EXCEPT !.fee = fee, !.payer = payer]

-----------------------------------------------------------------------------
(* The return freight payment. *)

FreightOpen == freight.status \in {"PENDING_REVIEW", "PENDING_PAYMENT", "REJECTED"}

ReadyImages == p.qr /\ p.shot # NoImage

(* What submitting writes: the snapshot on the payment, the amount and the
   payer on the promotion. *)
FreightSubmitted(amount) ==
    /\ amount > 0 /\ ReadyImages
    /\ freight' = [status |-> "PENDING_REVIEW", amount |-> amount, shot |-> p.shot]
    /\ p' = [p EXCEPT !.fee = amount, !.payer = "BLOGGER"]

FreightSubmit ==
    /\ p.active /\ p.recall = "SUCCESS" /\ (p.completed => star)
    /\ freight.status = "NONE"
    /\ \E amount \in Fees \cup {p.fee} : FreightSubmitted(amount)
    /\ UNCHANGED <<doc, star>>

(* Allowed after the completion: the one exception, which never clears it. *)
FreightResubmit ==
    /\ p.active /\ freight.status = "REJECTED"
    /\ \E amount \in Fees \cup {freight.amount} : FreightSubmitted(amount)
    /\ UNCHANGED <<doc, star>>

(* The other moves of freight_rules.TRANSITIONS: none of them reads the
   promotion's own state or touches the service fee. *)
FreightMove(from, to) ==
    /\ freight.status = from
    /\ freight' = [freight EXCEPT !.status = to]
    /\ UNCHANGED <<p, doc, star>>

FreightReview ==
    \E to \in {"PENDING_PAYMENT", "REJECTED"} : FreightMove("PENDING_REVIEW", to)

FreightRejectPayment == FreightMove("PENDING_PAYMENT", "REJECTED")

FreightPay == FreightMove("PENDING_PAYMENT", "PAID")

-----------------------------------------------------------------------------
(* The payment code of the blogger. *)

Paying == doc = "PENDING_FINANCE"

(* _assert_payment_qr_changeable *)
QrChangeable ==
    /\ p.publish # "UNPUBLISHED" \/ p.recall = "RECALLING"
    /\ \/ star
       \/ LET exception == p.recall = "RECALLING" \/ freight.status = "REJECTED" IN
          /\ p.active /\ Stage \notin {"DROPPED", "ABNORMAL"}
          /\ ~Paying
          /\ p.completed \/ p.settle \in {"PAID", "SETTLED"} => exception
          /\ \/ exception
             \/ Stage \in {"TO_REVIEW", "TO_RESUBMIT", "TO_PAY", "TO_RESUBMIT_SETTLEMENT"}

UploadQr ==
    /\ PromotionOnly
    /\ QrChangeable
    /\ p' = [p EXCEPT !.qr = TRUE]

RemoveQr ==
    /\ PromotionOnly
    /\ QrChangeable /\ doc = "NONE"
    /\ p' = [p EXCEPT !.qr = FALSE]

-----------------------------------------------------------------------------
(* Review and settlement, as the promotion sees them. *)

(* update_promotion on quote_amount: columns A to D, for nobody after. *)
EditQuote ==
    /\ PromotionOnly
    /\ Writable /\ Column[PublishedStage] \in {"A", "B", "C", "D"}
    /\ \E quote \in Quotes : p' = [p EXCEPT !.quote = QuoteUnder(p.mode, quote)]

(* update_promotion on cooperation_mode: an empty one is filled in once, at any
   stage before the last column; the costs follow the mode. *)
FillMode ==
    /\ PromotionOnly
    /\ Writable /\ p.mode = "NONE"
    /\ FieldOpen({"A", "B", "C", "D", "E", "F", "G"})
    /\ \E mode \in Modes :
          p' = [p EXCEPT !.mode = mode, !.quote = QuoteUnder(mode, p.quote)]

SetReturnWaybill ==
    /\ PromotionOnly
    /\ Writable /\ p.mode = "CONSIGNMENT"
    /\ FieldOpen({"A", "B", "C", "D"})
    /\ p' = [p EXCEPT !.returned = TRUE]

(* REVIEW_GATES: consigned goods are back, a fee above zero has a code. *)
ReviewGates ==
    /\ p.mode = "CONSIGNMENT" => p.returned \/ (p.recall = "SUCCESS" /\ p.shot # NoImage)
    /\ p.quote > 0 => p.qr

(* The history import of settlements: a document that has been paid, for a
   promotion the review has not reached. *)
ImportSettlement ==
    /\ ~p.completed /\ p.settle = "NOT_REVIEWED"
    /\ doc = "NONE" /\ doc' = "PAID"
    /\ UNCHANGED <<p, freight, star>>

InReview == Writable /\ PublishedStage = "TO_REVIEW"

ReviewApprove ==
    /\ InReview /\ p.publish = "PUBLISHED" /\ ReviewGates
    /\ \/ /\ p.quote = 0
          /\ p' = MaybeComplete([p EXCEPT !.settle = "SETTLED"])
          /\ UNCHANGED doc
       \/ /\ p.quote > 0 /\ doc = "NONE"
          /\ p' = [p EXCEPT !.settle = "PENDING_PAYMENT"]
          /\ doc' = "PENDING_PAYMENT"
       \/ /\ p.quote > 0 /\ doc = "PAID"
          /\ p' = [p EXCEPT !.settle = "PAID"]
          /\ UNCHANGED doc
    /\ UNCHANGED <<freight, star>>

ReviewReject ==
    /\ PromotionOnly
    /\ InReview
    /\ p' = [p EXCEPT !.settle = "REJECTED"]

Resubmit ==
    /\ PromotionOnly
    /\ Writable /\ p.publish = "PUBLISHED" /\ PublishedStage = "TO_RESUBMIT"
    /\ p' = [p EXCEPT !.settle = "PENDING_REVIEW"]

(* Finance fills in the payment, pays it, or refuses it; the listeners move
   the promotion in the same transaction.  A payment tolerates a promotion
   that has moved on and a listener that fails or is missing (the error is
   swallowed and the document committed), a refusal does not. *)
FinanceFill ==
    /\ doc = "PENDING_PAYMENT" /\ doc' = "PENDING_FINANCE"
    /\ UNCHANGED <<p, freight, star>>

FinancePay ==
    /\ doc = "PENDING_FINANCE" /\ doc' = "PAID"
    /\ \/ p.active /\ p.settle = "PENDING_PAYMENT" /\ p' = [p EXCEPT !.settle = "PAID"]
       \/ UNCHANGED p
    /\ UNCHANGED <<freight, star>>

FinanceReject ==
    /\ doc \in {"PENDING_PAYMENT", "PENDING_FINANCE"} /\ doc' = "REJECTED"
    /\ p.active /\ p.settle = "PENDING_PAYMENT"
    /\ p' = [p EXCEPT !.settle = "SETTLEMENT_REJECTED"]
    /\ UNCHANGED <<freight, star>>

ResubmitSettlement ==
    /\ Writable /\ PublishedStage = "TO_RESUBMIT_SETTLEMENT" /\ p.qr
    /\ doc = "REJECTED" /\ doc' = "PENDING_PAYMENT"
    /\ p' = [p EXCEPT !.settle = "PENDING_PAYMENT"]
    /\ UNCHANGED <<freight, star>>

UploadSettlementChat ==
    /\ PromotionOnly
    /\ Writable /\ PublishedStage = "TO_SETTLE"
    /\ p' = MaybeComplete([p EXCEPT !.settle = "SETTLED"])

-----------------------------------------------------------------------------
(* After the publication: seven days, 7-day data, retrospective. *)

SevenDaysPass ==
    /\ PromotionOnly
    /\ p.publish = "PUBLISHED" /\ ~p.seven
    /\ p' = [p EXCEPT !.seven = TRUE]

(* Mutant: the numbers are stored and nobody looks for completion. *)
RecordAndForget ==
    /\ PromotionOnly
    /\ Writable /\ ~p.metrics /\ p.settle = "SETTLED" /\ p.seven
    /\ PublishedStage = "TO_RECORD"
    /\ p' = [p EXCEPT !.metrics = TRUE]

RecordMetrics ==
    /\ PromotionOnly
    /\ Writable /\ ~p.metrics /\ p.settle = "SETTLED" /\ p.seven
    /\ PublishedStage = "TO_RECORD"
    /\ p' = MaybeComplete([p EXCEPT !.metrics = TRUE])

(* A retrospective may be written before the fee is settled; "*" may revise. *)
WriteRetrospective ==
    /\ PromotionOnly
    /\ Writable /\ p.publish = "PUBLISHED"
    /\ p.retro = "PENDING" \/ (p.retro = "DONE" /\ star)
    /\ p' = MaybeComplete([p EXCEPT !.retro = "DONE"])

-----------------------------------------------------------------------------
(* Mutant: the gate looks at the settlement document only. *)
DeactivateWithFreight ==
    /\ PromotionOnly
    /\ Writable /\ doc \notin {"PENDING_PAYMENT", "PENDING_FINANCE"}
    /\ CellOpen({"A", "B", "C", "D", "G"})
    /\ p' = [p EXCEPT !.active = FALSE]

(* soft_delete_promotion and update_promotion(is_active = false): refused
   while money is under way. *)
Deactivate ==
    /\ PromotionOnly
    /\ Writable /\ ~FreightOpen /\ doc \notin {"PENDING_PAYMENT", "PENDING_FINANCE"}
    /\ CellOpen({"A", "B", "C", "D", "G"})
    /\ p' = [p EXCEPT !.active = FALSE]

Next ==
    \/ ShipInclude \/ ShipPush \/ ShipWithdraw \/ WarehouseFill
    \/ UploadBrandComment \/ Publish \/ Cancel \/ StartRecall
    \/ UploadRecallWaybill \/ RecallFailure \/ RecallSuccess \/ EditShippingFee
    \/ FreightSubmit \/ FreightResubmit \/ FreightReview \/ FreightRejectPayment
    \/ FreightPay
    \/ UploadQr \/ RemoveQr \/ EditQuote \/ FillMode \/ SetReturnWaybill
    \/ ImportSettlement
    \/ ReviewApprove \/ ReviewReject \/ Resubmit
    \/ FinanceFill \/ FinancePay \/ FinanceReject \/ ResubmitSettlement
    \/ UploadSettlementChat \/ SevenDaysPass \/ RecordMetrics \/ WriteRetrospective
    \/ Deactivate

Spec == Init /\ [][Next]_vars

-----------------------------------------------------------------------------
(* Properties. *)

(* The stage table is total over what the handlers can produce: "abnormal",
   its last line, which the source calls unreachable, is never shown.  It
   needs every handler that can supply the last missing fact (approval of a
   free promotion, settlement screenshot, 7-day data, retrospective, recall)
   to set the completion mark. *)
StageIsNeverAbnormal == Stage # "ABNORMAL"

(* The freight payment always belongs to a successful recall, asks for the
   amount the promotion shows, and, until it is refused, was made from the
   screenshot the promotion still shows. *)
FreightMatchesRecall ==
    freight.status # "NONE" =>
        /\ p.recall = "SUCCESS" /\ p.payer = "BLOGGER"
        /\ freight.amount = p.fee /\ freight.amount > 0
        /\ freight.status # "REJECTED" => freight.shot = p.shot

(* A promotion with money under way (a freight payment not yet paid, a
   settlement document before finance) is active: the payment can still be
   refused and corrected. *)
OpenMoneyKeepsActive ==
    FreightOpen \/ doc \in {"PENDING_PAYMENT", "PENDING_FINANCE"} => p.active

(* The completion mark is earned and stays true: a completed promotion still
   satisfies one of the two conditions that completed it, whatever recall or
   freight payment came afterwards. *)
CompletionStaysTrue == p.completed => Finished(p)

(* A cancelled promotion is not in the warehouse's queue: nothing is printed
   for it, whether it was cancelled or recalled. *)
CancelledLeavesWarehouse == p.publish = "CANCELLED" => p.ship # "PRINTING"

=============================================================================
