-------------------------- MODULE SettlementProofs --------------------------
(* Proofs about Settlement, for every set of requests and every amount. *)
EXTENDS SettlementContract, TLAPS

(* Type correctness. *)

LEMMA WrittenType ==
    ASSUME TypeOK, NEW r \in Req, NEW p \in Pays, NEW n \in BOOLEAN
    PROVE  Written(r, p, n) \in Doc
<1>1. req[r] \in Request /\ doc \in Doc /\ p \in Nat
  BY AmountAssumption DEF TypeOK
<1>2. CASE req[r].op = "fill"
  <2>1. Written(r, p, n) = [doc EXCEPT !.status = "PENDING_FINANCE", !.pay = p, !.note = n]
    BY <1>2 DEF Written
  <2>2. QED BY <1>1, <2>1, Zenon DEF Doc, DocStatus
<1>3. CASE req[r].op = "extra"
  <2>1. /\ Written(r, p, n) = [doc EXCEPT !.total = req[r].sum, !.extra = @ + req[r].num]
        /\ req[r].sum \in Nat /\ doc.extra + req[r].num \in Nat
    BY <1>1, <1>3 DEF Written, Request, Doc
  <2>2. QED BY <1>1, <2>1 DEF Doc
<1>4. CASE req[r].op \notin {"fill", "extra"}
  BY <1>1, <1>4 DEF Written, Doc, DocStatus, NoPay
<1>5. QED
  BY <1>2, <1>3, <1>4

(* Operation none and only none belongs to an idle slot. *)
SlotOK == \A r \in Req : req[r].op = "none" <=> req[r].pc = "idle"

LEMMA TypeStep == TypeOK /\ SlotOK /\ [Next]_vars => TypeOK' /\ SlotOK'
<1> SUFFICES ASSUME TypeOK, SlotOK, [Next]_vars PROVE TypeOK' /\ SlotOK'
  OBVIOUS
<1>t. /\ promo \in Promo /\ doc \in Doc /\ req \in [Req -> Request]
      /\ promoLock \in Req \cup {NoReq} /\ docLock \in Req \cup {NoReq}
  BY DEF TypeOK
<1>d. NoDoc \in Doc /\ Idle \in Request
  BY DEF NoDoc, Doc, Idle, Request, DocStatus, NoPay, Ops
<1>p. ASSUME PromoOnly, promo' \in Promo, doc' \in Doc PROVE TypeOK' /\ SlotOK'
  BY <1>t, <1>p DEF PromoOnly, TypeOK, SlotOK
<1>f. ASSUME NEW r \in Req, Finish(r), promo' \in Promo, doc' \in Doc PROVE TypeOK' /\ SlotOK'
  BY <1>t, <1>f, <1>d DEF Finish, Released, TypeOK, SlotOK, Idle
<1>1. CASE Publish
  <2>1. promo' \in Promo /\ doc' = doc
    BY <1>1, <1>t DEF Publish, Promo, PromoStatus
  <2>2. QED BY <2>1, <1>p, <1>t, <1>1 DEF Publish
<1>2. CASE EditPosts
  <2>1. promo' \in Promo /\ doc' = doc
    BY <1>2, <1>t DEF EditPosts, Promo, PromoStatus
  <2>2. QED BY <2>1, <1>p, <1>t, <1>2 DEF EditPosts
<1>3. CASE EditQuote
  <2>1. promo' \in Promo /\ doc' = doc
    BY <1>3, <1>t, AmountAssumption DEF EditQuote, Promo, PromoStatus
  <2>2. QED BY <2>1, <1>p, <1>t, <1>3 DEF EditQuote
<1>4. CASE ReviewApprove
  <2>1. promo' \in Promo
    BY <1>4, <1>t DEF ReviewApprove, Promo, PromoStatus
  <2>2. doc' \in Doc
    BY <1>4, <1>t, <1>d DEF ReviewApprove, NewDoc, Doc, DocStatus, Promo
  <2>3. QED BY <2>1, <2>2, <1>p, <1>4 DEF ReviewApprove
<1>5. CASE ReviewReject
  <2>1. promo' \in Promo /\ doc' = doc
    BY <1>5, <1>t DEF ReviewReject, Promo, PromoStatus
  <2>2. QED BY <2>1, <1>p, <1>t, <1>5 DEF ReviewReject
<1>6. CASE ReviewResubmit
  <2>1. promo' \in Promo /\ doc' = doc
    BY <1>6, <1>t DEF ReviewResubmit, Promo, PromoStatus
  <2>2. QED BY <2>1, <1>p, <1>t, <1>6 DEF ReviewResubmit
<1>7. CASE SettleByChat
  <2>1. promo' \in Promo /\ doc' = doc
    BY <1>7, <1>t DEF SettleByChat, Promo, PromoStatus
  <2>2. QED BY <2>1, <1>p, <1>t, <1>7 DEF SettleByChat
<1>8. CASE Deactivate
  <2>1. promo' \in Promo /\ doc' = doc
    BY <1>8, <1>t DEF Deactivate, Promo, PromoStatus
  <2>2. QED BY <2>1, <1>p, <1>t, <1>8 DEF Deactivate
<1>9. CASE ImportSettlement
  <2>1. doc' \in Doc /\ promo' = promo
    BY <1>9, <1>t, <1>d, AmountAssumption DEF ImportSettlement, NewDoc, Doc, DocStatus
  <2>2. QED BY <2>1, <1>p, <1>t, <1>9 DEF ImportSettlement
<1>10. ASSUME NEW r \in Req, ReadDoc(r) PROVE TypeOK' /\ SlotOK'
  <2>1. PICK op \in Ops, from \in DocStatus : Read(r, op, from)
    BY <1>10 DEF ReadDoc, Ops, DocStatus, InProgress
  <2>2. [Idle EXCEPT !.op = op, !.pc = "read", !.from = from,
                     !.num = IF op = "fill" THEN doc.total ELSE 0] \in Request
    BY <1>t, <1>d DEF Request, Doc
  <2>3. QED BY <2>1, <2>2, <1>t DEF Read, TypeOK, SlotOK, Idle, Ops
<1>11. ASSUME NEW r \in Req, InsertAndSum(r) PROVE TypeOK' /\ SlotOK'
  <2>1. PICK i \in Items :
          req' = [req EXCEPT ![r] = [@ EXCEPT !.pc = "summed", !.num = i,
                                              !.sum = doc.amount + doc.extra + i]]
    BY <1>11 DEF InsertAndSum
  <2>2. i \in Nat /\ doc.amount + doc.extra + i \in Nat
    BY <1>t, AmountAssumption DEF Doc
  <2>3. req[r].op = "extra"
    BY <1>11 DEF InsertAndSum, Busy
  <2>4. [req[r] EXCEPT !.pc = "summed", !.num = i,
                       !.sum = doc.amount + doc.extra + i] \in Request
    BY <2>2, <1>t DEF Request
  <2>5. QED BY <1>11, <2>1, <2>3, <2>4, <1>t DEF InsertAndSum, Busy, TypeOK, SlotOK
<1>12. ASSUME NEW r \in Req, LockPromo(r) PROVE TypeOK' /\ SlotOK'
  BY <1>t, <1>12 DEF LockPromo, TypeOK, SlotOK, Request
<1>13. ASSUME NEW r \in Req, BeginResubmit(r) PROVE TypeOK' /\ SlotOK'
  BY <1>t, <1>d, <1>13 DEF BeginResubmit, TypeOK, SlotOK, Request, Idle, Ops, DocStatus
<1>14. ASSUME NEW r \in Req, UpdateDoc(r) PROVE TypeOK' /\ SlotOK'
  <2>1. req[r].pc # "idle" /\ req[r].op \in Ops
    BY <1>t, <1>14 DEF UpdateDoc, ReadyToUpdate, Busy, SlotOK, Request
  <2>2. PICK p \in Pays, n \in BOOLEAN :
          req' = [req EXCEPT ![r] = [@ EXCEPT !.pc = "updated", !.w = Written(r, p, n)]]
    BY <1>14 DEF UpdateDoc
  <2>3. Written(r, p, n) \in Doc
    BY <1>14, WrittenType
  <2>4. [req[r] EXCEPT !.pc = "updated", !.w = Written(r, p, n)] \in Request
    BY <2>3, <1>t DEF Request
  <2>5. QED BY <1>14, <2>1, <2>2, <2>4, <1>t DEF UpdateDoc, TypeOK, SlotOK
<1>15. ASSUME NEW r \in Req, Commit(r) PROVE TypeOK' /\ SlotOK'
  <2>1. doc' \in Doc /\ Finish(r)
    BY <1>15, <1>t DEF Commit, Request
  <2>2. promo' \in Promo
    BY <1>15, <1>t DEF Commit, CommitPromo, MovePromo, Promo, PromoStatus
  <2>3. QED BY <2>1, <2>2, <1>f
<1>16. ASSUME NEW r \in Req, Conflict(r) \/ Fail(r) PROVE TypeOK' /\ SlotOK'
  BY <1>16, <1>t, <1>f DEF Conflict, Fail
<1>17. CASE UNCHANGED vars
  BY <1>17 DEF vars, TypeOK, SlotOK
<1>18. QED
  BY <1>1, <1>2, <1>3, <1>4, <1>5, <1>6, <1>7, <1>8, <1>9, <1>10, <1>11, <1>12,
     <1>13, <1>14, <1>15, <1>16, <1>17 DEF Next, PromoStep, RequestStep, Progress

LEMMA TypeInit == Init => TypeOK /\ SlotOK
<1> SUFFICES ASSUME Init PROVE TypeOK /\ SlotOK
  OBVIOUS
<1>1. PICK q \in Quotes :
         \/ promo = FreshPromo(q) /\ doc = NoDoc
         \/ promo = LegacyPromo(q) /\ doc = NewDoc("PENDING_REVIEW", q)
  BY DEF Init
<1>2. q \in Nat
  BY AmountAssumption
<1>3. promo \in Promo
  <2>1. FreshPromo(q) \in Promo
    BY <1>2 DEF FreshPromo, Promo, PromoStatus
  <2>2. LegacyPromo(q) \in Promo
    BY <1>2 DEF LegacyPromo, Promo, PromoStatus
  <2>3. QED BY <1>1, <2>1, <2>2
<1>4. NoDoc \in Doc
  BY DEF NoDoc, Doc, DocStatus, NoPay
<1>5. doc \in Doc
  <2>1. NewDoc("PENDING_REVIEW", q) \in Doc
    BY <1>2, <1>4 DEF NewDoc, Doc, DocStatus
  <2>2. QED BY <1>1, <1>4, <2>1
<1>6. Idle \in Request /\ Idle.op = "none" /\ Idle.pc = "idle"
  BY <1>4 DEF Idle, Request, DocStatus, Ops
<1>7. TypeOK
  BY <1>3, <1>5, <1>6 DEF Init, TypeOK
<1>8. SlotOK
  BY <1>6 DEF Init, SlotOK
<1>9. QED
  BY <1>7, <1>8

(* Every variable keeps its type. *)
THEOREM TypeCorrect == Spec => []TypeOK
<1>1. Spec => [](TypeOK /\ SlotOK)
  BY TypeInit, TypeStep, PTL DEF Spec
<1>2. QED BY <1>1, PTL


-----------------------------------------------------------------------------
(* The inductive invariant.  A request that waits for its commit holds the   *)
(* locks that keep what it has checked true; that is what makes its commit   *)
(* move both tables together.                                                *)

PromoOps == {"pay", "approve", "reject", "resubmit"}

(* Which pcs an operation goes through and which status it starts from. *)
Shape(r) ==
    /\ req[r].op = "none" <=> req[r].pc = "idle"
    /\ req[r].op = "fill" => req[r].pc \in {"read", "updated"} /\ req[r].from = "PENDING_PAYMENT"
    /\ req[r].op = "extra" => req[r].pc # "locked" /\ req[r].from = "PENDING_PAYMENT"
    /\ req[r].op \in PromoOps => req[r].pc # "summed"
    /\ req[r].op = "pay" => req[r].from = "PENDING_FINANCE"
    /\ req[r].op = "approve" => req[r].from = "PENDING_REVIEW"
    /\ req[r].op = "reject" => req[r].from \in InProgress
    /\ req[r].op = "resubmit" => req[r].from = "REJECTED"
    /\ req[r].pc # "idle" => doc.status # "NONE"

Holds(r) ==
    /\ promoLock = r <=> req[r].op \in PromoOps /\ req[r].pc \in {"locked", "updated"}
    /\ docLock = r <=> req[r].pc = "updated"

(* Nobody else has changed the settlement row since the update. *)
Kept(r) ==
    req[r].pc = "updated" =>
        /\ Where(r)
        /\ \E p \in Pays, n \in BOOLEAN :
              NoteGiven(r, p, n) /\ req[r].w = Written(r, p, n)

(* Nor the promotion row since it was locked. *)
PromoKept(r) ==
    req[r].pc \in {"locked", "updated"} =>
        /\ req[r].op \in {"pay", "approve", "resubmit"} => Fulfilled
        /\ req[r].op = "resubmit" => promo.active /\ promo.settle = "SETTLEMENT_REJECTED"

(* A total computed from what the request saw is at most what is there when
   it commits. *)
SumOK(r) ==
    req[r].op = "extra" /\ req[r].pc \in {"summed", "updated"} =>
        /\ doc.amount <= req[r].sum
        /\ req[r].sum <= doc.amount + doc.extra + req[r].num

ReqInv == \A r \in Req : Shape(r) /\ Holds(r) /\ Kept(r) /\ PromoKept(r) /\ SumOK(r)

ImportedIsPaid == doc.imported => doc.status = "PAID"

RowInv == /\ SidesAgree
          /\ FeeOnlyIfFulfilled
          /\ PendingHasNoPayment
          /\ NoteExplainsDifference
          /\ TotalNeverExceeds
          /\ ImportedIsPaid

IInv == TypeOK /\ ReqInv /\ RowInv

(* Handlers on the promotion row find no request in the middle of its own    *)
(* promotion work, because promoLock is free.                                *)

LEMMA PromoOnlyKeepsRequests ==
    ASSUME IInv, PromoOnly, doc' = doc \/ doc.status = "NONE"
    PROVE  ReqInv'
<1>1. /\ req' = req /\ promoLock' = promoLock /\ docLock' = docLock /\ promoLock = NoReq
  BY DEF PromoOnly
<1>2. SUFFICES ASSUME NEW r \in Req
               PROVE  (Shape(r) /\ Holds(r) /\ Kept(r) /\ PromoKept(r) /\ SumOK(r))'
  BY DEF ReqInv
<1>3. Shape(r) /\ Holds(r) /\ Kept(r) /\ SumOK(r)
  BY DEF IInv, ReqInv
<1>4. ~(req[r].op \in PromoOps /\ req[r].pc \in {"locked", "updated"})
  BY <1>1, <1>3, ReqAssumption DEF Holds
<1>5. PromoKept(r)'
  BY <1>1, <1>3, <1>4 DEF PromoKept, PromoOps
<1>6. CASE doc' = doc
  BY <1>1, <1>3, <1>5, <1>6 DEF Shape, Holds, Kept, SumOK, Where, Written, NoteGiven
<1>7. CASE doc.status = "NONE"
  <2>1. req[r].pc = "idle"
    BY <1>3, <1>7 DEF Shape
  <2>2. QED BY <1>1, <1>3, <1>5, <2>1 DEF Shape, Holds, Kept, SumOK
<1>8. QED BY <1>6, <1>7

LEMMA PromoStepKeepsInv == IInv /\ PromoStep => ReqInv' /\ RowInv'
<1> SUFFICES ASSUME IInv, PromoStep PROVE ReqInv' /\ RowInv'
  OBVIOUS
<1>t. promo \in Promo /\ doc \in Doc
  BY DEF IInv, TypeOK
<1>v. RowInv
  BY DEF IInv
<1>1. CASE Publish
  <2>1. /\ doc' = doc /\ PromoOnly /\ promo.active /\ ~promo.published
        /\ promo'.published /\ promo'.active = promo.active
        /\ promo'.settle = IF promo.settle = "NOT_REVIEWED" THEN "PENDING_REVIEW"
                                                            ELSE promo.settle
    BY <1>1, <1>t DEF Publish, Promo
  <2>2. doc.status = "NONE" \/ doc.imported
    BY <1>v, <2>1 DEF RowInv, FeeOnlyIfFulfilled, Fulfilled
  <2>3. RowInv'
    BY <1>v, <2>1, <2>2 DEF RowInv, SidesAgree, FeeOnlyIfFulfilled, PendingHasNoPayment,
       NoteExplainsDifference, TotalNeverExceeds, ImportedIsPaid, Open, InProgress
  <2>4. QED BY <2>1, <2>3, PromoOnlyKeepsRequests
<1>2. CASE EditPosts
  <2>1. /\ doc' = doc /\ PromoOnly /\ promo.active /\ promo'.active
        /\ promo'.published /\ promo'.settle = promo.settle
        /\ promo.settle \in Settling => promo'.complete
    BY <1>2, <1>t DEF EditPosts, Promo
  <2>2. doc.status # "NONE" /\ ~doc.imported => promo.settle \in Settling
    BY <1>v, <1>t, <2>1 DEF RowInv, SidesAgree, Settling, Open, InProgress, Doc, DocStatus
  <2>3. RowInv'
    BY <1>v, <2>1, <2>2 DEF RowInv, SidesAgree, FeeOnlyIfFulfilled, Fulfilled,
       PendingHasNoPayment, NoteExplainsDifference, TotalNeverExceeds, ImportedIsPaid
  <2>4. QED BY <2>1, <2>3, PromoOnlyKeepsRequests
<1>3. CASE EditQuote
  <2>1. /\ doc' = doc /\ PromoOnly /\ promo'.active = promo.active
        /\ promo'.published = promo.published /\ promo'.settle = promo.settle
        /\ promo'.complete = promo.complete
    BY <1>3, <1>t DEF EditQuote, Promo
  <2>3. RowInv'
    BY <1>v, <2>1 DEF RowInv, SidesAgree, FeeOnlyIfFulfilled, Fulfilled,
       PendingHasNoPayment, NoteExplainsDifference, TotalNeverExceeds, ImportedIsPaid
  <2>4. QED BY <2>1, <2>3, PromoOnlyKeepsRequests
<1>4. CASE ReviewApprove
  <2>1. /\ PromoOnly /\ promo.active /\ promo.settle = "PENDING_REVIEW" /\ Fulfilled
        /\ promo'.active /\ promo'.published /\ promo'.complete
    BY <1>4, <1>t DEF ReviewApprove, Promo, Fulfilled
  <2>2. doc.status = "NONE" \/ (doc.status = "PAID" /\ doc.imported)
    BY <1>v, <1>t, <2>1 DEF RowInv, SidesAgree, Open, InProgress, Doc, DocStatus
  <2>3. CASE doc' = doc /\ promo'.settle = "SETTLED"
    <3>1. RowInv'
      BY <1>v, <2>1, <2>2, <2>3 DEF RowInv, SidesAgree, FeeOnlyIfFulfilled, Fulfilled,
         PendingHasNoPayment, NoteExplainsDifference, TotalNeverExceeds, ImportedIsPaid,
         Open, InProgress
    <3>2. QED BY <2>1, <2>3, <3>1, PromoOnlyKeepsRequests
  <2>4. CASE /\ doc.status = "NONE" /\ promo'.settle = "PENDING_PAYMENT"
             /\ doc' = NewDoc("PENDING_PAYMENT", promo.quote)
    <3>1. /\ doc'.status = "PENDING_PAYMENT" /\ doc'.amount = promo.quote
          /\ doc'.total = promo.quote /\ doc'.extra = 0 /\ promo.quote \in Nat
          /\ doc'.pay = NoPay /\ ~doc'.note /\ ~doc'.imported
      BY <2>4, <1>t DEF NewDoc, NoDoc, Promo
    <3>2. RowInv'
      BY <2>1, <2>4, <3>1 DEF RowInv, SidesAgree, FeeOnlyIfFulfilled, Fulfilled,
         PendingHasNoPayment, NoteExplainsDifference, TotalNeverExceeds, ImportedIsPaid,
         Open, InProgress
    <3>3. QED BY <2>1, <2>4, <3>2, PromoOnlyKeepsRequests
  <2>5. CASE doc' = doc /\ doc.status = "PAID" /\ promo'.settle = "PAID"
    <3>1. RowInv'
      BY <1>v, <2>1, <2>2, <2>5 DEF RowInv, SidesAgree, FeeOnlyIfFulfilled, Fulfilled,
         PendingHasNoPayment, NoteExplainsDifference, TotalNeverExceeds, ImportedIsPaid,
         Open, InProgress
    <3>2. QED BY <2>1, <2>5, <3>1, PromoOnlyKeepsRequests
  <2>6. QED
    <3>1. \/ doc' = doc /\ promo' = [promo EXCEPT !.settle = "SETTLED"]
          \/ /\ doc.status = "NONE" /\ promo' = [promo EXCEPT !.settle = "PENDING_PAYMENT"]
             /\ doc' = NewDoc("PENDING_PAYMENT", promo.quote)
          \/ /\ doc' = doc /\ doc.status = "PAID" /\ promo' = [promo EXCEPT !.settle = "PAID"]
      BY <1>4 DEF ReviewApprove
    <3>2. QED BY <3>1, <2>3, <2>4, <2>5, <1>t DEF Promo
<1>5. ASSUME \/ ReviewReject \/ ReviewResubmit PROVE ReqInv' /\ RowInv'
  <2>1. /\ doc' = doc /\ PromoOnly /\ promo.active /\ promo'.active
        /\ promo'.published = promo.published /\ promo'.complete = promo.complete
        /\ promo.settle \in {"PENDING_REVIEW", "REJECTED"}
        /\ promo'.settle \in {"PENDING_REVIEW", "REJECTED"}
    BY <1>5, <1>t DEF ReviewReject, ReviewResubmit, Promo
  <2>2. RowInv'
    BY <1>v, <2>1 DEF RowInv, SidesAgree, FeeOnlyIfFulfilled, Fulfilled,
       PendingHasNoPayment, NoteExplainsDifference, TotalNeverExceeds, ImportedIsPaid
  <2>3. QED BY <2>1, <2>2, PromoOnlyKeepsRequests
<1>6. CASE SettleByChat
  <2>1. /\ doc' = doc /\ PromoOnly /\ promo.active /\ promo'.active
        /\ promo'.published = promo.published /\ promo'.complete = promo.complete
        /\ promo.settle = "PAID" /\ promo'.settle = "SETTLED"
    BY <1>6, <1>t DEF SettleByChat, Promo
  <2>2. RowInv'
    BY <1>v, <2>1 DEF RowInv, SidesAgree, FeeOnlyIfFulfilled, Fulfilled,
       PendingHasNoPayment, NoteExplainsDifference, TotalNeverExceeds, ImportedIsPaid,
       Open, InProgress
  <2>3. QED BY <2>1, <2>2, PromoOnlyKeepsRequests
<1>7. CASE Deactivate
  <2>1. /\ doc' = doc /\ PromoOnly /\ promo.active /\ ~promo'.active
        /\ promo'.published = promo.published /\ promo'.complete = promo.complete
        /\ promo'.settle = promo.settle
    BY <1>7, <1>t DEF Deactivate, Promo
  <2>2. RowInv'
    BY <1>v, <2>1 DEF RowInv, SidesAgree, FeeOnlyIfFulfilled, Fulfilled,
       PendingHasNoPayment, NoteExplainsDifference, TotalNeverExceeds, ImportedIsPaid
  <2>3. QED BY <2>1, <2>2, PromoOnlyKeepsRequests
<1>8. CASE ImportSettlement
  <2>1. /\ promo' = promo /\ PromoOnly /\ doc.status = "NONE"
        /\ promo.settle = "NOT_REVIEWED"
    BY <1>8 DEF ImportSettlement
  <2>2. doc'.status = "PAID" /\ doc'.imported
    BY <1>8 DEF ImportSettlement, NewDoc, NoDoc
  <2>3. RowInv'
    BY <1>v, <2>1, <2>2 DEF RowInv, SidesAgree, FeeOnlyIfFulfilled, Fulfilled,
       PendingHasNoPayment, NoteExplainsDifference, TotalNeverExceeds, ImportedIsPaid,
       Open, InProgress
  <2>4. QED BY <2>1, <2>3, PromoOnlyKeepsRequests
<1>9. QED
  BY <1>1, <1>2, <1>3, <1>4, <1>5, <1>6, <1>7, <1>8 DEF PromoStep


-----------------------------------------------------------------------------
(* Requests.  Until it commits, a request changes only its own slot and the  *)
(* locks it takes or gives back.                                             *)

LocksOfOthers(r) ==
    \A q \in Req \ {r} : /\ req'[q] = req[q]
                         /\ (promoLock' = q) <=> (promoLock = q)
                         /\ (docLock' = q) <=> (docLock = q)

LEMMA OwnSlotStep ==
    ASSUME IInv, NEW r \in Req, UNCHANGED <<promo, doc>>, LocksOfOthers(r),
           (Shape(r) /\ Holds(r) /\ Kept(r) /\ PromoKept(r) /\ SumOK(r))'
    PROVE  ReqInv' /\ RowInv'
<1>1. RowInv'
  BY DEF IInv, RowInv, SidesAgree, FeeOnlyIfFulfilled, Fulfilled, PendingHasNoPayment,
     NoteExplainsDifference, TotalNeverExceeds, ImportedIsPaid
<1>2. ASSUME NEW q \in Req \ {r}
      PROVE  (Shape(q) /\ Holds(q) /\ Kept(q) /\ PromoKept(q) /\ SumOK(q))'
  <2>1. Shape(q) /\ Holds(q) /\ Kept(q) /\ PromoKept(q) /\ SumOK(q)
    BY DEF IInv, ReqInv
  <2>2. /\ req'[q] = req[q] /\ (promoLock' = q <=> promoLock = q)
        /\ (docLock' = q <=> docLock = q) /\ promo' = promo /\ doc' = doc
    BY DEF LocksOfOthers
  <2>3. Kept(q)'
    <3>1. Where(q)' <=> Where(q)
      BY <2>2 DEF Where
    <3>2. \A p \in Pays, n \in BOOLEAN :
             (NoteGiven(q, p, n)' <=> NoteGiven(q, p, n)) /\ Written(q, p, n)' = Written(q, p, n)
      BY <2>2 DEF NoteGiven, Written
    <3>3. QED BY <2>1, <2>2, <3>1, <3>2 DEF Kept
  <2>4. Shape(q)' /\ Holds(q)'
    BY <2>1, <2>2 DEF Shape, Holds
  <2>5. PromoKept(q)' /\ SumOK(q)'
    BY <2>1, <2>2 DEF PromoKept, Fulfilled, SumOK
  <2>6. QED BY <2>3, <2>4, <2>5
<1>3. QED
  BY <1>1, <1>2 DEF ReqInv

LEMMA FinishKeepsInv ==
    ASSUME IInv, NEW r \in Req, Finish(r), UNCHANGED <<promo, doc>>
    PROVE  ReqInv' /\ RowInv'
<1>1. req \in [Req -> Request]
  BY DEF IInv, TypeOK
<1>2. LocksOfOthers(r)
  BY <1>1, ReqAssumption DEF Finish, Released, LocksOfOthers
<1>3. req'[r] = Idle /\ promoLock' # r /\ docLock' # r
  BY <1>1, ReqAssumption DEF Finish, Released
<1>4. (Shape(r) /\ Holds(r) /\ Kept(r) /\ PromoKept(r) /\ SumOK(r))'
  BY <1>3 DEF Idle, Shape, Holds, Kept, PromoKept, SumOK, PromoOps
<1>5. QED
  BY <1>2, <1>4, OwnSlotStep

(* The steps of a request before its commit. *)
LEMMA WorkKeepsInv ==
    ASSUME IInv, NEW r \in Req,
           ReadDoc(r) \/ InsertAndSum(r) \/ LockPromo(r) \/ BeginResubmit(r) \/ UpdateDoc(r)
    PROVE  ReqInv' /\ RowInv'
<1>t. req \in [Req -> Request] /\ promo \in Promo /\ doc \in Doc
  BY DEF IInv, TypeOK
<1>i. Shape(r) /\ Holds(r) /\ Kept(r) /\ PromoKept(r) /\ SumOK(r)
  BY DEF IInv, ReqInv
<1>1. CASE ReadDoc(r)
  <2>1. PICK op \in Ops, from \in DocStatus :
           /\ Read(r, op, from) /\ from # "NONE"
           /\ op = "fill" => from = "PENDING_PAYMENT"
           /\ op = "extra" => from = "PENDING_PAYMENT"
           /\ op = "pay" => from = "PENDING_FINANCE"
           /\ op = "approve" => from = "PENDING_REVIEW"
           /\ op = "reject" => from \in InProgress
           /\ op # "resubmit"
    BY <1>1 DEF ReadDoc, Ops, DocStatus, InProgress
  <2>2. /\ req'[r].op = op /\ req'[r].pc = "read" /\ req'[r].from = from
        /\ UNCHANGED <<promo, doc, promoLock, docLock>> /\ req[r].pc = "idle"
        /\ doc.status = from
    BY <2>1, <1>t DEF Read, Idle
  <2>3. LocksOfOthers(r)
    BY <2>1, <2>2, <1>t DEF Read, LocksOfOthers
  <2>4. (Shape(r) /\ Holds(r) /\ Kept(r) /\ PromoKept(r) /\ SumOK(r))'
    BY <2>1, <2>2, <1>i DEF Shape, Holds, Kept, PromoKept, SumOK, PromoOps, Ops
  <2>5. QED BY <2>2, <2>3, <2>4, OwnSlotStep
<1>2. CASE InsertAndSum(r)
  <2>1. PICK i \in Items :
          req' = [req EXCEPT ![r] = [@ EXCEPT !.pc = "summed", !.num = i,
                                              !.sum = doc.amount + doc.extra + i]]
    BY <1>2 DEF InsertAndSum
  <2>2. /\ req[r].op = "extra" /\ req[r].pc = "read"
        /\ UNCHANGED <<promo, doc, promoLock, docLock>>
    BY <1>2 DEF InsertAndSum, Busy
  <2>3. /\ req'[r].op = "extra" /\ req'[r].pc = "summed" /\ req'[r].from = req[r].from
        /\ req'[r].num = i /\ req'[r].sum = doc.amount + doc.extra + i
    BY <2>1, <2>2, <1>t DEF Request
  <2>4. LocksOfOthers(r)
    BY <2>1, <2>2, <1>t DEF LocksOfOthers
  <2>5. SumOK(r)'
    BY <2>2, <2>3, <1>t, AmountAssumption DEF SumOK, Doc
  <2>6. (Shape(r) /\ Holds(r) /\ Kept(r) /\ PromoKept(r))'
    BY <2>2, <2>3, <1>i DEF Shape, Holds, Kept, PromoKept, PromoOps
  <2>7. QED BY <2>2, <2>4, <2>5, <2>6, OwnSlotStep
<1>3. CASE LockPromo(r)
  <2>1. /\ req[r].op \in {"pay", "approve", "reject"} /\ req[r].pc = "read"
        /\ promoLock = NoReq /\ promoLock' = r /\ UNCHANGED <<promo, doc, docLock>>
        /\ req[r].op # "reject" => Fulfilled
    BY <1>3 DEF LockPromo
  <2>2. /\ req'[r].op = req[r].op /\ req'[r].pc = "locked"
        /\ req'[r].from = req[r].from
    BY <1>3, <1>t DEF LockPromo, Request
  <2>3. LocksOfOthers(r)
    BY <1>3, <2>1, <1>t, ReqAssumption DEF LockPromo, LocksOfOthers
  <2>4. (Shape(r) /\ Holds(r) /\ Kept(r) /\ PromoKept(r) /\ SumOK(r))'
    BY <2>1, <2>2, <1>i DEF Shape, Holds, Kept, PromoKept, Fulfilled, SumOK, PromoOps
  <2>5. QED BY <2>1, <2>3, <2>4, OwnSlotStep
<1>4. CASE BeginResubmit(r)
  <2>1. /\ req[r].pc = "idle" /\ promoLock = NoReq /\ promoLock' = r
        /\ UNCHANGED <<promo, doc, docLock>> /\ doc.status # "NONE"
        /\ promo.active /\ promo.settle = "SETTLEMENT_REJECTED" /\ Fulfilled
    BY <1>4 DEF BeginResubmit
  <2>2. req'[r].op = "resubmit" /\ req'[r].pc = "locked" /\ req'[r].from = "REJECTED"
    BY <1>4, <1>t DEF BeginResubmit, Idle
  <2>3. LocksOfOthers(r)
    BY <1>4, <2>1, <1>t, ReqAssumption DEF BeginResubmit, LocksOfOthers
  <2>4. (Shape(r) /\ Holds(r) /\ Kept(r) /\ PromoKept(r) /\ SumOK(r))'
    BY <2>1, <2>2, <1>i DEF Shape, Holds, Kept, PromoKept, Fulfilled, SumOK, PromoOps
  <2>5. QED BY <2>1, <2>3, <2>4, OwnSlotStep
<1>5. CASE UpdateDoc(r)
  <2>1. PICK p \in Pays, n \in BOOLEAN :
          /\ NoteGiven(r, p, n)
          /\ req' = [req EXCEPT ![r] = [@ EXCEPT !.pc = "updated", !.w = Written(r, p, n)]]
    BY <1>5 DEF UpdateDoc
  <2>2. /\ ReadyToUpdate(r) /\ docLock = NoReq /\ docLock' = r /\ Where(r)
        /\ UNCHANGED <<promo, doc, promoLock>>
    BY <1>5 DEF UpdateDoc
  <2>3. /\ req'[r].op = req[r].op /\ req'[r].pc = "updated" /\ req'[r].from = req[r].from
        /\ req'[r].num = req[r].num /\ req'[r].sum = req[r].sum
        /\ req'[r].w = Written(r, p, n)
    BY <2>1, <1>t DEF Request
  <2>4. LocksOfOthers(r)
    BY <2>1, <2>2, <1>t, ReqAssumption DEF LocksOfOthers
  <2>5. Kept(r)'
    <3>1. Where(r)' /\ NoteGiven(r, p, n)' /\ Written(r, p, n)' = Written(r, p, n)
      BY <2>1, <2>2, <2>3 DEF Where, NoteGiven, Written
    <3>2. QED BY <3>1, <2>3 DEF Kept
  <2>6. /\ req[r].op = "fill" => req[r].pc = "read"
        /\ req[r].op = "extra" => req[r].pc = "summed"
        /\ req[r].op \in PromoOps => req[r].pc = "locked"
        /\ req[r].op # "none"
    BY <2>2, <1>i DEF ReadyToUpdate, Busy, Shape, PromoOps
  <2>7. Shape(r)' /\ Holds(r)'
    BY <2>2, <2>3, <2>6, <1>i DEF Shape, Holds, PromoOps
  <2>8. PromoKept(r)' /\ SumOK(r)'
    BY <2>2, <2>3, <2>6, <1>i DEF PromoKept, Fulfilled, SumOK, PromoOps, Shape
  <2>9. QED BY <2>2, <2>4, <2>5, <2>7, <2>8, OwnSlotStep
<1>6. QED
  BY <1>1, <1>2, <1>3, <1>4, <1>5


-----------------------------------------------------------------------------
(* The commit moves both tables; docLock kept the settlement row and         *)
(* promoLock the promotion row as the request had found them.                *)

LEMMA CommitKeepsInv ==
    ASSUME IInv, NEW r \in Req, Commit(r)
    PROVE  ReqInv' /\ RowInv'
<1>t. /\ req \in [Req -> Request] /\ promo \in Promo /\ doc \in Doc
      /\ req[r].num \in Nat /\ req[r].sum \in Nat
  BY DEF IInv, TypeOK, Request
<1>i. Shape(r) /\ Holds(r) /\ Kept(r) /\ PromoKept(r) /\ SumOK(r) /\ Where(r)
  BY DEF IInv, ReqInv, Commit, Kept
<1>v. RowInv
  BY DEF IInv
<1>c. req[r].pc = "updated" /\ CommitPromo(r) /\ doc' = req[r].w /\ Finish(r)
  BY DEF Commit
<1>w. PICK p \in Pays, n \in BOOLEAN : NoteGiven(r, p, n) /\ doc' = Written(r, p, n)
  BY <1>i, <1>c DEF Kept
<1>f. /\ LocksOfOthers(r) /\ req'[r] = Idle /\ promoLock' # r /\ docLock' # r
      /\ docLock = r
  BY <1>t, <1>i, <1>c, ReqAssumption DEF Finish, Released, LocksOfOthers, Holds
<1>m. \/ /\ req[r].op \in {"fill", "extra", "approve"} /\ promo' = promo
      \/ /\ req[r].op \in PromoOps /\ promoLock = r
         /\ promo'.published = promo.published /\ promo'.complete = promo.complete
         /\ promo'.active = promo.active
         /\ req[r].op = "pay" => promo'.settle \in {promo.settle, "PAID"}
         /\ req[r].op = "reject" => promo'.settle = "SETTLEMENT_REJECTED"
         /\ req[r].op = "resubmit" => promo'.settle = "PENDING_PAYMENT"
         /\ req[r].op \in {"reject", "resubmit"} => promo.active
  <2>1. req[r].op \in Ops
    BY <1>t, <1>i, <1>c DEF Request, Shape
  <2>2. CASE req[r].op \in {"fill", "extra", "approve"}
    BY <1>c, <2>2 DEF CommitPromo
  <2>3. CASE req[r].op = "pay"
    BY <1>t, <1>c, <1>i, <2>3 DEF CommitPromo, MovePromo, Promo, PromoOps, Holds
  <2>4. CASE req[r].op = "reject"
    BY <1>t, <1>c, <1>i, <2>4 DEF CommitPromo, MovePromo, Promo, PromoOps, Holds
  <2>5. CASE req[r].op = "resubmit"
    BY <1>t, <1>c, <1>i, <2>5 DEF CommitPromo, MovePromo, Promo, PromoOps, Holds
  <2>6. QED BY <2>1, <2>2, <2>3, <2>4, <2>5 DEF Ops
<1>d. /\ doc'.status # "NONE" /\ doc'.amount = doc.amount /\ doc'.imported = doc.imported
      /\ doc.extra <= doc'.extra
  BY <1>w, <1>t, <1>i, <1>c DEF Written, Doc, Shape
<1>1. ReqInv'
  <2>1. SUFFICES ASSUME NEW q \in Req
                 PROVE  (Shape(q) /\ Holds(q) /\ Kept(q) /\ PromoKept(q) /\ SumOK(q))'
    BY DEF ReqInv
  <2>2. CASE q = r
    BY <1>f, <2>2 DEF Idle, Shape, Holds, Kept, PromoKept, SumOK, PromoOps
  <2>3. CASE q # r
    <3>1. /\ Shape(q) /\ Holds(q) /\ PromoKept(q) /\ SumOK(q)
          /\ req'[q] = req[q] /\ (promoLock' = q <=> promoLock = q)
          /\ (docLock' = q <=> docLock = q)
      BY <1>f, <2>3 DEF IInv, ReqInv, LocksOfOthers
    <3>2. req[q].pc # "updated"
      BY <1>f, <2>3, <3>1 DEF Holds
    <3>3. Shape(q)' /\ Holds(q)' /\ Kept(q)'
      BY <1>d, <3>1, <3>2 DEF Shape, Holds, Kept
    <3>4. SumOK(q)'
      <4>1. /\ req[q].num \in Nat /\ req[q].sum \in Nat /\ doc.amount \in Nat
            /\ doc.extra \in Nat /\ doc'.extra \in Nat
        BY <1>t, <1>w, <1>i DEF Request, Doc, Written
      <4>2. QED BY <4>1, <1>d, <3>1 DEF SumOK
    <3>5. PromoKept(q)'
      <4>1. CASE promo' = promo
        BY <3>1, <4>1 DEF PromoKept, Fulfilled
      <4>2. CASE promoLock = r
        <5>1. req[q].pc \in {"locked", "updated"} => req[q].op \notin PromoOps
          BY <2>3, <3>1, <4>2 DEF Holds
        <5>2. QED BY <3>1, <5>1 DEF PromoKept, PromoOps
      <4>3. QED BY <4>1, <4>2, <1>m
    <3>6. QED BY <3>3, <3>4, <3>5
  <2>4. QED BY <2>2, <2>3
<1>2. TotalNeverExceeds'
  <2>1. CASE req[r].op = "extra"
    <3>1. doc'.total = req[r].sum /\ doc'.extra = doc.extra + req[r].num
      BY <1>w, <1>t, <2>1 DEF Written, Doc
    <3>2. QED BY <3>1, <1>d, <1>i, <1>c, <1>t, <2>1 DEF SumOK, TotalNeverExceeds, Doc
  <2>2. CASE req[r].op # "extra"
    <3>1. doc'.total = doc.total /\ doc'.extra = doc.extra
      BY <1>w, <1>t, <2>2 DEF Written, Doc
    <3>2. QED BY <3>1, <1>d, <1>v DEF RowInv, TotalNeverExceeds
  <2>3. QED BY <2>1, <2>2
<1>3. ~doc.imported \/ doc.status = "PAID"
  BY <1>v DEF RowInv, ImportedIsPaid
<1>4. ~doc.imported
  BY <1>3, <1>i, <1>c, <1>t DEF Where, Shape, InProgress, Request, Ops
<1>5. FeeOnlyIfFulfilled'
  BY <1>m, <1>v, <1>4, <1>i, <1>c, <1>d DEF RowInv, FeeOnlyIfFulfilled, Fulfilled, Shape
<1>6. NoteExplainsDifference' /\ PendingHasNoPayment' /\ SidesAgree'
  <2>1. CASE req[r].op = "fill"
    <3>1. /\ doc'.status = "PENDING_FINANCE" /\ doc'.pay = p /\ doc'.note = n
          /\ doc'.total = doc.total /\ promo' = promo /\ (p # doc.total => n)
          /\ doc.status = "PENDING_PAYMENT"
      BY <1>w, <1>t, <1>i, <1>m, <1>c, <2>1
         DEF Written, Doc, NoteGiven, Where, Shape, PromoOps
    <3>2. QED BY <3>1, <1>v DEF RowInv, NoteExplainsDifference, PendingHasNoPayment,
                SidesAgree, Open, InProgress
  <2>2. CASE req[r].op = "extra"
    <3>1. /\ doc'.status = "PENDING_PAYMENT" /\ doc'.pay = doc.pay /\ doc'.note = doc.note
          /\ promo' = promo /\ doc.status = "PENDING_PAYMENT"
      BY <1>w, <1>t, <1>i, <1>m, <1>c, <2>2 DEF Written, Doc, Where, Shape, PromoOps
    <3>2. QED BY <3>1, <1>v DEF RowInv, NoteExplainsDifference, PendingHasNoPayment,
                SidesAgree, Open, InProgress
  <2>3. CASE req[r].op = "pay"
    <3>1. /\ doc'.status = "PAID" /\ doc'.pay = doc.pay /\ doc'.note = doc.note
          /\ doc'.total = doc.total /\ doc.status = "PENDING_FINANCE"
      BY <1>w, <1>t, <1>i, <1>c, <2>3 DEF Written, Doc, Where, Shape
    <3>2. promo.settle = "PENDING_PAYMENT"
      BY <3>1, <1>v DEF RowInv, SidesAgree, Open, InProgress
    <3>3. QED BY <3>1, <3>2, <1>v, <1>m, <1>d, <2>3 DEF RowInv, NoteExplainsDifference,
                PendingHasNoPayment, SidesAgree, Open, InProgress
  <2>4. CASE req[r].op = "reject"
    <3>1. doc'.status = "REJECTED" /\ promo'.settle = "SETTLEMENT_REJECTED"
      BY <1>w, <1>t, <1>m, <2>4 DEF Written, Doc
    <3>2. QED BY <3>1 DEF NoteExplainsDifference, PendingHasNoPayment, SidesAgree,
                Open, InProgress
  <2>5. CASE req[r].op = "approve"
    <3>1. /\ doc'.status = "PENDING_PAYMENT" /\ doc'.pay = doc.pay /\ doc'.note = doc.note
          /\ doc.status = "PENDING_REVIEW" /\ promo' = promo
      <4>1. promo' = promo
        BY <1>c, <2>5 DEF CommitPromo
      <4>2. QED BY <4>1, <1>w, <1>t, <1>i, <1>c, <2>5 DEF Written, Doc, Where, Shape
    <3>2. QED BY <3>1, <1>v DEF RowInv, NoteExplainsDifference, PendingHasNoPayment,
                SidesAgree, Open, InProgress
  <2>6. CASE req[r].op = "resubmit"
    <3>1. /\ doc'.status = "PENDING_PAYMENT" /\ doc'.pay = NoPay /\ doc'.note = FALSE
          /\ promo'.settle = "PENDING_PAYMENT"
      <4>1. promo'.settle = "PENDING_PAYMENT"
        BY <1>m, <2>6
      <4>2. doc' = [doc EXCEPT !.status = "PENDING_PAYMENT", !.pay = NoPay, !.note = FALSE]
        BY <1>w, <2>6 DEF Written
      <4>3. QED BY <4>1, <4>2, <1>t DEF Doc
    <3>2. QED BY <3>1 DEF NoteExplainsDifference, PendingHasNoPayment, SidesAgree,
                Open, InProgress
  <2>7. req[r].op \in Ops
    BY <1>t, <1>i, <1>c DEF Request, Shape
  <2>8. QED BY <2>1, <2>2, <2>3, <2>4, <2>5, <2>6, <2>7 DEF Ops
<1>7. QED
  BY <1>1, <1>2, <1>4, <1>5, <1>6, <1>d DEF RowInv, ImportedIsPaid

-----------------------------------------------------------------------------
(* The theorems. *)

LEMMA InvInit == Init => ReqInv /\ RowInv
<1> SUFFICES ASSUME Init PROVE ReqInv /\ RowInv
  OBVIOUS
<1>1. PICK q \in Quotes :
         \/ promo = FreshPromo(q) /\ doc = NoDoc
         \/ promo = LegacyPromo(q) /\ doc = NewDoc("PENDING_REVIEW", q)
  BY DEF Init
<1>2. q \in Nat
  BY AmountAssumption
<1>3. ReqInv
  <2>1. \A r \in Req : /\ req[r].op = "none" /\ req[r].pc = "idle"
                       /\ promoLock # r /\ docLock # r
    BY ReqAssumption DEF Init, Idle
  <2>2. QED BY <2>1 DEF ReqInv, Shape, Holds, Kept, PromoKept, SumOK, PromoOps
<1>4. CASE promo = FreshPromo(q) /\ doc = NoDoc
  <2>1. /\ doc.status = "NONE" /\ doc.amount = 0 /\ doc.extra = 0 /\ doc.total = 0
        /\ ~doc.imported
    BY <1>4 DEF NoDoc
  <2>2. promo.settle = "NOT_REVIEWED"
    BY <1>4 DEF FreshPromo
  <2>3. SidesAgree /\ FeeOnlyIfFulfilled /\ PendingHasNoPayment
    BY <2>1, <2>2 DEF SidesAgree, FeeOnlyIfFulfilled, PendingHasNoPayment, Open, InProgress
  <2>4. NoteExplainsDifference /\ ImportedIsPaid
    BY <2>1 DEF NoteExplainsDifference, ImportedIsPaid
  <2>5. TotalNeverExceeds
    BY <2>1 DEF TotalNeverExceeds
  <2>6. QED BY <1>3, <2>3, <2>4, <2>5 DEF RowInv
<1>5. CASE promo = LegacyPromo(q) /\ doc = NewDoc("PENDING_REVIEW", q)
  <2>1. /\ doc.status = "PENDING_REVIEW" /\ doc.amount = q /\ doc.extra = 0 /\ doc.total = q
        /\ doc.pay = NoPay /\ doc.note = FALSE /\ doc.imported = FALSE
    BY <1>5 DEF NewDoc, NoDoc
  <2>2. promo.settle = "PENDING_PAYMENT" /\ promo.published /\ promo.complete
    BY <1>5 DEF LegacyPromo
  <2>3. SidesAgree /\ FeeOnlyIfFulfilled /\ PendingHasNoPayment
    BY <2>1, <2>2 DEF SidesAgree, FeeOnlyIfFulfilled, Fulfilled, PendingHasNoPayment,
       Open, InProgress
  <2>4. NoteExplainsDifference /\ ImportedIsPaid
    BY <2>1 DEF NoteExplainsDifference, ImportedIsPaid
  <2>5. TotalNeverExceeds
    BY <1>2, <2>1 DEF TotalNeverExceeds
  <2>6. QED BY <1>3, <2>3, <2>4, <2>5 DEF RowInv
<1>6. QED
  BY <1>1, <1>3, <1>4, <1>5

LEMMA InvStep == IInv /\ SlotOK /\ [Next]_vars => IInv' /\ SlotOK'
<1> SUFFICES ASSUME IInv, SlotOK, [Next]_vars PROVE IInv' /\ SlotOK'
  OBVIOUS
<1>1. TypeOK' /\ SlotOK'
  BY TypeStep DEF IInv
<1>2. CASE PromoStep
  BY <1>1, <1>2, PromoStepKeepsInv DEF IInv
<1>3. ASSUME NEW r \in Req, RequestStep(r) PROVE ReqInv' /\ RowInv'
  <2>1. CASE Commit(r)
    BY <2>1, CommitKeepsInv
  <2>2. CASE Conflict(r) \/ Fail(r)
    BY <2>2, FinishKeepsInv DEF Conflict, Fail
  <2>3. CASE \/ ReadDoc(r) \/ InsertAndSum(r) \/ LockPromo(r)
             \/ BeginResubmit(r) \/ UpdateDoc(r)
    BY <2>3, WorkKeepsInv
  <2>4. QED BY <1>3, <2>1, <2>2, <2>3 DEF RequestStep, Progress
<1>4. CASE UNCHANGED vars
  <2>1. RowInv'
    BY <1>4 DEF vars, IInv, RowInv, SidesAgree, FeeOnlyIfFulfilled, Fulfilled,
       PendingHasNoPayment, NoteExplainsDifference, TotalNeverExceeds, ImportedIsPaid
  <2>2. ReqInv'
    <3>1. SUFFICES ASSUME NEW r \in Req
                   PROVE  (Shape(r) /\ Holds(r) /\ Kept(r) /\ PromoKept(r) /\ SumOK(r))'
      BY DEF ReqInv
    <3>2. /\ Shape(r) /\ Holds(r) /\ Kept(r) /\ PromoKept(r) /\ SumOK(r)
          /\ req' = req /\ promo' = promo /\ doc' = doc
          /\ promoLock' = promoLock /\ docLock' = docLock
      BY <1>4 DEF vars, IInv, ReqInv
    <3>3. Shape(r)' /\ Holds(r)'
      BY <3>2 DEF Shape, Holds
    <3>4. Kept(r)'
      BY <3>2 DEF Kept, Where, Written, NoteGiven
    <3>5. PromoKept(r)' /\ SumOK(r)'
      BY <3>2 DEF PromoKept, Fulfilled, SumOK
    <3>6. QED BY <3>3, <3>4, <3>5
  <2>3. QED BY <1>1, <2>1, <2>2 DEF IInv
<1>5. QED
  BY <1>1, <1>2, <1>3, <1>4 DEF Next, IInv

LEMMA Invariant == Spec => [](IInv /\ SlotOK)
<1>1. Init => IInv /\ SlotOK
  BY TypeInit, InvInit DEF IInv
<1>2. QED
  BY <1>1, InvStep, PTL DEF Spec

(* The promotion row and the settlement row tell one story, in every commit  *)
(* order of any number of concurrent requests, but for a payment that was not  *)
(* heard.                                                                      *)
THEOREM SidesAlwaysAgree == Spec => []SidesAgree
<1>1. IInv => SidesAgree
  BY DEF IInv, RowInv
<1>2. QED BY <1>1, Invariant, PTL

(* A difference between what is owed and what is paid always has a note: the *)
(* compare-and-set on total_amount closes the race with add_extra_item.      *)
THEOREM NoteAlwaysExplains == Spec => []NoteExplainsDifference
<1>1. IInv => NoteExplainsDifference
  BY DEF IInv, RowInv
<1>2. QED BY <1>1, Invariant, PTL

(* A document exists only for a collaboration whose accounts are published,  *)
(* and one waiting to be filled in carries no payment.                       *)
THEOREM FeeIsEarnedAndClean == Spec => [](FeeOnlyIfFulfilled /\ PendingHasNoPayment)
<1>1. IInv => FeeOnlyIfFulfilled /\ PendingHasNoPayment
  BY DEF IInv, RowInv
<1>2. QED BY <1>1, Invariant, PTL

(* Concurrent items can be missed by the total, but it never exceeds them.   *)
THEOREM TotalIsBounded == Spec => []TotalNeverExceeds
<1>1. IInv => TotalNeverExceeds
  BY DEF IInv, RowInv
<1>2. QED BY <1>1, Invariant, PTL

(* What a request does to the settlement row it finds.  Only a commit of an  *)
(* update, an approval of a promotion without a document and the importer    *)
(* change it at all.                                                         *)
LEMMA DocStep ==
    ASSUME IInv, [Next]_vars, doc' # doc
    PROVE  \/ doc.status = "NONE"
           \/ \E r \in Req, p \in Pays, n \in BOOLEAN :
                 Shape(r) /\ Where(r) /\ req[r].op \in Ops /\ doc' = Written(r, p, n)
<1>1. CASE PromoStep
  BY <1>1 DEF PromoStep, Publish, EditPosts, EditQuote, ReviewApprove, ReviewReject,
     ReviewResubmit, SettleByChat, Deactivate, ImportSettlement
<1>2. ASSUME NEW r \in Req, RequestStep(r), doc' # doc
      PROVE  \E p \in Pays, n \in BOOLEAN :
                Shape(r) /\ Where(r) /\ req[r].op \in Ops /\ doc' = Written(r, p, n)
  <2>1. Commit(r)
    BY <1>2 DEF RequestStep, Progress, ReadDoc, Read, InsertAndSum, LockPromo,
       BeginResubmit, UpdateDoc, Conflict, Fail
  <2>2. Shape(r) /\ Kept(r) /\ req[r].pc = "updated" /\ doc' = req[r].w
    BY <2>1 DEF IInv, ReqInv, Commit
  <2>3. req[r].op \in Ops
    BY <2>2 DEF IInv, TypeOK, Request, Shape
  <2>4. QED BY <2>2, <2>3 DEF Kept
<1>3. QED
  BY <1>1, <1>2 DEF Next, vars

(* No request, however stale its read, changes a paid document.              *)
THEOREM PaidStaysFinal == Spec => PaidIsFinal
<1>1. IInv /\ [Next]_vars => [doc.status = "PAID" => doc' = doc]_vars
  <2> SUFFICES ASSUME IInv, [Next]_vars, doc.status = "PAID", doc' # doc PROVE FALSE
    OBVIOUS
  <2>1. PICK r \in Req : Shape(r) /\ Where(r) /\ req[r].op \in Ops
    BY DocStep
  <2>2. QED BY <2>1 DEF Shape, Where, Ops, InProgress
<1>2. QED BY <1>1, Invariant, PTL DEF Spec, PaidIsFinal

(* From filling in to rejection, neither side of the payment moves.          *)
THEOREM FilledStaysFrozen == Spec => FilledIsFrozen
<1>1. IInv /\ [Next]_vars =>
        [doc.status \in {"PENDING_FINANCE", "REJECTED"} /\ doc'.status # "PENDING_PAYMENT"
            => doc'.total = doc.total /\ doc'.pay = doc.pay]_vars
  <2> SUFFICES ASSUME IInv, [Next]_vars, doc' # doc,
                      doc.status \in {"PENDING_FINANCE", "REJECTED"},
                      doc'.status # "PENDING_PAYMENT"
               PROVE  doc'.total = doc.total /\ doc'.pay = doc.pay
    OBVIOUS
  <2>1. PICK r \in Req, p \in Pays, n \in BOOLEAN :
           Shape(r) /\ Where(r) /\ req[r].op \in Ops /\ doc' = Written(r, p, n)
    BY DocStep
  <2>2. doc \in Doc
    BY DEF IInv, TypeOK
  <2>3. req[r].op \in {"pay", "reject"} \/ req[r].op = "resubmit"
    BY <2>1 DEF Shape, Where, Ops
  <2>4. req[r].op # "resubmit"
    <3>1. SUFFICES ASSUME req[r].op = "resubmit" PROVE FALSE
      OBVIOUS
    <3>2. doc' = [doc EXCEPT !.status = "PENDING_PAYMENT", !.pay = NoPay, !.note = FALSE]
      BY <2>1, <3>1 DEF Written
    <3>3. QED BY <3>2, <2>2 DEF Doc
  <2>5. QED BY <2>1, <2>2, <2>3, <2>4 DEF Written, Doc
<1>2. QED BY <1>1, Invariant, PTL DEF Spec, FilledIsFrozen

-----------------------------------------------------------------------------
(* For promotions that start in this system, the deactivation gate is tight  *)
(* and the two tables implement FeeContract.                                 *)

(* Who holds the settlement row and waits for the promotion came by a fill or an
   added item, on a document that waits for payment; who holds the promotion and
   waits for that row must want it there, and only a rejection does. *)
THEOREM LocksMeetOverRejections == Spec => []OnlyRejectionsMeet
<1>1. IInv => OnlyRejectionsMeet
  <2> SUFFICES ASSUME IInv, NEW r \in Req, NEW s \in Req, Waits(r, s), Waits(s, r)
               PROVE  \/ req[r].op = "reject" /\ req[s].op \in {"fill", "extra"}
                      \/ req[s].op = "reject" /\ req[r].op \in {"fill", "extra"}
    BY DEF OnlyRejectionsMeet
  <2>1. ASSUME NEW q \in Req PROVE Shape(q) /\ Holds(q) /\ Kept(q) /\ req[q] \in Request
    BY DEF IInv, ReqInv, TypeOK
  <2>2. ASSUME NEW q \in Req, NEW u \in Req, Waits(q, u), Waits(u, q), docLock = u,
               ReadyToUpdate(q), Where(q)
        PROVE  req[q].op = "reject" /\ req[u].op \in {"fill", "extra"}
    <3>1. req[u].pc = "updated" /\ Where(u)
      BY <2>1, <2>2 DEF Holds, Kept
    <3>2. promoLock = q /\ ~EventRow(u)
      BY <2>2, <3>1 DEF Waits, ReadyToUpdate, Busy
    <3>3. promoLock # u
      BY <3>2 DEF EventRow
    <3>4. req[u].op \in {"fill", "extra"} /\ doc.status = "PENDING_PAYMENT"
      <4>1. req[u].op \notin PromoOps
        BY <2>1, <3>1, <3>3 DEF Holds
      <4>2. req[u].op \in Ops
        BY <2>1, <3>1 DEF Shape, Request
      <4>3. req[u].op \in {"fill", "extra"}
        BY <4>1, <4>2 DEF Ops, PromoOps
      <4>4. QED BY <2>1, <3>1, <4>3 DEF Shape, Where
    <3>5. req[q].op \in PromoOps
      BY <2>1, <3>2 DEF Holds
    <3>6. req[q].from = "PENDING_PAYMENT"
      BY <2>2, <3>4 DEF Where
    <3>7. QED BY <2>1, <3>4, <3>5, <3>6 DEF Shape, PromoOps
  <2>3. CASE docLock = s /\ ReadyToUpdate(r) /\ Where(r)
    BY <2>2, <2>3
  <2>4. CASE docLock = r /\ ReadyToUpdate(s) /\ Where(s)
    BY <2>2, <2>4
  <2>5. CASE promoLock = s /\ promoLock = r
    BY <2>1, <2>5 DEF Waits, Holds, EventRow, ReadyToUpdate, Busy
  <2>6. QED
    BY <2>3, <2>4, <2>5 DEF Waits
<1>2. QED
  BY Invariant, <1>1, PTL

(* Without migrated rows nothing ever waits in PENDING_REVIEW, so the gate,  *)
(* which does not know that status, leaves no open document behind.          *)
GateInv == doc.status # "PENDING_REVIEW" /\ InactiveHasNoOpenDoc

(* A commit, with what the locks and the invariant say of the rows it meets. *)
LEMMA CommitFacts ==
    ASSUME IInv, GateInv, NEW r \in Req, Commit(r)
    PROVE  \/ /\ req[r].op = "fill" /\ promo' = promo /\ promo.active
              /\ doc.status = "PENDING_PAYMENT" /\ doc'.status = "PENDING_FINANCE"
           \/ /\ req[r].op = "extra" /\ promo' = promo /\ promo.active
              /\ doc.status = "PENDING_PAYMENT" /\ doc'.status = "PENDING_PAYMENT"
           \/ /\ req[r].op = "pay" /\ promo' \in {promo, [promo EXCEPT !.settle = "PAID"]}
              /\ promo.active /\ promo.settle = "PENDING_PAYMENT"
              /\ doc.status = "PENDING_FINANCE" /\ doc'.status = "PAID"
           \/ /\ req[r].op = "reject" /\ promo' = [promo EXCEPT !.settle = "SETTLEMENT_REJECTED"]
              /\ promo.active /\ promo.settle = "PENDING_PAYMENT"
              /\ doc.status \in InProgress /\ doc'.status = "REJECTED"
           \/ /\ req[r].op = "resubmit" /\ promo' = [promo EXCEPT !.settle = "PENDING_PAYMENT"]
              /\ promo.active /\ promo.settle = "SETTLEMENT_REJECTED"
              /\ doc.status = "REJECTED" /\ doc'.status = "PENDING_PAYMENT"
<1>t. promo \in Promo /\ doc \in Doc /\ req[r] \in Request
  BY DEF IInv, TypeOK
<1>1. /\ Shape(r) /\ Where(r) /\ Kept(r) /\ SidesAgree /\ req[r].pc = "updated"
      /\ CommitPromo(r) /\ doc' = req[r].w
  BY DEF IInv, ReqInv, RowInv, Kept, Commit
<1>2. PICK p \in Pays, n \in BOOLEAN : doc' = Written(r, p, n)
  BY <1>1 DEF Kept
<1>3. req[r].op \in {"fill", "extra", "pay", "reject", "resubmit"}
  BY <1>t, <1>1 DEF Request, Ops, Shape, Where, GateInv
<1>4. doc.status \in InProgress => promo.active /\ promo.settle = "PENDING_PAYMENT"
  BY <1>1 DEF GateInv, InactiveHasNoOpenDoc, SidesAgree, Open
<1>5. CASE req[r].op = "fill"
  <2>1. doc.status = "PENDING_PAYMENT" /\ promo' = promo
    BY <1>1, <1>5 DEF Shape, Where, CommitPromo
  <2>2. doc' = [doc EXCEPT !.status = "PENDING_FINANCE", !.pay = p, !.note = n]
    BY <1>2, <1>5 DEF Written
  <2>3. QED BY <1>4, <1>5, <1>t, <2>1, <2>2 DEF InProgress, Doc
<1>6. CASE req[r].op = "extra"
  <2>1. doc.status = "PENDING_PAYMENT" /\ promo' = promo
    BY <1>1, <1>6 DEF Shape, Where, CommitPromo
  <2>2. doc' = [doc EXCEPT !.total = req[r].sum, !.extra = @ + req[r].num]
    BY <1>2, <1>6 DEF Written
  <2>3. QED BY <1>4, <1>6, <1>t, <2>1, <2>2 DEF InProgress, Doc
<1>7. CASE req[r].op = "pay"
  <2>1. doc.status = "PENDING_FINANCE"
    BY <1>1, <1>7 DEF Shape, Where
  <2>2. doc' = [doc EXCEPT !.status = "PAID"]
    BY <1>2, <1>7 DEF Written
  <2>3. promo' \in {promo, [promo EXCEPT !.settle = "PAID"]}
    BY <1>1, <1>7 DEF CommitPromo, MovePromo
  <2>4. QED BY <1>4, <1>7, <1>t, <2>1, <2>2, <2>3 DEF InProgress, Doc
<1>8. CASE req[r].op = "reject"
  <2>1. doc.status \in InProgress
    BY <1>1, <1>8 DEF Shape, Where
  <2>2. doc' = [doc EXCEPT !.status = "REJECTED"]
    BY <1>2, <1>8 DEF Written
  <2>3. promo' = [promo EXCEPT !.settle = "SETTLEMENT_REJECTED"]
    BY <1>1, <1>8 DEF CommitPromo, MovePromo
  <2>4. QED BY <1>4, <1>8, <1>t, <2>1, <2>2, <2>3 DEF Doc
<1>9. CASE req[r].op = "resubmit"
  <2>1. doc.status = "REJECTED"
    BY <1>1, <1>9 DEF Shape, Where
  <2>2. doc' = [doc EXCEPT !.status = "PENDING_PAYMENT", !.pay = NoPay, !.note = FALSE]
    BY <1>2, <1>9 DEF Written
  <2>3. /\ promo' = [promo EXCEPT !.settle = "PENDING_PAYMENT"]
        /\ promo.active /\ promo.settle = "SETTLEMENT_REJECTED"
    BY <1>1, <1>9 DEF CommitPromo, MovePromo
  <2>4. QED BY <1>9, <1>t, <2>1, <2>2, <2>3 DEF Doc
<1>10. QED
  BY <1>3, <1>5, <1>6, <1>7, <1>8, <1>9

(* Every other step of a request leaves both rows alone. *)
LEMMA RequestStepRows ==
    ASSUME NEW r \in Req, RequestStep(r)
    PROVE  Commit(r) \/ (promo' = promo /\ doc' = doc)
  BY DEF RequestStep, Progress, ReadDoc, Read, InsertAndSum, LockPromo, BeginResubmit,
     UpdateDoc, Conflict, Fail

LEMMA GateStep == IInv /\ GateInv /\ [Next]_vars => GateInv'
<1> SUFFICES ASSUME IInv, GateInv, [Next]_vars PROVE GateInv'
  OBVIOUS
<1>t. promo \in Promo /\ doc \in Doc
  BY DEF IInv, TypeOK
<1>1. CASE PromoStep
  <2>1. CASE ReviewApprove
    <3>1. \/ doc' = doc
          \/ doc' = NewDoc("PENDING_PAYMENT", promo.quote)
      BY <2>1 DEF ReviewApprove
    <3>2. promo'.active /\ NewDoc("PENDING_PAYMENT", promo.quote).status = "PENDING_PAYMENT"
      BY <2>1, <1>t DEF ReviewApprove, Promo, NewDoc, NoDoc
    <3>3. QED BY <3>1, <3>2 DEF GateInv, InactiveHasNoOpenDoc
  <2>2. CASE ImportSettlement
    <3>1. doc'.status = "PAID"
      BY <2>2 DEF ImportSettlement, NewDoc, NoDoc
    <3>2. QED BY <3>1 DEF GateInv, InactiveHasNoOpenDoc, InProgress
  <2>3. CASE Deactivate
    BY <2>3 DEF Deactivate, GateInv, InactiveHasNoOpenDoc
  <2>4. CASE \/ Publish \/ EditPosts \/ EditQuote \/ ReviewReject \/ ReviewResubmit
             \/ SettleByChat
    <3>1. doc' = doc /\ promo.active /\ promo'.active
      BY <2>4, <1>t DEF Publish, EditPosts, EditQuote, ReviewReject, ReviewResubmit,
         SettleByChat, Promo
    <3>2. QED BY <3>1 DEF GateInv, InactiveHasNoOpenDoc
  <2>5. QED BY <1>1, <2>1, <2>2, <2>3, <2>4 DEF PromoStep
<1>2. ASSUME NEW r \in Req, RequestStep(r) PROVE GateInv'
  <2>1. CASE Commit(r)
    <3>1. /\ promo'.active = promo.active /\ promo.active
          /\ doc'.status # "PENDING_REVIEW"
      BY <2>1, <1>t, CommitFacts DEF Promo
    <3>2. QED BY <3>1 DEF GateInv, InactiveHasNoOpenDoc
  <2>2. CASE promo' = promo /\ doc' = doc
    BY <2>2 DEF GateInv, InactiveHasNoOpenDoc
  <2>3. QED BY <1>2, <2>1, <2>2, RequestStepRows
<1>3. CASE UNCHANGED vars
  BY <1>3 DEF vars, GateInv, InactiveHasNoOpenDoc
<1>4. QED
  BY <1>1, <1>2, <1>3 DEF Next

LEMMA GateInit == ~LegacyBackfill /\ Init => GateInv
<1> SUFFICES ASSUME ~LegacyBackfill, Init PROVE GateInv
  OBVIOUS
<1>1. doc = NoDoc
  BY DEF Init
<1>2. QED
  BY <1>1 DEF NoDoc, GateInv, InactiveHasNoOpenDoc, InProgress

LEMMA GateInvariant == ASSUME ~LegacyBackfill PROVE Spec => [](IInv /\ GateInv)
<1>1. Init => GateInv
  BY GateInit
<1>2. Spec => [](IInv /\ SlotOK)
  BY Invariant
<1>3. QED
  BY <1>1, <1>2, GateStep, PTL DEF Spec

(* soft_delete_promotion and the four operations of finance, interleaved in  *)
(* any way, never leave an open document on a deactivated promotion, unless  *)
(* migration 008 left one at PENDING_REVIEW.                                 *)
THEOREM GateIsTight == ASSUME ~LegacyBackfill PROVE Spec => []InactiveHasNoOpenDoc
<1>1. GateInv => InactiveHasNoOpenDoc
  BY DEF GateInv
<1>2. QED BY <1>1, GateInvariant, PTL

-----------------------------------------------------------------------------
(* Refinement. *)

LEMMA ContractInit == ~LegacyBackfill /\ Init => Fee!Init
<1> SUFFICES ASSUME ~LegacyBackfill, Init PROVE Fee!Init
  OBVIOUS
<1>1. PICK q \in Quotes : promo = FreshPromo(q) /\ doc = NoDoc
  BY DEF Init
<1>2. promo.settle = "NOT_REVIEWED" /\ doc.status = "NONE"
  BY <1>1 DEF FreshPromo, NoDoc
<1>3. OpsView = "open" /\ FinView = "none"
  BY <1>2 DEF OpsView, FinView, Open, InProgress
<1>4. QED
  BY <1>3 DEF Fee!Init, Fee!Both

(* The two views, read off the status columns. *)
ViewsRead ==
    /\ promo.settle \in {"NOT_REVIEWED", "PENDING_REVIEW", "REJECTED"} => OpsView = "open"
    /\ promo.settle = "PENDING_PAYMENT" => OpsView = "waiting"
    /\ promo.settle = "SETTLEMENT_REJECTED" => OpsView = "refused"
    /\ promo.settle = "PAID" => OpsView = "paid"
    /\ promo.settle = "SETTLED" => OpsView = "closed"
    /\ doc.status = "NONE" => FinView = "none"
    /\ doc.status \in Open => FinView = "waiting"
    /\ doc.status = "REJECTED" => FinView = "refused"
    /\ doc.status = "PAID" => FinView = "paid"

LEMMA ContractStep ==
    ASSUME IInv, GateInv, [Next]_vars
    PROVE  [Fee!Next]_<<OpsView, FinView>>
<1>t. promo \in Promo /\ doc \in Doc /\ SidesAgree
  BY DEF IInv, TypeOK, RowInv
<1>v. ViewsRead /\ ViewsRead'
  <2>1. ViewsRead
    BY DEF ViewsRead, OpsView, FinView, Open, InProgress
  <2>2. ViewsRead'
    BY DEF ViewsRead, OpsView, FinView, Open, InProgress
  <2>3. QED BY <2>1, <2>2
<1>s. ASSUME promo'.settle = promo.settle, doc'.status = doc.status
      PROVE  UNCHANGED <<OpsView, FinView>>
  BY <1>s DEF OpsView, FinView
<1>1. CASE PromoStep
  <2>1. CASE ReviewApprove
    <3>1. doc.status = "NONE" \/ doc.status = "PAID"
      BY <1>t, <2>1 DEF ReviewApprove, SidesAgree, Open, InProgress, Doc, DocStatus
    <3>2. \/ doc' = doc /\ promo'.settle = "SETTLED"
          \/ /\ doc.status = "NONE" /\ promo'.settle = "PENDING_PAYMENT"
             /\ doc'.status = "PENDING_PAYMENT"
          \/ doc' = doc /\ doc.status = "PAID" /\ promo'.settle = "PAID"
      <4>1. NewDoc("PENDING_PAYMENT", promo.quote).status = "PENDING_PAYMENT"
        BY DEF NewDoc, NoDoc
      <4>2. QED BY <4>1, <1>t, <2>1 DEF ReviewApprove, Promo
    <3>3. promo.settle = "PENDING_REVIEW"
      BY <2>1 DEF ReviewApprove
    <3>4. Fee!Waive \/ Fee!Owe \/ Fee!Recognise
      BY <3>1, <3>2, <3>3, <1>v DEF ViewsRead, Fee!Waive, Fee!Owe, Fee!Recognise,
         Fee!Both, Fee!Turn, Open, InProgress
    <3>5. QED BY <3>4 DEF Fee!Next
  <2>2. CASE ImportSettlement
    <3>1. /\ promo' = promo /\ promo.settle = "NOT_REVIEWED" /\ doc.status = "NONE"
          /\ doc'.status = "PAID"
      BY <2>2 DEF ImportSettlement, NewDoc, NoDoc
    <3>2. Fee!Import
      BY <3>1, <1>v DEF ViewsRead, Fee!Import, Fee!Both, Fee!Turn
    <3>3. QED BY <3>2 DEF Fee!Next
  <2>3. CASE SettleByChat
    <3>1. promo.settle = "PAID" /\ promo'.settle = "SETTLED" /\ doc' = doc
      BY <2>3, <1>t DEF SettleByChat, Promo
    <3>2. doc.status = "PAID"
      BY <3>1, <1>t DEF SidesAgree
    <3>3. Fee!Close
      BY <3>1, <3>2, <1>v DEF ViewsRead, Fee!Close, Fee!Both, Fee!Turn
    <3>4. QED BY <3>3 DEF Fee!Next
  <2>4. CASE Publish \/ ReviewReject \/ ReviewResubmit
    <3>1. doc' = doc
      BY <2>4 DEF Publish, ReviewReject, ReviewResubmit
    <3>2. \/ promo'.settle = promo.settle
          \/ /\ promo.settle \in {"NOT_REVIEWED", "PENDING_REVIEW", "REJECTED"}
             /\ promo'.settle \in {"NOT_REVIEWED", "PENDING_REVIEW", "REJECTED"}
      BY <2>4, <1>t DEF Publish, ReviewReject, ReviewResubmit, Promo
    <3>3. FinView' = FinView
      BY <3>1 DEF FinView
    <3>4. QED BY <3>1, <3>2, <3>3, <1>s, <1>v DEF ViewsRead
  <2>5. CASE EditPosts \/ EditQuote \/ Deactivate
    <3>1. doc' = doc /\ promo'.settle = promo.settle
      BY <2>5, <1>t DEF EditPosts, EditQuote, Deactivate, Promo
    <3>2. QED BY <3>1, <1>s
  <2>6. QED BY <1>1, <2>1, <2>2, <2>3, <2>4, <2>5 DEF PromoStep
<1>2. ASSUME NEW r \in Req, RequestStep(r) PROVE [Fee!Next]_<<OpsView, FinView>>
  <2>1. CASE promo' = promo /\ doc' = doc
    BY <2>1, <1>s
  <2>2. CASE Commit(r)
    <3>1. \/ /\ promo' = promo /\ doc.status \in Open /\ doc'.status \in Open
          \/ /\ promo.settle = "PENDING_PAYMENT" /\ promo'.settle = "PAID"
             /\ doc.status \in Open /\ doc'.status = "PAID"
          \/ /\ promo.settle = "PENDING_PAYMENT" /\ promo'.settle = "PENDING_PAYMENT"
             /\ doc.status \in Open /\ doc'.status = "PAID"
          \/ /\ promo.settle = "PENDING_PAYMENT" /\ promo'.settle = "SETTLEMENT_REJECTED"
             /\ doc.status \in Open /\ doc'.status = "REJECTED"
          \/ /\ promo.settle = "SETTLEMENT_REJECTED" /\ promo'.settle = "PENDING_PAYMENT"
             /\ doc.status = "REJECTED" /\ doc'.status \in Open
      BY <2>2, <1>t, CommitFacts DEF Promo, Open, InProgress
    <3>2. CASE promo' = promo /\ doc.status \in Open /\ doc'.status \in Open
      <4>1. OpsView' = OpsView
        BY <3>2 DEF OpsView
      <4>2. QED BY <3>2, <4>1, <1>v DEF ViewsRead
    <3>3. CASE ~(promo' = promo /\ doc.status \in Open /\ doc'.status \in Open)
      <4>1. Fee!Pay \/ Fee!Miss \/ Fee!Refuse \/ Fee!Reclaim
        BY <3>1, <3>3, <1>v DEF ViewsRead, Fee!Pay, Fee!Miss, Fee!Refuse, Fee!Reclaim, Fee!Both, Fee!Turn
      <4>2. QED BY <4>1 DEF Fee!Next
    <3>4. QED BY <3>2, <3>3
  <2>3. QED BY <1>2, <2>1, <2>2, RequestStepRows
<1>3. CASE UNCHANGED vars
  BY <1>3, <1>s DEF vars
<1>4. QED
  BY <1>1, <1>2, <1>3 DEF Next

(* The concurrent transactions on the two tables implement the contract of   *)
(* operations and finance: every commit moves both views together,           *)
(* but for a payment that was not heard.                                      *)
THEOREM ImplementsContract == ASSUME ~LegacyBackfill PROVE Spec => ImplementsFeeContract
<1>1. Init => Fee!Init
  BY ContractInit
<1>2. Spec => [](IInv /\ GateInv)
  BY GateInvariant
<1>3. QED
  BY <1>1, <1>2, ContractStep, PTL DEF Spec, ImplementsFeeContract, Fee!Spec

=============================================================================
