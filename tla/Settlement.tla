----------------------------- MODULE Settlement -----------------------------
(***************************************************************************)
(* One service fee, seen from its two tables: promotion.settlement_status  *)
(* (modules/promotion) and the finance settlement document                 *)
(* (modules/finance).  Both tables are written by concurrent requests, one *)
(* database transaction each, under PostgreSQL READ COMMITTED:             *)
(*   - a plain SELECT reads the last committed row and blocks nobody;      *)
(*   - SELECT ... FOR UPDATE on the promotion row takes promoLock;         *)
(*   - UPDATE settlement ... WHERE status = old waits for docLock, checks  *)
(*     its WHERE against the row as committed by then, and keeps docLock.  *)
(* A handler that writes only the promotion row holds promoLock from its   *)
(* first statement to its commit, so it is one action here.  A handler     *)
(* that writes the settlement row is a request r that moves through the    *)
(* pcs "read", "summed", "locked", "updated"; its writes stay in req[r].w  *)
(* until Commit(r); Conflict(r) (a check says no) and Fail(r) (an error, a *)
(* lost worker) can end it at any earlier point.                           *)
(***************************************************************************)
EXTENDS Integers

CONSTANTS
    Req,            \* request slots: how many requests run at the same time
    NoReq,          \* "nobody holds the lock"
    Quotes,         \* service fees a promotion can carry
    Items,          \* amounts of one extra item
    Pays,           \* amounts finance can enter as actually paid
    MaxExtra,       \* bound: stop adding items past this committed sum
    LegacyBackfill  \* TRUE: start may be a row made by migration 008

ASSUME ReqAssumption == NoReq \notin Req
ASSUME AmountAssumption ==
    /\ Quotes \subseteq Nat
    /\ Items \subseteq Nat \ {0}
    /\ Pays \subseteq Nat
    /\ MaxExtra \in Nat
ASSUME LegacyAssumption == LegacyBackfill \in BOOLEAN

VARIABLES
    promo,      \* the committed promotion row
    doc,        \* the committed settlement row (status "NONE": no row)
    req,        \* the request slots
    promoLock,  \* who holds the promotion row lock
    docLock     \* who holds the settlement row lock

vars == <<promo, doc, req, promoLock, docLock>>

-----------------------------------------------------------------------------
(* Status values: promotion/enums.py, finance/enums.py. *)

PromoStatus == {"NOT_REVIEWED", "PENDING_REVIEW", "REJECTED", "PENDING_PAYMENT",
                "PAID", "SETTLED", "SETTLEMENT_REJECTED"}

DocStatus == {"NONE", "PENDING_REVIEW", "PENDING_PAYMENT", "PENDING_FINANCE",
              "PAID", "REJECTED"}

(* promotion/service.py: _SETTLEMENT_IN_PROGRESS *)
InProgress == {"PENDING_PAYMENT", "PENDING_FINANCE"}

(* A document finance has neither paid nor refused yet. *)
Open == InProgress \cup {"PENDING_REVIEW"}

(* promotion/fulfillment.py: settling *)
Settling == {"PENDING_PAYMENT", "PAID", "SETTLED", "SETTLEMENT_REJECTED"}

NoPay == -1     \* payment_amount IS NULL

Promo == [settle : PromoStatus, published : BOOLEAN, complete : BOOLEAN,
          active : BOOLEAN, quote : Nat]

Doc == [status : DocStatus, amount : Nat, extra : Nat, total : Nat,
        pay : Nat \cup {NoPay}, note : BOOLEAN, imported : BOOLEAN]

NoDoc == [status |-> "NONE", amount |-> 0, extra |-> 0, total |-> 0,
          pay |-> NoPay, note |-> FALSE, imported |-> FALSE]

NewDoc(status, amount) ==
    [NoDoc EXCEPT !.status = status, !.amount = amount, !.total = amount]

Ops == {"fill", "extra", "pay", "reject", "approve", "resubmit"}

(* from: the status read before any lock; num: the total read (fill) or the
   item (extra); sum: the total computed from the items this request sees;
   w: the settlement row written and not yet committed. *)
Request == [op : Ops \cup {"none"},
            pc : {"idle", "read", "summed", "locked", "updated"},
            from : DocStatus, num : Nat, sum : Nat, w : Doc]

Idle == [op |-> "none", pc |-> "idle", from |-> "NONE", num |-> 0, sum |-> 0,
         w |-> NoDoc]

TypeOK ==
    /\ promo \in Promo
    /\ doc \in Doc
    /\ req \in [Req -> Request]
    /\ promoLock \in Req \cup {NoReq}
    /\ docLock \in Req \cup {NoReq}

-----------------------------------------------------------------------------

FreshPromo(q) == [settle |-> "NOT_REVIEWED", published |-> FALSE,
                  complete |-> FALSE, active |-> TRUE, quote |-> q]

(* Migration 008 gave every promotion already at PENDING_PAYMENT a document
   at PENDING_REVIEW. *)
LegacyPromo(q) == [settle |-> "PENDING_PAYMENT", published |-> TRUE,
                   complete |-> TRUE, active |-> TRUE, quote |-> q]

Init ==
    /\ \E q \in Quotes :
          \/ promo = FreshPromo(q) /\ doc = NoDoc
          \/ LegacyBackfill /\ promo = LegacyPromo(q) /\ doc = NewDoc("PENDING_REVIEW", q)
    /\ req = [r \in Req |-> Idle]
    /\ promoLock = NoReq
    /\ docLock = NoReq

-----------------------------------------------------------------------------
(* Handlers that write the promotion row only: lock, check, write, commit. *)

PromoOnly == promoLock = NoReq /\ UNCHANGED <<req, promoLock, docLock>>

(* publish: the first publication also moves the settlement status on.  The
   promotion has several agreed accounts; whether all of them are published
   by now (complete) depends on the others. *)
Publish ==
    /\ PromoOnly
    /\ promo.active /\ ~promo.published
    /\ \E b \in BOOLEAN :
          promo' = [promo EXCEPT !.published = TRUE, !.complete = b,
                      !.settle = IF @ = "NOT_REVIEWED" THEN "PENDING_REVIEW" ELSE @]
    /\ UNCHANGED doc

(* update_account_posts: facts may be corrected, not cleared while settling. *)
EditPosts ==
    /\ PromoOnly
    /\ promo.active /\ promo.published
    /\ \E b \in BOOLEAN :
          /\ promo.settle \in Settling => b
          /\ promo' = [promo EXCEPT !.complete = b]
    /\ UNCHANGED doc

(* update_promotion on quote_amount: matrix columns A to D only. *)
EditQuote ==
    /\ PromoOnly
    /\ promo.active
    /\ promo.settle \in {"NOT_REVIEWED", "PENDING_REVIEW", "REJECTED"}
    /\ \E q \in Quotes : promo' = [promo EXCEPT !.quote = q]
    /\ UNCHANGED doc

(* review(approve): nothing owed, an imported document already paid, or a new
   document made by on_settlement_requested in the same transaction.  Any
   other existing document is a 409. *)
ReviewApprove ==
    /\ PromoOnly
    /\ promo.active /\ promo.settle = "PENDING_REVIEW"
    /\ promo.published /\ promo.complete
    /\ \/ /\ promo.quote <= 0
          /\ promo' = [promo EXCEPT !.settle = "SETTLED"]
          /\ UNCHANGED doc
       \/ /\ promo.quote > 0
          /\ doc.status = "NONE"
          /\ promo' = [promo EXCEPT !.settle = "PENDING_PAYMENT"]
          /\ doc' = NewDoc("PENDING_PAYMENT", promo.quote)
       \/ /\ promo.quote > 0
          /\ doc.status = "PAID"
          /\ promo' = [promo EXCEPT !.settle = "PAID"]
          /\ UNCHANGED doc

ReviewReject ==
    /\ PromoOnly
    /\ promo.active /\ promo.settle = "PENDING_REVIEW"
    /\ promo' = [promo EXCEPT !.settle = "REJECTED"]
    /\ UNCHANGED doc

ReviewResubmit ==
    /\ PromoOnly
    /\ promo.active /\ promo.settle = "REJECTED" /\ promo.published
    /\ promo' = [promo EXCEPT !.settle = "PENDING_REVIEW"]
    /\ UNCHANGED doc

(* upload_settlement_chat *)
SettleByChat ==
    /\ PromoOnly
    /\ promo.active /\ promo.settle = "PAID"
    /\ promo' = [promo EXCEPT !.settle = "SETTLED"]
    /\ UNCHANGED doc

(* Mutant: the gate knows only the first of the two statuses. *)
DeactivateEarly ==
    /\ PromoOnly
    /\ promo.active
    /\ doc.status # "PENDING_PAYMENT"
    /\ promo' = [promo EXCEPT !.active = FALSE]
    /\ UNCHANGED doc

(* soft_delete_promotion with _ensure_no_settlement_in_progress *)
Deactivate ==
    /\ PromoOnly
    /\ promo.active
    /\ doc.status \notin InProgress
    /\ promo' = [promo EXCEPT !.active = FALSE]
    /\ UNCHANGED doc

(* SettlementImportAdapter.upsert: a payment made before the system existed.
   Active or not, as long as the flow has not started. *)
ImportSettlement ==
    /\ PromoOnly
    /\ promo.settle = "NOT_REVIEWED"
    /\ doc.status = "NONE"
    /\ \E t \in Quotes, p \in Pays \cup {NoPay} :
          doc' = [NewDoc("PAID", t) EXCEPT !.pay = p, !.imported = TRUE]
    /\ UNCHANGED promo

-----------------------------------------------------------------------------
(* Requests that write the settlement row. *)

Busy(r, op, pc) == req[r].op = op /\ req[r].pc = pc

(* The unlocked read and the state-machine assertion made on it. *)
Read(r, op, from) ==
    /\ req[r].pc = "idle"
    /\ doc.status = from
    /\ req' = [req EXCEPT ![r] = [Idle EXCEPT !.op = op, !.pc = "read",
                                    !.from = from,
                                    !.num = IF op = "fill" THEN doc.total ELSE 0]]
    /\ UNCHANGED <<promo, doc, promoLock, docLock>>

ReadDoc(r) ==
    \/ Read(r, "fill", "PENDING_PAYMENT")
    \/ doc.extra <= MaxExtra /\ Read(r, "extra", "PENDING_PAYMENT")
    \/ Read(r, "pay", "PENDING_FINANCE")
    \/ Read(r, "approve", "PENDING_REVIEW")
    \/ \E s \in InProgress : Read(r, "reject", s)

(* add_extra_item: INSERT and flush, then SUM over the committed items and
   this request's own. *)
InsertAndSum(r) ==
    /\ Busy(r, "extra", "read")
    /\ \E i \in Items :
          req' = [req EXCEPT ![r] = [@ EXCEPT !.pc = "summed", !.num = i,
                                              !.sum = doc.amount + doc.extra + i]]
    /\ UNCHANGED <<promo, doc, promoLock, docLock>>

(* require_fulfilled: lock the promotion, then every agreed account must be
   published. *)
Fulfilled == promo.published /\ promo.complete

(* pay and approve go through require_fulfilled, reject through
   lock_promotion, which asks for nothing. *)
LockPromo(r) ==
    /\ req[r].op \in {"pay", "approve", "reject"} /\ req[r].pc = "read"
    /\ promoLock = NoReq
    /\ req[r].op # "reject" => Fulfilled
    /\ promoLock' = r
    /\ req' = [req EXCEPT ![r].pc = "locked"]
    /\ UNCHANGED <<promo, doc, docLock>>

(* resubmit_settlement starts on the promotion row: _writable_promotion, the
   matrix, require_fulfilled, settlement_brief. *)
BeginResubmit(r) ==
    /\ req[r].pc = "idle"
    /\ promoLock = NoReq
    /\ promo.active /\ promo.settle = "SETTLEMENT_REJECTED" /\ Fulfilled
    /\ doc.status # "NONE"
    /\ promoLock' = r
    /\ req' = [req EXCEPT ![r] = [Idle EXCEPT !.op = "resubmit", !.pc = "locked",
                                              !.from = "REJECTED"]]
    /\ UNCHANGED <<promo, doc, docLock>>

(* Mutants of the WHERE: no total, or no status. *)
WhereStatus(r) == doc.status = req[r].from
WhereTotal(r) == req[r].op = "fill" => doc.total = req[r].num

(* SettlementRepository.update_state and update_total_amount: what the WHERE
   asks of the row, and what it becomes (p and n: the amount paid and whether
   there is a note, for fill). *)
Where(r) == doc.status = req[r].from /\ (req[r].op = "fill" => doc.total = req[r].num)

Written(r, p, n) ==
    CASE req[r].op = "fill" ->
            [doc EXCEPT !.status = "PENDING_FINANCE", !.pay = p, !.note = n]
      [] req[r].op = "extra" ->
            [doc EXCEPT !.total = req[r].sum, !.extra = @ + req[r].num]
      [] req[r].op = "pay" -> [doc EXCEPT !.status = "PAID"]
      [] req[r].op = "reject" -> [doc EXCEPT !.status = "REJECTED"]
      [] req[r].op = "approve" -> [doc EXCEPT !.status = "PENDING_PAYMENT"]
      [] OTHER -> [doc EXCEPT !.status = "PENDING_PAYMENT", !.pay = NoPay, !.note = FALSE]

(* fill_payment_amount judged the note against the total it had read. *)
NoteGiven(r, p, n) == req[r].op = "fill" /\ p # req[r].num => n

ReadyToUpdate(r) ==
    \/ Busy(r, "fill", "read")
    \/ Busy(r, "extra", "summed")
    \/ req[r].pc = "locked"

UpdateDoc(r) ==
    /\ ReadyToUpdate(r)
    /\ docLock = NoReq
    /\ Where(r)
    /\ \E p \in Pays, n \in BOOLEAN :
          /\ NoteGiven(r, p, n)
          /\ req' = [req EXCEPT ![r] = [@ EXCEPT !.pc = "updated", !.w = Written(r, p, n)]]
    /\ docLock' = r
    /\ UNCHANGED <<promo, doc, promoLock>>

Released(lock, r) == IF lock = r THEN NoReq ELSE lock

Finish(r) ==
    /\ req' = [req EXCEPT ![r] = Idle]
    /\ promoLock' = Released(promoLock, r)
    /\ docLock' = Released(docLock, r)

(* The promotion update of the same transaction: on_settlement_rejected does not
   tolerate 0 rows, R7 has checked its row. *)
MovePromo(from, to) ==
    /\ promo.active /\ promo.settle = from
    /\ promo' = [promo EXCEPT !.settle = to]

(* Mutant: a rejection that is not heard goes through, as a payment does. *)
CommitPromoTolerant(r) ==
    CASE req[r].op = "pay" -> MovePromo("PENDING_PAYMENT", "PAID") \/ UNCHANGED promo
      [] req[r].op = "reject" ->
            MovePromo("PENDING_PAYMENT", "SETTLEMENT_REJECTED") \/ UNCHANGED promo
      [] req[r].op = "resubmit" -> MovePromo("SETTLEMENT_REJECTED", "PENDING_PAYMENT")
      [] OTHER -> UNCHANGED promo

(* _mark_paid swallows whatever dispatching SettlementPaid raises, and a missing
   listener or 0 rows raise nothing: the payment commits, heard or not. *)
CommitPromo(r) ==
    CASE req[r].op = "pay" -> MovePromo("PENDING_PAYMENT", "PAID") \/ UNCHANGED promo
      [] req[r].op = "reject" -> MovePromo("PENDING_PAYMENT", "SETTLEMENT_REJECTED")
      [] req[r].op = "resubmit" -> MovePromo("SETTLEMENT_REJECTED", "PENDING_PAYMENT")
      [] OTHER -> UNCHANGED promo

(* The line event takes the promotion FOR KEY SHARE through its foreign key.
   Nothing is waited for after it, so it is one step with the commit. *)
EventRow(r) == promoLock \in {NoReq, r}

Commit(r) ==
    /\ req[r].pc = "updated"
    /\ EventRow(r)
    /\ CommitPromo(r)
    /\ doc' = req[r].w
    /\ Finish(r)

(* A check of the code says no, and the transaction rolls back: a 0-row
   UPDATE of either table (409; a row whose committed version does not satisfy
   the WHERE is not waited for), or an account not published yet (422). *)
Conflict(r) ==
    /\ \/ ReadyToUpdate(r) /\ ~Where(r)
       \/ /\ req[r].op \in {"pay", "approve"} /\ req[r].pc = "read"
          /\ promoLock = NoReq /\ ~Fulfilled
       \/ /\ Busy(r, "reject", "updated")
          /\ ~(promo.active /\ promo.settle = "PENDING_PAYMENT")
    /\ Finish(r)
    /\ UNCHANGED <<promo, doc>>

(* Rollback for any other reason: the upload of the payment proof failed, an
   exception in a handler, a lost connection or worker. *)
Fail(r) ==
    /\ req[r].pc # "idle"
    /\ Finish(r)
    /\ UNCHANGED <<promo, doc>>

-----------------------------------------------------------------------------

PromoStep == \/ Publish \/ EditPosts \/ EditQuote
             \/ ReviewApprove \/ ReviewReject \/ ReviewResubmit
             \/ SettleByChat \/ Deactivate \/ ImportSettlement

(* The steps by which a started request reaches its own end. *)
Progress(r) == \/ InsertAndSum(r) \/ LockPromo(r) \/ UpdateDoc(r)
               \/ Commit(r) \/ Conflict(r)

RequestStep(r) == ReadDoc(r) \/ BeginResubmit(r) \/ Progress(r) \/ Fail(r)

Next == PromoStep \/ \E r \in Req : RequestStep(r)

Spec == Init /\ [][Next]_vars

-----------------------------------------------------------------------------
(* Properties *)

(* The two tables tell one story (listeners FB1, FB5, R6, R7), except that
   operations may not have heard of a payment: an open document has a promotion
   that waits for it, one is rejected exactly while the other is, and a promotion
   counts as paid only with a paid document.  A payment that was not heard leaves
   the promotion waiting, and nothing else. *)
SidesAgree ==
    /\ doc.status \in Open => promo.settle = "PENDING_PAYMENT"
    /\ promo.settle = "PENDING_PAYMENT" => doc.status \in Open \cup {"PAID"}
    /\ doc.status = "REJECTED" <=> promo.settle = "SETTLEMENT_REJECTED"
    /\ promo.settle = "PAID" => doc.status = "PAID"
    /\ doc.status = "PAID" /\ ~doc.imported
          => promo.settle \in {"PENDING_PAYMENT", "PAID", "SETTLED"}

(* Without the exception; finance/events.py trusts a nightly task, which does not
   exist, to bring a payment that was not heard to the promotion. *)
PaymentIsHeard ==
    doc.status = "PAID" /\ ~doc.imported /\ promo.active => promo.settle \in {"PAID", "SETTLED"}

(* fill_payment_amount: whenever finance pays something else than what is
   owed, there is a written reason, although items are added by others
   between its read and its update. *)
NoteExplainsDifference ==
    doc.status \in {"PENDING_FINANCE", "PAID"} /\ ~doc.imported /\ doc.pay # doc.total
        => doc.note

(* "only when every agreed account is published" (fulfillment.py): as long as
   a document of this system exists, the facts it was opened on stand. *)
FeeOnlyIfFulfilled ==
    doc.status # "NONE" /\ ~doc.imported => Fulfilled

(* resubmit (F6) returns a document to finance with a clean slate. *)
PendingHasNoPayment ==
    doc.status \in {"PENDING_REVIEW", "PENDING_PAYMENT"} => doc.pay = NoPay /\ ~doc.note

(* The deactivation gate (L3): no open document hangs on a deactivated
   promotion, where it could no longer be rejected. *)
InactiveHasNoOpenDoc ==
    ~promo.active => doc.status \notin InProgress

(* A computed total may be stale, but never claims more than fee plus items. *)
TotalNeverExceeds ==
    ~doc.imported => doc.amount <= doc.total /\ doc.total <= doc.amount + doc.extra

(* models.py on extra items: "updated together with settlement.total_amount". *)
TotalMatchesItems ==
    ~doc.imported => doc.total = doc.amount + doc.extra

(* Money that left is final: no request still under way, however old its
   read, changes a paid document. *)
PaidIsFinal == [][doc.status = "PAID" => doc' = doc]_vars

(* Once an amount has been filled in, neither what is owed nor what is paid
   moves until the document is rejected and resubmitted. *)
FilledIsFrozen ==
    [][doc.status \in {"PENDING_FINANCE", "REJECTED"} /\ doc'.status # "PENDING_PAYMENT"
          => doc'.total = doc.total /\ doc'.pay = doc.pay]_vars

(* r waits for a lock of s: for the settlement row, for the promotion to start
   with, or for the promotion through its line event. *)
Waits(r, s) ==
    \/ ReadyToUpdate(r) /\ Where(r) /\ docLock = s
    \/ req[r].op \in {"pay", "approve", "reject"} /\ req[r].pc = "read" /\ promoLock = s
    \/ req[r].pc = "updated" /\ ~EventRow(r) /\ promoLock = s

(* No circle at all, which the code does not keep. *)
NoCircle == ~\E r, s \in Req : Waits(r, s) /\ Waits(s, r)

(* "All that writes a fee locks the promotion first" (fulfillment.py).  A fill and
   an added item do not: they come to the promotion through their line event, with
   the settlement row in their hands.  Of all pairs of requests only these two and
   a rejection can close a circle; the status in the WHERE keeps a payment, an
   approval and a resubmission, whose documents are elsewhere by then, out of it. *)
OnlyRejectionsMeet ==
    \A r, s \in Req : Waits(r, s) /\ Waits(s, r) =>
        \/ req[r].op = "reject" /\ req[s].op \in {"fill", "extra"}
        \/ req[s].op = "reject" /\ req[r].op \in {"fill", "extra"}

=============================================================================
