------------------------- MODULE NegotiationProofs -------------------------
(* Proofs about Negotiation and its contract, about BulkCreate and about      *)
(* Claims, for any number of rows, users and requests at work.                *)
EXTENDS NegotiationContract, BulkCreate, ClaimsContract, SequenceTheorems, TLAPS

-----------------------------------------------------------------------------
(* The inductive invariant *)

(* What holds of each row: its reviewers fit its status and come from the two
   sides of NoStar, and its promotion is its deal. *)
RowInv(x) ==
    /\ x.reviewed \in (Manager \ Star) \cup {NoOne}
    /\ x.final \in Star \cup {NoOne}
    /\ x.status = "NONE" => x.promotions = {}
    /\ x.status # "NONE" =>
         /\ x.pr \in User
         /\ x.reviewed # NoOne <=> x.status \notin {"DRAFT", "PENDING"}
         /\ x.final # NoOne <=> x.status \in {"FINAL_RETURNED", "RECEIVER_PENDING", "APPROVED"}
    /\ x.status = "APPROVED" => x.promotions = {[content |-> x.content, pr |-> x.pr]}
    /\ x.status # "APPROVED" => x.promotions = {}

(* After the boss has approved it the content stays. *)
Agreed == {"RECEIVER_PENDING", "APPROVED"}
Follows(x, y) == x.status \in Agreed => y.status \in Agreed /\ y.content = x.content

(* What a request read, and what of it still holds of its row x. *)
Read(q) ==
    /\ q.op \in {"edit", "submit"} => q.seen.status \in OwnerEditable
    /\ q.op = "review" => q.seen.status = "PENDING" /\ q.actor \in Manager \ Star
    /\ q.op = "final" => q.seen.status = "FINAL_PENDING" /\ q.actor \in Star
    /\ q.op \in {"save", "confirm"} => q.seen.status = "RECEIVER_PENDING"
    /\ q.op = "reassign" => q.seen.status \in Reassignable /\ q.arg \in User
    /\ q.op = "edit" => q.arg \in Fill

Holds(q, x) == q.op = "confirm" => x.status \in Agreed /\ x.content = q.seen.content

IInv ==
    /\ TypeOK
    /\ \A d \in Doc : RowInv(doc[d])
    /\ \A r \in Request : req[r].op # "idle" => Read(req[r]) /\ Holds(req[r], doc[req[r].doc])

-----------------------------------------------------------------------------

LEMMA InitInv == Init => IInv
<1> SUFFICES ASSUME Init PROVE IInv
  OBVIOUS
<1> DEFINE none == [Blank(NoOne, "bare") EXCEPT !.status = "NONE"]
<1>1. none \in DocState /\ RowInv(none)
  BY BoundAssumption DEF Blank, DocState, RowInv, Content, Fill, Promotion
<1>2. doc = [d \in Doc |-> none] /\ req = [r \in Request |-> Idle]
  BY DEF Init
<1>3. QED
  BY <1>1, <1>2 DEF IInv, TypeOK, Idle

(* A request that ends, having changed at most its own row, in a way the others
   can live with. *)
LEMMA RowStep ==
    ASSUME IInv, NEW r \in Request, req[r].op # "idle", NEW row \in DocState,
           RowInv(row), Follows(doc[req[r].doc], row),
           doc' = [doc EXCEPT ![req[r].doc] = row], Ends(r)
    PROVE  IInv'
<1>1. doc \in [Doc -> DocState] /\ req \in [Request -> [op : {"idle"}] \cup RequestState]
  BY DEF IInv, TypeOK
<1>2. TypeOK'
  BY <1>1 DEF TypeOK, Ends, Idle
<1>3. ASSUME NEW d \in Doc PROVE RowInv(doc'[d])
  BY <1>1 DEF IInv
<1>4. ASSUME NEW s \in Request, req'[s].op # "idle"
      PROVE  Read(req'[s]) /\ Holds(req'[s], doc'[req'[s].doc])
  <2>1. s # r /\ req'[s] = req[s]
    BY <1>1, <1>4 DEF Ends, Idle
  <2>2. req[s].doc \in Doc
    BY <1>1, <1>4, <2>1 DEF RequestState
  <2>3. Read(req[s]) /\ Holds(req[s], doc[req[s].doc])
    BY <1>4, <2>1 DEF IInv
  <2>4. QED BY <1>1, <2>1, <2>2, <2>3 DEF Holds, Follows
<1>5. QED
  BY <1>2, <1>3, <1>4 DEF IInv

(* A new row under an id that was not in use. *)
LEMMA NewRow ==
    ASSUME IInv, NEW d \in Doc, doc[d].status \notin Agreed, NEW u \in User, NEW fill \in Fill,
           doc' = [doc EXCEPT ![d] = Blank(u, fill)], UNCHANGED req
    PROVE  IInv'
<1>1. doc \in [Doc -> DocState] /\ req \in [Request -> [op : {"idle"}] \cup RequestState]
  BY DEF IInv, TypeOK
<1>2. Blank(u, fill) \in DocState /\ RowInv(Blank(u, fill))
  BY BoundAssumption DEF Blank, DocState, RowInv, Content, Promotion, Status, OwnerEditable
<1>3. TypeOK' /\ \A e \in Doc : RowInv(doc'[e])
  BY <1>1, <1>2 DEF IInv, TypeOK
<1>4. ASSUME NEW s \in Request, req'[s].op # "idle"
      PROVE  Read(req'[s]) /\ Holds(req'[s], doc'[req'[s].doc])
  <2>1. req'[s] = req[s] /\ req[s].doc \in Doc
    BY <1>1, <1>4 DEF RequestState
  <2>2. Read(req[s]) /\ Holds(req[s], doc[req[s].doc])
    BY <1>4, <2>1 DEF IInv
  <2>3. QED BY <1>1, <2>1, <2>2 DEF Holds
<1>5. QED
  BY <1>3, <1>4 DEF IInv

(* A request that opens with what it read. *)
LEMMA OpensStep ==
    ASSUME IInv, NEW r \in Request, NEW u \in User, NEW d \in Doc,
           NEW op \in Op, NEW arg \in Arg, doc[d].status # "NONE", Opens(r, u, d, op, arg),
           Read([op |-> op, actor |-> u, doc |-> d, arg |-> arg,
                 seen |-> [status |-> doc[d].status, pr |-> doc[d].pr, content |-> doc[d].content]])
    PROVE  IInv'
<1> DEFINE q == [op |-> op, actor |-> u, doc |-> d, arg |-> arg,
                 seen |-> [status |-> doc[d].status, pr |-> doc[d].pr, content |-> doc[d].content]]
<1>1. doc \in [Doc -> DocState] /\ req \in [Request -> [op : {"idle"}] \cup RequestState]
  BY DEF IInv, TypeOK
<1>2. q \in RequestState
  <2>1. doc[d].status \in Status /\ doc[d].pr \in User /\ doc[d].content \in Content
    BY <1>1 DEF DocState, IInv, RowInv
  <2>2. QED BY <2>1 DEF RequestState, Seen
<1>3. req' = [req EXCEPT ![r] = q] /\ doc' = doc
  BY DEF Opens
<1>4. Holds(q, doc[d])
  BY DEF Holds, Read, Agreed
<1>5. ASSUME NEW s \in Request, req'[s].op # "idle"
      PROVE  Read(req'[s]) /\ Holds(req'[s], doc'[req'[s].doc])
  <2>1. CASE s = r
    BY <1>1, <1>3, <1>4, <2>1
  <2>2. CASE s # r
    BY <1>1, <1>3, <1>5, <2>2 DEF IInv
  <2>3. QED BY <2>1, <2>2
<1>6. TypeOK' /\ \A e \in Doc : RowInv(doc'[e])
  BY <1>1, <1>2, <1>3 DEF IInv, TypeOK
<1>7. QED
  BY <1>5, <1>6 DEF IInv

-----------------------------------------------------------------------------
(* The steps that open a request *)

LEMMA BeginStep ==
    ASSUME IInv, NEW r \in Request, NEW u \in User, NEW d \in Doc, Begin(r, u, d)
    PROVE  IInv'
<1> DEFINE q(op, arg) ==
        [op |-> op, actor |-> u, doc |-> d, arg |-> arg,
         seen |-> [status |-> doc[d].status, pr |-> doc[d].pr, content |-> doc[d].content]]
<1>1. CASE BeginEdit(r, u, d)
  <2>1. PICK fill \in Fill : Opens(r, u, d, "edit", fill)
    BY <1>1 DEF BeginEdit
  <2>2. doc[d].status # "NONE" /\ Read(q("edit", fill))
    BY <1>1 DEF BeginEdit, Read, OwnerEditable
  <2>3. QED BY <2>1, <2>2, OpensStep DEF Op, Arg
<1>2. CASE BeginSubmit(r, u, d)
  <2>1. doc[d].status # "NONE" /\ Read(q("submit", "none"))
    BY <1>2 DEF BeginSubmit, Read, OwnerEditable
  <2>2. QED BY <1>2, <2>1, OpensStep DEF BeginSubmit, Op, Arg
<1>3. CASE BeginReview(r, u, d)
  <2>1. PICK verdict \in {"approve", "reject"} : Opens(r, u, d, "review", verdict)
    BY <1>3 DEF BeginReview
  <2>2. doc[d].status # "NONE" /\ Read(q("review", verdict))
    BY <1>3 DEF BeginReview, Read
  <2>3. QED BY <2>1, <2>2, OpensStep DEF Op, Arg
<1>4. CASE BeginFinal(r, u, d)
  <2>1. PICK verdict \in {"approve", "reject"} : Opens(r, u, d, "final", verdict)
    BY <1>4 DEF BeginFinal
  <2>2. doc[d].status # "NONE" /\ Read(q("final", verdict))
    BY <1>4 DEF BeginFinal, Read
  <2>3. QED BY <2>1, <2>2, OpensStep DEF Op, Arg
<1>5. CASE BeginReceiver(r, u, d)
  <2>1. PICK op \in {"save", "confirm"} : Opens(r, u, d, op, "none")
    BY <1>5 DEF BeginReceiver
  <2>2. doc[d].status # "NONE" /\ Read(q(op, "none"))
    BY <1>5 DEF BeginReceiver, Read
  <2>3. QED BY <2>1, <2>2, OpensStep DEF Op, Arg
<1>6. CASE BeginReassign(r, u, d)
  <2>1. PICK to \in Assignee(d) : Opens(r, u, d, "reassign", to)
    BY <1>6 DEF BeginReassign
  <2>2. doc[d].status # "NONE" /\ Read(q("reassign", to)) /\ to \in User
    BY <1>6 DEF BeginReassign, Read, Assignee, Reassignable
  <2>3. QED BY <2>1, <2>2, OpensStep DEF Op, Arg
<1>7. QED
  BY <1>1, <1>2, <1>3, <1>4, <1>5, <1>6 DEF Begin

-----------------------------------------------------------------------------
(* The steps that write *)

(* What the WHERE of the UPDATE leaves true of what was read. *)
LEMMA Landed ==
    ASSUME IInv, NEW r \in Request, NEW op \in Op, Lands(r, op)
    PROVE  /\ req[r] \in RequestState /\ req[r].op = op /\ req[r].op # "idle"
           /\ req[r].doc \in Doc /\ doc[req[r].doc] \in DocState
           /\ RowInv(doc[req[r].doc]) /\ Read(req[r]) /\ Holds(req[r], doc[req[r].doc])
           /\ IF op \in {"edit", "submit"} THEN doc[req[r].doc].status \in OwnerEditable
              ELSE doc[req[r].doc].status = req[r].seen.status
           /\ op \notin {"review", "final"} => doc[req[r].doc].pr = req[r].seen.pr
<1>1. doc \in [Doc -> DocState] /\ req \in [Request -> [op : {"idle"}] \cup RequestState]
  BY DEF IInv, TypeOK
<1>2. req[r].op = op /\ op # "idle" /\ Hits(req[r])
  BY DEF Lands, Op
<1>3. req[r] \in RequestState /\ req[r].doc \in Doc
  BY <1>1, <1>2 DEF RequestState
<1>4. RowInv(doc[req[r].doc]) /\ Read(req[r]) /\ Holds(req[r], doc[req[r].doc])
  BY <1>2, <1>3 DEF IInv
<1>5. QED
  BY <1>1, <1>2, <1>3, <1>4 DEF Hits, Read

LEMMA WriteStep ==
    ASSUME IInv, NEW r \in Request, Write(r)
    PROVE  IInv'
<1> DEFINE d == req[r].doc
           x == doc[d]
<1>1. CASE Edit(r)
  <2> DEFINE row == [x EXCEPT !.content = [ver |-> x.content.ver + 1, fill |-> req[r].arg]]
  <2>1. /\ x \in DocState /\ d \in Doc /\ RowInv(x) /\ req[r].op # "idle" /\ req[r].arg \in Fill
        /\ x.status \in OwnerEditable
    BY <1>1, Landed DEF Edit, Op, Read, Lands
  <2>2. x.content.ver + 1 \in 0..MaxEdits
    BY <1>1, <2>1, BoundAssumption DEF Edit, DocState, Content
  <2>3. row \in DocState
    BY <2>1, <2>2 DEF DocState, Content
  <2>4. RowInv(row) /\ Follows(x, row)
    BY <2>1 DEF RowInv, Follows, Agreed, DocState, OwnerEditable
  <2>5. doc' = [doc EXCEPT ![d] = row] /\ Ends(r)
    BY <1>1 DEF Edit
  <2>6. QED BY <2>1, <2>3, <2>4, <2>5, RowStep
<1>2. CASE Submit(r)
  <2> DEFINE row == [x EXCEPT !.status = "PENDING", !.shown = req[r].seen.content,
                              !.reviewed = NoOne, !.final = NoOne]
  <2>1. /\ x \in DocState /\ d \in Doc /\ RowInv(x) /\ req[r].op # "idle"
        /\ req[r].seen.content \in Content /\ x.status \in OwnerEditable
    BY <1>2, Landed DEF Submit, Op, RequestState, Seen
  <2>2. row \in DocState
    BY <2>1 DEF DocState, Status, Reassignable
  <2>3. RowInv(row) /\ Follows(x, row)
    BY <2>1 DEF RowInv, Follows, Agreed, DocState, OwnerEditable
  <2>4. doc' = [doc EXCEPT ![d] = row] /\ Ends(r)
    BY <1>2 DEF Submit
  <2>5. QED BY <2>1, <2>2, <2>3, <2>4, RowStep
<1>3. CASE Review(r)
  <2> DEFINE row == [x EXCEPT !.status = IF req[r].arg = "approve" THEN "FINAL_PENDING"
                                         ELSE "REJECTED",
                              !.reviewed = req[r].actor]
  <2>1. /\ x \in DocState /\ d \in Doc /\ RowInv(x) /\ req[r].op # "idle"
        /\ req[r].actor \in Manager \ Star /\ x.status = "PENDING"
    BY <1>3, Landed DEF Review, Op, Read
  <2>2. row \in DocState
    BY <2>1, UserAssumption DEF DocState, Status, Reassignable, Terminal
  <2>3. RowInv(row) /\ Follows(x, row)
    BY <2>1, UserAssumption DEF RowInv, Follows, Agreed, DocState
  <2>4. doc' = [doc EXCEPT ![d] = row] /\ Ends(r)
    BY <1>3 DEF Review
  <2>5. QED BY <2>1, <2>2, <2>3, <2>4, RowStep
<1>4. CASE FinalReview(r)
  <2> DEFINE row == [x EXCEPT !.status = IF req[r].arg = "approve" THEN "RECEIVER_PENDING"
                                         ELSE "FINAL_RETURNED",
                              !.final = req[r].actor]
  <2>1. /\ x \in DocState /\ d \in Doc /\ RowInv(x) /\ req[r].op # "idle"
        /\ req[r].actor \in Star /\ x.status = "FINAL_PENDING"
    BY <1>4, Landed DEF FinalReview, Op, Read
  <2>2. row \in DocState
    BY <2>1, UserAssumption DEF DocState, Status, Reassignable
  <2>3. RowInv(row) /\ Follows(x, row)
    BY <2>1, UserAssumption DEF RowInv, Follows, Agreed, DocState
  <2>4. doc' = [doc EXCEPT ![d] = row] /\ Ends(r)
    BY <1>4 DEF FinalReview
  <2>5. QED BY <2>1, <2>2, <2>3, <2>4, RowStep
<1>5. CASE SaveReceiver(r)
  <2> DEFINE row == [x EXCEPT !.receiver = "saved"]
  <2>1. x \in DocState /\ d \in Doc /\ RowInv(x) /\ req[r].op # "idle"
    BY <1>5, Landed DEF SaveReceiver, Op
  <2>2. row \in DocState /\ RowInv(row) /\ Follows(x, row)
    BY <2>1 DEF DocState, RowInv, Follows
  <2>3. doc' = [doc EXCEPT ![d] = row] /\ Ends(r)
    BY <1>5 DEF SaveReceiver
  <2>4. QED BY <2>1, <2>2, <2>3, RowStep
<1>6. CASE ConfirmReceiver(r)
  <2> DEFINE deal == [content |-> req[r].seen.content, pr |-> req[r].seen.pr]
             row == [x EXCEPT !.status = "APPROVED", !.receiver = "confirmed",
                              !.promotions = x.promotions \cup {deal}]
  <2>1. /\ x \in DocState /\ d \in Doc /\ RowInv(x) /\ req[r].op # "idle"
        /\ deal \in Promotion /\ x.status = "RECEIVER_PENDING"
        /\ deal = [content |-> x.content, pr |-> x.pr]
    BY <1>6, Landed DEF ConfirmReceiver, Op, Read, Holds, RequestState, Seen, Promotion
  <2>2. x.promotions = {}
    BY <2>1 DEF RowInv
  <2>3. row \in DocState
    BY <2>1, <2>2 DEF DocState, Status, Terminal
  <2>4. RowInv(row) /\ Follows(x, row)
    BY <2>1, <2>2 DEF RowInv, Follows, Agreed, DocState
  <2>5. doc' = [doc EXCEPT ![d] = row] /\ Ends(r)
    BY <1>6 DEF ConfirmReceiver
  <2>6. QED BY <2>1, <2>3, <2>4, <2>5, RowStep
<1>7. CASE Reassign(r)
  <2> DEFINE row == [x EXCEPT !.pr = req[r].arg]
  <2>1. /\ x \in DocState /\ d \in Doc /\ RowInv(x) /\ req[r].op # "idle"
        /\ req[r].arg \in User /\ x.status \in Reassignable
    BY <1>7, Landed DEF Reassign, Op, Read
  <2>2. row \in DocState
    BY <2>1 DEF DocState
  <2>3. RowInv(row) /\ Follows(x, row)
    BY <2>1 DEF RowInv, Follows, Agreed, DocState, Reassignable
  <2>4. doc' = [doc EXCEPT ![d] = row] /\ Ends(r)
    BY <1>7 DEF Reassign
  <2>5. QED BY <2>1, <2>2, <2>3, <2>4, RowStep
<1>8. QED
  BY <1>1, <1>2, <1>3, <1>4, <1>5, <1>6, <1>7 DEF Write

LEMMA RefuseStep ==
    ASSUME IInv, NEW r \in Request, Refuse(r)
    PROVE  IInv'
<1>1. doc \in [Doc -> DocState] /\ req \in [Request -> [op : {"idle"}] \cup RequestState]
  BY DEF IInv, TypeOK
<1>2. req[r].op # "idle" /\ req[r].doc \in Doc
  BY <1>1 DEF Refuse, RequestState
<1>3. doc[req[r].doc] \in DocState /\ RowInv(doc[req[r].doc])
  BY <1>1, <1>2 DEF IInv
<1>4. doc' = [doc EXCEPT ![req[r].doc] = doc[req[r].doc]] /\ Ends(r)
  BY <1>1, <1>2 DEF Refuse
<1>5. QED
  BY <1>2, <1>3, <1>4, RowStep DEF Follows

-----------------------------------------------------------------------------

LEMMA NextInv == IInv /\ [Next]_vars => IInv'
<1> SUFFICES ASSUME IInv, [Next]_vars PROVE IInv'
  OBVIOUS
<1>1. ASSUME NEW u \in User, NEW d \in Doc, Create(u, d) PROVE IInv'
  <2>1. PICK fill \in Fill : doc' = [doc EXCEPT ![d] = Blank(u, fill)]
    BY <1>1 DEF Create
  <2>2. doc[d].status \notin Agreed /\ UNCHANGED req
    BY <1>1 DEF Create, Agreed
  <2>3. QED BY <2>1, <2>2, NewRow
<1>2. ASSUME NEW u \in User, NEW d \in Doc, NEW new \in Doc, Copy(u, d, new) PROVE IInv'
  <2>1. doc[d].content.fill \in Fill
    BY DEF IInv, TypeOK, DocState, Content
  <2>2. doc[new].status \notin Agreed
    BY <1>2 DEF Copy, Agreed
  <2>3. QED BY <1>2, <2>1, <2>2, NewRow DEF Copy
<1>3. CASE UNCHANGED vars
  BY <1>3 DEF vars, IInv, TypeOK
<1>4. QED
  BY <1>1, <1>2, <1>3, BeginStep, WriteStep, RefuseStep DEF Next

LEMMA Invariant == Spec => []IInv
<1>1. QED
  BY InitInv, NextInv, PTL DEF Spec

-----------------------------------------------------------------------------
(* The theorems *)

(* Every row and every request keeps its type, through all the handlers of
   NegotiationService. *)
THEOREM TypeCorrect == Spec => []TypeOK
<1>1. IInv => TypeOK
  BY DEF IInv
<1>2. QED
  BY <1>1, Invariant, PTL

(* No negotiation is past a level of the review that it has not passed in this
   round, and never by one person: what submit clears and the two levels write
   (_decide) always fits the status. *)
THEOREM BothLevelsDecide == Spec => []TwoLevels
<1>1. IInv => TwoLevels
  <2> SUFFICES ASSUME IInv, NEW d \in Doc, doc[d].status # "NONE"
               PROVE  /\ doc[d].reviewed # NoOne <=> doc[d].status \notin {"DRAFT", "PENDING"}
                      /\ doc[d].final # NoOne <=>
                           doc[d].status \in {"FINAL_RETURNED", "RECEIVER_PENDING", "APPROVED"}
                      /\ doc[d].final # NoOne => doc[d].final # doc[d].reviewed
    BY DEF TwoLevels
  <2>1. RowInv(doc[d])
    BY DEF IInv
  <2>2. QED BY <2>1, UserAssumption DEF RowInv
<1>2. QED
  BY <1>1, Invariant, PTL

(* confirm_receiver makes one promotion, of the deal that was approved, however
   many confirmations, reassignments and saves race. *)
THEOREM PromotionAlwaysTheDeal == Spec => []PromotionIsTheDeal
<1>1. IInv => PromotionIsTheDeal
  BY DEF IInv, RowInv, PromotionIsTheDeal
<1>2. QED
  BY <1>1, Invariant, PTL

(* A step changes at most the row its request read, and that only in the status
   the request read it in. *)
LEMMA StepOnRow ==
    ASSUME IInv, [Next]_vars, NEW d \in Doc, doc'[d] # doc[d]
    PROVE  /\ doc[d].status \notin Terminal
           /\ doc'[d].content # doc[d].content => doc[d].status \in OwnerEditable \cup {"NONE"}
<1>1. doc \in [Doc -> DocState]
  BY DEF IInv, TypeOK
<1>2. ASSUME NEW u \in User, NEW e \in Doc, Create(u, e) PROVE doc[d].status = "NONE"
  BY <1>1, <1>2 DEF Create
<1>3. ASSUME NEW u \in User, NEW e \in Doc, NEW new \in Doc, Copy(u, e, new)
      PROVE  doc[d].status = "NONE"
  BY <1>1, <1>3 DEF Copy
<1>4. ASSUME NEW r \in Request, NEW u \in User, NEW e \in Doc, Begin(r, u, e) PROVE FALSE
  BY <1>4 DEF Begin, BeginEdit, BeginSubmit, BeginReview, BeginFinal, BeginReceiver,
              BeginReassign, Opens
<1>5. ASSUME NEW r \in Request, Refuse(r) PROVE FALSE
  BY <1>5 DEF Refuse
<1>6. ASSUME NEW r \in Request, Edit(r) \/ Submit(r)
      PROVE  doc[d].status \in OwnerEditable
  <2>1. doc[req[r].doc].status \in OwnerEditable
    BY <1>6, Landed DEF Edit, Submit, Op
  <2>2. QED BY <1>1, <1>6, <2>1 DEF Edit, Submit
<1>7. ASSUME NEW r \in Request,
             Review(r) \/ FinalReview(r) \/ SaveReceiver(r) \/ ConfirmReceiver(r) \/ Reassign(r)
      PROVE  doc[d].status \in Reassignable /\ doc'[d].content = doc[d].content
  <2>1. doc[req[r].doc].status \in Reassignable
    BY <1>7, Landed DEF Review, FinalReview, SaveReceiver, ConfirmReceiver, Reassign, Op, Read,
                        Reassignable
  <2>2. d = req[r].doc /\ doc[d] \in DocState
    BY <1>1, <1>7 DEF Review, FinalReview, SaveReceiver, ConfirmReceiver, Reassign
  <2>3. doc'[d].content = doc[d].content
    BY <1>1, <1>7, <2>2 DEF Review, FinalReview, SaveReceiver, ConfirmReceiver, Reassign, DocState
  <2>4. QED BY <2>1, <2>2, <2>3
<1>8. CASE UNCHANGED vars
  BY <1>8 DEF vars
<1>9. QED
  BY <1>2, <1>3, <1>4, <1>5, <1>6, <1>7, <1>8
     DEF Next, Write, Terminal, OwnerEditable, Reassignable

(* Nothing moves under the reviewers: no stale edit gets past the WHERE of
   update_state. *)
THEOREM ContentIsFrozen == Spec => FrozenUnderReview
<1>1. IInv /\ [Next]_vars =>
        [\A d \in Doc : doc'[d].content # doc[d].content =>
            doc[d].status \in OwnerEditable \cup {"NONE"}]_vars
  BY StepOnRow
<1>2. QED
  BY <1>1, Invariant, PTL DEF Spec, FrozenUnderReview

(* REJECTED and APPROVED are final for every column of the row. *)
THEOREM TerminalStaysFinal == Spec => TerminalIsFinal
<1>1. IInv /\ [Next]_vars =>
        [\A d \in Doc : doc[d].status \in Terminal => doc'[d] = doc[d]]_vars
  BY StepOnRow
<1>2. QED
  BY <1>1, Invariant, PTL DEF Spec, TerminalIsFinal

-----------------------------------------------------------------------------
(* Negotiation implements DealContract *)

(* A commit of one row is a turn of one deal. *)
LEMMA DealTurn ==
  ASSUME NEW d \in Doc, NEW row, doc \in [Doc -> DocState], doc' = [doc EXCEPT ![d] = row]
  PROVE  /\ Deal!Becomes(d, DealOf(row))
         /\ Deal!Phase(d) = DealOf(doc[d]).phase
         /\ [e \in Doc |-> DealOf(doc[e])][d] = DealOf(doc[d])
<1> DEFINE V(f) == [e \in Doc |-> DealOf(f[e])]
<1>1. doc'[d] = row /\ \A e \in Doc \ {d} : doc'[e] = doc[e]
  OBVIOUS
<1>2. V(doc') = [V(doc) EXCEPT ![d] = DealOf(row)]
  <2>1. \A e \in Doc : DealOf(doc'[e]) = IF e = d THEN DealOf(row) ELSE DealOf(doc[e])
    BY <1>1
  <2>2. QED
    BY <2>1
<1>3. QED
  BY <1>2 DEF Deal!Becomes, Deal!Phase

(* What a row shows of its deal. *)
Shown(x) ==
    [phase |-> PhaseOf(x.status), terms |-> x.content, owner |-> x.pr, signed |-> SignedBy(x),
     made |-> IF x.status = "APPROVED" THEN {<<x.content, x.pr>>} ELSE {}]

LEMMA DealFields ==
  ASSUME NEW x \in DocState, RowInv(x)
  PROVE  /\ x.status = "NONE" => DealOf(x) = [phase |-> "none"]
         /\ x.status # "NONE" => DealOf(x) = Shown(x)
         /\ x.status \notin {"FINAL_PENDING", "RECEIVER_PENDING", "APPROVED"} => SignedBy(x) = {}
         /\ x.status = "FINAL_PENDING" => SignedBy(x) = {x.reviewed}
         /\ x.status \in {"RECEIVER_PENDING", "APPROVED"} => SignedBy(x) = {x.reviewed, x.final}
<1> DEFINE Made == {<<p.content, p.pr>> : p \in x.promotions}
<1>1. x.status # "NONE" => Made = IF x.status = "APPROVED" THEN {<<x.content, x.pr>>} ELSE {}
  <2>1. CASE x.status = "APPROVED"
    <3> DEFINE p == [content |-> x.content, pr |-> x.pr]
    <3>1. x.promotions = {p}
      BY <2>1 DEF RowInv
    <3>2. <<p.content, p.pr>> = <<x.content, x.pr>>
      OBVIOUS
    <3> HIDE DEF p
    <3>3. Made = {<<p.content, p.pr>>}
      BY <3>1
    <3>4. QED
      BY <2>1, <3>2, <3>3
  <2>2. CASE x.status # "APPROVED"
    BY <2>2 DEF RowInv
  <2>3. QED
    BY <2>1, <2>2
<1>2. x.status = "FINAL_PENDING" => x.reviewed # NoOne /\ x.final = NoOne
  BY DEF RowInv
<1>3. x.status \in {"RECEIVER_PENDING", "APPROVED"} => x.reviewed # NoOne /\ x.final # NoOne
  BY DEF RowInv
<1>4. /\ x.status \notin {"FINAL_PENDING", "RECEIVER_PENDING", "APPROVED"} => SignedBy(x) = {}
      /\ x.status = "FINAL_PENDING" => SignedBy(x) = {x.reviewed}
      /\ x.status \in {"RECEIVER_PENDING", "APPROVED"} => SignedBy(x) = {x.reviewed, x.final}
  BY <1>2, <1>3 DEF SignedBy
<1>5. QED
  BY <1>1, <1>4 DEF DealOf, Shown

(* A row that is opened. *)
LEMMA DealOpens ==
  ASSUME IInv, NEW d \in Doc, doc[d].status = "NONE", NEW u \in User, NEW fill \in Fill,
         doc' = [doc EXCEPT ![d] = Blank(u, fill)]
  PROVE  Deal!Open(d)
<1> DEFINE row == Blank(u, fill)
<1>1. doc \in [Doc -> DocState] /\ row.content \in Content
  BY BoundAssumption DEF IInv, TypeOK, Blank, Content
<1>2. DealOf(row) = Deal!Drafted(u, row.content)
  BY DEF Blank, DealOf, PhaseOf, SignedBy, OwnerEditable, Deal!Drafted
<1>3. DealOf(doc[d]).phase = "none"
  BY DEF DealOf
<1> HIDE DEF row
<1>4. Deal!Becomes(d, DealOf(row)) /\ Deal!Phase(d) = "none"
  BY <1>1, <1>3, DealTurn DEF row
<1>5. QED
  BY <1>1, <1>2, <1>4 DEF Deal!Open


(* A row that is rewritten. *)
LEMMA DealRow ==
  ASSUME IInv, NEW d \in Doc, doc[d].status # "NONE",
         NEW row \in DocState, RowInv(row), row.status # "NONE", doc' = [doc EXCEPT ![d] = row]
  PROVE  /\ Deal!Becomes(d, Shown(row)) /\ Deal!Phase(d) = PhaseOf(doc[d].status)
         /\ [e \in Doc |-> DealOf(doc[e])][d] = Shown(doc[d])
<1>1. doc \in [Doc -> DocState] /\ doc[d] \in DocState /\ RowInv(doc[d])
  BY DEF IInv, TypeOK
<1>2. DealOf(row) = Shown(row) /\ DealOf(doc[d]) = Shown(doc[d])
  BY <1>1, DealFields
<1>3. Shown(doc[d]).phase = PhaseOf(doc[d].status)
  BY DEF Shown
<1>4. QED
  BY <1>1, <1>2, <1>3, DealTurn

LEMMA EditDrafts == ASSUME IInv, NEW r \in Request, Edit(r) PROVE Deal!Draft(req[r].doc)
<1> DEFINE d == req[r].doc
           x == doc[d]
           c == [ver |-> x.content.ver + 1, fill |-> req[r].arg]
           row == [x EXCEPT !.content = c]
<1>1. /\ x \in DocState /\ d \in Doc /\ RowInv(x) /\ req[r].arg \in Fill
      /\ x.status \in OwnerEditable
  BY Landed DEF Edit, Op, Read, Lands
<1>2. c \in Content
  BY <1>1, BoundAssumption DEF Edit, DocState, Content
<1>3. /\ row \in DocState /\ row.status = x.status /\ row.content = c /\ row.pr = x.pr
      /\ row.reviewed = x.reviewed /\ row.final = x.final /\ row.promotions = x.promotions
  BY <1>1, <1>2 DEF DocState
<1>4. doc' = [doc EXCEPT ![d] = row]
  BY DEF Edit
<1> HIDE DEF row, c
<1>5. RowInv(row)
  BY <1>1, <1>3 DEF RowInv, OwnerEditable
<1>6. /\ PhaseOf(x.status) = "drafting" /\ SignedBy(x) = {} /\ SignedBy(row) = {}
      /\ x.status \notin {"NONE", "APPROVED"}
  BY <1>1, <1>3 DEF PhaseOf, SignedBy, OwnerEditable
<1>7. Shown(row) = [Shown(x) EXCEPT !.terms = c]
  BY <1>3, <1>6 DEF Shown
<1>8. /\ Deal!Becomes(d, Shown(row)) /\ Deal!Phase(d) = "drafting"
      /\ [e \in Doc |-> DealOf(doc[e])][d] = Shown(x)
  BY <1>1, <1>3, <1>4, <1>5, <1>6, DealRow
<1>9. QED
  BY <1>2, <1>7, <1>8 DEF Deal!Draft

LEMMA SubmitAsks == ASSUME IInv, NEW r \in Request, Submit(r) PROVE Deal!Ask(req[r].doc)
<1> DEFINE d == req[r].doc
           x == doc[d]
           row == [x EXCEPT !.status = "PENDING", !.shown = req[r].seen.content,
                            !.reviewed = NoOne, !.final = NoOne]
<1>1. /\ x \in DocState /\ d \in Doc /\ RowInv(x) /\ req[r].seen.content \in Content
      /\ x.status \in OwnerEditable
  BY Landed DEF Submit, Op, RequestState, Seen
<1>2. /\ row \in DocState /\ row.status = "PENDING" /\ row.content = x.content /\ row.pr = x.pr
      /\ row.reviewed = NoOne /\ row.final = NoOne /\ row.promotions = x.promotions
  BY <1>1 DEF DocState, Status, Reassignable
<1>3. doc' = [doc EXCEPT ![d] = row]
  BY DEF Submit
<1> HIDE DEF row
<1>4. RowInv(row)
  BY <1>1, <1>2 DEF RowInv, OwnerEditable
<1>5. /\ PhaseOf(x.status) = "drafting" /\ PhaseOf(row.status) = "first"
      /\ SignedBy(x) = {} /\ SignedBy(row) = {} /\ x.status \notin {"NONE", "APPROVED"}
  BY <1>1, <1>2 DEF PhaseOf, SignedBy, OwnerEditable
<1>6. Shown(row) = Deal!Turned(Shown(x), "first", {}, {})
  BY <1>2, <1>5 DEF Shown, Deal!Turned
<1>7. /\ Deal!Becomes(d, Shown(row)) /\ Deal!Phase(d) = "drafting"
      /\ [e \in Doc |-> DealOf(doc[e])][d] = Shown(x)
  BY <1>1, <1>2, <1>3, <1>4, <1>5, DealRow
<1>8. QED
  BY <1>6, <1>7 DEF Deal!Ask

LEMMA ReviewSigns ==
  ASSUME IInv, NEW r \in Request, Review(r)
  PROVE  Deal!SignFirst(req[r].doc) \/ Deal!Refuse(req[r].doc)
<1> DEFINE d == req[r].doc
           x == doc[d]
           u == req[r].actor
           s == IF req[r].arg = "approve" THEN "FINAL_PENDING" ELSE "REJECTED"
           row == [x EXCEPT !.status = s, !.reviewed = u]
<1>1. /\ x \in DocState /\ d \in Doc /\ RowInv(x) /\ u \in Manager \ Star /\ x.status = "PENDING"
  BY Landed DEF Review, Op, Read
<1>2. /\ row \in DocState /\ row.status = s /\ row.content = x.content /\ row.pr = x.pr
      /\ row.reviewed = u /\ row.final = x.final /\ row.promotions = x.promotions
  BY <1>1, UserAssumption DEF DocState, Status, Reassignable, Terminal
<1>3. doc' = [doc EXCEPT ![d] = row]
  BY DEF Review
<1> HIDE DEF row
<1>4. RowInv(row)
  BY <1>1, <1>2, UserAssumption DEF RowInv
<1>5. PhaseOf(x.status) = "first" /\ SignedBy(x) = {}
  BY <1>1 DEF PhaseOf, SignedBy, OwnerEditable
<1>6. /\ Deal!Becomes(d, Shown(row)) /\ Deal!Phase(d) = "first"
      /\ [e \in Doc |-> DealOf(doc[e])][d] = Shown(x)
  BY <1>1, <1>2, <1>3, <1>4, <1>5, DealRow
<1>7. CASE req[r].arg = "approve"
  <2>1. PhaseOf(row.status) = "second" /\ SignedBy(row) = {u} /\ row.status # "APPROVED"
    BY <1>2, <1>4, <1>7, DealFields DEF PhaseOf, OwnerEditable
  <2>2. Shown(row) = Deal!Turned(Shown(x), "second", {u}, {})
    BY <1>1, <1>2, <2>1 DEF Shown, Deal!Turned
  <2>3. QED
    BY <1>1, <1>6, <2>2 DEF Deal!SignFirst
<1>8. CASE req[r].arg # "approve"
  <2>1. PhaseOf(row.status) = "refused" /\ SignedBy(row) = {} /\ row.status # "APPROVED"
    BY <1>2, <1>8 DEF PhaseOf, SignedBy, OwnerEditable
  <2>2. Shown(row) = Deal!Turned(Shown(x), "refused", {}, {})
    BY <1>1, <1>2, <1>5, <2>1 DEF Shown, Deal!Turned
  <2>3. QED
    BY <1>6, <2>2 DEF Deal!Refuse
<1>9. QED
  BY <1>7, <1>8

LEMMA FinalReviewSigns ==
  ASSUME IInv, NEW r \in Request, FinalReview(r)
  PROVE  Deal!SignSecond(req[r].doc) \/ Deal!Return(req[r].doc)
<1> DEFINE d == req[r].doc
           x == doc[d]
           u == req[r].actor
           s == IF req[r].arg = "approve" THEN "RECEIVER_PENDING" ELSE "FINAL_RETURNED"
           row == [x EXCEPT !.status = s, !.final = u]
<1>1. /\ x \in DocState /\ d \in Doc /\ RowInv(x) /\ u \in Star /\ x.status = "FINAL_PENDING"
  BY Landed DEF FinalReview, Op, Read
<1>2. /\ row \in DocState /\ row.status = s /\ row.content = x.content /\ row.pr = x.pr
      /\ row.reviewed = x.reviewed /\ row.final = u /\ row.promotions = x.promotions
  BY <1>1, UserAssumption DEF DocState, Status, Reassignable
<1>3. doc' = [doc EXCEPT ![d] = row]
  BY DEF FinalReview
<1> HIDE DEF row
<1>4. RowInv(row)
  BY <1>1, <1>2, UserAssumption DEF RowInv
<1>5. PhaseOf(x.status) = "second" /\ SignedBy(x) = {x.reviewed}
  BY <1>1, DealFields DEF PhaseOf, OwnerEditable
<1>6. /\ Deal!Becomes(d, Shown(row)) /\ Deal!Phase(d) = "second"
      /\ [e \in Doc |-> DealOf(doc[e])][d] = Shown(x)
  BY <1>1, <1>2, <1>3, <1>4, <1>5, DealRow
<1>7. CASE req[r].arg = "approve"
  <2>1. /\ PhaseOf(row.status) = "agreed" /\ SignedBy(row) = {x.reviewed} \cup {u}
        /\ row.status # "APPROVED"
    BY <1>2, <1>4, <1>7, DealFields DEF PhaseOf, OwnerEditable
  <2>2. Shown(row) = Deal!Turned(Shown(x), "agreed", Shown(x).signed \cup {u}, {})
    BY <1>1, <1>2, <1>5, <2>1 DEF Shown, Deal!Turned
  <2>3. u \notin Shown(x).signed
    BY <1>1, <1>5 DEF Shown, RowInv
  <2>4. QED
    BY <1>1, <1>6, <2>2, <2>3 DEF Deal!SignSecond
<1>8. CASE req[r].arg # "approve"
  <2>1. PhaseOf(row.status) = "drafting" /\ SignedBy(row) = {} /\ row.status # "APPROVED"
    BY <1>2, <1>8 DEF PhaseOf, SignedBy, OwnerEditable
  <2>2. Shown(row) = Deal!Turned(Shown(x), "drafting", {}, {})
    BY <1>1, <1>2, <2>1 DEF Shown, Deal!Turned
  <2>3. QED
    BY <1>6, <2>2 DEF Deal!Return
<1>9. QED
  BY <1>7, <1>8

(* The receiver is not part of the deal. *)
LEMMA SaveStutters ==
  ASSUME IInv, NEW r \in Request, SaveReceiver(r)
  PROVE  \A e \in Doc : DealOf(doc'[e]) = DealOf(doc[e])
<1> DEFINE d == req[r].doc
           x == doc[d]
           row == [x EXCEPT !.receiver = "saved"]
<1>1. x \in DocState /\ d \in Doc /\ doc \in [Doc -> DocState]
  BY Landed DEF SaveReceiver, Op, IInv, TypeOK
<1>2. /\ row.status = x.status /\ row.content = x.content /\ row.pr = x.pr
      /\ row.reviewed = x.reviewed /\ row.final = x.final /\ row.promotions = x.promotions
  BY <1>1 DEF DocState
<1>3. doc' = [doc EXCEPT ![d] = row]
  BY DEF SaveReceiver
<1> HIDE DEF row
<1>4. DealOf(row) = DealOf(x)
  BY <1>2 DEF DealOf, SignedBy
<1>5. QED
  BY <1>1, <1>3, <1>4

LEMMA ConfirmMakes == ASSUME IInv, NEW r \in Request, ConfirmReceiver(r) PROVE Deal!Make(req[r].doc)
<1> DEFINE d == req[r].doc
           x == doc[d]
           p == [content |-> req[r].seen.content, pr |-> req[r].seen.pr]
           row == [x EXCEPT !.status = "APPROVED", !.receiver = "confirmed",
                            !.promotions = x.promotions \cup {p}]
<1>1. /\ x \in DocState /\ d \in Doc /\ RowInv(x) /\ p \in Promotion
      /\ x.status = "RECEIVER_PENDING" /\ p = [content |-> x.content, pr |-> x.pr]
  BY Landed DEF ConfirmReceiver, Op, Read, Holds, RequestState, Seen, Promotion
<1>2. /\ row \in DocState /\ row.status = "APPROVED" /\ row.content = x.content /\ row.pr = x.pr
      /\ row.reviewed = x.reviewed /\ row.final = x.final /\ row.promotions = x.promotions \cup {p}
  BY <1>1 DEF DocState, Status, Terminal
<1>3. doc' = [doc EXCEPT ![d] = row]
  BY DEF ConfirmReceiver
<1> HIDE DEF row, p
<1>4. RowInv(row)
  BY <1>1, <1>2 DEF RowInv
<1>5. /\ PhaseOf(x.status) = "agreed" /\ PhaseOf(row.status) = "made"
      /\ SignedBy(x) = {x.reviewed, x.final} /\ SignedBy(row) = {x.reviewed, x.final}
  BY <1>1, <1>2, <1>4, DealFields DEF PhaseOf, OwnerEditable
<1>6. Shown(row) = Deal!Turned(Shown(x), "made", Shown(x).signed, {<<Shown(x).terms, Shown(x).owner>>})
  BY <1>1, <1>2, <1>5 DEF Shown, Deal!Turned
<1>7. /\ Deal!Becomes(d, Shown(row)) /\ Deal!Phase(d) = "agreed"
      /\ [e \in Doc |-> DealOf(doc[e])][d] = Shown(x)
  BY <1>1, <1>2, <1>3, <1>4, <1>5, DealRow
<1>8. QED
  BY <1>6, <1>7 DEF Deal!Make

LEMMA ReassignHandsOver == ASSUME IInv, NEW r \in Request, Reassign(r) PROVE Deal!HandOver(req[r].doc)
<1> DEFINE d == req[r].doc
           x == doc[d]
           o == req[r].arg
           row == [x EXCEPT !.pr = o]
<1>1. /\ x \in DocState /\ d \in Doc /\ RowInv(x) /\ o \in User /\ x.status \in Reassignable
  BY Landed DEF Reassign, Op, Read
<1>2. /\ row \in DocState /\ row.status = x.status /\ row.content = x.content /\ row.pr = o
      /\ row.reviewed = x.reviewed /\ row.final = x.final /\ row.promotions = x.promotions
  BY <1>1 DEF DocState
<1>3. doc' = [doc EXCEPT ![d] = row]
  BY DEF Reassign
<1> HIDE DEF row
<1>4. RowInv(row)
  BY <1>1, <1>2 DEF RowInv, Reassignable
<1>5. /\ PhaseOf(x.status) \in {"drafting", "first", "second", "agreed"}
      /\ x.status \notin {"NONE", "APPROVED"}
  BY <1>1 DEF PhaseOf, Reassignable, OwnerEditable
<1>6. SignedBy(row) = SignedBy(x)
  BY <1>2 DEF SignedBy
<1>7. Shown(row) = [Shown(x) EXCEPT !.owner = o]
  BY <1>2, <1>5, <1>6 DEF Shown
<1>8. /\ Deal!Becomes(d, Shown(row)) /\ Deal!Phase(d) = PhaseOf(x.status)
      /\ [e \in Doc |-> DealOf(doc[e])][d] = Shown(x)
  BY <1>1, <1>2, <1>3, <1>4, <1>5, DealRow
<1>9. QED
  BY <1>1, <1>5, <1>7, <1>8 DEF Deal!HandOver

(* NegotiationService keeps the promise of DealContract: however stale what a
   request read, what it commits is one turn of the review, or nothing of it. *)
THEOREM ReviewIsByTurns == Spec => ImplementsDealContract
<1> DEFINE deal == [d \in Doc |-> DealOf(doc[d])]
<1>1. Init => Deal!Init
  <2>1. ASSUME Init, NEW d \in Doc PROVE doc[d].status = "NONE"
    BY <2>1 DEF Init, Blank
  <2>2. QED
    BY <2>1 DEF DealOf, Deal!Init, Deal!Unopened
<1>2. IInv /\ [Next]_vars => [Deal!Next]_deal
  <2> SUFFICES ASSUME IInv, [Next]_vars PROVE Deal!Next \/ deal' = deal
    OBVIOUS
  <2>1. CASE UNCHANGED doc
    BY <2>1
  <2>2. ASSUME NEW u \in User, NEW d \in Doc, Create(u, d) PROVE Deal!Next
    BY <2>2, DealOpens DEF Create, Deal!Next
  <2>3. ASSUME NEW u \in User, NEW d \in Doc, NEW new \in Doc, Copy(u, d, new) PROVE Deal!Next
    <3>1. doc[d].content.fill \in Fill
      BY DEF IInv, TypeOK, DocState, Content
    <3>2. QED
      BY <2>3, <3>1, DealOpens DEF Copy, Deal!Next
  <2>4. ASSUME NEW r \in Request, Write(r) PROVE Deal!Next \/ deal' = deal
    <3>1. CASE SaveReceiver(r)
      BY <3>1, SaveStutters
    <3>2. CASE ~SaveReceiver(r)
      <4>1. req[r].doc \in Doc
        BY <2>4, Landed DEF Write, Op, Edit, Submit, Review, FinalReview, SaveReceiver,
                            ConfirmReceiver, Reassign
      <4>2. QED
        BY <2>4, <3>2, <4>1, EditDrafts, SubmitAsks, ReviewSigns, FinalReviewSigns, ConfirmMakes,
           ReassignHandsOver
        DEF Write, Deal!Next
    <3>3. QED
      BY <3>1, <3>2
  <2>5. ASSUME NEW r \in Request, Refuse(r) PROVE UNCHANGED doc
    BY <2>5 DEF Refuse
  <2>6. ASSUME NEW r \in Request, NEW u \in User, NEW d \in Doc, Begin(r, u, d) PROVE UNCHANGED doc
    BY <2>6 DEF Begin, BeginEdit, BeginSubmit, BeginReview, BeginFinal, BeginReceiver,
                BeginReassign, Opens
  <2>7. QED
    BY <2>1, <2>2, <2>3, <2>4, <2>5, <2>6 DEF Next, vars
<1>3. QED
  BY <1>1, <1>2, Invariant, PTL DEF Spec, ImplementsDealContract, Deal!Spec

-----------------------------------------------------------------------------
(* Bulk creation: the inductive invariant *)

(* A request at its row: who is to commit a row has its key, and nobody else has
   created it; who is to answer from a negotiation finds one; who is to create
   one was allowed to at some time of this turn. *)
TurnInv(q) ==
    /\ bulk[q].pc \notin {"idle", "answer"} => bulk[q].items # <<>>
    /\ bulk[q].pc = "commit" => keyX[Row(q)] = q /\ nego[Row(q)] = <<>>
    /\ bulk[q].pc = "replay" => nego[Row(q)] # <<>>
    /\ bulk[q].pc \in {"insert", "commit"} => had[q]

BulkIInv == BulkTypeOK /\ (\A q \in Req : TurnInv(q)) /\ RowIsCreatedOnce

(* A sequence of one element. *)
LEMMA SingleElement ==
    ASSUME NEW S, NEW s \in Seq(S), s # <<>>, Len(s) <= 1
    PROVE  s = <<Head(s)>>
<1>1. Len(s) = 1
  <2>1. Len(s) \in Nat /\ Len(s) # 0
    BY EmptySeq
  <2>2. QED BY <2>1
<1>2. Head(s) \in S /\ s[1] = Head(s)
  BY <1>1
<1> DEFINE h == <<Head(s)>>
<1>3. h \in Seq(S) /\ Len(h) = 1 /\ h[1] = Head(s)
  BY <1>2
<1> HIDE DEF h
<1>4. \A i \in 1 .. Len(s) : s[i] = h[i]
  BY <1>2, <1>3
<1>5. s = h
  BY <1>3, <1>4, SeqEqual
<1>6. QED
  BY <1>5 DEF h

LEMMA BulkInitInv == BulkInit => BulkIInv
<1> SUFFICES ASSUME BulkInit PROVE BulkIInv
  OBVIOUS
<1>1. NoReq \in BulkState /\ NoReq.results = {} /\ NoReq.pc = "idle"
  BY DEF NoReq, BulkState
<1>2. BulkTypeOK
  <2>1. /\ enabled \in BOOLEAN /\ claimed \subseteq Rows /\ taken \subseteq Rows /\ lost \in Nat
        /\ bulk \in [Req -> BulkState] /\ keyX \in [Rows -> Req \cup {NoHolder}]
    BY <1>1 DEF BulkInit
  <2>2. nego \in [Rows -> Seq(Bodies)]
    BY EmptySeq DEF BulkInit
  <2>3. had \in [Req -> BOOLEAN]
    BY DEF BulkInit
  <2>4. QED
    BY <2>1, <2>2, <2>3 DEF BulkTypeOK
<1>3. \A q \in Req : TurnInv(q)
  BY <1>1 DEF BulkInit, TurnInv
<1>4. RowIsCreatedOnce
  BY <1>1 DEF BulkInit, RowIsCreatedOnce
<1>5. QED
  BY <1>2, <1>3, <1>4 DEF BulkIInv

(* The row at hand. *)
LEMMA RowAtHand ==
    ASSUME BulkTypeOK, NEW q \in Req, bulk[q].items # <<>>
    PROVE  /\ Row(q) \in Rows /\ Body(q) \in Bodies
           /\ Head(bulk[q].items) = <<Row(q), Body(q)>>
           /\ Head(bulk[q].items) \in KeyedRow
           /\ Tail(bulk[q].items) \in Seq(KeyedRow)
           /\ Len(bulk[q].items) > 1 => Tail(bulk[q].items) # <<>>
<1>1. bulk[q].items \in Seq(KeyedRow)
  BY DEF BulkTypeOK, BulkState
<1>2. /\ Head(bulk[q].items) \in KeyedRow /\ Tail(bulk[q].items) \in Seq(KeyedRow)
      /\ Len(Tail(bulk[q].items)) = Len(bulk[q].items) - 1
  BY <1>1, HeadTailProperties
<1>3. Len(bulk[q].items) > 1 => Tail(bulk[q].items) # <<>>
  BY <1>1, <1>2, EmptySeq, LenProperties
<1>4. Row(q) \in Rows /\ Body(q) \in Bodies /\ Head(bulk[q].items) = <<Row(q), Body(q)>>
  BY <1>2 DEF Row, Body, KeyedRow
<1>5. QED
  BY <1>2, <1>3, <1>4

(* What a request has to answer fits the negotiations. *)
AnswersInv(q) == \A r \in Rows, x \in Bodies :
    /\ <<<<r, x>>, "success">> \in bulk[q].results => nego[r] = <<x>>
    /\ <<<<r, x>>, "conflict">> \in bulk[q].results => nego[r] # <<>> /\ nego[r] # <<x>>

(* A request that does not move, while others create what they have the key of. *)
LEMMA Bystander ==
    ASSUME BulkIInv, NEW p \in Req, bulk'[p] = bulk[p], Track,
           \A r \in Rows : nego'[r] # nego[r] => nego[r] = <<>> /\ nego'[r] # <<>> /\ keyX[r] # p,
           \A r \in Rows : keyX[r] = p => keyX'[r] = p
    PROVE  TurnInv(p)' /\ AnswersInv(p)'
<1>1. BulkTypeOK /\ TurnInv(p) /\ RowIsCreatedOnce
  BY DEF BulkIInv
<1>2. had[p] => had'[p]
  BY DEF Track, SameRow
<1>3. bulk[p].items # <<>> => Row(p) \in Rows /\ Row(p)' = Row(p)
  BY <1>1, RowAtHand DEF Row
<1>4. QED
  BY <1>1, <1>2, <1>3 DEF TurnInv, AnswersInv, RowIsCreatedOnce

(* A request that moves on its own, without creating anything. *)
LEMMA OwnStep ==
    ASSUME BulkIInv, NEW q \in Req, bulk' \in [Req -> BulkState],
           \A p \in Req \ {q} : bulk'[p] = bulk[p],
           UNCHANGED <<gate, world>>, lost' \in Nat, Track,
           keyX' \in [Rows -> Req \cup {NoHolder}],
           \A p \in Req \ {q}, r \in Rows : keyX[r] = p => keyX'[r] = p,
           TurnInv(q)', AnswersInv(q)'
    PROVE  BulkIInv'
<1>1. BulkTypeOK'
  BY DEF BulkIInv, BulkTypeOK, Track, gate, world
<1>2. nego' = nego
  BY DEF world
<1>3. \A p \in Req : TurnInv(p)' /\ AnswersInv(p)'
  BY <1>2, Bystander
<1>4. RowIsCreatedOnce'
  BY <1>2, <1>3 DEF BulkIInv, RowIsCreatedOnce, AnswersInv
<1>5. QED
  BY <1>1, <1>3, <1>4 DEF BulkIInv

-----------------------------------------------------------------------------
(* Bulk creation: the steps *)

(* Claims come and go, and negotiations are given to other PRs. *)
LEMMA AroundSteps ==
    ASSUME BulkIInv, Track, UNCHANGED <<nego, bulk, keyX, lost>>,
           \/ (EnableClaims \/ \E r \in Rows : Claim(r) \/ RevokeClaim(r)) /\ UNCHANGED taken
           \/ \E r \in Rows : ReassignRow(r)
    PROVE  BulkIInv'
<1>1. BulkTypeOK /\ RowIsCreatedOnce
  BY DEF BulkIInv
<1>2. enabled' \in BOOLEAN /\ claimed' \subseteq Rows /\ taken' \subseteq Rows
  BY <1>1 DEF EnableClaims, Claim, RevokeClaim, ReassignRow, gate, BulkTypeOK
<1>3. had' \in [Req -> BOOLEAN]
  BY <1>1 DEF Track, BulkTypeOK
<1>4. BulkTypeOK'
  BY <1>1, <1>2, <1>3 DEF BulkTypeOK
<1>5. \A p \in Req : TurnInv(p)'
  BY Bystander
<1>6. RowIsCreatedOnce'
  BY <1>1 DEF RowIsCreatedOnce
<1>7. QED
  BY <1>4, <1>5, <1>6 DEF BulkIInv

LEMMA SendStep ==
    ASSUME BulkIInv, NEW q \in Req, Send(q), Track
    PROVE  BulkIInv'
<1>1. PICK n \in 1 .. MaxBulk : \E items \in [1 .. n -> KeyedRow] :
         bulk' = [bulk EXCEPT ![q] = [items |-> items, results |-> {}, pc |-> "look"]]
  BY DEF Send
<1>2. PICK items \in [1 .. n -> KeyedRow] :
         bulk' = [bulk EXCEPT ![q] = [items |-> items, results |-> {}, pc |-> "look"]]
  BY <1>1
<1>3. items \in Seq(KeyedRow) /\ items # <<>>
  <2>1. n \in Nat /\ n > 0
    BY BulkBounds
  <2>2. items \in Seq(KeyedRow)
    BY <2>1, SeqDef
  <2>3. QED
    BY <2>1, <2>2, EmptySeq, LenProperties
<1>4. UNCHANGED <<gate, world, keyX, lost>> /\ BulkTypeOK
  BY DEF Send, BulkIInv
<1>5. bulk' \in [Req -> BulkState] /\ \A p \in Req \ {q} : bulk'[p] = bulk[p]
  BY <1>2, <1>3, <1>4 DEF BulkTypeOK, BulkState
<1>6. bulk'[q] = [items |-> items, results |-> {}, pc |-> "look"]
  BY <1>2, <1>4 DEF BulkTypeOK
<1>7. TurnInv(q)' /\ AnswersInv(q)'
  BY <1>3, <1>6 DEF TurnInv, AnswersInv
<1>8. QED
  BY <1>4, <1>5, <1>7, OwnStep DEF BulkTypeOK

(* A request that goes on to another point of its turn. *)
LEMMA GoStep ==
    ASSUME BulkIInv, NEW q \in Req, NEW pc \in {"look", "allow", "insert", "commit", "replay"},
           Go(q, pc), bulk[q].items # <<>>, UNCHANGED <<gate, world, lost>>, Track,
           TurnInv(q)', keyX' \in [Rows -> Req \cup {NoHolder}],
           \A p \in Req \ {q}, r \in Rows : keyX[r] = p => keyX'[r] = p
    PROVE  BulkIInv'
<1>1. BulkTypeOK /\ RowIsCreatedOnce
  BY DEF BulkIInv
<1>2. bulk' \in [Req -> BulkState] /\ \A p \in Req \ {q} : bulk'[p] = bulk[p]
  <2>1. bulk[q] \in BulkState
    BY <1>1 DEF BulkTypeOK
  <2>2. [bulk[q] EXCEPT !.pc = pc] \in BulkState
    BY <2>1 DEF BulkState
  <2>3. QED
    BY <1>1, <2>2 DEF Go, BulkTypeOK
<1>3. bulk'[q].results = bulk[q].results
  BY <1>1 DEF Go, BulkTypeOK, BulkState
<1>4. AnswersInv(q)'
  BY <1>1, <1>3 DEF AnswersInv, RowIsCreatedOnce, world
<1>5. lost' \in Nat
  BY <1>1 DEF BulkTypeOK
<1>6. QED
  BY <1>2, <1>4, <1>5, OwnStep

(* A request that has a result for its row. *)
LEMMA ResultStep ==
    ASSUME BulkIInv, NEW q \in Req, bulk[q].items # <<>>, NEW a \in Results, Result(q, a),
           UNCHANGED <<gate, world, keyX, lost>>, Track,
           a = "success" => nego[Row(q)] = <<Body(q)>>,
           a = "conflict" => nego[Row(q)] # <<>> /\ nego[Row(q)] # <<Body(q)>>
    PROVE  BulkIInv'
<1>1. BulkTypeOK /\ RowIsCreatedOnce
  BY DEF BulkIInv
<1> DEFINE s == [items |-> Tail(bulk[q].items),
                 results |-> bulk[q].results \cup {<<Head(bulk[q].items), a>>},
                 pc |-> IF Len(bulk[q].items) > 1 THEN "look" ELSE "answer"]
<1>2. bulk' = [bulk EXCEPT ![q] = s] /\ bulk'[q] = s
  BY <1>1 DEF Result, BulkTypeOK
<1>3. s \in BulkState
  BY <1>1, RowAtHand DEF BulkTypeOK, BulkState
<1>4. TurnInv(q)'
  BY <1>1, <1>2, RowAtHand DEF TurnInv
<1>5. AnswersInv(q)'
  <2> SUFFICES ASSUME NEW r \in Rows, NEW x \in Bodies, NEW o \in Results,
                      <<<<r, x>>, o>> \in s.results
               PROVE  /\ o = "success" => nego[r] = <<x>>
                      /\ o = "conflict" => nego[r] # <<>> /\ nego[r] # <<x>>
    BY <1>2 DEF AnswersInv, world, Results
  <2>1. CASE <<<<r, x>>, o>> \in bulk[q].results
    BY <1>1, <2>1 DEF RowIsCreatedOnce
  <2>2. CASE <<<<r, x>>, o>> = <<Head(bulk[q].items), a>>
    <3>1. Head(bulk[q].items) = <<Row(q), Body(q)>>
      BY <1>1, RowAtHand
    <3>2. r = Row(q) /\ x = Body(q) /\ o = a
      BY <2>2, <3>1
    <3>3. QED BY <3>2
  <2>3. QED BY <2>1, <2>2
<1>6. bulk' \in [Req -> BulkState] /\ keyX' \in [Rows -> Req \cup {NoHolder}] /\ lost' \in Nat
  BY <1>1, <1>2, <1>3 DEF BulkTypeOK
<1>7. QED
  BY <1>1, <1>2, <1>4, <1>5, <1>6, OwnStep DEF BulkTypeOK

(* A request that goes on stays at its row, and keeps its permission. *)
LEMMA SameTurn ==
    ASSUME BulkIInv, NEW q \in Req, NEW pc, Go(q, pc), Track
    PROVE  /\ bulk'[q].pc = pc /\ bulk'[q].items = bulk[q].items
           /\ Row(q)' = Row(q) /\ Body(q)' = Body(q)
           /\ had[q] => had'[q]
<1>1. bulk'[q].pc = pc /\ bulk'[q].items = bulk[q].items
  BY DEF BulkIInv, BulkTypeOK, BulkState, Go
<1>2. QED
  BY <1>1 DEF Row, Body, Track, SameRow

LEMMA LookAllowInsertSteps ==
    ASSUME BulkIInv, NEW q \in Req, Look(q) \/ Allow(q) \/ Insert(q), Track
    PROVE  BulkIInv'
<1>1. BulkTypeOK /\ TurnInv(q) /\ bulk[q].items # <<>>
  BY DEF BulkIInv, TurnInv, Look, Allow, Insert
<1>2. keyX \in [Rows -> Req \cup {NoHolder}] /\ Row(q) \in Rows
  BY <1>1, RowAtHand DEF BulkTypeOK
<1>3. CASE Look(q)
  <2>1. ASSUME NEW pc \in {"allow", "replay"}, Go(q, pc), nego[Row(q)] = <<>> <=> pc = "allow"
        PROVE  BulkIInv'
    <3>1. TurnInv(q)'
      BY <1>1, <1>3, <2>1, SameTurn DEF TurnInv, Look, world
    <3>2. QED
      BY <1>1, <1>2, <1>3, <2>1, <3>1, GoStep DEF Look
  <2>2. QED
    BY <1>3, <2>1 DEF Look
<1>4. CASE Allow(q)
  <2>1. CASE Allowed(Row(q)) /\ Go(q, "insert")
    <3>1. had'[q]
      BY <1>1, <1>4, <2>1, SameTurn DEF Allow, Track, MayCreate, Allowed, gate
    <3>2. TurnInv(q)'
      BY <1>1, <2>1, <3>1, SameTurn DEF TurnInv
    <3>3. QED
      BY <1>1, <1>2, <1>4, <2>1, <3>2, GoStep DEF Allow
  <2>2. CASE Result(q, "refused")
    BY <1>1, <1>4, <2>2, ResultStep DEF Allow, Results
  <2>3. QED
    BY <1>4, <2>1, <2>2 DEF Allow
<1>5. CASE Insert(q)
  <2>1. CASE nego[Row(q)] = <<>> /\ keyX' = [keyX EXCEPT ![Row(q)] = q] /\ Go(q, "commit")
    <3>1. TurnInv(q)'
      BY <1>1, <1>2, <1>5, <2>1, SameTurn DEF TurnInv, Insert, world
    <3>2. /\ keyX' \in [Rows -> Req \cup {NoHolder}]
          /\ \A p \in Req \ {q}, r \in Rows : keyX[r] = p => keyX'[r] = p
      BY <1>2, <1>5, <2>1, KeyAssumption DEF Insert
    <3>3. QED
      BY <1>1, <1>5, <2>1, <3>1, <3>2, GoStep DEF Insert
  <2>2. CASE nego[Row(q)] # <<>> /\ Go(q, "replay") /\ UNCHANGED keyX
    <3>1. TurnInv(q)'
      BY <1>1, <1>5, <2>2, SameTurn DEF TurnInv, Insert, world
    <3>2. QED
      BY <1>1, <1>2, <1>5, <2>2, <3>1, GoStep DEF Insert
  <2>3. QED
    BY <1>5, <2>1, <2>2 DEF Insert
<1>6. QED
  BY <1>3, <1>4, <1>5

(* The holder of a key is the only one to create its row. *)
LEMMA CommitRowStep ==
    ASSUME BulkIInv, NEW q \in Req, CommitRow(q), Track
    PROVE  BulkIInv'
<1>1. /\ BulkTypeOK /\ RowIsCreatedOnce /\ bulk[q].items # <<>>
      /\ keyX[Row(q)] = q /\ nego[Row(q)] = <<>>
  BY DEF BulkIInv, TurnInv, CommitRow
<1>2. Row(q) \in Rows /\ Body(q) \in Bodies
  BY <1>1, RowAtHand
<1>3. Append(nego[Row(q)], Body(q)) = <<Body(q)>> /\ <<Body(q)>> \in Seq(Bodies)
  BY <1>1, <1>2
<1>4. nego' = [nego EXCEPT ![Row(q)] = <<Body(q)>>]
  BY <1>3 DEF CommitRow
<1>5. /\ \A r \in Rows : nego'[r] # nego[r] => r = Row(q)
      /\ nego'[Row(q)] = <<Body(q)>> /\ nego' \in [Rows -> Seq(Bodies)]
  BY <1>1, <1>2, <1>3, <1>4 DEF BulkTypeOK
<1>6. \A x : <<x>> # <<>> /\ Len(<<x>>) = 1
  OBVIOUS
<1>7. /\ keyX' \in [Rows -> Req \cup {NoHolder}]
      /\ \A p \in Req \ {q}, r \in Rows : keyX[r] = p => keyX'[r] = p
  BY <1>1 DEF CommitRow, FreeKey, BulkTypeOK
<1>8. bulk' \in [Req -> BulkState] /\ \A p \in Req \ {q} : bulk'[p] = bulk[p]
  <2>1. bulk[q] \in BulkState
    BY <1>1 DEF BulkTypeOK
  <2>2. [bulk[q] EXCEPT !.pc = "replay"] \in BulkState
    BY <2>1 DEF BulkState
  <2>3. QED
    BY <1>1, <2>2 DEF CommitRow, Go, BulkTypeOK
<1>9. ASSUME NEW p \in Req PROVE TurnInv(p)' /\ AnswersInv(p)'
  <2>1. CASE p # q
    BY <1>1, <1>5, <1>6, <1>7, <1>8, <2>1, Bystander
  <2>2. CASE p = q
    <3>1. Go(q, "replay")
      BY DEF CommitRow
    <3>2. TurnInv(q)'
      <4>1. bulk'[q].pc = "replay" /\ bulk'[q].items # <<>> /\ Row(q)' = Row(q)
        BY <1>1, <3>1, SameTurn
      <4>2. nego'[Row(q)'] # <<>>
        BY <1>5, <1>6, <4>1
      <4>3. QED
        BY <4>1, <4>2 DEF TurnInv
    <3>3. bulk'[q].results = bulk[q].results
      BY <1>1, <3>1 DEF Go, BulkTypeOK, BulkState
    <3>4. AnswersInv(q)'
      <4> SUFFICES ASSUME NEW r \in Rows, NEW x \in Bodies
                   PROVE  /\ <<<<r, x>>, "success">> \in bulk[q].results => nego'[r] = <<x>>
                          /\ <<<<r, x>>, "conflict">> \in bulk[q].results
                               => nego'[r] # <<>> /\ nego'[r] # <<x>>
        BY <3>3 DEF AnswersInv
      <4>1. CASE r = Row(q)
        <5>1. nego[r] # <<x>> /\ nego[r] = <<>>
          BY <1>1, <1>6, <4>1
        <5>2. QED
          BY <1>1, <5>1 DEF RowIsCreatedOnce
      <4>2. CASE r # Row(q)
        <5>1. nego'[r] = nego[r]
          BY <1>5, <4>2
        <5>2. QED
          BY <1>1, <5>1 DEF RowIsCreatedOnce
      <4>3. QED BY <4>1, <4>2
    <3>5. QED BY <2>2, <3>2, <3>4
  <2>3. QED BY <2>1, <2>2
<1>10. BulkTypeOK'
  BY <1>1, <1>5, <1>7, <1>8 DEF CommitRow, gate, Track, BulkTypeOK
<1>11. RowIsCreatedOnce'
  <2>1. \A r \in Rows : Len(nego'[r]) <= 1
    <3> SUFFICES ASSUME NEW r \in Rows PROVE Len(nego'[r]) <= 1
      OBVIOUS
    <3>1. CASE nego'[r] = nego[r]
      BY <1>1, <3>1 DEF RowIsCreatedOnce
    <3>2. CASE nego'[r] = <<Body(q)>>
      <4>1. Len(nego'[r]) = 1
        BY <1>6, <3>2
      <4>2. QED BY <4>1
    <3>3. QED BY <1>5, <3>1, <3>2
  <2>2. QED
    BY <1>9, <2>1 DEF RowIsCreatedOnce, AnswersInv
<1>12. QED
  BY <1>9, <1>10, <1>11 DEF BulkIInv

LEMMA ReplayStep ==
    ASSUME BulkIInv, NEW q \in Req, Replay(q), Track
    PROVE  BulkIInv'
<1>1. /\ BulkTypeOK /\ RowIsCreatedOnce /\ bulk[q].items # <<>> /\ nego[Row(q)] # <<>>
  BY DEF BulkIInv, TurnInv, Replay
<1>2. Row(q) \in Rows
  BY <1>1, RowAtHand
<1>3. nego[Row(q)] = <<Head(nego[Row(q)])>>
  <2>1. nego[Row(q)] \in Seq(Bodies) /\ Len(nego[Row(q)]) <= 1
    BY <1>1, <1>2 DEF BulkTypeOK, RowIsCreatedOnce
  <2>2. QED
    BY <1>1, <2>1, SingleElement
<1>4. ASSUME NEW a \in {"skipped", "success", "conflict"}, Result(q, a),
             a = "success" => Head(nego[Row(q)]) = Body(q),
             a = "conflict" => Head(nego[Row(q)]) # Body(q)
      PROVE  BulkIInv'
  <2>1. a = "conflict" => nego[Row(q)] # <<Body(q)>>
    BY <1>3, <1>4
  <2>2. a = "success" => nego[Row(q)] = <<Body(q)>>
    BY <1>3, <1>4
  <2>3. QED
    BY <1>1, <1>4, <2>1, <2>2, ResultStep DEF Replay, Results
<1>5. QED
  BY <1>4 DEF Replay

(* A request ends: it answers, or it is lost. *)
LEMMA EndSteps ==
    ASSUME BulkIInv, NEW q \in Req, Answer(q) \/ Lose(q), Track
    PROVE  BulkIInv'
<1>1. BulkTypeOK /\ bulk' = [bulk EXCEPT ![q] = NoReq] /\ UNCHANGED <<gate, world>>
  BY DEF BulkIInv, Answer, Lose
<1>2. NoReq \in BulkState /\ NoReq.pc = "idle" /\ NoReq.results = {}
  BY EmptySeq DEF NoReq, BulkState
<1>3. bulk' \in [Req -> BulkState] /\ bulk'[q] = NoReq
      /\ \A p \in Req \ {q} : bulk'[p] = bulk[p]
  BY <1>1, <1>2 DEF BulkTypeOK
<1>4. lost' \in Nat
  BY <1>1 DEF Answer, Lose, BulkTypeOK
<1>5. /\ keyX' \in [Rows -> Req \cup {NoHolder}]
      /\ \A p \in Req \ {q}, r \in Rows : keyX[r] = p => keyX'[r] = p
  BY <1>1 DEF Answer, Lose, FreeKey, BulkTypeOK
<1>6. TurnInv(q)' /\ AnswersInv(q)'
  BY <1>2, <1>3 DEF TurnInv, AnswersInv
<1>7. QED
  BY <1>1, <1>3, <1>4, <1>5, <1>6, OwnStep

LEMMA BulkNextInv == BulkIInv /\ [BulkNext]_bulkVars => BulkIInv'
<1> SUFFICES ASSUME BulkIInv, [BulkNext]_bulkVars PROVE BulkIInv'
  OBVIOUS
<1>1. CASE UNCHANGED bulkVars
  BY <1>1 DEF bulkVars, BulkIInv, BulkTypeOK, TurnInv, Row, RowIsCreatedOnce
<1>2. CASE BulkNext
  <2>1. Track
    BY <1>2 DEF BulkNext
  <2>2. CASE \/ (EnableClaims \/ \E r \in Rows : Claim(r) \/ RevokeClaim(r))
                /\ UNCHANGED <<world, bulk, keyX, lost>>
             \/ \E r \in Rows : ReassignRow(r)
    BY <2>1, <2>2, AroundSteps DEF ReassignRow, world
  <2>3. CASE \E q \in Req : Send(q) \/ Step(q) \/ Lose(q)
    BY <2>1, <2>3, SendStep, LookAllowInsertSteps, CommitRowStep, ReplayStep, EndSteps DEF Step
  <2>4. QED
    BY <1>2, <2>2, <2>3 DEF BulkNext
<1>3. QED
  BY <1>1, <1>2

THEOREM BulkInvariant == BulkSpec => []BulkIInv
BY BulkInitInv, BulkNextInv, PTL DEF BulkSpec

-----------------------------------------------------------------------------
(* Bulk creation: the properties *)

(* Keys, negotiations and requests keep their types, for any rows, bodies and
   number of requests, however many are lost. *)
THEOREM BulkTypeCorrect == BulkSpec => []BulkTypeOK
BY BulkInvariant, PTL DEF BulkIInv

(* _create, _replay and the unique index on the key: a row that is sent again, by
   any number of requests side by side, is one negotiation, and every answer
   about it is true. *)
THEOREM EachRowIsCreatedOnce == BulkSpec => []RowIsCreatedOnce
BY BulkInvariant, PTL DEF BulkIInv

(* ensure_new_cooperation_allowed: nothing is created for a row that was not
   allowed at any time of its turn. *)
THEOREM ClaimWasThere == BulkSpec => CooperationHadClaim
<1> DEFINE Backed(r) == nego'[r] # nego[r] =>
                          \E q \in Req : bulk[q].pc = "commit" /\ Row(q) = r /\ had[q]
<1>1. BulkIInv /\ [BulkNext]_bulkVars => [\A r \in Rows : Backed(r)]_bulkVars
  <2> SUFFICES ASSUME BulkIInv, [BulkNext]_bulkVars, NEW r \in Rows PROVE Backed(r)
    OBVIOUS
  <2>1. CASE UNCHANGED nego
    BY <2>1
  <2>2. ASSUME NEW q \in Req, CommitRow(q) PROVE Backed(r)
    BY <2>2 DEF BulkIInv, BulkTypeOK, TurnInv, CommitRow
  <2>3. QED
    BY <2>1, <2>2
    DEF BulkNext, Step, world, bulkVars, ReassignRow, Send, Lose, Look, Allow, Insert, Replay, Answer
<1>2. QED
  BY BulkInvariant, <1>1, PTL DEF BulkSpec, CooperationHadClaim

-----------------------------------------------------------------------------
(* Claims: the inductive invariant *)

(* The claim a transfer takes, and the one it gives. *)
Giver(x) == Head(x.todo)
Receiver(x) == <<Giver(x)[1], x.to>>

(* A transaction is about bloggers that are known. *)
Shape(x, K) ==
    /\ x.pc # "idle" => /\ x.op # "none" /\ x.work \in Wechats
                        /\ x.todo # <<>> /\ x.todo \in Seq(K \X PRs)
    /\ x.op # "transfer" => x.pc \notin {"switch", "revoke"}
    /\ x.op = "transfer" /\ x.pc # "idle" => x.to \in PRs /\ x.to # Giver(x)[2]
    /\ DOMAIN x.w \subseteq K \X PRs /\ (x.pc = "idle" => DOMAIN x.w = {})
    /\ x.added \subseteq DOMAIN x.w /\ x.removed \subseteq DOMAIN x.w
    /\ x.pc # "commit" => x.removed = {}

(* What it has written it has audited, as long as the claims C stay as it found
   them: what it added is not there for others, what it changed it holds. *)
Logged(x, t, C, R) ==
    \A p \in DOMAIN x.w :
      /\ x.w[p] = "absent" <=> p \in x.removed
      /\ p \in x.added => C[p] = "absent"
      /\ p \notin x.added => C[p] # "absent" /\ R[p] = t

(* What it holds is there, or its own; a transfer holds the claim it takes until
   it has revoked it, and the one it gives from the switch on. *)
Held(x, t, C, R) ==
    /\ \A p \in Pairs : R[p] = t => C[p] # "absent" \/ p \in x.added
    /\ x.op = "transfer" /\ x.pc \in {"add", "key", "switch", "revoke"} =>
         R[Giver(x)] = t /\ C[Giver(x)] # "absent" /\ Giver(x) \notin DOMAIN x.w
    /\ x.op = "transfer" /\ x.pc \in {"revoke", "commit"} =>
         /\ R[Receiver(x)] = t
         /\ (IF Receiver(x) \in DOMAIN x.w THEN x.w[Receiver(x)] ELSE C[Receiver(x)]) = x.work
    /\ x.op = "transfer" /\ x.pc = "commit" =>
         Giver(x) \in DOMAIN x.w /\ x.w[Giver(x)] = "absent"

Sound(x, t, K, C, R) == Shape(x, K) /\ Logged(x, t, C, R) /\ Held(x, t, C, R)

(* No claim is written by two. *)
OneWriter == \A t, u \in Tx : t # u => DOMAIN tx[t].w \cap DOMAIN tx[u].w = {}

ClaimsIInv ==
    /\ ClaimsTypeOK
    /\ \A p \in Pairs : claims[p] # "absent" => p[1] \in known
    /\ \A t \in Tx : Sound(tx[t], t, known, claims, rowX)
    /\ OneWriter
    /\ AuditMatchesClaims

(* A transaction that starts has written nothing. *)
LEMMA StartedType ==
  ASSUME NEW op \in {"none", "assign", "self", "transfer"},
         NEW pc \in {"idle", "lock", "add", "key", "switch", "revoke", "commit"},
         NEW todo \in Seq(Pairs), NEW to \in PRs \cup {Nobody}, NEW work \in Values
  PROVE  LET x == Started(op, pc, todo, to, work) IN
         /\ x \in TxState
         /\ x.op = op /\ x.pc = pc /\ x.todo = todo /\ x.to = to /\ x.work = work
         /\ DOMAIN x.w = {} /\ x.added = {} /\ x.removed = {}
<1> DEFINE Writes == UNION {[S -> Values] : S \in SUBSET Pairs}
<1>1. DOMAIN <<>> = {}
  OBVIOUS
<1>2. <<>> \in [{} -> Values]
  OBVIOUS
<1>3. <<>> \in Writes
  BY <1>2
<1> HIDE DEF Writes
<1>4. Started(op, pc, todo, to, work) \in
        [op : {"none", "assign", "self", "transfer"},
         pc : {"idle", "lock", "add", "key", "switch", "revoke", "commit"},
         todo : Seq(Pairs), to : PRs \cup {Nobody}, work : Values,
         w : Writes, added : SUBSET Pairs, removed : SUBSET Pairs]
  BY <1>3 DEF Started
<1>5. QED
  BY <1>1, <1>4 DEF Started, TxState, Writes

LEMMA NoTxType ==
    /\ NoTx \in TxState /\ NoTx.pc = "idle" /\ NoTx.op = "none" /\ DOMAIN NoTx.w = {}
    /\ NoTx.added = {} /\ NoTx.removed = {}
<1>1. /\ <<>> \in Seq(Pairs) /\ "absent" \in Values
  BY EmptySeq DEF Values
<1>2. ASSUME NEW op \in {"none"}, NEW pc \in {"idle"}, NEW todo \in Seq(Pairs),
             NEW to \in {Nobody}, NEW work \in Values
      PROVE  Started(op, pc, todo, to, work) \in TxState 
  BY StartedType
<1>3. NoTx \in TxState
  BY <1>1, <1>2 DEF NoTx
<1>4. DOMAIN <<>> = {}
  OBVIOUS
<1>5. QED
  BY <1>3, <1>4 DEF NoTx, Started

LEMMA ClaimsInitInv == ClaimsInit => ClaimsIInv
<1> SUFFICES ASSUME ClaimsInit PROVE ClaimsIInv
  OBVIOUS
<1>1. ClaimsTypeOK
  <2>1. tx \in [Tx -> TxState]
    BY NoTxType DEF ClaimsInit
  <2>2. QED
    BY <2>1 DEF ClaimsInit, ClaimsTypeOK, Values
<1>2. \A t \in Tx : Sound(tx[t], t, known, claims, rowX)
  BY NoTxType, TxAssumption DEF ClaimsInit, Sound, Shape, Logged, Held
<1>3. OneWriter
  BY NoTxType DEF ClaimsInit, OneWriter
<1>4. QED
  BY <1>1, <1>2, <1>3 DEF ClaimsIInv, ClaimsInit, AuditMatchesClaims

(* What is sound stays so while the claims it holds and those it has added stay
   as they are. *)
LEMMA Stands ==
  ASSUME NEW x \in TxState, NEW t \in Tx, NEW K, NEW K2, NEW C, NEW C2, NEW R, NEW R2,
         Sound(x, t, K, C, R), K \subseteq K2, K2 \subseteq Bloggers,
         \A p \in Pairs : R2[p] = t <=> R[p] = t,
         \A p \in Pairs : R[p] = t => C2[p] = C[p],
         \A p \in x.added : C2[p] = C[p]
  PROVE  Sound(x, t, K2, C2, R2)
<1>1. x.w \in UNION {[S -> Values] : S \in SUBSET Pairs} /\ x.todo \in Seq(Pairs)
  BY DEF TxState
<1>2. DOMAIN x.w \subseteq Pairs
  BY <1>1
<1>3. Shape(x, K2)
  BY DEF Sound, Shape
<1>4. Logged(x, t, C2, R2)
  BY <1>2 DEF Sound, Logged
<1>5. ASSUME x.op = "transfer", x.pc # "idle" PROVE Giver(x) \in Pairs /\ Receiver(x) \in Pairs
  BY <1>1, <1>5 DEF Sound, Shape, Giver, Receiver, Pairs
<1>6. Held(x, t, C2, R2)
  BY <1>5 DEF Sound, Held
<1>7. QED
  BY <1>3, <1>4, <1>6 DEF Sound

(* A transaction that moves on its own: it may lock what is free and free what
   it holds, and writes nothing another has written. *)
LEMMA OwnTxStep ==
  ASSUME NEW t \in Tx, NEW x \in TxState, ClaimsIInv, UNCHANGED data,
         tx' = [tx EXCEPT ![t] = x],
         rowX' \in [Pairs -> Tx \cup {Nobody}],
         blogX' \in [Bloggers -> Tx \cup {Nobody}], blogS' \in [Bloggers -> SUBSET Tx],
         \A p \in Pairs : \A u \in Tx \ {t} : rowX'[p] = u <=> rowX[p] = u,
         Sound(x, t, known, claims, rowX'),
         \A u \in Tx \ {t} : DOMAIN x.w \cap DOMAIN tx[u].w = {}
  PROVE  ClaimsIInv'
<1>1. /\ tx \in [Tx -> TxState] /\ tx' \in [Tx -> TxState] /\ tx'[t] = x
      /\ \A u \in Tx \ {t} : tx'[u] = tx[u]
  BY DEF ClaimsIInv, ClaimsTypeOK
<1>2. known' = known /\ claims' = claims /\ logged' = logged
  BY DEF data
<1>3. ClaimsTypeOK'
  BY <1>1, <1>2 DEF ClaimsIInv, ClaimsTypeOK
<1>4. ASSUME NEW u \in Tx PROVE Sound(tx'[u], u, known, claims, rowX')
  <2>1. CASE u = t
    BY <1>1, <2>1
  <2>2. CASE u # t
    <3>1. tx[u] \in TxState /\ Sound(tx[u], u, known, claims, rowX) /\ known \subseteq Bloggers
      BY <1>1 DEF ClaimsIInv, ClaimsTypeOK
    <3>2. \A p \in Pairs : rowX'[p] = u <=> rowX[p] = u
      BY <2>2
    <3>3. Sound(tx[u], u, known, claims, rowX')
      BY <3>1, <3>2, Stands
    <3>4. QED
      BY <1>1, <2>2, <3>3
  <2>3. QED
    BY <2>1, <2>2
<1>5. OneWriter'
  BY <1>1 DEF ClaimsIInv, OneWriter
<1>6. QED
  BY <1>2, <1>3, <1>4, <1>5 DEF ClaimsIInv, AuditMatchesClaims

-----------------------------------------------------------------------------
(* Claims: the steps of a transaction *)

(* A transaction that is at work. *)
LEMMA AtItem ==
  ASSUME ClaimsIInv, NEW t \in Tx, tx[t].pc # "idle"
  PROVE  /\ tx[t] \in TxState /\ Sound(tx[t], t, known, claims, rowX)
         /\ tx[t].op # "none" /\ tx[t].work \in Wechats /\ tx[t].work # "absent"
         /\ tx[t].todo # <<>> /\ tx[t].todo \in Seq(Pairs)
         /\ Item(t) \in known \X PRs /\ Item(t) \in Pairs
         /\ Target(t) \in known \X PRs /\ Target(t) \in Pairs
         /\ tx[t].op = "transfer" => Item(t) = Giver(tx[t]) /\ Target(t) = Receiver(tx[t])
                                     /\ Item(t) # Target(t)
<1>1. tx[t] \in TxState /\ Sound(tx[t], t, known, claims, rowX) /\ known \subseteq Bloggers
  BY DEF ClaimsIInv, ClaimsTypeOK
<1>2. /\ tx[t].op # "none" /\ tx[t].work \in Wechats /\ tx[t].todo # <<>>
      /\ tx[t].todo \in Seq(known \X PRs) /\ tx[t].todo \in Seq(Pairs)
      /\ tx[t].op = "transfer" => tx[t].to \in PRs /\ tx[t].to # Giver(tx[t])[2]
  BY <1>1 DEF Sound, Shape, TxState
<1>3. Item(t) \in known \X PRs
  BY <1>2 DEF Item
<1>4. Item(t) = Giver(tx[t])
  BY DEF Item, Giver
<1>5. Target(t) \in known \X PRs
  BY <1>2, <1>3, <1>4 DEF Target
<1>6. tx[t].op = "transfer" => Target(t) = Receiver(tx[t]) /\ Item(t) # Target(t)
  BY <1>2, <1>3, <1>4 DEF Target, Receiver
<1>7. known \X PRs \subseteq Pairs
  BY <1>1 DEF Pairs
<1>8. QED
  BY <1>1, <1>2, <1>3, <1>4, <1>5, <1>6, <1>7, WechatAssumption

(* A rollback leaves nothing of the transaction. *)
LEMMA RollbackStep == ASSUME ClaimsIInv, NEW t \in Tx, Rollback(t) PROVE ClaimsIInv'
<1>1. /\ rowX' \in [Pairs -> Tx \cup {Nobody}]
      /\ blogX' \in [Bloggers -> Tx \cup {Nobody}] /\ blogS' \in [Bloggers -> SUBSET Tx]
  BY DEF Rollback, Unlock, ClaimsIInv, ClaimsTypeOK
<1>2. \A p \in Pairs : rowX'[p] # t /\ \A u \in Tx \ {t} : rowX'[p] = u <=> rowX[p] = u
  BY TxAssumption DEF Rollback, Unlock, ClaimsIInv, ClaimsTypeOK
<1>3. Sound(NoTx, t, known, claims, rowX')
  BY NoTxType, <1>2 DEF Sound, Shape, Logged, Held
<1>4. UNCHANGED data
  BY DEF Rollback
<1>5. tx' = [tx EXCEPT ![t] = NoTx]
  BY DEF Rollback
<1>6. \A u \in Tx \ {t} : DOMAIN NoTx.w \cap DOMAIN tx[u].w = {}
  BY NoTxType
<1>7. QED
  BY NoTxType, <1>1, <1>2, <1>3, <1>4, <1>5, <1>6, OwnTxStep

(* A request begins. *)
LEMMA BeginClaimsStep == ASSUME ClaimsIInv, NEW t \in Tx, BeginClaims(t) PROVE ClaimsIInv'
<1>1. tx[t] \in TxState /\ tx[t].pc = "idle" /\ UNCHANGED <<data, locks>>
      /\ known \subseteq Bloggers /\ Sound(tx[t], t, known, claims, rowX)
  BY DEF BeginClaims, ClaimsIInv, ClaimsTypeOK
<1>2. ASSUME NEW op \in {"assign", "self", "transfer"}, NEW pc \in {"add", "lock"},
             NEW todo \in Seq(known \X PRs), todo # <<>>,
             NEW to \in PRs \cup {Nobody}, NEW work \in Wechats,
             op = "transfer" => pc = "lock" /\ to \in PRs /\ to # Head(todo)[2],
             Starts(t, op, pc, todo, to, work)
      PROVE  ClaimsIInv'
  <2> DEFINE x == Started(op, pc, todo, to, work)
  <2>1. todo \in Seq(Pairs)
    BY <1>1 DEF Pairs
  <2>2. /\ x \in TxState
        /\ x.op = op /\ x.pc = pc /\ x.todo = todo /\ x.to = to /\ x.work = work
        /\ DOMAIN x.w = {} /\ x.added = {} /\ x.removed = {}
    BY <2>1, StartedType DEF Values
  <2>3. tx' = [tx EXCEPT ![t] = x]
    BY <1>2 DEF Starts
  <2> HIDE DEF x
  <2>4. \A p \in Pairs : rowX[p] = t => claims[p] # "absent"
    BY <1>1 DEF Sound, Shape, Held
  <2>5. Sound(x, t, known, claims, rowX)
    BY <1>2, <2>2, <2>4 DEF Sound, Shape, Logged, Held, Giver
  <2>6. QED
    BY <1>1, <2>2, <2>3, <2>5, OwnTxStep DEF locks, ClaimsIInv, ClaimsTypeOK
<1>3. ASSUME NEW S, NEW n \in 1 .. MaxItems, NEW todo \in [1 .. n -> S]
      PROVE  todo \in Seq(S) /\ todo # <<>>
  BY <1>3, BatchAssumption
<1>4. ASSUME NEW w \in Wechats, NEW n \in 1 .. MaxItems, NEW todo \in [1 .. n -> known \X PRs],
             Starts(t, "assign", "add", todo, Nobody, w)
      PROVE  ClaimsIInv'
  BY <1>2, <1>3, <1>4
<1>5. ASSUME NEW w \in Wechats, NEW n \in 1 .. MaxItems, NEW pr \in PRs,
             NEW todo \in [1 .. n -> known \X {pr}],
             Starts(t, "self", "lock", todo, Nobody, w)
      PROVE  ClaimsIInv'
  <2>1. todo \in [1 .. n -> known \X PRs]
    OBVIOUS
  <2>2. QED
    BY <1>2, <1>3, <1>5, <2>1
<1>6. ASSUME NEW w \in Wechats, NEW p \in known \X PRs, NEW to \in PRs \ {p[2]},
             Starts(t, "transfer", "lock", <<p>>, to, w)
      PROVE  ClaimsIInv'
  <2>1. <<p>> \in Seq(known \X PRs) /\ <<p>> # <<>> /\ Head(<<p>>) = p
    OBVIOUS
  <2>2. QED
    BY <1>2, <1>6, <2>1
<1>7. QED
  BY <1>4, <1>5, <1>6 DEF BeginClaims

(* What a transaction writes. *)
LEMMA WrittenType ==
  ASSUME NEW t \in Tx, tx[t] \in TxState, NEW p \in Pairs, NEW v \in Values,
         NEW pc \in {"key", "revoke", "commit"}, NEW x, x = Written(t, p, v, pc)
  PROVE  /\ x \in TxState
         /\ x.op = tx[t].op /\ x.pc = pc /\ x.todo = tx[t].todo /\ x.to = tx[t].to
         /\ x.work = tx[t].work /\ x.added = tx[t].added /\ x.removed = tx[t].removed
         /\ DOMAIN x.w = DOMAIN tx[t].w \cup {p}
         /\ x.w[p] = v /\ \A q \in DOMAIN tx[t].w \ {p} : x.w[q] = tx[t].w[q]
<1> DEFINE W == UNION {[S -> Values] : S \in SUBSET Pairs}
<1> DEFINE w == tx[t].w
<1> DEFINE v2 == [q \in DOMAIN w \cup {p} |-> IF q = p THEN v ELSE w[q]]
<1>1. tx[t] \in [op : {"none", "assign", "self", "transfer"},
                 pc : {"idle", "lock", "add", "key", "switch", "revoke", "commit"},
                 todo : Seq(Pairs), to : PRs \cup {Nobody}, work : Values,
                 w : W, added : SUBSET Pairs, removed : SUBSET Pairs]
  BY DEF TxState
<1>2. w \in W
  BY <1>1
<1>3. PICK S \in SUBSET Pairs : w \in [S -> Values]
  BY <1>2
<1>4. v2 \in [S \cup {p} -> Values] /\ S \cup {p} \in SUBSET Pairs
  BY <1>3
<1>5. v2 \in W
  BY <1>4
<1>6. /\ DOMAIN v2 = DOMAIN w \cup {p}
      /\ v2[p] = v /\ \A q \in DOMAIN w \ {p} : v2[q] = w[q]
  OBVIOUS
<1>7. Written(t, p, v, pc) = [tx[t] EXCEPT !.pc = pc, !.w = v2]
  BY <1>1 DEF Written
<1> HIDE DEF W, v2
<1>8. /\ x \in [op : {"none", "assign", "self", "transfer"},
                 pc : {"idle", "lock", "add", "key", "switch", "revoke", "commit"},
                 todo : Seq(Pairs), to : PRs \cup {Nobody}, work : Values,
                 w : W, added : SUBSET Pairs, removed : SUBSET Pairs]
      /\ x.op = tx[t].op /\ x.pc = pc /\ x.todo = tx[t].todo /\ x.to = tx[t].to
      /\ x.work = tx[t].work /\ x.added = tx[t].added /\ x.removed = tx[t].removed
      /\ x.w = v2
  BY <1>1, <1>5, <1>7
<1>9. QED
  BY <1>6, <1>8 DEF TxState, W

(* What it audits. *)
LEMMA AddedType ==
  ASSUME NEW r \in TxState, NEW p \in Pairs, NEW x, x = [r EXCEPT !.added = @ \cup {p}]
  PROVE  /\ x \in TxState
         /\ x.op = r.op /\ x.pc = r.pc /\ x.todo = r.todo /\ x.to = r.to
         /\ x.work = r.work /\ x.w = r.w /\ x.removed = r.removed
         /\ x.added = r.added \cup {p}
BY DEF TxState

LEMMA RemovedType ==
  ASSUME NEW r \in TxState, NEW p \in Pairs, NEW x, x = [r EXCEPT !.removed = @ \cup {p}]
  PROVE  /\ x \in TxState
         /\ x.op = r.op /\ x.pc = r.pc /\ x.todo = r.todo /\ x.to = r.to
         /\ x.work = r.work /\ x.w = r.w /\ x.added = r.added
         /\ x.removed = r.removed \cup {p}
BY DEF TxState

(* Where it goes on. *)
LEMMA PcType ==
  ASSUME NEW r \in TxState, NEW pc \in {"lock", "add", "key", "switch", "revoke", "commit"},
         NEW x, x = [r EXCEPT !.pc = pc]
  PROVE  /\ x \in TxState /\ x.pc = pc
         /\ x.op = r.op /\ x.todo = r.todo /\ x.to = r.to /\ x.work = r.work
         /\ x.w = r.w /\ x.added = r.added /\ x.removed = r.removed
BY DEF TxState

(* A batch of several items has some left after the first. *)
LEMMA RestOfBatch ==
  ASSUME NEW S, NEW s \in Seq(S), Len(s) > 1
  PROVE  Tail(s) \in Seq(S) /\ Tail(s) # <<>>
<1>1. s # <<>> /\ Len(s) \in Nat
  OBVIOUS
<1>2. Tail(s) \in Seq(S) /\ Len(Tail(s)) = Len(s) - 1
  BY <1>1, HeadTailProperties
<1>3. Len(Tail(s)) # 0
  BY <1>1, <1>2
<1>4. QED
  BY <1>2, <1>3, Z3

(* After an item comes the next one, or the commit; a transfer, which has one,
   goes on to its receiver. *)
LEMMA AfterItem ==
  ASSUME NEW t \in Tx, NEW r \in TxState, NEW K, NEW C, NEW R,
         K \subseteq Bloggers, Sound(r, t, K, C, R), r.pc \in {"lock", "add", "key"},
         r.op = "transfer" => r.pc # "lock"
  PROVE  After(t, r) \in TxState /\ Sound(After(t, r), t, K, C, R) /\ After(t, r).w = r.w
<1> DEFINE x == After(t, r)
<1>1. CASE r.op = "transfer"
  <2>1. x = [r EXCEPT !.pc = "switch"]
    BY <1>1 DEF After
  <2>2. /\ x \in TxState /\ x.pc = "switch"
        /\ x.op = r.op /\ x.todo = r.todo /\ x.to = r.to /\ x.work = r.work
        /\ x.w = r.w /\ x.added = r.added /\ x.removed = r.removed
    BY <2>1, PcType
  <2> HIDE DEF x
  <2>3. Sound(x, t, K, C, R)
    BY <1>1, <2>2 DEF Sound, Shape, Logged, Held, Giver, Receiver
  <2>4. QED
    BY <2>2, <2>3 DEF x
<1>2. CASE r.op # "transfer" /\ Len(r.todo) > 1
  <2>1. r.todo \in Seq(K \X PRs) /\ r.todo # <<>>
    BY DEF Sound, Shape
  <2>2. Tail(r.todo) \in Seq(K \X PRs) /\ Tail(r.todo) # <<>>
    BY <1>2, <2>1, RestOfBatch
  <2>3. Tail(r.todo) \in Seq(Pairs)
    BY <2>2 DEF Pairs
  <2>4. PICK pc \in {"lock", "add"} : x = [r EXCEPT !.todo = Tail(@), !.pc = pc]
    BY <1>2 DEF After
  <2>5. /\ x \in TxState /\ x.pc = pc
        /\ x.op = r.op /\ x.todo = Tail(r.todo) /\ x.to = r.to /\ x.work = r.work
        /\ x.w = r.w /\ x.added = r.added /\ x.removed = r.removed
    BY <2>3, <2>4 DEF TxState
  <2> HIDE DEF x
  <2>6. Sound(x, t, K, C, R)
    BY <1>2, <2>2, <2>5 DEF Sound, Shape, Logged, Held
  <2>7. QED
    BY <2>5, <2>6 DEF x
<1>3. CASE r.op # "transfer" /\ ~(Len(r.todo) > 1)
  <2>1. x = [r EXCEPT !.pc = "commit"]
    BY <1>3 DEF After
  <2>2. /\ x \in TxState /\ x.pc = "commit"
        /\ x.op = r.op /\ x.todo = r.todo /\ x.to = r.to /\ x.work = r.work
        /\ x.w = r.w /\ x.added = r.added /\ x.removed = r.removed
    BY <2>1, PcType
  <2> HIDE DEF x
  <2>3. Sound(x, t, K, C, R)
    BY <1>3, <2>2 DEF Sound, Shape, Logged, Held
  <2>4. QED
    BY <2>2, <2>3 DEF x
<1>4. QED
  BY <1>1, <1>2, <1>3

LEMMA LockBloggerStep == ASSUME ClaimsIInv, NEW t \in Tx, LockBlogger(t) PROVE ClaimsIInv'
<1>1. tx[t].op = "self" /\ tx[t].pc = "lock" /\ UNCHANGED data /\ rowX' = rowX /\ blogS' = blogS
  BY DEF LockBlogger
<1>2. tx[t] \in TxState /\ Sound(tx[t], t, known, claims, rowX) /\ known \subseteq Bloggers
  BY <1>1, AtItem DEF ClaimsIInv, ClaimsTypeOK
<1>3. blogX' \in [Bloggers -> Tx \cup {Nobody}]
  BY DEF LockBlogger, ClaimsIInv, ClaimsTypeOK
<1>4. PICK x \in {After(t, tx[t]), [tx[t] EXCEPT !.pc = "add"]} : tx' = [tx EXCEPT ![t] = x]
  BY DEF LockBlogger, Advance
<1>5. x \in TxState /\ Sound(x, t, known, claims, rowX) /\ DOMAIN x.w = DOMAIN tx[t].w
  <2>1. CASE x = After(t, tx[t])
    BY <1>1, <1>2, <2>1, AfterItem
  <2>2. CASE x = [tx[t] EXCEPT !.pc = "add"]
    <3>1. /\ x \in TxState /\ x.pc = "add"
          /\ x.op = tx[t].op /\ x.todo = tx[t].todo /\ x.to = tx[t].to /\ x.work = tx[t].work
          /\ x.w = tx[t].w /\ x.added = tx[t].added /\ x.removed = tx[t].removed
      BY <1>2, <2>2, PcType
    <3>2. QED
      BY <1>1, <1>2, <3>1 DEF Sound, Shape, Logged, Held
  <2>3. QED
    BY <2>1, <2>2
<1>6. \A u \in Tx \ {t} : DOMAIN x.w \cap DOMAIN tx[u].w = {}
  BY <1>5 DEF ClaimsIInv, OneWriter
<1>7. rowX' \in [Pairs -> Tx \cup {Nobody}] /\ blogS' \in [Bloggers -> SUBSET Tx]
  BY <1>1 DEF ClaimsIInv, ClaimsTypeOK
<1>8. QED
  BY <1>1, <1>3, <1>4, <1>5, <1>6, <1>7, OwnTxStep

(* A claim that is there and nobody else holds is written by nobody else. *)
LEMMA NotWritten ==
  ASSUME ClaimsIInv, NEW t \in Tx, NEW u \in Tx \ {t}, NEW p \in Pairs,
         claims[p] # "absent", rowX[p] # u
  PROVE  p \notin DOMAIN tx[u].w
BY DEF ClaimsIInv, Sound, Logged

LEMMA LockFromStep == ASSUME ClaimsIInv, NEW t \in Tx, LockFrom(t) PROVE ClaimsIInv'
<1>1. CASE Rollback(t)
  BY <1>1, RollbackStep
<1>2. CASE ~Rollback(t)
  <2> DEFINE x == [tx[t] EXCEPT !.pc = "add"]
  <2> DEFINE p == Item(t)
  <2>1. /\ tx[t].op = "transfer" /\ tx[t].pc = "lock" /\ claims[p] # "absent"
        /\ rowX[p] = Nobody /\ rowX' = [rowX EXCEPT ![p] = t]
        /\ UNCHANGED <<data, blogX, blogS>>
    BY <1>2 DEF LockFrom
  <2>2. tx' = [tx EXCEPT ![t] = x]
    BY <1>2 DEF LockFrom
  <2>3. /\ tx[t] \in TxState /\ Sound(tx[t], t, known, claims, rowX)
        /\ p \in Pairs /\ p = Giver(tx[t])
    BY <2>1, AtItem
  <2>4. /\ x \in TxState /\ x.pc = "add"
        /\ x.op = tx[t].op /\ x.todo = tx[t].todo /\ x.to = tx[t].to /\ x.work = tx[t].work
        /\ x.w = tx[t].w /\ x.added = tx[t].added /\ x.removed = tx[t].removed
    BY <2>3, PcType
  <2> HIDE DEF x, p
  <2>5. /\ rowX' \in [Pairs -> Tx \cup {Nobody}]
        /\ rowX'[p] = t /\ \A q \in Pairs \ {p} : rowX'[q] = rowX[q]
        /\ \A q \in Pairs : \A u \in Tx \ {t} : rowX'[q] = u <=> rowX[q] = u
    BY <2>1, <2>3, TxAssumption DEF ClaimsIInv, ClaimsTypeOK
  <2>6. DOMAIN x.w \subseteq Pairs
    BY <2>4 DEF TxState
  <2>7. p \notin DOMAIN tx[t].w
    BY <2>1, <2>3, TxAssumption DEF Sound, Logged
  <2>8. Shape(x, known)
    BY <2>1, <2>3, <2>4 DEF Sound, Shape, Giver
  <2>9. Logged(x, t, claims, rowX')
    BY <2>3, <2>4, <2>5, <2>6, <2>7 DEF Sound, Logged
  <2>10. Held(x, t, claims, rowX')
    BY <2>1, <2>3, <2>4, <2>5, <2>7 DEF Sound, Held, Giver
  <2>11. \A u \in Tx \ {t} : DOMAIN x.w \cap DOMAIN tx[u].w = {}
    BY <2>4 DEF ClaimsIInv, OneWriter
  <2>12. /\ UNCHANGED data /\ blogX' \in [Bloggers -> Tx \cup {Nobody}]
         /\ blogS' \in [Bloggers -> SUBSET Tx]
    BY <2>1 DEF ClaimsIInv, ClaimsTypeOK
  <2>13. Sound(x, t, known, claims, rowX')
    BY <2>8, <2>9, <2>10 DEF Sound
  <2>14. QED
    BY <2>2, <2>4, <2>5, <2>11, <2>12, <2>13, OwnTxStep
<1>3. QED
  BY <1>1, <1>2

LEMMA AddStep == ASSUME ClaimsIInv, NEW t \in Tx, Add(t) PROVE ClaimsIInv'
<1> DEFINE p == Target(t)
<1>1. tx[t].pc = "add" /\ UNCHANGED data /\ UNCHANGED <<rowX, blogX, blogS>>
      /\ \A u \in Tx \ {t} : p \notin DOMAIN tx[u].w
  BY DEF Add, WrittenByOther, locks
<1>2. /\ tx[t] \in TxState /\ Sound(tx[t], t, known, claims, rowX) /\ known \subseteq Bloggers
      /\ p \in Pairs /\ p \in known \X PRs /\ tx[t].work \in Wechats /\ tx[t].work # "absent"
      /\ tx[t].op = "transfer" => p # Giver(tx[t])
  BY <1>1, AtItem DEF ClaimsIInv, ClaimsTypeOK
<1>3. PICK x \in {After(t, tx[t]), [Written(t, p, tx[t].work, "key") EXCEPT !.added = @ \cup {p}]} :
        /\ tx' = [tx EXCEPT ![t] = x]
        /\ x # After(t, tx[t]) => View(t, p) = "absent"
  BY DEF Add, Advance
<1> HIDE DEF p
<1>4. /\ x \in TxState /\ Sound(x, t, known, claims, rowX)
      /\ DOMAIN x.w \subseteq DOMAIN tx[t].w \cup {p}
  <2>1. CASE x = After(t, tx[t])
    BY <1>1, <1>2, <2>1, AfterItem
  <2>2. CASE x # After(t, tx[t])
    <3> DEFINE z == Written(t, p, tx[t].work, "key")
    <3>1. /\ z \in TxState /\ z.op = tx[t].op /\ z.pc = "key" /\ z.todo = tx[t].todo
          /\ z.to = tx[t].to /\ z.work = tx[t].work /\ z.added = tx[t].added
          /\ z.removed = tx[t].removed /\ DOMAIN z.w = DOMAIN tx[t].w \cup {p}
          /\ z.w[p] = tx[t].work /\ \A q \in DOMAIN tx[t].w \ {p} : z.w[q] = tx[t].w[q]
      BY <1>2, WrittenType DEF Values
    <3>2. x = [z EXCEPT !.added = @ \cup {p}]
      BY <1>3, <2>2
    <3> HIDE DEF z
    <3>3. /\ x \in TxState /\ x.op = z.op /\ x.pc = z.pc /\ x.todo = z.todo /\ x.to = z.to
          /\ x.work = z.work /\ x.w = z.w /\ x.removed = z.removed
          /\ x.added = z.added \cup {p}
      BY <1>2, <3>1, <3>2, AddedType
    <3>4. View(t, p) = "absent" /\ tx[t].removed = {}
      BY <1>1, <1>2, <1>3, <2>2 DEF Sound, Shape
    <3>5. p \notin DOMAIN tx[t].w /\ claims[p] = "absent"
      BY <1>2, <3>4 DEF View, Sound, Logged
    <3>6. Shape(x, known)
      BY <1>1, <1>2, <3>1, <3>3 DEF Sound, Shape, Giver
    <3>7. Logged(x, t, claims, rowX)
      BY <1>2, <3>1, <3>3, <3>4, <3>5 DEF Sound, Logged
    <3>8. Held(x, t, claims, rowX)
      BY <1>1, <1>2, <3>1, <3>3, <3>5 DEF Sound, Held, Giver
    <3>9. QED
      BY <3>1, <3>3, <3>6, <3>7, <3>8 DEF Sound
  <2>3. QED
    BY <2>1, <2>2
<1>5. \A u \in Tx \ {t} : DOMAIN x.w \cap DOMAIN tx[u].w = {}
  BY <1>1, <1>4 DEF ClaimsIInv, OneWriter
<1>6. /\ rowX' \in [Pairs -> Tx \cup {Nobody}] /\ blogX' \in [Bloggers -> Tx \cup {Nobody}]
      /\ blogS' \in [Bloggers -> SUBSET Tx]
  BY <1>1 DEF ClaimsIInv, ClaimsTypeOK
<1>7. QED
  BY <1>1, <1>3, <1>4, <1>5, <1>6, OwnTxStep

LEMMA ShareBloggerStep == ASSUME ClaimsIInv, NEW t \in Tx, ShareBlogger(t) PROVE ClaimsIInv'
<1>1. /\ tx[t].pc = "key" /\ UNCHANGED data /\ rowX' = rowX /\ blogX' = blogX
      /\ tx' = [tx EXCEPT ![t] = After(t, tx[t])]
  BY DEF ShareBlogger, Advance
<1>2. tx[t] \in TxState /\ Sound(tx[t], t, known, claims, rowX) /\ known \subseteq Bloggers
  BY <1>1, AtItem DEF ClaimsIInv, ClaimsTypeOK
<1>3. blogS' \in [Bloggers -> SUBSET Tx]
  BY DEF ShareBlogger, ClaimsIInv, ClaimsTypeOK
<1> DEFINE x == After(t, tx[t])
<1>4. x \in TxState /\ Sound(x, t, known, claims, rowX) /\ x.w = tx[t].w
  BY <1>1, <1>2, AfterItem
<1> HIDE DEF x
<1>5. \A u \in Tx \ {t} : DOMAIN x.w \cap DOMAIN tx[u].w = {}
  BY <1>4 DEF ClaimsIInv, OneWriter
<1>6. rowX' \in [Pairs -> Tx \cup {Nobody}] /\ blogX' \in [Bloggers -> Tx \cup {Nobody}]
  BY <1>1 DEF ClaimsIInv, ClaimsTypeOK
<1>7. tx' = [tx EXCEPT ![t] = x]
  BY <1>1 DEF x
<1>8. QED
  BY <1>1, <1>3, <1>4, <1>5, <1>6, <1>7, OwnTxStep

LEMMA SwitchReceiverStep == ASSUME ClaimsIInv, NEW t \in Tx, SwitchReceiver(t) PROVE ClaimsIInv'
<1>1. CASE Rollback(t)
  BY <1>1, RollbackStep
<1>2. CASE ~Rollback(t)
  <2> DEFINE p == Target(t)
  <2> DEFINE z == Written(t, p, tx[t].work, "revoke")
  <2>1. /\ tx[t].pc = "switch" /\ View(t, p) # "absent"
        /\ rowX[p] \in {Nobody, t} /\ rowX' = [rowX EXCEPT ![p] = t]
        /\ UNCHANGED <<data, blogX, blogS>>
    BY <1>2 DEF SwitchReceiver
  <2>2. PICK x \in {[tx[t] EXCEPT !.pc = "revoke"], z} :
          /\ tx' = [tx EXCEPT ![t] = x]
          /\ x # z => View(t, p) = tx[t].work
    <3>1. CASE View(t, p) = tx[t].work
      BY <1>2, <3>1 DEF SwitchReceiver
    <3>2. CASE View(t, p) # tx[t].work
      BY <1>2, <3>2 DEF SwitchReceiver
    <3>3. QED
      BY <3>1, <3>2
  <2>3. /\ tx[t] \in TxState /\ Sound(tx[t], t, known, claims, rowX)
        /\ p \in Pairs /\ p \in known \X PRs
        /\ tx[t].work \in Wechats /\ tx[t].work # "absent"
    BY <2>1, AtItem
  <2>4. tx[t].op = "transfer" /\ tx[t].removed = {}
    BY <2>1, <2>3 DEF Sound, Shape
  <2>5. p = Receiver(tx[t]) /\ p # Giver(tx[t])
    BY <2>1, <2>4, AtItem
  <2>6. /\ x \in TxState /\ x.op = tx[t].op /\ x.pc = "revoke" /\ x.todo = tx[t].todo
        /\ x.to = tx[t].to /\ x.work = tx[t].work /\ x.added = tx[t].added
        /\ x.removed = tx[t].removed
        /\ DOMAIN x.w \in {DOMAIN tx[t].w, DOMAIN tx[t].w \cup {p}}
        /\ \A q \in DOMAIN tx[t].w \ {p} : x.w[q] = tx[t].w[q]
        /\ (IF p \in DOMAIN x.w THEN x.w[p] ELSE claims[p]) = tx[t].work
    <3>1. CASE x = z
      <4> HIDE DEF z
      <4>1. /\ x \in TxState /\ x.op = tx[t].op /\ x.pc = "revoke" /\ x.todo = tx[t].todo
            /\ x.to = tx[t].to /\ x.work = tx[t].work /\ x.added = tx[t].added
            /\ x.removed = tx[t].removed /\ DOMAIN x.w = DOMAIN tx[t].w \cup {p}
            /\ x.w[p] = tx[t].work /\ \A q \in DOMAIN tx[t].w \ {p} : x.w[q] = tx[t].w[q]
        BY <2>3, <3>1, WrittenType DEF Values, z
      <4>2. QED
        BY <4>1
    <3>2. CASE x # z
      <4>1. x = [tx[t] EXCEPT !.pc = "revoke"] /\ View(t, p) = tx[t].work
        BY <2>2, <3>2
      <4>2. /\ x \in TxState /\ x.pc = "revoke"
            /\ x.op = tx[t].op /\ x.todo = tx[t].todo /\ x.to = tx[t].to
            /\ x.work = tx[t].work /\ x.w = tx[t].w /\ x.added = tx[t].added
            /\ x.removed = tx[t].removed
        BY <2>3, <4>1, PcType
      <4> HIDE DEF p
      <4>3. QED
        BY <4>1, <4>2 DEF View
    <3>3. QED
      BY <3>1, <3>2
  <2> HIDE DEF p, z
  <2>7. /\ rowX' \in [Pairs -> Tx \cup {Nobody}]
        /\ rowX'[p] = t /\ \A q \in Pairs \ {p} : rowX'[q] = rowX[q]
        /\ \A q \in Pairs : \A u \in Tx \ {t} : rowX'[q] = u <=> rowX[q] = u
    BY <2>1, <2>3, TxAssumption DEF ClaimsIInv, ClaimsTypeOK
  <2>8. p \notin DOMAIN tx[t].w => claims[p] # "absent"
    BY <2>1 DEF View
  <2>9. /\ p \notin tx[t].added => claims[p] # "absent"
        /\ p \in tx[t].added => p \in DOMAIN tx[t].w /\ claims[p] = "absent"
    BY <2>3, <2>8 DEF Sound, Shape, Logged
  <2>10. DOMAIN x.w \subseteq Pairs /\ DOMAIN tx[t].w \subseteq Pairs
    BY <2>3, <2>6 DEF TxState
  <2>11. Shape(x, known)
    BY <2>1, <2>3, <2>4, <2>6 DEF Sound, Shape, Giver
  <2>12. Logged(x, t, claims, rowX')
    <3> SUFFICES ASSUME NEW q \in DOMAIN x.w
                 PROVE  /\ x.w[q] = "absent" <=> q \in x.removed
                        /\ q \in x.added => claims[q] = "absent"
                        /\ q \notin x.added => claims[q] # "absent" /\ rowX'[q] = t
      BY DEF Logged
    <3>1. CASE q = p
      BY <2>3, <2>4, <2>6, <2>7, <2>9, <3>1
    <3>2. CASE q # p
      BY <2>3, <2>6, <2>7, <2>10, <3>2 DEF Sound, Logged
    <3>3. QED
      BY <3>1, <3>2
  <2>13. Held(x, t, claims, rowX')
    <3>1. \A q \in Pairs : rowX'[q] = t => claims[q] # "absent" \/ q \in x.added
      BY <2>3, <2>6, <2>7, <2>9 DEF Sound, Held
    <3>2. /\ rowX'[Giver(x)] = t /\ claims[Giver(x)] # "absent" /\ Giver(x) \notin DOMAIN x.w
      <4>1. Giver(tx[t]) \in Pairs
        BY <2>1, <2>4, AtItem
      <4>2. QED
        BY <2>1, <2>3, <2>4, <2>5, <2>6, <2>7, <4>1 DEF Sound, Held, Giver
    <3>3. Receiver(x) = p
      BY <2>5, <2>6 DEF Receiver, Giver
    <3>4. QED
      BY <2>6, <2>7, <3>1, <3>2, <3>3 DEF Held
  <2>14. Sound(x, t, known, claims, rowX')
    BY <2>11, <2>12, <2>13 DEF Sound
  <2>15. \A u \in Tx \ {t} : p \notin DOMAIN tx[u].w
    <3>1. CASE p \in DOMAIN tx[t].w
      BY <3>1 DEF ClaimsIInv, OneWriter
    <3>2. CASE p \notin DOMAIN tx[t].w
      BY <2>1, <2>3, <2>8, <3>2, NotWritten, TxAssumption
    <3>3. QED
      BY <3>1, <3>2
  <2>16. \A u \in Tx \ {t} : DOMAIN x.w \cap DOMAIN tx[u].w = {}
    BY <2>6, <2>15 DEF ClaimsIInv, OneWriter
  <2>17. /\ UNCHANGED data /\ blogX' \in [Bloggers -> Tx \cup {Nobody}]
         /\ blogS' \in [Bloggers -> SUBSET Tx]
    BY <2>1 DEF ClaimsIInv, ClaimsTypeOK
  <2>18. QED
    BY <2>2, <2>6, <2>7, <2>14, <2>16, <2>17, OwnTxStep
<1>3. QED
  BY <1>1, <1>2

LEMMA RevokeGiverStep == ASSUME ClaimsIInv, NEW t \in Tx, RevokeGiver(t) PROVE ClaimsIInv'
<1> DEFINE p == Item(t)
<1> DEFINE z == Written(t, p, "absent", "commit")
<1> DEFINE x == [z EXCEPT !.removed = @ \cup {p}]
<1>1. tx[t].pc = "revoke" /\ UNCHANGED data /\ UNCHANGED <<rowX, blogX, blogS>>
  BY DEF RevokeGiver, locks
<1>2. tx' = [tx EXCEPT ![t] = x]
  BY DEF RevokeGiver
<1>3. tx[t] \in TxState /\ Sound(tx[t], t, known, claims, rowX) /\ p \in Pairs
      /\ p \in known \X PRs /\ known \subseteq Bloggers
      /\ tx[t].work \in Wechats /\ tx[t].work # "absent"
  BY <1>1, AtItem DEF ClaimsIInv, ClaimsTypeOK
<1>4. tx[t].op = "transfer" /\ tx[t].removed = {}
  BY <1>1, <1>3 DEF Sound, Shape
<1>5. p = Giver(tx[t]) /\ Receiver(tx[t]) # p /\ Receiver(tx[t]) \in Pairs
  BY <1>1, <1>4, AtItem
<1>6. rowX[p] = t /\ claims[p] # "absent" /\ p \notin DOMAIN tx[t].w /\ p \notin tx[t].added
  BY <1>1, <1>3, <1>4, <1>5 DEF Sound, Held, Shape
<1>7. /\ z \in TxState /\ z.op = tx[t].op /\ z.pc = "commit" /\ z.todo = tx[t].todo
      /\ z.to = tx[t].to /\ z.work = tx[t].work /\ z.added = tx[t].added
      /\ z.removed = tx[t].removed /\ DOMAIN z.w = DOMAIN tx[t].w \cup {p}
      /\ z.w[p] = "absent" /\ \A q \in DOMAIN tx[t].w \ {p} : z.w[q] = tx[t].w[q]
  <2> HIDE DEF p
  <2>1. QED
    BY <1>3, WrittenType DEF Values
<1> HIDE DEF z
<1>8. /\ x \in TxState /\ x.op = z.op /\ x.pc = z.pc /\ x.todo = z.todo /\ x.to = z.to
      /\ x.work = z.work /\ x.w = z.w /\ x.added = z.added /\ x.removed = z.removed \cup {p}
  BY <1>3, <1>7, RemovedType
<1> HIDE DEF p, x
<1>9. Shape(x, known)
  BY <1>1, <1>3, <1>4, <1>7, <1>8 DEF Sound, Shape, Giver
<1>10. Logged(x, t, claims, rowX)
  BY <1>3, <1>4, <1>6, <1>7, <1>8 DEF Sound, Logged
<1>11. Held(x, t, claims, rowX)
  <2>1. Giver(x) = p /\ Receiver(x) = Receiver(tx[t])
    BY <1>5, <1>7, <1>8 DEF Giver, Receiver
  <2>2. \A q \in Pairs : rowX[q] = t => claims[q] # "absent" \/ q \in x.added
    BY <1>3, <1>7, <1>8 DEF Sound, Held
  <2>3. /\ rowX[Receiver(x)] = t
        /\ (IF Receiver(x) \in DOMAIN x.w THEN x.w[Receiver(x)] ELSE claims[Receiver(x)]) = x.work
    BY <1>1, <1>3, <1>4, <1>5, <1>7, <1>8, <2>1 DEF Sound, Held
  <2>4. QED
    BY <1>7, <1>8, <2>1, <2>2, <2>3 DEF Held
<1>12. Sound(x, t, known, claims, rowX')
  BY <1>1, <1>9, <1>10, <1>11 DEF Sound
<1>13. \A u \in Tx \ {t} : DOMAIN x.w \cap DOMAIN tx[u].w = {}
  <2>1. \A u \in Tx \ {t} : p \notin DOMAIN tx[u].w
    BY <1>3, <1>6, NotWritten
  <2>2. QED
    BY <1>7, <1>8, <2>1 DEF ClaimsIInv, OneWriter
<1>14. /\ rowX' \in [Pairs -> Tx \cup {Nobody}] /\ blogX' \in [Bloggers -> Tx \cup {Nobody}]
       /\ blogS' \in [Bloggers -> SUBSET Tx]
       /\ \A q \in Pairs : \A u \in Tx \ {t} : rowX'[q] = u <=> rowX[q] = u
  BY <1>1 DEF ClaimsIInv, ClaimsTypeOK
<1>15. x \in TxState /\ UNCHANGED data
  BY <1>1, <1>8
<1>16. QED
  BY <1>2, <1>12, <1>13, <1>14, <1>15, OwnTxStep

-----------------------------------------------------------------------------
(* Claims: the steps of one statement, and the commit *)

(* A single statement concerns a claim that is not held, or was not there and is
   of a blogger nobody is at: to every transaction nothing has moved. *)
LEMMA StatementStep ==
  ASSUME NEW p \in Pairs, ClaimsIInv, UNCHANGED <<tx, locks>>,
         \/ p[1] \notin known
         \/ claims[p] # "absent" /\ rowX[p] = Nobody,
         known \subseteq known', known' \subseteq Bloggers,
         claims' \in [Pairs -> Values], logged' \in [Pairs -> Int],
         \A q \in Pairs \ {p} : claims'[q] = claims[q] /\ logged'[q] = logged[q],
         claims'[p] # "absent" => p[1] \in known',
         logged'[p] = (IF claims'[p] = "absent" THEN 0 ELSE 1)
  PROVE  ClaimsIInv'
<1>1. tx' = tx /\ rowX' = rowX /\ blogX' = blogX /\ blogS' = blogS
  BY DEF locks
<1>2. ClaimsTypeOK'
  BY <1>1 DEF ClaimsIInv, ClaimsTypeOK
<1>3. \A q \in Pairs : claims'[q] # "absent" => q[1] \in known'
  BY DEF ClaimsIInv
<1>4. ASSUME NEW t \in Tx PROVE Sound(tx[t], t, known', claims', rowX)
  <2>1. tx[t] \in TxState /\ Sound(tx[t], t, known, claims, rowX)
    BY DEF ClaimsIInv, ClaimsTypeOK
  <2>2. tx[t].added \subseteq Pairs /\ \A q \in tx[t].added : claims[q] = "absent" /\ q[1] \in known
    BY <2>1 DEF Sound, Shape, Logged, TxState
  <2>3. p \notin tx[t].added
    BY <2>2
  <2>4. rowX[p] # t
    BY <2>1, <2>3, TxAssumption DEF Sound, Held, ClaimsIInv
  <2>5. \A q \in Pairs : rowX[q] = t => claims'[q] = claims[q]
    BY <2>4
  <2>6. \A q \in tx[t].added : claims'[q] = claims[q]
    BY <2>2, <2>3
  <2>7. QED
    BY <2>1, <2>5, <2>6, Stands
<1>5. OneWriter'
  BY <1>1 DEF ClaimsIInv, OneWriter
<1>6. AuditMatchesClaims'
  BY DEF ClaimsIInv, AuditMatchesClaims
<1>7. QED
  BY <1>1, <1>2, <1>3, <1>4, <1>5, <1>6 DEF ClaimsIInv

LEMMA CreateBloggerStep ==
  ASSUME ClaimsIInv, NEW b \in Bloggers, CreateBlogger(b) PROVE ClaimsIInv'
<1>1. /\ b \notin known /\ known' = known \cup {b} /\ UNCHANGED <<tx, locks>>
      /\ claims \in [Pairs -> Values] /\ logged \in [Pairs -> Int] /\ known \subseteq Bloggers
      /\ \A p \in Pairs : claims[p] # "absent" => p[1] \in known
      /\ \A p \in Pairs : logged[p] = (IF claims[p] = "absent" THEN 0 ELSE 1)
  BY DEF CreateBlogger, ClaimsIInv, ClaimsTypeOK, AuditMatchesClaims
<1>2. CASE UNCHANGED <<claims, logged>>
  <2>1. ASSUME NEW t \in Tx PROVE Sound(tx[t], t, known', claims, rowX)
    <3>1. tx[t] \in TxState /\ Sound(tx[t], t, known, claims, rowX)
      BY DEF ClaimsIInv, ClaimsTypeOK
    <3>2. known \subseteq known' /\ known' \subseteq Bloggers
      BY <1>1
    <3>3. QED
      BY <3>1, <3>2, Stands
  <2>2. QED
    BY <1>1, <1>2, <2>1
    DEF ClaimsIInv, ClaimsTypeOK, OneWriter, AuditMatchesClaims, locks
<1>3. ASSUME NEW pr \in PRs, NEW w \in Values \ {"absent"},
             claims' = [claims EXCEPT ![<<b, pr>>] = w],
             logged' = [logged EXCEPT ![<<b, pr>>] = @ + 1]
      PROVE  ClaimsIInv'
  <2> DEFINE p == <<b, pr>>
  <2>1. p \in Pairs /\ p[1] = b
    BY DEF Pairs
  <2>2. claims' = [claims EXCEPT ![p] = w] /\ logged' = [logged EXCEPT ![p] = @ + 1]
    BY <1>3
  <2> HIDE DEF p
  <2>3. /\ claims' \in [Pairs -> Values] /\ logged' \in [Pairs -> Int]
        /\ \A q \in Pairs \ {p} : claims'[q] = claims[q] /\ logged'[q] = logged[q]
        /\ claims'[p] = w /\ logged'[p] = 1
    BY <1>1, <2>1, <2>2
  <2>4. QED
    BY <1>1, <2>1, <2>3, StatementStep
<1>4. QED
  BY <1>2, <1>3 DEF CreateBlogger

LEMMA RevokeStep == ASSUME ClaimsIInv, NEW p \in Pairs, Revoke(p) PROVE ClaimsIInv'
<1>1. /\ claims[p] # "absent" /\ rowX[p] = Nobody /\ known' = known /\ UNCHANGED <<tx, locks>>
      /\ claims' = [claims EXCEPT ![p] = "absent"] /\ logged' = [logged EXCEPT ![p] = @ - 1]
  BY DEF Revoke
<1>2. /\ claims \in [Pairs -> Values] /\ logged \in [Pairs -> Int] /\ known \subseteq Bloggers
      /\ logged[p] = 1
  BY <1>1 DEF ClaimsIInv, ClaimsTypeOK, AuditMatchesClaims
<1>3. /\ claims' \in [Pairs -> Values] /\ logged' \in [Pairs -> Int]
      /\ \A q \in Pairs \ {p} : claims'[q] = claims[q] /\ logged'[q] = logged[q]
      /\ claims'[p] = "absent" /\ logged'[p] = 0
  BY <1>1, <1>2 DEF Values
<1>4. QED
  BY <1>1, <1>2, <1>3, StatementStep

LEMMA SwitchStep == ASSUME ClaimsIInv, NEW p \in Pairs, SwitchWorkWechat(p) PROVE ClaimsIInv'
<1>1. /\ claims[p] # "absent" /\ rowX[p] = Nobody /\ known' = known /\ UNCHANGED <<tx, locks>>
      /\ logged' = logged
  BY DEF SwitchWorkWechat
<1>2. PICK w \in Wechats : claims' = [claims EXCEPT ![p] = w]
  BY DEF SwitchWorkWechat
<1>3. /\ claims \in [Pairs -> Values] /\ logged \in [Pairs -> Int] /\ known \subseteq Bloggers
      /\ logged[p] = 1 /\ p[1] \in known
  BY <1>1 DEF ClaimsIInv, ClaimsTypeOK, AuditMatchesClaims
<1>4. /\ claims' \in [Pairs -> Values] /\ w # "absent"
      /\ \A q \in Pairs \ {p} : claims'[q] = claims[q]
      /\ claims'[p] = w
  BY <1>2, <1>3, WechatAssumption DEF Values
<1>5. QED
  BY <1>1, <1>3, <1>4, StatementStep

(* The commit shows what the transaction has written, which nobody else has. *)
LEMMA CommitStep == ASSUME ClaimsIInv, NEW t \in Tx, Commit(t) PROVE ClaimsIInv'
<1>1. /\ tx[t].pc = "commit" /\ known' = known /\ tx' = [tx EXCEPT ![t] = NoTx]
      /\ claims' = [p \in Pairs |-> View(t, p)]
  BY DEF Commit
<1>2. /\ tx \in [Tx -> TxState] /\ claims \in [Pairs -> Values] /\ logged \in [Pairs -> Int]
      /\ known \subseteq Bloggers
      /\ tx[t] \in TxState /\ Sound(tx[t], t, known, claims, rowX)
  BY DEF ClaimsIInv, ClaimsTypeOK
<1>3. /\ DOMAIN tx[t].w \subseteq Pairs /\ \A p \in DOMAIN tx[t].w : tx[t].w[p] \in Values
      /\ DOMAIN tx[t].w \subseteq known \X PRs
      /\ tx[t].added \subseteq DOMAIN tx[t].w /\ tx[t].removed \subseteq DOMAIN tx[t].w
  BY <1>2 DEF TxState, Sound, Shape
<1>4. claims' \in [Pairs -> Values]
  BY <1>1, <1>2, <1>3 DEF View
<1>5. logged' \in [Pairs -> Int]
  BY <1>2 DEF Commit
<1>6. /\ rowX' \in [Pairs -> Tx \cup {Nobody}]
      /\ blogX' \in [Bloggers -> Tx \cup {Nobody}] /\ blogS' \in [Bloggers -> SUBSET Tx]
      /\ \A p \in Pairs : rowX'[p] # t /\ \A u \in Tx \ {t} : rowX'[p] = u <=> rowX[p] = u
  BY TxAssumption DEF Commit, Unlock, ClaimsIInv, ClaimsTypeOK
<1>7. tx' \in [Tx -> TxState] /\ tx'[t] = NoTx /\ \A u \in Tx \ {t} : tx'[u] = tx[u]
  BY <1>1, <1>2, NoTxType
<1>8. \A p \in Pairs : claims'[p] # "absent" => p[1] \in known
  BY <1>1, <1>3 DEF View, ClaimsIInv
<1>9. ASSUME NEW u \in Tx PROVE Sound(tx'[u], u, known, claims', rowX')
  <2>1. CASE u = t
    BY <1>6, <1>7, <2>1, NoTxType DEF Sound, Shape, Logged, Held
  <2>2. CASE u # t
    <3>1. tx[u] \in TxState /\ Sound(tx[u], u, known, claims, rowX)
      BY DEF ClaimsIInv, ClaimsTypeOK
    <3>2. tx[u].added \subseteq DOMAIN tx[u].w /\ DOMAIN tx[u].w \cap DOMAIN tx[t].w = {}
      BY <2>2, <3>1 DEF Sound, Shape, ClaimsIInv, OneWriter
    <3>3. ASSUME NEW p \in Pairs, rowX[p] = u PROVE p \notin DOMAIN tx[t].w
      <4>1. claims[p] # "absent" \/ p \in tx[u].added
        BY <3>1, <3>3 DEF Sound, Held
      <4>2. QED
        BY <2>2, <3>2, <3>3, <4>1, NotWritten
    <3>4. \A p \in Pairs : p \notin DOMAIN tx[t].w => claims'[p] = claims[p]
      BY <1>1 DEF View
    <3>5. DOMAIN tx[u].w \subseteq Pairs
      BY <3>1 DEF TxState
    <3>6. /\ \A p \in Pairs : rowX[p] = u => claims'[p] = claims[p]
          /\ \A p \in tx[u].added : claims'[p] = claims[p]
      BY <3>2, <3>3, <3>4, <3>5
    <3>7. \A p \in Pairs : rowX'[p] = u <=> rowX[p] = u
      BY <1>6, <2>2
    <3>8. Sound(tx[u], u, known, claims', rowX')
      BY <1>2, <3>1, <3>6, <3>7, Stands
    <3>9. QED
      BY <1>7, <2>2, <3>8
  <2>3. QED
    BY <2>1, <2>2
<1>10. OneWriter'
  BY <1>7, NoTxType DEF ClaimsIInv, OneWriter
<1>11. AuditMatchesClaims'
  <2> SUFFICES ASSUME NEW p \in Pairs
               PROVE  logged'[p] = (IF claims'[p] = "absent" THEN 0 ELSE 1)
    BY DEF AuditMatchesClaims
  <2>1. logged'[p] = logged[p] + (IF p \in tx[t].added THEN 1 ELSE 0)
                               - (IF p \in tx[t].removed THEN 1 ELSE 0)
    BY DEF Commit
  <2>2. logged[p] = (IF claims[p] = "absent" THEN 0 ELSE 1)
    BY DEF ClaimsIInv, AuditMatchesClaims
  <2>3. claims'[p] = IF p \in DOMAIN tx[t].w THEN tx[t].w[p] ELSE claims[p]
    BY <1>1 DEF View
  <2>4. p \in DOMAIN tx[t].w =>
          /\ tx[t].w[p] = "absent" <=> p \in tx[t].removed
          /\ claims[p] = "absent" <=> p \in tx[t].added
    BY <1>2 DEF Sound, Logged
  <2>5. QED
    BY <1>3, <2>1, <2>2, <2>3, <2>4
<1>12. ClaimsTypeOK'
  BY <1>1, <1>2, <1>4, <1>5, <1>6, <1>7 DEF ClaimsTypeOK
<1>13. QED
  BY <1>1, <1>8, <1>9, <1>10, <1>11, <1>12 DEF ClaimsIInv

LEMMA ClaimsNextInv == ClaimsIInv /\ [ClaimsNext]_claimsVars => ClaimsIInv'
<1> SUFFICES ASSUME ClaimsIInv, [ClaimsNext]_claimsVars PROVE ClaimsIInv'
  OBVIOUS
<1>1. CASE UNCHANGED claimsVars
  BY <1>1 DEF claimsVars, data, locks, ClaimsIInv, ClaimsTypeOK, OneWriter, AuditMatchesClaims
<1>2. ASSUME NEW t \in Tx, TxStep(t) PROVE ClaimsIInv'
  BY <1>2, LockBloggerStep, LockFromStep, AddStep, ShareBloggerStep, SwitchReceiverStep,
     RevokeGiverStep, CommitStep
  DEF TxStep
<1>3. QED
  BY <1>1, <1>2, CreateBloggerStep, RevokeStep, SwitchStep, BeginClaimsStep, RollbackStep
  DEF ClaimsNext, Fail

THEOREM ClaimsInvariant == ClaimsSpec => []ClaimsIInv
BY ClaimsInitInv, ClaimsNextInv, PTL DEF ClaimsSpec

-----------------------------------------------------------------------------
(* Claims: the properties *)

(* Claims, transactions and locks keep their types, for any bloggers, PRs,
   WeChats and transactions. *)
THEOREM ClaimsTypeCorrect == ClaimsSpec => []ClaimsTypeOK
BY ClaimsInvariant, PTL DEF ClaimsIInv

(* The audit of claim_service: each claim is there once more claimed than revoked,
   however batches, transfers, revocations and failures interleave. *)
THEOREM AuditTellsTheClaims == ClaimsSpec => []AuditMatchesClaims
BY ClaimsInvariant, PTL DEF ClaimsIInv

(* transfer: what commits has moved the claim, with the work WeChat asked for. *)
THEOREM TransferMovesTheClaim == ClaimsSpec => TransferKeepsClaim
<1> DEFINE Moves(t) ==
      tx[t].op = "transfer" /\ tx[t].pc = "commit" /\ claims' # claims =>
        \/ tx'[t] = tx[t]
        \/ claims'[Target(t)] = tx[t].work /\ claims'[Item(t)] = "absent"
<1>1. ClaimsIInv /\ [ClaimsNext]_claimsVars => [\A t \in Tx : Moves(t)]_claimsVars
  <2> SUFFICES ASSUME ClaimsIInv, [ClaimsNext]_claimsVars, NEW t \in Tx,
                      tx[t].op = "transfer", tx[t].pc = "commit", claims' # claims,
                      tx'[t] # tx[t]
               PROVE  claims'[Target(t)] = tx[t].work /\ claims'[Item(t)] = "absent"
    OBVIOUS
  <2>1. tx \in [Tx -> TxState]
    BY DEF ClaimsIInv, ClaimsTypeOK
  <2>2. Commit(t)
    <3>1. PICK u \in Tx : Commit(u)
      BY DEF ClaimsNext, claimsVars, data, locks, CreateBlogger, Revoke, SwitchWorkWechat,
             BeginClaims, TxStep, LockBlogger, LockFrom, Add, ShareBlogger, SwitchReceiver,
             RevokeGiver, Fail, Rollback
    <3>2. u = t
      BY <2>1, <3>1 DEF Commit
    <3>3. QED
      BY <3>1, <3>2
  <2>3. /\ Sound(tx[t], t, known, claims, rowX) /\ Item(t) \in Pairs /\ Target(t) \in Pairs
        /\ Item(t) = Giver(tx[t]) /\ Target(t) = Receiver(tx[t])
    BY AtItem
  <2>4. claims'[Item(t)] = View(t, Item(t)) /\ claims'[Target(t)] = View(t, Target(t))
    BY <2>2, <2>3 DEF Commit
  <2>5. QED
    BY <2>3, <2>4 DEF View, Sound, Held
<1>2. QED
  BY ClaimsInvariant, <1>1, PTL DEF ClaimsSpec, TransferKeepsClaim

-----------------------------------------------------------------------------
(* Claims implements RegisterContract *)

(* What a transaction has written, by its kind: a batch what it has added, with
   the WeChat it names; a transfer at most the two claims it is about. *)
Scope(x) ==
    /\ x.op # "transfer" => /\ x.removed = {} /\ DOMAIN x.w \subseteq x.added
                            /\ \A p \in DOMAIN x.w : x.w[p] = x.work
    /\ x.op = "transfer" => /\ x.added \subseteq {Receiver(x)}
                            /\ DOMAIN x.w \subseteq {Giver(x), Receiver(x)}
                            /\ x.pc = "commit" => x.removed = {Giver(x)}

ScopeInv == \A t \in Tx : Scope(tx[t])

LEMMA StartedScope ==
    ASSUME NEW op, NEW pc, NEW todo, NEW to, NEW work, pc # "commit"
    PROVE  Scope(Started(op, pc, todo, to, work))
<1>1. DOMAIN <<>> = {}
  OBVIOUS
<1> QED
  BY <1>1 DEF Scope, Started

LEMMA AfterScope ==
    ASSUME NEW t \in Tx, NEW r \in TxState, Scope(r), r.op # "transfer" \/ r.pc # "commit"
    PROVE  Scope(After(t, r))
<1> DEFINE x == After(t, r)
<1>1. /\ x.op = r.op /\ x.to = r.to /\ x.work = r.work
      /\ x.w = r.w /\ x.added = r.added /\ x.removed = r.removed
      /\ r.op = "transfer" => x.todo = r.todo /\ x.pc = "switch"
  BY DEF After, TxState
<1> QED
  BY <1>1 DEF Scope, Giver, Receiver

LEMMA ScopeStep ==
    ASSUME ClaimsIInv, ScopeInv, NEW t \in Tx, BeginClaims(t) \/ TxStep(t) \/ Fail(t)
    PROVE  ScopeInv'
<1>1. tx \in [Tx -> TxState] /\ tx[t] \in TxState /\ Scope(tx[t])
  BY DEF ClaimsIInv, ClaimsTypeOK, ScopeInv
<1>2. ASSUME NEW x, Scope(x), tx' = [tx EXCEPT ![t] = x] PROVE ScopeInv'
  BY <1>1, <1>2 DEF ScopeInv
<1>3. CASE BeginClaims(t)
  <2>1. ASSUME NEW op, NEW pc, NEW todo, NEW to, NEW work, pc # "commit",
               Starts(t, op, pc, todo, to, work)
        PROVE  ScopeInv'
    <3>1. tx' = [tx EXCEPT ![t] = Started(op, pc, todo, to, work)]
      BY <2>1 DEF Starts
    <3>2. Scope(Started(op, pc, todo, to, work))
      BY <2>1, StartedScope
    <3> HIDE DEF Started
    <3> QED  BY <1>2, <3>1, <3>2
  <2> QED
    BY <1>3, <2>1 DEF BeginClaims
<1>4. CASE Rollback(t) \/ Commit(t)
  <2>1. Scope(NoTx)
    BY StartedScope DEF NoTx
  <2>2. tx' = [tx EXCEPT ![t] = NoTx]
    BY <1>4 DEF Rollback, Commit
  <2> QED  BY <1>2, <2>1, <2>2
<1>5. CASE LockBlogger(t)
  <2>1. PICK x \in {After(t, tx[t]), [tx[t] EXCEPT !.pc = "add"]} : tx' = [tx EXCEPT ![t] = x]
    BY <1>5 DEF LockBlogger, Advance
  <2>2. tx[t].op = "self"
    BY <1>5 DEF LockBlogger
  <2>3. CASE x = After(t, tx[t])
    BY <1>1, <1>2, <2>1, <2>2, <2>3, AfterScope
  <2>4. CASE x = [tx[t] EXCEPT !.pc = "add"]
    <3>1. /\ x.op = tx[t].op /\ x.work = tx[t].work /\ x.w = tx[t].w
          /\ x.added = tx[t].added /\ x.removed = tx[t].removed
      BY <1>1, <2>4, PcType
    <3>2. Scope(x)
      BY <1>1, <2>2, <3>1 DEF Scope
    <3> QED  BY <1>2, <2>1, <3>2
  <2> QED  BY <2>1, <2>3, <2>4
<1>6. CASE LockFrom(t) /\ ~Rollback(t)
  <2> DEFINE x == [tx[t] EXCEPT !.pc = "add"]
  <2>1. tx' = [tx EXCEPT ![t] = x]
    BY <1>6 DEF LockFrom
  <2>2. /\ x.op = tx[t].op /\ x.todo = tx[t].todo /\ x.to = tx[t].to /\ x.work = tx[t].work
        /\ x.w = tx[t].w /\ x.added = tx[t].added /\ x.removed = tx[t].removed /\ x.pc = "add"
    BY <1>1, PcType
  <2> HIDE DEF x
  <2>3. Scope(x)
    BY <1>1, <2>2 DEF Scope, Giver, Receiver
  <2> QED  BY <1>2, <2>1, <2>3
<1>7. CASE Add(t)
  <2> DEFINE p == Target(t)
             z == Written(t, p, tx[t].work, "key")
  <2>1. PICK x \in {After(t, tx[t]), [z EXCEPT !.added = @ \cup {p}]} : tx' = [tx EXCEPT ![t] = x]
    BY <1>7 DEF Add, Advance
  <2>2. tx[t].pc = "add"
    BY <1>7 DEF Add
  <2>3. p \in Pairs /\ tx[t].work \in Values /\ (tx[t].op = "transfer" => p = Receiver(tx[t]))
    BY <2>2, AtItem DEF Values
  <2> HIDE DEF p
  <2>4. /\ z \in TxState /\ z.op = tx[t].op /\ z.pc = "key" /\ z.todo = tx[t].todo
        /\ z.to = tx[t].to /\ z.work = tx[t].work /\ z.added = tx[t].added
        /\ z.removed = tx[t].removed /\ DOMAIN z.w = DOMAIN tx[t].w \cup {p}
        /\ z.w[p] = tx[t].work /\ \A q \in DOMAIN tx[t].w \ {p} : z.w[q] = tx[t].w[q]
    BY <1>1, <2>3, WrittenType
  <2> HIDE DEF z
  <2>5. Scope(x)
    <3>1. CASE x = After(t, tx[t])
      BY <1>1, <2>2, <3>1, AfterScope
    <3>2. CASE x = [z EXCEPT !.added = @ \cup {p}]
      <4>1. /\ x \in TxState /\ x.op = z.op /\ x.pc = z.pc /\ x.todo = z.todo /\ x.to = z.to
            /\ x.work = z.work /\ x.w = z.w /\ x.removed = z.removed
            /\ x.added = z.added \cup {p}
        BY <2>3, <2>4, <3>2, AddedType
      <4>2. CASE tx[t].op = "transfer"
        BY <1>1, <2>3, <2>4, <4>1, <4>2 DEF Scope, Giver, Receiver
      <4>3. CASE tx[t].op # "transfer"
        BY <1>1, <2>4, <4>1, <4>3 DEF Scope
      <4> QED  BY <4>2, <4>3
    <3> QED  BY <2>1, <3>1, <3>2
  <2> QED  BY <1>2, <2>1, <2>5
<1>10. CASE ShareBlogger(t)
  <2>1. tx[t].pc = "key" /\ tx' = [tx EXCEPT ![t] = After(t, tx[t])]
    BY <1>10 DEF ShareBlogger, Advance
  <2> QED  BY <1>1, <1>2, <2>1, AfterScope
<1>8. CASE SwitchReceiver(t) /\ ~Rollback(t)
  <2> DEFINE p == Target(t)
             z == Written(t, p, tx[t].work, "revoke")
  <2>1. tx[t].pc = "switch" /\ \E x \in {[tx[t] EXCEPT !.pc = "revoke"], z} :
                                  tx' = [tx EXCEPT ![t] = x]
    BY <1>8 DEF SwitchReceiver
  <2>2. tx[t].op = "transfer"
    BY <2>1, AtItem DEF Sound, Shape
  <2>3. p \in Pairs /\ tx[t].work \in Values /\ p = Receiver(tx[t])
    BY <2>1, <2>2, AtItem DEF Values
  <2> HIDE DEF p
  <2>4. PICK x \in {[tx[t] EXCEPT !.pc = "revoke"], z} : tx' = [tx EXCEPT ![t] = x]
    BY <2>1
  <2>5. /\ x.op = tx[t].op /\ x.pc = "revoke" /\ x.todo = tx[t].todo /\ x.to = tx[t].to
        /\ x.added = tx[t].added /\ DOMAIN x.w \subseteq DOMAIN tx[t].w \cup {p}
    <3>1. CASE x = z
      BY <1>1, <2>3, <3>1, WrittenType
    <3>2. CASE x = [tx[t] EXCEPT !.pc = "revoke"]
      BY <1>1, <3>2, PcType
    <3> QED  BY <2>4, <3>1, <3>2
  <2>6. Scope(x)
    BY <1>1, <2>2, <2>3, <2>5 DEF Scope, Giver, Receiver
  <2> QED  BY <1>2, <2>4, <2>6
<1>9. CASE RevokeGiver(t)
  <2> DEFINE p == Item(t)
             z == Written(t, p, "absent", "commit")
             x == [z EXCEPT !.removed = @ \cup {p}]
  <2>1. tx[t].pc = "revoke" /\ tx' = [tx EXCEPT ![t] = x]
    BY <1>9 DEF RevokeGiver
  <2>2. tx[t].op = "transfer" /\ tx[t].removed = {}
    BY <2>1, AtItem DEF Sound, Shape
  <2>3. p \in Pairs /\ p = Giver(tx[t])
    BY <2>1, <2>2, AtItem
  <2> HIDE DEF p
  <2>4. /\ z \in TxState /\ z.op = tx[t].op /\ z.todo = tx[t].todo /\ z.to = tx[t].to
        /\ z.added = tx[t].added /\ z.removed = {} /\ DOMAIN z.w = DOMAIN tx[t].w \cup {p}
    BY <1>1, <2>2, <2>3, WrittenType DEF Values
  <2> HIDE DEF z
  <2>5. /\ x.op = z.op /\ x.todo = z.todo /\ x.to = z.to /\ x.w = z.w /\ x.added = z.added
        /\ x.removed = {p}
    BY <2>3, <2>4, RemovedType
  <2> HIDE DEF x
  <2>6. Scope(x)
    BY <1>1, <2>2, <2>3, <2>4, <2>5 DEF Scope, Giver, Receiver
  <2> QED  BY <1>2, <2>1, <2>6
<1> QED
  BY <1>3, <1>4, <1>5, <1>6, <1>7, <1>8, <1>9, <1>10 DEF TxStep, Fail

LEMMA ScopeInvariant == ClaimsSpec => []ScopeInv
<1>1. ClaimsInit => ScopeInv
  BY StartedScope DEF ClaimsInit, ScopeInv, NoTx
<1>2. ClaimsIInv /\ ScopeInv /\ [ClaimsNext]_claimsVars => ScopeInv'
  <2> SUFFICES ASSUME ClaimsIInv, ScopeInv, [ClaimsNext]_claimsVars PROVE ScopeInv'
    OBVIOUS
  <2>1. CASE tx' = tx
    BY <2>1 DEF ScopeInv
  <2>2. CASE tx' # tx
    <3>1. \E t \in Tx : BeginClaims(t) \/ TxStep(t) \/ Fail(t)
      BY <2>2 DEF ClaimsNext, claimsVars, CreateBlogger, Revoke, SwitchWorkWechat
    <3> QED  BY <3>1, ScopeStep
  <2> QED  BY <2>1, <2>2
<1> QED
  BY ClaimsInvariant, <1>1, <1>2, PTL DEF ClaimsSpec

(* The commit of a batch enters its claims, the commit of a transfer moves one. *)
LEMMA BatchEnters ==
    ASSUME ClaimsIInv, ScopeInv, NEW t \in Tx, Commit(t), tx[t].op # "transfer"
    PROVE  Register!Claim
<1> DEFINE x == tx[t]
<1>1. /\ Shape(x, known) /\ Logged(x, t, claims, rowX) /\ Scope(x) /\ x.work \in Wechats
      /\ DOMAIN x.w \subseteq Pairs
  BY AtItem DEF Commit, Sound, ScopeInv, TxState
<1>2. DOMAIN x.w = x.added /\ x.added \in SUBSET (known \X PRs) /\ x.removed = {}
  BY <1>1 DEF Scope, Shape
<1>3. logged \in [Pairs -> Int] /\ known' = known
  BY DEF Commit, ClaimsIInv, ClaimsTypeOK
<1>4. \A p \in x.added : claims[p] = "absent"
  BY <1>1, <1>2 DEF Logged
<1>5. claims' = [p \in Pairs |-> IF p \in x.added THEN x.work ELSE claims[p]]
  BY <1>1, <1>2 DEF Commit, View, Scope
<1>6. logged' = [p \in Pairs |-> IF p \in x.added THEN logged[p] + 1 ELSE logged[p]]
  BY <1>2, <1>3 DEF Commit
<1> HIDE DEF x
<1>7. Register!Enter(x.added, x.work)
  BY <1>4, <1>5, <1>6 DEF Register!Enter, Register!Entries, Pairs
<1> QED
  BY <1>1, <1>2, <1>3, <1>7 DEF Register!Claim

LEMMA TransferMoves ==
    ASSUME ClaimsIInv, ScopeInv, NEW t \in Tx, Commit(t), tx[t].op = "transfer"
    PROVE  Register!Next
<1> DEFINE x == tx[t]
           from == Giver(x)
           to == Receiver(x)
<1>1. /\ Shape(x, known) /\ Logged(x, t, claims, rowX) /\ Held(x, t, claims, rowX)
      /\ Scope(x) /\ x.pc = "commit" /\ x.work \in Wechats /\ x.work # "absent"
      /\ from \in Pairs /\ to \in Pairs /\ from # to
  BY AtItem DEF Commit, Sound, ScopeInv
<1>2. /\ x.removed = {from} /\ x.added \subseteq {to} /\ DOMAIN x.w \subseteq {from, to}
      /\ from \in DOMAIN x.w /\ x.w[from] = "absent"
      /\ (IF to \in DOMAIN x.w THEN x.w[to] ELSE claims[to]) = x.work
  BY <1>1 DEF Scope, Held
<1>3. claims[from] # "absent" /\ (to \in x.added <=> claims[to] = "absent")
  <2>1. from \notin x.added
    BY <1>1, <1>2
  <2>2. claims[from] # "absent"
    BY <1>1, <1>2, <2>1 DEF Logged
  <2>3. ASSUME claims[to] = "absent" PROVE to \in x.added
    BY <1>1, <1>2, <2>3 DEF Logged
  <2>4. ASSUME to \in x.added PROVE claims[to] = "absent"
    BY <1>1, <2>4 DEF Logged, Shape
  <2> QED  BY <2>2, <2>3, <2>4
<1>4. logged \in [Pairs -> Int] /\ known' = known
  BY DEF Commit, ClaimsIInv, ClaimsTypeOK
<1>5. from = <<from[1], from[2]>> /\ to = <<from[1], to[2]>>
      /\ from[1] \in Bloggers /\ from[2] \in PRs /\ to[2] \in PRs
  BY <1>1 DEF Receiver, Pairs
<1> HIDE DEF x, from, to
<1>6. claims' = [p \in Pairs |-> IF p = from THEN "absent" ELSE IF p = to THEN x.work ELSE claims[p]]
  BY <1>1, <1>2 DEF Commit, View, x
<1>7. logged' = [p \in Pairs |-> IF p = from THEN logged[p] - 1
                                 ELSE IF p = to /\ claims[p] = "absent" THEN logged[p] + 1 ELSE logged[p]]
  BY <1>1, <1>2, <1>3, <1>4 DEF Commit, x
<1>8. Register!Move(from[1], from[2], to[2])
  <2>1. from[2] # to[2]
    BY <1>1, <1>5
  <2> QED
    BY <1>1, <1>3, <1>4, <1>5, <1>6, <1>7, <2>1 DEF Register!Move, Register!Entries, Pairs
<1> QED
  BY <1>5, <1>8 DEF Register!Next

LEMMA StatementRegisters ==
    ASSUME ClaimsIInv, \/ \E b \in Bloggers : CreateBlogger(b)
                       \/ \E p \in Pairs : Revoke(p) \/ SwitchWorkWechat(p)
    PROVE  Register!Next
<1>1. /\ claims \in [Pairs -> Values] /\ logged \in [Pairs -> Int]
      /\ \A p \in Pairs : claims[p] # "absent" => p[1] \in known
  BY DEF ClaimsIInv, ClaimsTypeOK
<1>2. ASSUME NEW b \in Bloggers, CreateBlogger(b) PROVE Register!Open(b)
  <2>1. b \notin known /\ known' = known \cup {b}
    BY <1>2 DEF CreateBlogger
  <2>2. CASE UNCHANGED <<claims, logged>>
    BY <2>1, <2>2 DEF Register!Open
  <2>3. ASSUME NEW pr \in PRs, NEW w \in Values \ {"absent"},
               claims' = [claims EXCEPT ![<<b, pr>>] = w],
               logged' = [logged EXCEPT ![<<b, pr>>] = @ + 1]
        PROVE  Register!Open(b)
    <3> DEFINE p == <<b, pr>>
    <3>1. p \in Pairs /\ claims[p] = "absent"
      BY <1>1, <2>1 DEF Pairs
    <3>2. claims' = [claims EXCEPT ![p] = w] /\ logged' = [logged EXCEPT ![p] = @ + 1]
      BY <2>3
    <3> HIDE DEF p
    <3>3. claims' = [q \in Pairs |-> IF q \in {p} THEN w ELSE claims[q]]
      BY <1>1, <3>1, <3>2
    <3>4. logged' = [q \in Pairs |-> IF q \in {p} THEN logged[q] + 1 ELSE logged[q]]
      BY <1>1, <3>1, <3>2
    <3>5. Register!Enter({p}, w)
      BY <3>1, <3>3, <3>4 DEF Register!Enter, Register!Entries, Pairs
    <3>6. Register!Enter({<<b, pr>>}, w) /\ w \in Wechats \cup {"pending"}
      BY <2>3, <3>5 DEF p, Values
    <3> QED  BY <2>1, <3>6 DEF Register!Open
  <2> QED  BY <1>2, <2>2, <2>3 DEF CreateBlogger
<1>3. ASSUME NEW p \in Pairs, Revoke(p) PROVE Register!Remove(p)
  BY <1>3 DEF Revoke, Register!Remove
<1>4. ASSUME NEW p \in Pairs, SwitchWorkWechat(p) PROVE Register!Mark(p)
  BY <1>4 DEF SwitchWorkWechat, Register!Mark
<1> QED
  BY <1>2, <1>3, <1>4 DEF Register!Next, Register!Entries, Pairs

(* Batches, self claims and transfers that take several statements, wait for each
   other, lose deadlocks and are undone, behave as if each happened in one
   instant or not at all: RegisterContract. *)
THEOREM ClaimsMoveAtOnce == ClaimsSpec => ImplementsRegisterContract
<1>1. ASSUME ClaimsInit PROVE Register!Init
  BY <1>1 DEF ClaimsInit, Register!Init, Register!Entries, Pairs
<1>2. ASSUME ClaimsIInv, ScopeInv, [ClaimsNext]_claimsVars
      PROVE  [Register!Next]_(Register!register)
  <2>1. CASE UNCHANGED data
    BY <2>1 DEF data, Register!register
  <2>2. CASE ~ UNCHANGED data
    <3>1. \/ \E b \in Bloggers : CreateBlogger(b)
          \/ \E p \in Pairs : Revoke(p) \/ SwitchWorkWechat(p)
          \/ \E t \in Tx : Commit(t)
      BY <1>2, <2>2 DEF ClaimsNext, claimsVars, BeginClaims, TxStep, LockBlogger, LockFrom, Add,
         ShareBlogger, SwitchReceiver, RevokeGiver, Fail, Rollback
    <3>2. ASSUME NEW t \in Tx, Commit(t) PROVE Register!Next
      BY <1>2, <3>2, BatchEnters, TransferMoves DEF Register!Next
    <3> QED  BY <1>2, <3>1, <3>2, StatementRegisters
  <2> QED  BY <2>1, <2>2
<1> QED
  BY <1>1, <1>2, ClaimsInvariant, ScopeInvariant, PTL
  DEF ClaimsSpec, ImplementsRegisterContract, Register!Spec

=============================================================================
