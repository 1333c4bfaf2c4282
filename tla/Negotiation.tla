---------------------------- MODULE Negotiation ----------------------------
(***************************************************************************)
(* The negotiations of modules/negotiation: a PR agrees a deal with a       *)
(* blogger, a PR manager and the boss review it, the receiver is confirmed, *)
(* and that creates the promotion.                                          *)
(*                                                                          *)
(* Each request is one transaction under READ COMMITTED: it reads the       *)
(* document without a lock and decides on what it read, and its conditional *)
(* UPDATE (NegotiationRepository.update_state) tests the status, and for    *)
(* most operations the PR, once more.  From that UPDATE to the commit the   *)
(* row is locked; the two are one step here.                                *)
(***************************************************************************)
EXTENDS Integers, FiniteSets

CONSTANTS
    Doc,       \* ids for negotiations
    User,      \* users who may write negotiations
    Manager,   \* ... who were given negotiation.review:approve
    Star,      \* ... the bosses (permission "*")
    NoOne,     \* no reviewer yet
    Request,   \* requests at work at the same time
    MaxEdits,  \* bound: edits of one negotiation
    MaxCreated \* bound: negotiations there may be when another is created

ASSUME UserAssumption ==
    /\ Manager \subseteq User /\ Star \subseteq User /\ NoOne \notin User
ASSUME DocAssumption == IsFiniteSet(Doc)
ASSUME BoundAssumption == MaxEdits \in Nat /\ MaxCreated \in Nat

VARIABLES
    doc,  \* the committed rows with their items and their last submit event
    req   \* the requests at work

vars == <<doc, req>>

-----------------------------------------------------------------------------

OwnerEditable == {"DRAFT", "FINAL_RETURNED"}
Reassignable == {"PENDING", "FINAL_PENDING", "FINAL_RETURNED", "RECEIVER_PENDING"}
Terminal == {"REJECTED", "APPROVED"}
Status == OwnerEditable \cup Reassignable \cup Terminal

(* How much of SUBMIT_GATES is filled in: everything; all but items, date,
   blogger ...; not even the style and the fee. *)
Fill == {"full", "partial", "bare"}

Content == [ver : 0..MaxEdits, fill : Fill]

Promotion == [content : Content, pr : User]

(* status "NONE": the id is not in use. *)
DocState ==
    [status : Status \cup {"NONE"}, pr : User \cup {NoOne}, content : Content, shown : Content,
     reviewed : User \cup {NoOne}, final : User \cup {NoOne},
     receiver : {"none", "saved", "confirmed"}, promotions : SUBSET Promotion]

Op == {"edit", "submit", "review", "final", "save", "confirm", "reassign"}
Arg == Fill \cup {"approve", "reject", "none"} \cup User

(* What of the document a request read is used later on. *)
Seen == [status : Status, pr : User, content : Content]

RequestState == [op : Op, actor : User, doc : Doc, arg : Arg, seen : Seen]

TypeOK ==
    /\ doc \in [Doc -> DocState]
    /\ req \in [Request -> [op : {"idle"}] \cup RequestState]

Idle == [op |-> "idle"]

Blank(pr, fill) ==
    [status |-> "DRAFT", pr |-> pr, content |-> [ver |-> 0, fill |-> fill],
     shown |-> [ver |-> 0, fill |-> fill], reviewed |-> NoOne, final |-> NoOne,
     receiver |-> "none", promotions |-> {}]

Init ==
    /\ doc = [d \in Doc |-> [Blank(NoOne, "bare") EXCEPT !.status = "NONE"]]
    /\ req = [r \in Request |-> Idle]

-----------------------------------------------------------------------------
(* New documents *)

(* Create: a draft, complete or not; holders of "*" may not. *)
Create(u, d) ==
    /\ doc[d].status = "NONE"
    /\ Cardinality({e \in Doc : doc[e].status # "NONE"}) < MaxCreated
    /\ u \notin Star
    /\ \E fill \in Fill : doc' = [doc EXCEPT ![d] = Blank(u, fill)]
    /\ UNCHANGED req

(* The owner starts again from a rejected negotiation; that one stays. *)
Copy(u, d, new) ==
    /\ doc[d].status = "REJECTED" /\ doc[d].pr = u
    /\ doc[new].status = "NONE"
    /\ doc' = [doc EXCEPT ![new] = Blank(u, doc[d].content.fill)]
    /\ UNCHANGED req

-----------------------------------------------------------------------------
(* What a request decides on: _load_for_action and flow.matrix.require *)

Opens(r, u, d, op, arg) ==
    /\ req[r].op = "idle"
    /\ req' = [req EXCEPT ![r] =
                 [op |-> op, actor |-> u, doc |-> d, arg |-> arg,
                  seen |-> [status |-> doc[d].status, pr |-> doc[d].pr, content |-> doc[d].content]]]
    /\ UNCHANGED doc

BeginEdit(r, u, d) ==
    /\ doc[d].status \in OwnerEditable /\ doc[d].pr = u
    /\ \E fill \in Fill :
          /\ fill = "bare" => doc[d].status = "DRAFT"
          /\ Opens(r, u, d, "edit", fill)

BeginSubmit(r, u, d) ==
    /\ doc[d].status \in OwnerEditable /\ doc[d].pr = u
    /\ doc[d].content.fill = "full"
    /\ Opens(r, u, d, "submit", "none")

BeginReview(r, u, d) ==
    /\ doc[d].status = "PENDING"
    /\ u \in Manager \ Star /\ u # doc[d].pr
    /\ \E verdict \in {"approve", "reject"} : Opens(r, u, d, "review", verdict)

BeginFinal(r, u, d) ==
    /\ doc[d].status = "FINAL_PENDING"
    /\ u \in Star /\ u \notin {doc[d].pr, doc[d].reviewed}
    /\ \E verdict \in {"approve", "reject"} : Opens(r, u, d, "final", verdict)

(* Saving or confirming the receiver: the PR, or a reviewer for them. *)
BeginReceiver(r, u, d) ==
    /\ doc[d].status = "RECEIVER_PENDING"
    /\ u = doc[d].pr \/ u \in Manager \cup Star
    /\ \E op \in {"save", "confirm"} : Opens(r, u, d, op, "none")

(* _check_assignee *)
Assignee(d) == User \ (Star \cup {doc[d].pr, doc[d].reviewed, doc[d].final})

BeginReassign(r, u, d) ==
    /\ doc[d].status \in Reassignable
    /\ u \in Star
    /\ \E to \in Assignee(d) : Opens(r, u, d, "reassign", to)

-----------------------------------------------------------------------------
(* What it does about it: update_state and what follows *)

(* Mutants: the UPDATE tests the status but not the PR; it tests the PR but
   not the status. *)
HitsStatusOnly(q) == doc[q.doc].status \in (IF q.op = "edit" THEN OwnerEditable ELSE {q.seen.status})
HitsPrOnly(q) == q.op \in {"review", "final"} \/ doc[q.doc].pr = q.seen.pr

(* The WHERE of the conditional UPDATE. *)
Hits(q) ==
    /\ doc[q.doc].status \in (IF q.op = "edit" THEN OwnerEditable ELSE {q.seen.status})
    /\ q.op \notin {"review", "final"} => doc[q.doc].pr = q.seen.pr

(* ck_negotiation_submitted_complete, uq_promotion_line *)
Permitted(q) ==
    /\ q.op = "edit" /\ q.arg = "bare" => doc[q.doc].status = "DRAFT"
    /\ q.op = "submit" => doc[q.doc].content.fill # "bare"
    /\ q.op = "confirm" => doc[q.doc].promotions = {}

Lands(r, op) == req[r].op = op /\ Hits(req[r]) /\ Permitted(req[r])

Ends(r) == req' = [req EXCEPT ![r] = Idle]

(* 409, or an integrity error: nothing is written. *)
Refuse(r) ==
    /\ req[r].op # "idle"
    /\ ~(Hits(req[r]) /\ Permitted(req[r]))
    /\ Ends(r)
    /\ UNCHANGED doc

(* The content, and its items with it. *)
Edit(r) ==
    /\ Lands(r, "edit")
    /\ doc[req[r].doc].content.ver < MaxEdits
    /\ doc' = [doc EXCEPT ![req[r].doc].content = [ver |-> @.ver + 1, fill |-> req[r].arg]]
    /\ Ends(r)

(* Mutant: the reviewers of the last round are kept. *)
SubmitKeep(r) ==
    /\ Lands(r, "submit")
    /\ doc' = [doc EXCEPT ![req[r].doc].status = "PENDING",
                          ![req[r].doc].shown = req[r].seen.content]
    /\ Ends(r)

(* The event keeps the content as it was read; this round has no reviewer. *)
Submit(r) ==
    /\ Lands(r, "submit")
    /\ doc' = [doc EXCEPT ![req[r].doc].status = "PENDING",
                          ![req[r].doc].shown = req[r].seen.content,
                          ![req[r].doc].reviewed = NoOne,
                          ![req[r].doc].final = NoOne]
    /\ Ends(r)

Review(r) ==
    /\ Lands(r, "review")
    /\ doc' = [doc EXCEPT ![req[r].doc].status = IF req[r].arg = "approve" THEN "FINAL_PENDING"
                                                 ELSE "REJECTED",
                          ![req[r].doc].reviewed = req[r].actor]
    /\ Ends(r)

FinalReview(r) ==
    /\ Lands(r, "final")
    /\ doc' = [doc EXCEPT ![req[r].doc].status = IF req[r].arg = "approve" THEN "RECEIVER_PENDING"
                                                 ELSE "FINAL_RETURNED",
                          ![req[r].doc].final = req[r].actor]
    /\ Ends(r)

SaveReceiver(r) ==
    /\ Lands(r, "save")
    /\ doc' = [doc EXCEPT ![req[r].doc].receiver = "saved"]
    /\ Ends(r)

(* The promotion is made from what was read, for the PR that was read. *)
ConfirmReceiver(r) ==
    /\ Lands(r, "confirm")
    /\ doc' = [doc EXCEPT ![req[r].doc].status = "APPROVED",
                          ![req[r].doc].receiver = "confirmed",
                          ![req[r].doc].promotions =
                              @ \cup {[content |-> req[r].seen.content, pr |-> req[r].seen.pr]}]
    /\ Ends(r)

Reassign(r) ==
    /\ Lands(r, "reassign")
    /\ doc' = [doc EXCEPT ![req[r].doc].pr = req[r].arg]
    /\ Ends(r)

-----------------------------------------------------------------------------

Begin(r, u, d) ==
    \/ BeginEdit(r, u, d) \/ BeginSubmit(r, u, d) \/ BeginReview(r, u, d)
    \/ BeginFinal(r, u, d) \/ BeginReceiver(r, u, d) \/ BeginReassign(r, u, d)

Write(r) ==
    \/ Edit(r) \/ Submit(r) \/ Review(r) \/ FinalReview(r)
    \/ SaveReceiver(r) \/ ConfirmReceiver(r) \/ Reassign(r)

Next ==
    \/ \E u \in User, d \in Doc : Create(u, d) \/ (\E new \in Doc : Copy(u, d, new))
    \/ \E r \in Request, u \in User, d \in Doc : Begin(r, u, d)
    \/ \E r \in Request : Write(r) \/ Refuse(r)

Spec == Init /\ [][Next]_vars

-----------------------------------------------------------------------------
(* Properties *)

(* Both levels have decided before a promotion exists, and in no state is
   there a verdict of another round than the current one: a resubmitted
   negotiation starts with no reviewers. *)
TwoLevels ==
    \A d \in Doc : doc[d].status # "NONE" =>
        /\ doc[d].reviewed # NoOne <=> doc[d].status \notin {"DRAFT", "PENDING"}
        /\ doc[d].final # NoOne <=>
             doc[d].status \in {"FINAL_RETURNED", "RECEIVER_PENDING", "APPROVED"}
        /\ doc[d].final # NoOne => doc[d].final # doc[d].reviewed

(* ck_negotiation_finalized_has_promotion, and what N9 is for: one promotion,
   made exactly when the negotiation is final, with the content the boss
   approved and for the PR the negotiation has now. *)
PromotionIsTheDeal ==
    \A d \in Doc :
        IF doc[d].status = "APPROVED"
        THEN doc[d].promotions = {[content |-> doc[d].content, pr |-> doc[d].pr]}
        ELSE doc[d].promotions = {}

(* Nothing moves under the reviewers: once submitted the content stays as it
   is until the boss returns it, whatever requests were at work. *)
FrozenUnderReview ==
    [][\A d \in Doc : doc'[d].content # doc[d].content =>
          doc[d].status \in OwnerEditable \cup {"NONE"}]_vars

(* A rejected or finished negotiation never changes again: not its status, its
   PR, its reviewers or its receiver. *)
TerminalIsFinal ==
    [][\A d \in Doc : doc[d].status \in Terminal => doc'[d] = doc[d]]_vars

(* N4 to N7: whoever reviews a negotiation is not the PR who negotiates. *)
NoSelfReview ==
    \A d \in Doc : doc[d].status # "NONE" => doc[d].pr \notin {doc[d].reviewed, doc[d].final}

(* N3: what is under review passed the gates and is what the submit event
   shows. *)
ReviewedAsShown ==
    \A d \in Doc : doc[d].status \in {"PENDING", "FINAL_PENDING"} =>
        doc[d].content = doc[d].shown /\ doc[d].content.fill = "full"

=============================================================================
