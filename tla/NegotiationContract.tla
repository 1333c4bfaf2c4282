------------------------ MODULE NegotiationContract ------------------------
(* Negotiation implements DealContract: requests that act on what they read    *)
(* earlier, seen through the rows they commit, are a review whose turns happen  *)
(* at once.                                                                     *)
EXTENDS Negotiation

PhaseOf(status) ==
    CASE status \in OwnerEditable -> "drafting"
      [] status = "PENDING" -> "first"
      [] status = "FINAL_PENDING" -> "second"
      [] status = "RECEIVER_PENDING" -> "agreed"
      [] status = "APPROVED" -> "made"
      [] status = "REJECTED" -> "refused"

(* The verdicts that count: those of a round that has not been sent back. *)
SignedBy(x) ==
    IF x.status \in {"FINAL_PENDING", "RECEIVER_PENDING", "APPROVED"}
    THEN {x.reviewed, x.final} \ {NoOne} ELSE {}

DealOf(x) ==
    IF x.status = "NONE" THEN [phase |-> "none"]
    ELSE [phase |-> PhaseOf(x.status), terms |-> x.content, owner |-> x.pr,
          signed |-> SignedBy(x), made |-> {<<p.content, p.pr>> : p \in x.promotions}]

Deal == INSTANCE DealContract WITH
    Deals <- Doc, Terms <- Content, Owners <- User,
    Firsts <- Manager \ Star, Seconds <- Star,
    deal <- [d \in Doc |-> DealOf(doc[d])]

(* However the requests race, each committed row goes through the review turn by
   turn: nothing is signed but by its two sides in their order, no terms move
   after they were asked for, and one promotion comes of it, of the terms that
   were signed. *)
ImplementsDealContract == Deal!Spec

=============================================================================
