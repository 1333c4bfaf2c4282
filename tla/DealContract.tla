---------------------------- MODULE DealContract ----------------------------
(* What the review of a deal promises to both sides of it.  The terms are       *)
(* drafted, asked for, signed by a manager and then by a boss, one of each, and  *)
(* cannot change meanwhile; what comes of it is made once, of exactly the terms  *)
(* that were signed, for who owns the deal by then.  Everything happens at once: *)
(* nobody acts on what he read earlier.                                          *)

CONSTANTS
    Deals, Terms, Owners,
    Firsts, Seconds     \* who signs first, who second

VARIABLE deal

Unopened == [phase |-> "none"]
Drafted(o, c) == [phase |-> "drafting", terms |-> c, owner |-> o, signed |-> {}, made |-> {}]

Init == deal = [d \in Deals |-> Unopened]

Phase(d) == deal[d].phase
Becomes(d, x) == deal' = [deal EXCEPT ![d] = x]

(* The next turn: terms and owner as they stand, with these signatures. *)
Turned(x, phase, signed, made) ==
    [phase |-> phase, terms |-> x.terms, owner |-> x.owner, signed |-> signed, made |-> made]

Open(d) == Phase(d) = "none" /\ \E o \in Owners, c \in Terms : Becomes(d, Drafted(o, c))

Draft(d) == Phase(d) = "drafting" /\ \E c \in Terms : Becomes(d, [deal[d] EXCEPT !.terms = c])

Ask(d) == Phase(d) = "drafting" /\ Becomes(d, Turned(deal[d], "first", {}, {}))

SignFirst(d) ==
    Phase(d) = "first" /\ \E u \in Firsts : Becomes(d, Turned(deal[d], "second", {u}, {}))

SignSecond(d) ==
    /\ Phase(d) = "second"
    /\ \E u \in Seconds \ deal[d].signed :
         Becomes(d, Turned(deal[d], "agreed", deal[d].signed \cup {u}, {}))

Refuse(d) == Phase(d) = "first" /\ Becomes(d, Turned(deal[d], "refused", {}, {}))

Return(d) == Phase(d) = "second" /\ Becomes(d, Turned(deal[d], "drafting", {}, {}))

HandOver(d) ==
    /\ Phase(d) \in {"drafting", "first", "second", "agreed"}
    /\ \E o \in Owners : Becomes(d, [deal[d] EXCEPT !.owner = o])

Make(d) ==
    /\ Phase(d) = "agreed"
    /\ Becomes(d, Turned(deal[d], "made", deal[d].signed, {<<deal[d].terms, deal[d].owner>>}))

Next == \E d \in Deals :
    \/ Open(d) \/ Draft(d) \/ Ask(d) \/ SignFirst(d) \/ SignSecond(d)
    \/ Refuse(d) \/ Return(d) \/ HandOver(d) \/ Make(d)

Spec == Init /\ [][Next]_deal

=============================================================================
