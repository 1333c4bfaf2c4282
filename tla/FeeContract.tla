---------------------------- MODULE FeeContract ----------------------------
(* What operations (the promotion) and finance (the settlement document)    *)
(* promise each other about one service fee: every turn it takes, both see   *)
(* in the same instant, with two exceptions.  A payment recorded before the  *)
(* system existed is known to finance first and recognised by operations     *)
(* later.  And operations may miss a payment: they wait then, and nothing    *)
(* else happens to the fee any more.                                         *)

VARIABLES
    ops,    \* operations: "open", "waiting", "refused", "paid", "closed"
    fin     \* finance: "none", "waiting", "refused", "paid"

Both(o, f) == ops = o /\ fin = f
Turn(o, f) == ops' = o /\ fin' = f

Init == Both("open", "none")

Owe == Both("open", "none") /\ Turn("waiting", "waiting")
Refuse == Both("waiting", "waiting") /\ Turn("refused", "refused")
Reclaim == Both("refused", "refused") /\ Turn("waiting", "waiting")
Pay == Both("waiting", "waiting") /\ Turn("paid", "paid")
Miss == Both("waiting", "waiting") /\ Turn("waiting", "paid")
Import == Both("open", "none") /\ Turn("open", "paid")
Recognise == Both("open", "paid") /\ Turn("paid", "paid")
Waive == ops = "open" /\ Turn("closed", fin)
Close == Both("paid", "paid") /\ Turn("closed", "paid")

Next == \/ Owe \/ Refuse \/ Reclaim \/ Pay \/ Miss
        \/ Import \/ Recognise \/ Waive \/ Close

Spec == Init /\ [][Next]_<<ops, fin>>

=============================================================================
