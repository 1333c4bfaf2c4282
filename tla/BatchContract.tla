--------------------------- MODULE BatchContract ---------------------------
(* What a batch of rows promises whoever waits for it.  While it is being worked *)
(* on, rows succeed or fail, in any order and as often as it takes; its result    *)
(* speaks of every row and is true at that instant, or it gives up and keeps the  *)
(* counts it had.  It can be asked for again unless every row is in.              *)
EXTENDS Naturals, FiniteSets

CONSTANT Rows

VARIABLES
    status,
    counts,     \* [total, failed], as shown with the result
    row         \* what became of each row

result == <<status, counts, row>>

FailedOf == {n \in Rows : row[n] = "failed"}

Init ==
    /\ status = "none"
    /\ counts = [total |-> 0, failed |-> 0]
    /\ row = [n \in Rows |-> "none"]

Ask ==
    /\ status \in {"none", "partial", "failed"}
    /\ status' = "processing"
    /\ UNCHANGED <<counts, row>>

Work ==
    /\ status = "processing"
    /\ \E n \in Rows, outcome \in {"ok", "failed"} : row' = [row EXCEPT ![n] = outcome]
    /\ UNCHANGED <<status, counts>>

Conclude ==
    /\ status = "processing"
    /\ \A n \in Rows : row[n] # "none"
    /\ counts' = [total |-> Cardinality(Rows), failed |-> Cardinality(FailedOf)]
    /\ status' = IF FailedOf = {} THEN "completed"
                 ELSE IF FailedOf = Rows THEN "failed" ELSE "partial"
    /\ UNCHANGED row

GiveUp == status = "processing" /\ status' = "failed" /\ UNCHANGED <<counts, row>>

Next == Ask \/ Work \/ Conclude \/ GiveUp

Spec == Init /\ [][Next]_result

=============================================================================
