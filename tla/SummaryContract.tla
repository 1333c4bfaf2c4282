-------------------------- MODULE SummaryContract --------------------------
(* What tables that are computed ahead promise to who reads them.  They are      *)
(* computed again for some days at once, in all tables, under the rules in force, *)
(* from data not older than what they were computed from before; a change of the  *)
(* rules takes back what is covered in the same instant.                           *)
EXTENDS Naturals

CONSTANTS Days, Tables

VARIABLES
    data,       \* version of what happened on a day
    rules,      \* version of the rules
    row,        \* the versions each row was computed from
    covered     \* the days whose rows are used

tables == <<data, rules, row, covered>>

Init ==
    /\ data = [d \in Days |-> 0] /\ rules = 0
    /\ row = [t \in Tables |-> [d \in Days |-> [data |-> 0, rules |-> 0]]]
    /\ covered = {}

Happen ==
    /\ \E days \in SUBSET Days :
          data' = [d \in Days |-> IF d \in days THEN data[d] + 1 ELSE data[d]]
    /\ UNCHANGED <<rules, row, covered>>

Current(t, d) ==
    /\ row'[t][d].rules = rules
    /\ row[t][d].data <= row'[t][d].data /\ row'[t][d].data <= data[d]

(* Other days may come along, of the same week or month. *)
Compute(days) ==
    /\ \A t \in Tables, d \in Days : Current(t, d) \/ (d \notin days /\ row'[t][d] = row[t][d])
    /\ covered' = covered \cup days
    /\ UNCHANGED <<data, rules>>

ChangeRules == rules' = rules + 1 /\ covered' = {} /\ UNCHANGED <<data, row>>

Next == Happen \/ ChangeRules \/ \E days \in SUBSET Days : Compute(days)

Spec == Init /\ [][Next]_tables

=============================================================================
