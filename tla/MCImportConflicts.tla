--------------------------- MODULE MCImportConflicts ---------------------------
(* One object with two compared fields and one of statistics, two batches and
   one user. *)
EXTENDS ImportConflicts, TLC

Alike ==
    Permutations(Batches) \cup Permutations(Values) \cup Permutations(Fields \ Statistics)

(* Rows that give one field, and rows that give all that are compared. *)
MCSheets ==
    {row \in Record : \E f \in Fields : Given(row) = {f}}
      \cup {[f \in Fields |-> IF f \in Statistics THEN Empty ELSE v] : v \in Values}

=============================================================================
