-------------------------- MODULE RegisterContract --------------------------
(* What a register of claims promises.  Claims are entered together or not at    *)
(* all, and only where there is none; a claim moves from one holder to another in *)
(* one instant; each entry and each removal is in the log in that instant.         *)
EXTENDS Integers

CONSTANTS
    Subjects, Holders,
    Marks,      \* what a claim is entered with
    Unmarked    \* what one entered with its subject may have in place of it

VARIABLES
    registered, \* the subjects
    claim,      \* by subject and holder, "absent": none
    log         \* entries minus removals

register == <<registered, claim, log>>

Entries == Subjects \X Holders

Init ==
    /\ registered = {}
    /\ claim = [p \in Entries |-> "absent"] /\ log = [p \in Entries |-> 0]

Enter(S, mark) ==
    /\ \A p \in S : claim[p] = "absent"
    /\ claim' = [p \in Entries |-> IF p \in S THEN mark ELSE claim[p]]
    /\ log' = [p \in Entries |-> IF p \in S THEN log[p] + 1 ELSE log[p]]

Open(s) ==
    /\ s \notin registered
    /\ registered' = registered \cup {s}
    /\ \/ UNCHANGED <<claim, log>>
       \/ \E h \in Holders, mark \in Marks \cup {Unmarked} : Enter({<<s, h>>}, mark)

Claim ==
    /\ \E S \in SUBSET (registered \X Holders), mark \in Marks : Enter(S, mark)
    /\ UNCHANGED registered

Move(s, giver, taker) ==
    LET from == <<s, giver>>
        to == <<s, taker>>
    IN
    /\ claim[from] # "absent" /\ giver # taker
    /\ \E mark \in Marks :
          claim' = [p \in Entries |-> IF p = from THEN "absent" ELSE IF p = to THEN mark ELSE claim[p]]
    /\ log' = [p \in Entries |-> IF p = from THEN log[p] - 1
                                 ELSE IF p = to /\ claim[p] = "absent" THEN log[p] + 1 ELSE log[p]]
    /\ UNCHANGED registered

Remove(p) ==
    /\ claim[p] # "absent"
    /\ claim' = [claim EXCEPT ![p] = "absent"] /\ log' = [log EXCEPT ![p] = @ - 1]
    /\ UNCHANGED registered

Mark(p) ==
    /\ claim[p] # "absent"
    /\ \E mark \in Marks : claim' = [claim EXCEPT ![p] = mark]
    /\ UNCHANGED <<registered, log>>

Next ==
    \/ \E s \in Subjects : Open(s) \/ \E giver, taker \in Holders : Move(s, giver, taker)
    \/ Claim
    \/ \E p \in Entries : Remove(p) \/ Mark(p)

Spec == Init /\ [][Next]_register

=============================================================================
