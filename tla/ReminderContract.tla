------------------------- MODULE ReminderContract -------------------------
(* What the reminders of one promotion promise to who works with them.  Each  *)
(* counts together with its record, and the note of a closing by hand is a    *)
(* record like them; a slip that was put away is opened again by a reminder   *)
(* by hand only, and only if the work was called done; and whatever ends the  *)
(* promotion (not: withdraws it) puts an open slip away in the same instant.  *)
(* Everything happens at once: nobody waits, nobody acts on what he read      *)
(* earlier, except that a reminder may come after the end.                    *)
EXTENDS Naturals

VARIABLES
    line,       \* the promotion: running, or how it ended
    slip,       \* the slip: [state, count]
    book,       \* the reminders and closings by hand on record
    today       \* those of them the scan sent today

promise == <<line, slip, book, today>>

Ends == {"PUBLISHED", "CANCELLED"}

Init == line = "running" /\ slip = [state |-> "none", count |-> 0] /\ book = 0 /\ today = 0

Remind == slip' = [state |-> "open", count |-> slip.count + 1] /\ book' = book + 1

ByHand ==
    /\ slip.state \in {"none", "open", "COMPLETED"} /\ Remind
    /\ UNCHANGED <<line, today>>

ByScan ==
    /\ slip.state \in {"none", "open"} /\ today = 0 /\ Remind
    /\ today' = 1
    /\ UNCHANGED line

PutAway(reason) ==
    /\ slip' = [state |-> reason, count |-> slip.count]
    /\ book' = book + (IF reason = "MANUAL" THEN 1 ELSE 0)

Close ==
    /\ slip.state = "open"
    /\ \E reason \in {"MANUAL", "COMPLETED"} : PutAway(reason)
    /\ UNCHANGED <<line, today>>

(* The reminder that came after the end is tidied up. *)
CloseStale ==
    /\ slip.state = "open" /\ line # "running"
    /\ PutAway(IF line = "PUBLISHED" THEN "PUBLISHED" ELSE "CANCELLED")
    /\ UNCHANGED <<line, today>>

End(how) ==
    /\ line = "running" /\ line' = how
    /\ IF slip.state = "open" THEN PutAway(how) ELSE UNCHANGED <<slip, book>>
    /\ UNCHANGED today

Withdraw == line = "running" /\ line' = "withdrawn" /\ UNCHANGED <<slip, book, today>>

Midnight == today' = 0 /\ UNCHANGED <<line, slip, book>>

Next ==
    \/ ByHand \/ ByScan \/ Close \/ CloseStale
    \/ \E how \in Ends : End(how)
    \/ Withdraw \/ Midnight

Spec == Init /\ [][Next]_promise

=============================================================================
