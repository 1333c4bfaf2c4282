---------------------------- MODULE UrgeContract ----------------------------
(* Urge implements ReminderContract: transactions that wait for each other's    *)
(* locks, lose deadlocks and act on old reads, seen through the rows they        *)
(* commit, are reminders and closings that happen at once.                       *)
EXTENDS Urge

LineOf(q) ==
    CASE q.publish # "UNPUBLISHED" -> q.publish
      [] q.publish = "UNPUBLISHED" /\ q.active -> "running"
      [] OTHER -> "withdrawn"

SlipOf(t) ==
    [state |-> CASE ~t.exists -> "none"
                 [] IsOpen(t) -> "open"
                 [] OTHER -> t.reason,
     count |-> t.count]

Reminder == INSTANCE ReminderContract WITH
    line <- LineOf(promo), slip <- SlipOf(task), book <- records, today <- autos

(* However urges, scans, closings and the end of the promotion race, what they
   commit is what they would have done one at a time: an urge counts with its
   record, a closed task stays closed unless the code says otherwise, and a
   publication, cancellation or recall never leaves a task open that was open
   when it was committed, although it looked at the task earlier. *)
ImplementsReminderContract == Reminder!Spec

=============================================================================
