--------------------------- MODULE LeaseContract ---------------------------
(* What a queue of jobs that are leased out promises.  A job is given out under  *)
(* a lease nobody has had before, may be taken back and given out again, and      *)
(* ends once, for good: under the last lease, and not while its holder is at      *)
(* work.  What anybody was told of its end is how it ended.                        *)
EXTENDS Naturals

CONSTANTS Jobs, Outcomes

VARIABLES
    job,        \* [state, lease], lease 0: none
    busy,       \* the leases whose holders are at work
    told,       \* the ends that were confirmed to somebody
    issued      \* leases given out so far

queue == <<job, busy, told, issued>>

Idle(state) == [state |-> state, lease |-> 0]
Out == {"assigned", "exchanged"}

(* The job goes on under its lease. *)
Goes(k, state) == job' = [job EXCEPT ![k] = [state |-> state, lease |-> job[k].lease]]

Init == job = [k \in Jobs |-> Idle("none")] /\ busy = {} /\ told = {} /\ issued = 0

Add(k) ==
    /\ job[k].state = "none"
    /\ Goes(k, "pending")
    /\ UNCHANGED <<busy, told, issued>>

(* Jobs given out may be taken back, at any time and from anybody; one that is
   waiting then is given out. *)
Give(k) ==
    \E back \in SUBSET {j \in Jobs : job[j].state \in Out} :
       /\ k \in back \/ job[k].state = "pending"
       /\ issued' = issued + 1
       /\ job' = [j \in Jobs |->
                    IF j = k THEN [state |-> "assigned", lease |-> issued + 1]
                    ELSE IF j \in back THEN Idle("pending") ELSE job[j]]
       /\ UNCHANGED <<busy, told>>

(* The password is handed out once; who was to get it may be gone. *)
Start(k) ==
    /\ job[k].state = "assigned"
    /\ Goes(k, "exchanged")
    /\ busy' \in {busy, busy \cup {job[k].lease}}
    /\ UNCHANGED <<told, issued>>

Stop == (\E g \in busy : busy' = busy \ {g}) /\ UNCHANGED <<job, told, issued>>

End(k) ==
    /\ job[k].state = "exchanged" /\ job[k].lease \notin busy
    /\ \E how \in Outcomes :
          /\ Goes(k, how)
          /\ told' \in {told, told \cup {<<k, how>>}}
    /\ UNCHANGED <<busy, issued>>

Tell(k) ==
    /\ job[k].state \in Outcomes
    /\ told' = told \cup {<<k, job[k].state>>}
    /\ UNCHANGED <<job, busy, issued>>

Next == Stop \/ \E k \in Jobs : Add(k) \/ Give(k) \/ Start(k) \/ End(k) \/ Tell(k)

Spec == Init /\ [][Next]_queue

=============================================================================
