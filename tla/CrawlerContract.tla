-------------------------- MODULE CrawlerContract --------------------------
(* Crawler implements LeaseContract: a server and worker processes that talk    *)
(* over a network which loses, repeats and delays what they say, leases that end *)
(* by the clock and workers that die, seen through the rows and what workers     *)
(* were told, are a queue in which everything happens at once.                   *)
EXTENDS Crawler

JobOf(t) == [state |-> t.status, lease |-> t.tok]

(* The leases under which an adapter runs. *)
Busy == {wk[w].tok : w \in {v \in Worker : wk[v].pc = "collect"}}

Lease == INSTANCE LeaseContract WITH
    Jobs <- Task, Outcomes <- Terminal,
    job <- [k \in Task |-> JobOf(task[k])],
    busy <- Busy, told <- acked, issued <- gen

(* Whatever happens to the messages, a task ends once, under the lease given out
   last and not under the feet of its holder, and every answer a worker got is
   about that end. *)
ImplementsLeaseContract == Lease!Spec

=============================================================================
