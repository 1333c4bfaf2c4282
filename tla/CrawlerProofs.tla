--------------------------- MODULE CrawlerProofs ---------------------------
(***************************************************************************)
(* The safety of the crawler queue, for any tasks, workers and faults.  The *)
(* argument: a cred_token is issued once, so it belongs to one worker, and  *)
(* that worker reports under it only after it has stopped collecting.       *)
(***************************************************************************)
EXTENDS CrawlerContract, FiniteSetTheorems, TLAPS

-----------------------------------------------------------------------------
(* The inductive invariant *)

(* Every token in use has been issued, no two workers use the same one, and
   nothing has been reported under the token of a worker that has not come to
   an outcome. *)
TokenInv ==
    /\ \A w \in Worker : wk[w].pc # "idle" => wk[w].tok \in 1..gen
    /\ \A m \in net : m.tok \in 1..gen
    /\ \A w, v \in Worker :
          w # v /\ wk[w].pc # "idle" /\ wk[v].pc # "idle" => wk[w].tok # wk[v].tok
    /\ \A m \in net, w \in Worker :
          m.what \in Terminal /\ wk[w].pc \in {"exchange", "collect"} => m.tok # wk[w].tok

IInv == TypeOK /\ TokenInv /\ HolderKeepsTask /\ AcksAgree /\ FailuresCountedOnce

-----------------------------------------------------------------------------

LEMMA InitInv == Init => IInv
<1> SUFFICES ASSUME Init PROVE IInv
  OBVIOUS
<1>1. PICK k \in Task :
         wk = [w \in Worker |-> [pc |-> "idle", k |-> k, tok |-> NoTok, try |-> 0]]
  BY DEF Init
<1>2. TypeOK
  <2>1. wk \in [Worker -> WorkerState]
    BY <1>1 DEF WorkerState, NoTok
  <2>2. task \in [Task -> TaskRow]
    BY DEF Init, TaskRow, NoTok
  <2>3. faults \in 0..MaxFaults
    BY BoundAssumption DEF Init
  <2>4. QED
    BY <2>1, <2>2, <2>3 DEF Init, TypeOK, CredStatus, AdminIdle
<1>3. TokenInv /\ HolderKeepsTask /\ AcksAgree
  BY <1>1 DEF Init, TokenInv, HolderKeepsTask, AcksAgree
<1>4. FailuresCountedOnce
  <2>1. Failed = {}
    BY DEF Init, Failed
  <2>2. QED
    BY <2>1, FS_EmptySet DEF Init, FailuresCountedOnce
<1>5. QED
  BY <1>2, <1>3, <1>4 DEF IInv

LEMMA Faults == ASSUME TypeOK, Fault \/ NoFault PROVE faults' \in 0..MaxFaults
BY BoundAssumption DEF TypeOK, Fault, NoFault

LEMMA FailedIsFinite == IsFiniteSet(Failed) /\ Cardinality(Failed) \in Nat
<1>1. Failed \subseteq Task
  BY DEF Failed
<1>2. QED
  BY <1>1, TaskAssumption, FS_Subset, FS_CardinalityType

(* Steps of the clock, the scheduler and the administrator. *)
LEMMA QuietStep ==
    ASSUME IInv, TypeOK', UNCHANGED <<wk, net, acked, gen>>,
           cred'.fails = cred.fails \/ cred'.fails = 0,
           \A k \in Task : /\ task'[k].tok = task[k].tok
                           /\ \/ task'[k].status = task[k].status
                              \/ task[k].status = "none" /\ task'[k].status = "pending"
    PROVE  IInv'
<1>1. TokenInv'
  BY DEF IInv, TokenInv
<1>2. HolderKeepsTask' /\ AcksAgree'
  BY DEF IInv, TypeOK, WorkerState, HolderKeepsTask, AcksAgree, Terminal
<1>3. FailuresCountedOnce'
  <2>1. Failed' = Failed
    BY DEF Failed
  <2>2. QED
    BY <2>1, FailedIsFinite DEF IInv, FailuresCountedOnce
<1>4. QED
  BY <1>1, <1>2, <1>3 DEF IInv

LEMMA OfficeStep ==
    ASSUME IInv,
           \/ \E k \in Task : Schedule(k) \/ LeaseEnds(k)
           \/ AdminRead \/ AdminWrite
    PROVE  IInv'
<1>1. CASE \E k \in Task : Schedule(k)
  <2>1. PICK k \in Task : Schedule(k)
    BY <1>1
  <2>2. task[k] \in TaskRow
    BY DEF IInv, TypeOK
  <2>3. [task[k] EXCEPT !.status = "pending"] \in TaskRow
    BY <2>2 DEF TaskRow
  <2>4. TypeOK'
    BY <2>1, <2>3 DEF Schedule, IInv, TypeOK
  <2>5. \A j \in Task : /\ task'[j].tok = task[j].tok
                        /\ \/ task'[j].status = task[j].status
                           \/ task[j].status = "none" /\ task'[j].status = "pending"
    BY <2>1, <2>2 DEF Schedule, IInv, TypeOK, TaskRow
  <2>6. QED
    BY <2>1, <2>4, <2>5, QuietStep DEF Schedule
<1>2. CASE \E k \in Task : LeaseEnds(k)
  <2>1. PICK k \in Task : LeaseEnds(k)
    BY <1>2
  <2>2. task[k] \in TaskRow /\ faults' \in 0..MaxFaults
    BY <2>1, Faults DEF LeaseEnds, FaultUnless, IInv, TypeOK
  <2>3. [task[k] EXCEPT !.late = TRUE] \in TaskRow
    BY <2>2 DEF TaskRow
  <2>4. TypeOK'
    BY <2>1, <2>2, <2>3 DEF LeaseEnds, IInv, TypeOK
  <2>5. \A j \in Task : task'[j].tok = task[j].tok /\ task'[j].status = task[j].status
    BY <2>1, <2>2 DEF LeaseEnds, IInv, TypeOK, TaskRow
  <2>6. QED
    BY <2>1, <2>4, <2>5, QuietStep DEF LeaseEnds
<1>3. CASE AdminRead
  <2>1. TypeOK'
    BY <1>3 DEF AdminRead, IInv, TypeOK, CredStatus
  <2>2. QED
    BY <1>3, <2>1, QuietStep DEF AdminRead
<1>4. CASE AdminWrite
  <2>1. cred' \in [status : CredStatus, fails : Nat]
        /\ (cred'.fails = cred.fails \/ cred'.fails = 0)
    BY <1>4 DEF AdminWrite, Column, IInv, TypeOK, CredStatus
  <2>2. TypeOK'
    BY <1>4, <2>1 DEF AdminWrite, AdminIdle, IInv, TypeOK, CredStatus
  <2>3. QED
    BY <1>4, <2>1, <2>2, QuietStep DEF AdminWrite
<1>5. QED
  BY <1>1, <1>2, <1>3, <1>4

(* A worker that gives up, and a request that is gone. *)
LEMMA IdleStep ==
    ASSUME IInv, UNCHANGED <<task, cred, admin, acked, gen>>, faults' \in 0..MaxFaults,
           net' \subseteq net, wk' \in [Worker -> WorkerState],
           \A w \in Worker : wk'[w] = wk[w] \/ wk'[w].pc = "idle"
    PROVE  IInv'
<1>1. TypeOK'
  BY DEF IInv, TypeOK
<1>2. TokenInv'
  BY DEF IInv, TokenInv
<1>3. HolderKeepsTask' /\ AcksAgree' /\ FailuresCountedOnce'
  BY DEF IInv, HolderKeepsTask, AcksAgree, FailuresCountedOnce, Failed
<1>4. QED
  BY <1>1, <1>2, <1>3 DEF IInv

LEMMA GoesIdleType ==
    ASSUME TypeOK, NEW w \in Worker, GoesIdle(w)
    PROVE  /\ wk' \in [Worker -> WorkerState]
           /\ \A v \in Worker : wk'[v] = wk[v] \/ wk'[v].pc = "idle"
<1>1. wk[w] \in WorkerState
  BY DEF TypeOK
<1>2. [wk[w] EXCEPT !.pc = "idle"] \in WorkerState /\ [wk[w] EXCEPT !.pc = "idle"].pc = "idle"
  BY <1>1 DEF WorkerState
<1>3. QED
  BY <1>2 DEF GoesIdle, TypeOK

(* A worker that has come to an outcome reports it, or reports it again. *)
LEMMA SendStep ==
    ASSUME IInv, NEW w \in Worker, NEW st \in Terminal, NEW n \in Nat,
           wk[w].pc # "idle", Send(w, wk[w].k, wk[w].tok, st, n),
           UNCHANGED <<task, cred, admin, acked, gen>>, faults' \in 0..MaxFaults
    PROVE  IInv'
<1> DEFINE x == [pc |-> st, k |-> wk[w].k, tok |-> wk[w].tok, try |-> n]
           q == Ask(w, wk[w].k, wk[w].tok, st, n)
<1>1. wk[w] \in WorkerState /\ st \notin {"idle", "exchange", "collect"}
  BY DEF IInv, TypeOK, Terminal
<1>2. x \in WorkerState /\ q \in Request /\ q.what = st /\ q.tok = wk[w].tok
  BY <1>1 DEF WorkerState, Request, Ask
<1>3. wk' = [wk EXCEPT ![w] = x] /\ net' = net \cup {q}
  BY DEF Send
<1>4. x.pc = st /\ x.k = wk[w].k /\ x.tok = wk[w].tok
  OBVIOUS
<1> HIDE DEF x, q
<1>5. wk'[w] = x /\ \A v \in Worker \ {w} : wk'[v] = wk[v]
  BY <1>3 DEF IInv, TypeOK
<1>6. TypeOK'
  BY <1>2, <1>3 DEF IInv, TypeOK
<1>7. TokenInv'
  BY <1>1, <1>2, <1>3, <1>4, <1>5 DEF IInv, TokenInv
<1>8. HolderKeepsTask' /\ AcksAgree' /\ FailuresCountedOnce'
  BY <1>1, <1>4, <1>5 DEF IInv, HolderKeepsTask, AcksAgree, FailuresCountedOnce, Failed
<1>9. QED
  BY <1>6, <1>7, <1>8 DEF IInv

LEMMA WorkerStep ==
    ASSUME IInv,
           \/ \E w \in Worker : Collect(w) \/ Timeout(w) \/ Crash(w)
           \/ \E m \in net : Lose(m)
    PROVE  IInv'
<1>1. CASE \E w \in Worker : Collect(w)
  <2>1. PICK w \in Worker, st \in Terminal :
           wk[w].pc = "collect" /\ Send(w, wk[w].k, wk[w].tok, st, 1)
           /\ UNCHANGED <<task, cred, admin, acked, gen, faults>>
    BY <1>1 DEF Collect
  <2>2. QED
    BY <2>1, SendStep DEF IInv, TypeOK
<1>2. CASE \E w \in Worker : Timeout(w)
  <2>1. PICK w \in Worker : Timeout(w)
    BY <1>2
  <2>2. UNCHANGED <<task, cred, admin, acked, gen>> /\ faults' \in 0..MaxFaults
    BY <2>1, Faults DEF Timeout, FaultUnless, IInv
  <2>3. CASE wk[w].pc \in Terminal /\ Send(w, wk[w].k, wk[w].tok, wk[w].pc, wk[w].try + 1)
    <3>1. wk[w].try + 1 \in Nat
      BY DEF IInv, TypeOK, WorkerState
    <3>2. QED
      BY <2>2, <2>3, <3>1, SendStep DEF Terminal
  <2>4. CASE GoesIdle(w) /\ UNCHANGED net
    BY <2>2, <2>4, GoesIdleType, IdleStep DEF IInv
  <2>5. QED
    BY <2>1, <2>3, <2>4 DEF Timeout
<1>3. CASE \E w \in Worker : Crash(w)
  BY <1>3, Faults, GoesIdleType, IdleStep DEF Crash, IInv
<1>4. CASE \E m \in net : Lose(m)
  <2>1. PICK m \in net : Lose(m)
    BY <1>4
  <2>2. /\ UNCHANGED <<task, cred, admin, acked, gen>> /\ faults' \in 0..MaxFaults
        /\ net' \subseteq net /\ m.w \in Worker
    BY <2>1, Faults DEF Lose, IInv, TypeOK, Request
  <2>3. wk' \in [Worker -> WorkerState]
        /\ \A w \in Worker : wk'[w] = wk[w] \/ wk'[w].pc = "idle"
    BY <2>1, <2>2, GoesIdleType DEF Lose, IInv, TypeOK
  <2>4. QED
    BY <2>2, <2>3, IdleStep
<1>5. QED
  BY <1>1, <1>2, <1>3, <1>4

-----------------------------------------------------------------------------
(* Poll: a lease gets a token nobody has seen. *)

LEMMA PollStep ==
    ASSUME IInv, NEW w \in Worker, NEW arrives \in BOOLEAN, Poll(w, arrives)
    PROVE  IInv'
<1>1. PICK k \in Task :
         /\ Reclaimed(k).status = "pending"
         /\ gen' = gen + 1
         /\ task' = [[j \in Task |-> Reclaimed(j)] EXCEPT
                       ![k] = [status |-> "assigned", tok |-> gen + 1, late |-> FALSE]]
         /\ IF arrives
            THEN wk[w].pc = "idle" /\ Send(w, k, gen + 1, "exchange", 1) /\ NoFault
            ELSE UNCHANGED <<wk, net>> /\ Fault
         /\ UNCHANGED <<cred, admin, acked>>
  BY DEF Poll
<1>2. gen \in Nat /\ faults' \in 0..MaxFaults
  BY <1>1, Faults DEF IInv, TypeOK
<1> DEFINE r == [status |-> "assigned", tok |-> gen + 1, late |-> FALSE]
           x == [pc |-> "exchange", k |-> k, tok |-> gen + 1, try |-> 1]
           q == Ask(w, k, gen + 1, "exchange", 1)
<1>3. r \in TaskRow /\ x \in WorkerState /\ q \in Request
  BY <1>2 DEF TaskRow, Leased, WorkerState, Request, Ask
<1>4. /\ r.status = "assigned" /\ r.tok = gen + 1
      /\ x.pc = "exchange" /\ x.tok = gen + 1
      /\ q.what = "exchange" /\ q.tok = gen + 1
  BY DEF Ask
<1>5. task' = [[j \in Task |-> Reclaimed(j)] EXCEPT ![k] = r]
  BY <1>1
<1>6. \/ wk[w].pc = "idle" /\ wk' = [wk EXCEPT ![w] = x] /\ net' = net \cup {q}
      \/ UNCHANGED <<wk, net>>
  BY <1>1 DEF Send
<1> HIDE DEF r, x, q
<1>7. \A j \in Task : /\ Reclaimed(j) \in TaskRow
                      /\ \/ Reclaimed(j) = task[j]
                         \/ /\ Reclaimed(j).tok = 0 /\ task[j].status \in Leased
                            /\ Reclaimed(j).status = "pending"
  BY DEF Reclaimed, NoTok, IInv, TypeOK, TaskRow
<1>8. task'[k] = r /\ task[k].status \notin Terminal
  BY <1>1, <1>5, <1>7 DEF Leased, Terminal
<1>9. \A j \in Task \ {k} : task'[j] = Reclaimed(j)
  BY <1>5
<1>10. TypeOK'
  <2>1. task' \in [Task -> TaskRow]
    BY <1>3, <1>5, <1>7
  <2>2. wk' \in [Worker -> WorkerState] /\ net' \subseteq Request
    BY <1>3, <1>6 DEF IInv, TypeOK
  <2>3. QED
    BY <1>1, <1>2, <2>1, <2>2 DEF IInv, TypeOK
<1>11. TokenInv'
  <2>1. CASE UNCHANGED <<wk, net>>
    BY <1>1, <1>2, <2>1 DEF IInv, TokenInv
  <2>2. CASE wk' = [wk EXCEPT ![w] = x] /\ net' = net \cup {q}
    <3>1. wk'[w] = x /\ \A v \in Worker \ {w} : wk'[v] = wk[v]
      BY <2>2 DEF IInv, TypeOK
    <3>2. \A v \in Worker : wk'[v].pc # "idle" => wk'[v].tok \in 1..gen'
      BY <1>1, <1>2, <1>4, <3>1 DEF IInv, TokenInv
    <3>3. \A m \in net' : m.tok \in 1..gen'
      BY <1>1, <1>2, <1>4, <2>2 DEF IInv, TokenInv
    <3>4. \A v, u \in Worker :
             v # u /\ wk'[v].pc # "idle" /\ wk'[u].pc # "idle" => wk'[v].tok # wk'[u].tok
      BY <1>2, <1>4, <3>1 DEF IInv, TokenInv
    <3>5. \A m \in net', v \in Worker :
             m.what \in Terminal /\ wk'[v].pc \in {"exchange", "collect"}
                => m.tok # wk'[v].tok
      BY <1>2, <1>4, <2>2, <3>1 DEF IInv, TokenInv, Terminal
    <3>6. QED
      BY <3>2, <3>3, <3>4, <3>5 DEF TokenInv
  <2>3. QED
    BY <1>6, <2>1, <2>2
<1>12. HolderKeepsTask'
  <2> SUFFICES ASSUME NEW v \in Worker,
                      wk'[v].pc = "collect", wk'[v].tok = task'[wk'[v].k].tok
               PROVE  task'[wk'[v].k].status = "exchanged"
    BY DEF HolderKeepsTask
  <2>1. wk'[v] = wk[v] /\ wk[v].k \in Task
    BY <1>4, <1>6 DEF IInv, TypeOK, WorkerState
  <2>2. wk[v].tok \in 1..gen
    BY <2>1 DEF IInv, TokenInv
  <2>3. task'[wk[v].k] = task[wk[v].k]
    BY <1>2, <1>4, <1>7, <1>8, <1>9, <2>1, <2>2
  <2>4. QED
    BY <2>1, <2>3 DEF IInv, HolderKeepsTask
<1>13. \A j \in Task : task[j].status \in Terminal => task'[j] = task[j]
  BY <1>7, <1>8, <1>9 DEF Leased, Terminal
<1>14. AcksAgree'
  BY <1>1, <1>13 DEF IInv, TypeOK, AcksAgree
<1>15. FailuresCountedOnce'
  <2>1. Failed' = Failed
    BY <1>4, <1>7, <1>8, <1>9, <1>13 DEF Failed, Terminal
  <2>2. QED
    BY <1>1, <2>1 DEF IInv, FailuresCountedOnce
<1>16. QED
  BY <1>10, <1>11, <1>12, <1>14, <1>15 DEF IInv

-----------------------------------------------------------------------------
(* The server's answers *)

(* What an answer does to the workers: nothing, an end, or, for the password,
   the start of the adapter under the token of the request. *)
LEMMA AnswerFacts ==
    ASSUME IInv, NEW m \in net, NEW ok \in BOOLEAN, Answer(m, ok), UNCHANGED gen
    PROVE  /\ wk' \in [Worker -> WorkerState] /\ net' \subseteq Request
           /\ acked' \subseteq Task \X Terminal /\ faults' \in 0..MaxFaults
           /\ TokenInv'
           /\ acked' \subseteq IF ok /\ m.what \in Terminal
                               THEN acked \cup {<<m.k, m.what>>} ELSE acked
           /\ \A w \in Worker :
                 \/ wk'[w] = wk[w] \/ wk'[w].pc = "idle"
                 \/ ok /\ m.what = "exchange" /\ wk'[w].k = m.k
<1>1. m \in Request /\ m.w \in Worker /\ m.k \in Task
  BY DEF IInv, TypeOK, Request
<1>2. net' \subseteq net /\ faults' \in 0..MaxFaults
  BY Faults DEF Answer, FaultUnless, IInv
<1>3. acked' \subseteq IF ok /\ m.what \in Terminal
                       THEN acked \cup {<<m.k, m.what>>} ELSE acked
  BY DEF Answer
<1>4. acked' \subseteq Task \X Terminal
  BY <1>1, <1>3 DEF IInv, TypeOK
<1>5. /\ wk' \in [Worker -> WorkerState]
      /\ \A w \in Worker :
            \/ wk'[w] = wk[w] \/ wk'[w].pc = "idle"
            \/ /\ ok /\ m.what = "exchange"
               /\ wk'[w].k = m.k /\ wk'[w].tok = wk[w].tok /\ wk[w].pc = "exchange"
  <2>1. CASE Waits(m) /\ ok /\ m.what = "exchange"
             /\ wk' = [wk EXCEPT ![m.w].pc = "collect"]
    <3>1. wk[m.w] \in WorkerState /\ wk[m.w].pc = "exchange" /\ wk[m.w].k = m.k
      BY <1>1, <2>1 DEF IInv, TypeOK, Waits, Current, Ask
    <3>2. /\ [wk[m.w] EXCEPT !.pc = "collect"] \in WorkerState
          /\ [wk[m.w] EXCEPT !.pc = "collect"].k = m.k
          /\ [wk[m.w] EXCEPT !.pc = "collect"].tok = wk[m.w].tok
      BY <3>1 DEF WorkerState
    <3>3. QED
      BY <1>1, <2>1, <3>1, <3>2 DEF IInv, TypeOK
  <2>2. CASE GoesIdle(m.w)
    BY <1>1, <2>2, GoesIdleType DEF IInv
  <2>3. CASE UNCHANGED wk
    BY <2>3 DEF IInv, TypeOK
  <2>4. QED
    BY <2>1, <2>2, <2>3 DEF Answer
<1>6. TokenInv'
  BY <1>2, <1>5 DEF IInv, TokenInv
<1>7. QED
  BY <1>2, <1>3, <1>4, <1>5, <1>6 DEF IInv, TypeOK

(* The password: the task of a worker that starts its adapter is exchanged. *)
LEMMA ExchangeStep == ASSUME IInv, NEW m \in net, Exchange(m) PROVE IInv'
<1>1. /\ m.what = "exchange" /\ Answer(m, TokenValid(m)) /\ UNCHANGED <<cred, admin, gen>>
      /\ m.k \in Task /\ TokenValid(m) \in BOOLEAN /\ m.what \notin Terminal
  BY DEF Exchange, IInv, TypeOK, Request, TokenValid, Terminal, TaskRow
<1>2. /\ wk' \in [Worker -> WorkerState] /\ net' \subseteq Request
      /\ acked' \subseteq acked /\ faults' \in 0..MaxFaults /\ TokenInv'
      /\ \A w \in Worker :
            wk'[w] = wk[w] \/ wk'[w].pc = "idle" \/ (TokenValid(m) /\ wk'[w].k = m.k)
  BY <1>1, AnswerFacts
<1>3. task[m.k] \in TaskRow
  BY <1>1 DEF IInv, TypeOK
<1>4. /\ [task[m.k] EXCEPT !.status = "exchanged"] \in TaskRow
      /\ [task[m.k] EXCEPT !.status = "exchanged"].tok = task[m.k].tok
      /\ [task[m.k] EXCEPT !.status = "exchanged"].status = "exchanged"
  BY <1>3 DEF TaskRow, Leased
<1>5. /\ task' \in [Task -> TaskRow]
      /\ \A k \in Task :
            /\ task'[k].tok = task[k].tok
            /\ \/ task'[k].status = task[k].status /\ ~(TokenValid(m) /\ k = m.k)
               \/ task[k].status = "assigned" /\ task'[k].status = "exchanged"
  BY <1>1, <1>4 DEF Exchange, TokenValid, IInv, TypeOK
<1>6. TypeOK'
  BY <1>1, <1>2, <1>5 DEF IInv, TypeOK
<1>7. HolderKeepsTask'
  <2> SUFFICES ASSUME NEW v \in Worker,
                      wk'[v].pc = "collect", wk'[v].tok = task'[wk'[v].k].tok
               PROVE  task'[wk'[v].k].status = "exchanged"
    BY DEF HolderKeepsTask
  <2>1. CASE wk'[v] = wk[v]
    <3>1. wk[v].k \in Task
      BY DEF IInv, TypeOK, WorkerState
    <3>2. QED
      BY <1>5, <2>1, <3>1 DEF IInv, HolderKeepsTask
  <2>2. CASE TokenValid(m) /\ wk'[v].k = m.k
    BY <1>1, <1>5, <2>2
  <2>3. QED
    BY <1>2, <2>1, <2>2
<1>8. AcksAgree'
  BY <1>2, <1>5 DEF IInv, TypeOK, AcksAgree, Terminal
<1>9. FailuresCountedOnce'
  <2>1. Failed' = Failed
    BY <1>5 DEF Failed
  <2>2. QED
    BY <1>1, <2>1 DEF IInv, FailuresCountedOnce
<1>10. QED
  BY <1>2, <1>6, <1>7, <1>8, <1>9 DEF IInv

(* A report that leaves the rows as they are. *)
LEMMA SameRowsStep ==
    ASSUME IInv, NEW m \in net, NEW ok \in BOOLEAN, Answer(m, ok), m.what \in Terminal,
           ok => task[m.k].status = m.what, UNCHANGED <<task, cred, admin, gen>>
    PROVE  IInv'
<1>1. /\ wk' \in [Worker -> WorkerState] /\ net' \subseteq Request
      /\ acked' \subseteq Task \X Terminal /\ faults' \in 0..MaxFaults /\ TokenInv'
      /\ acked' \subseteq IF ok THEN acked \cup {<<m.k, m.what>>} ELSE acked
      /\ \A w \in Worker : wk'[w] = wk[w] \/ wk'[w].pc = "idle"
  BY AnswerFacts DEF Terminal
<1>2. TypeOK'
  BY <1>1 DEF IInv, TypeOK
<1>3. HolderKeepsTask'
  BY <1>1 DEF IInv, HolderKeepsTask
<1>4. AcksAgree'
  BY <1>1 DEF IInv, AcksAgree
<1>5. FailuresCountedOnce'
  BY DEF IInv, FailuresCountedOnce, Failed
<1>6. QED
  BY <1>1, <1>2, <1>3, <1>4, <1>5 DEF IInv

(* A report that ends the task under the lease it has. *)
LEMMA OutcomeStep ==
    ASSUME IInv, NEW m \in net, NEW ok \in BOOLEAN, NEW st \in Terminal, NEW r \in TaskRow,
           Answer(m, ok), m.what \in Terminal, ok => st = m.what,
           SameLease(m), task[m.k].status = "exchanged",
           task' = [task EXCEPT ![m.k] = r], r.status = st, r.tok = task[m.k].tok,
           cred' \in [status : CredStatus, fails : Nat],
           \/ cred'.fails \in {0, cred.fails}
           \/ st = "failed" /\ cred'.fails = cred.fails + 1,
           UNCHANGED <<admin, gen>>
    PROVE  IInv'
<1>1. /\ wk' \in [Worker -> WorkerState] /\ net' \subseteq Request
      /\ acked' \subseteq Task \X Terminal /\ faults' \in 0..MaxFaults /\ TokenInv'
      /\ acked' \subseteq IF ok THEN acked \cup {<<m.k, m.what>>} ELSE acked
      /\ \A w \in Worker : wk'[w] = wk[w] \/ wk'[w].pc = "idle"
  BY AnswerFacts DEF Terminal
<1>2. m.k \in Task /\ task[m.k] \in TaskRow
  BY DEF IInv, TypeOK, Request
<1>3. /\ task' \in [Task -> TaskRow]
      /\ task'[m.k] = r /\ \A k \in Task \ {m.k} : task'[k] = task[k]
  BY <1>2 DEF IInv, TypeOK
<1>4. TypeOK'
  BY <1>1, <1>3 DEF IInv, TypeOK
<1>5. HolderKeepsTask'
  <2> SUFFICES ASSUME NEW v \in Worker,
                      wk'[v].pc = "collect", wk'[v].tok = task'[wk'[v].k].tok
               PROVE  task'[wk'[v].k].status = "exchanged"
    BY DEF HolderKeepsTask
  <2>1. wk'[v] = wk[v] /\ wk[v].k \in Task
    BY <1>1 DEF IInv, TypeOK, WorkerState
  <2>2. wk[v].k # m.k
    BY <1>3, <2>1 DEF SameLease, IInv, TokenInv
  <2>3. QED
    BY <1>3, <2>1, <2>2 DEF IInv, HolderKeepsTask
<1>6. AcksAgree'
  <2> SUFFICES ASSUME NEW a \in acked' PROVE task'[a[1]].status = a[2]
    BY DEF AcksAgree
  <2>1. CASE a \in acked
    <3>1. a[1] \in Task /\ a[2] \in Terminal /\ task[a[1]].status = a[2]
      BY <2>1 DEF IInv, TypeOK, AcksAgree
    <3>2. a[1] # m.k
      BY <3>1 DEF Terminal
    <3>3. QED
      BY <1>3, <3>1, <3>2
  <2>2. CASE ok /\ a = <<m.k, m.what>>
    BY <1>3, <2>2
  <2>3. QED
    BY <1>1, <2>1, <2>2
<1>7. FailuresCountedOnce'
  <2>1. cred.fails \in Nat /\ cred'.fails \in Nat /\ cred.fails <= Cardinality(Failed)
    BY DEF IInv, TypeOK, FailuresCountedOnce
  <2>2. IsFiniteSet(Failed) /\ Cardinality(Failed) \in Nat /\ m.k \notin Failed
    BY FailedIsFinite DEF Failed
  <2>3. CASE st = "failed"
    <3>1. Failed' = Failed \cup {m.k}
      BY <1>2, <1>3, <2>3 DEF Failed
    <3>2. Cardinality(Failed') = Cardinality(Failed) + 1
      BY <2>2, <3>1, FS_AddElement
    <3>3. QED
      BY <2>1, <2>2, <3>2 DEF FailuresCountedOnce
  <2>4. CASE st = "success"
    <3>1. Failed' = Failed
      BY <1>2, <1>3, <2>4 DEF Failed
    <3>2. QED
      BY <2>1, <2>2, <2>4, <3>1 DEF FailuresCountedOnce
  <2>5. QED
    BY <2>3, <2>4 DEF Terminal
<1>8. QED
  BY <1>1, <1>4, <1>5, <1>6, <1>7 DEF IInv

LEMMA ReportStep == ASSUME IInv, NEW m \in net, Report(m) PROVE IInv'
<1>1. m.what \in Terminal /\ UNCHANGED <<admin, gen>> /\ TRUE \in BOOLEAN
  BY DEF Report
<1>2. cred \in [status : CredStatus, fails : Nat] /\ m.k \in Task /\ task[m.k] \in TaskRow
  BY DEF IInv, TypeOK, Request
<1>3. CASE SameLease(m) /\ Repeat(m)
  BY <1>1, <1>3, SameRowsStep DEF Repeat
<1>4. CASE SameLease(m) /\ Record(m)
  <2>1. /\ Counted(m.what) \in [status : CredStatus, fails : Nat]
        /\ \/ Counted(m.what).fails \in {0, cred.fails}
           \/ m.what = "failed" /\ Counted(m.what).fails = cred.fails + 1
    BY <1>1, <1>2 DEF Counted, CredStatus, Terminal
  <2> DEFINE r == [task[m.k] EXCEPT !.status = m.what, !.late = FALSE]
  <2>2. r \in TaskRow /\ r.status = m.what /\ r.tok = task[m.k].tok
    BY <1>1, <1>2 DEF TaskRow
  <2>3. task' = [task EXCEPT ![m.k] = r]
    BY <1>4 DEF Record
  <2> HIDE DEF r
  <2>4. QED
    BY <1>1, <1>4, <2>1, <2>2, <2>3, OutcomeStep DEF Record
<1>5. CASE SameLease(m) /\ Retire(m)
  <2> DEFINE r == [task[m.k] EXCEPT !.status = "failed", !.late = FALSE]
  <2>1. r \in TaskRow /\ r.status = "failed" /\ r.tok = task[m.k].tok
    BY <1>2 DEF TaskRow, Terminal
  <2>2. task' = [task EXCEPT ![m.k] = r]
    BY <1>5 DEF Retire
  <2>3. "failed" \in Terminal /\ FALSE \in BOOLEAN
    BY DEF Terminal
  <2> HIDE DEF r
  <2>4. QED
    BY <1>1, <1>2, <1>5, <2>1, <2>2, <2>3, OutcomeStep DEF Retire
<1>6. CASE Refuse(m)
  BY <1>1, <1>6, SameRowsStep DEF Refuse
<1>7. QED
  BY <1>3, <1>4, <1>5, <1>6 DEF Report

-----------------------------------------------------------------------------
(* The theorems *)

LEMMA NextInv == IInv /\ [Next]_vars => IInv'
<1> SUFFICES ASSUME IInv, [Next]_vars PROVE IInv'
  OBVIOUS
<1>1. CASE \/ \E k \in Task : Schedule(k) \/ LeaseEnds(k)
           \/ AdminRead \/ AdminWrite
  BY <1>1, OfficeStep
<1>2. CASE \E w \in Worker, arrives \in BOOLEAN : Poll(w, arrives)
  BY <1>2, PollStep
<1>3. CASE \/ \E w \in Worker : Collect(w) \/ Timeout(w) \/ Crash(w)
           \/ \E m \in net : Lose(m)
  BY <1>3, WorkerStep
<1>4. CASE Handled
  BY <1>4, ExchangeStep, ReportStep DEF Handled
<1>5. CASE UNCHANGED vars
  BY <1>5 DEF vars, IInv, TypeOK, TokenInv, HolderKeepsTask, AcksAgree,
              FailuresCountedOnce, Failed
<1>6. QED
  BY <1>1, <1>2, <1>3, <1>4, <1>5 DEF Next

LEMMA Invariant == Spec => []IInv
BY InitInv, NextInv, PTL DEF Spec

(* Every reachable state has the declared types, whatever the number of tasks,
   worker processes and faults (crawler_task, platform_credential). *)
THEOREM TypeCorrect == Spec => []TypeOK
BY Invariant, PTL DEF IInv

(* report_result: an outcome a worker got a 200 for is the outcome in the
   table, whatever is lost, repeated or overtaken. *)
THEOREM AcksAlwaysAgree == Spec => []AcksAgree
BY Invariant, PTL DEF IInv

(* The cred_token is a fence: only the holder of the current lease ends it. *)
THEOREM HolderIsFenced == Spec => []HolderKeepsTask
BY Invariant, PTL DEF IInv

(* report_failure: the credential's counter never passes the number of tasks
   that failed. *)
THEOREM FailuresCountOnce == Spec => []FailuresCountedOnce
BY Invariant, PTL DEF IInv

LEMMA TerminalStep ==
    ASSUME TypeOK, Next, NEW k \in Task, task[k].status \in Terminal
    PROVE  task'[k] = task[k]
<1>1. ASSUME NEW j \in Task, Schedule(j) \/ LeaseEnds(j) PROVE task'[k] = task[k]
  BY <1>1 DEF Schedule, LeaseEnds, TypeOK, Terminal, Leased
<1>2. ASSUME NEW w \in Worker, NEW arrives \in BOOLEAN, Poll(w, arrives)
      PROVE  task'[k] = task[k]
  BY <1>2 DEF Poll, Reclaimed, TypeOK, Terminal, Leased
<1>3. ASSUME NEW m \in net, Exchange(m) PROVE task'[k] = task[k]
  BY <1>3 DEF Exchange, TokenValid, TypeOK, Terminal
<1>4. ASSUME NEW m \in net, Report(m) PROVE task'[k] = task[k]
  BY <1>4 DEF Report, Repeat, Record, Retire, Refuse, TypeOK, Terminal
<1>5. QED
  BY <1>1, <1>2, <1>3, <1>4
     DEF Next, AdminRead, AdminWrite, Collect, Timeout, Crash, Lose, Handled

(* report_result: an outcome, once recorded, never changes. *)
THEOREM TerminalStaysFinal == Spec => TerminalIsFinal
<1>1. TypeOK /\ [Next]_vars
        => [\A k \in Task : task[k].status \in Terminal => task'[k] = task[k]]_vars
  BY TerminalStep
<1>2. QED
  BY <1>1, TypeCorrect, PTL DEF Spec, TerminalIsFinal

-----------------------------------------------------------------------------
(* Crawler implements LeaseContract *)

LEMMA JobsStay ==
    ASSUME \A k \in Task : task'[k].status = task[k].status /\ task'[k].tok = task[k].tok
    PROVE  [k \in Task |-> JobOf(task[k])]' = [k \in Task |-> JobOf(task[k])]
  BY DEF JobOf

LEMMA JobGoes ==
    ASSUME NEW k \in Task, NEW st, task'[k].status = st, task'[k].tok = task[k].tok,
           \A j \in Task \ {k} : task'[j].status = task[j].status /\ task'[j].tok = task[j].tok
    PROVE  Lease!Goes(k, st)
  BY DEF JobOf, Lease!Goes

LEMMA BusyStays ==
    ASSUME \A w \in Worker : /\ wk'[w].pc = "collect" <=> wk[w].pc = "collect"
                             /\ wk[w].pc = "collect" => wk'[w].tok = wk[w].tok
    PROVE  Busy' = Busy
  BY DEF Busy

(* No two adapters run under one lease. *)
LEMMA BusyDrops ==
    ASSUME IInv, NEW w \in Worker, wk[w].pc = "collect", wk'[w].pc # "collect",
           \A v \in Worker \ {w} : wk'[v] = wk[v]
    PROVE  Busy' = Busy \ {wk[w].tok} /\ wk[w].tok \in Busy
  BY DEF Busy, IInv, TokenInv

LEMMA BusyGains ==
    ASSUME NEW w \in Worker, wk[w].pc # "collect", wk'[w].pc = "collect",
           \A v \in Worker \ {w} : wk'[v] = wk[v]
    PROVE  Busy' = Busy \cup {wk'[w].tok}
  BY DEF Busy

(* A worker goes on, or gives up. *)
LEMMA WorkerStops ==
    ASSUME IInv, NEW w \in Worker, wk'[w].pc # "collect",
           \A v \in Worker \ {w} : wk'[v] = wk[v], UNCHANGED <<task, acked, gen>>
    PROVE  [Lease!Next]_(Lease!queue)
<1>1. [k \in Task |-> JobOf(task[k])]' = [k \in Task |-> JobOf(task[k])]
  BY JobsStay
<1>2. CASE wk[w].pc = "collect"
  <2>1. Busy' = Busy \ {wk[w].tok} /\ wk[w].tok \in Busy
    BY <1>2, BusyDrops
  <2> QED  BY <1>1, <2>1 DEF Lease!Stop, Lease!Next
<1>3. CASE wk[w].pc # "collect"
  <2>1. Busy' = Busy
    BY <1>3, BusyStays
  <2> QED  BY <1>1, <2>1 DEF Lease!queue
<1> QED  BY <1>2, <1>3

LEMMA SentOrIdle ==
    ASSUME TypeOK, NEW w \in Worker,
           GoesIdle(w) \/ \E k, tok, try : \E st \in Terminal \cup {"exchange"} :
                            Send(w, k, tok, st, try)
    PROVE  wk'[w].pc # "collect" /\ \A v \in Worker \ {w} : wk'[v] = wk[v]
<1>1. CASE GoesIdle(w)
  BY <1>1 DEF GoesIdle, TypeOK, WorkerState
<1>2. ASSUME NEW k, NEW tok, NEW try, NEW st \in Terminal \cup {"exchange"},
             Send(w, k, tok, st, try)
      PROVE  wk'[w].pc # "collect" /\ \A v \in Worker \ {w} : wk'[v] = wk[v]
  BY <1>2 DEF Send, TypeOK, Terminal
<1> QED  BY <1>1, <1>2

LEMMA OfficeImplements ==
    ASSUME IInv,
           \/ \E w \in Worker : Collect(w) \/ Timeout(w) \/ Crash(w)
           \/ \E m \in net : Lose(m)
    PROVE  [Lease!Next]_(Lease!queue)
<1>1. ASSUME NEW w \in Worker, Collect(w) \/ Timeout(w) \/ Crash(w)
      PROVE  [Lease!Next]_(Lease!queue)
  <2>1. GoesIdle(w) \/ \E k, tok, try : \E st \in Terminal \cup {"exchange"} :
                          Send(w, k, tok, st, try)
    BY <1>1 DEF Collect, Timeout, Crash
  <2> QED  BY <1>1, <2>1, SentOrIdle, WorkerStops DEF IInv, Collect, Timeout, Crash
<1>2. ASSUME NEW m \in net, Lose(m) PROVE [Lease!Next]_(Lease!queue)
  <2>1. m.w \in Worker /\ UNCHANGED <<task, acked, gen>>
    BY <1>2 DEF IInv, TypeOK, Request, Lose
  <2>2. CASE GoesIdle(m.w)
    BY <2>1, <2>2, SentOrIdle, WorkerStops DEF IInv
  <2>3. CASE UNCHANGED wk
    BY <2>1, <2>3, JobsStay, BusyStays DEF Lease!queue
  <2> QED  BY <1>2, <2>2, <2>3 DEF Lose
<1> QED  BY <1>1, <1>2

LEMMA QuietImplements ==
    ASSUME IInv,
           \/ \E k \in Task : Schedule(k) \/ LeaseEnds(k)
           \/ AdminRead \/ AdminWrite \/ UNCHANGED vars
    PROVE  [Lease!Next]_(Lease!queue)
<1>1. Busy' = Busy /\ acked' = acked /\ gen' = gen
  BY BusyStays DEF Schedule, LeaseEnds, AdminRead, AdminWrite, vars
<1>2. ASSUME NEW k \in Task, Schedule(k) PROVE Lease!Add(k)
  <2>1. /\ task[k].status = "none" /\ task'[k].status = "pending" /\ task'[k].tok = task[k].tok
        /\ \A j \in Task \ {k} : task'[j].status = task[j].status /\ task'[j].tok = task[j].tok
    BY <1>2 DEF Schedule, IInv, TypeOK, TaskRow
  <2>2. Lease!Goes(k, "pending")
    BY <2>1, JobGoes
  <2> QED  BY <1>1, <2>1, <2>2 DEF Lease!Add, JobOf
<1>3. ASSUME NEW k \in Task, LeaseEnds(k) PROVE UNCHANGED Lease!queue
  <2>1. \A j \in Task : task'[j].status = task[j].status /\ task'[j].tok = task[j].tok
    BY <1>3 DEF LeaseEnds, IInv, TypeOK, TaskRow
  <2> QED  BY <1>1, <2>1, JobsStay DEF Lease!queue
<1>4. CASE UNCHANGED task
  BY <1>1, <1>4, JobsStay DEF Lease!queue
<1> QED  BY <1>2, <1>3, <1>4 DEF Lease!Next, AdminRead, AdminWrite, vars

(* Poll gives one task out, under a new lease, and takes back the ones whose
   leases ran out. *)
LEMMA PollGives ==
    ASSUME IInv, NEW w \in Worker, NEW arrives \in BOOLEAN, Poll(w, arrives)
    PROVE  [Lease!Next]_(Lease!queue)
<1>1. PICK k \in Task :
         /\ Reclaimed(k).status = "pending"
         /\ gen' = gen + 1
         /\ task' = [[j \in Task |-> Reclaimed(j)] EXCEPT
                       ![k] = [status |-> "assigned", tok |-> gen + 1, late |-> FALSE]]
         /\ IF arrives
            THEN wk[w].pc = "idle" /\ Send(w, k, gen + 1, "exchange", 1) /\ NoFault
            ELSE UNCHANGED <<wk, net>> /\ Fault
         /\ UNCHANGED <<cred, admin, acked>>
  BY DEF Poll
<1>2. Busy' = Busy
  <2>1. CASE wk[w].pc = "idle" /\ Send(w, k, gen + 1, "exchange", 1)
    <3>1. wk'[w].pc # "collect" /\ \A v \in Worker \ {w} : wk'[v] = wk[v]
      BY <2>1, SentOrIdle DEF IInv
    <3> QED  BY <2>1, <3>1, BusyStays
  <2>2. CASE UNCHANGED wk
    BY <2>2, BusyStays
  <2> QED  BY <1>1, <2>1, <2>2
<1> DEFINE back == {j \in Task : task[j].status \in Leased /\ task[j].late}
<1>3. \A j \in Task : /\ j \in back => JobOf(Reclaimed(j)) = Lease!Idle("pending")
                      /\ j \notin back => Reclaimed(j) = task[j]
  BY DEF Reclaimed, NoTok, JobOf, Lease!Idle
<1>4. back \subseteq {j \in Task : JobOf(task[j]).state \in Lease!Out}
      /\ (k \in back \/ JobOf(task[k]).state = "pending")
  BY <1>1, <1>3 DEF Leased, Lease!Out, JobOf
<1>5. [j \in Task |-> JobOf(task[j])]' =
        [j \in Task |-> IF j = k THEN [state |-> "assigned", lease |-> gen + 1]
                        ELSE IF j \in back THEN Lease!Idle("pending") ELSE JobOf(task[j])]
  <2>1. ASSUME NEW j \in Task
        PROVE  JobOf(task'[j]) = IF j = k THEN [state |-> "assigned", lease |-> gen + 1]
                                 ELSE IF j \in back THEN Lease!Idle("pending") ELSE JobOf(task[j])
    <3>1. CASE j = k
      BY <1>1, <3>1 DEF JobOf
    <3>2. CASE j # k
      <4>1. task'[j] = Reclaimed(j)
        BY <1>1, <3>2
      <4> QED  BY <1>3, <3>2, <4>1
    <3> QED  BY <3>1, <3>2
  <2> QED  BY <2>1
<1> HIDE DEF back
<1>6. Lease!Give(k)
  BY <1>1, <1>2, <1>4, <1>5 DEF Lease!Give
<1> QED  BY <1>6 DEF Lease!Next

(* An answer starts an adapter, if it is the password, and changes nothing else
   about who collects. *)
LEMMA AnswerBusy ==
    ASSUME IInv, NEW m \in net, NEW ok \in BOOLEAN, Answer(m, ok)
    PROVE  \/ Busy' = Busy
           \/ ok /\ m.what = "exchange" /\ Busy' = Busy \cup {m.tok}
<1>1. m.w \in Worker /\ m.what # "collect"
  BY DEF IInv, TypeOK, Request, Terminal
<1>2. CASE Waits(m) /\ ok /\ m.what = "exchange" /\ wk' = [wk EXCEPT ![m.w].pc = "collect"]
  <2>1. wk[m.w].pc = "exchange" /\ wk[m.w].tok = m.tok
    BY <1>2 DEF Waits, Current, Ask
  <2>2. /\ wk'[m.w].pc = "collect" /\ wk'[m.w].tok = m.tok
        /\ \A v \in Worker \ {m.w} : wk'[v] = wk[v]
    BY <1>1, <1>2, <2>1 DEF IInv, TypeOK, WorkerState
  <2> QED  BY <1>1, <1>2, <2>1, <2>2, BusyGains
<1>3. CASE Waits(m) /\ GoesIdle(m.w)
  <2>1. wk[m.w].pc # "collect"
    BY <1>1, <1>3 DEF Waits, Current, Ask
  <2>2. wk'[m.w].pc # "collect" /\ \A v \in Worker \ {m.w} : wk'[v] = wk[v]
    BY <1>1, <1>3, SentOrIdle DEF IInv
  <2> QED  BY <2>1, <2>2, BusyStays
<1>4. CASE UNCHANGED wk
  BY <1>4, BusyStays
<1> QED  BY <1>2, <1>3, <1>4 DEF Answer

LEMMA ExchangeStarts ==
    ASSUME IInv, NEW m \in net, Exchange(m) PROVE [Lease!Next]_(Lease!queue)
<1>1. /\ m.what = "exchange" /\ m.k \in Task /\ Answer(m, TokenValid(m)) /\ gen' = gen
      /\ TokenValid(m) \in BOOLEAN
  BY DEF Exchange, IInv, TypeOK, Request, TokenValid, TaskRow
<1>2. acked' = acked
  BY <1>1 DEF Answer, Terminal
<1>3. CASE TokenValid(m)
  <2>1. task[m.k].status = "assigned" /\ task[m.k].tok = m.tok
    BY <1>3 DEF TokenValid
  <2>2. /\ task'[m.k].status = "exchanged" /\ task'[m.k].tok = task[m.k].tok
        /\ \A j \in Task \ {m.k} : task'[j].status = task[j].status /\ task'[j].tok = task[j].tok
    BY <1>1, <1>3 DEF Exchange, IInv, TypeOK, TaskRow
  <2>3. Lease!Goes(m.k, "exchanged")
    BY <1>1, <2>2, JobGoes
  <2>4. Busy' \in {Busy, Busy \cup {m.tok}}
    BY <1>1, AnswerBusy
  <2>5. Lease!Start(m.k)
    BY <1>1, <1>2, <2>1, <2>3, <2>4 DEF Lease!Start, JobOf
  <2> QED  BY <1>1, <2>5 DEF Lease!Next
<1>4. CASE ~TokenValid(m)
  <2>1. Busy' = Busy
    BY <1>1, <1>4, AnswerBusy
  <2>2. UNCHANGED task
    BY <1>4 DEF Exchange
  <2> QED  BY <1>1, <1>2, <2>1, <2>2, JobsStay DEF Lease!queue
<1> QED  BY <1>3, <1>4

LEMMA ReportEnds ==
    ASSUME IInv, NEW m \in net, Report(m) PROVE [Lease!Next]_(Lease!queue)
<1>1. m.what \in Terminal /\ m.what # "exchange" /\ m.k \in Task /\ gen' = gen
  BY DEF Report, IInv, TypeOK, Request, Terminal
<1>2. ASSUME NEW ok \in BOOLEAN, Answer(m, ok)
      PROVE  /\ Busy' = Busy
             /\ acked' = acked \/ (ok /\ acked' = acked \cup {<<m.k, m.what>>})
  <2>1. Busy' = Busy
    BY <1>1, <1>2, AnswerBusy
  <2> QED  BY <1>2, <2>1 DEF Answer
<1>3. CASE Repeat(m)
  <2>1. Busy' = Busy /\ UNCHANGED task
    BY <1>2, <1>3 DEF Repeat
  <2>2. acked' = acked \/ acked' = acked \cup {<<m.k, m.what>>}
    BY <1>2, <1>3 DEF Repeat
  <2>3. [k \in Task |-> JobOf(task[k])]' = [k \in Task |-> JobOf(task[k])]
    BY <2>1, JobsStay
  <2>4. JobOf(task[m.k]).state = m.what
    BY <1>3 DEF Repeat, JobOf
  <2>5. CASE acked' = acked
    BY <1>1, <2>1, <2>3, <2>5 DEF Lease!queue
  <2>6. CASE acked' = acked \cup {<<m.k, m.what>>}
    <3>1. Lease!Tell(m.k)
      BY <1>1, <2>1, <2>3, <2>4, <2>6 DEF Lease!Tell
    <3> QED  BY <1>1, <3>1 DEF Lease!Next
  <2> QED  BY <2>2, <2>5, <2>6
<1>4. ASSUME NEW how \in Terminal, SameLease(m), task[m.k].status = "exchanged",
             task' = [task EXCEPT ![m.k].status = how, ![m.k].late = FALSE],
             Busy' = Busy, acked' \in {acked, acked \cup {<<m.k, how>>}}
      PROVE  Lease!End(m.k)
  <2>1. /\ task'[m.k].status = how /\ task'[m.k].tok = task[m.k].tok
        /\ \A j \in Task \ {m.k} : task'[j].status = task[j].status /\ task'[j].tok = task[j].tok
    BY <1>1, <1>4 DEF IInv, TypeOK, TaskRow
  <2>2. Lease!Goes(m.k, how)
    BY <1>1, <2>1, JobGoes
  <2>3. task[m.k].tok \notin Busy
    BY <1>1, <1>4 DEF SameLease, IInv, TokenInv, Busy
  <2>4. JobOf(task[m.k]).state = "exchanged" /\ JobOf(task[m.k]).lease \notin Busy
    BY <1>4, <2>3 DEF JobOf
  <2> QED  BY <1>1, <1>4, <2>2, <2>4 DEF Lease!End
<1>5. CASE SameLease(m) /\ Record(m)
  <2>1. Busy' = Busy /\ acked' \in {acked, acked \cup {<<m.k, m.what>>}}
    BY <1>2, <1>5 DEF Record
  <2>2. Lease!End(m.k)
    BY <1>1, <1>4, <1>5, <2>1 DEF Record
  <2> QED  BY <1>1, <2>2 DEF Lease!Next
<1>6. CASE SameLease(m) /\ Retire(m)
  <2>1. Busy' = Busy /\ acked' = acked
    BY <1>2, <1>6 DEF Retire
  <2>2. Lease!End(m.k)
    BY <1>1, <1>4, <1>6, <2>1 DEF Retire, Terminal
  <2> QED  BY <1>1, <2>2 DEF Lease!Next
<1>7. CASE Refuse(m)
  <2>1. Busy' = Busy /\ acked' = acked /\ UNCHANGED task
    BY <1>2, <1>7 DEF Refuse
  <2> QED  BY <1>1, <2>1, JobsStay DEF Lease!queue
<1> QED  BY <1>3, <1>5, <1>6, <1>7 DEF Report

(* Over a network that loses, repeats and delays messages, with workers that die
   and leases that end under them, the queue behaves as if every call happened
   at once: LeaseContract. *)
THEOREM TasksEndOnce == Spec => ImplementsLeaseContract
<1>1. ASSUME Init PROVE Lease!Init
  <2>1. Busy = {}
    BY <1>1 DEF Init, Busy
  <2>2. [k \in Task |-> JobOf(task[k])] = [k \in Task |-> Lease!Idle("none")]
    BY <1>1 DEF Init, JobOf, Lease!Idle, NoTok
  <2> QED  BY <1>1, <2>1, <2>2 DEF Init, Lease!Init
<1>2. ASSUME IInv, [Next]_vars PROVE [Lease!Next]_(Lease!queue)
  BY <1>2, OfficeImplements, QuietImplements, PollGives, ExchangeStarts, ReportEnds
     DEF Next, Handled
<1> QED
  BY <1>1, <1>2, Invariant, PTL DEF Spec, ImplementsLeaseContract, Lease!Spec

=============================================================================
