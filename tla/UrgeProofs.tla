----------------------------- MODULE UrgeProofs -----------------------------
(***************************************************************************)
(* The safety properties of Urge, for any number of requests and urges,    *)
(* any number of days and of lost requests.  Only the holder of the task   *)
(* row can change it, so the proof is about the version that the holder    *)
(* has written and not committed: SlotInv relates it to the committed one. *)
(***************************************************************************)
EXTENDS UrgeContract, TLAPS

ReqState == [op : Urging \cup Closing \cup Ending \cup {"none"},
             pc : {"idle", "ensure", "bump", "record", "close", "event",
                   "lock", "end", "commit", "victim"},
             w : Task, sent : BOOLEAN, noted : BOOLEAN]

(* w is t after one urge by op. *)
Urged(t, w, op) ==
    /\ ~t.exists \/ IsOpen(t) \/ (t.reason = "COMPLETED" /\ op = "once")
    /\ w.exists /\ w.reason = "NONE" /\ w.count = t.count + 1
    /\ op = "scan" => w.autoOn = day /\ t.autoOn # day
    /\ op # "scan" => w.autoOn = t.autoOn

(* w is t after a closing. *)
Closed(t, w) == IsOpen(t) /\ w.exists /\ w.count = t.count /\ w.autoOn = t.autoOn

SlotInv(r) ==
    /\ req[r].pc \in {"record", "event"} => taskX = r
    /\ req[r].sent => taskX = r /\ req[r].pc = "commit"
    /\ req[r].pc \in {"lock", "end"} => req[r].op \in Ending
    /\ req[r].noted <=> req[r].pc = "commit" /\ req[r].op = "manual" /\ taskX = r /\ ~req[r].sent
    /\ taskX = r =>
         /\ req[r].pc \in {"bump", "record", "event", "commit"}
         /\ req[r].pc = "bump" => ~task.exists /\ req[r].w = FreshTask
         /\ req[r].pc = "record" \/ req[r].sent => Urged(task, req[r].w, req[r].op)
         /\ req[r].pc = "event" \/ (req[r].pc = "commit" /\ ~req[r].sent) =>
              Closed(task, req[r].w) /\ (req[r].w.reason = "MANUAL" <=> req[r].op = "manual")

TaskInv ==
    /\ ~task.exists => task.count = 0 /\ task.autoOn = 0 /\ task.reason = "NONE"
    /\ records = Recorded(task)
    /\ autos \in {0, 1}
    /\ autos = 1 => task.autoOn = day

IInv == TypeOK /\ TaskInv /\ \A r \in Req : SlotInv(r)

-----------------------------------------------------------------------------

LEMMA InitIInv == Init => IInv
<1> SUFFICES ASSUME Init PROVE IInv
  OBVIOUS
<1>1. NoTask \in Task
  BY DEF NoTask, Task, Reasons
<1>2. TypeOK
  BY <1>1 DEF Init, TypeOK, Promo, Idle
<1>3. TaskInv
  BY DEF Init, TaskInv, NoTask, Recorded
<1>4. ASSUME NEW r \in Req PROVE SlotInv(r)
  BY ReqAssumption DEF Init, SlotInv, Idle
<1> QED  BY <1>2, <1>3, <1>4 DEF IInv

(* What one request does to itself, while the committed rows stay. *)
LEMMA LocalStep ==
    ASSUME IInv, NEW r \in Req, TypeOK', UNCHANGED world, SlotInv(r)',
           \A s \in Req \ {r} : req'[s] = req[s] /\ (taskX' = s <=> taskX = s)
    PROVE  IInv'
<1>1. TaskInv'
  BY DEF IInv, TaskInv, world
<1>2. ASSUME NEW s \in Req \ {r} PROVE SlotInv(s)'
  BY <1>2 DEF IInv, SlotInv, Urged, Closed, world
<1> QED  BY <1>1, <1>2 DEF IInv

LEMMA TypeFacts ==
    ASSUME TypeOK
    PROVE  /\ req \in [Req -> ReqState] /\ task \in Task /\ promo \in Promo
           /\ records \in Nat /\ autos \in Nat /\ day \in Nat \ {0} /\ lost \in Nat
           /\ scanning \in BOOLEAN
           /\ promoX \in Req \cup {NoReq} /\ taskX \in Req \cup {NoReq} /\ promoS \subseteq Req
  BY DEF TypeOK, ReqState

LEMMA TypeIs ==
    ASSUME req \in [Req -> ReqState], task \in Task, promo \in Promo,
           records \in Nat, autos \in Nat, day \in Nat \ {0}, lost \in Nat, scanning \in BOOLEAN,
           promoX \in Req \cup {NoReq}, taskX \in Req \cup {NoReq}, promoS \subseteq Req
    PROVE  TypeOK
  BY DEF TypeOK, ReqState

(* A request that ends or is rolled back gives up its locks and its write. *)
LEMMA ReleaseStep ==
    ASSUME IInv, NEW r \in Req, NEW pc \in {"idle", "victim"}, Release(r, pc),
           UNCHANGED world, lost' \in Nat
    PROVE  IInv'
<1>1. Idle \in ReqState
  BY DEF Idle, ReqState, NoTask, Task, Reasons
<1>2. req'[r].pc = pc /\ ~req'[r].sent /\ ~req'[r].noted /\ req'[r] \in ReqState /\ req' \in [Req -> ReqState]
  BY <1>1, TypeFacts DEF IInv, Release, Idle, ReqState
<1>3. TypeOK'
  BY <1>2, TypeFacts DEF IInv, Release, world, TypeOK, ReqState
<1>4. taskX' # r
  BY ReqAssumption DEF Release
<1>5. SlotInv(r)'
  BY <1>2, <1>4 DEF SlotInv
<1>6. \A s \in Req \ {r} : req'[s] = req[s] /\ (taskX' = s <=> taskX = s)
  BY ReqAssumption, TypeFacts DEF IInv, Release
<1> QED  BY <1>3, <1>5, <1>6, LocalStep

(* A request that goes on without touching the task. *)
LEMMA GoStep ==
    ASSUME IInv, NEW r \in Req, NEW q \in ReqState, req' = [req EXCEPT ![r] = q],
           UNCHANGED world, UNCHANGED <<taskX, lost>>,
           promoX' \in Req \cup {NoReq}, promoS' \subseteq Req, SlotInv(r)'
    PROVE  IInv'
<1>1. TypeOK'
  BY TypeFacts DEF IInv, world, TypeOK, ReqState
<1>2. \A s \in Req \ {r} : req'[s] = req[s] /\ (taskX' = s <=> taskX = s)
  BY TypeFacts DEF IInv
<1> QED  BY <1>1, <1>2, LocalStep

(* A request that writes the task, which nobody else is writing. *)
LEMMA WriteStep ==
    ASSUME IInv, NEW r \in Req, NEW w \in Task,
           NEW pc \in {"bump", "record", "event", "commit"},
           WriteTask(r, w, pc), FreeTask(r), UNCHANGED world, UNCHANGED <<promoX, lost>>,
           promoS' \subseteq Req, SlotInv(r)'
    PROVE  IInv'
<1>1. req' \in [Req -> ReqState]
  BY TypeFacts DEF IInv, WriteTask, ReqState
<1>2. TypeOK'
  BY <1>1, TypeFacts DEF IInv, world, WriteTask, TypeOK, ReqState
<1>3. \A s \in Req \ {r} : req'[s] = req[s] /\ (taskX' = s <=> taskX = s)
  BY TypeFacts, ReqAssumption DEF IInv, WriteTask, FreeTask
<1> QED  BY <1>2, <1>3, LocalStep

-----------------------------------------------------------------------------
(* The steps of a request. *)

LEMMA ReasonType == ASSUME NEW r \in Req PROVE ReasonOf(r) \in Reasons
  BY DEF ReasonOf, Reasons

LEMMA ManualReason ==
    ASSUME NEW r \in Req PROVE ReasonOf(r) = "MANUAL" <=> req[r].op = "manual"
  BY DEF ReasonOf

LEMMA StartStep ==
    ASSUME IInv, NEW r \in Req, NEW op \in Urging \cup Closing \cup Ending,
           NEW pc \in {"ensure", "close", "lock"}, Start(r, op, pc),
           pc = "lock" => op \in Ending
    PROVE  IInv'
<1> DEFINE q == [req[r] EXCEPT !.op = op, !.pc = pc]
<1>1. q \in ReqState /\ req' = [req EXCEPT ![r] = q]
  BY TypeFacts DEF IInv, Start, ReqState
<1>2. /\ req'[r].pc = pc /\ req'[r].op = op /\ taskX' = taskX /\ taskX # r
      /\ ~req'[r].sent /\ ~req'[r].noted
  BY TypeFacts DEF IInv, SlotInv, Start, locks, ReqState
<1>3. SlotInv(r)'
  BY <1>2 DEF SlotInv
<1> QED  BY <1>1, <1>3, GoStep, TypeFacts DEF IInv, Start, locks

LEMMA BeginStep ==
    ASSUME IInv, NEW r \in Req,
           BeginUrge(r) \/ BeginScan(r) \/ BeginClose(r) \/ BeginEnd(r)
    PROVE  IInv'
  BY StartStep DEF BeginUrge, BeginScan, BeginClose, BeginEnd, Urging, Closing, Ending

LEMMA EnsureStep == ASSUME IInv, NEW r \in Req, EnsureTask(r) PROVE IInv'
<1>1. CASE Go(r, "bump") /\ UNCHANGED locks
  <2> DEFINE q == [req[r] EXCEPT !.pc = "bump"]
  <2>1. q \in ReqState /\ req' = [req EXCEPT ![r] = q]
    BY <1>1, TypeFacts DEF IInv, Go, ReqState
  <2>2. req'[r].pc = "bump" /\ ~req'[r].sent /\ ~req'[r].noted /\ taskX' = taskX /\ taskX # r
    BY <1>1, TypeFacts DEF IInv, SlotInv, EnsureTask, Go, locks, ReqState
  <2>3. SlotInv(r)'
    BY <2>2 DEF SlotInv
  <2> QED  BY <1>1, <2>1, <2>3, GoStep, TypeFacts DEF IInv, EnsureTask, locks
<1>2. CASE ~task.exists /\ FreeTask(r) /\ WriteTask(r, FreshTask, "bump")
            /\ promoS' = promoS \cup {r} /\ UNCHANGED promoX
  <2>1. FreshTask \in Task
    BY DEF FreshTask, NoTask, Task, Reasons
  <2>2. /\ req'[r].pc = "bump" /\ req'[r].w = FreshTask /\ ~req'[r].sent /\ ~req'[r].noted
        /\ task' = task
    BY <1>2, TypeFacts DEF IInv, SlotInv, EnsureTask, WriteTask, ReqState, world
  <2>3. SlotInv(r)'
    BY <1>2, <2>2 DEF SlotInv
  <2> QED  BY <1>2, <2>1, <2>3, WriteStep, TypeFacts DEF IInv, EnsureTask
<1> QED  BY <1>1, <1>2 DEF EnsureTask

LEMMA BumpStep == ASSUME IInv, NEW r \in Req, Bump(r) PROVE IInv'
<1>1. CASE ~Bumpable(r, Mine(r))
  BY <1>1, ReleaseStep, TypeFacts DEF IInv, Bump, Refuse
<1>2. CASE Bumpable(r, Mine(r))
  <2> DEFINE w == Bumped(r, Mine(r))
  <2>1. /\ FreeTask(r) /\ WriteTask(r, w, "record") /\ UNCHANGED world
        /\ UNCHANGED <<promoX, promoS, lost>> /\ req[r].pc = "bump"
    BY <1>2 DEF Bump
  <2>2. Mine(r) \in Task
    BY TypeFacts DEF IInv, Mine, ReqState
  <2>3. w \in Task
    <3>1. day \in Nat /\ Mine(r).count + 1 \in Nat
      BY <2>2, TypeFacts DEF IInv, Task
    <3>2. ASSUME NEW t \in Task, NEW n \in Nat, NEW d \in Nat
          PROVE  /\ [t EXCEPT !.reason = "NONE", !.count = n, !.autoOn = d] \in Task
                 /\ [t EXCEPT !.reason = "NONE", !.count = n, !.autoOn = t.autoOn] \in Task
      BY DEF Task, Reasons
    <3>3. CASE req[r].op = "scan"
      BY <2>2, <3>1, <3>2, <3>3 DEF Bumped
    <3>4. CASE req[r].op # "scan"
      BY <2>2, <3>1, <3>2, <3>4 DEF Bumped
    <3> QED  BY <3>3, <3>4
  <2>4. Mine(r) = task \/ (~task.exists /\ Mine(r) = FreshTask)
    BY <2>1 DEF IInv, SlotInv, Mine
  <2>5. Mine(r).count = task.count /\ Mine(r).autoOn = task.autoOn
    BY <2>4 DEF IInv, TaskInv, FreshTask, NoTask
  <2>6. /\ Mine(r).exists
        /\ \/ ~task.exists \/ IsOpen(task)
           \/ task.reason = "COMPLETED" /\ req[r].op = "once"
    BY <1>2, <2>4 DEF Bumpable, IsOpen
  <2>7. req[r].op = "scan" => task.autoOn # day
    BY <1>2, <2>5 DEF Bumpable
  <2>8. /\ w.exists /\ w.reason = "NONE" /\ w.count = task.count + 1
        /\ w.autoOn = IF req[r].op = "scan" THEN day ELSE task.autoOn
    BY <2>2, <2>5, <2>6 DEF Bumped, Task
  <2>9. Urged(task, w, req[r].op)
    BY <2>6, <2>7, <2>8 DEF Urged
  <2>10. /\ req'[r].pc = "record" /\ req'[r].w = w /\ req'[r].op = req[r].op
         /\ ~req'[r].sent /\ ~req'[r].noted /\ taskX' = r /\ task' = task /\ day' = day
    BY <2>1, TypeFacts DEF IInv, SlotInv, WriteTask, ReqState, world
  <2>11. SlotInv(r)'
    BY <2>9, <2>10 DEF SlotInv, Urged
  <2> HIDE DEF w
  <2> QED  BY <2>1, <2>3, <2>11, WriteStep, TypeFacts DEF IInv
<1> QED  BY <1>1, <1>2

LEMMA RecordStep == ASSUME IInv, NEW r \in Req, Record(r) PROVE IInv'
<1> DEFINE q == [req[r] EXCEPT !.sent = TRUE, !.pc = "commit"]
<1>1. q \in ReqState /\ req' = [req EXCEPT ![r] = q]
  BY TypeFacts DEF IInv, Record, ReqState
<1>2. /\ req'[r].pc = "commit" /\ req'[r].w = req[r].w /\ req'[r].op = req[r].op
      /\ req'[r].sent /\ ~req'[r].noted
  BY TypeFacts DEF IInv, SlotInv, Record, ReqState
<1>3. taskX' = taskX /\ taskX = r /\ task' = task /\ day' = day
      /\ Urged(task, req[r].w, req[r].op)
  BY DEF IInv, SlotInv, Record, world
<1>4. SlotInv(r)'
  BY <1>2, <1>3 DEF SlotInv, Urged
<1> QED  BY <1>1, <1>4, GoStep, TypeFacts DEF IInv, Record

LEMMA CloseTaskStep == ASSUME IInv, NEW r \in Req, CloseTask(r) PROVE IInv'
<1>1. CASE ~IsOpen(task)
  BY <1>1, ReleaseStep, TypeFacts DEF IInv, CloseTask, Refuse
<1>2. CASE IsOpen(task)
  <2> DEFINE w == [task EXCEPT !.reason = ReasonOf(r)]
  <2>1. /\ FreeTask(r) /\ WriteTask(r, w, "event") /\ UNCHANGED world
        /\ UNCHANGED <<promoX, promoS, lost>> /\ req[r].pc = "close"
    BY <1>2 DEF CloseTask
  <2>2. /\ w \in Task /\ Closed(task, w)
        /\ w.reason = "MANUAL" <=> req[r].op = "manual"
    BY <1>2, TypeFacts, ReasonType, ManualReason DEF IInv, Task, Closed, IsOpen
  <2>3. /\ req'[r].op = req[r].op
        /\ req'[r].pc = "event" /\ req'[r].w = w /\ ~req'[r].sent /\ ~req'[r].noted /\ taskX' = r /\ task' = task
    BY <2>1, TypeFacts DEF IInv, SlotInv, WriteTask, ReqState, world
  <2>4. SlotInv(r)'
    BY <2>2, <2>3 DEF SlotInv, Closed, IsOpen
  <2> HIDE DEF w
  <2> QED  BY <2>1, <2>2, <2>4, WriteStep, TypeFacts DEF IInv
<1> QED  BY <1>1, <1>2

LEMMA CloseEventStep == ASSUME IInv, NEW r \in Req, CloseEvent(r) PROVE IInv'
<1> DEFINE q == [req[r] EXCEPT !.noted = req[r].op = "manual", !.pc = "commit"]
<1>1. q \in ReqState /\ req' = [req EXCEPT ![r] = q]
  BY TypeFacts DEF IInv, CloseEvent, ReqState
<1>2. /\ req'[r].pc = "commit" /\ req'[r].w = req[r].w /\ req'[r].op = req[r].op
      /\ ~req'[r].sent /\ (req'[r].noted <=> req[r].op = "manual")
  BY TypeFacts DEF IInv, SlotInv, CloseEvent, ReqState
<1>3. taskX' = taskX /\ taskX = r /\ task' = task /\ Closed(task, req[r].w)
      /\ (req[r].w.reason = "MANUAL" <=> req[r].op = "manual")
  BY DEF IInv, SlotInv, CloseEvent, world
<1>4. SlotInv(r)'
  BY <1>2, <1>3 DEF SlotInv, Closed, IsOpen
<1> QED  BY <1>1, <1>4, GoStep, TypeFacts DEF IInv, CloseEvent

LEMMA LockStep == ASSUME IInv, NEW r \in Req, LockPromotion(r) PROVE IInv'
<1>1. CASE ~Urgeable(promo)
  BY <1>1, ReleaseStep, TypeFacts DEF IInv, LockPromotion, Refuse
<1>2. CASE Urgeable(promo)
  <2> DEFINE q == [req[r] EXCEPT !.pc = "end"]
  <2>1. q \in ReqState /\ req' = [req EXCEPT ![r] = q]
    BY <1>2, TypeFacts DEF IInv, LockPromotion, Go, ReqState
  <2>2. req'[r].pc = "end" /\ req'[r].op \in Ending /\ ~req'[r].sent /\ ~req'[r].noted /\ taskX' = taskX /\ taskX # r
    BY <1>2, TypeFacts DEF IInv, SlotInv, LockPromotion, Go, ReqState
  <2>3. SlotInv(r)'
    BY <2>2 DEF SlotInv
  <2> QED  BY <1>2, <2>1, <2>3, GoStep, TypeFacts DEF IInv, LockPromotion
<1> QED  BY <1>1, <1>2

LEMMA CloseByPromotionStep == ASSUME IInv, NEW r \in Req, CloseByPromotion(r) PROVE IInv'
<1>1. CASE ~(IsOpen(task) /\ req[r].op # "deactivate")
  <2> DEFINE q == [req[r] EXCEPT !.pc = "commit"]
  <2>1. q \in ReqState /\ req' = [req EXCEPT ![r] = q]
    BY <1>1, TypeFacts DEF IInv, CloseByPromotion, Go, ReqState
  <2>2. req'[r].pc = "commit" /\ ~req'[r].sent /\ ~req'[r].noted /\ taskX' = taskX /\ taskX # r
    BY <1>1, TypeFacts DEF IInv, SlotInv, CloseByPromotion, Go, ReqState, locks
  <2>3. SlotInv(r)'
    BY <2>2 DEF SlotInv
  <2> QED  BY <1>1, <2>1, <2>3, GoStep, TypeFacts DEF IInv, CloseByPromotion, locks
<1>2. CASE IsOpen(task) /\ req[r].op # "deactivate"
  <2> DEFINE w == [task EXCEPT !.reason = ReasonOf(r)]
  <2>1. /\ FreeTask(r) /\ WriteTask(r, w, "commit") /\ UNCHANGED world
        /\ UNCHANGED <<promoX, promoS, lost>> /\ req[r].pc = "end"
    BY <1>2 DEF CloseByPromotion
  <2>2. /\ w \in Task /\ Closed(task, w)
        /\ w.reason = "MANUAL" <=> req[r].op = "manual"
    BY <1>2, TypeFacts, ReasonType, ManualReason DEF IInv, Task, Closed, IsOpen
  <2>3. /\ req'[r].op = req[r].op /\ req[r].op \in Ending
        /\ req'[r].pc = "commit" /\ req'[r].w = w /\ ~req'[r].sent /\ ~req'[r].noted /\ taskX' = r /\ task' = task
    BY <2>1, TypeFacts DEF IInv, SlotInv, WriteTask, ReqState, world
  <2>4. SlotInv(r)'
    BY <2>2, <2>3 DEF SlotInv, Closed, IsOpen, Ending
  <2> HIDE DEF w
  <2> QED  BY <2>1, <2>2, <2>4, WriteStep, TypeFacts DEF IInv
<1> QED  BY <1>1, <1>2

LEMMA AnswerStep == ASSUME IInv, NEW r \in Req, Answer(r) PROVE IInv'
<1>1. Idle \in ReqState
  BY DEF Idle, ReqState, NoTask, Task, Reasons
<1>2. req'[r] = Idle /\ taskX' = taskX /\ taskX # r
  BY TypeFacts DEF IInv, SlotInv, Answer, locks
<1>3. SlotInv(r)'
  BY <1>2 DEF SlotInv, Idle
<1> QED  BY <1>1, <1>3, GoStep, TypeFacts DEF IInv, Answer, locks

-----------------------------------------------------------------------------
(* Commit, and the day. *)

LEMMA CommitStep == ASSUME IInv, NEW r \in Req, Commit(r) PROVE IInv'
<1>1. Ended(req[r].op) \in Promo
  BY TypeFacts DEF IInv, Ended, Promo
<1>2. Idle \in ReqState
  BY DEF Idle, ReqState, NoTask, Task, Reasons
<1>3. req' = [req EXCEPT ![r] = Idle] /\ taskX' # r
  BY ReqAssumption DEF Commit, Release
<1>4. req[r].w \in Task
  BY TypeFacts DEF IInv, ReqState
<1>5. TypeOK'
  <2>1. req' \in [Req -> ReqState]
    BY <1>2, <1>3, TypeFacts DEF IInv
  <2>2. task' \in Task /\ promo' \in Promo
    BY <1>1, <1>4, TypeFacts DEF IInv, Commit
  <2>3. records' \in Nat /\ autos' \in Nat /\ day' \in Nat \ {0} /\ lost' \in Nat
       /\ scanning' \in BOOLEAN
    BY TypeFacts DEF IInv, Commit
  <2>4. promoX' \in Req \cup {NoReq} /\ taskX' \in Req \cup {NoReq} /\ promoS' \subseteq Req
    BY TypeFacts DEF IInv, Commit, Release
  <2> QED  BY <2>1, <2>2, <2>3, <2>4 DEF TypeOK, ReqState
<1>6. TaskInv'
  <2>1. CASE req[r].sent
    <3>1. taskX = r /\ Urged(task, req[r].w, req[r].op) /\ task' = req[r].w /\ day' = day
      BY <2>1 DEF IInv, SlotInv, Commit
    <3>2. /\ records' = records + 1 /\ task'.count = task.count + 1 /\ task'.exists
         /\ Recorded(task) = task.count /\ Recorded(task') = task'.count
      <4>1. task \in Task /\ task.count + 0 = task.count /\ task.reason # "MANUAL"
        BY <3>1, TypeFacts DEF IInv, TaskInv, Urged, IsOpen, Task
      <4>2. task'.count = task.count + 1 /\ task'.exists /\ task'.reason # "MANUAL"
        BY <3>1 DEF Urged
      <4>3. task'.count + 0 = task'.count
        BY <4>1, <4>2 DEF Task
      <4> QED  BY <2>1, <4>1, <4>2, <4>3 DEF Commit, Recorded
    <3>3. CASE req[r].op = "scan"
      <4>1. autos = 0
        BY <3>1, <3>3 DEF IInv, TaskInv, Urged
      <4>2. autos' = 1 /\ task'.autoOn = day
        BY <2>1, <3>1, <3>3, <4>1 DEF Commit, Urged
      <4> QED  BY <3>1, <3>2, <4>2 DEF IInv, TaskInv
    <3>4. CASE req[r].op # "scan"
      <4>1. autos' = autos /\ task'.autoOn = task.autoOn
        BY <3>1, <3>4 DEF Commit, Urged
      <4> QED  BY <3>1, <3>2, <4>1 DEF IInv, TaskInv
    <3> QED  BY <3>3, <3>4
  <2>2. CASE ~req[r].sent /\ taskX = r
    <3>1. /\ Closed(task, req[r].w) /\ task' = req[r].w
          /\ req[r].w.reason = "MANUAL" <=> req[r].noted
      BY <2>2 DEF IInv, SlotInv, Commit
    <3>2. Recorded(task) = task.count /\ records = Recorded(task)
      <4>1. task.count \in Nat
        BY TypeFacts DEF IInv, Task
      <4> QED  BY <3>1, <4>1 DEF IInv, TaskInv, Closed, IsOpen, Recorded
    <3>3. records' = Recorded(task')
      <4>1. task.count \in Nat /\ records = task.count /\ task'.count = task.count
        BY <3>1, <3>2, TypeFacts DEF IInv, Task, Closed
      <4>2. records' = IF req[r].noted THEN records + 1 ELSE records
        BY <2>2 DEF Commit
      <4> QED  BY <3>1, <4>1, <4>2 DEF Recorded
    <3> QED  BY <2>2, <3>1, <3>3 DEF IInv, TaskInv, Commit, Closed
  <2>3. CASE ~req[r].sent /\ taskX # r
    <3>1. ~req[r].noted
      BY <2>3 DEF IInv, SlotInv
    <3> QED  BY <2>3, <3>1 DEF IInv, TaskInv, Commit
  <2> QED  BY <2>1, <2>2, <2>3, TypeFacts DEF IInv, ReqState
<1>7. ASSUME NEW s \in Req PROVE SlotInv(s)'
  <2>1. CASE s = r
    <3>1. req'[s] = Idle
      BY <1>3, <2>1, TypeFacts DEF IInv
    <3> QED  BY <1>3, <2>1, <3>1 DEF SlotInv, Idle
  <2>2. CASE s # r
    <3>1. req'[s] = req[s] /\ (taskX' = s <=> taskX = s) /\ day' = day
      BY <1>3, <2>2, TypeFacts, ReqAssumption DEF IInv, Commit, Release
    <3>2. taskX = s => task' = task
      BY <2>2 DEF Commit
    <3> QED  BY <3>1, <3>2 DEF IInv, SlotInv, Urged
  <2> QED  BY <2>1, <2>2
<1> QED  BY <1>5, <1>6, <1>7 DEF IInv

(* Nobody scans at midnight, and no other write carries the day. *)
LEMMA NextDayStep == ASSUME IInv, NextDay PROVE IInv'
<1>1. TypeOK'
  BY TypeFacts DEF IInv, NextDay, TypeOK, locks
<1>2. TaskInv'
  BY DEF IInv, TaskInv, NextDay
<1>3. ASSUME NEW r \in Req PROVE SlotInv(r)'
  BY DEF IInv, SlotInv, NextDay, locks, Urged, Closed
<1> QED  BY <1>1, <1>2, <1>3 DEF IInv

LEMMA SwitchStep == ASSUME IInv, SwitchScan PROVE IInv'
<1>1. TypeOK'
  BY TypeFacts DEF IInv, SwitchScan, TypeOK, locks
<1>2. TaskInv' /\ \A r \in Req : SlotInv(r)'
  BY DEF IInv, TaskInv, SlotInv, SwitchScan, locks, Urged, Closed
<1> QED  BY <1>1, <1>2 DEF IInv

LEMMA NextIInv == IInv /\ [Next]_vars => IInv'
<1> SUFFICES ASSUME IInv, [Next]_vars PROVE IInv'
  OBVIOUS
<1>1. ASSUME NEW r \in Req, Step(r) PROVE IInv'
  <2>1. CASE Victim(r)
    BY <2>1, ReleaseStep, TypeFacts DEF IInv, Victim
  <2> QED
    BY <1>1, <2>1, EnsureStep, BumpStep, RecordStep, CloseTaskStep, CloseEventStep, LockStep,
       CloseByPromotionStep, CommitStep, AnswerStep DEF Step
<1>2. ASSUME NEW r \in Req, Lose(r) PROVE IInv'
  BY <1>2, ReleaseStep, TypeFacts DEF IInv, Lose
<1>3. CASE UNCHANGED vars
  <2>1. TypeOK'
    BY <1>3, TypeFacts DEF IInv, vars, TypeOK
  <2>2. TaskInv' /\ \A r \in Req : SlotInv(r)'
    BY <1>3 DEF IInv, TaskInv, SlotInv, vars, Urged, Closed
  <2> QED  BY <2>1, <2>2 DEF IInv
<1> QED  BY <1>1, <1>2, <1>3, BeginStep, NextDayStep, SwitchStep DEF Next

LEMMA Invariance == Spec => []IInv
  BY InitIInv, NextIInv, PTL DEF Spec

-----------------------------------------------------------------------------

(* The rows and the requests keep their types. *)
THEOREM TypeCorrect == Spec => []TypeOK
  BY Invariance, PTL DEF IInv

(* No interleaving of urges, scans and closings loses or repeats an urge. *)
THEOREM NoUrgeLostOrRepeated == Spec => []CountMatchesRecords
<1>1. IInv => CountMatchesRecords
  BY DEF IInv, TaskInv, CountMatchesRecords
<1> QED  BY <1>1, Invariance, PTL

(* However many scans run at once, one of them urges a promotion on a day. *)
THEOREM ScansUrgeOncePerDay == Spec => []OneAutoUrgePerDay
<1>1. IInv => OneAutoUrgePerDay
  BY DEF IInv, TaskInv, OneAutoUrgePerDay
<1> QED  BY <1>1, Invariance, PTL

(* A closed task is reopened by an urge by hand only, and only if somebody had
   completed it. *)
THEOREM ClosingIsFinal == Spec => ClosedStaysClosed
<1> DEFINE A == task.exists /\ task.reason # "NONE" /\ task' # task =>
                  task.reason = "COMPLETED" /\ IsOpen(task') /\ task'.count = task.count + 1
<1>1. ASSUME IInv, [Next]_vars PROVE [A]_vars
  <2> SUFFICES ASSUME task.exists, task.reason # "NONE", task' # task PROVE A
    OBVIOUS
  <2>1. PICK r \in Req : Commit(r)
    BY <1>1 DEF Next, vars, Step, EnsureTask, Bump, Record, CloseTask, CloseEvent, LockPromotion,
         CloseByPromotion, Victim, Answer, Lose, BeginScan, BeginUrge, BeginClose, BeginEnd,
         NextDay, SwitchScan, Start, Refuse, world
  <2>2. taskX = r /\ task' = req[r].w
    BY <2>1 DEF Commit
  <2>3. Urged(task, req[r].w, req[r].op)
    BY <1>1, <2>1, <2>2 DEF IInv, SlotInv, Commit, Closed, IsOpen
  <2> QED  BY <2>2, <2>3 DEF Urged, IsOpen
<1> QED  BY <1>1, Invariance, PTL DEF Spec, ClosedStaysClosed

-----------------------------------------------------------------------------
(* Urge implements ReminderContract *)

(* What a request at its pc came for, which locks it holds, and what it knows
   under them: who ends the promotion keeps it urgeable until the commit, and
   leaves no open task but the one it has closed; what a closing has written is
   the committed task with its reason. *)
Guarded(r) ==
    /\ req[r].pc \in {"bump", "record"} => req[r].op \in Urging
    /\ req[r].pc \in {"close", "event"} => req[r].op \in Closing
    /\ req[r].pc \in {"lock", "end"} => req[r].op \in Ending
    /\ req[r].pc = "ensure" => req[r].op \in Urging
    /\ req[r].sent => req[r].op \in Urging /\ r \in promoS
    /\ req[r].pc = "commit" /\ ~req[r].sent => req[r].op \in Closing \cup Ending
    /\ req[r].pc = "commit" /\ req[r].op \in Closing => taskX = r
    /\ req[r].op = "stale" => ~Urgeable(promo)
    /\ req[r].pc \in {"end", "commit"} /\ req[r].op \in Ending =>
         promoX = r /\ Urgeable(promo)
    /\ req[r].pc = "commit" /\ req[r].op \in Ending \ {"deactivate"} /\ taskX # r =>
         ~IsOpen(task)
    /\ taskX = r /\ (req[r].pc = "event" \/ (req[r].pc = "commit" /\ ~req[r].sent)) =>
         req[r].op # "deactivate" /\ req[r].w = [task EXCEPT !.reason = ReasonOf(r)]

LocksInv == (promoX # NoReq => promoS \subseteq {promoX}) /\ \A r \in Req : Guarded(r)

LEMMA InitLocks == Init => LocksInv
  BY ReqAssumption DEF Init, LocksInv, Guarded, Idle, Urging, Closing, Ending

LEMMA ReasonStays ==
    ASSUME NEW r \in Req, req'[r].op = req[r].op, promo' = promo PROVE ReasonOf(r)' = ReasonOf(r)
  BY DEF ReasonOf

(* A step of one request that commits nothing, and takes no lock from others. *)
LEMMA LocalLocks ==
    ASSUME IInv, LocksInv, NEW r \in Req, UNCHANGED world, Guarded(r)',
           promoX' # NoReq => promoS' \subseteq {promoX'},
           \A s \in Req \ {r} :
             /\ req'[s] = req[s] /\ (taskX' = s <=> taskX = s)
             /\ (promoX = s => promoX' = s) /\ (s \in promoS => s \in promoS')
    PROVE  LocksInv'
<1>1. ASSUME NEW s \in Req \ {r} PROVE Guarded(s)'
  <2>1. ReasonOf(s)' = ReasonOf(s)
    BY ReasonStays DEF world
  <2> QED  BY <2>1 DEF LocksInv, Guarded, Urgeable, IsOpen, world
<1> QED  BY <1>1 DEF LocksInv

LEMMA ReleaseLocks ==
    ASSUME IInv, LocksInv, NEW r \in Req, NEW pc \in {"idle", "victim"}, Release(r, pc),
           UNCHANGED world
    PROVE  LocksInv'
<1>1. /\ req'[r].pc = pc /\ ~req'[r].sent
      /\ req'[r].op = "none" \/ req'[r].op = req[r].op
      /\ taskX' # r
  BY TypeFacts, ReqAssumption DEF IInv, Release, Idle, ReqState
<1>2. Guarded(r)'
  BY <1>1 DEF LocksInv, Guarded, Urgeable, world
<1>3. promoX' # NoReq => promoS' \subseteq {promoX'}
  BY DEF LocksInv, Release
<1>4. \A s \in Req \ {r} :
        /\ req'[s] = req[s] /\ (taskX' = s <=> taskX = s)
        /\ (promoX = s => promoX' = s) /\ (s \in promoS => s \in promoS')
  BY TypeFacts, ReqAssumption DEF IInv, Release
<1> QED  BY <1>2, <1>3, <1>4, LocalLocks

(* A step of a request that keeps the lock of the promotion as it is, or joins
   those who share it. *)
LEMMA GoLocks ==
    ASSUME IInv, LocksInv, NEW r \in Req, UNCHANGED world, Guarded(r)', promoX' = promoX,
           promoS' = promoS \/ (FreeS(r) /\ promoS' = promoS \cup {r}),
           \A s \in Req \ {r} : req'[s] = req[s] /\ (taskX' = s <=> taskX = s)
    PROVE  LocksInv'
<1>1. promoX' # NoReq => promoS' \subseteq {promoX'}
  BY DEF LocksInv, FreeS
<1> QED  BY <1>1, LocalLocks

LEMMA BeginLocks ==
    ASSUME IInv, LocksInv, NEW r \in Req,
           BeginUrge(r) \/ BeginScan(r) \/ BeginClose(r) \/ BeginEnd(r)
    PROVE  LocksInv'
<1>1. PICK op \in Urging \cup Closing \cup Ending, pc \in {"ensure", "close", "lock"} :
        /\ Start(r, op, pc)
        /\ pc = "ensure" => op \in Urging
        /\ pc = "close" => op \in Closing
        /\ pc = "lock" => op \in Ending
        /\ op = "stale" => ~Urgeable(promo)
  BY DEF BeginUrge, BeginScan, BeginClose, BeginEnd, Urging, Closing, Ending
<1>2. /\ req'[r].op = op /\ req'[r].pc = pc /\ req'[r].sent = req[r].sent /\ ~req[r].sent
      /\ UNCHANGED <<world, locks>>
      /\ \A s \in Req \ {r} : req'[s] = req[s]
  BY <1>1, TypeFacts DEF IInv, SlotInv, Start, ReqState
<1>3. Guarded(r)'
  BY <1>1, <1>2 DEF Guarded, Urgeable, world
<1> QED  BY <1>2, <1>3, GoLocks DEF locks

LEMMA UrgeLocks ==
    ASSUME IInv, LocksInv, NEW r \in Req, EnsureTask(r) \/ Bump(r) \/ Record(r)
    PROVE  LocksInv'
<1>1. CASE EnsureTask(r)
  <2>1. /\ req'[r].op = req[r].op /\ req'[r].pc = "bump" /\ req'[r].sent = req[r].sent
        /\ ~req[r].sent /\ req[r].op \in Urging /\ UNCHANGED <<world, promoX>>
        /\ promoS' = promoS \/ (FreeS(r) /\ promoS' = promoS \cup {r})
        /\ \A s \in Req \ {r} : req'[s] = req[s] /\ (taskX' = s <=> taskX = s)
    <3>1. req[r].pc = "ensure" /\ ~req[r].sent /\ req[r].op \in Urging
      BY <1>1 DEF IInv, SlotInv, LocksInv, Guarded, EnsureTask
    <3>2. CASE Go(r, "bump") /\ UNCHANGED locks
      BY <1>1, <3>1, <3>2, TypeFacts DEF IInv, EnsureTask, Go, ReqState, locks
    <3>3. CASE FreeTask(r) /\ FreeS(r) /\ WriteTask(r, FreshTask, "bump")
               /\ promoS' = promoS \cup {r} /\ UNCHANGED promoX
      BY <1>1, <3>1, <3>3, TypeFacts, ReqAssumption
         DEF IInv, EnsureTask, WriteTask, FreeTask, ReqState
    <3> QED  BY <1>1, <3>2, <3>3 DEF EnsureTask
  <2>2. Guarded(r)'
    BY <2>1 DEF LocksInv, Guarded, Urging, Closing, Ending
  <2> QED  BY <2>1, <2>2, GoLocks
<1>2. CASE Bump(r) /\ ~Bumpable(r, Mine(r))
  BY <1>2, ReleaseLocks DEF Bump, Refuse
<1>3. CASE Bump(r) /\ Bumpable(r, Mine(r))
  <2>1. /\ req'[r].op = req[r].op /\ req'[r].pc = "record" /\ req'[r].sent = req[r].sent
        /\ ~req[r].sent /\ req[r].op \in Urging /\ UNCHANGED <<world, promoX, promoS>>
        /\ \A s \in Req \ {r} : req'[s] = req[s] /\ (taskX' = s <=> taskX = s)
    BY <1>3, TypeFacts, ReqAssumption
       DEF IInv, SlotInv, LocksInv, Guarded, Bump, WriteTask, FreeTask, ReqState
  <2>2. Guarded(r)'
    BY <2>1 DEF LocksInv, Guarded, Urging, Closing, Ending
  <2> QED  BY <2>1, <2>2, GoLocks
<1>4. CASE Record(r)
  <2>1. /\ req'[r].op = req[r].op /\ req'[r].pc = "commit" /\ req'[r].sent
        /\ req[r].op \in Urging /\ UNCHANGED <<world, promoX, taskX>>
        /\ FreeS(r) /\ promoS' = promoS \cup {r}
        /\ \A s \in Req \ {r} : req'[s] = req[s]
    BY <1>4, TypeFacts DEF IInv, LocksInv, Guarded, Record, ReqState
  <2>2. Guarded(r)'
    BY <2>1 DEF LocksInv, Guarded, Urging, Closing, Ending
  <2> QED  BY <2>1, <2>2, GoLocks
<1> QED  BY <1>1, <1>2, <1>3, <1>4

LEMMA CloseLocks ==
    ASSUME IInv, LocksInv, NEW r \in Req, CloseTask(r) \/ CloseEvent(r)
    PROVE  LocksInv'
<1>1. CASE CloseTask(r) /\ ~IsOpen(task)
  BY <1>1, ReleaseLocks DEF CloseTask, Refuse
<1>2. CASE CloseTask(r) /\ IsOpen(task)
  <2>1. /\ req'[r].op = req[r].op /\ req'[r].pc = "event" /\ req'[r].sent = req[r].sent
        /\ ~req[r].sent /\ req[r].op \in Closing /\ UNCHANGED <<world, promoX, promoS>>
        /\ req'[r].w = [task EXCEPT !.reason = ReasonOf(r)]
        /\ \A s \in Req \ {r} : req'[s] = req[s] /\ (taskX' = s <=> taskX = s)
    BY <1>2, TypeFacts, ReqAssumption
       DEF IInv, SlotInv, LocksInv, Guarded, CloseTask, WriteTask, FreeTask, ReqState
  <2>2. ReasonOf(r)' = ReasonOf(r)
    BY <2>1, ReasonStays DEF world
  <2>3. Guarded(r)'
    BY <2>1, <2>2 DEF LocksInv, Guarded, Urging, Closing, Ending, Urgeable, world
  <2> QED  BY <2>1, <2>3, GoLocks
<1>3. CASE CloseEvent(r)
  <2>1. /\ req'[r].op = req[r].op /\ req'[r].pc = "commit" /\ req'[r].sent = req[r].sent
        /\ ~req[r].sent /\ req[r].op \in Closing /\ req'[r].w = req[r].w
        /\ taskX = r /\ req[r].pc = "event" /\ UNCHANGED <<world, promoX, taskX>>
        /\ FreeS(r) /\ promoS' = promoS \cup {r}
        /\ \A s \in Req \ {r} : req'[s] = req[s]
    <3>1. req[r].op \in Closing /\ taskX = r /\ ~req[r].sent
      BY <1>3 DEF IInv, SlotInv, LocksInv, Guarded, CloseEvent
    <3> QED  BY <1>3, <3>1, TypeFacts DEF IInv, CloseEvent, Go, ReqState
  <2>2. ReasonOf(r)' = ReasonOf(r)
    BY <2>1, ReasonStays DEF world
  <2>3. Guarded(r)'
    BY <2>1, <2>2 DEF LocksInv, Guarded, Urging, Closing, Ending, Urgeable, world
  <2> QED  BY <2>1, <2>3, GoLocks
<1> QED  BY <1>1, <1>2, <1>3

LEMMA EndLocks ==
    ASSUME IInv, LocksInv, NEW r \in Req, LockPromotion(r) \/ CloseByPromotion(r)
    PROVE  LocksInv'
<1>1. CASE LockPromotion(r) /\ ~Urgeable(promo)
  BY <1>1, ReleaseLocks DEF LockPromotion, Refuse
<1>2. CASE LockPromotion(r) /\ Urgeable(promo)
  <2>1. /\ req'[r].op = req[r].op /\ req'[r].pc = "end" /\ req'[r].sent = req[r].sent
        /\ ~req[r].sent /\ req[r].op \in Ending /\ UNCHANGED <<world, promoS, taskX>>
        /\ FreeX(r) /\ promoX' = r
        /\ \A s \in Req \ {r} : req'[s] = req[s]
    <3>1. req[r].op \in Ending /\ ~req[r].sent
      BY <1>2 DEF IInv, SlotInv, LocksInv, Guarded, LockPromotion
    <3> QED  BY <1>2, <3>1, TypeFacts DEF IInv, LockPromotion, Go, ReqState
  <2>2. Guarded(r)'
    BY <1>2, <2>1 DEF LocksInv, Guarded, Urging, Closing, Ending, Urgeable, world
  <2>3. (promoX' # NoReq => promoS' \subseteq {promoX'}) /\ promoX \in {NoReq, r}
    BY <2>1 DEF FreeX
  <2> QED  BY <2>1, <2>2, <2>3, LocalLocks, ReqAssumption
<1>3. CASE CloseByPromotion(r) /\ IsOpen(task) /\ req[r].op # "deactivate"
  <2>1. /\ req'[r].op = req[r].op /\ req'[r].pc = "commit" /\ req'[r].sent = req[r].sent
        /\ ~req[r].sent /\ req[r].op \in Ending /\ UNCHANGED <<world, promoX, promoS>>
        /\ promoX = r /\ Urgeable(promo)
        /\ taskX' = r /\ req'[r].w = [task EXCEPT !.reason = ReasonOf(r)]
        /\ \A s \in Req \ {r} : req'[s] = req[s] /\ (taskX' = s <=> taskX = s)
    BY <1>3, TypeFacts, ReqAssumption
       DEF IInv, SlotInv, LocksInv, Guarded, CloseByPromotion, WriteTask, FreeTask, ReqState
  <2>2. ReasonOf(r)' = ReasonOf(r)
    BY <2>1, ReasonStays DEF world
  <2>3. Guarded(r)'
    BY <1>3, <2>1, <2>2 DEF LocksInv, Guarded, Urging, Closing, Ending, Urgeable, world
  <2> QED  BY <2>1, <2>3, GoLocks
<1>4. CASE CloseByPromotion(r) /\ ~(IsOpen(task) /\ req[r].op # "deactivate")
  <2>1. /\ req'[r].op = req[r].op /\ req'[r].pc = "commit" /\ req'[r].sent = req[r].sent
        /\ ~req[r].sent /\ req[r].op \in Ending /\ UNCHANGED <<world, promoX, promoS, taskX>>
        /\ promoX = r /\ Urgeable(promo) /\ taskX # r
        /\ \A s \in Req \ {r} : req'[s] = req[s]
    <3>1. /\ req[r].pc = "end" /\ taskX # r /\ ~req[r].sent
          /\ promoX = r /\ Urgeable(promo) /\ req[r].op \in Ending
      BY <1>4 DEF IInv, SlotInv, LocksInv, Guarded, CloseByPromotion
    <3>2. req' = [req EXCEPT ![r].pc = "commit"] /\ UNCHANGED <<world, promoX, promoS, taskX>>
      BY <1>4 DEF CloseByPromotion, Go, locks
    <3>3. req \in [Req -> ReqState]
      BY TypeFacts DEF IInv
    <3> QED  BY <3>1, <3>2, <3>3 DEF ReqState
  <2>2. Guarded(r)'
    BY <1>4, <2>1 DEF LocksInv, Guarded, Urging, Closing, Ending, Urgeable, IsOpen, world
  <2> QED  BY <2>1, <2>2, GoLocks
<1> QED  BY <1>1, <1>2, <1>3, <1>4

LEMMA AnswerLocks == ASSUME IInv, LocksInv, NEW r \in Req, Answer(r) PROVE LocksInv'
<1>1. /\ req'[r] = Idle /\ UNCHANGED <<world, locks>> /\ taskX # r
      /\ \A s \in Req \ {r} : req'[s] = req[s]
  BY TypeFacts DEF IInv, SlotInv, Answer
<1>2. Guarded(r)'
  BY <1>1 DEF Guarded, Idle, locks, Urging, Closing, Ending
<1> QED  BY <1>1, <1>2, GoLocks DEF locks

(* Nobody ends the promotion beside another, and nobody who is about to end it
   can be overtaken by an urge: that one would share the promotion. *)
LEMMA CommitLocks == ASSUME IInv, LocksInv, NEW r \in Req, Commit(r) PROVE LocksInv'
<1>1. /\ req[r].pc = "commit" /\ req'[r] = Idle /\ taskX' # r /\ promoX' # r
      /\ \A s \in Req \ {r} :
           /\ req'[s] = req[s] /\ (taskX' = s <=> taskX = s)
           /\ (promoX = s => promoX' = s) /\ (s \in promoS => s \in promoS')
  BY TypeFacts, ReqAssumption DEF IInv, Commit, Release
<1>2. Guarded(r)'
  BY <1>1 DEF Guarded, Idle, Urging, Closing, Ending
<1>3. promoX' # NoReq => promoS' \subseteq {promoX'}
  BY DEF LocksInv, Commit, Release
<1>4. req[r].op \notin Ending => promo' = promo
  BY DEF Commit, Ended, Ending
<1>5. req[r].op \in Ending => promoX = r /\ Urgeable(promo)
  BY <1>1 DEF LocksInv, Guarded
<1>6. ASSUME NEW s \in Req \ {r} PROVE Guarded(s)'
  <2>1. Guarded(s) /\ Guarded(r) /\ SlotInv(r) /\ SlotInv(s)
    BY DEF LocksInv, IInv
  <2>2. req[s].op = "stale" => promo' = promo
    BY <1>4, <1>5, <2>1 DEF Guarded
  <2>3. req[s].pc \in {"end", "commit"} /\ req[s].op \in Ending => promo' = promo
    BY <1>4, <1>5, <2>1 DEF Guarded
  <2>4. taskX = s => task' = task
    BY DEF Commit
  <2>5. ASSUME req[s].pc = "commit", req[s].op \in Ending \ {"deactivate"}, taskX # s
        PROVE  ~IsOpen(task')
    <3>1. ~IsOpen(task) /\ promoX = s /\ promoX # NoReq
      BY <2>1, <2>5, ReqAssumption DEF Guarded
    <3>2. ~req[r].sent
      BY <2>1, <3>1 DEF Guarded, LocksInv
    <3>3. taskX = r => Closed(task, req[r].w)
      BY <1>1, <2>1, <3>2 DEF SlotInv
    <3> QED  BY <3>1, <3>3 DEF Commit, Closed
  <2>6. ASSUME taskX = s, req[s].pc = "event" \/ (req[s].pc = "commit" /\ ~req[s].sent)
        PROVE  req[s].w = [task' EXCEPT !.reason = ReasonOf(s)']
    <3>1. req[s].op \in Closing \cup Ending /\ req[s].w = [task EXCEPT !.reason = ReasonOf(s)]
      BY <2>1, <2>6 DEF Guarded
    <3>2. ReasonOf(s)' = ReasonOf(s)
      <4>1. CASE req[s].op \in {"manual", "complete", "publish", "cancel", "recall"}
        BY <1>1, <4>1 DEF ReasonOf
      <4>2. CASE req[s].op = "stale"
        BY <1>1, <2>2, <4>2, ReasonStays
      <4>3. CASE req[s].op = "deactivate"
        BY <2>1, <2>6, <4>3 DEF Guarded
      <4> QED  BY <3>1, <4>1, <4>2, <4>3 DEF Closing, Ending
    <3> QED  BY <2>4, <2>6, <3>1, <3>2
  <2> QED  BY <1>1, <2>1, <2>2, <2>3, <2>5, <2>6 DEF Guarded
<1> QED  BY <1>2, <1>3, <1>6 DEF LocksInv

LEMMA MidnightLocks == ASSUME IInv, LocksInv, NextDay PROVE LocksInv'
<1>1. \A r \in Req : ReasonOf(r)' = ReasonOf(r)
  BY ReasonStays DEF NextDay
<1> QED  BY <1>1 DEF LocksInv, Guarded, NextDay, locks, Urgeable, IsOpen

LEMMA SwitchLocks == ASSUME IInv, LocksInv, SwitchScan PROVE LocksInv'
<1>1. \A r \in Req : ReasonOf(r)' = ReasonOf(r)
  BY ReasonStays DEF SwitchScan
<1> QED  BY <1>1 DEF LocksInv, Guarded, SwitchScan, locks, Urgeable, IsOpen

LEMMA NextLocks == IInv /\ LocksInv /\ [Next]_vars => LocksInv'
<1> SUFFICES ASSUME IInv, LocksInv, [Next]_vars PROVE LocksInv'
  OBVIOUS
<1>1. ASSUME NEW r \in Req, Step(r) \/ Lose(r) PROVE LocksInv'
  <2>1. CASE Victim(r) \/ Lose(r)
    BY <2>1, ReleaseLocks DEF Victim, Lose
  <2> QED
    BY <1>1, <2>1, UrgeLocks, CloseLocks, EndLocks, CommitLocks, AnswerLocks DEF Step
<1>2. CASE UNCHANGED vars
  <2>1. \A r \in Req : ReasonOf(r)' = ReasonOf(r)
    BY <1>2, ReasonStays DEF vars
  <2> QED  BY <1>2, <2>1 DEF LocksInv, Guarded, vars, Urgeable, IsOpen
<1> QED  BY <1>1, <1>2, BeginLocks, MidnightLocks, SwitchLocks DEF Next

LEMMA LocksInvariance == Spec => []LocksInv
<1>1. Init => LocksInv
  BY InitLocks
<1> QED  BY <1>1, NextLocks, Invariance, PTL DEF Spec

LEMMA SlipIs ==
    ASSUME NEW t \in Task
    PROVE  /\ SlipOf(t).count = t.count
           /\ SlipOf(t).state = "open" <=> IsOpen(t)
           /\ ~t.exists => SlipOf(t).state = "none"
           /\ t.exists /\ ~IsOpen(t) => SlipOf(t).state = t.reason
           /\ IsOpen(t) => SlipOf(t) = [state |-> "open", count |-> t.count]
  BY DEF SlipOf, IsOpen, Task, Reasons

LEMMA LineIs ==
    ASSUME NEW q \in Promo
    PROVE  /\ LineOf(q) = "running" <=> Urgeable(q)
           /\ LineOf(q) = "PUBLISHED" <=> q.publish = "PUBLISHED"
           /\ q.publish = "CANCELLED" => LineOf(q) = "CANCELLED"
           /\ q.publish = "UNPUBLISHED" /\ ~q.active => LineOf(q) = "withdrawn"
  BY DEF LineOf, Promo, Urgeable

(* A committed urge is a reminder. *)
LEMMA UrgeReminds ==
    ASSUME IInv, LocksInv, NEW r \in Req, Commit(r), req[r].sent
    PROVE  Reminder!ByHand \/ Reminder!ByScan
<1>1. /\ taskX = r /\ task' = req[r].w /\ records' = records + 1
      /\ Urged(task, req[r].w, req[r].op) /\ req[r].op \in Urging
  BY DEF IInv, SlotInv, LocksInv, Guarded, Commit
<1>2. promo' = promo
  BY <1>1 DEF Commit, Ended, Urging
<1>3. task \in Task /\ req[r].w \in Task
  BY TypeFacts DEF IInv, ReqState
<1>4. SlipOf(task') = [state |-> "open", count |-> SlipOf(task).count + 1]
  BY <1>1, <1>3, SlipIs DEF Urged, IsOpen
<1>5. SlipOf(task).state \in {"none", "open"} \/ (SlipOf(task).state = "COMPLETED" /\ req[r].op = "once")
  <2>1. CASE ~task.exists \/ IsOpen(task)
    BY <1>3, <2>1, SlipIs
  <2>2. CASE task.exists /\ ~IsOpen(task)
    BY <1>1, <1>3, <2>2, SlipIs DEF Urged
  <2> QED  BY <2>1, <2>2
<1>6. Reminder!Remind
  BY <1>1, <1>4 DEF Reminder!Remind
<1>7. CASE req[r].op = "scan"
  <2>1. autos = 0 /\ autos' = 1
    BY <1>1, <1>7 DEF IInv, TaskInv, Urged, Commit
  <2> QED  BY <1>2, <1>5, <1>6, <1>7, <2>1 DEF Reminder!ByScan
<1>8. CASE req[r].op # "scan"
  <2>1. autos' = autos
    BY <1>8 DEF Commit
  <2> QED  BY <1>2, <1>5, <1>6, <2>1 DEF Reminder!ByHand
<1> QED  BY <1>7, <1>8

(* What a closing has written puts the slip away. *)
LEMMA Written ==
    ASSUME IInv, LocksInv, NEW r \in Req, Commit(r), ~req[r].sent, taskX = r
    PROVE  /\ SlipOf(task).state = "open"
           /\ ReasonOf(r) # "NONE" => Reminder!PutAway(ReasonOf(r))
<1>1. /\ req[r].pc = "commit" /\ task' = req[r].w /\ Closed(task, req[r].w)
      /\ req[r].w = [task EXCEPT !.reason = ReasonOf(r)]
      /\ req[r].noted <=> req[r].op = "manual"
  BY DEF IInv, SlotInv, LocksInv, Guarded, Commit
<1>0. records' = records + (IF ReasonOf(r) = "MANUAL" THEN 1 ELSE 0)
  BY <1>1, ManualReason, TypeFacts DEF Commit, IInv
<1>2. task \in Task /\ task' \in Task /\ ReasonOf(r) \in Reasons
  BY <1>1, TypeFacts, ReasonType DEF IInv, ReqState
<1>3. task'.exists /\ task'.reason = ReasonOf(r) /\ task'.count = task.count
  BY <1>1, <1>2 DEF Closed, Task
<1>4. ReasonOf(r) # "NONE" => SlipOf(task') = [state |-> ReasonOf(r), count |-> SlipOf(task).count]
  BY <1>2, <1>3, SlipIs DEF SlipOf, IsOpen
<1> QED  BY <1>0, <1>1, <1>2, <1>4, SlipIs DEF Closed, Reminder!PutAway

LEMMA ClosingCloses ==
    ASSUME IInv, LocksInv, NEW r \in Req, Commit(r), ~req[r].sent, req[r].op \in Closing
    PROVE  Reminder!Close \/ Reminder!CloseStale
<1>1. req[r].pc = "commit" /\ taskX = r /\ autos' = autos /\ promo' = promo
  BY DEF LocksInv, Guarded, Commit, Ended, Closing
<1>2. promo \in Promo
  BY TypeFacts DEF IInv
<1>3. CASE req[r].op = "stale"
  <2>1. ~Urgeable(promo)
    BY <1>3 DEF LocksInv, Guarded
  <2>2. ReasonOf(r) = IF LineOf(promo) = "PUBLISHED" THEN "PUBLISHED" ELSE "CANCELLED"
    BY <1>2, <1>3, LineIs DEF ReasonOf
  <2> QED  BY <1>1, <1>2, <2>1, <2>2, Written, LineIs DEF Reminder!CloseStale
<1>4. CASE req[r].op \in {"manual", "complete"}
  <2>1. ReasonOf(r) \in {"MANUAL", "COMPLETED"}
    BY <1>4 DEF ReasonOf
  <2> QED  BY <1>1, <2>1, Written DEF Reminder!Close
<1> QED  BY <1>3, <1>4 DEF Closing

LEMMA EndingEnds ==
    ASSUME IInv, LocksInv, NEW r \in Req, Commit(r), ~req[r].sent, req[r].op \in Ending
    PROVE  Reminder!Withdraw \/ \E how \in Reminder!Ends : Reminder!End(how)
<1>1. /\ req[r].pc = "commit" /\ promoX = r /\ Urgeable(promo)
      /\ autos' = autos /\ ~req[r].noted /\ records' = records
  BY DEF IInv, SlotInv, LocksInv, Guarded, Commit, Ending
<1>2. promo \in Promo /\ task \in Task /\ LineOf(promo) = "running"
  BY <1>1, TypeFacts, LineIs DEF IInv
<1>3. CASE req[r].op = "deactivate"
  <2>1. taskX # r
    BY <1>1, <1>3 DEF LocksInv, Guarded
  <2>2. LineOf(promo') = "withdrawn"
    <3>1. promo' = [promo EXCEPT !.active = FALSE]
      BY <1>3 DEF Commit, Ended
    <3>2. promo' \in Promo /\ promo'.publish = "UNPUBLISHED"
      BY <1>1, <1>2, <3>1 DEF Promo, Urgeable
    <3>3. ~promo'.active
      BY <1>2, <3>1 DEF Promo
    <3> QED  BY <3>2, <3>3, LineIs
  <2> QED  BY <1>1, <1>2, <2>1, <2>2 DEF Commit, Reminder!Withdraw
<1>4. CASE req[r].op # "deactivate"
  <2>1. ReasonOf(r) \in {"PUBLISHED", "CANCELLED"} /\ LineOf(promo') = ReasonOf(r)
    BY <1>1, <1>2, <1>4, LineIs DEF Commit, Ended, Promo, Ending, ReasonOf, LineOf
  <2>2. CASE taskX = r
    <3>1. SlipOf(task).state = "open" /\ Reminder!PutAway(ReasonOf(r))
      BY <2>1, <2>2, Written
    <3> QED  BY <1>1, <1>2, <2>1, <3>1 DEF Reminder!End, Reminder!Ends
  <2>3. CASE taskX # r
    <3>1. ~IsOpen(task) /\ task' = task
      BY <1>1, <1>4, <2>3 DEF LocksInv, Guarded, Commit
    <3>2. SlipOf(task).state # "open"
      BY <1>2, <3>1, SlipIs
    <3> QED  BY <1>1, <1>2, <2>1, <3>1, <3>2 DEF Reminder!End, Reminder!Ends
  <2> QED  BY <2>2, <2>3
<1> QED  BY <1>3, <1>4

(* Every committed step of urges, scans, closings and endings of a promotion,
   whatever they wait for and whoever loses a deadlock, is one of the steps of
   ReminderContract: they happen at once. *)
THEOREM UrgesHappenAtOnce == Spec => ImplementsReminderContract
<1>1. ASSUME Init PROVE Reminder!Init
  <2>1. promo \in Promo /\ Urgeable(promo)
    BY <1>1 DEF Init, Promo, Urgeable
  <2>2. task \in Task /\ ~task.exists /\ task.count = 0
    BY <1>1 DEF Init, NoTask, Task, Reasons
  <2>3. SlipOf(task) = [state |-> "none", count |-> 0]
    <3>1. SlipOf(task).state = "none" /\ SlipOf(task).count = 0
      BY <2>2, SlipIs
    <3> QED  BY <3>1 DEF SlipOf
  <2>4. LineOf(promo) = "running"
    BY <2>1, LineIs
  <2> QED  BY <1>1, <2>3, <2>4 DEF Init, Reminder!Init
<1>2. ASSUME IInv, LocksInv, [Next]_vars PROVE [Reminder!Next]_(Reminder!promise)
  <2>1. ASSUME NEW r \in Req, Commit(r) PROVE Reminder!Next
    <3>1. CASE req[r].sent
      BY <2>1, <3>1, <1>2, UrgeReminds DEF Reminder!Next
    <3>2. CASE ~req[r].sent
      <4>1. req[r].op \in Closing \cup Ending
        BY <1>2, <2>1, <3>2 DEF LocksInv, Guarded, Commit
      <4> QED  BY <1>2, <2>1, <3>2, <4>1, ClosingCloses, EndingEnds DEF Reminder!Next
    <3> QED  BY <3>1, <3>2
  <2>2. CASE NextDay
    BY <2>2 DEF NextDay, Reminder!Next, Reminder!Midnight
  <2>3. CASE UNCHANGED world \/ SwitchScan
    BY <2>3 DEF world, SwitchScan, Reminder!promise
  <2>4. UNCHANGED world \/ NextDay \/ SwitchScan \/ \E r \in Req : Commit(r)
    BY <1>2 DEF Next, vars, Step, EnsureTask, Bump, Record, CloseTask, CloseEvent, LockPromotion,
       CloseByPromotion, Victim, Answer, Lose, BeginScan, BeginUrge, BeginClose, BeginEnd,
       Start, Refuse, world
  <2> QED  BY <2>1, <2>2, <2>3, <2>4
<1> QED
  BY <1>1, <1>2, Invariance, LocksInvariance, PTL
     DEF Spec, ImplementsReminderContract, Reminder!Spec

=============================================================================
