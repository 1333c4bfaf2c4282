------------------------ MODULE ObjectStorageProofs ------------------------
(***************************************************************************)
(* No dead link and no stray object, for any number of styles, documents,  *)
(* keys, requests and faults.  A key in the hands of a request is          *)
(*   - fresh while the request has yet to bind it: nobody else knows it;   *)
(*   - to be undone only if no row names it, or nobody knows;              *)
(*   - to be dropped only if no row names it any more;                     *)
(*   - seen by a removal: no other row can come to name it.                *)
(* A request changes what belongs to itself, so the proof is about one     *)
(* slot at a time (OneSlot).                                               *)
(***************************************************************************)
EXTENDS ObjectStorage, TLAPS

SlotState == [pc : Pc, todo : SUBSET Styles, target : Styles \cup Docs \cup {None},
              key : KeyOrNone, old : KeyOrNone, result : Status]

Calm == {"idle", "load", "next", "put"}

(* What a request holds at each of its steps. *)
Shape(x) ==
    /\ IF x.pc \in {"bind", "undo"} THEN x.key \in Keys ELSE x.key = None
    /\ IF x.pc \in {"seen", "drop"} THEN x.old \in Keys ELSE x.old = None
    /\ x.pc = "seen" => x.target \in Styles

TypeInv == TypeOK /\ \A p \in Slots : Shape(slot[p])

FreshInv(p) == slot[p].pc = "bind" =>
    /\ slot[p].key \in store /\ slot[p].key \notin Named
    /\ \A q \in Slots : slot[q].old # slot[p].key /\ (q # p => slot[q].key # slot[p].key)
UndoInv(p) == slot[p].pc = "undo" => slot[p].key \notin Named \/ slot[p].key \in unsure
DropInv(p) == slot[p].pc = "drop" => slot[p].old \notin Named
SeenInv(p) == slot[p].pc = "seen" =>
    slot[p].old \notin att /\ \A s \in Styles \ {slot[p].target} : style[s].key # slot[p].old

SlotInv(p) == FreshInv(p) /\ UndoInv(p) /\ DropInv(p) /\ SeenInv(p)

(* One row names a key at most. *)
OneName ==
    /\ \A s \in Styles : style[s].key \notin att
    /\ \A s, t \in Styles : s # t /\ style[s].key # None => style[s].key # style[t].key

(* What a request will bind or delete; a removal that has only read is not
   answerable for the object. *)
Holds(x, k) == x.key = k \/ (x.pc = "drop" /\ x.old = k)
Accounted == \A k \in store : k \in Named \/ k \in stray \/ \E p \in Slots : Holds(slot[p], k)

KeyInv == OneName /\ Accounted /\ NoDeadLink /\ \A p \in Slots : SlotInv(p)
IInv == TypeInv /\ KeyInv

-----------------------------------------------------------------------------

LEMMA TypeFacts ==
    ASSUME TypeOK
    PROVE  /\ store \subseteq Keys /\ att \subseteq Keys /\ unsure \subseteq Keys /\ stray \subseteq Keys
           /\ style \in [Styles -> [key : KeyOrNone, deleted : BOOLEAN]]
           /\ slot \in [Slots -> SlotState]
  BY DEF TypeOK, SlotState

LEMMA NamedIs == \A k : k \in Named <=> k \in att \/ \E s \in Styles : style[s].key = k
  BY DEF Named

LEMMA NamedIsNext == \A k : k \in Named' <=> k \in att' \/ \E s \in Styles : style'[s].key = k
  BY DEF Named

LEMMA FreeIs ==
    \A k \in Free : /\ k \in Keys /\ k # None /\ k \notin store /\ k \notin Named
                    /\ \A q \in Slots : slot[q].key # k /\ slot[q].old # k
<1> SUFFICES ASSUME NEW k \in Free
             PROVE  /\ k \in Keys /\ k # None /\ k \notin store /\ k \notin Named
                    /\ \A q \in Slots : slot[q].key # k /\ slot[q].old # k
  OBVIOUS
<1>1. k \in Keys /\ k \notin store /\ k \notin Named /\ k \notin InHand
  BY DEF Free
<1>2. ASSUME NEW q \in Slots PROVE slot[q].key # k /\ slot[q].old # k
  BY <1>1 DEF InHand
<1> QED  BY <1>1, <1>2, SetAssumption

-----------------------------------------------------------------------------
(* One slot moves.  It may bind the key it has, give up a key it may delete,
   take a free one, or read one that a row names. *)

LEMMA OneSlot ==
    ASSUME IInv, TypeInv', NEW p \in Slots, NEW x, slot' = [slot EXCEPT ![p] = x],
           OneName',
           \A k \in att' : k \in att \/ (slot[p].pc = "bind" /\ k = slot[p].key),
           \A s \in Styles : \/ style'[s].key \in {style[s].key, None}
                             \/ slot[p].pc = "bind" /\ style'[s].key = slot[p].key,
           \A k \in store \ store' : \/ slot[p].pc = "undo" /\ k = slot[p].key
                                     \/ slot[p].pc = "drop" /\ k = slot[p].old,
           unsure \ unsure' \subseteq Free,
           x.key \in {None, slot[p].key} \cup Free,
           x.old \in {None, slot[p].old} \cup Named,
           SlotInv(p)',
           \A k \in store' : k \in store \/ k = x.key \/ k \in stray',
           \A k \in stray \ stray' : k = x.key,
           \A k \in store' : Holds(slot[p], k) => k \in Named' \/ k \in stray' \/ Holds(x, k),
           \A k \in Named \ Named' : k = None \/ k \in stray' \/ Holds(x, k)
    PROVE  IInv'
<1>t. /\ slot \in [Slots -> SlotState] /\ unsure \subseteq Keys /\ None \notin Keys
      /\ Shape(slot[p]) /\ SlotInv(p)
  BY TypeFacts, SetAssumption DEF IInv, TypeInv, KeyInv
<1>x. slot'[p] = x /\ \A q \in Slots \ {p} : slot'[q] = slot[q]
  BY <1>t
<1>n. \A k \in Named' : k \in Named \/ k = None \/ (slot[p].pc = "bind" /\ k = slot[p].key)
  BY NamedIs, NamedIsNext
<1>1. ASSUME NEW q \in Slots \ {p} PROVE SlotInv(q)'
  <2>t. Shape(slot[q]) /\ SlotInv(q) /\ slot'[q] = slot[q]
    BY <1>x DEF IInv, TypeInv, KeyInv
  <2>f. slot[p].pc = "bind" => slot[q].key # slot[p].key /\ slot[q].old # slot[p].key
    BY <1>t DEF SlotInv, FreshInv
  <2>1. FreshInv(q)'
    <3> SUFFICES ASSUME slot[q].pc = "bind"
                 PROVE  /\ slot[q].key \in store' /\ slot[q].key \notin Named'
                        /\ \A r \in Slots : /\ slot'[r].old # slot[q].key
                                            /\ r # q => slot'[r].key # slot[q].key
      BY <2>t DEF FreshInv
    <3>1. /\ slot[q].key \in Keys /\ slot[q].key \in store /\ slot[q].key \notin Named
          /\ \A r \in Slots : /\ slot[r].old # slot[q].key
                              /\ r # q => slot[r].key # slot[q].key
      BY <2>t DEF SlotInv, FreshInv, Shape
    <3>2. slot[q].key \in store'
      BY <3>1
    <3>3. slot[q].key \notin Named'
      BY <1>n, <1>t, <2>f, <3>1
    <3>4. x.key # slot[q].key /\ x.old # slot[q].key
      BY <1>t, <3>1, FreeIs
    <3> QED  BY <1>x, <3>1, <3>2, <3>3, <3>4
  <2>2. UndoInv(q)'
    <3> SUFFICES ASSUME slot[q].pc = "undo"
                 PROVE  slot[q].key \notin Named' \/ slot[q].key \in unsure'
      BY <2>t DEF UndoInv
    <3>1. slot[q].key \in Keys /\ slot[q].key \notin Free
      BY <2>t, FreeIs DEF Shape
    <3>2. CASE slot[q].key \in unsure
      BY <3>1, <3>2
    <3>3. CASE slot[q].key \notin Named
      BY <1>n, <1>t, <2>f, <3>1, <3>3
    <3> QED  BY <2>t, <3>2, <3>3 DEF SlotInv, UndoInv
  <2>3. DropInv(q)'
    BY <1>n, <1>t, <2>f, <2>t DEF SlotInv, DropInv, Shape
  <2>4. SeenInv(q)'
    <3> SUFFICES ASSUME slot[q].pc = "seen"
                 PROVE  /\ slot[q].old \notin att'
                        /\ \A s \in Styles \ {slot[q].target} : style'[s].key # slot[q].old
      BY <2>t DEF SeenInv
    <3>1. slot[q].old \in Keys
      BY <2>t DEF Shape
    <3>2. /\ slot[q].old \notin att
          /\ \A s \in Styles \ {slot[q].target} : style[s].key # slot[q].old
      BY <2>t DEF SlotInv, SeenInv
    <3> QED  BY <1>t, <2>f, <3>1, <3>2
  <2> QED  BY <2>1, <2>2, <2>3, <2>4 DEF SlotInv
<1>2. NoDeadLink'
  <2> SUFFICES ASSUME NEW k \in Named', k \notin unsure', k # None PROVE k \in store'
    BY DEF NoDeadLink
  <2>1. CASE k \in Named
    <3>1. k \notin unsure
      BY <2>1, FreeIs
    <3>2. k \in store
      BY <2>1, <3>1 DEF IInv, KeyInv, NoDeadLink
    <3> QED  BY <1>t, <2>1, <3>1, <3>2 DEF SlotInv, UndoInv, DropInv
  <2>2. CASE slot[p].pc = "bind" /\ k = slot[p].key
    BY <1>t, <2>2 DEF SlotInv, FreshInv
  <2> QED  BY <1>n, <2>1, <2>2
<1>3. Accounted'
  <2> SUFFICES ASSUME NEW k \in store', k \notin Named', k \notin stray'
               PROVE  \E q \in Slots : Holds(slot'[q], k)
    BY DEF Accounted
  <2>1. CASE Holds(x, k)
    BY <1>x, <2>1
  <2>2. CASE ~Holds(x, k)
    <3>1. k \in store /\ k # x.key /\ ~Holds(slot[p], k) /\ k \in Keys
      BY <2>2 DEF Holds, TypeInv, TypeOK
    <3>2. k \notin Named /\ k \notin stray
      BY <1>t, <2>2, <3>1
    <3>3. PICK q \in Slots : Holds(slot[q], k)
      BY <3>1, <3>2 DEF IInv, KeyInv, Accounted
    <3> QED  BY <1>x, <3>1, <3>3
  <2> QED  BY <2>1, <2>2
<1> QED  BY <1>1, <1>2, <1>3 DEF IInv, KeyInv

-----------------------------------------------------------------------------
(* Types. *)

LEMMA IdleIs == Idle \in SlotState /\ Shape(Idle)
  BY DEF Idle, SlotState, Shape, Pc, KeyOrNone, Status

LEMMA SlotTypes ==
    ASSUME TypeInv, NEW p \in Slots, NEW x \in SlotState, Shape(x), slot' = [slot EXCEPT ![p] = x]
    PROVE  /\ slot' \in [Slots -> SlotState] /\ \A q \in Slots : Shape(slot'[q])
           /\ slot'[p] = x
  BY TypeFacts DEF TypeInv

(* The state that a request is calm in: it holds no key. *)
CalmState(x) == x \in SlotState /\ x.pc \in Calm /\ x.key = None /\ x.old = None

LEMMA CalmShape == ASSUME NEW x, CalmState(x) PROVE x \in SlotState /\ Shape(x)
  BY DEF CalmState, Shape, Calm

LEMMA CalmSlot ==
    ASSUME TypeInv, NEW p \in Slots, slot[p].pc \in Calm
    PROVE  CalmState(slot[p])
  BY TypeFacts DEF TypeInv, CalmState, Shape, Calm

LEMMA DoneIs ==
    ASSUME TypeInv, NEW p \in Slots, NEW result \in Status, Done(p, result)
    PROVE  /\ res' \in [Styles -> Status]
           /\ \E x : CalmState(x) /\ slot' = [slot EXCEPT ![p] = x]
<1> DEFINE x == [Idle EXCEPT !.todo = slot[p].todo,
                             !.pc = IF slot[p].todo = {} /\ p # Importer THEN "idle" ELSE "next"]
<1>1. slot[p].todo \in SUBSET Styles
  BY TypeFacts DEF TypeInv, SlotState
<1>2. CalmState(x)
  BY <1>1, IdleIs DEF CalmState, Calm, Idle, SlotState, Pc
<1>3. res' \in [Styles -> Status]
  BY DEF Done, TypeInv, TypeOK
<1> QED  BY <1>2, <1>3 DEF Done

LEMMA CountTypes ==
    ASSUME TypeInv, NEW p \in Slots, CountFill(p)
    PROVE  filled' \in [Styles -> 0 .. 2]
  BY DEF CountFill, TypeInv, TypeOK

LEMMA FaultTypes == ASSUME TypeInv, Fault \/ NoFault PROVE faults' \in 0 .. MaxFaults
  BY SetAssumption DEF TypeInv, TypeOK, Fault, NoFault

-----------------------------------------------------------------------------
(* Kinds of steps. *)

(* Nothing is held before or after. *)
LEMMA CalmStep ==
    ASSUME IInv, TypeInv', NEW p \in Slots, NEW x, CalmState(x), slot' = [slot EXCEPT ![p] = x],
           slot[p].pc \in Calm \cup {"seen"}, UNCHANGED <<store, rows, ghosts>>
    PROVE  IInv'
<1>1. slot'[p] = x
  BY TypeFacts DEF IInv, TypeInv
<1>2. SlotInv(p)'
  BY <1>1 DEF SlotInv, FreshInv, UndoInv, DropInv, SeenInv, CalmState, Calm
<1>3. OneName' /\ Named' = Named
  BY DEF IInv, KeyInv, OneName, Named, rows
<1>4. \A k \in store : ~Holds(slot[p], k)
  BY TypeFacts, SetAssumption DEF IInv, TypeInv, Shape, Holds, Calm
<1> QED  BY <1>1, <1>2, <1>3, <1>4, OneSlot DEF rows, ghosts, CalmState

(* What was held is deleted, or left behind as a stray. *)
LEMMA EndStep ==
    ASSUME IInv, TypeInv', NEW p \in Slots, NEW x, CalmState(x), slot' = [slot EXCEPT ![p] = x],
           slot[p].pc \in {"undo", "drop"}, UNCHANGED <<rows, unsure>>,
           \/ /\ store' = store \ {IF slot[p].pc = "undo" THEN slot[p].key ELSE slot[p].old}
              /\ stray' = stray
           \/ /\ store' = store
              /\ stray' = stray \cup ({slot[p].key, slot[p].old} \ (Named \cup {None}))
    PROVE  IInv'
<1>1. slot'[p] = x
  BY TypeFacts DEF IInv, TypeInv
<1>2. SlotInv(p)'
  BY <1>1 DEF SlotInv, FreshInv, UndoInv, DropInv, SeenInv, CalmState, Calm
<1>3. OneName' /\ Named' = Named
  BY DEF IInv, KeyInv, OneName, Named, rows
<1>4. Shape(slot[p]) /\ store \subseteq Keys /\ None \notin Keys
  BY TypeFacts, SetAssumption DEF IInv, TypeInv
<1>5. \A k \in store' : Holds(slot[p], k) => k \in Named' \/ k \in stray' \/ Holds(x, k)
  BY <1>3, <1>4 DEF Holds, Shape
<1>6. \A k \in store \ store' : \/ slot[p].pc = "undo" /\ k = slot[p].key
                                \/ slot[p].pc = "drop" /\ k = slot[p].old
  OBVIOUS
<1>7. \A k \in stray \ stray' : k = x.key
  OBVIOUS
<1> QED  BY <1>2, <1>3, <1>5, <1>6, <1>7, OneSlot DEF rows, CalmState

(* The new object is to be deleted, and no row has come to name it. *)
LEMMA GiveUpStep ==
    ASSUME IInv, TypeInv', NEW p \in Slots, NEW x \in SlotState, slot' = [slot EXCEPT ![p] = x],
           slot[p].pc = "bind", x.pc = "undo", x.key = slot[p].key, x.old = slot[p].old,
           UNCHANGED <<store, rows, ghosts>>
    PROVE  IInv'
<1>1. slot'[p] = x
  BY TypeFacts DEF IInv, TypeInv
<1>2. OneName' /\ Named' = Named
  BY DEF IInv, KeyInv, OneName, Named, rows
<1>3. SlotInv(p)'
  BY <1>1, <1>2 DEF IInv, KeyInv, SlotInv, FreshInv, UndoInv, DropInv, SeenInv
<1>4. \A k : Holds(slot[p], k) => Holds(x, k)
  BY DEF Holds
<1> QED  BY <1>2, <1>3, <1>4, OneSlot DEF rows, ghosts

-----------------------------------------------------------------------------
(* The steps that hold nothing before or after. *)

(* The types of everything but the slots. *)
RestTypes ==
    /\ store \subseteq Keys /\ att \subseteq Keys
    /\ style \in [Styles -> [key : KeyOrNone, deleted : BOOLEAN]]
    /\ doc \in [Docs -> KeyOrNone]
    /\ saw \in [Styles -> {"unread", "deleted", "has", "empty"}]
    /\ res \in [Styles -> Status] /\ note \in [Styles -> Status]
    /\ faults \in 0 .. MaxFaults
    /\ unsure \subseteq Keys /\ stray \subseteq Keys
    /\ filled \in [Styles -> 0 .. 2] /\ forgotten \subseteq Styles

LEMMA TypesNext ==
    ASSUME TypeInv, NEW p \in Slots, NEW x \in SlotState, Shape(x), slot' = [slot EXCEPT ![p] = x],
           RestTypes'
    PROVE  TypeInv'
  BY SlotTypes DEF RestTypes, TypeInv, TypeOK, SlotState

LEMMA RestIs == ASSUME TypeInv PROVE RestTypes
  BY DEF TypeInv, TypeOK, RestTypes

LEMMA BeginUploadStep == ASSUME IInv, NEW p \in Slots, BeginUpload(p) PROVE IInv'
<1> PICK S \in SUBSET Styles : slot' = [slot EXCEPT ![p].pc = "next", ![p].todo = S]
  BY DEF BeginUpload
<1> DEFINE x == [slot[p] EXCEPT !.pc = "next", !.todo = S]
<1>1. CalmState(slot[p])
  BY CalmSlot DEF IInv, BeginUpload, At, Calm
<1>2. slot' = [slot EXCEPT ![p] = x] /\ CalmState(x)
  BY <1>1, TypeFacts DEF IInv, TypeInv, CalmState, Calm, SlotState, Pc
<1>3. RestTypes'
  BY RestIs DEF IInv, BeginUpload, NoFault, RestTypes, rows, run, ghosts, fills
<1> QED  BY <1>1, <1>2, <1>3, CalmShape, TypesNext, CalmStep DEF IInv, BeginUpload, CalmState

LEMMA NextStyleStep == ASSUME IInv, NEW p \in Slots, NextStyle(p) PROVE IInv'
<1> PICK s \in slot[p].todo :
       slot' = [slot EXCEPT ![p].pc = "put", ![p].todo = @ \ {s}, ![p].target = s]
  BY DEF NextStyle
<1> DEFINE x == [slot[p] EXCEPT !.pc = "put", !.todo = @ \ {s}, !.target = s]
<1>1. CalmState(slot[p])
  BY CalmSlot DEF IInv, NextStyle, At, Calm
<1>2. slot' = [slot EXCEPT ![p] = x] /\ CalmState(x)
  BY <1>1, TypeFacts DEF IInv, TypeInv, CalmState, Calm, SlotState, Pc
<1>3. RestTypes'
  BY RestIs DEF IInv, NextStyle, NoFault, RestTypes, rows, run, ghosts, fills
<1> QED  BY <1>1, <1>2, <1>3, CalmShape, TypesNext, CalmStep DEF IInv, NextStyle, CalmState

LEMMA BeginAttachStep == ASSUME IInv, NEW p \in Slots, BeginAttach(p) PROVE IInv'
<1> PICK d \in Docs : slot' = [slot EXCEPT ![p].pc = "put", ![p].target = d]
  BY DEF BeginAttach
<1> DEFINE x == [slot[p] EXCEPT !.pc = "put", !.target = d]
<1>1. CalmState(slot[p])
  BY CalmSlot DEF IInv, BeginAttach, At, Calm
<1>2. slot' = [slot EXCEPT ![p] = x] /\ CalmState(x)
  BY <1>1, TypeFacts DEF IInv, TypeInv, CalmState, Calm, SlotState, Pc
<1>3. RestTypes'
  BY RestIs DEF IInv, BeginAttach, NoFault, RestTypes, rows, run, ghosts, fills
<1> QED  BY <1>1, <1>2, <1>3, CalmShape, TypesNext, CalmStep DEF IInv, BeginAttach, CalmState

LEMMA ImporterIsSlot == Importer \in Slots
  BY DEF Slots

LEMMA BeginRunStep == ASSUME IInv, BeginRun PROVE IInv'
<1> DEFINE p == Importer
<1> PICK S \in SUBSET Styles : slot' = [slot EXCEPT ![p] = [Idle EXCEPT !.pc = "load", !.todo = S]]
  BY SetAssumption DEF BeginRun
<1> DEFINE x == [Idle EXCEPT !.pc = "load", !.todo = S]
<1>1. CalmState(slot[p])
  BY CalmSlot, ImporterIsSlot DEF IInv, BeginRun, At, Calm
<1>2. CalmState(x)
  BY IdleIs DEF Idle, CalmState, Calm, SlotState, Pc
<1>3. RestTypes'
  BY RestIs DEF IInv, BeginRun, NoFault, RestTypes, rows, run, ghosts, fills
<1> QED
  BY <1>1, <1>2, <1>3, ImporterIsSlot, CalmShape, TypesNext, CalmStep DEF IInv, BeginRun, CalmState

LEMMA LoadStylesStep == ASSUME IInv, LoadStyles PROVE IInv'
<1> DEFINE p == Importer
           x == [slot[p] EXCEPT !.pc = "next"]
<1>1. CalmState(slot[p])
  BY CalmSlot, ImporterIsSlot DEF IInv, LoadStyles, At, Calm
<1>2. slot' = [slot EXCEPT ![p] = x] /\ CalmState(x)
  BY <1>1, TypeFacts, ImporterIsSlot
  DEF IInv, TypeInv, LoadStyles, Go, CalmState, Calm, SlotState, Pc
<1>3. RestTypes'
  BY RestIs DEF IInv, LoadStyles, NoFault, RestTypes, rows, run, ghosts, fills
<1> QED
  BY <1>1, <1>2, <1>3, ImporterIsSlot, CalmShape, TypesNext, CalmStep
  DEF IInv, LoadStyles, CalmState

LEMMA FileUnreadableStep == ASSUME IInv, FileUnreadable PROVE IInv'
<1> DEFINE p == Importer
           x == [slot[p] EXCEPT !.pc = "next", !.todo = {}]
<1>1. CalmState(slot[p])
  BY CalmSlot, ImporterIsSlot DEF IInv, FileUnreadable, At, Calm
<1>2. slot' = [slot EXCEPT ![p] = x] /\ CalmState(x)
  BY <1>1, TypeFacts, ImporterIsSlot
  DEF IInv, TypeInv, FileUnreadable, CalmState, Calm, SlotState, Pc
<1>3. RestTypes'
  BY RestIs, FaultTypes DEF IInv, FileUnreadable, RestTypes, Status, rows, ghosts, fills
<1> QED
  BY <1>1, <1>2, <1>3, ImporterIsSlot, CalmShape, TypesNext, CalmStep
  DEF IInv, FileUnreadable, CalmState

LEMMA PassOverStep == ASSUME IInv, PassOver PROVE IInv'
<1> DEFINE p == Importer
<1> PICK s \in slot[p].todo :
       /\ slot' = [slot EXCEPT ![p].todo = @ \ {s}]
       /\ res' = [res EXCEPT ![s] = IF saw[s] = "deleted" THEN "skipped"
                                    ELSE IF saw[s] = "has" THEN "kept" ELSE "invalid"]
  BY DEF PassOver
<1> DEFINE x == [slot[p] EXCEPT !.todo = @ \ {s}]
<1>1. CalmState(slot[p])
  BY CalmSlot, ImporterIsSlot DEF IInv, PassOver, At, Calm
<1>2. slot' = [slot EXCEPT ![p] = x] /\ CalmState(x)
  BY <1>1, TypeFacts, ImporterIsSlot DEF IInv, TypeInv, CalmState, SlotState
<1>3. RestTypes'
  BY RestIs DEF IInv, PassOver, NoFault, RestTypes, Status, rows, run, ghosts, fills
<1> QED
  BY <1>1, <1>2, <1>3, ImporterIsSlot, CalmShape, TypesNext, CalmStep DEF IInv, PassOver, CalmState

LEMMA InterruptStep == ASSUME IInv, Interrupt PROVE IInv'
<1> DEFINE p == Importer
           x == [slot[p] EXCEPT !.todo = {}]
<1>1. CalmState(slot[p])
  BY CalmSlot, ImporterIsSlot DEF IInv, Interrupt, At, Calm
<1>2. slot' = [slot EXCEPT ![p] = x] /\ CalmState(x)
  BY <1>1, TypeFacts, ImporterIsSlot DEF IInv, TypeInv, Interrupt, CalmState, SlotState
<1>3. RestTypes'
  BY RestIs, FaultTypes DEF IInv, Interrupt, RestTypes, rows, run, ghosts, fills
<1> QED
  BY <1>1, <1>2, <1>3, ImporterIsSlot, CalmShape, TypesNext, CalmStep DEF IInv, Interrupt, CalmState

LEMMA EndRunStep == ASSUME IInv, WriteNotes \/ NotesLost PROVE IInv'
<1> DEFINE p == Importer
<1>1. CalmState(slot[p]) /\ CalmState(Idle)
  BY CalmSlot, ImporterIsSlot, IdleIs
  DEF IInv, WriteNotes, NotesLost, EndRun, At, Calm, CalmState, Idle
<1>2. slot' = [slot EXCEPT ![p] = Idle]
  BY DEF WriteNotes, NotesLost, EndRun
<1>3. RestTypes'
  BY RestIs, FaultTypes
  DEF IInv, WriteNotes, NotesLost, EndRun, ForgetRun, Forgets, RestTypes, Status, rows, ghosts, fills
<1> QED
  BY <1>1, <1>2, <1>3, ImporterIsSlot, CalmShape, TypesNext, CalmStep
  DEF IInv, WriteNotes, NotesLost, CalmState, ghosts

-----------------------------------------------------------------------------
(* Putting an object. *)

LEMMA PutStep == ASSUME IInv, NEW p \in Slots, Put(p) PROVE IInv'
<1> PICK k \in Free :
       /\ store' = store \cup {k}
       /\ slot' = [slot EXCEPT ![p].pc = "bind", ![p].key = k]
       /\ unsure' = unsure \ {k} /\ stray' = stray \ {k}
  BY DEF Put
<1> DEFINE x == [slot[p] EXCEPT !.pc = "bind", !.key = k]
<1>1. CalmState(slot[p]) /\ k \in Keys /\ UNCHANGED rows
  BY CalmSlot, FreeIs DEF IInv, Put, At, Calm
<1>2. slot' = [slot EXCEPT ![p] = x] /\ x \in SlotState /\ Shape(x)
      /\ x.pc = "bind" /\ x.key = k /\ x.old = None
  BY <1>1, TypeFacts DEF IInv, TypeInv, CalmState, Shape, SlotState, Pc, KeyOrNone
<1> HIDE DEF x
<1>3. RestTypes'
  BY <1>1, RestIs DEF IInv, Put, NoFault, RestTypes, rows, run, fills
<1>4. TypeInv'
  BY <1>2, <1>3, TypesNext DEF IInv
<1>5. slot'[p] = x /\ \A q \in Slots \ {p} : slot'[q] = slot[q]
  BY <1>2, TypeFacts DEF IInv, TypeInv
<1>6. OneName' /\ Named' = Named
  BY <1>1 DEF IInv, KeyInv, OneName, Named, rows
<1>7. SlotInv(p)'
  BY <1>2, <1>5, <1>6, FreeIs DEF SlotInv, FreshInv, UndoInv, DropInv, SeenInv
<1>8. \A j : ~Holds(slot[p], j) \/ j = None
  BY <1>1 DEF Holds, CalmState, Calm
<1>9. \A j \in store' : Holds(slot[p], j) => j \in Named' \/ j \in stray' \/ Holds(x, j)
  BY <1>3, <1>8, SetAssumption DEF RestTypes
<1> QED
  BY <1>1, <1>2, <1>4, <1>6, <1>7, <1>9, OneSlot DEF rows

LEMMA PutFailsStep == ASSUME IInv, NEW p \in Slots, PutFails(p) PROVE IInv'
<1> PICK k \in Free, stored \in BOOLEAN :
       /\ store' = IF stored THEN store \cup {k} ELSE store
       /\ unsure' = unsure \ {k}
       /\ IF slot[p].target \in Styles
          THEN Done(p, "failed") /\ stray' = stray \cup {k}
          ELSE /\ slot' = [slot EXCEPT ![p].pc = "undo", ![p].key = k]
               /\ stray' = stray \ {k} /\ UNCHANGED res
  BY DEF PutFails
<1>1. CalmState(slot[p]) /\ k \in Keys /\ k \notin Named /\ UNCHANGED rows
  BY CalmSlot, FreeIs DEF IInv, PutFails, At, Calm
<1>2. OneName' /\ Named' = Named
  BY <1>1 DEF IInv, KeyInv, OneName, Named, rows
<1>3. \A j \in Keys : ~Holds(slot[p], j)
  BY <1>1, SetAssumption DEF Holds, CalmState, Calm
<1>4. store' \subseteq Keys
  BY <1>1, TypeFacts DEF IInv, TypeInv
<1>5. CASE slot[p].target \in Styles
  <2>1. PICK x : CalmState(x) /\ slot' = [slot EXCEPT ![p] = x]
    BY <1>5, DoneIs DEF IInv, Status
  <2>2. RestTypes'
    BY <1>1, <1>4, <1>5, RestIs, DoneIs, FaultTypes
    DEF IInv, PutFails, RestTypes, Status, rows, fills
  <2>3. TypeInv' /\ slot'[p] = x
    BY <2>1, <2>2, TypesNext, CalmShape, SlotTypes DEF IInv
  <2>4. SlotInv(p)'
    BY <2>1, <2>3 DEF SlotInv, FreshInv, UndoInv, DropInv, SeenInv, CalmState, Calm
  <2>5. x.key = None /\ x.old = None
    BY <2>1 DEF CalmState
  <2> QED
    BY <1>1, <1>2, <1>3, <1>4, <1>5, <2>1, <2>3, <2>4, <2>5, OneSlot DEF rows
<1>6. CASE slot[p].target \notin Styles
  <2> DEFINE x == [slot[p] EXCEPT !.pc = "undo", !.key = k]
  <2>1. slot' = [slot EXCEPT ![p] = x] /\ x \in SlotState /\ Shape(x)
        /\ x.pc = "undo" /\ x.key = k /\ x.old = None
    BY <1>1, <1>6, TypeFacts DEF IInv, TypeInv, CalmState, Shape, SlotState, Pc, KeyOrNone
  <2> HIDE DEF x
  <2>2. RestTypes'
    BY <1>1, <1>4, <1>6, RestIs, FaultTypes DEF IInv, PutFails, RestTypes, rows, fills
  <2>3. TypeInv' /\ slot'[p] = x
    BY <2>1, <2>2, TypesNext, SlotTypes DEF IInv
  <2>4. SlotInv(p)'
    BY <1>1, <1>2, <2>1, <2>3 DEF SlotInv, FreshInv, UndoInv, DropInv, SeenInv
  <2> QED
    BY <1>1, <1>2, <1>3, <1>4, <1>6, <2>1, <2>3, <2>4, OneSlot DEF rows
<1> QED  BY <1>5, <1>6

-----------------------------------------------------------------------------
(* Refusals, compensation and cleaning. *)

LEMMA GiveUp ==
    ASSUME IInv, NEW p \in Slots, NEW result \in Status, slot[p].pc = "bind",
           slot' = [slot EXCEPT ![p].pc = "undo", ![p].result = result],
           UNCHANGED <<store, rows, ghosts>>, RestTypes'
    PROVE  IInv'
<1> DEFINE x == [slot[p] EXCEPT !.pc = "undo", !.result = result]
<1>1. slot[p] \in SlotState /\ Shape(slot[p])
  BY TypeFacts DEF IInv, TypeInv
<1>2. slot' = [slot EXCEPT ![p] = x] /\ x \in SlotState /\ Shape(x)
      /\ x.pc = "undo" /\ x.key = slot[p].key /\ x.old = slot[p].old
  BY <1>1 DEF Shape, SlotState, Pc
<1> HIDE DEF x
<1> QED  BY <1>2, TypesNext, GiveUpStep DEF IInv

LEMMA RefusalStep ==
    ASSUME IInv, NEW p \in Slots, Kept(p) \/ BindFails(p) \/ AttachRefused(p)
    PROVE  IInv'
<1>1. RestTypes'
  BY RestIs, FaultTypes
  DEF IInv, Kept, BindFails, AttachRefused, RestTypes, rows, run, ghosts, fills
<1>2. CASE Kept(p)
  <2>1. (IF style[slot[p].target].deleted THEN "failed" ELSE "kept") \in Status
    BY DEF Status
  <2> QED  BY <1>1, <1>2, <2>1, GiveUp DEF Kept, At
<1>3. CASE BindFails(p)
  BY <1>1, <1>3, GiveUp DEF BindFails, At, Status
<1>4. CASE AttachRefused(p)
  <2>1. slot[p] \in SlotState
    BY TypeFacts DEF IInv, TypeInv
  <2>2. slot[p].result \in Status
    BY <2>1 DEF SlotState
  <2>3. slot' = [slot EXCEPT ![p].pc = "undo", ![p].result = slot[p].result]
    BY <1>4, <2>1, TypeFacts DEF IInv, TypeInv, AttachRefused, Go, SlotState
  <2> QED  BY <1>1, <1>4, <2>2, <2>3, GiveUp DEF AttachRefused, At
<1> QED  BY <1>2, <1>3, <1>4

LEMMA CleanStep ==
    ASSUME IInv, NEW p \in Slots, Undo(p) \/ Drop(p) \/ DeleteFails(p)
    PROVE  IInv'
<1>1. slot[p].result \in Status /\ slot[p].key \in KeyOrNone /\ slot[p].old \in KeyOrNone
  BY TypeFacts DEF IInv, TypeInv, SlotState
<1>2. \E result \in Status : Done(p, result)
  BY <1>1 DEF Undo, Drop, DeleteFails, Status
<1>3. PICK x : CalmState(x) /\ slot' = [slot EXCEPT ![p] = x]
  BY <1>2, DoneIs DEF IInv
<1>4. RestTypes'
  <2>1. res' \in [Styles -> Status]
    BY <1>2, DoneIs DEF IInv
  <2> QED
    BY <1>1, <2>1, RestIs, FaultTypes
    DEF IInv, Undo, Drop, DeleteFails, RestTypes, KeyOrNone, rows, ghosts, fills
<1>5. TypeInv'
  BY <1>3, <1>4, TypesNext, CalmShape DEF IInv
<1> QED  BY <1>3, <1>5, EndStep DEF Undo, Drop, DeleteFails, At, ghosts

-----------------------------------------------------------------------------
(* Binding. *)

(* A key that is bound to a style leaves the one it replaces to be dropped, or
   as a stray. *)
LEMMA NamesFacts ==
    ASSUME IInv, NEW p \in Slots, slot[p].pc = "bind", slot[p].target \in Styles,
           Names(p), att' = att
    PROVE  LET s == slot[p].target IN
           /\ style' \in [Styles -> [key : KeyOrNone, deleted : BOOLEAN]]
           /\ OneName'
           /\ style'[s].key = slot[p].key
           /\ \A t \in Styles \ {s} : style'[t].key = style[t].key
           /\ \A k : k \in Named' <=> k = slot[p].key \/ (k \in Named /\ k # style[s].key)
                                      \/ (k = None /\ \E t \in Styles \ {s} : style[t].key = None)
           /\ slot[p].key \in Keys /\ slot[p].key \notin Named
<1> DEFINE s == slot[p].target
<1>1. slot[p].key \in Keys /\ slot[p].key \notin Named /\ None \notin Keys /\ att \subseteq Keys
  BY TypeFacts, SetAssumption
  DEF IInv, TypeInv, Shape, KeyInv, SlotInv, FreshInv
<1>2. style \in [Styles -> [key : KeyOrNone, deleted : BOOLEAN]]
  BY TypeFacts DEF IInv, TypeInv
<1>3. /\ style' \in [Styles -> [key : KeyOrNone, deleted : BOOLEAN]]
      /\ style'[s].key = slot[p].key
      /\ \A t \in Styles \ {s} : style'[t].key = style[t].key
  BY <1>1, <1>2 DEF Names, KeyOrNone
<1>4. /\ \A t \in Styles : style[t].key \notin att
      /\ \A t, u \in Styles : t # u /\ style[t].key # None => style[t].key # style[u].key
  BY DEF IInv, KeyInv, OneName
<1>5. \A t \in Styles : style[t].key # slot[p].key
  BY <1>1, NamedIs
<1>6. slot[p].key \notin att
  BY <1>1, NamedIs
<1>7. OneName'
  BY <1>1, <1>3, <1>4, <1>5, <1>6 DEF OneName
<1>8. \A k : k \in Named' <=> k = slot[p].key \/ (k \in Named /\ k # style[s].key)
                              \/ (k = None /\ \E t \in Styles \ {s} : style[t].key = None)
  BY <1>1, <1>3, <1>4, NamedIs, NamedIsNext
<1> QED  BY <1>1, <1>3, <1>7, <1>8

LEMMA ReplaceStep == ASSUME IInv, NEW p \in Slots, Replace(p) PROVE IInv'
<1> DEFINE s == slot[p].target
<1>0. /\ slot[p].pc = "bind" /\ s \in Styles /\ Names(p) /\ att' = att
      /\ store' = store /\ unsure' = unsure /\ stray' = stray
  BY DEF Replace, At, ghosts
<1>1. /\ style' \in [Styles -> [key : KeyOrNone, deleted : BOOLEAN]] /\ OneName'
      /\ style'[s].key = slot[p].key
      /\ \A t \in Styles \ {s} : style'[t].key = style[t].key
      /\ \A k : k \in Named' <=> k = slot[p].key \/ (k \in Named /\ k # style[s].key)
                                 \/ (k = None /\ \E t \in Styles \ {s} : style[t].key = None)
      /\ slot[p].key \in Keys
  BY <1>0, NamesFacts
<1>2. slot[p] \in SlotState /\ Shape(slot[p]) /\ None \notin Keys /\ store \subseteq Keys
  BY TypeFacts, SetAssumption DEF IInv, TypeInv
<1>3. CASE style[s].key = None
  <2>1. PICK x : CalmState(x) /\ slot' = [slot EXCEPT ![p] = x]
    BY <1>3, DoneIs DEF IInv, Replace, Status
  <2>2. RestTypes'
    <3>1. res' \in [Styles -> Status] /\ filled' \in [Styles -> 0 .. 2]
      BY <1>3, DoneIs, CountTypes DEF IInv, Replace, Status
    <3> QED
      BY <1>1, <3>1, RestIs DEF IInv, Replace, NoFault, RestTypes, ghosts
  <2>3. TypeInv' /\ slot'[p] = x
    BY <2>1, <2>2, TypesNext, CalmShape, SlotTypes DEF IInv
  <2>4. SlotInv(p)'
    BY <2>1, <2>3 DEF SlotInv, FreshInv, UndoInv, DropInv, SeenInv, CalmState, Calm
  <2>5. x.key = None /\ x.old = None
    BY <2>1 DEF CalmState
  <2>6. \A k \in store' : Holds(slot[p], k) => k \in Named'
    BY <1>0, <1>1 DEF Holds
  <2>7. \A k \in Named \ Named' : k = None
    BY <1>1, <1>3
  <2> QED  BY <1>0, <1>1, <2>1, <2>3, <2>4, <2>5, <2>6, <2>7, OneSlot
<1>4. CASE style[s].key # None
  <2> DEFINE x == [slot[p] EXCEPT !.pc = "drop", !.key = None, !.old = style[s].key]
  <2>1. style[s].key \in Keys /\ style[s].key \in Named
    BY <1>0, <1>4, NamedIs, TypeFacts DEF IInv, TypeInv, KeyOrNone
  <2>2. slot' = [slot EXCEPT ![p] = x] /\ x \in SlotState /\ Shape(x)
        /\ x.pc = "drop" /\ x.key = None /\ x.old = style[s].key
    BY <1>2, <1>4, <2>1, TypeFacts DEF IInv, TypeInv, Replace, Shape, SlotState, Pc, KeyOrNone
  <2> HIDE DEF x
  <2>3. RestTypes'
    <3>1. res' = res /\ filled' \in [Styles -> 0 .. 2]
      BY <1>4, CountTypes DEF IInv, Replace
    <3> QED
      BY <1>1, <3>1, RestIs DEF IInv, Replace, NoFault, RestTypes, ghosts
  <2>4. TypeInv' /\ slot'[p] = x
    BY <2>2, <2>3, TypesNext, SlotTypes DEF IInv
  <2>5. style[s].key # slot[p].key
    BY <1>0, <2>1 DEF IInv, KeyInv, SlotInv, FreshInv
  <2>6. SlotInv(p)'
    BY <1>1, <1>2, <2>1, <2>2, <2>4, <2>5 DEF SlotInv, FreshInv, UndoInv, DropInv, SeenInv
  <2>7. \A k \in store' : Holds(slot[p], k) => k \in Named'
    BY <1>0, <1>1 DEF Holds
  <2>8. \A k \in Named \ Named' : Holds(x, k)
    BY <1>1, <2>2 DEF Holds
  <2> QED  BY <1>0, <1>1, <2>1, <2>2, <2>4, <2>6, <2>7, <2>8, OneSlot
<1> QED  BY <1>3, <1>4

LEMMA ReplaceUnansweredStep == ASSUME IInv, NEW p \in Slots, ReplaceUnanswered(p) PROVE IInv'
<1> DEFINE s == slot[p].target
           x == [slot[p] EXCEPT !.pc = "undo", !.result = "failed"]
<1>0. /\ slot[p].pc = "bind" /\ s \in Styles /\ Names(p) /\ att' = att
      /\ store' = store /\ unsure' = unsure \cup {slot[p].key}
      /\ stray' = stray \cup ({style[s].key} \ {None})
      /\ slot' = [slot EXCEPT ![p].pc = "undo", ![p].result = "failed"]
  BY DEF ReplaceUnanswered, At
<1>1. /\ style' \in [Styles -> [key : KeyOrNone, deleted : BOOLEAN]] /\ OneName'
      /\ style'[s].key = slot[p].key
      /\ \A t \in Styles \ {s} : style'[t].key = style[t].key
      /\ \A k : k \in Named' <=> k = slot[p].key \/ (k \in Named /\ k # style[s].key)
                                 \/ (k = None /\ \E t \in Styles \ {s} : style[t].key = None)
      /\ slot[p].key \in Keys
  BY <1>0, NamesFacts
<1>2. slot[p] \in SlotState /\ Shape(slot[p])
  BY TypeFacts DEF IInv, TypeInv
<1>3. slot' = [slot EXCEPT ![p] = x] /\ x \in SlotState /\ Shape(x)
      /\ x.pc = "undo" /\ x.key = slot[p].key /\ x.old = None
  BY <1>0, <1>2 DEF Shape, SlotState, Pc, Status
<1> HIDE DEF x
<1>4. RestTypes'
  <2>1. filled' \in [Styles -> 0 .. 2] /\ faults' \in 0 .. MaxFaults
    BY CountTypes, FaultTypes DEF IInv, ReplaceUnanswered
  <2>2. forgotten' \subseteq Styles
    BY <1>0, RestIs DEF IInv, ReplaceUnanswered, RestTypes
  <2>3. stray' \subseteq Keys
    BY <1>0, RestIs DEF IInv, RestTypes, KeyOrNone
  <2> QED
    BY <1>0, <1>1, <2>1, <2>2, <2>3, RestIs DEF IInv, ReplaceUnanswered, RestTypes, run
<1>5. TypeInv' /\ slot'[p] = x
  BY <1>3, <1>4, TypesNext, SlotTypes DEF IInv
<1>6. SlotInv(p)'
  BY <1>0, <1>3, <1>5 DEF SlotInv, FreshInv, UndoInv, DropInv, SeenInv
<1>7. \A k : Holds(slot[p], k) => Holds(x, k)
  BY <1>0, <1>3 DEF Holds
<1>8. \A k \in Named \ Named' : k = None \/ k \in stray'
  BY <1>0, <1>1
<1> QED  BY <1>0, <1>1, <1>3, <1>5, <1>6, <1>7, <1>8, OneSlot

LEMMA AttachesFacts ==
    ASSUME IInv, NEW p \in Slots, slot[p].pc = "bind", slot[p].target \in Docs,
           Attaches(p), style' = style
    PROVE  /\ doc' \in [Docs -> KeyOrNone] /\ att' = att \cup {slot[p].key} /\ att' \subseteq Keys
           /\ OneName' /\ Named' = Named \cup {slot[p].key}
           /\ slot[p].key \in Keys
<1>1. slot[p].key \in Keys /\ slot[p].key \notin Named /\ att \subseteq Keys
  BY TypeFacts DEF IInv, TypeInv, Shape, KeyInv, SlotInv, FreshInv
<1>2. doc' \in [Docs -> KeyOrNone]
  BY <1>1, RestIs DEF IInv, RestTypes, Attaches, KeyOrNone
<1>3. att' = att \cup {slot[p].key}
  BY DEF Attaches
<1>4. Named' = Named \cup {slot[p].key}
  BY <1>3 DEF Named
<1>5. \A s \in Styles : style[s].key # slot[p].key
  BY <1>1, NamedIs
<1>6. OneName'
  BY <1>3, <1>5 DEF IInv, KeyInv, OneName
<1> QED  BY <1>1, <1>2, <1>3, <1>4, <1>6

LEMMA AttachStep == ASSUME IInv, NEW p \in Slots, Attach(p) PROVE IInv'
<1>0. /\ slot[p].pc = "bind" /\ slot[p].target \in Docs /\ Attaches(p) /\ style' = style
      /\ store' = store /\ unsure' = unsure /\ stray' = stray /\ slot' = [slot EXCEPT ![p] = Idle]
  BY DEF Attach, At, ghosts
<1>1. RestTypes'
  BY <1>0, AttachesFacts, RestIs DEF IInv, Attach, NoFault, RestTypes, run, ghosts, fills
<1>2. TypeInv' /\ slot'[p] = Idle
  BY <1>0, <1>1, IdleIs, TypesNext, SlotTypes DEF IInv
<1>3. SlotInv(p)'
  BY <1>2 DEF Idle, SlotInv, FreshInv, UndoInv, DropInv, SeenInv
<1>4. \A k : Holds(slot[p], k) => k = slot[p].key
  BY <1>0 DEF Holds
<1>5. Idle.key = None /\ Idle.old = None
  BY DEF Idle
<1> QED  BY <1>0, <1>2, <1>3, <1>4, <1>5, AttachesFacts, OneSlot

LEMMA AttachUnansweredStep == ASSUME IInv, NEW p \in Slots, AttachUnanswered(p) PROVE IInv'
<1> DEFINE x == [slot[p] EXCEPT !.pc = "undo"]
<1>0. /\ slot[p].pc = "bind" /\ slot[p].target \in Docs /\ Attaches(p) /\ style' = style
      /\ store' = store /\ unsure' = unsure \cup {slot[p].key} /\ stray' = stray
  BY DEF AttachUnanswered, At
<1>1. slot[p] \in SlotState /\ Shape(slot[p])
  BY TypeFacts DEF IInv, TypeInv
<1>2. slot' = [slot EXCEPT ![p] = x] /\ x \in SlotState /\ Shape(x)
      /\ x.pc = "undo" /\ x.key = slot[p].key /\ x.old = None
  BY <1>0, <1>1 DEF AttachUnanswered, Go, Shape, SlotState, Pc
<1> HIDE DEF x
<1>3. RestTypes'
  BY <1>0, AttachesFacts, RestIs, FaultTypes
  DEF IInv, AttachUnanswered, RestTypes, run, fills
<1>4. TypeInv' /\ slot'[p] = x
  BY <1>2, <1>3, TypesNext, SlotTypes DEF IInv
<1>5. SlotInv(p)'
  BY <1>0, <1>2, <1>4 DEF SlotInv, FreshInv, UndoInv, DropInv, SeenInv
<1>6. \A k : Holds(slot[p], k) => k = slot[p].key
  BY <1>0 DEF Holds
<1> QED  BY <1>0, <1>2, <1>4, <1>5, <1>6, AttachesFacts, OneSlot

-----------------------------------------------------------------------------
(* Removal. *)

LEMMA BeginRemoveStep == ASSUME IInv, NEW p \in Slots, BeginRemove(p) PROVE IInv'
<1> PICK s \in Styles :
       /\ style[s].key # None
       /\ slot' = [slot EXCEPT ![p].pc = "seen", ![p].target = s, ![p].old = style[s].key]
  BY DEF BeginRemove
<1> DEFINE x == [slot[p] EXCEPT !.pc = "seen", !.target = s, !.old = style[s].key]
<1>1. CalmState(slot[p]) /\ UNCHANGED <<store, rows, ghosts>>
  BY CalmSlot DEF IInv, BeginRemove, At, Calm
<1>2. style[s].key \in Keys /\ style[s].key \in Named
  BY NamedIs, TypeFacts DEF IInv, TypeInv, KeyOrNone
<1>3. slot' = [slot EXCEPT ![p] = x] /\ x \in SlotState /\ Shape(x)
      /\ x.pc = "seen" /\ x.key = None /\ x.old = style[s].key /\ x.target = s
  BY <1>1, <1>2, TypeFacts DEF IInv, TypeInv, CalmState, Shape, SlotState, Pc, KeyOrNone
<1> HIDE DEF x
<1>4. RestTypes'
  BY RestIs DEF IInv, BeginRemove, NoFault, RestTypes, rows, run, ghosts, fills
<1>5. TypeInv' /\ slot'[p] = x
  BY <1>3, <1>4, TypesNext, SlotTypes DEF IInv
<1>6. OneName /\ OneName' /\ Named' = Named
  BY <1>1 DEF IInv, KeyInv, OneName, Named, rows
<1>7. SlotInv(p)'
  BY <1>1, <1>3, <1>5, <1>6 DEF OneName, SlotInv, FreshInv, UndoInv, DropInv, SeenInv, rows
<1>8. \A k \in store : ~Holds(slot[p], k)
  BY <1>1, TypeFacts, SetAssumption DEF IInv, TypeInv, Holds, CalmState, Calm
<1> QED  BY <1>1, <1>2, <1>3, <1>5, <1>6, <1>7, <1>8, OneSlot DEF rows, ghosts

LEMMA ClearsFacts ==
    ASSUME IInv, NEW p \in Slots, slot[p].pc = "seen", Clears(p), att' = att
    PROVE  LET s == slot[p].target IN
           /\ s \in Styles /\ style[s].key \in KeyOrNone
           /\ style' \in [Styles -> [key : KeyOrNone, deleted : BOOLEAN]]
           /\ \A t \in Styles : style'[t].key = IF t = s THEN None ELSE style[t].key
           /\ OneName'
           /\ \A k \in Named' : k \in Named \/ k = None
           /\ \A k \in Named \ Named' : k = None \/ k = style[s].key
           /\ slot[p].old \in Keys /\ slot[p].old \notin Named'
<1> DEFINE s == slot[p].target
<1>1. s \in Styles /\ slot[p].old \in Keys /\ None \notin Keys /\ att \subseteq Keys
  BY TypeFacts, SetAssumption DEF IInv, TypeInv, Shape
<1>2. style \in [Styles -> [key : KeyOrNone, deleted : BOOLEAN]]
  BY TypeFacts DEF IInv, TypeInv
<1>3. /\ style' \in [Styles -> [key : KeyOrNone, deleted : BOOLEAN]]
      /\ \A t \in Styles : style'[t].key = IF t = s THEN None ELSE style[t].key
  BY <1>1, <1>2 DEF Clears, KeyOrNone
<1>4. style[s].key \in KeyOrNone
  BY <1>1, <1>2
<1>5. OneName'
  BY <1>1, <1>3 DEF IInv, KeyInv, OneName
<1>6. /\ \A k \in Named' : k \in Named \/ k = None
      /\ \A k \in Named \ Named' : k = None \/ k = style[s].key
  BY <1>1, <1>3, NamedIs, NamedIsNext
<1>7. slot[p].old \notin Named'
  <2>1. slot[p].old \notin att /\ \A t \in Styles \ {s} : style[t].key # slot[p].old
    BY DEF IInv, KeyInv, SlotInv, SeenInv
  <2> QED  BY <1>1, <1>3, <2>1, NamedIsNext
<1> QED  BY <1>1, <1>3, <1>4, <1>5, <1>6, <1>7

LEMMA RemoveStep == ASSUME IInv, NEW p \in Slots, Remove(p) PROVE IInv'
<1> DEFINE s == slot[p].target
           x == [slot[p] EXCEPT !.pc = "drop"]
<1>0. /\ slot[p].pc = "seen" /\ Clears(p) /\ att' = att /\ store' = store /\ unsure' = unsure
      /\ stray' = stray \cup ({style[s].key} \ {slot[p].old, None})
  BY DEF Remove, At
<1>1. slot[p] \in SlotState /\ Shape(slot[p])
  BY TypeFacts DEF IInv, TypeInv
<1>2. slot' = [slot EXCEPT ![p] = x] /\ x \in SlotState /\ Shape(x)
      /\ x.pc = "drop" /\ x.key = None /\ x.old = slot[p].old
  BY <1>0, <1>1 DEF Remove, Go, Shape, SlotState, Pc
<1> HIDE DEF x
<1>3. RestTypes'
  <2>1. stray' \subseteq Keys
    BY <1>0, ClearsFacts, RestIs DEF IInv, RestTypes, KeyOrNone
  <2> QED
    BY <1>0, <2>1, ClearsFacts, RestIs DEF IInv, Remove, NoFault, RestTypes, run, fills
<1>4. TypeInv' /\ slot'[p] = x
  BY <1>2, <1>3, TypesNext, SlotTypes DEF IInv
<1>5. SlotInv(p)'
  BY <1>0, <1>2, <1>4, ClearsFacts DEF SlotInv, FreshInv, UndoInv, DropInv, SeenInv
<1>6. \A k \in store : ~Holds(slot[p], k)
  BY <1>0, <1>1, TypeFacts, SetAssumption DEF IInv, TypeInv, Shape, Holds
<1>7. \A k \in Named \ Named' : k = None \/ k \in stray' \/ Holds(x, k)
  BY <1>0, <1>2, ClearsFacts DEF Holds
<1>8. \A t \in Styles : style'[t].key \in {style[t].key, None}
  BY <1>0, ClearsFacts
<1>9. OneName' /\ \A k \in att' : k \in att
  BY <1>0, ClearsFacts
<1> QED  BY <1>0, <1>2, <1>4, <1>5, <1>6, <1>7, <1>8, <1>9, OneSlot

LEMMA RemoveUnansweredStep == ASSUME IInv, NEW p \in Slots, RemoveUnanswered(p) PROVE IInv'
<1> DEFINE s == slot[p].target
<1>0. /\ slot[p].pc = "seen" /\ Clears(p) /\ att' = att /\ store' = store /\ unsure' = unsure
      /\ stray' = stray \cup ({style[s].key} \ {None}) /\ slot' = [slot EXCEPT ![p] = Idle]
  BY DEF RemoveUnanswered, At
<1>1. slot[p] \in SlotState /\ Shape(slot[p])
  BY TypeFacts DEF IInv, TypeInv
<1>2. Idle.key = None /\ Idle.old = None /\ Idle.pc = "idle"
  BY DEF Idle
<1>3. RestTypes'
  <2>1. stray' \subseteq Keys
    BY <1>0, ClearsFacts, RestIs DEF IInv, RestTypes, KeyOrNone
  <2> QED
    BY <1>0, <2>1, ClearsFacts, RestIs, FaultTypes
    DEF IInv, RemoveUnanswered, RestTypes, run, fills
<1>4. TypeInv' /\ slot'[p] = Idle
  BY <1>0, <1>3, IdleIs, TypesNext, SlotTypes DEF IInv
<1>5. SlotInv(p)'
  BY <1>2, <1>4 DEF SlotInv, FreshInv, UndoInv, DropInv, SeenInv
<1>6. \A k \in store : ~Holds(slot[p], k)
  BY <1>0, <1>1, TypeFacts, SetAssumption DEF IInv, TypeInv, Shape, Holds
<1>7. \A k \in Named \ Named' : k = None \/ k \in stray'
  BY <1>0, ClearsFacts
<1>8. \A t \in Styles : style'[t].key \in {style[t].key, None}
  BY <1>0, ClearsFacts
<1>9. OneName' /\ \A k \in att' : k \in att
  BY <1>0, ClearsFacts
<1> QED  BY <1>0, <1>2, <1>4, <1>5, <1>6, <1>7, <1>8, <1>9, OneSlot

(* Deleting a style and taking a code off a document leave every key alone. *)
LEMMA RowsOnlyStep ==
    ASSUME IInv, (\E s \in Styles : DeleteOrRestore(s)) \/ (\E d \in Orders : RemoveCode(d))
    PROVE  IInv'
<1>1. RestTypes' /\ slot' = slot /\ store' = store /\ att' = att /\ unsure' = unsure
      /\ stray' = stray
  <2>1. CASE \E s \in Styles : DeleteOrRestore(s)
    <3>1. style' \in [Styles -> [key : KeyOrNone, deleted : BOOLEAN]]
      <4> DEFINE Row == [key : KeyOrNone, deleted : BOOLEAN]
      <4>1. ASSUME NEW r \in Row, NEW b \in BOOLEAN PROVE [r EXCEPT !.deleted = b] \in Row
        OBVIOUS
      <4>2. PICK s \in Styles : style' = [style EXCEPT ![s] = [style[s] EXCEPT !.deleted = ~@]]
        BY <2>1 DEF DeleteOrRestore
      <4>3. style \in [Styles -> Row]
        BY RestIs DEF IInv, RestTypes
      <4>4. [style[s] EXCEPT !.deleted = ~style[s].deleted] \in Row
        BY <4>1, <4>3
      <4> HIDE DEF Row
      <4> QED  BY <4>2, <4>3, <4>4 DEF Row
    <3> QED
      BY <2>1, <3>1, RestIs DEF IInv, DeleteOrRestore, NoFault, RestTypes, run, ghosts, fills
  <2>2. CASE \E d \in Orders : RemoveCode(d)
    BY <2>2, RestIs
    DEF IInv, RemoveCode, NoFault, RestTypes, KeyOrNone, Docs, run, ghosts, fills
  <2> QED  BY <2>1, <2>2
<1>2. \A t \in Styles : style'[t].key = style[t].key
  BY RestIs DEF IInv, RestTypes, DeleteOrRestore, RemoveCode
<1>3. TypeInv'
  BY <1>1, TypeFacts DEF IInv, TypeInv, TypeOK, RestTypes
<1>4. Named' = Named
  BY <1>1, <1>2 DEF Named
<1>5. OneName' /\ Accounted' /\ NoDeadLink'
  BY <1>1, <1>2, <1>4 DEF IInv, KeyInv, OneName, Accounted, NoDeadLink
<1>6. \A q \in Slots : SlotInv(q)'
  BY <1>1, <1>2, <1>4 DEF IInv, KeyInv, SlotInv, FreshInv, UndoInv, DropInv, SeenInv
<1> QED  BY <1>3, <1>5, <1>6 DEF IInv, KeyInv

LEMMA DieStep == ASSUME IInv, NEW p \in Slots, Die(p) PROVE IInv'
<1>0. /\ slot' = [slot EXCEPT ![p] = Idle] /\ UNCHANGED <<store, rows, unsure>>
      /\ stray' = stray \cup ({slot[p].key, slot[p].old} \ (Named \cup {None}))
  BY DEF Die
<1>1. slot[p] \in SlotState
  BY TypeFacts DEF IInv, TypeInv
<1>2. Idle.key = None /\ Idle.old = None /\ Idle.pc = "idle"
  BY DEF Idle
<1>3. RestTypes'
  <2>1. stray' \subseteq Keys
    BY <1>0, <1>1, RestIs DEF IInv, RestTypes, KeyOrNone, SlotState
  <2>2. saw' \in [Styles -> {"unread", "deleted", "has", "empty"}] /\ res' \in [Styles -> Status]
        /\ forgotten' \subseteq Styles
    BY RestIs DEF IInv, Die, ForgetRun, Forgets, RestTypes, Status
  <2> QED
    BY <1>0, <2>1, <2>2, RestIs, FaultTypes DEF IInv, Die, RestTypes, rows
<1>4. TypeInv' /\ slot'[p] = Idle
  BY <1>0, <1>3, IdleIs, TypesNext, SlotTypes DEF IInv
<1>5. SlotInv(p)'
  BY <1>2, <1>4 DEF SlotInv, FreshInv, UndoInv, DropInv, SeenInv
<1>6. OneName' /\ Named' = Named
  BY <1>0 DEF IInv, KeyInv, OneName, Named, rows
<1>7. \A k \in store : Holds(slot[p], k) => k \in Named \/ k \in stray'
  BY <1>0, TypeFacts, SetAssumption DEF IInv, TypeInv, Holds
<1> QED  BY <1>0, <1>2, <1>4, <1>5, <1>6, <1>7, OneSlot DEF rows

-----------------------------------------------------------------------------

LEMMA InitIInv == Init => IInv
<1> SUFFICES ASSUME Init PROVE IInv
  OBVIOUS
<1>1. TypeOK
  BY IdleIs, SetAssumption DEF Init, TypeOK, SlotState, Status, KeyOrNone
<1>2. \A p \in Slots : slot[p] = Idle
  BY DEF Init
<1>3. TypeInv
  BY <1>1, <1>2, IdleIs DEF TypeInv
<1>4. OneName /\ Accounted /\ NoDeadLink
  BY DEF Init, OneName, Accounted, NoDeadLink, Named
<1>5. \A p \in Slots : SlotInv(p)
  BY <1>2 DEF Idle, SlotInv, FreshInv, UndoInv, DropInv, SeenInv
<1> QED  BY <1>3, <1>4, <1>5 DEF IInv, KeyInv

LEMMA NextIInv == IInv /\ [Next]_vars => IInv'
<1> SUFFICES ASSUME IInv, [Next]_vars PROVE IInv'
  OBVIOUS
<1>1. ASSUME NEW u \in Users, Request(u) PROVE IInv'
  <2>1. u \in Slots
    BY DEF Slots
  <2> QED
    BY <1>1, <2>1, BeginUploadStep, BeginRemoveStep, RemoveStep, RemoveUnansweredStep,
       BeginAttachStep, AttachStep, RefusalStep, AttachUnansweredStep DEF Request
<1>2. ASSUME NEW p \in Slots, Entry(p) PROVE IInv'
  BY <1>2, NextStyleStep, PutStep, PutFailsStep, RefusalStep, ReplaceStep,
     ReplaceUnansweredStep, CleanStep, DieStep DEF Entry
<1>3. ASSUME Import PROVE IInv'
  BY <1>3, BeginRunStep, LoadStylesStep, FileUnreadableStep, PassOverStep, InterruptStep,
     EndRunStep DEF Import
<1>4. CASE UNCHANGED vars
  <2>1. TypeInv'
    BY <1>4, RestIs, TypeFacts
    DEF IInv, TypeInv, TypeOK, RestTypes, vars, rows, run, ghosts, fills
  <2>2. Named' = Named
    BY <1>4 DEF vars, rows, Named
  <2>3. KeyInv'
    BY <1>4, <2>2
    DEF IInv, KeyInv, OneName, Accounted, NoDeadLink, SlotInv, FreshInv, UndoInv, DropInv,
        SeenInv, vars, rows, ghosts
  <2> QED  BY <2>1, <2>3 DEF IInv
<1> QED  BY <1>1, <1>2, <1>3, <1>4, RowsOnlyStep DEF Next

LEMMA Invariance == Spec => []IInv
  BY InitIInv, NextIInv, PTL DEF Spec

-----------------------------------------------------------------------------

(* Rows, requests and the bucket keep their types. *)
THEOREM TypeCorrect == Spec => []TypeOK
<1>1. IInv => TypeOK
  BY DEF IInv, TypeInv
<1> QED  BY <1>1, Invariance, PTL

(* No compensation or cleaning deletes an object that a row names, except where
   the answer of a commit was lost. *)
THEOREM EveryLinkLives == Spec => []NoDeadLink
<1>1. IInv => NoDeadLink
  BY DEF IInv, KeyInv
<1> QED  BY <1>1, Invariance, PTL

(* An object is named, in hand, or left behind by a named fault. *)
THEOREM EveryObjectIsAccountedFor == Spec => []NoStrayObject
<1>1. IInv => NoStrayObject
  <2> SUFFICES ASSUME IInv, NEW k \in store, k \notin Named, k \notin stray PROVE k \in InHand
    BY DEF NoStrayObject
  <2>1. PICK p \in Slots : Holds(slot[p], k)
    BY DEF IInv, KeyInv, Accounted
  <2> QED  BY <2>1 DEF Holds, InHand
<1> QED  BY <1>1, Invariance, PTL

-----------------------------------------------------------------------------
(* The batch fills a style once.  A style that it has filled, and whose note is
   not lost, is known as "set" to this run or to the next, which leave it
   alone. *)

Imp == slot[Importer]

Settled(s) ==
    /\ res[s] = "set" \/ (res[s] = "none" /\ note[s] = "set")
    /\ s \notin Imp.todo /\ s # Imp.target

FillInv ==
    /\ Imp.pc \in {"idle", "load"} => \A s \in Styles : res[s] = "none"
    /\ Imp.target \notin Imp.todo
    /\ \A s \in Styles \ forgotten : filled[s] = 0 \/ (filled[s] = 1 /\ Settled(s))

LEMMA ImporterTypes ==
    ASSUME TypeInv
    PROVE  /\ Imp \in SlotState /\ Shape(Imp) /\ Importer \notin Users
           /\ None \notin Styles
           /\ filled \in [Styles -> 0 .. 2] /\ res \in [Styles -> Status]
           /\ note \in [Styles -> Status]
  BY TypeFacts, ImporterIsSlot, SetAssumption DEF TypeInv, TypeOK, Imp

(* A step of somebody else. *)
LEMMA OthersKeepFills ==
    ASSUME FillInv, slot'[Importer] = Imp, UNCHANGED <<res, note, forgotten>>,
           \A s \in Styles : filled'[s] = filled[s]
    PROVE  FillInv'
  BY DEF FillInv, Settled, Imp

LEMMA DoneOther ==
    ASSUME TypeInv, NEW p \in Slots, p # Importer, NEW result, Done(p, result)
    PROVE  slot'[Importer] = Imp /\ res' = res
<1>1. slot'[Importer] = Imp
  BY TypeFacts, ImporterIsSlot DEF TypeInv, Done, Imp
<1>2. res' = res
  BY ImporterTypes DEF Done
<1> QED  BY <1>1, <1>2

LEMMA CountOther ==
    ASSUME TypeInv, NEW p \in Slots, p # Importer, CountFill(p)
    PROVE  \A s \in Styles : filled'[s] = filled[s]
  BY DEF CountFill

LEMMA RequestFills == ASSUME IInv, FillInv, NEW u \in Users, Request(u) PROVE FillInv'
<1>1. u # Importer /\ u \in Slots
  BY SetAssumption DEF Slots
<1>2. slot'[Importer] = Imp
  BY <1>1, TypeFacts, ImporterIsSlot
  DEF IInv, TypeInv, Request, BeginUpload, BeginRemove, Remove, RemoveUnanswered, BeginAttach,
      Attach, AttachRefused, AttachUnanswered, Go, Imp
<1>3. UNCHANGED <<res, note, forgotten, filled>>
  BY DEF Request, BeginUpload, BeginRemove, Remove, RemoveUnanswered, BeginAttach, Attach,
         AttachRefused, AttachUnanswered, run, fills
<1> QED  BY <1>2, <1>3, OthersKeepFills

LEMMA EntryOfUserFills ==
    ASSUME IInv, FillInv, NEW p \in Slots, p # Importer, Entry(p)
    PROVE  FillInv'
<1>1. CASE NextStyle(p) \/ Put(p) \/ Kept(p) \/ BindFails(p)
  <2>1. slot'[Importer] = Imp
    BY <1>1, TypeFacts, ImporterIsSlot
    DEF IInv, TypeInv, NextStyle, Put, Kept, BindFails, Go, Imp
  <2>2. UNCHANGED <<res, note, forgotten, filled>>
    BY <1>1 DEF NextStyle, Put, Kept, BindFails, run, fills
  <2> QED  BY <2>1, <2>2, OthersKeepFills
<1>2. CASE PutFails(p)
  <2>1. slot'[Importer] = Imp /\ res' = res
    <3>1. CASE slot[p].target \in Styles
      BY <1>2, <3>1, DoneOther DEF IInv, PutFails
    <3>2. CASE slot[p].target \notin Styles
      BY <1>2, <3>2, TypeFacts, ImporterIsSlot DEF IInv, TypeInv, PutFails, Imp
    <3> QED  BY <3>1, <3>2
  <2> QED  BY <1>2, <2>1, OthersKeepFills DEF PutFails, fills
<1>3. CASE Replace(p)
  <2>1. slot'[Importer] = Imp /\ res' = res
    <3>1. CASE style[slot[p].target].key = None
      BY <1>3, <3>1, DoneOther DEF IInv, Replace
    <3>2. CASE style[slot[p].target].key # None
      BY <1>3, <3>2, TypeFacts, ImporterIsSlot DEF IInv, TypeInv, Replace, Imp
    <3> QED  BY <3>1, <3>2
  <2> QED  BY <1>3, <2>1, CountOther, OthersKeepFills DEF IInv, Replace
<1>4. CASE ReplaceUnanswered(p)
  <2>1. slot'[Importer] = Imp
    BY <1>4, TypeFacts, ImporterIsSlot DEF IInv, TypeInv, ReplaceUnanswered, Imp
  <2> QED  BY <1>4, <2>1, CountOther, OthersKeepFills DEF IInv, ReplaceUnanswered, run
<1>5. CASE Undo(p) \/ Drop(p) \/ DeleteFails(p)
  <2>1. slot'[Importer] = Imp /\ res' = res
    BY <1>5, DoneOther DEF IInv, Undo, Drop, DeleteFails
  <2> QED  BY <1>5, <2>1, OthersKeepFills DEF Undo, Drop, DeleteFails, fills
<1>6. CASE Die(p)
  <2>1. slot'[Importer] = Imp
    BY <1>6, TypeFacts, ImporterIsSlot DEF IInv, TypeInv, Die, Imp
  <2> QED  BY <1>6, <2>1, OthersKeepFills DEF Die
<1> QED  BY <1>1, <1>2, <1>3, <1>4, <1>5, <1>6 DEF Entry

(* The importer ends its entry: no style but the one at hand is concerned. *)
LEMMA DoneImporter ==
    ASSUME TypeInv, NEW result \in Status, Done(Importer, result)
    PROVE  /\ Imp'.pc = "next" /\ Imp'.todo = Imp.todo /\ Imp'.target = None
           /\ \A s \in Styles : res'[s] = IF s = Imp.target THEN result ELSE res[s]
<1>1. Imp' = [Idle EXCEPT !.todo = Imp.todo,
                          !.pc = IF Imp.todo = {} /\ Importer # Importer THEN "idle" ELSE "next"]
  BY TypeFacts, ImporterIsSlot DEF TypeInv, Done, Imp
<1>2. Imp'.pc = "next" /\ Imp'.todo = Imp.todo /\ Imp'.target = None
  BY <1>1 DEF Idle
<1>3. \A s \in Styles : res'[s] = IF s = Imp.target THEN result ELSE res[s]
  BY DEF Done, Imp
<1> QED  BY <1>2, <1>3

LEMMA EndOfEntryFills ==
    ASSUME IInv, FillInv, NEW result \in Status, Done(Importer, result),
           UNCHANGED <<note, forgotten, filled>>
    PROVE  FillInv'
<1>1. /\ Imp'.pc = "next" /\ Imp'.todo = Imp.todo /\ Imp'.target = None
      /\ \A s \in Styles : res'[s] = IF s = Imp.target THEN result ELSE res[s]
  BY DoneImporter DEF IInv
<1>2. Imp.todo \subseteq Styles /\ None \notin Styles
  BY ImporterTypes DEF IInv, SlotState
<1>3. ASSUME NEW s \in Styles \ forgotten, filled[s] # 0 PROVE filled[s] = 1 /\ Settled(s)'
  BY <1>1, <1>2, <1>3 DEF FillInv, Settled
<1> QED  BY <1>1, <1>2, <1>3 DEF FillInv

LEMMA EntryOfImporterFills == ASSUME IInv, FillInv, Entry(Importer) PROVE FillInv'
<1> DEFINE p == Importer
<1>t. /\ Imp \in SlotState /\ Imp.todo \subseteq Styles /\ None \notin Styles
      /\ slot \in [Slots -> SlotState]
  BY ImporterTypes, TypeFacts DEF IInv, TypeInv, SlotState
<1>1. CASE NextStyle(p)
  <2>1. PICK s \in Imp.todo :
           slot' = [slot EXCEPT ![p].pc = "put", ![p].todo = @ \ {s}, ![p].target = s]
    BY <1>1 DEF NextStyle, Imp
  <2>2. Imp'.pc = "put" /\ Imp'.todo = Imp.todo \ {s} /\ Imp'.target = s
    BY <1>t, <2>1, ImporterIsSlot DEF Imp, SlotState
  <2>3. UNCHANGED <<res, note, forgotten, filled>>
    BY <1>1 DEF NextStyle, run, fills
  <2> QED  BY <2>1, <2>2, <2>3 DEF FillInv, Settled
<1>2. CASE Put(p) \/ Kept(p) \/ BindFails(p)
  <2>1. Imp'.pc \notin {"idle", "load"} /\ Imp'.todo = Imp.todo /\ Imp'.target = Imp.target
    BY <1>t, <1>2, ImporterIsSlot DEF Put, Kept, BindFails, Go, Imp, SlotState
  <2>2. UNCHANGED <<res, note, forgotten, filled>>
    BY <1>2 DEF Put, Kept, BindFails, run, fills
  <2> QED  BY <2>1, <2>2 DEF FillInv, Settled
<1>3. CASE PutFails(p)
  <2>1. CASE Imp.target \in Styles
    BY <1>3, <2>1, EndOfEntryFills DEF PutFails, Imp, Status, fills
  <2>2. CASE Imp.target \notin Styles
    <3>1. Imp'.pc = "undo" /\ Imp'.todo = Imp.todo /\ Imp'.target = Imp.target
      BY <1>t, <1>3, <2>2, ImporterIsSlot DEF PutFails, Imp, SlotState
    <3> QED  BY <1>3, <2>2, <3>1 DEF PutFails, Imp, FillInv, Settled, fills
  <2> QED  BY <2>1, <2>2
<1>4. CASE Replace(p)
  <2>1. Done(p, "set") /\ CountFill(p) /\ Imp.target \in Styles /\ UNCHANGED <<note, forgotten>>
    BY <1>4 DEF Replace, Refused, Imp
  <2>2. /\ Imp'.pc = "next" /\ Imp'.todo = Imp.todo /\ Imp'.target = None
        /\ \A s \in Styles : res'[s] = IF s = Imp.target THEN "set" ELSE res[s]
    BY <2>1, DoneImporter DEF IInv, Status
  <2>3. \A s \in Styles : filled'[s] = IF s = Imp.target /\ filled[s] < 2
                                       THEN filled[s] + 1 ELSE filled[s]
    BY <2>1 DEF CountFill, Imp
  <2>4. ASSUME NEW s \in Styles \ forgotten, filled'[s] # 0 PROVE filled'[s] = 1 /\ Settled(s)'
    <3>1. CASE s = Imp.target
      <4>1. filled[s] = 0 /\ s \notin Imp.todo
        BY <3>1 DEF FillInv, Settled
      <4> QED  BY <1>t, <2>2, <2>3, <3>1, <4>1 DEF Settled
    <3>2. CASE s # Imp.target
      BY <1>t, <2>1, <2>2, <2>3, <2>4, <3>2 DEF FillInv, Settled
    <3> QED  BY <3>1, <3>2
  <2> QED  BY <1>t, <2>1, <2>2, <2>4 DEF FillInv
<1>5. CASE ReplaceUnanswered(p)
  <2>1. /\ forgotten' = forgotten \cup {Imp.target} /\ UNCHANGED <<res, note>>
        /\ \A s \in Styles \ {Imp.target} : filled'[s] = filled[s]
    BY <1>5 DEF ReplaceUnanswered, CountFill, run, Imp
  <2>2. Imp'.pc = "undo" /\ Imp'.todo = Imp.todo /\ Imp'.target = Imp.target
    BY <1>t, <1>5, ImporterIsSlot DEF ReplaceUnanswered, Imp, SlotState
  <2> QED  BY <2>1, <2>2 DEF FillInv, Settled
<1>6. CASE Undo(p) \/ Drop(p) \/ DeleteFails(p)
  <2>1. Imp.result \in Status
    BY <1>t DEF SlotState
  <2> QED
    BY <1>6, <2>1, EndOfEntryFills DEF Undo, Drop, DeleteFails, Imp, Status, fills
<1>7. CASE Die(p)
  <2>1. Imp' = Idle
    BY <1>t, <1>7, ImporterIsSlot DEF Die, Imp
  <2>2. /\ \A s \in Styles : res'[s] = "none"
        /\ forgotten' = forgotten \cup {s \in Styles : res[s] = "set"}
        /\ UNCHANGED <<note, filled>>
    BY <1>7 DEF Die, ForgetRun, Forgets
  <2> QED  BY <1>t, <2>1, <2>2 DEF FillInv, Settled, Idle
<1> QED  BY <1>1, <1>2, <1>3, <1>4, <1>5, <1>6, <1>7 DEF Entry

LEMMA ImportFills == ASSUME IInv, FillInv, Import PROVE FillInv'
<1>t. /\ Imp \in SlotState /\ Imp.todo \subseteq Styles /\ None \notin Styles
      /\ slot \in [Slots -> SlotState] /\ res \in [Styles -> Status]
  BY ImporterTypes, TypeFacts DEF IInv, TypeInv, SlotState
<1>1. CASE BeginRun
  <2>1. PICK S \in SUBSET Styles :
           /\ Imp' = [Idle EXCEPT !.pc = "load", !.todo = S]
           /\ \A s \in S : note[s] \notin Final
    BY <1>1, <1>t, ImporterIsSlot, SetAssumption DEF BeginRun, Imp
  <2>2. Imp'.pc = "load" /\ Imp'.todo = S /\ Imp'.target = None /\ Imp.pc = "idle"
    BY <1>1, <2>1 DEF Idle, BeginRun, At, Imp
  <2>3. UNCHANGED <<res, note, forgotten, filled>>
    BY <1>1 DEF BeginRun, run, fills
  <2> QED  BY <1>t, <2>1, <2>2, <2>3 DEF FillInv, Settled, Final
<1>2. CASE LoadStyles
  <2>1. Imp'.pc = "next" /\ Imp'.todo = Imp.todo /\ Imp'.target = Imp.target
    BY <1>2, <1>t, ImporterIsSlot DEF LoadStyles, Go, Imp, SlotState
  <2> QED  BY <1>2, <2>1 DEF LoadStyles, FillInv, Settled, fills
<1>3. CASE FileUnreadable
  <2>1. Imp'.pc = "next" /\ Imp'.todo = {} /\ Imp'.target = Imp.target /\ Imp.pc = "load"
    BY <1>3, <1>t, ImporterIsSlot DEF FileUnreadable, At, Imp, SlotState
  <2>2. \A s \in Styles : res'[s] = IF s \in Imp.todo THEN "failed" ELSE "none"
    BY <1>3 DEF FileUnreadable, Imp
  <2> QED  BY <1>3, <2>1, <2>2 DEF FileUnreadable, FillInv, Settled, fills
<1>4. CASE PassOver
  <2>1. PICK s \in Imp.todo :
           /\ slot' = [slot EXCEPT ![Importer].todo = @ \ {s}]
           /\ \A t \in Styles \ {s} : res'[t] = res[t]
    BY <1>4, <1>t DEF PassOver, Imp
  <2>2. Imp'.pc = "next" /\ Imp'.todo = Imp.todo \ {s} /\ Imp'.target = Imp.target
    BY <1>4, <1>t, <2>1, ImporterIsSlot DEF PassOver, At, Imp, SlotState
  <2>3. UNCHANGED <<note, forgotten, filled>>
    BY <1>4 DEF PassOver, fills
  <2> QED  BY <2>1, <2>2, <2>3 DEF FillInv, Settled
<1>5. CASE Interrupt
  <2>1. Imp'.pc = "next" /\ Imp'.todo = {} /\ Imp'.target = Imp.target
    BY <1>5, <1>t, ImporterIsSlot DEF Interrupt, At, Imp, SlotState
  <2> QED  BY <1>5, <2>1 DEF Interrupt, FillInv, Settled, run, fills
<1>6. CASE WriteNotes \/ NotesLost
  <2>1. Imp' = Idle /\ \A s \in Styles : res'[s] = "none"
    BY <1>6, <1>t, ImporterIsSlot DEF WriteNotes, NotesLost, EndRun, ForgetRun, Imp
  <2>2. filled' = filled
    BY <1>6 DEF WriteNotes, NotesLost, fills
  <2>3. ASSUME NEW s \in Styles \ forgotten', filled[s] = 1 PROVE note'[s] = "set"
    <3>1. CASE WriteNotes
      BY <2>3, <3>1 DEF WriteNotes, FillInv, Settled, fills
    <3>2. CASE NotesLost
      BY <2>3, <3>2 DEF NotesLost, Forgets, FillInv, Settled
    <3> QED  BY <1>6, <3>1, <3>2
  <2>4. Imp'.todo = {} /\ Imp'.target = None
    BY <2>1 DEF Idle
  <2>5. \A s \in Styles \ forgotten' : filled[s] \in {0, 1}
    BY <1>6 DEF WriteNotes, NotesLost, Forgets, FillInv, fills
  <2> QED  BY <1>t, <2>1, <2>2, <2>3, <2>4, <2>5 DEF FillInv, Settled
<1> QED  BY <1>1, <1>2, <1>3, <1>4, <1>5, <1>6 DEF Import

LEMMA NextFills == IInv /\ FillInv /\ [Next]_vars => FillInv'
<1> SUFFICES ASSUME IInv, FillInv, [Next]_vars PROVE FillInv'
  OBVIOUS
<1>1. CASE (\E s \in Styles : DeleteOrRestore(s)) \/ (\E d \in Orders : RemoveCode(d))
  BY <1>1, OthersKeepFills DEF DeleteOrRestore, RemoveCode, run, fills, Imp
<1>2. CASE UNCHANGED vars
  BY <1>2, OthersKeepFills DEF vars, run, fills, Imp
<1> QED
  BY <1>1, <1>2, RequestFills, EntryOfUserFills, EntryOfImporterFills, ImportFills DEF Next

LEMMA InitFills == Init => FillInv
  BY SetAssumption, ImporterIsSlot DEF Init, FillInv, Imp, Idle

(* The importer gives a style an image once, unless the note of it is lost. *)
THEOREM ImageIsGivenOnce == Spec => []FilledOnce
<1>1. IInv /\ FillInv => FilledOnce
  BY DEF FillInv, FilledOnce
<1> QED  BY <1>1, InitFills, NextFills, Invariance, PTL DEF Spec

=============================================================================
