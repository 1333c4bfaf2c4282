---------------------------- MODULE ImportConflicts ----------------------------
(***************************************************************************)
(* What happens when an import meets an object that already exists         *)
(* (importer/conflicts.py, conflict_appliers.py, compare.py, outcome.py,   *)
(* adapters/blogger.py).  A row fills the fields the system has empty,     *)
(* overwrites the statistics, and writes the other differences to the one  *)
(* pending conflict of the object.  A user keeps the system's values or    *)
(* overwrites them with the file's.  Batches, resolutions and edits by     *)
(* hand run side by side; a row and a resolution lock the conflict first   *)
(* and the object second, except a row whose PR claims the blogger by it:  *)
(* the claim has locked the object before.  The module follows one object. *)
(***************************************************************************)
EXTENDS Naturals

CONSTANTS
    Fields,     \* fields an import compares
    Statistics, \* those always overwritten
    Values,     \* values of a field
    Empty,      \* no value
    Batches,    \* import batches, one row at a time each
    Users,      \* users who resolve conflicts
    None,
    Sheets,     \* the rows files have
    MaxConf,    \* bound on the conflicts recorded
    MaxRows,    \* bound on the rows imported
    MaxEdits    \* bound on the edits by hand

ASSUME FieldAssumption == Statistics \subseteq Fields /\ Empty \notin Values
ASSUME HolderAssumption == None \notin Batches \cup Users /\ Batches \cap Users = {}
ASSUME ConflictBounds == MaxConf \in Nat \ {0} /\ MaxRows \in Nat /\ MaxEdits \in Nat

VARIABLES
    obj,        \* the values of the object
    alive,      \* it is not deleted
    conf,       \* its pending conflict: id 0 is none
    lastId,     \* conflicts recorded so far
    confX,      \* who has locked the pending conflict
    objX,       \* who has locked the object
    at,         \* the row a batch is at
    seen,       \* per batch, the first value a committed row gave a field
    user,       \* the resolutions
    rows,       \* rows begun so far
    edits,      \* edits by hand so far
    owed,       \* ghost: differences that were reported and not settled
    masked      \* ghost: those of a field that was listed for another batch

ghosts == <<owed, masked>>
bounds == <<rows, edits>>
conflictsVars == <<obj, alive, conf, lastId, confX, objX, at, seen, user, bounds, ghosts>>

Record == [Fields -> Values \cup {Empty}]
ASSUME SheetAssumption == Sheets \subseteq Record
Blank == [f \in Fields |-> Empty]
(* carried: the fields it has from the conflict of another batch. *)
Conflict == [id : 0 .. MaxConf, batch : Batches \cup {None}, sys : Record, file : Record,
             carried : SUBSET Fields]
NoConf == [id |-> 0, batch |-> None, sys |-> Blank, file |-> Blank, carried |-> {}]
NoRow == [pc |-> "idle", row |-> Blank, read |-> Blank, c |-> 0, claim |-> FALSE]
NoUser == [pc |-> "idle", id |-> 0, expect |-> Blank, decision |-> "keep", read |-> Blank]
Resolution == [pc : {"idle", "shown", "lock", "close", "lockObj", "apply"},
               id : 0 .. MaxConf, expect : Record, decision : {"keep", "overwrite"},
               read : Record]
Given(rec) == {f \in Fields : rec[f] # Empty}
Listed == Given(conf.file)

ConflictsTypeOK ==
    /\ obj \in Record /\ alive \in BOOLEAN
    /\ conf \in Conflict
    /\ lastId \in 0 .. MaxConf
    /\ confX \in Batches \cup Users \cup {None} /\ objX \in Batches \cup Users \cup {None}
    /\ at \in [Batches -> [pc : {"idle", "claim", "lockConf", "lockObj", "write"}, row : Record,
                            read : Record, c : 0 .. MaxConf, claim : BOOLEAN]]
    /\ seen \in [Batches -> Record]
    /\ user \in [Users -> Resolution]
    /\ rows \in 0 .. MaxRows /\ edits \in 0 .. MaxEdits
    /\ owed \in Record /\ masked \subseteq Fields

(* What a row of an earlier batch gave may still be pending. *)
Earlier(file) ==
    IF Given(file) = {} THEN NoConf
    ELSE [id |-> 1, batch |-> None, file |-> file, carried |-> {},
          sys |-> [f \in Fields |-> IF file[f] # Empty THEN obj[f] ELSE Empty]]

ConflictsInit ==
    /\ obj \in Record /\ alive = TRUE
    /\ owed \in {file \in Record : \A f \in Given(file) :
                    f \notin Statistics /\ obj[f] \notin {Empty, file[f]}}
    /\ conf = Earlier(owed) /\ lastId = conf.id
    /\ confX = None /\ objX = None
    /\ at = [b \in Batches |-> NoRow] /\ seen = [b \in Batches |-> Blank]
    /\ user = [u \in Users |-> NoUser]
    /\ rows = 0 /\ edits = 0 /\ masked = {}

Free(lock, p) == IF lock = p THEN None ELSE lock

-----------------------------------------------------------------------------
(* A row of a batch. *)

Found(b, row, pc, claim) ==
    /\ at[b].pc = "idle" /\ alive /\ rows < MaxRows
    /\ at' = [at EXCEPT ![b] = [pc |-> pc, row |-> row, read |-> Blank, c |-> conf.id,
                                claim |-> claim]]
    /\ rows' = rows + 1
    /\ UNCHANGED <<obj, alive, conf, lastId, confX, seen, user, edits, ghosts>>

(* Mutant: every row locks the object when it finds it. *)
FindAndLock(b, row, claim) ==
    Found(b, row, "lockConf", claim) /\ objX = None /\ objX' = b

(* The object is found by its key, without a lock, and the pending conflict by
   a SELECT FOR UPDATE that now waits for the conflict it has found; a row of a
   PR that names a work WeChat claims the blogger first. *)
FindRow(b, row, claim) ==
    Found(b, row, IF claim THEN "claim" ELSE "lockConf", claim) /\ UNCHANGED objX

(* self_claim locks the blogger, for the rest of the row; then the conflict is
   looked for. *)
ClaimObject(b) ==
    /\ at[b].pc = "claim" /\ objX = None /\ alive
    /\ objX' = b
    /\ at' = [at EXCEPT ![b].pc = "lockConf", ![b].c = conf.id]
    /\ UNCHANGED <<obj, alive, conf, lastId, confX, seen, user, bounds, ghosts>>

(* The conflict that was found is re-read under its lock; one that has been
   closed meanwhile is skipped, and no other is looked for. *)
LockPending(b) ==
    /\ at[b].pc = "lockConf"
    /\ \/ /\ at[b].c # 0 /\ conf.id = at[b].c
          /\ confX = None /\ confX' = b
          /\ at' = [at EXCEPT ![b].pc = "lockObj"]
       \/ /\ conf.id # at[b].c \/ at[b].c = 0
          /\ at' = [at EXCEPT ![b].pc = "lockObj", ![b].c = 0]
          /\ UNCHANGED confX
    /\ UNCHANGED <<obj, alive, conf, lastId, objX, seen, user, bounds, ghosts>>

(* Mutant: the object is re-read without its lock. *)
ReadWithoutLock(b) ==
    /\ at[b].pc = "lockObj" /\ objX \in {None, b} /\ alive
    /\ at' = [at EXCEPT ![b].pc = "write", ![b].read = obj]
    /\ UNCHANGED <<obj, alive, conf, lastId, confX, objX, seen, user, bounds, ghosts>>

(* load_for_update: the object is re-read under its lock (populate_existing),
   in place of the copy it was found with. *)
LockObject(b) ==
    /\ at[b].pc = "lockObj" /\ objX \in {None, b} /\ alive
    /\ objX' = b
    /\ at' = [at EXCEPT ![b].pc = "write", ![b].read = obj]
    /\ UNCHANGED <<obj, alive, conf, lastId, confX, seen, user, bounds, ghosts>>

(* A row fails: the object was deleted meanwhile, or anything else went wrong.
   Its transaction is rolled back and nothing it gave counts as seen. *)
FailRow(b) ==
    /\ at[b].pc # "idle"
    /\ at' = [at EXCEPT ![b] = NoRow]
    /\ confX' = Free(confX, b) /\ objX' = Free(objX, b)
    /\ UNCHANGED <<obj, alive, conf, lastId, seen, user, bounds, ghosts>>

(* The first value that a committed row of the batch gave a field stands: a
   later row with another one is read as if it gave none. *)
Screened(b) == [f \in Fields |->
    IF seen[b][f] \in {Empty, at[b].row[f]} THEN at[b].row[f] ELSE Empty]
Compared(b) == Given(Screened(b))
Fills(b) == {f \in Compared(b) : at[b].read[f] = Empty}
Differs(b) == {f \in Compared(b) : at[b].read[f] \notin {Empty, Screened(b)[f]}}
Overwritten(b) == Differs(b) \cap Statistics
Reported(b) == Differs(b) \ Statistics

(* Mutant: a new conflict leaves behind what its row does not compare. *)
NothingCarried(b) == {}

(* Fields of another batch's conflict that this row does not compare go along
   into the new conflict, with the value the system has now. *)
Carried(b) == {f \in Listed \ Compared(b) : at[b].read[f] # conf.file[f]}

NewConflict(b, id, carried) ==
    [id |-> id, batch |-> b,
     sys |-> [f \in Fields |-> IF f \in Reported(b) \cup carried THEN at[b].read[f] ELSE Empty],
     file |-> [f \in Fields |-> IF f \in Reported(b) THEN Screened(b)[f]
                                ELSE IF f \in carried THEN conf.file[f] ELSE Empty],
     carried |-> carried]

(* Fields of another row of the same batch join the conflict; one that is
   listed already stays as it is, also when it was carried along and no row of
   this batch had given it. *)
Merged(b) ==
    [id |-> conf.id, batch |-> conf.batch,
     sys |-> [f \in Fields |-> IF f \in Reported(b) \ Listed THEN at[b].read[f] ELSE conf.sys[f]],
     file |-> [f \in Fields |-> IF f \in Reported(b) \ Listed THEN Screened(b)[f]
                                ELSE conf.file[f]],
     carried |-> conf.carried]

Insert(b, carried) ==
    /\ lastId < MaxConf
    /\ lastId' = lastId + 1
    /\ conf' = NewConflict(b, lastId + 1, carried)

(* ConflictRecorder.record with a difference, touch without one. *)
RecordConflict(b) ==
    \/ /\ Reported(b) # {} /\ at[b].c = 0 /\ conf = NoConf
       /\ Insert(b, {})
    \/ /\ Reported(b) # {} /\ at[b].c # 0 /\ conf.batch = b
       /\ conf' = Merged(b) /\ UNCHANGED lastId
    \/ /\ Reported(b) # {} /\ at[b].c # 0 /\ conf.batch # b
       /\ Insert(b, Carried(b))

TouchConflict(b) ==
    /\ Reported(b) = {} /\ UNCHANGED lastId
    /\ conf' = IF at[b].c # 0 /\ conf.batch # b /\ Listed \subseteq Compared(b)
               THEN NoConf ELSE conf

(* The conflict has the field from an earlier row of the same batch. *)
Standing(b, f) == conf.batch = b /\ f \in Listed \ conf.carried

(* What is owed after a row: each difference it reports, unless an earlier row of
   the same batch reported that field; not a field that a row of another batch
   finds settled, or that agrees with the file by now. *)
OwedAfter(b) == [f \in Fields |->
    IF f \in Reported(b)
    THEN IF Standing(b, f) THEN owed[f] ELSE Screened(b)[f]
    ELSE IF (f \in Compared(b) /\ conf.batch # b) \/ at[b].read[f] = owed[f]
         THEN Empty ELSE owed[f]]

(* The differences that met a field carried along from another batch. *)
MaskedAfter(b) == {f \in Fields :
    IF f \in Reported(b) /\ ~Standing(b, f) THEN conf.batch = b /\ f \in Listed
    ELSE f \in masked /\ OwedAfter(b)[f] # Empty}

(* An invalid value is neither written nor counts as seen. *)
WriteRow(b) == \E valid \in SUBSET (Fills(b) \cup Overwritten(b)) :
    /\ at[b].pc = "write"
    /\ RecordConflict(b) \/ TouchConflict(b)
    /\ obj' = [f \in Fields |-> IF f \in valid THEN Screened(b)[f] ELSE obj[f]]
    /\ seen' = [seen EXCEPT ![b] = [f \in Fields |->
          IF @[f] = Empty /\ f \notin (Fills(b) \cup Overwritten(b)) \ valid
          THEN at[b].row[f] ELSE @[f]]]
    /\ at' = [at EXCEPT ![b] = NoRow]
    /\ confX' = Free(confX, b) /\ objX' = Free(objX, b)
    /\ owed' = OwedAfter(b) /\ masked' = MaskedAfter(b)
    /\ UNCHANGED <<alive, user, bounds>>

(* The batch is run again with the rows that failed. *)
RunAgain(b) ==
    /\ at[b].pc = "idle" /\ seen[b] # Blank
    /\ seen' = [seen EXCEPT ![b] = Blank]
    /\ UNCHANGED <<obj, alive, conf, lastId, confX, objX, at, user, bounds, ghosts>>

-----------------------------------------------------------------------------
(* A resolution. *)

(* The list shows the conflict with the values it was recorded with. *)
View(u) ==
    /\ user[u].pc \in {"idle", "shown"} /\ conf # NoConf
    /\ user' = [user EXCEPT ![u] = [NoUser EXCEPT !.pc = "shown", !.id = conf.id,
                                                  !.expect = conf.sys]]
    /\ UNCHANGED <<obj, alive, conf, lastId, confX, objX, at, seen, bounds, ghosts>>

Decide(u, decision) ==
    /\ user[u].pc = "shown"
    /\ user' = [user EXCEPT ![u].pc = "lock", ![u].decision = decision]
    /\ UNCHANGED <<obj, alive, conf, lastId, confX, objX, at, seen, bounds, ghosts>>

LockConflict(u) ==
    /\ user[u].pc = "lock" /\ conf.id = user[u].id /\ confX = None
    /\ confX' = u
    /\ user' = [user EXCEPT ![u].pc = IF user[u].decision = "keep" THEN "close" ELSE "lockObj"]
    /\ UNCHANGED <<obj, alive, conf, lastId, objX, at, seen, bounds, ghosts>>

Answer(u) ==
    /\ user' = [user EXCEPT ![u] = NoUser]
    /\ confX' = Free(confX, u) /\ objX' = Free(objX, u)

NotPending(u) ==
    /\ user[u].pc = "lock" /\ conf.id # user[u].id
    /\ Answer(u)
    /\ UNCHANGED <<obj, alive, conf, lastId, at, seen, bounds, ghosts>>

Close(u) == Answer(u) /\ conf' = NoConf /\ owed' = Blank /\ masked' = {}

Keep(u) ==
    /\ user[u].pc = "close"
    /\ Close(u)
    /\ UNCHANGED <<obj, alive, lastId, at, seen, bounds>>

(* load_for_update: the object under its lock, or the conflict is invalid. *)
LockForOverwrite(u) ==
    /\ user[u].pc = "lockObj" /\ objX = None /\ alive
    /\ objX' = u
    /\ user' = [user EXCEPT ![u].pc = "apply", ![u].read = obj]
    /\ UNCHANGED <<obj, alive, conf, lastId, confX, at, seen, bounds, ghosts>>

Gone(u) ==
    /\ user[u].pc = "lockObj" /\ ~alive
    /\ Close(u)
    /\ UNCHANGED <<obj, alive, lastId, at, seen, bounds>>

(* A field whose value is not the expected one; one that the request does not
   name is expected to be empty. *)
Stale(u) == {f \in Listed : user[u].expect[f] # user[u].read[f]}

Overwrite(u) ==
    /\ user[u].pc = "apply" /\ Stale(u) = {}
    /\ obj' = [f \in Fields |-> IF f \in Listed THEN conf.file[f] ELSE obj[f]]
    /\ Close(u)
    /\ UNCHANGED <<alive, lastId, at, seen, bounds>>

(* The answer carries the current values; the user may confirm with them. *)
AnswerStale(u) ==
    /\ user[u].pc = "apply" /\ Stale(u) # {}
    /\ user' = [user EXCEPT ![u] = [NoUser EXCEPT !.pc = "shown", !.id = conf.id,
            !.expect = [f \in Fields |-> IF f \in Listed THEN user[u].read[f] ELSE Empty]]]
    /\ confX' = None /\ objX' = None
    /\ UNCHANGED <<obj, alive, conf, lastId, at, seen, bounds, ghosts>>

(* A value that cannot be written, or an error: the transaction changes nothing. *)
ResolutionFails(u) ==
    /\ user[u].pc \in {"lock", "close", "lockObj", "apply"}
    /\ Answer(u)
    /\ UNCHANGED <<obj, alive, conf, lastId, at, seen, bounds, ghosts>>

-----------------------------------------------------------------------------
(* The object outside imports. *)

(* An edit may change several fields at once (a new number of followers grades
   the blogger anew). *)
EditByHand(rec) ==
    /\ alive /\ objX = None /\ edits < MaxEdits /\ rec # obj
    /\ obj' = rec
    /\ edits' = edits + 1
    /\ UNCHANGED <<alive, conf, lastId, confX, objX, at, seen, user, rows, ghosts>>

Delete ==
    /\ alive /\ objX = None
    /\ alive' = FALSE
    /\ UNCHANGED <<obj, conf, lastId, confX, objX, at, seen, user, bounds, ghosts>>

Restore ==
    /\ ~alive /\ objX = None
    /\ alive' = TRUE
    /\ UNCHANGED <<obj, conf, lastId, confX, objX, at, seen, user, bounds, ghosts>>

ImportStep(b) ==
    ClaimObject(b) \/ LockPending(b) \/ LockObject(b) \/ WriteRow(b) \/ FailRow(b)
UserStep(u) ==
    \/ LockConflict(u) \/ NotPending(u) \/ Keep(u) \/ LockForOverwrite(u)
    \/ Gone(u) \/ Overwrite(u) \/ AnswerStale(u) \/ ResolutionFails(u)

ConflictsNext ==
    \/ \E b \in Batches :
          \/ ImportStep(b) \/ RunAgain(b)
          \/ \E row \in Sheets, claim \in BOOLEAN : FindRow(b, row, claim)
    \/ \E u \in Users : UserStep(u) \/ View(u) \/ \E d \in {"keep", "overwrite"} : Decide(u, d)
    \/ \E rec \in Record : EditByHand(rec)
    \/ Delete \/ Restore

ConflictsSpec == ConflictsInit /\ [][ConflictsNext]_conflictsVars

-----------------------------------------------------------------------------

(* What outcome.py:7-8 promises: what a committed row reported stands in the
   pending conflict with the value the file gave, until a user resolves it, a
   later batch compares that field again, or the system has that value.  The
   code loses the value of a row that comes after one of the same batch which
   carried the field along from another batch. *)
NoDifferenceLost == \A f \in Fields : owed[f] # Empty => conf.file[f] = owed[f]

(* Only so is a difference lost: rows that compare other fields, failed rows,
   batches that are run again and runs that overlap lose none. *)
OnlyCarriedFieldsLose ==
    \A f \in Fields : owed[f] # Empty /\ conf.file[f] # owed[f] => f \in masked

(* Nothing that a person or another import wrote is replaced blindly: a row
   changes a value only in a field of statistics, and a resolution only one
   that its user was shown as the system's (one not shown has to be empty),
   whoever writes meanwhile. *)
NoBlindWrite == [][
    /\ \A b \in Batches, f \in Fields \ Statistics :
          at[b].pc = "write" /\ at'[b].pc = "idle" /\ obj'[f] # obj[f] => obj[f] = Empty
    /\ \A u \in Users, f \in Fields :
          user[u].pc = "apply" /\ user'[u].pc = "idle" /\ obj'[f] # obj[f]
             => obj[f] = user[u].expect[f]
    ]_conflictsVars

Waits(p) ==
    \/ p \in Batches /\ \/ at[p].pc = "lockConf" /\ at[p].c # 0 /\ conf.id = at[p].c /\ confX # None
                        \/ at[p].pc \in {"claim", "lockObj"} /\ objX \notin {None, p}
    \/ p \in Users /\ \/ user[p].pc = "lock" /\ conf.id = user[p].id /\ confX # None
                      \/ user[p].pc = "lockObj" /\ objX # None

(* "先锁冲突、再锁对象，与裁决路径同序，两者不会互相死锁" (conflicts.py:3-4) holds but for
   the rows that claim the blogger: whoever else holds the lock of the object
   is not waiting for anything. *)
OnlyClaimsMeet ==
    objX # None /\ Waits(objX) =>
        objX \in Batches /\ at[objX].claim /\ at[objX].pc = "lockConf"
=============================================================================
