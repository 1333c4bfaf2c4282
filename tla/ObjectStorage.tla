----------------------------- MODULE ObjectStorage ----------------------------
(***************************************************************************)
(* Objects in the bucket and the rows that name them.  An object is put    *)
(* before the row commits and deleted when it does not; an object that a   *)
(* commit has replaced is deleted after it.  Neither is one transaction    *)
(* with the row.  Modelled are the main image of a style: upload of one or *)
(* many, removal, and the filling of styles without one from the pictures  *)
(* in an import file (product/style_image_service.py,                      *)
(* importer/adapters/style_sku_images.py), and the attachments of payments *)
(* and payment codes, which every other upload follows                     *)
(* (core/attachment.py, finance/service.py).                               *)
(*                                                                         *)
(* A row lock is held from the read for update to the commit, and nothing  *)
(* is asked of others in between: that is one step here.                   *)
(***************************************************************************)
EXTENDS Naturals, FiniteSets

CONSTANTS
    Styles,
    InFile,     \* styles with a picture in the import file
    BadImages,  \* those whose picture is of no use
    Payments,   \* documents that take one proof of payment
    Orders,     \* documents with a payment code, which may be replaced
    Keys,       \* a key is used again once nothing knows of it
    None,
    Users,      \* slots of requests
    Importer,   \* the run of the import batch, one at a time
    MaxFaults   \* bound on failed calls, lost answers and dead processes

ASSUME SetAssumption ==
    /\ InFile \subseteq Styles /\ BadImages \subseteq InFile
    /\ None \notin Keys /\ Importer \notin Users /\ MaxFaults \in Nat
    /\ None \notin Styles \cup Payments \cup Orders
    /\ Styles \cap (Payments \cup Orders) = {} /\ Payments \cap Orders = {}

VARIABLES
    store,      \* objects in the bucket
    style,      \* the rows of the styles
    att,        \* keys of the rows of attachments
    doc,        \* the attachment a document names
    slot,       \* requests, and the run of the importer
    saw,        \* what the importer read of the styles
    res,        \* its results
    note,       \* results it left with the batch (import_job.notes)
    faults,     \* faults so far
    unsure,     \* ghost: keys whose commit went through unanswered
    stray,      \* ghost: objects that a fault or a stale removal left behind
    filled,     \* ghost: how often the batch gave a style its image
    forgotten   \* ghost: styles it gave one without leaving a note

rows == <<style, att, doc>>
run == <<saw, res, note>>
ghosts == <<unsure, stray>>
fills == <<filled, forgotten>>
vars == <<store, rows, slot, run, faults, ghosts, fills>>

Docs == Payments \cup Orders
Slots == Users \cup {Importer}
KeyOrNone == Keys \cup {None}
Status == {"none", "set", "kept", "invalid", "skipped", "failed"}
Pc == {"idle", "load", "next", "put", "bind", "undo", "seen", "drop"}

Idle == [pc |-> "idle", todo |-> {}, target |-> None, key |-> None, old |-> None,
         result |-> "none"]

TypeOK ==
    /\ store \subseteq Keys /\ att \subseteq Keys
    /\ style \in [Styles -> [key : KeyOrNone, deleted : BOOLEAN]]
    /\ doc \in [Docs -> KeyOrNone]
    /\ slot \in [Slots -> [pc : Pc, todo : SUBSET Styles, target : Styles \cup Docs \cup {None},
                           key : KeyOrNone, old : KeyOrNone, result : Status]]
    /\ saw \in [Styles -> {"unread", "deleted", "has", "empty"}]
    /\ res \in [Styles -> Status] /\ note \in [Styles -> Status]
    /\ faults \in 0 .. MaxFaults
    /\ unsure \subseteq Keys /\ stray \subseteq Keys
    /\ filled \in [Styles -> 0 .. 2] /\ forgotten \subseteq Styles

Init ==
    /\ store = {} /\ att = {}
    /\ style = [s \in Styles |-> [key |-> None, deleted |-> FALSE]]
    /\ doc = [d \in Docs |-> None]
    /\ slot = [p \in Slots |-> Idle]
    /\ saw = [s \in Styles |-> "unread"]
    /\ res = [s \in Styles |-> "none"] /\ note = [s \in Styles |-> "none"]
    /\ faults = 0 /\ unsure = {} /\ stray = {}
    /\ filled = [s \in Styles |-> 0] /\ forgotten = {}

-----------------------------------------------------------------------------
(* Keys and slots. *)

Named == {style[s].key : s \in Styles} \cup att
InHand == UNION {{slot[p].key, slot[p].old} : p \in Slots}
Free == Keys \ (store \cup Named \cup InHand)

At(p, pc) == slot[p].pc = pc
Go(p, pc) == slot' = [slot EXCEPT ![p].pc = pc]
Fault == faults < MaxFaults /\ faults' = faults + 1
NoFault == UNCHANGED faults

(* The end of one entry: the next one, or the answer; the importer keeps the
   result. *)
Done(p, result) ==
    /\ slot' = [slot EXCEPT ![p] =
                 [Idle EXCEPT !.todo = slot[p].todo,
                              !.pc = IF slot[p].todo = {} /\ p # Importer THEN "idle" ELSE "next"]]
    /\ res' = [s \in Styles |-> IF p = Importer /\ s = slot[p].target THEN result ELSE res[s]]

-----------------------------------------------------------------------------
(* Requests for the main image of styles. *)

(* Single upload, or a batch: its files are matched to styles that are not
   deleted, all of them before the first is written. *)
BeginUpload(u) ==
    /\ At(u, "idle")
    /\ \E S \in SUBSET {s \in Styles : ~style[s].deleted} :
         /\ S # {}
         /\ slot' = [slot EXCEPT ![u].pc = "next", ![u].todo = S]
    /\ NoFault /\ UNCHANGED <<store, rows, run, ghosts, fills>>

(* Each file is a transaction of its own. *)
NextStyle(p) ==
    /\ At(p, "next")
    /\ \E s \in slot[p].todo :
         /\ p = Importer => saw[s] = "empty" /\ s \notin BadImages
         /\ slot' = [slot EXCEPT ![p].pc = "put", ![p].todo = @ \ {s}, ![p].target = s]
    /\ NoFault /\ UNCHANGED <<store, rows, run, ghosts, fills>>

(* upload_bytes, under a new key. *)
Put(p) ==
    /\ At(p, "put")
    /\ \E k \in Free :
         /\ store' = store \cup {k}
         /\ slot' = [slot EXCEPT ![p].pc = "bind", ![p].key = k]
         /\ unsure' = unsure \ {k} /\ stray' = stray \ {k}
    /\ NoFault /\ UNCHANGED <<rows, run, fills>>

(* It fails, and may have stored the object all the same.  An attachment is
   deleted again; the main image of a style is not. *)
PutFails(p) ==
    /\ At(p, "put") /\ Fault
    /\ \E k \in Free, stored \in BOOLEAN :
         /\ store' = IF stored THEN store \cup {k} ELSE store
         /\ unsure' = unsure \ {k}
         /\ IF slot[p].target \in Styles
            THEN Done(p, "failed") /\ stray' = stray \cup {k}
            ELSE /\ slot' = [slot EXCEPT ![p].pc = "undo", ![p].key = k]
                 /\ stray' = stray \ {k} /\ UNCHANGED res
    /\ UNCHANGED <<rows, saw, note, fills>>

(* What replace finds under the lock: a style that was deleted meanwhile, or,
   for the importer, one that has got an image. *)
Refused(p) ==
    LET row == style[slot[p].target]
    IN  row.deleted \/ (p = Importer /\ row.key # None)

Names(p) == style' = [style EXCEPT ![slot[p].target].key = slot[p].key]
CountFill(p) ==
    filled' = [s \in Styles |-> IF p = Importer /\ s = slot[p].target /\ filled[s] < 2
                                THEN filled[s] + 1 ELSE filled[s]]

(* Mutant: the new object of a refused upload is forgotten. *)
KeptSilently(p) ==
    /\ At(p, "bind") /\ slot[p].target \in Styles /\ Refused(p)
    /\ Done(p, IF style[slot[p].target].deleted THEN "failed" ELSE "kept")
    /\ NoFault /\ UNCHANGED <<store, rows, saw, note, ghosts, fills>>

(* Rolled back, and the new object is deleted. *)
Kept(p) ==
    /\ At(p, "bind") /\ slot[p].target \in Styles /\ Refused(p)
    /\ slot' = [slot EXCEPT ![p].pc = "undo",
                            ![p].result = IF style[slot[p].target].deleted THEN "failed" ELSE "kept"]
    /\ NoFault /\ UNCHANGED <<store, rows, run, ghosts, fills>>

(* The row and its audit commit; an image that was replaced goes after that. *)
Replace(p) ==
    /\ At(p, "bind") /\ slot[p].target \in Styles /\ ~Refused(p)
    /\ Names(p) /\ CountFill(p)
    /\ IF style[slot[p].target].key = None
       THEN Done(p, "set")
       ELSE /\ slot' = [slot EXCEPT ![p].pc = "drop", ![p].key = None,
                                    ![p].old = style[slot[p].target].key]
            /\ UNCHANGED res
    /\ NoFault
    /\ UNCHANGED <<store, att, doc, saw, note, ghosts, forgotten>>

(* The commit goes through and its answer is lost: the exception is taken for
   a failed commit.  The image that it replaced is left where it is. *)
ReplaceUnanswered(p) ==
    /\ At(p, "bind") /\ slot[p].target \in Styles /\ ~Refused(p) /\ Fault
    /\ Names(p) /\ CountFill(p)
    /\ unsure' = unsure \cup {slot[p].key}
    /\ stray' = stray \cup ({style[slot[p].target].key} \ {None})
    /\ forgotten' = IF p = Importer THEN forgotten \cup {slot[p].target} ELSE forgotten
    /\ slot' = [slot EXCEPT ![p].pc = "undo", ![p].result = "failed"]
    /\ UNCHANGED <<store, att, doc, run>>

(* An error before or at the commit. *)
BindFails(p) ==
    /\ At(p, "bind") /\ Fault
    /\ slot' = [slot EXCEPT ![p].pc = "undo", ![p].result = "failed"]
    /\ UNCHANGED <<store, rows, run, ghosts, fills>>

-----------------------------------------------------------------------------
(* Compensation and cleaning up, which are tried once. *)

Undo(p) ==
    /\ At(p, "undo")
    /\ store' = store \ {slot[p].key}
    /\ Done(p, slot[p].result)
    /\ NoFault /\ UNCHANGED <<rows, saw, note, ghosts, fills>>

Drop(p) ==
    /\ At(p, "drop")
    /\ store' = store \ {slot[p].old}
    /\ Done(p, "set")
    /\ NoFault /\ UNCHANGED <<rows, saw, note, ghosts, fills>>

(* _delete_quietly: only logged. *)
DeleteFails(p) ==
    /\ slot[p].pc \in {"undo", "drop"} /\ Fault
    /\ stray' = stray \cup ({slot[p].key, slot[p].old} \ (Named \cup {None}))
    /\ Done(p, IF At(p, "undo") THEN slot[p].result ELSE "set")
    /\ UNCHANGED <<store, rows, saw, note, unsure, fills>>

-----------------------------------------------------------------------------
(* Removal of a main image. *)

(* Mutant: the object is deleted before the commit. *)
BeginRemoveDeleting(u) ==
    /\ At(u, "idle")
    /\ \E s \in Styles :
         /\ ~style[s].deleted /\ style[s].key # None
         /\ slot' = [slot EXCEPT ![u].pc = "seen", ![u].target = s, ![u].old = style[s].key]
         /\ store' = store \ {style[s].key}
    /\ NoFault /\ UNCHANGED <<rows, run, ghosts, fills>>

(* The row is read without a lock. *)
BeginRemove(u) ==
    /\ At(u, "idle")
    /\ \E s \in Styles :
         /\ ~style[s].deleted /\ style[s].key # None
         /\ slot' = [slot EXCEPT ![u].pc = "seen", ![u].target = s, ![u].old = style[s].key]
    /\ NoFault /\ UNCHANGED <<store, rows, run, ghosts, fills>>

Clears(u) == style' = [style EXCEPT ![slot[u].target].key = None]

(* It is cleared whatever it names by now. *)
Remove(u) ==
    /\ At(u, "seen")
    /\ Clears(u) /\ Go(u, "drop")
    /\ stray' = stray \cup ({style[slot[u].target].key} \ {slot[u].old, None})
    /\ NoFault /\ UNCHANGED <<store, att, doc, run, unsure, fills>>

(* The commit is taken for a failed one, and the object stays.  (If it does
   fail, nothing has happened: Die.) *)
RemoveUnanswered(u) ==
    /\ At(u, "seen") /\ Fault
    /\ Clears(u) /\ slot' = [slot EXCEPT ![u] = Idle]
    /\ stray' = stray \cup ({style[slot[u].target].key} \ {None})
    /\ UNCHANGED <<store, att, doc, run, unsure, fills>>

(* soft_delete_style and restore_style; both leave the image alone. *)
DeleteOrRestore(s) ==
    /\ style' = [style EXCEPT ![s].deleted = ~@]
    /\ NoFault /\ UNCHANGED <<store, att, doc, slot, run, ghosts, fills>>

-----------------------------------------------------------------------------
(* Attachments. *)

(* The checks that come before the upload. *)
BeginAttach(u) ==
    /\ At(u, "idle")
    /\ \E d \in Docs :
         /\ d \in Payments => doc[d] = None
         /\ slot' = [slot EXCEPT ![u].pc = "put", ![u].target = d]
    /\ NoFault /\ UNCHANGED <<store, rows, run, ghosts, fills>>

(* A proof of payment is written where the document is still unpaid; a payment
   code over the one before, whose attachment stays for the timeline. *)
Attachable(u) == slot[u].target \in Payments => doc[slot[u].target] = None

Attaches(u) ==
    /\ att' = att \cup {slot[u].key}
    /\ doc' = [doc EXCEPT ![slot[u].target] = slot[u].key]

Attach(u) ==
    /\ At(u, "bind") /\ slot[u].target \in Docs /\ Attachable(u)
    /\ Attaches(u) /\ slot' = [slot EXCEPT ![u] = Idle]
    /\ NoFault /\ UNCHANGED <<store, style, run, ghosts, fills>>

AttachRefused(u) ==
    /\ At(u, "bind") /\ slot[u].target \in Docs /\ ~Attachable(u)
    /\ Go(u, "undo")
    /\ NoFault /\ UNCHANGED <<store, rows, run, ghosts, fills>>

AttachUnanswered(u) ==
    /\ At(u, "bind") /\ slot[u].target \in Docs /\ Attachable(u) /\ Fault
    /\ Attaches(u) /\ Go(u, "undo")
    /\ unsure' = unsure \cup {slot[u].key}
    /\ UNCHANGED <<store, style, run, stray, fills>>

(* remove_payment_qr. *)
RemoveCode(d) ==
    /\ doc' = [doc EXCEPT ![d] = None]
    /\ NoFault /\ UNCHANGED <<store, style, att, slot, run, ghosts, fills>>

-----------------------------------------------------------------------------
(* The pictures of the import file, after the rows of a run. *)

(* Results that a later run of the batch does not touch again. *)
Final == {"set", "kept", "invalid"}

(* Mutant: results of earlier runs are not looked at. *)
BeginRunAnew ==
    /\ At(Importer, "idle")
    /\ \E S \in SUBSET InFile :
         /\ S # {}
         /\ slot' = [slot EXCEPT ![Importer] = [Idle EXCEPT !.pc = "load", !.todo = S]]
    /\ NoFault /\ UNCHANGED <<store, rows, run, ghosts, fills>>

(* The rows of this run, and those whose picture failed or found no style. *)
BeginRun ==
    /\ At(Importer, "idle")
    /\ \E S \in SUBSET InFile :
         LET again == {s \in Styles : note[s] \in {"failed", "skipped"}}
             picks == {s \in S \cup again : note[s] \notin Final}
         IN  /\ picks # {}
             /\ slot' = [slot EXCEPT ![Importer] = [Idle EXCEPT !.pc = "load", !.todo = picks]]
    /\ NoFault /\ UNCHANGED <<store, rows, run, ghosts, fills>>

(* Every style to fill is looked at before the first is written. *)
LoadStyles ==
    /\ At(Importer, "load")
    /\ saw' = [s \in Styles |-> IF s \notin slot[Importer].todo THEN "unread"
                                ELSE IF style[s].deleted THEN "deleted"
                                ELSE IF style[s].key # None THEN "has" ELSE "empty"]
    /\ Go(Importer, "next")
    /\ NoFault /\ UNCHANGED <<store, rows, res, note, ghosts, fills>>

FileUnreadable ==
    /\ At(Importer, "load") /\ Fault
    /\ res' = [s \in Styles |-> IF s \in slot[Importer].todo THEN "failed" ELSE "none"]
    /\ slot' = [slot EXCEPT ![Importer].pc = "next", ![Importer].todo = {}]
    /\ UNCHANGED <<store, rows, saw, note, ghosts, fills>>

(* No upload for a style that was deleted or had an image, or for a picture of
   no use. *)
PassOver ==
    /\ At(Importer, "next")
    /\ \E s \in slot[Importer].todo :
         /\ saw[s] # "empty" \/ s \in BadImages
         /\ slot' = [slot EXCEPT ![Importer].todo = @ \ {s}]
         /\ res' = [res EXCEPT ![s] = IF saw[s] = "deleted" THEN "skipped"
                                      ELSE IF saw[s] = "has" THEN "kept" ELSE "invalid"]
    /\ NoFault /\ UNCHANGED <<store, rows, saw, note, ghosts, fills>>

(* An error between two styles ends the run, with the results so far. *)
Interrupt ==
    /\ At(Importer, "next") /\ slot[Importer].todo # {} /\ Fault
    /\ slot' = [slot EXCEPT ![Importer].todo = {}]
    /\ UNCHANGED <<store, rows, run, ghosts, fills>>

ForgetRun == saw' = [s \in Styles |-> "unread"] /\ res' = [s \in Styles |-> "none"]

EndRun ==
    /\ At(Importer, "next") /\ slot[Importer].todo = {}
    /\ slot' = [slot EXCEPT ![Importer] = Idle]
    /\ ForgetRun

WriteNotes ==
    /\ EndRun
    /\ note' = [s \in Styles |-> IF res[s] = "none" THEN note[s] ELSE res[s]]
    /\ NoFault /\ UNCHANGED <<store, rows, ghosts, fills>>

Forgets(S) == forgotten' = forgotten \cup S

NotesLost ==
    /\ EndRun /\ Fault
    /\ Forgets({s \in Styles : res[s] = "set"})
    /\ UNCHANGED <<store, rows, note, ghosts, filled>>

-----------------------------------------------------------------------------
(* The process of a slot dies: nothing is compensated, and the importer leaves
   no notes. *)
Die(p) ==
    /\ ~At(p, "idle") /\ Fault
    /\ slot' = [slot EXCEPT ![p] = Idle]
    /\ stray' = stray \cup ({slot[p].key, slot[p].old} \ (Named \cup {None}))
    /\ IF p = Importer
       THEN ForgetRun /\ Forgets({s \in Styles : res[s] = "set"})
       ELSE UNCHANGED <<saw, res, forgotten>>
    /\ UNCHANGED <<store, rows, note, unsure, filled>>

Request(u) ==
    \/ BeginUpload(u) \/ BeginRemove(u) \/ Remove(u) \/ RemoveUnanswered(u)
    \/ BeginAttach(u) \/ Attach(u) \/ AttachRefused(u) \/ AttachUnanswered(u)

Entry(p) ==
    \/ NextStyle(p) \/ Put(p) \/ PutFails(p)
    \/ Kept(p) \/ Replace(p) \/ ReplaceUnanswered(p) \/ BindFails(p)
    \/ Undo(p) \/ Drop(p) \/ DeleteFails(p) \/ Die(p)

Import ==
    \/ BeginRun \/ LoadStyles \/ FileUnreadable \/ PassOver \/ Interrupt
    \/ WriteNotes \/ NotesLost

Next ==
    \/ \E u \in Users : Request(u)
    \/ \E p \in Slots : Entry(p)
    \/ \E s \in Styles : DeleteOrRestore(s)
    \/ \E d \in Orders : RemoveCode(d)
    \/ Import

Spec == Init /\ [][Next]_vars

-----------------------------------------------------------------------------
(* Properties. *)

(* A row that is there names an object that is there: compensation and cleaning
   never take an object that some row has come to name.  The one exception is
   a commit that went through unanswered, whose object is deleted as if it had
   failed. *)
NoDeadLink == Named \ (unsure \cup {None}) \subseteq store

(* An object that no row names is in the hands of a request, which will delete
   or bind it, or was left behind by a fault or by a removal that cleared an
   image it had not read. *)
NoStrayObject == store \subseteq Named \cup InHand \cup stray

(* However often the batch is run again, it gives a style an image once; what a
   user has removed since stays removed.  Only a run whose notes are lost may
   do it again. *)
FilledOnce == \A s \in Styles : filled[s] > 1 => s \in forgotten

=============================================================================
