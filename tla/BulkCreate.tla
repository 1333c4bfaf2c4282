------------------------------ MODULE BulkCreate ------------------------------
(***************************************************************************)
(* Bulk creation of negotiations (negotiation/bulk_service.py) next to the *)
(* claims that allow it.  The client keys every row.  A request carries    *)
(* rows one after the other, each in a transaction of its own, and answers *)
(* for all of them at its end; it is lost or sent again, also with an      *)
(* edited row, while an earlier one still runs.  A row is looked up by its *)
(* key, the claim is read without a lock, and the unique index on the key  *)
(* decides between two requests.                                           *)
(***************************************************************************)
EXTENDS Naturals, Sequences

CONSTANTS
    Rows,       \* rows of one client, each with its key
    Bodies,     \* what a row may ask for (its request hash)
    Req,        \* slots of requests
    NoHolder,   \* no request
    MaxBulk,    \* bound on the rows of a request (50 in the code)
    MaxLost     \* bound on the requests that are lost

ASSUME KeyAssumption == NoHolder \notin Req
ASSUME BulkBounds == MaxBulk \in Nat \ {0} /\ MaxLost \in Nat

VARIABLES
    enabled,    \* the tenant demands claims
    claimed,    \* rows whose blogger the client has a claim on
    nego,       \* the bodies of the negotiations created for a row
    taken,      \* rows whose negotiation now belongs to another PR
    bulk,       \* the requests
    keyX,       \* the request that has inserted the key of a row
    lost,       \* requests lost so far
    had         \* ghost: the row at hand was allowed at some time of its turn

bulkVars == <<enabled, claimed, nego, taken, bulk, keyX, lost, had>>
gate == <<enabled, claimed>>
world == <<nego, taken>>

Results == {"success", "conflict", "skipped", "refused"}
KeyedRow == Rows \X Bodies
BulkState == [items : Seq(KeyedRow), results : SUBSET (KeyedRow \X Results),
              pc : {"idle", "look", "allow", "insert", "commit", "replay", "answer"}]
NoReq == [items |-> <<>>, results |-> {}, pc |-> "idle"]

BulkTypeOK ==
    /\ enabled \in BOOLEAN /\ claimed \subseteq Rows
    /\ nego \in [Rows -> Seq(Bodies)] /\ taken \subseteq Rows
    /\ bulk \in [Req -> BulkState]
    /\ keyX \in [Rows -> Req \cup {NoHolder}]
    /\ lost \in Nat /\ had \in [Req -> BOOLEAN]

BulkInit ==
    /\ enabled = FALSE /\ claimed = {}
    /\ nego = [r \in Rows |-> <<>>] /\ taken = {}
    /\ bulk = [q \in Req |-> NoReq]
    /\ keyX = [r \in Rows |-> NoHolder]
    /\ lost = 0 /\ had = [q \in Req |-> FALSE]

-----------------------------------------------------------------------------
(* Around the requests. *)

EnableClaims == enabled' = TRUE /\ UNCHANGED claimed
Claim(r) == claimed' = claimed \cup {r} /\ UNCHANGED enabled
RevokeClaim(r) == claimed' = claimed \ {r} /\ UNCHANGED enabled

(* reassign: another PR gets the negotiation, and its creator sees it no more. *)
ReassignRow(r) ==
    /\ nego[r] # <<>> /\ taken' = taken \cup {r}
    /\ UNCHANGED <<gate, nego, bulk, keyX, lost>>

(* row_contact_allowed, for a PR who is no manager. *)
Allowed(r) == ~enabled \/ r \in claimed

-----------------------------------------------------------------------------
(* The rows of a request. *)

Row(q) == Head(bulk[q].items)[1]
Body(q) == Head(bulk[q].items)[2]
Runs(q) == bulk[q].pc # "idle"
Go(q, pc) == bulk' = [bulk EXCEPT ![q].pc = pc]

Send(q) ==
    /\ ~Runs(q)
    /\ \E n \in 1 .. MaxBulk : \E items \in [1 .. n -> KeyedRow] :
         bulk' = [bulk EXCEPT ![q] = [items |-> items, results |-> {}, pc |-> "look"]]
    /\ UNCHANGED <<gate, world, keyX, lost>>

(* The result of a row, and the next one; after the last one the answer. *)
Result(q, a) ==
    bulk' = [bulk EXCEPT ![q] =
              [items |-> Tail(@.items), results |-> @.results \cup {<<Head(@.items), a>>},
               pc |-> IF Len(@.items) > 1 THEN "look" ELSE "answer"]]

Answer(q) ==
    /\ bulk[q].pc = "answer"
    /\ bulk' = [bulk EXCEPT ![q] = NoReq]
    /\ UNCHANGED <<gate, world, keyX, lost>>

(* _create: _existing by the key. *)
Look(q) ==
    /\ bulk[q].pc = "look"
    /\ Go(q, IF nego[Row(q)] = <<>> THEN "allow" ELSE "replay")
    /\ UNCHANGED <<gate, world, keyX, lost>>

(* Mutant: the access is checked for the first row of a request only. *)
AllowFirst(q) ==
    /\ bulk[q].pc = "allow"
    /\ IF Allowed(Row(q)) \/ bulk[q].results # {}
       THEN Go(q, "insert")
       ELSE Result(q, "refused")
    /\ UNCHANGED <<gate, world, keyX, lost>>

(* ensure_new_cooperation_allowed, and the other checks of create. *)
Allow(q) ==
    /\ bulk[q].pc = "allow"
    /\ IF Allowed(Row(q))
       THEN Go(q, "insert")
       ELSE Result(q, "refused")
    /\ UNCHANGED <<gate, world, keyX, lost>>

(* INSERT INTO negotiation: waits for another insert of the key, and fails if
   that one committed; then the row is rolled back and found by its key. *)
Insert(q) ==
    /\ bulk[q].pc = "insert" /\ keyX[Row(q)] = NoHolder
    /\ IF nego[Row(q)] = <<>>
       THEN keyX' = [keyX EXCEPT ![Row(q)] = q] /\ Go(q, "commit")
       ELSE Go(q, "replay") /\ UNCHANGED keyX
    /\ UNCHANGED <<gate, world, lost>>

FreeKey(q) == keyX' = [r \in Rows |-> IF keyX[r] = q THEN NoHolder ELSE keyX[r]]

(* The commit of a row; its result reads the negotiation back. *)
CommitRow(q) ==
    /\ bulk[q].pc = "commit"
    /\ nego' = [nego EXCEPT ![Row(q)] = Append(@, Body(q))]
    /\ Go(q, "replay") /\ FreeKey(q)
    /\ UNCHANGED <<gate, taken, lost>>

(* Mutant: the request hash is not compared. *)
ReplayAnyBody(q) ==
    /\ bulk[q].pc = "replay"
    /\ Result(q, IF Row(q) \in taken THEN "skipped" ELSE "success")
    /\ UNCHANGED <<gate, world, keyX, lost>>

(* _replay: the PR must still see the negotiation, and have asked for it. *)
Replay(q) ==
    /\ bulk[q].pc = "replay"
    /\ Result(q, IF Row(q) \in taken THEN "skipped"
                 ELSE IF Head(nego[Row(q)]) = Body(q) THEN "success" ELSE "conflict")
    /\ UNCHANGED <<gate, world, keyX, lost>>

(* The connection or the process goes: the row at hand is rolled back, those
   before it stay, and no answer is sent. *)
Lose(q) ==
    /\ Runs(q) /\ lost < MaxLost
    /\ lost' = lost + 1
    /\ bulk' = [bulk EXCEPT ![q] = NoReq] /\ FreeKey(q)
    /\ UNCHANGED <<gate, world>>

Step(q) == Look(q) \/ Allow(q) \/ Insert(q) \/ CommitRow(q) \/ Replay(q) \/ Answer(q)

MayCreate(q) == bulk[q].items # <<>> /\ Allowed(Row(q))
SameRow(q) == bulk'[q].items = bulk[q].items
Track == had' = [q \in Req |-> MayCreate(q)' \/ (SameRow(q) /\ had[q])]

BulkNext ==
    /\ \/ /\ EnableClaims \/ \E r \in Rows : Claim(r) \/ RevokeClaim(r)
          /\ UNCHANGED <<world, bulk, keyX, lost>>
       \/ \E r \in Rows : ReassignRow(r)
       \/ \E q \in Req : Send(q) \/ Step(q) \/ Lose(q)
    /\ Track

BulkSpec == BulkInit /\ [][BulkNext]_bulkVars

-----------------------------------------------------------------------------
(* Properties. *)

(* However often a row is sent, it is one negotiation, and what a request has to
   answer fits it: success only for what was asked, conflict only for another
   body. *)
RowIsCreatedOnce ==
    /\ \A r \in Rows : Len(nego[r]) <= 1
    /\ \A q \in Req, r \in Rows, x \in Bodies :
         /\ <<<<r, x>>, "success">> \in bulk[q].results => nego[r] = <<x>>
         /\ <<<<r, x>>, "conflict">> \in bulk[q].results => nego[r] # <<>> /\ nego[r] # <<x>>

(* The claim is read without a lock, and may be revoked or transferred before
   the negotiation is there; but for a row that was not allowed at any time of
   its turn nothing is created. *)
CooperationHadClaim ==
    [][\A r \in Rows : nego'[r] # nego[r] =>
         \E q \in Req : bulk[q].pc = "commit" /\ Row(q) = r /\ had[q]]_bulkVars

=============================================================================
