-------------------------------- MODULE Claims --------------------------------
(***************************************************************************)
(* Who handles which blogger (modules/blogger, claim files): PRs claim     *)
(* bloggers, managers assign, revoke, transfer and switch the work WeChat. *)
(* A batch of claims and a transfer are transactions of several statements *)
(*   - INSERT ... ON CONFLICT DO NOTHING waits for a transaction that has  *)
(*     written the same claim, but not for one that only locks it;         *)
(*   - a claim that is inserted (others wait for it from then on) takes    *)
(*     its blogger FOR KEY SHARE, a self claim takes the blogger FOR       *)
(*     UPDATE before it inserts, and the two exclude each other;           *)
(*   - a switch and a transfer hold the claims they touch FOR UPDATE.      *)
(* Transactions of a single statement are one step: they wait, but nobody  *)
(* can wait for them while they do.                                        *)
(***************************************************************************)
EXTENDS Integers, Sequences, FiniteSets

CONSTANTS
    Bloggers, PRs,
    Wechats,    \* the tenant's work WeChat accounts
    Tx,         \* slots of claim transactions
    Nobody,     \* nobody
    MaxItems    \* bound on the items of a batch (100 in the code)

ASSUME TxAssumption == Nobody \notin Tx
ASSUME BatchAssumption == MaxItems \in Nat \ {0}
ASSUME WechatAssumption == {"absent", "pending"} \cap Wechats = {}

VARIABLES
    known,      \* the bloggers of the tenant
    claims,     \* the blogger_claim rows: the work WeChat of each pair
    logged,     \* audit log: claims minus revocations of each pair
    tx,         \* the transactions
    rowX,       \* who holds a claim row FOR UPDATE
    blogX, blogS    \* who holds a blogger FOR UPDATE, FOR KEY SHARE

data == <<known, claims, logged>>
locks == <<rowX, blogX, blogS>>
claimsVars == <<data, tx, locks>>

Pairs == Bloggers \X PRs
Values == Wechats \cup {"absent", "pending"}

(* A transaction as it starts.  w: what it has written; added, removed: what it
   has audited. *)
Started(op, pc, todo, to, work) ==
    [op |-> op, pc |-> pc, todo |-> todo, to |-> to, work |-> work,
     w |-> <<>>, added |-> {}, removed |-> {}]
NoTx == Started("none", "idle", <<>>, Nobody, "absent")

TxState ==
    [op : {"none", "assign", "self", "transfer"},
     pc : {"idle", "lock", "add", "key", "switch", "revoke", "commit"},
     todo : Seq(Pairs), to : PRs \cup {Nobody}, work : Values,
     w : UNION {[S -> Values] : S \in SUBSET Pairs},
     added : SUBSET Pairs, removed : SUBSET Pairs]

ClaimsTypeOK ==
    /\ known \subseteq Bloggers
    /\ claims \in [Pairs -> Values] /\ logged \in [Pairs -> Int]
    /\ tx \in [Tx -> TxState]
    /\ rowX \in [Pairs -> Tx \cup {Nobody}]
    /\ blogX \in [Bloggers -> Tx \cup {Nobody}]
    /\ blogS \in [Bloggers -> SUBSET Tx]

ClaimsInit ==
    /\ known = {}
    /\ claims = [p \in Pairs |-> "absent"] /\ logged = [p \in Pairs |-> 0]
    /\ tx = [t \in Tx |-> NoTx]
    /\ rowX = [p \in Pairs |-> Nobody]
    /\ blogX = [b \in Bloggers |-> Nobody] /\ blogS = [b \in Bloggers |-> {}]

-----------------------------------------------------------------------------
(* Transactions of one statement. *)

(* A blogger is created; a PR's own is claimed in the same transaction, without a
   work WeChat if the tenant has not switched the rule on, or an old import has
   none. *)
CreateBlogger(b) ==
    /\ b \notin known
    /\ known' = known \cup {b}
    /\ \/ UNCHANGED <<claims, logged>>
       \/ \E pr \in PRs, w \in Values \ {"absent"} :
            /\ claims' = [claims EXCEPT ![<<b, pr>>] = w]
            /\ logged' = [logged EXCEPT ![<<b, pr>>] = @ + 1]
    /\ UNCHANGED <<tx, locks>>

Revoke(p) ==
    /\ claims[p] # "absent" /\ rowX[p] = Nobody
    /\ claims' = [claims EXCEPT ![p] = "absent"]
    /\ logged' = [logged EXCEPT ![p] = @ - 1]
    /\ UNCHANGED <<known, tx, locks>>

SwitchWorkWechat(p) ==
    /\ claims[p] # "absent" /\ rowX[p] = Nobody
    /\ \E w \in Wechats : claims' = [claims EXCEPT ![p] = w]
    /\ UNCHANGED <<known, logged, tx, locks>>

-----------------------------------------------------------------------------
(* Transactions of several. *)

View(t, p) == IF p \in DOMAIN tx[t].w THEN tx[t].w[p] ELSE claims[p]
WrittenByOther(t, p) == \E u \in Tx \ {t} : p \in DOMAIN tx[u].w

(* The claim a transaction is at, and the one it writes there. *)
Item(t) == Head(tx[t].todo)
Target(t) == IF tx[t].op = "transfer" THEN <<Item(t)[1], tx[t].to>> ELSE Item(t)

Written(t, p, v, pc) ==
    [tx[t] EXCEPT !.pc = pc, !.w = [q \in DOMAIN @ \cup {p} |-> IF q = p THEN v ELSE @[q]]]

(* The transaction after its item: the next one, or the commit. *)
After(t, r) ==
    IF r.op = "transfer" THEN [r EXCEPT !.pc = "switch"]
    ELSE IF Len(r.todo) > 1
    THEN [r EXCEPT !.todo = Tail(@), !.pc = IF r.op = "self" THEN "lock" ELSE "add"]
    ELSE [r EXCEPT !.pc = "commit"]

Advance(t, r) == tx' = [tx EXCEPT ![t] = After(t, r)]

Starts(t, op, pc, todo, to, work) ==
    tx' = [tx EXCEPT ![t] = Started(op, pc, todo, to, work)]

BeginClaims(t) ==
    /\ tx[t].pc = "idle"
    /\ \E w \in Wechats :
         \/ \E n \in 1 .. MaxItems : \E todo \in [1 .. n -> known \X PRs] :
              Starts(t, "assign", "add", todo, Nobody, w)
         \/ \E n \in 1 .. MaxItems, pr \in PRs : \E todo \in [1 .. n -> known \X {pr}] :
              Starts(t, "self", "lock", todo, Nobody, w)
         \/ \E p \in known \X PRs : \E to \in PRs \ {p[2]} :
              Starts(t, "transfer", "lock", <<p>>, to, w)
    /\ UNCHANGED <<data, locks>>

Unlock(t) ==
    /\ rowX' = [p \in Pairs |-> IF rowX[p] = t THEN Nobody ELSE rowX[p]]
    /\ blogX' = [b \in Bloggers |-> IF blogX[b] = t THEN Nobody ELSE blogX[b]]
    /\ blogS' = [b \in Bloggers |-> blogS[b] \ {t}]

Rollback(t) ==
    /\ tx' = [tx EXCEPT ![t] = NoTx]
    /\ Unlock(t)
    /\ UNCHANGED data

(* self_claim locks the blogger; a claim that is there is answered as such, and
   the WeChat given may be wrong. *)
LockBlogger(t) ==
    LET b == Item(t)[1] IN
    /\ tx[t].op = "self" /\ tx[t].pc = "lock"
    /\ blogX[b] \in {Nobody, t} /\ blogS[b] \subseteq {t}
    /\ blogX' = [blogX EXCEPT ![b] = t]
    /\ \/ Advance(t, tx[t])
       \/ /\ View(t, Item(t)) = "absent"
          /\ tx' = [tx EXCEPT ![t].pc = "add"]
    /\ UNCHANGED <<data, rowX, blogS>>

(* transfer locks the claim it takes from, if it is there. *)
LockFrom(t) ==
    /\ tx[t].op = "transfer" /\ tx[t].pc = "lock"
    /\ IF claims[Item(t)] = "absent"
       THEN Rollback(t)
       ELSE /\ rowX[Item(t)] = Nobody
            /\ rowX' = [rowX EXCEPT ![Item(t)] = t]
            /\ tx' = [tx EXCEPT ![t].pc = "add"]
            /\ UNCHANGED <<data, blogX, blogS>>

(* Mutant: a claim that was there already is audited again. *)
AddAlwaysAudits(t) ==
    LET p == Target(t) IN
    /\ tx[t].pc = "add" /\ ~WrittenByOther(t, p)
    /\ IF View(t, p) # "absent"
       THEN Advance(t, [tx[t] EXCEPT !.added = @ \cup {p}])
       ELSE tx' = [tx EXCEPT ![t] =
                [Written(t, p, tx[t].work, "key") EXCEPT !.added = @ \cup {p}]]
    /\ UNCHANGED <<data, locks>>

(* add: INSERT ... ON CONFLICT DO NOTHING, audited if it inserted. *)
Add(t) ==
    LET p == Target(t) IN
    /\ tx[t].pc = "add" /\ ~WrittenByOther(t, p)
    /\ IF View(t, p) # "absent"
       THEN Advance(t, tx[t])
       ELSE tx' = [tx EXCEPT ![t] =
                [Written(t, p, tx[t].work, "key") EXCEPT !.added = @ \cup {p}]]
    /\ UNCHANGED <<data, locks>>

(* Mutant: an inserted claim locks its blogger FOR UPDATE. *)
KeyLocks(t) ==
    LET b == Item(t)[1] IN
    /\ tx[t].pc = "key" /\ blogX[b] \in {Nobody, t} /\ blogS[b] \subseteq {t}
    /\ Advance(t, tx[t])
    /\ blogX' = [blogX EXCEPT ![b] = t]
    /\ UNCHANGED <<data, rowX, blogS>>

(* The same statement, at the foreign key: the claim is written and its blogger
   must not be locked. *)
ShareBlogger(t) ==
    LET b == Item(t)[1] IN
    /\ tx[t].pc = "key" /\ blogX[b] \in {Nobody, t}
    /\ Advance(t, tx[t])
    /\ blogS' = [blogS EXCEPT ![b] = @ \cup {t}]
    /\ UNCHANGED <<data, rowX, blogX>>

(* Mutant: a transfer to someone who has the claim leaves that claim alone. *)
SwitchOnlyNew(t) ==
    /\ tx[t].pc = "switch"
    /\ tx' = [tx EXCEPT ![t].pc = "revoke"]
    /\ UNCHANGED <<data, locks>>

(* transfer: the receiver's claim, just added or there before, is locked and
   takes the work WeChat; if it is gone by now, the transfer fails. *)
SwitchReceiver(t) ==
    LET p == Target(t) IN
    /\ tx[t].pc = "switch"
    /\ IF View(t, p) = "absent"
       THEN Rollback(t)
       ELSE /\ rowX[p] \in {Nobody, t}
            /\ rowX' = [rowX EXCEPT ![p] = t]
            /\ tx' = [tx EXCEPT ![t] = IF View(t, p) = tx[t].work
                                       THEN [tx[t] EXCEPT !.pc = "revoke"]
                                       ELSE Written(t, p, tx[t].work, "revoke")]
            /\ UNCHANGED <<data, blogX, blogS>>

RevokeGiver(t) ==
    /\ tx[t].pc = "revoke"
    /\ tx' = [tx EXCEPT ![t] =
          [Written(t, Item(t), "absent", "commit") EXCEPT !.removed = @ \cup {Item(t)}]]
    /\ UNCHANGED <<data, locks>>

Commit(t) ==
    /\ tx[t].pc = "commit"
    /\ claims' = [p \in Pairs |-> View(t, p)]
    /\ logged' = [p \in Pairs |-> logged[p] + (IF p \in tx[t].added THEN 1 ELSE 0)
                                            - (IF p \in tx[t].removed THEN 1 ELSE 0)]
    /\ tx' = [tx EXCEPT ![t] = NoTx]
    /\ Unlock(t)
    /\ UNCHANGED known

(* A check of an item fails (manager, blogger, PR, work WeChat), the process
   does, or the database ends a transaction of a circle: what the whole batch did
   is undone. *)
Fail(t) == tx[t].pc # "idle" /\ Rollback(t)

TxStep(t) ==
    \/ LockBlogger(t) \/ LockFrom(t) \/ Add(t) \/ ShareBlogger(t)
    \/ SwitchReceiver(t) \/ RevokeGiver(t) \/ Commit(t)

ClaimsNext ==
    \/ \E b \in Bloggers : CreateBlogger(b)
    \/ \E p \in Pairs : Revoke(p) \/ SwitchWorkWechat(p)
    \/ \E t \in Tx : BeginClaims(t) \/ TxStep(t) \/ Fail(t)

ClaimsSpec == ClaimsInit /\ [][ClaimsNext]_claimsVars

-----------------------------------------------------------------------------
(* Properties. *)

(* The audit log tells exactly who holds which claim: however claims, batches,
   transfers and revocations interleave and fail, each claim was logged once
   since it was last revoked. *)
AuditMatchesClaims ==
    \A p \in Pairs : logged[p] = (IF claims[p] = "absent" THEN 0 ELSE 1)

(* A transfer that commits moves the claim: the receiver holds it then, with
   the work WeChat asked for, and the giver does not, whatever was revoked,
   switched or transferred the other way meanwhile. *)
TransferKeepsClaim ==
    [][\A t \in Tx : tx[t].op = "transfer" /\ tx[t].pc = "commit" /\ claims' # claims =>
         \/ tx'[t] = tx[t]
         \/ claims'[Target(t)] = tx[t].work /\ claims'[Item(t)] = "absent"]_claimsVars

(* t waits for u: for a claim u has written, for a claim or a blogger it locks. *)
Waits(t, u) ==
    /\ t # u
    /\ \/ tx[t].pc = "add" /\ Target(t) \in DOMAIN tx[u].w
       \/ tx[t].pc = "key" /\ blogX[Item(t)[1]] = u
       \/ tx[t].pc = "switch" /\ rowX[Target(t)] = u
       \/ tx[t].pc = "lock" /\ tx[t].op = "transfer" /\ rowX[Item(t)] = u
       \/ /\ tx[t].pc = "lock" /\ tx[t].op = "self"
          /\ (blogX[Item(t)[1]] = u \/ u \in blogS[Item(t)[1]])

Crossing(t, u) ==
    /\ tx[t].op = "transfer" /\ tx[u].op = "transfer"
    /\ Target(t) = Item(u) /\ Target(u) = Item(t)

(* A self claim that has locked the blogger, and a request that has inserted the
   same claim. *)
SameClaim(t, u) ==
    /\ tx[t].op = "self" /\ tx[t].pc = "add" /\ tx[u].pc = "key"
    /\ Target(t) = Target(u)

(* A batch that keeps what an earlier item of it took. *)
Behind(t) ==
    /\ tx[t].op # "transfer"
    /\ \/ \E p \in DOMAIN tx[t].w : p # Item(t)
       \/ \E b \in Bloggers : blogX[b] = t /\ b # Item(t)[1]

(* Two requests wait for each other, and the database ends one, only if they are
   transfers of one blogger in opposite directions, or a self claim and another
   request for the very same claim, or batches that are both past an item; a
   transfer never stands still against a batch, whatever order its items have. *)
OnlyKnownCircles ==
    \A t, u \in Tx :
        Waits(t, u) /\ Waits(u, t) =>
            \/ Crossing(t, u)
            \/ SameClaim(t, u) \/ SameClaim(u, t)
            \/ Behind(t) /\ Behind(u)

=============================================================================
