# Specifications of clothinkai

clothinkai runs the influencer marketing of fashion merchants. A PR negotiates
a deal with a blogger, two levels of managers approve it, the deal becomes a
promotion, goods are shipped, the blogger publishes, finance pays the service
fee, and reports show what came of it. Data of the platforms is fetched by RPA
workers in the office and imported. The backend is FastAPI, SQLAlchemy and
PostgreSQL; Celery runs the tasks.

This directory holds TLA+ models of the parts in which concurrent requests,
tasks and machines meet, configurations that check them with TLC, and proofs
for TLAPS. Paths below are relative to `src/backend/app/` unless they start with
`rpa-worker/` or `src/`.

    tlc -config MCSettlement_fee.cfg MCSettlement         # any cfg with its module
    tlapm SettlementProofs.tla

`PROJECT.json` names, for every definition, the lines it models; for every run
its properties; for every property a mutation of the code that breaks it.

## 1. Inventory

All state is in PostgreSQL unless said otherwise. Each request is one
transaction under READ COMMITTED (`core/db.py`): a statement sees what was
committed when it started, two statements of a transaction may see different
states, and an UPDATE checks its WHERE again after it has waited for a row.
The code protects itself with conditional updates (`UPDATE ... WHERE status =
old`), row locks (`FOR UPDATE`), advisory locks and unique constraints. Nearly
every hard behaviour comes from what these do not cover.

### 1.1 Modelled

| Component | State | Operations | Talks to | Hard | Correct means |
|---|---|---|---|---|---|
| **Service fee settlement** (`modules/finance`, `modules/promotion` fulfilment and listeners) | `settlement` with its items and payment; `promotion.settlement_status`, publication, posts, quote | add item, fill amount, pay, reject, approve, resubmit; publish, edit posts, review, settle by chat, deactivate, import | events between the two modules in the transaction of the publisher, the handler of a payment swallowing its failure | stale reads before conditional updates, sums over snapshots, lock order promotion/settlement with the foreign key of the line event in between, rows from a migration | the two tables tell one story, but for a payment that was not heard; paid is final; what was paid is explained; nothing open on a deactivated promotion; only rejections meet in a deadlock |
| **Negotiation and approval** (`modules/negotiation`) | `negotiation`, its items, last submit event; the promotion it creates | create, copy, edit, submit, two reviews, save and confirm the receiver, reassign | creates the promotion; mentions, history and comments are views of it | status comes back in every round and there is no version: a decision on an old read can land on a new round | two different people decided in this round; one promotion, with the approved content |
| **Crawler tasks** (`modules/collect`, `rpa-worker`, `modules/credential`) | `crawler_task`, `cred_token`, credential status and failure counter; the worker's loop; messages in flight | schedule, poll, exchange, report, reclaim; pause, resume | HTTP with retries and timeouts; a success starts an import | lost, repeated and late requests, crashed workers, expired leases | an outcome is final and is what workers were told; failures count once; no task is lost |
| **Import batches** (`tasks/import_tasks.py`, `modules/importer`) | `import_batch`, `import_job`, the Celery queue, a session advisory lock | upload, reuse, run, retry, recover | the crawler hands it files; it asks for a summary refresh | a row is a transaction, a run can die between two, messages get lost, runs meet | "completed" means every row is in; counts are those of the rows; every batch ends |
| **Report summary tables** (`modules/report/summary_*`, `tasks/summary_tasks.py`) | three daily tables, `report_summary_coverage`, an advisory lock | hourly, drift, import and manual refresh; invalidation by rule changes | imports, links of products, metric settings | one snapshot per statement while data and rules change; coverage and calendar read before the lock; the window moves at midnight | a covered day shows the rules in force; no step back; the window catches up; history is frozen by the button, or by a task that midnight or a rule change overtook |
| **Promotion life cycle and return freight** (`modules/promotion`) | the six status columns of `promotion`, its completion mark, payment code and screenshots; `return_freight_payment`; the status of the settlement | warehouse, publish, cancel, recall, fee and payer of the return, freight submit, review, pay, resubmit, review of the post, settlement link, 7-day data, retrospective, payment code, quote, deactivation | finance, urge, the stage shown in every list | each handler looks at some of the columns; legal calls in any order, administrators skip the matrix | one sensible stage; freight belongs to its recall; money under way is never stranded; complete is earned |
| **Urge tasks** (`modules/urge`) | `urge_task`, `urge_record`, the promotion's status | urge one, urge many, daily scan, close by hand, by completion, as stale; publish, cancel, recall, deactivate close it | the promotion, through its row lock and foreign keys | an urge locks task then promotion, a publish promotion then task; stale reads; lost requests | a record for each urge and for a closing by hand; one automatic urge a day; closed stays closed; a stale task is closed in the end where the scan is on |
| **Blogger claims** (`modules/blogger` claim files) | `blogger_claim`, audit log | self claim, assign, transfer, revoke, switch work WeChat | gate on new cooperations | ON CONFLICT, FOR UPDATE and foreign-key locks in different orders, deadlocks | the log tells who holds what; a transfer moves a claim whole; only known circles of waiting |
| **Bulk creation** (`negotiation/bulk_service.py`) | negotiations with a client key | send rows, repeat, edit and repeat | claims | 1 blogger, 3 PRs, 2 transactions, batches of up to 2 | 80,967 | RegisterContract is implemented (the log tells who holds what), a transfer moves the claim to its receiver, two requests wait for each other only in the known ways |
| **Import conflicts** (`importer/conflicts.py` and its neighbours) | one object, its one pending conflict | import a row, run again, keep, overwrite, edit, delete, restore | import runs, object pages | later batches supersede or merge while a user decides on what was shown | a reported difference is lost only on a field carried along from another batch, nothing unseen is overwritten, whoever holds the object waits for nothing unless it claims the blogger |
| **Attachments and object storage** (`core/attachment.py`, `product/style_image_service.py`, finance) | objects in the bucket, rows that name them | upload one, many, from a file; replace, remove; pay with a proof; payment code | the bucket, import notes | put, commit and delete are three systems' steps; any can fail, or succeed unanswered | no row names a missing object, no object is unaccounted for, a batch gives an image once |

### 1.2 Partly modelled, inside the modules above

| Component | What of it | What is left |
|---|---|---|
| Credentials vault | failure counter, auto-disable, pause, resume (Crawler) | encryption, deletion with its tasks |
| Products | main images, deletion and restoring of styles (ObjectStorage); links are rules of ReportSummary | master data |
| Bloggers | creation (Claims), edits, deletion, restoring (ImportConflicts), as far as claims and imports meet them | accounts, works, audiences, tags |
| Platform metrics | their changes are the rule changes of ReportSummary | defaults, validation |
| Report queries and exports | the choice between summary and live rows | arithmetic over SQL |
| Line events | the lock their INSERT takes on the promotion (Urge) | the log itself, read marks, comments |
| Order adjustments | their payment code (ObjectStorage) | the rest, and the balance ledger |
| Event bus | a handler is part of the action that publishes | registration, missing handlers |
| State machine base | its tables are the guards of the actions | - |

### 1.3 Not modelled

| Component | State and operations | Why |
|---|---|---|
| WeCom messages | daily scan, sending with a limit, callbacks | what the provider guarantees about order and repetition is not in the repository |
| Sign-in and tokens | accounts, attempts, locks, tokens | outside what this project states: business documents and their feeds |
| Balance ledger | append-only entries with a running balance | one read, one insert; its race is plain without a model |
| Design pipeline | five documents in a chain, with conditional updates of the shape examined in Settlement and Negotiation | shows nothing new |
| Tenants, users, roles | who may call what; row-level security in the database | every model is of one tenant and takes the roles as sets |
| Import adapters | what a row of a source writes, beyond ImportConflicts | parsing; no protocol of its own |
| Backups and clean-up, AI advice, network diagnostics, process shell, frontend | external calls, wiring, views | keep no state the rest depends on |

Everything in this code that is hard to test is listed under "hazards" in
`PROJECT.json`, at its line, with the properties that watch it or the reason why
none does.

## 2. Plan

Order: money first, then what decides about it, then the machines that feed
the reports, then what all of them share. Done, in this order: Settlement and
its abstract contract, Crawler, ImportBatch, ReportSummary, Negotiation;
PromotionLine, Urge, Claims, BulkCreate, ImportConflicts, ObjectStorage. All
eleven are proved about. Seven abstract specifications say what a component
promises (`FeeContract`, `DealContract`, `LeaseContract`, `BatchContract`,
`SummaryContract`, `ReminderContract`, `RegisterContract`), each with a proof
that the module implements it.

What would add most from here:

1. **Crawler**: deletion of a credential (credential, then tasks) against a
   report (task, then credential), and a password that cannot be decrypted.
   **ImportBatch**: the loss of the session that holds the lock, alone.
2. **Compositions**: a claim of Claims as the gate of BulkCreate, and the row
   it creates as `Create` of Negotiation; a crawled file becomes one batch
   however often its report is repeated.
3. **Abstract specifications** for what has none: *every object has one owner*
   (ObjectStorage), *an object and what is still owed to it* (ImportConflicts).

## 3. The modules

| Module | Models | EXTENDS / uses |
|---|---|---|
| `FeeContract` | what operations and finance promise each other about one fee | - |
| `Settlement` | the two tables and the concurrent requests on them | - |
| `SettlementContract` | the view of Settlement as a FeeContract | `Settlement`, `INSTANCE FeeContract` |
| `LeaseContract` | what a queue of leased jobs promises | - |
| `Crawler` | server, workers, network, credential | - |
| `CrawlerContract` | the view of Crawler as a LeaseContract | `Crawler`, `INSTANCE LeaseContract` |
| `BatchContract` | what a batch of rows promises who waits for it | - |
| `ImportBatch` | batch, rows, queue, runs, lock | - |
| `ImportBatchContract` | the view of ImportBatch as a BatchContract | `ImportBatch`, `INSTANCE BatchContract` |
| `SummaryContract` | what tables computed ahead promise who reads them | - |
| `ReportSummary` | tables, coverage, refreshes, rule changes, lock | - |
| `ReportSummaryContract` | the view of ReportSummary as a SummaryContract | `ReportSummary`, `INSTANCE SummaryContract` |
| `DealContract` | what the review of a deal promises both sides | - |
| `Negotiation` | negotiations and the requests at work on them | - |
| `NegotiationContract` | the view of Negotiation as a DealContract | `Negotiation`, `INSTANCE DealContract` |
| `PromotionLine` | the status columns of a promotion, its freight payment, its settlement's status | - |
| `ReminderContract` | what reminders of one promotion promise | - |
| `Urge` | an urge task, its promotion, requests with their locks | - |
| `UrgeContract` | the view of Urge as a ReminderContract | `Urge`, `INSTANCE ReminderContract` |
| `RegisterContract` | what a register of claims promises | - |
| `Claims` | claims, their log, transactions with their locks | - |
| `ClaimsContract` | the view of Claims as a RegisterContract | `Claims`, `INSTANCE RegisterContract` |
| `BulkCreate` | keyed rows, the requests that carry them, claims as a set | - |
| `ImportConflicts` | an object, its pending conflict, rows and resolutions | - |
| `ObjectStorage` | bucket, rows, requests, the run of an import | - |
| `*Proofs` | theorems about the module of that name and its contract; `NegotiationProofs` also about `Claims` and `BulkCreate`, `ImportBatchProofs` also about `ImportConflicts` | those modules, `TLAPS` |
| `MC*` | model values, sequences of constants and symmetry for TLC | the module |

Definitions of `Claims`, `BulkCreate` and `ImportConflicts` carry the module's
name where they would otherwise meet those of the module they share a proof
module with (`ClaimsSpec`, `BulkNext`, ...).

Definitions marked "Mutant" are mutated forms of the one that follows; no
action uses them.

### 3.1 Settlement

`promo` and `doc` are the committed rows of one promotion and its settlement.
A handler that writes only the promotion holds its row lock from the first
statement to the commit and is one action (`Publish`, `EditPosts`,
`ReviewApprove`, ...). A handler that writes the settlement is a request slot
`req[r]` that goes through `ReadDoc` (a read that blocks nobody),
`InsertAndSum` (an item and the SUM its snapshot shows), `LockPromo`
(`BeginResubmit` locks the promotion first, as `fulfillment.py` does),
`UpdateDoc` (waits for the settlement row, then checks the WHERE once more) and
`Commit`, with the write of the promotion that the event of that operation
causes (`CommitPromo`). A payment commits whether the promotion hears of it or
not: `_mark_paid` swallows what the listener raises, and the listener tolerates
0 rows. Before the commit stands the line event, whose foreign key needs the
promotion unlocked by others (`EventRow`); a fill and an added item come to it
with the settlement row in their hands. `Conflict` is the 409 of an UPDATE that
hits no row; `Fail` a validation error, an exception, a lost worker or a
deadlock that the database ends, at any point before the commit. Writes are
invisible to others until `Commit`.

Kept apart: fee, items, total, amount paid, whether a note was given. Left out:
document numbers, daily summaries, audit rows, the proof of payment.
`LegacyBackfill` admits the rows migration 008 made.

`FeeContract` is the promise: operations and finance see each turn of a fee in
the same instant, but for `Miss`, a payment that finance knows of and operations
do not. `SettlementContract` reads the two status columns as its two variables.

### 3.2 Crawler

Server handlers lock the task row and commit once: each is one action on
`task`, `cred`, `gen`. `net` is the set of requests under way. `Poll` leases a
task under a fresh `cred_token` and its answer may be lost (`arrives`).
`Timeout` lets a worker send again (up to `MaxTries`) while the first request
may still arrive, `Lose` drops a request, `Answer` a reply after the commit,
`Crash` stops a worker. `LeaseEnds` is the clock: a lease in use ends only by a
fault, one that nobody uses ends by itself. `AdminRead` and `AdminWrite` are a
pause or resume that reads and writes the credential without the lock the
counter takes.

`LeaseContract` has no network, no server and no clock: a job is given out under
a lease nobody had before, may be taken back at any time, is started once per
lease, and ends once, under the last lease, while nobody works under it.
`CrawlerContract` reads `status` and `cred_token` of the tasks as the jobs, the
tokens under which an adapter runs as the leases at work (`Busy`), and the
answers workers got as what was told. Two tasks change at once when a poll
reclaims an expired lease and gives out a task in one transaction, so `Give`
may take jobs back.

### 3.3 ImportBatch

One batch. `Upload`, `Reuse` and `Retry` commit first and send the message
after, which can fail (`Enqueue`). `Take` tries the session advisory lock and
drops the message when it is held. `Load`, `MarkFailed`, `ProcessRow` are the
transactions of a run, a row each; `Summarize` writes the result; `Unlock` is a
step of its own, so others meet a finished batch whose lock is held. `Die` ends
a run anywhere, its lock with its session. `Recover` is the beat task, for
crawler batches (`Crawled`).

`BatchContract` has no messages, runs or locks: a batch is asked for, rows
succeed or fail while it says "processing", and its result counts all rows as
they are at that instant, or it gives up and keeps its old counts. Requests map
to `Ask`, a row to `Work`, `Summarize` to `Conclude`, whether the run counted in
memory or from `import_job`; everything about messages and locks is a stutter.

### 3.4 ReportSummary

A version number stands for the data of a day, another for the rules, and a
summary row carries the two it was computed from. `today` is the calendar:
`NextDay` is midnight, at any time between two steps, and `Window(today)` the days
the tasks cover without being asked (31 in the code). A refresh plans its days
(`Begin*`, reading calendar and coverage), tries the lock (`TryLock`, `Busy`),
reads one table per statement (`Read`), so that data and rules may change in
between, and commits rows and coverage (`Commit`). A rule change waits for the
lock and commits the change with the cleared coverage (`WaitLock`, `Invalidate`).
`late` is a ghost: the refreshes under way at midnight or at a rule change.

`SummaryContract` has no transactions, no lock and no calendar: all tables of some
days are computed in one instant, each row under the rules in force and from data
between what it was computed from before and what there is; a change of the rules
takes the coverage back in the same instant. Rows of other days may come along,
since the shop's table goes by whole weeks and months. Which days are covered is
not part of it, and the subject of `TasksFreezeOnlyLate`.

### 3.5 Negotiation

`doc[d]` is a row with its items and the snapshot of its last submit event. A
request reads it (`Begin*`), decides on what it saw (`seen`), and its
conditional UPDATE (`Hits`: the status and, for most operations, the PR, as the
code passes them) and commit are one step (`Edit`, `Submit`, `Review`, ...);
`Refuse` is the conflict or an error. The fields of a deal are one value
`content`: a version and how much of the gates is filled in.

`DealContract` has no requests: the terms of a deal are drafted, asked for,
signed by one of each side in order, and what comes of it is made once, of the
terms that were signed. `NegotiationContract` reads a status as a phase and
counts as signatures the reviews of a round that was not sent back.

### 3.6 PromotionLine

`p` is the promotion row, `freight` its return freight payment, `doc` the
status of its settlement. Every handler takes the promotion FOR UPDATE first
and commits once, so each is one action; what is free is who calls which, and
when. `Column` gives the column of the permission matrix for a stage, `CellOpen`
the cell, `FieldOpen` the fields that open by the stage before a recall, and
`star` says that an administrator, who passes every cell, is
among the callers. `Stage`, `PublishedStage` and `SettlementStage` are the rules of
`stage_calculator.py` in their order. `MaybeComplete` is the call every handler
makes that may finish a promotion. Handlers of the settlement are atomic here;
their concurrency is Settlement. A
fee paid before the system existed (`ImportSettlement`) ends the review at once,
and a payment may go unheard (`FinancePay`), as in Settlement.

### 3.7 Urge

`promo` and `task` are committed rows, `req[r].w` is what a request has written
and not committed. `promoX`, `promoS` and `taskX` are the row locks: a handler
of the promotion holds it FOR UPDATE, the INSERT of a task, record or event
holds it FOR KEY SHARE through its foreign key. An urge goes `EnsureTask`
(ON CONFLICT DO NOTHING), `Bump` (a conditional UPDATE that also reopens what
was completed), `Record`; a closing `CloseTask`, `CloseEvent`; the end of a
promotion `LockPromotion`, `CloseByPromotion`. `Victim` is the deadlock
PostgreSQL resolves, `Answer` what the handler makes of it, `Lose` a lost
worker. `records` counts the rows of `urge_record`: one for each urge, and one
that a closing by hand inserts. `SwitchScan` is the setting `auto_scan_enabled`,
without which no scan begins.

`ReminderContract` has no locks and no requests: urges by hand or by the scan,
closings, and the end of a promotion, which puts an open task away in the same
instant. `UrgeContract` reads the committed rows as the promotion's line and one
slip. A deactivation is `Withdraw`, which leaves the task to the daily scan.

### 3.8 Claims and BulkCreate

In `Claims` a transaction of several statements works through `todo`: `Add`
(ON CONFLICT DO NOTHING waits for a writer of that claim, then finds it or
inserts) and, where it inserted, `ShareBlogger` (the foreign key, which a self
claim's FOR UPDATE blocks); for a transfer `LockFrom`, `Add`, `ShareBlogger`,
`SwitchReceiver`, `RevokeGiver`.
`Commit` publishes `w` and the log. Transactions of one statement are one step.
That the database ends one of a circle is one of the cases of `Fail`; which
circles there can be is said by `OnlyKnownCircles`.

`RegisterContract` has no transactions: claims are entered together, each where
there is none, moved from one holder to another, marked or removed, and the log
changes in the same instant, so that it tells who holds what. The commit of a
batch maps to `Claim`, that of a transfer to `Move`, statements to `Open`,
`Remove` and `Mark`, and all a transaction does before its commit to a stutter.
What the contract cannot see is what a request asked for: a transfer that loses
the receiver's claim looks like a removal, which is why `TransferKeepsClaim` is
checked beside it.

In `BulkCreate` a request looks each row up by its key (`Look`), checks the
claim without a lock (`Allow`), inserts under the unique index (`Insert`, which
waits for another insert of that key) and commits the row; who finds the key
taken answers with what is there (`Replay`). `Lose` ends a request anywhere,
`Send` sends any rows again.

### 3.9 ImportConflicts

One object and its pending conflict, which an earlier batch may have left
(`Earlier`). A row finds object and conflict (`FindRow`), locks the conflict
(`LockPending`), locks and reads the object (`LockObject`), and in `WriteRow`
fills what is empty, overwrites statistics (an invalid value is dropped) and
records the rest: it inserts a conflict, merges into that of its own batch, or
supersedes an older one, carrying over what the row says nothing about. A row
whose PR claims the blogger by it has locked the object before (`ClaimObject`).
A user views a conflict, decides, and `Keep` or `Overwrite` lock the conflict,
then the object, and compare what was shown with what is there (`Stale`). `owed`
is a ghost: differences reported and not settled. `masked` marks those among them
that met a field the row's batch had only carried along; there the code keeps the
older value.

### 3.10 ObjectStorage

`store` is the bucket; `style`, `att`, `doc` are rows. A request puts its object
(`Put`), binds it in one commit (`Replace`, `Attach`), which may fail or go
through unanswered, and then deletes what it replaced (`Drop`) or compensates
(`Undo`). `Remove` clears a style it read earlier without a lock. The importer
reads styles and earlier notes, fills those without an image and writes its
notes at the end; it can be interrupted, die and be run again. Every key is
used again once nothing knows of it, so no freshness argument hides a clash.

## 4. The runs

Distinct states are for the configuration as it stands.

| Run | Instance | States | Shows |
|---|---|---|---|
| settlement | 3 requests, fees {0,2}, items of 1, payments {0,2,3}, no migrated rows | 243,950 | FeeContract is implemented, payments are explained, filled documents do not move, the deactivation gate is tight, only a rejection and a fill or an added item can wait for each other |
| crawler_lease | 2 tasks, 2 workers, threshold 2, 2 tries, 2 faults, fair | 582,888 | LeaseContract is implemented, acknowledgements are true, failures count once, and every task ends |
| import_crawler | 3 rows, 2 runs, 3 retries, 3 faults, fair | 52,157 | BatchContract is implemented, a completed batch is imported, counts are right, processing ends |
| summary_refresh | 2 days, each in the other's month, a window of the current day alone, one midnight; 1 rule change, 1 import, 1 press, 1 fault, fair | 393,888 | SummaryContract is implemented, covered days show the rules in force, a task covers history only when midnight or a rule change overtook it, the window catches up |
| negotiation_rounds | 2 negotiations, a PR, 2 managers, a boss, 2 requests, symmetric | 1,141,321 | DealContract is implemented, two levels decide, one promotion that is the deal |
| promotion_line | one promotion, 2 screenshots, quotes {0,1}, fees {0,1}, with and without an administrator | 228,176 | the stage is never abnormal, freight belongs to its recall, open money keeps the row active, complete is earned, nothing printed for the cancelled |
| urge_races | 2 requests and the scanner, 2 urges, 2 days, 1 lost request, the scan switched on and off, fair | 822,484 | ReminderContract is implemented, each record is an urge or a closing by hand, one automatic urge a day, a stale task is closed where the scan stays on |
| urge_publish | the same | violation | `PublishSurvivesUrge` fails: finding 1 |
| claims | 1 blogger, 2 PRs, 3 transactions, batches of up to 2, fair | 132,049 | RegisterContract is implemented (the log tells who holds what), a transfer moves the claim to its receiver, every request ends |
| bulk_create | 1 row with 2 bodies, 2 requests of up to 2 items, 1 lost | 148,212 | a row is one negotiation and its answer is about it; nothing is created for a row that was never allowed |
| import_conflicts | 2 compared fields and 1 of statistics, 2 values, 2 batches beside an earlier one, 1 user, 2 rows, 2 conflicts, 1 edit, symmetric | 2,975,564 | a difference is lost only on a carried field, nothing unseen is overwritten, only rows that claim the blogger hold it and wait |
| object_storage | 1 style, 1 payment, 1 order, 3 keys, 2 requests, the importer, 1 fault, symmetric | 1,332,446 | no dead link, no stray object, a batch gives an image once |

**Bounds.** Each is a constant, named in the module, and appears in the guards.

- Requests: every conflict in the code is between a read and a write of two
  transactions; the third of `settlement` is there because add item, fill
  and reject/resubmit meet on one row, the third of `urge_races` because a cycle
  of waiting can have three members. `MaxExtra` stops new items
  at a sum that is already enough to make a stale total differ from the true
  one, and from every amount in `Pays`.
- `Threshold = 2` with two tasks is reached by two failures and not by one;
  `MaxTries = 2` leaves one repetition, which may overtake its original. Two
  faults are enough for a lost reply and a slow holder on the same lease, that
  is a late report of an old lease beside a new one.
- Three rows let a run stop between a failed row and an untried one, and the two
  runs overlap on what is left. Faults and retries are three each, so a retry
  can die and be retried again.
- One day in the window and one that midnight moves out of it is what the coverage
  tells apart; `Near` puts each into the month of the other, since the shop table
  is refreshed by whole weeks and months.
- `MaxEdits` and `MaxCreated` of 1: one change is what an old read can miss.
  Rounds are not bounded: a negotiation is returned and resubmitted without end.
- promotion_line has no bound besides its sets: a fee or quote is 0 or not, and
  two screenshots tell "the one paid for" from "the one shown".
- `MaxUrges = 2` lets the second urge meet the first, `MaxDay = 2` lets a scan
  of the next day meet a task of this one.
- `claims` has one blogger, whose claims can be transferred between three PRs, and
  two transactions, which is what `OnlyKnownCircles` speaks of. Two bloggers and
  two PRs (662,993 states) and three transactions on three PRs (3,942,489) also
  pass.
- Two items of one row in one request are the client that sends a row twice; two
  bodies are the edited repeat.
- Two conflicts are one superseded by another, or by a later batch the one that an
  earlier batch has left; fields are the compared one in the row, the one not in
  the row, and the one that is overwritten. `Sheets` holds the rows that give one
  field and those that give all that are compared. With the earlier conflict, two
  rows are enough for one that carries a field along and one that meets it:
  `NoDifferenceLost` is violated under this very configuration. Rows that fail,
  and rows of a batch run again, count.
- Three keys are an old, a new and a racing one. One fault at a time; the
  theorems of ObjectStorage hold for any number.

The theorems of section 6 hold for all values of these constants.

**Symmetry** is used in runs without liveness only: managers and requests of
negotiation_rounds, screenshots of promotion_line, batches, values and compared
fields of import_conflicts, keys and requests of object_storage. No constant and
no initial state tells them apart.

**CHECK_DEADLOCK FALSE** is said where the modelled part really stops: the fee
closed, all tasks ended, the batch completed, all negotiations final, the
promotion done, bounds of urges, rows or faults reached. In ReportSummary beat
always goes on, and deadlock is checked. Requests that wait for each other are
not found by TLC's deadlock check, since the database may end any of them
(`Fail`, `Victim`): who can wait for whom is the subject of `OnlyRejectionsMeet`,
`OnlyKnownCircles` and `OnlyClaimsMeet`, and in `Urge` of what `Victim` does.

## 5. Fairness

- **Crawler**: `WF` on the server handling what has arrived, on leases that
  expire by the clock when unused, and on each worker process: its loop polls
  for ever, its adapter has a hard timeout, its requests time out. Faults
  (losses, crashes, slow adapters) are finitely many, and nothing more is asked.
- **ImportBatch**: `WF` on the steps of the runs and on `Recover` (beat, every 15
  minutes). Dying is a fault, of which there are finitely many. A message that
  was never sent is not fair to anybody.
- **ReportSummary**: `WF` on the tasks that beat or a queue starts, on the steps
  of a transaction once started, on waiting rule changes. Midnight is not fair. The button, imports
  and new rule changes are never required; imports and presses are finitely
  many, rule changes one per member of `Change`.
- **Urge**: `WF` on the steps of each request once started, the database's choice
  of a victim among them, and on the daily scan of beat, which is not enabled
  while the tenant has switched it off: `StaleTaskCloses` assumes that from some
  day on it stays on. Nobody has to urge, close or publish, or to switch.
- **Settlement, Negotiation, PromotionLine, Claims, BulkCreate, ImportConflicts,
  ObjectStorage**: safety only. Nobody has to do anything. That every request of
  Settlement or Claims ends would follow from no order of locks, since both have
  circles (section 7); what ends them is the database.

## 6. The proofs

Each theorem holds for every value of the constants that satisfies the named
assumptions of its module (the value for "nobody" is not in the set it stands
beside, amounts are natural numbers, an item is not 0, finite sets of
tasks, rows, days and negotiations, managers and bosses are users). None of
them bounds the number of requests, workers, runs, users, keys or faults.

| Module | Inductive invariant | Theorems |
|---|---|---|
| SettlementProofs | `TypeOK`, what each request at each pc knows and holds (`ReqInv`), the relation of the two rows (`RowInv`), and `GateInv` for `LegacyBackfill = FALSE` | TypeCorrect, SidesAlwaysAgree, NoteAlwaysExplains, FeeIsEarnedAndClean, TotalIsBounded, PaidStaysFinal, FilledStaysFrozen, GateIsTight, LocksMeetOverRejections, ImplementsContract |
| CrawlerProofs | `TypeOK`, `TokenInv`, and three of the properties | TypeCorrect, AcksAlwaysAgree, HolderIsFenced, FailuresCountOnce, TerminalStaysFinal, TasksEndOnce |
| ImportBatchProofs, on ImportBatch | `TypeOK`, `LockInv`, `ClaimInv`, `FullInv`, `OnlyInv`, and the two row properties | TypeCorrect, CompletedMeansImported, CountsAreRight, RetryIsComplete, CompletedStaysFinal, BatchesTellTheTruth |
| the same, on ImportConflicts | `ConflictsTypeOK`, `HoldInv`, `OnlyCarriedFieldsLose` | ConflictsTypeCorrect, DifferencesAreKept, LocksAreOrdered, NothingIsOverwrittenUnseen |
| ReportSummaryProofs | `TypeOK`, `LockInv`, `RowsInv`, `TableInv`, `WindowInv`, `CoveredUsesCurrentRules` | TypeCorrect, CoverageIsCurrent, TablesMoveForward, TasksFreezeRarely, TablesAreComputedAtOnce |
| NegotiationProofs, on Negotiation | `TypeOK`, `RowInv`, what each request read and may still hold | TypeCorrect, BothLevelsDecide, PromotionAlwaysTheDeal, ContentIsFrozen, TerminalStaysFinal, ReviewIsByTurns |
| the same, on BulkCreate | `BulkTypeOK`, `TurnInv`, `AnswersInv` (inside `RowIsCreatedOnce`) | BulkTypeCorrect, EachRowIsCreatedOnce, ClaimWasThere |
| the same, on Claims | `ClaimsTypeOK`, per transaction `Shape`, `Logged`, `Held`, between them `OneWriter`, and `AuditMatchesClaims`; for the contract also `ScopeInv` | ClaimsTypeCorrect, AuditTellsTheClaims, TransferMovesTheClaim, ClaimsMoveAtOnce |
| PromotionLineProofs | `TypeOK`, `LineInv`, and four of the properties | TypeCorrect, StageTableIsTotal, FreightBelongsToRecall, NoMoneyOnInactiveRow, CompletionIsEarned, NothingPrintedForCancelled |
| UrgeProofs | `TypeOK`, `TaskInv`, what the holder of the task has written (`SlotInv`), and what the row locks of the promotion keep true (`LocksInv`) | TypeCorrect, NoUrgeLostOrRepeated, ScansUrgeOncePerDay, ClosingIsFinal, UrgesHappenAtOnce |
| ObjectStorageProofs | `TypeOK`, `OneName`, `Accounted`, what each request holds (`SlotInv`), `FillInv` | TypeCorrect, EveryLinkLives, EveryObjectIsAccountedFor, ImageIsGivenOnce |

**Why the strengthenings are needed.**

- *Settlement*: that the two rows agree after a commit needs to know what the
  committing request wrote while nobody could see it, and that it still holds
  the locks under which its decision was true. `ReqInv` says both, per pc: from
  `LockPromo` on what was checked of the promotion still holds, from `UpdateDoc`
  on the settlement row is the one the WHERE accepted. The conditional UPDATE is
  the only thing that turns an old read into a fact, and the proof of each
  property goes through it. *LocksMeetOverRejections*: who holds the settlement
  row and waits for the promotion is a fill or an added item, the others have it;
  who holds the promotion and waits for a row with the status those two left in
  their snapshot can only be a rejection, since a payment, an approval and a
  resubmission ask for other statuses.
- *SettlementContract*: each step is mapped to a step of FeeContract or to a
  stutter, from the same invariant. It fails for migrated rows (section 7), so
  the theorem assumes there are none. `GateInv` says that without them a
  document at PENDING_REVIEW does not occur, which is the one status the gate
  does not look at.
- *Crawler*: a token is issued once, so it belongs to one worker, which reports
  under it only after it stopped collecting. Hence no request in the network
  carries the token of a lease whose holder still collects, and an outcome is
  recorded under one token only; repeats find that outcome or another token.
- *ImportBatch*: a run holds the lock as long as it works (`LockInv`), so
  nobody else touches a row meanwhile: what a full run has counted in memory is
  what the rows it is through with say (`FullInv`), starting from zero
  (`ClaimInv`). A run over the failed rows alone is asked for only when every
  row has been tried (`OnlyInv`), which is what makes its count complete.
- *BatchContract* needs the same facts at the instant of the verdict, stated as
  one lemma (`TallyIsRight`): every row tried, and both ways of counting equal
  to a recount. That a row is touched only while the batch says "processing" is
  `LockInv` again.
- *LeaseContract*: what a report names is an old or the present lease; under the
  present one its worker has stopped, which is what `End` asks for. A second
  report under that lease finds the same outcome and confirms it.
- *ImportConflicts*: who is about to write the object holds its lock and has
  read it as it is, and nobody else holds it but a row that claims the blogger
  (`HoldInv`); so what a row decides to record is a difference from the object as
  it stands, and whoever holds the object waits for nothing unless it is such a
  row. No part of the invariant speaks of the conflict row: the handlers read it
  under its own lock in the step that writes it. A difference that is owed and no
  longer listed with its value has been masked by a carried field, and stays so
  marked until it is settled.
- *ReportSummary*: a refresh that holds the lock read its rows under the rules
  in force, since rule changes wait for the same lock; `RowsInv` carries that
  from the first read to the commit, `TableInv` says that no row is ahead of
  its data, and `WindowInv` that a task which neither midnight nor a rule change
  has overtaken still plans days that are covered or in the window, and the button
  no day to come. *SummaryContract* needs no more than the first two: at the
  commit they say of each row what the contract asks of it.
- *Negotiation*: what a request read need not be true any more when it writes.
  What lasts is said per request: one that read RECEIVER_PENDING read the
  content as it will stay, and its UPDATE compares status and PR again. That the
  two reviewers differ cannot rest on the comparison the final review makes,
  since it is made on the row as read; it follows from the roles, as the first
  level refuses a boss and the second asks for one.
- *DealContract*: each conditional UPDATE is one turn of the abstract review.
  What the request read may be old in everything but what the UPDATE compares
  again; the invariant says per request which part of it must still be true for
  the turn to be the one the contract allows, and for the rest the turn takes
  the values from the row.
- *BulkCreate*: who is to commit a row has its key, under the unique index, and
  nobody has created it (`TurnInv`); what a request has already answered fits
  the negotiations there are (`AnswersInv`), which others do not change.
- *Claims*: what a transaction has written and not committed is said in three
  parts. `Shape`: where it stands, and that it is about bloggers that are known.
  `Logged`: what it added is absent for others, what it changed it holds, and it
  has noted which is which. `Held`: what it holds is there or its own; a
  transfer holds the claim it takes until it has revoked it, and the one it
  gives from the switch on. `OneWriter` makes the commits of two transactions
  independent. With them a commit moves log and claims together.
- *RegisterContract* also needs to know that there is nothing else in what a
  transaction commits: a batch writes exactly the claims it has added, each with
  the WeChat it names, a transfer at most the two claims it is about, and by the
  commit it has removed the giver's (`ScopeInv`).
- *PromotionLine*: the guards speak of stages, the properties of columns. Three
  lemmas say what a stage means for the columns; `LineInv` is what they leave
  open: a row that satisfies a condition of completion carries the mark, which
  is why the last line of the stage table is never reached.
- *Urge*: only the holder of the task row changes it, and what it has written is
  one urge or one closing of the committed version (`SlotInv`), which nobody
  else can change meanwhile; a fresh task is one that nobody else has inserted.
- *ReminderContract* needs more: the end of a promotion closes the task it read
  some statements earlier, and must not leave open one that an urge committed in
  between. `LocksInv` says why: FOR UPDATE on the promotion excludes the FOR KEY
  SHARE that an urge needs before it can commit, so while an end is under way
  the task can be closed by others but not opened. The mutant that takes the
  promotion FOR KEY SHARE breaks exactly this.
- *ObjectStorage*: a key in the hands of a request is fresh while it has yet to
  be bound, is undone only when no row names it, dropped only when no row names
  it any more. That a removal, which read without a lock, deletes no image in
  use needs `SeenInv`: no other row can have come to name that key, since keys
  that somebody knows of are not given out. `FillInv` ties what the importer has
  seen, written and noted to how often it filled a style.

**Contracts as run properties.** `FrozenUnderReview`, `HolderKeepsTask`,
`RetryMissesNoRow`, `NeverBackwards`, `ClosedStaysClosed` and
`AuditMatchesClaims` are theorems (ContentIsFrozen, HolderIsFenced,
RetryIsComplete, TablesMoveForward, ClosingIsFinal, AuditTellsTheClaims). The
runs check the contracts of their components in their place.

**Model-checked only.** Liveness (`EveryTaskEnds`, `ProcessingEnds`,
`WindowCatchesUp`, `StaleTaskCloses`): TLAPS does not reason about ENABLED and
fairness. `OnlyKnownCircles` of Claims. The violation, which is a counterexample.
Every other property of every run is a theorem.

## 7. Findings and observations

1. **A publication can be lost to an urge** (`promotion/service_parts/base.py:396`,
   run urge_publish). Publish and cancel lock the promotion and then the task,
   an urge the task and then, through the foreign key of its record, the
   promotion. When PostgreSQL ends the publication, `_close_urge_task` swallows
   the error without a savepoint, and the commit that follows keeps nothing.
   Its docstring says that urging must never make publishing fail.

The following need no run of their own to be seen; each can be reproduced by
adding the named definition to the configuration of its module.

- *An item can be missing from the total for ever* (`finance/service.py:672`;
  invariant `TotalMatchesItems` of Settlement). Two `add_extra_item` sum what
  their snapshots show and write it without comparing; the later commit misses
  the other's item. `finance/models.py:167` says the total follows its items.
- *The deactivation gate does not see migrated documents*
  (`promotion/service.py:109`; `InactiveHasNoOpenDoc` with `LegacyBackfill =
  TRUE`). A document that migration 008 left at 待核查 is approved after its
  promotion was deactivated, can be paid without the promotion moving, and
  cannot be rejected.
- *A manual batch can stay "processing" for ever* (`importer/service.py:213`;
  `ProcessingEnds` with `Crawled = FALSE`). When the message cannot be sent
  after the commit, or the run dies, nothing moves the batch on: the recovery
  looks at crawled batches, retry refuses, the same file is a duplicate.
- *A task can freeze history* (`tasks/summary_tasks.py:259`; `HistoryStaysLive`).
  The days are planned from the calendar and the coverage as they were before the
  lock. A task that midnight overtakes covers a day that has left the window; one
  that a rule change overtakes covers the history again that the change has
  cleared. Line 223 explains why a task must not. `TasksFreezeOnlyLate` says that
  there is no third way.
- *A payment can stay unheard* (`finance/service.py:538`, `promotion/listeners.py:12`;
  invariant `PaymentIsHeard` of Settlement). The failure is swallowed and 0 rows
  are tolerated: the document is PAID, the promotion waits for its payment, and
  the check that a nightly task is said to make (`finance/events.py:31`) does not
  exist.
- *A fill and a rejection can deadlock* (`promotion/fulfillment.py:107`, `:120`;
  invariant `NoCircle` of Settlement). A rejection locks the promotion and then
  updates the settlement; a fill or an added item updates the settlement
  (`finance/service.py:302`, `:675`) and then inserts a line event, whose foreign
  key needs the promotion (`flow/models.py:56`). The docstrings say that all of
  them lock the promotion first. One of the two requests fails.
- *Records of urges are not urges* (`urge/service.py:460`, `urge/repository.py:549`;
  invariant `DashboardCountsUrges` of Urge). A closing by hand inserts a record of
  trigger "manual", and the dashboard counts records: it shows one urge more than
  there was. `urge/service.py:506` gives this very reason for why a completion
  writes none.
- *A difference can be lost to a carried field* (`importer/conflicts.py:189-207`,
  `:274-299`; invariant `NoDifferenceLost` of ImportConflicts). The first row of a
  batch takes a field of an older conflict along; the next row of the batch gives
  that field another value, is told that an earlier row of its batch stands, and
  the value of the older batch stays. `importer/outcome.py:7` promises the first
  row of the batch that gave a value.
- *Rows that claim a blogger lock the other way round*
  (`importer/adapters/blogger.py:362` before `:377`, `blogger/claim_service.py:119`;
  invariant `OnlyClaimsMeet` of ImportConflicts without its exception). `importer/conflicts.py:3` says that rows and resolutions lock
  in one order and cannot deadlock; such a row holds the blogger while it waits for
  a conflict that an overwrite holds. The row fails and can be run again.
- *Requests on claims can deadlock* (`blogger/claim_service.py:209`). Transfers of
  one blogger in opposite directions, a self claim and another request for the
  same claim, and batches in different orders; `OnlyKnownCircles` says that these
  are all.
- *A manager can review their own negotiation* (`negotiation/service.py:917`;
  `NoSelfReview`). The reviewer is compared with the PR that was read, and the
  UPDATE does not compare the PR again: a reassignment in between goes unnoticed.
- *What is reviewed may never have passed the gates*
  (`negotiation/service.py:833`; `ReviewedAsShown`). An edit between the read and
  the UPDATE of submit changes neither status nor PR; the event then shows
  another content than the reviewers get.

Seen while modelling, and inside a passing model:

- An import during the first refresh of a day: the task it asks for reads the
  coverage before the refresh commits, finds nothing to do, and the rows of the
  refresh are older than the import. In the window the next hour mends it; a day
  of history stays so until somebody presses the button (`tasks/summary_tasks.py:223`).
- A pause or resume overwrites the failure counter or an auto-disable that
  committed in between (`AdminWrite` in Crawler). Nothing in the repository says
  which of the two should win.
- A promotion that was cancelled before anything was shipped can still be
  recalled, although `recall.py` tells the user that one not yet shipped is just
  cancelled.
- Rows of two imports can meet at the index `uq_import_conflict_pending`: the row
  that found no pending conflict fails when another batch has inserted one
  meanwhile. It counts as failed and can be run again. A second row of the same
  batch with another value for a field is only a warning.
- A field that another row of the same batch merges into a conflict after the
  user was shown it is expected to be empty (`Stale` of ImportConflicts, and
  `docs/requirements/20261007-商品资料线设计.md:530`): if it is, the file's value is
  written although the user has not seen that line.
- A removal of a main image that races an upload clears the new image and
  leaves its object in the bucket (`product/service.py:304`, the ghost `stray`).
- A commit whose answer is lost is compensated as if it had failed: the row
  names a deleted object (`unsure`), and a later import reports "kept" for that
  style, since it has a key, and never heals it.

## 8. Limits

- One promotion, one credential, one batch, one object, one tenant per model;
  ObjectStorage, Claims, Negotiation and BulkCreate take sets. The code keeps
  them apart by keys and row-level security.
- A transaction commits or it does not. That a commit succeeds and its answer
  is lost is modelled for the crawler's HTTP calls, for bulk requests and for
  object storage.
- PostgreSQL and Celery are taken as documented: READ COMMITTED with
  re-evaluation of the WHERE after a wait, fair row locks where section 5 says
  so, FOR KEY SHARE by foreign keys, deadlocks found and one member ended,
  session advisory locks that end with the session, messages acknowledged when
  taken.
- ImportConflicts follows one object and one source; conflicts about the key,
  and the policies that keep or overwrite without a conflict, are left out.
  ObjectStorage leaves out the legacy direct upload (upload-init and -complete)
  and the field `main_image_key` of a style update, which no page sends.
- In Settlement the locks of a handler are steps; in PromotionLine handlers are
  atomic, since all of them take the promotion first and a deadlock undoes a
  request whole. Deleting a credential against a report is listed as a hazard and not modelled.
