# DMS Network: a TLA+ model of its protocols

The repository is a document management system for banks: a Node server with
its own SQLite database and the API of the single-page application
(`routes/spa-api`), a Python service with a database of its own
(`python-service`), Redis, and a browser client with a service worker. Most of
it stores rows and renders them. This directory models what does not: the
protocols that span two databases, several requests, timers, processes and
browsers, where what goes wrong is an order of events.

`.cfg` files name the instances TLC checks, `*Proofs.tla` hold proofs for TLAPS,
`PROJECT.json` lists the runs, the lines of the source each definition models
and the hazards of the code, each at its line.

1. [The system](#1-the-system)
2. [The modules](#2-the-modules)
3. [Decisions](#3-decisions-workflowadvance)
4. [The offline queue](#4-the-offline-queue-offlinequeue)
5. [The browser's outbox and the keys](#5-the-browsers-outbox-and-the-keys-browseroutbox-idempotencykeys)
6. [Holds, retention and subject requests](#6-holds-retention-and-subject-requests)
7. [Indexing locks](#7-indexing-locks-indexinglocks)
8. [The audit chain](#8-the-audit-chain-auditchain)
9. [Replication](#9-replication-replicateddocuments)
10. [AML screening](#10-aml-screening-amlscreening)
11. [WORM locks](#11-worm-locks-wormlocks)
12. [Fairness](#12-fairness)
13. [What is proved](#13-what-is-proved)
14. [Where the code and its documentation differ](#14-where-the-code-and-its-documentation-differ)
15. [Not modelled](#15-not-modelled)

## 1. The system

| Component | State it keeps | Operations | What is hard | What makes it correct |
| --- | --- | --- | --- | --- |
| Workflow decisions, Node (`routes/spa-api/workflows.js`) | `workflows`, `wf_actions`, `documents.status` | approve, reject, escalate, single and bulk; create | each decision is written by Python first and by Node after an await; replies race with timeouts and with each other; partial bulk failures; crashes; other writers of the same columns | a decision is whole or absent in Node, and linked to Python's record of itself |
| Workflow steps, Python (`routers/workflow.py`) | `workflow_steps`, `documents.status` | `/advance`, `/actions` | commits though the caller gave up | one step per decision |
| Step-up (`services/stepup`, `webauthn_svc.py`, `services/stepup-verify.js`) | `stepup_challenges`, `stepup_used_assertions` | issue, finish, verify | check and insert are apart, several requests with one assertion | one use, by its owner, before any effect |
| Template versions (`workflow-template-versions.js`) | `wf_template_versions` | draft, publish, archive | publishing while workflows are created | one version is published, no draft is pinned |
| Offline queue and worker (`offline.js`, `offline-queue.js`, `offline-sync.js`) | Redis lists, `uploads/offline-tmp`, `documents`, the dead letters | enqueue, drain, retry, dead-letter | overlapping ticks, lost and repeated commands, crashes, half-done replays | at most one document per upload, none lost, all settled |
| Uploads with a key (`idempotency.js`, `sync.js`, `documents.js`) | `idempotency_keys`, `documents` | upload, replay a batch, prune | two statements that may fail apart, expiry, two routes that share a table | one document per key while the key lives |
| Browser outbox (`offline-outbox.ts`, `sw.js`) | IndexedDB | save, replay, retry, give up | overlapping drains, a worker stopped anywhere, lost answers, another user's session | nothing saved is lost silently, the outbox empties |
| Legal holds, retention (Python: `retention.py`, `retention_scheduler.py`) | `legal_holds`, `documents`, files, audit rows | place, release; hourly cycle; `apply_due` | a hold between check and commit, overlapping runs, rollbacks | nothing held is destroyed, purges and their trail agree |
| Data-subject requests (`dsar.py`, `encryption.py`) | `dsar_requests`, `customer_deks` | create, fulfil, shred, litigation hold, erase, rotate | several commits per fulfilment, two at once, a crash between | each destroyed key is audited, receipts are true |
| Indexing claims (`indexing.js`, `indexing-sweeper.js`) | `indexing_locks` | claim, release, save, sweep | expiry while a form is open, `<` against `>` | no save of the station goes over an answered claim, no lock stays |
| Node audit chain (`audit.js`, `db/index.js`) | `audit_log` | append, verify, backfill | writers that do not hash, tenants, restarts | hashed rows never change, live rows link, what starts hashed verifies |
| Replication (Python: `crdt.py`, `replication.py`) | `documents.sync_clock`, `workflow_steps` in each region | stamp an edit, apply a snapshot | snapshots lost, repeated, reordered; edits in several regions; requests that overlap in one | a region counts its own edits, values and clocks belong together, but for what a race overwrites |
| AML screening (Python: `aml_screening.py`, `tasks.py`) | `aml_screenings`, `aml_hits`, watchlists, a queue in memory | screen, reload and switch lists, decide a hit | lists that change under a screening, workers that overlap, a restart, two reviewers | who is listed is flagged, screenings of a customer do not pile up |
| WORM locks (Python: `worm.py`) | lock columns of `documents`, a flag of the file system | lock, unlock, extend, verify a batch | row and flag change apart, failures and crashes between, overlapping requests, shared files | row and flag agree, an extension extends, drift is alerted |
| Provenance and ledger (Python), notification throttle, tenant configuration, versions and rollback, OCR, redaction, search, adapters, user interface | rows, files, Redis buckets | single updates | little, or nothing that is promised: sections 14 and 15 | left to tests |

Interactions: Node calls Python over HTTP with a timer and destroys the socket
when it fires (`pyCall`); Python never calls back. The two databases share no
transaction. Redis holds sessions, the offline lists and the throttle's
buckets. Within Node, handlers and timers interleave at awaits only, so a step
of the models is what runs between two awaits. Python's endpoints run in a
thread pool with a session each that does not flush before it commits, so a
step there is one commit, or one read that a later commit depends on.

## 2. The modules

| Module | Contents |
| --- | --- |
| `StageRules` | who may do what, when a step-up is asked for, the next stage and status: the pure rules |
| `WorkflowAdvance` | decisions and step-ups, over both services; extends `StageRules` |
| `DecisionLog` | abstract: what the two services promise together; `WorkflowAdvance!DL` maps to it |
| `OfflineQueue` | route, Redis lists and worker of the offline uploads |
| `UploadDelivery` | abstract: what that queue promises of each upload; `OfflineQueue!UD` maps to it |
| `IdempotencyKeys` | the server's side of an upload with a key |
| `BrowserOutbox` | capture page, outbox and service worker, composed with `IdempotencyKeys` |
| `LegalHolds` | holds, documents and the steps of the threads that dispose of documents |
| `RetentionEngine` | the scheduler and the administrator's run, composed with `LegalHolds` |
| `SubjectRequests` | the requests of one customer and the customer's key, composed with `LegalHolds` |
| `IndexingLocks` | claims |
| `AuditChain` | hashes of `audit_log` and their verifiers |
| `ReplicatedDocuments` | one document in several regions |
| `AmlScreening` | screenings, their tasks, and the lists |
| `WormLocks` | lock columns and file flags |
| `MCWorkflowAdvance`, `MCOfflineQueue`, `MCSubjectRequests`, `MCAmlScreening` | constants and symmetry of the instances; the other modules need none |
| `WorkflowAdvanceProofs`, `OfflineQueueProofs`, `BrowserOutboxProofs`, `LegalHoldsProofs`, `RetentionEngineProofs`, `SubjectRequestsProofs` | proofs, each about the module of its name |
| `NodeServiceProofs` | proofs about `AuditChain` and `IndexingLocks` |
| `PythonServiceProofs` | proofs about `ReplicatedDocuments`, `WormLocks` and `AmlScreening` |

Definitions that begin with a comment "Regression:" are variants of the
definition after them with a plausible bug, used to see that a property can
fail. Nothing refers to them otherwise. Components whose proofs share a module
share no name: their specifications are `AuditSpec`, `IndexingSpec`,
`ReplicaSpec`, `WormSpec` and `ScreeningSpec`.

Each module that is proved about has a type invariant, which its proofs
establish for all values of the constants, so that no run repeats it. Formulas
at the end of a module, under a heading that says so, state what the
documentation promises and the code does not keep: section 14.

Where a section calls a field or variable a history, no guard reads it: it
remembers what a property speaks of.

## 3. Decisions: `WorkflowAdvance`

A handler of `workflows.js` is a process of the model, one per request:

    Start ── refused (role, missing step-up, batch too large, body)
      │
      ├── verifying ── Verified / VerifyRefused / Timeout
      │
      └── advancing ── Advanced (per row with a document) / AdvanceFailed / Timeout
                         │
                         └── Commit: workflows, documents.status, wf_actions; 200

`pc`, `input`, `seen` (rows as read), `got` (the step ids collected in
`pyResults`) and `call` (the HTTP call in flight) are the handler's locals.
`Start` is everything before the first await, so a request that needs no
Python commits in `Start`. A single action reads its row before any await and
validates its body after the verification, a bulk request does both the other
way round, and both orders are kept. A bulk request verifies an assertion that
was not asked for, a single action does not (`WillVerify`).

Python's side of a call is `PyVerifyCheck` and `PyVerifyCommit` (the reads,
then the insert whose primary key decides), `PyAdvance` (one transaction; the
reply may still be an error, when what follows the commit raises) and `PyFail`.
They run on whatever became of the request: `Timeout` answers it and leaves
the call alone. The timer is the socket's and fires when nothing arrives for its
time. When the connection closes inside the body of a reply it is gone, and
`pyCall` listens to nothing but `data` and `end` of the response: after `ReplyCut`
the request waits for ever (`_shared.js:30-46`).

`NodeCrash` covers a kill and also an exception in the single action's
transaction: the handler is async and the framework does not catch its
rejection. In a bulk request the transaction is inside a `try`: `CommitError`.

What else writes the same rows: `CreateWorkflow`, `Publish`, `ChangeConfig`; the
daily expiry job, which sets the status of documents with a past or near
expiry date whatever was decided of them (`ExpiryScan`, `Dated`); and, selected by
`SideDoors`, the three older routes that move a workflow (`LegacyAction`), the
bulk route and the import that set a status (`SetStatus`), and Python's own
endpoint (`PyDirectAction`). `restamped` and `moved` are histories: the documents
and workflows whose column somebody else wrote since the last decision about
them. A workflow
without a published version starts from its template's `steps_json`, or at
"Maker Review"; the model takes the latter. `by` of a step and of a
`wf_actions` row is history: the request and the row they were written for.

| Property | Says |
| --- | --- |
| `LinkedStep` | `wf_actions.python_step_id` names a step of the same document, action, actor and assertion, and of no other row |
| `WholeDecision` | all rows of a request or none, and none of its steps without a row when it was answered 200 |
| `StepUpBeforeEffect` | where the policy asked for a step-up, an effect in either database rests on the user's own assertion, spent by them |
| `OneAssertionOneRequest` | two verified requests never share an assertion |
| `MirrorsJournal` | statuses and unpinned stages are those of the last recorded decision, until another writer of that very column comes; the next decision mirrors again |
| `AnswerIsFinal` | a late reply changes nothing |
| `PinsFrozen` | pins are never drafts, at most one version is published |
| `ImplementsDecisionLog` | a decision appears whole, once, on steps recorded before it |
| `EveryRequestAnswered` | timers suffice for an answer, but for a reply cut off in its body |

| Run | Instance | Why it is enough |
| --- | --- | --- |
| `decisions` | two requests out of eight inputs, three workflows on two documents, one assertion, three users, two policies, the expiry job over one of the documents, every fault, at most 6 steps | every pair of handlers that can share a row, a document or an assertion, with one failing at each point; three rows are the least with a document before and after a row without one |
| `pinned` | one workflow, created by the run, two versions of its template, two approvals, the older routes, bulk, import and expiry job and Python's own endpoint (at most 2 steps), no faults | a version is published before, between and after creation and decision, a foreign step, status or stage falls before, between and after a request's own. It stops when all is created and decided, so deadlock is not checked |

`MaxSteps` bounds Python's table; without side doors the requests alone do not
reach it in `decisions`.

## 4. The offline queue: `OfflineQueue`

An upload is staged in `offline-tmp` and pushed on its tenant's list
(`Receive`, `Respond`). A tick pops an item (`Popped`), replays it in one turn
(rename, parse, INSERT: `Replay`), waits for the dedup check (`DedupChecked`),
or puts the item back (`Requeued`) or into the dead letters (`Buried`). Ticks
are processes, as `setInterval` does not wait for the tick before.

A Redis command is two steps, so that a crash, an error or a repetition can
fall between execution and reply. `Faults` selects what may happen: `crash`,
`redis` (reported as failed, executed or not), `resend` (ioredis repeats a
command whose reply it lost; modelled from the library's defaults, at most
once per command), `db` and `fs` (an INSERT or a rename throws). `Durable`
selects Redis or the in-process fallback; the fallback's commands resolve
without leaving the turn, and letting ticks interleave there too only adds
behaviours. `dropped` is history: the uploads a fault took. The tick's final
`recordSync`, the counters and the reads of `/offline/status` are left out.

| Run | Instance | Shows |
| --- | --- | --- |
| `offline_faults` | one upload, two ticks, every fault | `Accounted`: only a crash or Redis loses an accepted upload; `AuditedAreDead`; `AtMostOneDocument`: the rename lets one replay through however often the item is listed |
| `offline_settles` | two uploads of two tenants, one with metadata that does not parse, two ticks, failing INSERTs and renames, fairness | `EventuallySettled`, and `ImplementsDelivery`: one outcome per upload, which nothing revises |

Two ticks are the least that overlap, and a third meets the list in no new
way; `MaxRetries` is 2 instead of 5, which leaves a first failure and a last
one. Two uploads meet only in the order of a list, which no property depends
on. The fallback (`Durable` FALSE), any number of uploads and ticks, and the
delivery under crashes and failures of Redis are covered by the theorems.

## 5. The browser's outbox and the keys: `BrowserOutbox`, `IdempotencyKeys`

The capture page sends an upload under a fresh key; hearing nothing, it saves
an entry (`NetworkError`). A drain of the service worker has four steps: read
the first entries (`StartDrain`), the server answers or does not
(`ServeReplay`, `FetchFails`), remove what was accepted (`RemoveDone`), put
back or give up what failed (`Retry`). The sync event and the indicator's
message both start drains, which overlap; the browser stops the worker, and
all drains with it, anywhere. Nothing registers a sync, so that in effect a drain
starts when the user clicks the indicator, and `EventuallyDrained` says of users
who keep doing so that the drains reach an end.

On the server the lookup of a key, the documents row and the key row come in
one turn (`Serve`), and either INSERT may throw; in the upload route the
second failure is swallowed. A crash between the two is the same to everybody
else as a failed store whose answer is lost. Time is counted in days, because
`expires_at` (ISO, with a `T`) is compared as a string with
`CURRENT_TIMESTAMP` (with a space): within one date the hour does not count, so
a key lives to the end of the next day. `INSERT OR IGNORE` keeps an expired
row that was not pruned.

`gaveUp` and `failures` are history. The properties: `SavedAccounted`,
`GivenUpAfterRetries`, `OncePerDay`, `EventuallyDrained`. `OncePerDay` excepts
what the code lets through: the second document of a key whose first row was
not stored, or ignored over an expired one.

| Run | Instance | Why it is enough |
| --- | --- | --- |
| `outbox` | one key, two users of one browser, one of whom may capture, two drains, 2 retries, batches of 1, three days, 2 documents of one key | keys do not interact but by sharing a batch, and a batch fails or succeeds entry by entry; two drains overlap at every step; three days are a day, the last day of a key, and the day after |

## 6. Holds, retention and subject requests

`LegalHolds` has the documents, the active holds per document and case, and
one job per thread. A job reads committed state once or several times
(`todo`, `marked`) and writes everything at its commit; holds are placed and
released, rows deleted and the process restarted in between. `held` is
history: the documents that were under some hold without a break since the
job began. A commit that updates a row that is gone rolls back (`WriteBack`).

* `RetentionEngine`: the scheduler reads the first rows, asks for each hold and
  commits rows and audit rows together (`CycleRead`, `CycleCheck`,
  `CycleCommit`). `apply_due` checks all holds, removes files one by one, and
  deletes the rows in one commit (`ApplyRead` … `ApplyCommit`). Storage names a
  file after its content, so documents with one content (`Copies`) are one file
  (`SameFile`), and removing one's file removes the others'.
* `SubjectRequests`: a fulfilment marks the request in progress, then exports,
  or audits and destroys the key (`ShredAudit`, `ShredKey`, two commits), or
  places a hold on each document that has none (`HoldSelect`, `HoldCheck`,
  `HoldPlace`), and completes. Two workers may fulfil one request. `key.made`
  numbers the customer's keys, so a receipt names the one it destroyed.
  `shreds` and `freed` are histories.

| Property | Says |
| --- | --- |
| `HeldThroughoutIsSpared` (both) | a document under a hold since a job began keeps its row through that job, and its key, or its file if every copy of it is held as well (`FileHeld`) |
| `PurgeIsAudited` | a row has lost its file name exactly if its purge is audited, after every rollback and crash |
| `EventuallyRetired` | a document left without a hold, with fewer rows before it than a pass looks at, is retired |
| `ShredIsAudited` | no more keys destroyed than audit rows written |
| `ReceiptIsTrue` | a completed shred names a key that is not in use, whatever is rotated or fulfilled again |
| `HoldCoversDocuments` | a litigation hold that completes leaves each document of the customer held, but one that lost its last hold meanwhile |

| Run | Instance | Why it is enough |
| --- | --- | --- |
| `retention` | two documents to purge and one to archive, which is one file with the first, the scheduler, one administrator with one run, one hold by hand, one restart; a pass sees two rows, the run ends after one document | both kinds of retirement in one transaction, a run next to a cycle, a held copy of what is purged; rows in front of a third that are retired, held or deleted |
| `requests` | two documents, one request of any kind, two workers (symmetric), two jobs, two keys, one hold by hand, one restart | two fulfilments of one request at every pair of commits; a second request meets the first only in key and holds, which rotation and the hand-placed hold change too |

`CycleLimit` stands for the 2000 rows of `retention_scheduler.py:58`: processed
and held rows keep their places, so a third document is reached only when rows
before it are deleted (`AllRetired`, section 14). `ApplyLimit` is where
`purge_due` stops. Uploads
are not modelled: SQLite gives a deleted id away again, and what a hold on a
reused id means is nowhere said.

## 7. Indexing locks: `IndexingLocks`

Every handler is one step. Tabs, beacons and the older document list make that
any user may claim, release or save at any time, so nothing restricts them. A
lock has the seconds that are left instead of the time, so the model needs no
clock and has no other bound: a claim and the sweeper take a row for expired
below 0, a save takes it for active above 0. `promised` and `written` are
histories: what a claim was answered, and who wrote to which documents in the last
step.

Only the station's save asks for the lock. `WriteUnasked` is everything else that
writes the indexed columns: the older form (`routes/documents.js:79-86`), the
import, which writes to all documents of a customer, and DocBrain's analysis,
which fills the empty columns. So `NoForeignSave` speaks of the station, and
`NoForeignWrite`, of all routes, does not hold (section 14).

Run `indexing`: three users (holder, claimer, bystander), two documents, TTLs of
1 to 3 seconds, which has a second that is neither the first nor the last.
`PromiseKept`, `NoForeignSave`, `EveryLockEnds`.

## 8. The audit chain: `AuditChain`

A hash is the sequence of digests that went into it; two hashes are equal when
everything they cover is. `WriteAuditRow` hashes as it inserts,
`InsertAuditLog` stands for some thirty other inserts, `Start` hashes what has
no hash, over a walk it computes anew. `Walked` is that loop in closed form: the
row's hash is that of the row before, as computed by the loop, and its own digest,
so for row `n` it covers the digests of 1 to `n`. `ChainVerified` and `RecentVerified` are
the two verifiers: what each compares a row with is the hash of the last of the
rows before it, among those it selects.

`HashedFrozen` (a hashed row never changes), `LiveRowsChain` (a live row covers
the live rows since the last start), `BackfillVerifies` (a log of one tenant
hashed at starts only verifies, whole and from any row on). The endpoints for
tests, which alter hashed rows outside production (`audit.js`, from line 673), are
not modelled. Run `audit_chain`: two
tenants, 5 rows, 4 starts, which allows a hashed, an unhashed and a live row in
every order, twice; it stops at its bounds, so deadlock is not checked.

## 9. Replication: `ReplicatedDocuments`

The repository has the receiving end of replication and no sender. `Send` puts
a region's row and steps into a set that nothing leaves, so a snapshot may
never arrive, arrive late or again. A value is named after the write it comes
from, region and count, which makes "the same value" mean "from the same
write". A request reads the row (`UpdateDocument`, `Apply`), and its `Commit`
writes the columns it changed, as SQLAlchemy does; it fails where it inserts a
key that was taken meanwhile (`Conflict`). `Comparisons` are the outcomes of
`lamport_compare`: equal clocks are compared as JSON texts whose order of names
is that of a set, so two outcomes are possible. `journal` and `raced` are
histories: the rows the edits left behind, and the regions where a commit was
stored over another one that its request had not seen (`Overtaken`).

Nothing serializes two requests of a region: the endpoints run in a thread pool,
and a row is read at the start and written at the end (`documents.py:112-124`,
`replication.py:60`). The run lets any two overlap, the proofs any number. Two edits
that read one clock stamp the same count, and a snapshot's commit may put a clock
beside another request's values; the properties say what such a race can damage
and what it cannot. `EditsCounted` (section 14) is what it does damage.

| Property | Says |
| --- | --- |
| `CountsOwned` | nobody knows of more edits of a region than it counts itself, unless that region lost a race of its own; races in other regions do not matter |
| `ValuesKnown` | until the first race, a value in a row is an edit its clock knows of |
| `FollowsClock` | until the first race, and as long as each edit was made on top of all before it, a row shows the values of the edit its clock names |

| Run | Instance | Why it is enough |
| --- | --- | --- |
| `replicas` | two regions, an edit and a decision each, two overlapping requests in each, an upload with and without a clock, two different snapshots | an edit that overlaps an edit, an edit that overlaps a snapshot, two snapshots that overlap; an old snapshot after a newer one, a region's own old row that comes back, a merged clock that is edited, edits at the same time. With one request at a time the same holds of three regions, and of two with two edits each and four snapshots |

`FollowsClock` speaks of edits in turn (`EditedInTurn`: the clocks of all edits are
ordered), since regions that edit at the same time may end with equal clocks and
different values (`Converged`, section 14). The values of a snapshot are those of the
columns PATCH writes; one column is enough for the run, as the properties speak of
one field at a time, and the proofs have any number. Status and workflow steps
travel along and may make a request fail; no property holds of them.

## 10. AML screening: `AmlScreening`

A list is the set of customers whose names it matches. `ScreenOneCustomer` is
the endpoint, which does not leave the event loop between queueing the task and
committing its row; `Enqueue` is the general endpoint of tasks. A worker takes
a task, looks for a screening in flight, inserts its row, reads the lists, then
the entries of each, and commits the outcome (`Take`, `CheckInflight`,
`InsertRunning`, `ReadLists`, `MatchList`, `Complete`; `ScreenError` from any of
the last three, after which the row may stay running, as the handler commits on
the session that failed). `RefreshWatchlists` deletes and inserts the entries of all
lists in one transaction, `PatchWatchlist` switches one, `Restart` drops queue
and threads. `listed`, the lists that matched since the screening began, is
history.

| Property | Says |
| --- | --- |
| `ListedIsFlagged` | whoever was on a list all through a screening is not cleared by it |
| `RunningBounded` | within the window, screenings of a customer that run are at most the workers, those that a restart left behind included |

| Run | Instance | Why it is enough |
| --- | --- | --- |
| `aml` | one customer, two lists and two workers (symmetric), three rows, two changes, one restart | a list that matches next to one that does not, new entries loaded and a list switched during one screening, two screenings at once, a third after a restart; customers share only the queue |

`Window` is 0 ticks: a row is in flight in the tick it was made.

## 11. WORM locks: `WormLocks`

A request is a read of the row, one operation on the file's flag, and a commit
of the columns it changed: `LockDocument`, `SetFlag`, `CommitLock`;
`UnlockDocument`, `ClearFlag`, `CommitUnlock`; `ExtendLock`, `CommitExtend`. Any
requests overlap. The operation on the flag may fail (`FlagFails`), the commit may
fail and leave the flag where it is (`CommitFails`, answered 500), and the process
may end between any two. `VerifyBatch` reads the locked rows, `VerifyFile` compares
one file at a time, `CommitAlerts` writes. A file that is there and cannot be read
is counted as in order (`UnreadableFile`, `services/worm.py:249-254`), and a commit
of the alerts that fails is logged and the batch answered all the same
(`AlertsLost`, `services/worm.py:338-342`). `ChangeFile` is whoever writes to the
storage directory and finds no flag. `apart` and `since` are histories: documents at
whose flag two requests met, or one failed or died, since a request last moved it
alone; and what has differed from one and the same hash since a request began.

| Property | Says |
| --- | --- |
| `FlagsFollowRows` | row and flag say the same, but while a request is between the two, or after one failed, died or met another there; the next request that moves the flag alone sets them right |
| `OnlyRacesShorten` | a lock that stands is shortened only by a commit on top of a row that has changed since its request read it |
| `DriftAlerted` | a batch that stores its alerts has in them every locked file that differed before it began and that it could read |

| Run | Instance | Why it is enough |
| --- | --- | --- |
| `worm` | one document, two administrators who do anything, two periods, two days, contents 1, 2 and none, one restart | every pair of requests on one document, a batch included, at every pair of points; two periods tell the shorter extension from the longer. A third administrator, without a second content, adds nothing that violates a property |

`FlagsFollowRows` excepts documents that share a file, whose flag follows the
last request for any of them. The model assumes that `STORAGE_DIR` is absolute (section 14).

## 12. Fairness

Weak fairness only, and only of what an event loop, a timer or a poll does:

* `WorkflowAdvance!FairSpec`: what a request's handler does next. The event loop
  serves a reply that arrived and fires the timer of a socket that is open. Python
  and the network owe nothing; a reply cut off in its body has neither timer nor
  end (`ReplyCut`), and `EveryRequestAnswered` excepts it.
* `OfflineQueue!FairSpec`: the timer, each tick's next step (a reply is served;
  the dedup call has a timeout of 15 s), Redis executing what it was sent. Used
  without `crash` and `redis`.
* `BrowserOutbox!FairSpec`: a drain that runs goes on (a fetch ends, at the
  latest with a network error). Nothing starts one but a click, which is owed by
  nobody: `EventuallyDrained` has the premises that drains are started again and
  again while there are entries (`DrainsKeepStarting`) and that the browser does not
  stop the worker for ever. What it shows is that overlapping drains, each putting
  back what it has read, come to an end. Without the first premise it fails
  (`DrainedUnasked`, section 14).
* `RetentionEngine!FairSpec`: the asyncio loop of the scheduler. The
  administrator's runs owe nothing.
* `IndexingLocks!FairSpec`: time passes, and `setInterval` keeps the sweeper.

## 13. What is proved

The theorems hold for all values of the constants, under the `ASSUME`s of the
modules, which TLC evaluates in every run. What an invariant needs to be
inductive:

| Module | Theorems | Argument |
| --- | --- | --- |
| `WorkflowAdvanceProofs` | `TypeCorrect`, `LinkInvariant`, `LinkedSteps` | `LinkedStep` depends on what a handler had collected when it committed. `LinkInv` adds `RequestInv` (rows are settled in order; the call in flight is that of the first row not settled; each id in `got` is that of the step recorded for that row) and `JournalInv` (a `wf_actions` row is a row of a request answered 200, inserted once). Steps are only appended, so what settles a row settles it for ever |
| | `DecisionsWhole`, `StepUpsBeforeEffects`, `OneRequestPerAssertion`, `AnswersAreFinal` | `Decided`: who made each step, who spent each assertion, and which requests passed a verification; the primary key of the replay table lets one through |
| | `PinsStayFrozen` | publishing archives what was published, so a pin was published once |
| | `DecisionsMirrored` | with the side doors and the expiry job. Both tables are written in the transaction that appends the row, and every other writer enters what it wrote in `restamped` or `moved`, which only the next decision about it clears |
| | `DecisionLogImplemented` | each step is a stutter, adds a step, or decides; from `LinkInv` and `LinkedStep` before and after it |
| `OfflineQueueProofs` | `OfflineTypeCorrect`, `KeptInvariant`, `AcceptedAccounted` | `ControlInv` ties each tick and request to its command; `Pushed(u) => Kept(u)` starts at the execution of the push. A list loses only its head, to the tick that asked for it or to `dropped`; a tick lets go of an item only into a list, a table or `dropped` |
| | `DocumentOnce` | assumes `NamesDistinct`, that no two uploads get one staged name. The rename takes the file away before its row is inserted |
| | `AuditRowsAreDead` | audit rows and ticks between burial and audit row together are at most the dead letters; assumes finitely many ticks |
| | `UploadsDelivered` | assumes `Durable` and no `resend`. `PlacesInv`: an upload is in one place (its own push, a list, a tick's hand) until it has its outcome, and in none after; `Effect` says what a step does to it. With repeated commands an upload is in two places, and the fate of one copy is not that of the other |
| `BrowserOutboxProofs` | `OutboxTypeCorrect`, `SavedUploadsAccounted`, `GiveUpIsLast`, `KeysOncePerDay` | what a drain takes for done has a document; retries that an entry or a drain counts are at most its failures; a stored key outlives the next day unless pruned after it |
| `RetentionEngineProofs` | `RetentionTypeCorrect`, `PurgesAreAudited`, `HeldDocumentsSpared` | a job counts as held only what is held, marks nothing of that, and unlinks only what it marked and the copies of it |
| `SubjectRequestsProofs` | `RequestsTypeCorrect`, `ReceiptsAreTrue`, `ShredsAreAudited`, `HeldDocumentsSpared`, `LitigationHoldCovers` | keys are only numbered upwards, so a receipt stays below the key in use; shreds and threads between audit row and key together are at most the audit rows |
| `LegalHoldsProofs` | lemmas that both rest on | what a job keeps, whatever happens in between |
| `NodeServiceProofs` | `LocksTypeCorrect`, `PromisesKept`, `NoForeignSaves` | `PromiseKept` is inductive with the types: time takes as much from lock as from promise. `NoForeignSaves` is about the station's saves, with the other writers there |
| | `AuditTypeCorrect`, `HashedRowsFrozen`, `LiveRowsLinked` | `ChainInv`: epochs grow with the ids, and a row hashed at a start is older than that start, so a hashed row after a live one of this epoch is live itself and continues it |
| | `BackfillsVerify` | where only starts hash, the hashed rows are all rows up to some id (`HashedFirst`), so the last of those a verifier has before a row is the row before it; the walk's hash for `i` continues its hash for `i - 1` |
| `PythonServiceProofs` | `ReplicaTypeCorrect`, `OwnCounts`, `ValuesCounted`, `ClockTells`, `ClocksKeepEdits`, `RegionsAgree` | for any number of requests that overlap. `CountsOwned` depends on what is under way: a request makes of the row it has read either another edit of its region or a merge of two things counted (`HandlingInv`), and stores over the row it has read or enters the region in `raced`. `FollowsClock` needs every row and snapshot `Settled`: its clock is that of an edit, and its filled fields are that edit's. Of two settled sides, edits in turn make one clock dominate, and the merge is the newer side; an edit raises its region's count above everything counted, so nothing else has its clock |
| | `MergeJoins` | the merge of clocks is the join of their order: idempotent, commutative, associative |
| | `WormTypeCorrect`, `FlagsFollow`, `RacesShorten`, `DriftsAlerted` | for any requests that overlap. Outside `apart` at most one request is at a document's flag, and the flag shows what that request will commit (`FlagInv`); a request that commits on the row it has read stores what it computed, and an extension extends the date that stands (`Purposeful`). A locked file with an odd content keeps its base until it is unlocked, so what differed when a batch read the rows is either still to be compared, with that base, or in the alarms, or was not readable (`BatchInv`) |
| | `ScreeningTypeCorrect`, `ListedFlagged`, `RunningIsBounded` | a list that has matched since the screening began is still to be read or was found (`RunInv`); running rows in the window plus workers that have looked and not inserted are at most the workers, because who looks finds a running row of the window and goes away (`WorkersSuffice`) |

The proofs of `WorkflowAdvance` hold with and without `Faults` and `SideDoors`;
those of `OfflineQueue` for every choice of
`Faults` and both of `Durable` where no assumption says otherwise.

Only model-checked: all liveness (`EveryRequestAnswered`, `EventuallySettled`,
`EventuallyDrained`, `EventuallyRetired`, `EveryLockEnds`), which is out of the
prover's reach. Every invariant and every action property of the runs has a
theorem. The comparison of concurrent clocks goes by their sums, which are folds
over the regions: what it decides would need induction over them, and no theorem
depends on it, since edits made in turn have no concurrent clocks.

The assumptions that the modules and theorems name are about sizes and wiring:
regions and `Workers` are finite, periods are not 0, copies are disjoint
sets. None says that requests do not overlap; `MaxOverlap` is a bound, and the
theorems hold for each value of it.

## 14. Where the code and its documentation differ

### Formulas that do not hold

These are stated at the end of their modules. TLC finds a behaviour against each
when it is added to the run named, with the constants changed as said.

| Formula | Run, constants | What the documentation says, and what happens |
| --- | --- | --- |
| `FailedLeavesNoStep` | `decisions` | "If Python fails, Node writes nothing. Both sides are always in sync." (`workflows.js:30-31`): a request answered 502 may have left steps in Python |
| `ReplaysPayload` | `outbox` | the worker "replays the exact request payload" (AC-2 of the offline contract): it sends a field the entries do not have (`sw.js:152`), and the document has no content |
| `UntouchedVerifies` | `audit_chain` | live rows are hashed with the key `policy_decision`, which both verifiers leave out (`audit.js:317`): a log nobody altered is reported broken |
| `HeldKeepsFile` | `retention` | a held document "is immune to purge" (`retention.py:6-7`): purging a copy removes the file they share (`retention.py:122`) |
| `Converged` | `replicas` | "Two regions converge deterministically" (`crdt.py:3-4`): the side that wins a comparison takes the merged clock without the other's values, and a clock then stands for values its row does not hold |
| `StepsUnited` | `replicas` | steps "are upserted by id" (`replication.py:4-5`): each region numbers from 1, and another region's step is dropped |
| `EditsCounted` | `replicas` | "Bump this region's counter" (`crdt.py:31`): two edits that read one clock stamp one count |
| `AllRetired` | `retention` | "Find all docs that have a matching retention policy." (`retention_scheduler.py:54`): the query takes 2000 rows in no stated order, and processed and held rows at the front keep those behind them from ever being looked at |
| `NoForeignWrite` | `indexing` | "only the lock holder may write" (`indexing.js:256-260`): the older form (`routes/documents.js:79-86`), imports and DocBrain's analysis write the same columns and look at no lock |
| `DrainedUnasked` | `outbox` | "Service Worker replays on reconnect or user refresh. Transparent to user." (`docs/contracts/offline-sync-queue.md:196`): nothing registers a sync, and entries wait until someone clicks the indicator |
| `PendingEnds` | `aml` without symmetry, `FairSpec`, `MaxRestarts` = `MaxChanges` = 0 | `[pending] ──▶ [running]` (`docs/contracts/aml-screening.md:101`): the endpoint commits a pending row, the task takes it for a screening in flight, and nothing is screened |
| `LockedIsProtected` | `worm`, `Docs` = {1, 2}, `Copies` = {{1, 2}} | AC-2 of `docs/contracts/worm-retention-lock.md`: unlocking a document takes the flag from the file of its locked copy (`worm.py:311`) |
| `DatesMoveForward` | `worm` | "the date only ever moves forward" (`routers/worm.py:472`): of two extensions the shorter may win |
| `BatchAlerts` | `worm` | AC-4 of `docs/contracts/worm-retention-lock.md`, line 54: a changed file gets a critical alert. A file that cannot be read is counted as in order, and alerts whose commit fails are dropped while the batch is answered 200 |
| `AlarmsAreTrue` | `worm` | "Zero false positives" (`docs/adr/0003-worm-immutability-strategy.md:46`): a document unlocked and removed while the batch runs is alerted as missing |

### Other divergences

Met while modelling; no formula states them, as it would either restate the
code or be about a part that is not modelled.

Decisions
* Two decisions on one document may be recorded in opposite orders by the two
  services ("Both sides are always in sync.", `workflows.js:31`).
* An approval of a pinned workflow uses the graph that is published now ("old
  instances finish on old rule semantics").
* Python does not know the stage 'Approved', so after a rejection and an
  approval the two statuses of a document differ (`workflows.js:514`).
* Of two approvals in flight the second computes its stage from the row both
  read, and moves the workflow nowhere (`workflows.js:462`).
* When Python dies inside the body of a reply the request is never answered, nor
  is the timeout of 10 s: `pyCall` does not listen to the response's `aborted`,
  `error` or `close` (`_shared.js:30-46`).
* An approved document is Expired the day after its expiry date, while the
  workflow and its journal say approved; the next decision makes it Valid again.
  The bulk route sets any status of any document without asking for a permission
  (`bulk.js:22-24`; its deletion does ask).
* A single action that needs no step-up stores an assertion it never verified.
  The three older routes change stages without a row.

Offline queue
* A crash after RPOP loses an accepted upload ("survive until the background
  worker processes them"); a failed INSERT leaves the item without its staged
  file, so a retry cannot succeed; all attempts of an item fall into one tick,
  which pops what it put back.
* Two files of one name in one millisecond share a staged path
  (`offline.js:52`; `NamesDistinct` above). A tenant outside
  `OFFLINE_SYNC_TENANTS` is accepted and never drained.

Outbox and keys
* Nothing calls `clearAll` or `clearDerivedKey` at logout: entries are replayed
  in the next user's session.
* The upload route hashes six fields, the replay hashes `{}`: the replay of an
  upload whose answer was lost is a conflict, not the cached response, and is
  given up after five tries although the document exists.
* A swallowed key store, or one ignored over an expired row, lets a retry
  within 24 hours make a second document. An entry that was given up can be put
  back by a slower drain. `sw.js` creates the database without its unique index.

Retention and holds
* A hold placed between check and commit does not stop a purge
  (`retention.py:6`).
* Node's `services/retention.js:18` asks for no hold (`legal-holds.js:4` says
  held documents are excluded). Neither service asks for WORM locks on a purge
  or an erasure, and deleting a document asks for neither.
* `apply_due` removes files before a commit that may fail; retention events are
  emitted before one that may roll back.

Subject requests
* A litigation hold skips documents another case holds; when that case ends they
  are unheld, though the letter promises otherwise (`dsar.py:387`). Two
  fulfilments place two holds, and a release takes one.
* A second fulfilment that read NEW turns COMPLETED back into IN_PROGRESS; a
  refused shred leaves IN_PROGRESS. `rotate_dek` replaces the mark of a
  destroyed key. A hold placed between audit and shred does not stop it.

Indexing
* In the second of its expiry a lock can neither be deleted nor is it honoured.
  Claiming again does not renew. A release in one tab frees the lock of
  another tab of that user.
* The form starts from the row of the queue, and a save writes all nine fields:
  what was saved in between is lost.

Audit and provenance
* Verifiers read one tenant of a chain that runs over all. Rows of some thirty
  other inserts have no hash until the next start, whose walk does not include
  the stored hashes of live rows: no later hash covers their policy decision.
* Python's `provenance.record` reads the last event, computes and commits with
  nothing in between to stop another: two events with one predecessor are
  reported as tampering.

Throttle
* The bucket is read, computed and written by separate Redis commands: concurrent
  dispatches spend one token twice (`notification-throttle.js:119`).

Replication
* A field that is emptied stays filled elsewhere, as a snapshot's null is "not
  sent". Status changes (reading of the text, decisions, retention) stamp
  nothing, so they reach another region only along with an edit.
* Equal clocks are compared as texts, whose order of names may differ.
  `NBE_REGION` is "default" unless set: regions that leave it so share a counter.

AML screening
* The Redis worker imports the general task handlers only, so with Redis the task
  is unknown to it.
* Refreshing promises an asynchronous screening of everybody and a key against
  repetition and does neither; it gives the entries new ids, which hits and
  suppressions keep the old ones of. Suppressions are stored and never read
  (`models.py:740-745` says they clear later hits).
* A screening that was running when the process ended, or whose session failed,
  never ends. Two workers who both find nothing in flight both screen ("Idempotency:
  return existing in-flight screening", `services/aml_screening.py:331`).
* Two officers who both read a hit as open both decide it, and both are answered
  200 (`routers/aml_screening.py:593`, "If already reviewed, returns 409"). The
  assignment of a blocked hit is flushed after the commit and never committed
  (`routers/aml_screening.py:1265`).

WORM
* With the default `STORAGE_DIR`, "./storage/documents", the stored path contains
  the directory and is joined to it again: a lock finds no file.
* Nothing locks a document by itself (AC-1 of `docs/contracts/worm-retention-lock.md`)
  or unlocks it at its date (AC-3), and an unlock does not look at the date.
* Locking a locked document answers that it is locked and repairs no lost flag.
  The batch finds out that a flag is missing and does not look at it
  (`services/worm.py:311`).

## 15. Not modelled

Most of the repository is row handling, rendering, forms, seeds and adapters:
sequential code over rows that no other actor writes at the same time, with no
state between requests. A model of it would restate its statements, and tests
reach it as well as a model checker would; that is why the models cover a
small share of its lines. The components marked `not_modelled` in
`PROJECT.json` have their reasons there; two of them (provenance, throttle) are
concurrent, but have no property that holds and none that their documentation
promises in checkable terms.

Inside the modelled components: text (reasons, comments, names), audit rows of
the decisions, listings, risk scores (a refusal of `/advance` may happen to any
approval), the cryptography of assertions and of the outbox, permissions other
than the roles the actions name, failures of IndexedDB operations other than
the first save, batches that name a key twice (the worker sends none), deletion
(also the bulk route's) and rollback of documents by Node, exports and letters, the similarity of names,
the reviews and the reports of AML screening, duplicate matches in replication, and the
template drafts.

What could come next: a model of the drafts and their numbering composed with
`PinsFrozen`; the delivery with repeated commands, whose abstract specification
would have to speak of copies; and WORM locks composed with `LegalHolds`, once the
code asks for them.
