# IDMS: specifications, checks and proofs

IDMS takes in documents, reads them with a paid OCR provider, cuts the text
into chunks with embeddings and lets an organization search, ask questions
about and extract fields from them. It is a FastAPI service and a set of Celery
workers over PostgreSQL, Redis and Cloudflare R2, with a Next.js front end.
This directory specifies its core in TLA+, checks small instances with TLC and
proves the most important safety properties, for every instance, with TLAPS.

## 1. The system

| Component | State it keeps | Operations that change it | Interacts through |
|---|---|---|---|
| Upload and documents (`services/upload.py`, `api/v1/documents.py`, `repositories/document.py`) | `documents` rows: status, text, updated_at | upload-url, confirm, bulk delete | rows and row locks; publishes the Celery chain |
| Pipeline (`workers/tasks.py`, `celery_app.py`) | broker messages with `retries`; open transactions | `run_ocr`, `embed_document`, `heal_stuck_documents` | broker, rows, OCR/embedding provider |
| Page meter (`repositories/organization.py`) | `pages_used_this_month`, `monthly_page_quota` | charge, true-up, monthly reset, quota edit | the organization's row lock |
| Chunks (`repositories/chunk.py`) | `document_chunks` rows | delete and insert by `embed_document`, delete by bulk delete | foreign key to `documents` |
| Object storage (`services/storage.py`) | R2 objects | presigned PUT by the client, delete | none with the database |
| Templates, extractions (`api/v1/templates.py`, `services/extraction.py`) | templates, extraction rows | create, edit, delete, run | foreign keys |
| Sessions (`services/auth.py`, `repositories/user.py`) | refresh keys in Redis, failed-login counters | register, login, refresh, logout | Redis, user rows |
| Users and roles (`services/users.py`) | user rows | create, update | role checks from the access token |
| Platform administration (`services/platform_admin.py`) | organization flags and quotas | update | BYPASSRLS sessions |
| Database pool (`core/db.py`) | pooled connections | check out, return | every request |
| Search, chunker (`services/search.py`, `services/ocr.py`) | none | none | pure functions over rows |
| Web, upload zone (`web/components/UploadZone.tsx`) | React state, a queue and a counter in refs | drop, cancel, clear, upload, poll | HTTP, R2 |
| Web, pages and panels (`web/app`, the other components) | React state of what is mounted, `sessionStorage` | clicks, effects, what follows each `await` | HTTP; one panel is mounted at a time, and requests outlive it |

What is hard in it, and what makes it correct:

* **Pipeline.** Messages are delivered at least once; a task may be redelivered
  after it committed, retried while its old message is unacknowledged, run by
  two workers at once, or die anywhere. Correct means: a document the user sees
  as indexed has chunks, processing ends, a ready document is finished.
* **Meter.** An estimate is charged before the paid call, corrected after it,
  reset monthly and bounded by a quota an operator may edit, all on one row.
  Correct means: no update is lost, one OCR run is billed once and atomically,
  and only a true-up goes over the quota.
* **Deletion.** Chunks and documents are deleted by two statements while an
  embed task may be inserting. Correct means: no chunk outlives its document.
* **Requests.** confirm checks, writes and publishes in three steps, of which
  only the write is transactional.
* **Web.** Requests are never cancelled: their answers arrive in any order, after
  the state they were sent from has changed or the panel has gone, and any of
  them may be refused or lost. Correct means: no answer lands on the wrong
  subject, no spinner outlives its request or frees a button early, nothing is
  paid for twice, what is selected is what is shown, redirects end.
* **Roles.** A token carries the role its owner had when it was issued. Correct
  means: an organization keeps an active owner, and what the team panel offers
  is what the API accepts.
* **Sessions, storage.** Check-then-act on Redis keys and counters; objects and
  rows that are changed by different systems.

`PROJECT.json` lists every hazard at its line with the properties that cover it.

## 2. Plan

1. `Pipeline` (done), with the abstract `PageMeter` and `Lifecycle` (done),
   `PipelineProofs` (done) and, on what only overlaps can break,
   `PipelineOverlapProofs` (done).
2. `UploadZone` (done): the client that drives uploads, with the stored
   objects, over the documents of `Lifecycle`.
3. The web application (done): `Browser`, `Server`, one module per panel, and
   `WebApp`, which composes them.
4. `UploadZoneProofs` (done): the slots, the queue and the objects behind
   confirmed documents.
   `WebTypeProofs`, `WebTabProofs`, `WebAppProofs`, `WebSafetyProofs` (done), each
   on top of the one before: what a fetch in flight can be, what every step of
   the tab keeps, what each page shows, what takes several steps.
5. `Sessions` and `SessionsProofs` (done): login with the count of wrong
   passwords, refresh and logout, and the connection pool they share.
6. Left: the rank fusion of the search as a pure function against a reference
   definition, and the choice of a slug by concurrent registrations.

Every invariant and every action property that a passing run checks is stated by a
theorem; the liveness properties stay with TLC (section 5).

## 3. Modules

### Pipeline

One PostgreSQL transaction per request and per task execution, at READ
COMMITTED. `status`, `text`, `chunks`, `usage`, `quota` are what is committed.
An open transaction's own writes are `newUsage` (a worker's charge), `doomed`
(chunk rows its DELETE is after) and `purged` (the same for bulk delete); they
become visible in the action that commits. Row locks are `orgLock`, `docLock`
and, for deleted chunk rows, `ChunksFree`; a statement that would wait is an
action that is not enabled. A row whose lock nobody else can meet between two
actions (a task's `set_status` just before its commit) needs only the guard
that it is free.

| Code | Actions |
|---|---|
| `upload-url` | `InitUpload` |
| `confirm` | `ConfirmCheck` (read), `ConfirmDispatch` (UPDATE and publish), `ConfirmCommit`; `ConfirmOrphan` when the row is gone |
| `bulk/delete` | `DeleteBegin`, `DeleteChunks`, `DeleteRows`, `DeleteCommit`; `DeleteBlocked` on the foreign key |
| broker, Celery | `Deliver` (`Take`), `PublishNext`, `Ack`, `WorkerLost`, `RetryTask`, `TaskRaises` |
| `_run_ocr_async` | `OcrTake`, `ChargeEstimate` / `RefuseCharge`, `OcrSucceeds` / `OcrRetry` / `OcrGivesUp` |
| `_embed_async` | `EmbedTake`, `EmbedPurge`, `EmbedPurged`, `EmbedSucceeds` / `EmbedOrphan` / `EmbedRetry` / `EmbedGivesUp` |
| `_heal_stuck` | `Heal`, with `Age` for the 60 seconds |
| `reset_monthly_usage`, platform PATCH | `ResetUsage`, `SetQuota` |

Abstractions, and why they lose nothing the properties tell apart:

* A batch of chunks is one identity (the least unused one), not a set of rows:
  an embed task inserts all of its rows in one transaction.
* A text is `none`, `blank` (the empty string) or `text`. With two or more pages
  the joined text holds a separator and is never empty. Every page yields at
  least one chunk, so the `not chunks_data` branch of `embed_document` is
  unreachable for a non-empty text.
* The existence check of bulk delete and the snapshot of its chunk DELETE are
  one action; the healing query and its dispatches are one action (extra delay
  between them only delays messages).
* The order of messages is not kept: any waiting message may be delivered.
  Four worker processes over four queues take messages out of order anyway.
* Two deletions that lock the same rows in opposite orders (PostgreSQL aborts
  one of them) are not told apart from a deletion that is cut off.
* The embedding provider returns one vector per text.
* The pipeline's `org_id` is the document's own; it never differs in the code.
* `ResetUsage` resets one organization at a time. The code's UPDATE locks and
  resets the rows one by one; no property relates two organizations.

History and bounds: `ledger` records what committed charges add up to since the
last reset; `faults` counts faults against `MaxFaults`; `MaxCopies` stops the
healing task while a copy of its message waits (unbounded otherwise); `MaxBatch`
bounds batch identities and is never reached in the runs.

### PageMeter and Lifecycle

The abstract specifications `Pipeline` is shown to implement: one atomic bill
per OCR run, and the states of a document with the moves between them.

### UploadZone

The upload list of the dashboard (`web/components/UploadZone.tsx`) against the
server and storage. `active` and `queue` are the two refs, `item` the status
shown for each file, `reply` the answer an upload waits for. JavaScript runs
one callback at a time, so what follows an `await` up to the next one is one
action, and so is a return together with the `finally` handler that frees the
slot and calls `processNext`.

| Code | Actions |
|---|---|
| `handleFiles` | `Drop` |
| `uploadFile` | `Requested`, `Stored`, `Confirmed`, `Poll`, `Polled`, `Fails` |
| `processNext` and its `finally` | `ProcessNext`, in `Drop` and in every action that ends an upload (`Settle`) |
| `cancelPending`, `clearCompleted` | the same names |
| upload-url, R2 PUT, confirm, GET document | `ServeInit`, `ServePut`, `ServeConfirm`, `ServePoll`, or `Lost` |
| pipeline | `Process`, a move of `Lifecycle` |
| `bulk_delete` | `DeleteObjects` (rows locked, objects dropped or only a warning logged), `DeleteCommits`, `DeleteAborts` |

The server's documents are an instance of `Lifecycle`, which `Pipeline` is
shown to implement on the instance of `pipeline_live`; the quota refusal of
upload-url is one of the outcomes of `Lost`. Every file is one the page accepts
(the filter on type and size has passed it). One document is deleted at a time.
A request the client gave up is not served later: the client never looks at its
answer, and all it could add is an uploaded row, a confirmed document whose
object is stored, or an object that no confirmation follows.

`ConfirmedIsStored` names the two exceptions the code has: a document that a
deletion is working on, and one on which a deletion was cut off after it removed
the object. `confirm` never calls `object_exists`, so the property rests on the
order of the client's calls: it speaks of documents uploaded through this page.

### The web application

`WebApp` is one tab against the API. `Browser` is what every panel shares: `ui`,
the state of the one component that is mounted; `mount`, its identity; `calls`,
the fetches in flight; `token`, the session. A fetch is a record: the code that
waits for it (`then`), the endpoint (`op`), the token sent along (`as`), and what
the waiting closure has captured (`kept`). What follows an `await` is one action,
`SetState` does nothing for a component that has gone, and answers and
continuations come in any order. Leaving a panel leaves its requests in flight;
loading a page (`window.location.href`) drops what waits for them, while the
server still serves them (`Abandoned`).

Two helpers of `Browser` are its own, `Without` (a sequence without one element)
and `Toggle` (a ticked box): the operators of the community modules that do the
same reach recursive definitions, which the provers cannot work with.

`Server` has one action per endpoint, in one transaction, over the documents
whose text has been read, templates, extraction rows, accounts and what an
administrator sets for each organization.

| Module | Code | Actions |
|---|---|---|
| `WebApp` | `app/page.tsx`, login, register | `Home`, `FollowLink`, `Submit`, `SignedIn`, `SignInFailed` |
| | `app/dashboard/page.tsx` | `NoToken`, `Known`, `Unknown`, `HandleLogout`, `LoggedOut`, `GoTo`, `SelectRow` |
| | elsewhere | `UploadEnds`, `OthersDelete`, `OthersManage` |
| `DocumentList` | the list and its bulk actions | `FetchDocs`, `ToggleSelect`, `ToggleAll`, `Refresh`, `HandleBulk*` and what follows each |
| `DocumentViewer` | details, tabs, export, questions | `Detail`, `Load`, `ShowTab`, `HandleExport`, `HandleAsk`, `SetMode`, `Answered` |
| `DocumentSelector` | the menu of documents, of which search and assistant have one each | `SelectorLoaded` |
| `AiChat`, `SearchBox`, `DocumentCompare` | one panel each | the names of the handlers; `Headers` and `Answered` or `Results` for the two steps of an answer |
| `ExtractionsPanel` | templates, runs, results, the form | `HandleExtract`, `NextDoc`, `LoopEnds`, `RunDone`; `ReadOn`, `FetchAllDone`; the deletes and exports; `SubmitForm`, `FormSaved` |
| `TeamPanel` | accounts | `Load`, `HandleCreate`, `Created`, `CreatedLoaded`, `PatchUser`, `Patched` |
| `AdminPage` | organizations | `OrgsLoaded`, `AdminKnown`, `HandleToggle`, `HandleQuotaSave`, `ToggleDocuments` and their answers |

The guard of a handler is that its control is rendered and enabled (`Shown`,
`CanSend`, `CanExtract`, `CardShown`, ...), read off the JSX the map names.

Abstractions:

* An answer arrives with its body, except in `AiChat`, `SearchBox` and `fetchAll`,
  where the code does something between the two. `fetchAll`'s four requests are
  one call that sees one state; any of them may be refused, and each body is a
  step of its own (`ReadOn`) that may be lost: between the rows and the pruning of
  the selection the panel is in use.
* Every document has been read: the panels look only at those. Which template or
  question a text belongs to is kept, the text is not; a template's name and
  fields are not told apart.
* There is one organization behind the tab; the administrator sees two.
* The transaction of a request commits with its answer. (The dependency that
  holds it ends after the answer has been sent, so a refetch can in truth be
  served first; `PROJECT.json` lists this as a hazard no property covers.)
* A write the API would refuse is answered by the refusal any request may meet,
  so it needs `Faulty`; `web_new_rows`, which has no faults, makes no such write.
* Dates are two, "old" and "today", and a filter covers one of them or all.
* The shape of a page that is being left while the next one loads is the next
  one's: loading is immediate.

### Sessions

`services/auth.py`, with `row` (the committed user and administrator rows),
`keys` (refresh keys in Redis, in two namespaces that never share a token) and
`req`, where each request is. Every `await` that reads or writes something shared
ends an action; `seen` is the row a login loaded, `writes` the columns its flush
has updated and not committed.

| Code | Actions |
|---|---|
| routes of `/auth` | `SendLogin`, `SendToken` |
| `login` | `ReadLogin`; a wrong password: `ReadFailed`, `CountFailed`; a right one: `ResetFailed`, `StoreKey`, `CommitLogin` |
| the pool | `Connected` guards `ReadLogin` and `ReadFailed`; `TimeOut` |
| `refresh_tokens` | `GetKey`, `DeleteKey`, `CheckAdmin` for administrators, `Mint` |
| `logout` | `Logout` |
| PATCH of a user, an operator | `SetActive` |
| clocks | `LockPasses`, `KeyExpires` |
| loss of the process | `CutOff` |

A flush updates only the attributes that differ from what was loaded (`Dirty`),
so what a login resets depends on what it read; the failed login writes back a
count computed in Python. An account is a user or an administrator, the password
is right or wrong, and a suspended organization is one of the refusals of
`ReadLogin`. The separate engine for administrators' sessions has a pool of its
own, which no request waits for while it holds another of the same pool, and is
left out. `since`, `overlap` and `dead` are history.

Register is an action of `Server`: with it, an organization and its owner appear
together or not at all.

## 4. Runs

| Run | Instance | Shows |
|---|---|---|
| `pipeline_races` | 1 document, 2 workers, 2 requests, one request may be cut off | `TypeOK`, `IndexedIsSearchable`, `NoOrphanChunks` |
| `pipeline_meter` | 2 documents of 1 organization with different estimates, 2 workers, 1 retry, 2 quotas, 0 to 3 pages | `UsageIsLedger`, `MeterSpec`, `OverrunBounded` |
| `pipeline_one_worker` | 1 worker that may be lost, 2 requests, retries, fairness | `OneBatchOfChunks`, `NoChargeWhenDone`, `ProcessingEnds` |
| `pipeline_live` | 1 worker, 1 request, retries, one loss, one raise, fairness | `ReadyIsFinished`, `LifecycleSpec` |
| `pipeline_double_confirm` | 2 requests | finding: `NoDoubleCharge` is violated |
| `pipeline_slow_embed` | 2 workers | finding: `OneBatchOfChunks` is violated |
| `pipeline_raised` | 1 worker, 1 raise, fairness | finding: `ProcessingAlwaysEnds` is violated |
| `pipeline_starved` | 2 documents, `LIMIT` 1, fairness | finding: `ReadyIsFinished` is violated |
| `upload_zone` | 2 files, 1 slot, 2 polls, 2 deletions, fairness | `TypeOK`, `SlotsExact`, `NoIdleSlot`, `PendingIsQueued`, `ConfirmedIsStored`, `EveryUploadSettles` |
| `web_app` | 22 tours of a tab, 3 requests in flight, every fault | `TypeOK`, `ViewerShowsItsDocument`, `SpinnersAreReal`, `OneProviderCall`, `RunIsUniform`, `SelectionIsShown`, `OwnerStays`, `OfferedIsAllowed`, `NoQuestionDropped`, `ConversationGrows`, `ExpandedAreHits`, `PagesMatchToken`, `ComesToRest` |
| `web_new_rows` | 1 tour: a run while the table is filtered, no fault | finding: `NewRowsShown` is violated |
| `sessions` | a user and an administrator, 2 requests of which one may die, 2 connections, 2 wrong passwords, 3 tokens, fairness | `TypeOK`, `CountExact`, `OldTokensAreDead`, `KillSwitch`, `RequestsEnd` |

Two workers and two requests are enough for every pairwise race on one
document; two documents of one organization are enough for the meter, whose
only shared row is the organization's. `OneBatchOfChunks` and `NoChargeWhenDone`
hold when tasks run one at a time and not otherwise: `pipeline_one_worker` and
`pipeline_slow_embed` together say that overlap, not redelivery, is the cause, and
section 5 proves it for any number of workers.

`ProcessingEnds` needs two requests to mean something, and its premises are the
ways in which the code does leave a document processing for ever: a task raises
what `run_ocr` does not handle (`pipeline_raised` shows it), a confirmation is cut
off after it has published, or two confirmations of the document overlap. In the
last case no fault is needed: the first chain finishes, the tasks of the second
one are taken before its request commits and skip, and then the commit sets the
document back to `processing`, where nothing looks for it. What a task itself does,
the calls of its providers included, is taken to end.

Two files for one slot give a file that waits and, since everything stops when
the only slot is lost, the hardest case for liveness; that the slots are right
for any number of files and slots is proved (section 5). A zone is one mounting: one
that is left and opened again has a counter of its own beside the old uploads. The 150 polls are two,
since a poll changes nothing but the count. `MaxDeletes` bounds the documents a
deletion is tried on.

The state of the web application is the product of panels that never meet, so
`web_app` starts from tours (`MCWebApp!MCTours`): a page or panel just mounted or
some time after, the panels visited next, and one to three clicks. Every click
of a panel is possible wherever it is enabled, in a tour of that panel; two or
three of them, with up to three requests in flight, give each pair of handlers
whose requests overlap, a third one between them, and a visit to another panel
meanwhile. Two documents and two templates tell the right subject from a wrong
one; three accounts are an owner, an admin and a member, and the two roles that
may manage are both played; `MaxRows` lets a run meet older rows. What a
click can do between a filtered listing and its pruning is in the tours that start
with selected rows (`Sorting`). A start that is "some time after" is one that the panel reaches from its
mounting by loading and clicks, with nothing in flight. `WebApp!IsTour` says so in
general (`TourAssumption`, which TLC evaluates on every tour and the proofs use),
and `NullAssumption` that null is not a list of organizations. `TypeOK` allows two
fetches more than `MaxCalls`, those of an administrator's page that has just been
loaded.

Two requests give every crossing of logins, refreshes and logouts of one account;
locks, counts and tokens are per account. `MaxFailed` is 2 and `MaxCount` 3, so
that a lock runs out and is set again. There are as many connections as requests,
so that two logins can hold one each and wait for a second; what a larger pool
lets happen (a wrong password counted while another login commits) is covered by
the proofs.

Deadlock checking is off, except in `sessions`: with no message waiting, every
document uploaded and finished and no fault left to happen, the system is at
rest, which is no error.

Fairness (`Pipeline!Fairness`). A request under way is run to its end by the
event loop (WF of `Proceed`). Redis lists are first in first out, so no waiting
message is passed over for ever although others keep coming (SF of `Deliver`).
PostgreSQL queues the waiters of a row lock, so a worker that waits for a row
others keep taking gets it (SF of `Work`). Beat fires the healing task every
120 s (WF of `Heal`), and clocks run (WF of `Age`). Users, operators and faults
are under no obligation. In `UploadZone` the browser runs every continuation
that is due, and a fetch is answered or given up by the network; users,
deletions and the pipeline owe nothing, and the liveness of an upload rests on
the bound of its polling loop. In `WebApp` a redirect happens (WF of `Home` or
`NoToken`), and the oldest request in flight moves on: it is answered or fails, or
what waits for it runs (WF of `Respond(1)` or `Continue(1)`); clicks and other users
owe nothing, and are finitely many in an instance. In `Sessions` the event loop runs
every request under way, PostgreSQL queues the waiters of a row, and the pool
gives up a wait after its time-out (SF of `Step`).

## 5. Proofs

`PipelineProofs` proves, for all constants that satisfy `PipelineAssumption`:

| Theorem | Property |
|---|---|
| `TypeCorrect` | `TypeOK`, and that a busy worker holds a message |
| `UsageExact` | `UsageIsLedger` |
| `MeterRefined` | `MeterSpec` |
| `OverrunIsBounded` | `OverrunBounded` |
| `ChunksHaveDocument` | `NoOrphanChunks` |
| `IndexedHasChunks` | `IndexedIsSearchable` |

* Types: `TypeOK` is not inductive without `JobOK`, because the document and
  organization a worker updates come from the message it holds.
* Meter: the invariant is `MeterInv`. A worker between its charge and its commit
  holds the organization's row, and what it has written is the committed usage
  plus its estimate, within the committed quota. Hence nobody changes usage or
  quota under it, the true-up never clamps, and its commit is one `Bill`.
* Chunks: the invariant adds `DeletionInv`. A deletion past its foreign-key
  check holds the row of every document it deletes, and no chunk of theirs has
  been committed that its DELETE did not see; an insert needs that row.

`PipelineOverlapProofs`, for the same constants, any number of workers and requests
included. `pipeline_double_confirm` and `pipeline_slow_embed` show that these
properties fail in the deployment; the theorems say what it takes. A behaviour has
the property if in all of it:

| Theorem | Property | Premise |
|---|---|---|
| `OneBatchUnlessEmbedsOverlap` | `OneBatchOfChunks` | `EmbedsApart`: no two executions of `embed_document` about one document overlap |
| `NoChargeUnlessReadsOverlap` | `NoChargeWhenDone` | `ReadsAlone`: while `run_ocr` reads a document no other task is at work on it |
| `LifecycleUnlessOverlap` | `LifecycleSpec` | both; `ConfirmsApart`: no two confirmations of one document overlap; and `ConfirmsCommit`: a confirmation that has published its chain commits |

Nothing is assumed of losses, redeliveries, retries, healing or tasks about other
documents, nor, but in the last theorem, of requests. A lock on the document's row
from the check at the start of each task would give the first two premises.

* Tasks (`EmbedInv`, `ReadInv`): what a task has found when it started stays true
  until it ends, since a request or the clock makes no document ready and inserts
  no chunk, and no other task is at work on the document. An embed task is therefore
  after every chunk its document has.
* Life cycle (`LifeInv`): every message, and every task under way, is about a
  document that is confirmed, or that a confirmation with the row's lock is about
  to commit (or that was deleted meanwhile): so a task that gets the row finds it confirmed, and the status it
  stores is the next one.

`UploadZoneProofs`, for all constants that satisfy `UploadAssumption`:

| Theorem | Property |
|---|---|
| `ZoneTypeCorrect` | `TypeOK` |
| `SlotsAreExact` | `SlotsExact` |
| `SlotsAreBusy` | `NoIdleSlot` |
| `QueueIsShown` | `PendingIsQueued` |
| `ObjectsAreStored` | `ConfirmedIsStored` |

* Slots: the four properties are inductive only together (`ZoneInv`). Freeing a
  slot keeps the counter a natural number because the slots are exact; the loop
  of `processNext` adds as many uploads as it takes off the queue because the
  queue holds distinct files that are all pending (`ProcessNextFills`); and one
  call is enough at the end of an upload because no slot was idle before.
* Objects: `StoredInv` adds `ObjectThere`, that from the answer to the PUT to the
  answer to the confirmation the object is in storage unless a deletion took it.

The web application, for all constants that satisfy the assumptions of `Browser`,
`Server` and `WebApp`: any users, documents, templates, tours, faults and number
of fetches in flight. `WebTypeProofs` holds only lemmas.

| Module | Theorem | Property |
|---|---|---|
| `WebTabProofs` | `TabAlways` | `TabInv` |
| | `ShownToItsToken` | `PagesMatchToken` |
| | `OffersAreAllowed` | `OfferedIsAllowed` |
| `WebAppProofs` | `OwnerKept` | `OwnerStays` |
| | `PanelAlways` | `PanelInv` |
| | `SpinnersHaveRequests` | `SpinnersAreReal` |
| | `ViewerIsTrue` | `ViewerShowsItsDocument` |
| | `HitsAreShown` | `ExpandedAreHits` |
| | `OnePaidRequest` | `OneProviderCall` |
| `WebSafetyProofs` | `ConversationKept` | `ConversationGrows` |
| | `SelectedInSight` | `SelectionIsShown` |
| | `QuestionsAreAnswered` | `NoQuestionDropped` |
| | `TypesHold` | `TypeOK` |
| | `RunsAreUniform` | `RunIsUniform` |

* Owner: the only invariant it needs is that every user has an entry in `staff`,
  which holds in every tour by `TourAssumption`. `MayUpdateSpares` is the heart of
  it: the role rules of `update_org_user` read the target's role from the
  database, so a stale role in the token of the actor cannot reach an owner.
* The tab (`TabInv`): a page keeps its type only if what it is given has one, so
  the invariant follows each fetch from the code that sends it to the code it
  resumes. `IsFetch` says which endpoint a continuation may wait for, with which
  arguments, what it has captured, and what an answer then holds; `InTab` that a
  fetch somebody still waits for was sent with the token the tab still has, and
  that the mounted component waits only in its own code. `Managed` says that the
  administrator's page has its organizations while one is being changed, `PagesOK`
  ties the team panel, the dashboard and the organizations to the token.
* The panels (`PanelInv`): for each page, what it says is under way has a fetch in
  flight. That is inductive only with the fetches kept apart: a flag that two
  handlers share goes off with the first of them, so an exclusive handler is alone
  (`Lone`) and there is none while its button is enabled (`Idle`). To prove it once
  for all pages, `Moved` says where each fetch is after a step, and `Steps` that
  every step is quiet for the mounted component, opens a panel, loads a page, or is
  a click or an answer of the panel itself.
* The viewer: a viewer is for one document from its mounting on, and what it waits
  for was asked about that document; nothing else can set its state.
* The selection: a step can put a row on the page, take one off or select one only
  in a click, an answer of the panel or a body of `fetchAll`, and each of them but two
  prunes what it hides. With a filter the rows are shown one body before the pruning
  (`PruningToCome`); that body knows the rows it was read with, so what it leaves
  selected is on the page.
* Questions (`ConvInv`): the questions on the page are at most the answers and the
  fetches that wait for one. The headers of an answer free the input before its
  body is there, so there is no bound on how many overlap: the proof counts them.
* Fetches in flight (`Room`): a click sends only below the bound, an answer goes on
  to one fetch, and two things need more: the end of a run, which sends two where
  there was one, and the administrator's page, which sends two when it is loaded.
  There is room because the runs of the mounted panel are alone (`PanelInv`) and the
  sign-in form sends one fetch from a page that has none.
* Runs (`RunsOK`): besides what the property says of the rows a run has made, their
  identities are below the server's counter, so that no row made later is among
  them; the document under way is neither to come nor among those done; and a
  request whose answer is there counts as done. Every step that is not an answer
  leaves a run's request as it is, starts a new run, or goes on to the next
  document (`Derived`).

`SessionsProofs`, for all constants that satisfy `SessionsAssumption`:

| Theorem | Property |
|---|---|
| `SessionsTypeCorrect` | `TypeOK` |
| `OldTokensStayDead` | `OldTokensAreDead` |
| `DeactivationHolds` | `KillSwitch` |
| `CountIsExact` | `CountExact` |

* Tokens: `Removed` says that a refresh past its DELETE has left no key of the
  token it presents; with tokens made once (`TypeOK`), none comes back.
* Count: `CountInv` says that an account without overlap has at most one login
  under way and that this login knows the count, and whether there is a lock, as
  they are: so the columns its flush leaves out are already reset.

Model-checked only: the five liveness properties, `ProcessingEnds`,
`ReadyIsFinished`, `EveryUploadSettles`, `ComesToRest` and `RequestsEnd`. Liveness
under fairness is beyond the prover. The findings are counterexamples, which TLC
gives.

## 6. Not modelled, and why

Listed with reasons under "components" in `PROJECT.json`. Reads that change no
state, rendering, prompts and export formats are left out for good; the rest is
the plan of section 2. Redis' visibility timeout (a task that runs for over an
hour is delivered again) is not a separate action: its effect, two executions
of one message, is what `WorkerLost` after a commit and two confirmations
already produce.
