------------------------------ MODULE Pipeline ------------------------------
(***************************************************************************)
(* The document pipeline: the API requests that create, confirm and delete *)
(* documents, the Celery tasks run_ocr and embed_document that turn a      *)
(* confirmed upload into searchable chunks, the beat tasks that heal stuck *)
(* documents and reset the monthly page meters, and the operator who edits *)
(* a quota.                                                                *)
(*                                                                         *)
(* Every request and every task execution is ONE PostgreSQL transaction at *)
(* READ COMMITTED.  The variables status, text, chunks, usage and quota    *)
(* hold what is committed; what a transaction has written and not yet      *)
(* committed lives in newUsage, doomed and purged, and the row locks it    *)
(* holds in orgLock, docLock and (for chunk rows) ChunksFree.  A statement *)
(* that would wait for a row lock is an action whose guard is false.       *)
(***************************************************************************)
EXTENDS Naturals, FiniteSets

CONSTANTS
    Docs,           \* document ids
    Orgs,           \* organizations
    OrgOf,          \* the organization that owns each document
    Workers,        \* Celery worker processes
    Requests,       \* API request handlers that run concurrently
    Quotas,         \* values of monthly_page_quota an operator may set
    EstPages,       \* max(1, size_bytes // 50_000) of each document
    MaxPages,       \* most pages the OCR provider reports
    OcrRetries,     \* max_retries of run_ocr
    EmbedRetries,   \* max_retries of embed_document
    HealLimit,      \* LIMIT of the self-healing query
    MaxCopies,      \* bound: no healing while so many equal messages wait
    MaxFaults,      \* bound: how often each kind of fault happens
    MaxBatch,       \* bound: identities available to batches of chunks
    Free, NoJob     \* "no lock holder" and "no message"

Retry == 0 .. (OcrRetries + EmbedRetries)
Batch == 0 .. MaxBatch
FaultKind == {"lost", "raised", "aborted"}

\* A task message in the broker: which task, its argument, request.retries.
Message == [task : {"ocr", "embed"}, doc : Docs, retries : Retry]

ASSUME PipelineAssumption ==
    /\ OrgOf \in [Docs -> Orgs]
    /\ Quotas \subseteq Nat
    /\ EstPages \in [Docs -> Nat \ {0}]
    /\ MaxPages \in Nat \ {0}
    /\ OcrRetries \in Nat /\ EmbedRetries \in Nat
    /\ HealLimit \in Nat /\ MaxCopies \in Nat /\ MaxBatch \in Nat
    /\ MaxFaults \in [FaultKind -> Nat]
    /\ Free \notin Workers \cup Requests
    /\ NoJob \notin Message

VARIABLES
    status, text,       \* documents.status, documents.extracted_text
    aged,               \* documents whose updated_at is over a minute old
    chunks,             \* committed batches of document_chunks, by document
    usage, quota,       \* pages_used_this_month, monthly_page_quota
    orgLock, docLock,   \* who holds the row lock of an organization, document
    queue,              \* the broker: how many copies of each message
    pc, job,            \* where each worker is, and the message it runs
    newUsage,           \* usage as the worker's open transaction has written it
    doomed,             \* batches the worker's DELETE statement is after
    rpc, target,        \* where each request is, and the documents it is about
    purged,             \* batches each deletion's DELETE statement is after
    faults,             \* faults so far, by kind
    ledger              \* history: pages charged since the monthly reset

docVars     == <<status, text, aged, chunks>>
meterVars   == <<usage, quota, ledger>>
workVars    == <<pc, job, newUsage, doomed>>
reqVars     == <<rpc, target, purged>>
workerSide  == <<meterVars, orgLock, workVars>>
requestSide == <<docLock, reqVars>>
vars        == <<docVars, workerSide, requestSide, queue, faults>>

-----------------------------------------------------------------------------
Status == {"absent", "uploaded", "processing", "ready", "indexed", "failed",
           "deleted"}

TypeOK ==
    /\ status \in [Docs -> Status]
    /\ text \in [Docs -> {"none", "blank", "text"}]
    /\ aged \in SUBSET Docs
    /\ chunks \in [Docs -> SUBSET Batch]
    /\ usage \in [Orgs -> Nat]
    /\ quota \in [Orgs -> Quotas]
    /\ orgLock \in [Orgs -> Workers \cup {Free}]
    /\ docLock \in [Docs -> Requests \cup {Free}]
    /\ queue \in [Message -> Nat]
    /\ pc \in [Workers -> {"idle", "charge", "ocr", "publish", "embed",
                           "purge", "provider", "ack"}]
    /\ job \in [Workers -> Message \cup {NoJob}]
    /\ newUsage \in [Workers -> Nat]
    /\ doomed \in [Workers -> SUBSET Batch]
    /\ rpc \in [Requests -> {"idle", "checked", "confirming", "purge",
                             "purged", "deleting"}]
    /\ target \in [Requests -> SUBSET Docs]
    /\ purged \in [Requests -> [Docs -> SUBSET Batch]]
    /\ faults \in [FaultKind -> Nat]
    /\ ledger \in [Orgs -> Nat]

Init ==
    /\ status = [d \in Docs |-> "absent"]
    /\ text = [d \in Docs |-> "none"]
    /\ aged = {}
    /\ chunks = [d \in Docs |-> {}]
    /\ usage = [o \in Orgs |-> 0]
    /\ quota \in [Orgs -> Quotas]
    /\ orgLock = [o \in Orgs |-> Free]
    /\ docLock = [d \in Docs |-> Free]
    /\ queue = [m \in Message |-> 0]
    /\ pc = [w \in Workers |-> "idle"]
    /\ job = [w \in Workers |-> NoJob]
    /\ newUsage = [w \in Workers |-> 0]
    /\ doomed = [w \in Workers |-> {}]
    /\ rpc = [r \in Requests |-> "idle"]
    /\ target = [r \in Requests |-> {}]
    /\ purged = [r \in Requests |-> [d \in Docs |-> {}]]
    /\ faults = [k \in FaultKind |-> 0]
    /\ ledger = [o \in Orgs |-> 0]

-----------------------------------------------------------------------------
(* Rows, row locks and messages. *)

RowExists(d) == status[d] \notin {"absent", "deleted"}

SetStatus_IndexedIsFinal(d, s) ==
    /\ status' = IF RowExists(d) /\ status[d] # "indexed"
                 THEN [status EXCEPT ![d] = s] ELSE status
    /\ aged' = aged \ {d}

\* DocumentRepository.set_status: UPDATE ... WHERE id = d.  It matches no row
\* of a deleted document, and it refreshes updated_at.
SetStatus(d, s) ==
    /\ status' = IF RowExists(d) THEN [status EXCEPT ![d] = s] ELSE status
    /\ aged' = aged \ {d}

OrgRowFree(o) == orgLock[o] = Free
DocRowFree(d) == docLock[d] = Free

\* No other open transaction has deleted one of these chunk rows of d.
ChunksFree(me, d, rows) ==
    /\ \A v \in Workers \ {me} :
          (pc[v] = "provider" /\ job[v].doc = d) => doomed[v] \cap rows = {}
    /\ \A q \in Requests \ {me} :
          rpc[q] \in {"purged", "deleting"} => purged[q][d] \cap rows = {}

\* The identity of a new batch of chunk rows: the least one no table row and no
\* statement in progress refers to (the code draws a fresh uuid4 per row).
Fresh(d, b) ==
    LET inUse == chunks[d] \cup UNION {doomed[v] : v \in Workers}
                           \cup UNION {purged[q][d] : q \in Requests}
    IN  b \notin inUse /\ \A c \in Batch : c < b => c \in inUse

OcrMessage(d)   == [task |-> "ocr", doc |-> d, retries |-> 0]
EmbedMessage(d) == [task |-> "embed", doc |-> d, retries |-> 0]
Again(m)        == [m EXCEPT !.retries = @ + 1]

Send(m) == queue' = [queue EXCEPT ![m] = @ + 1]

Fault(k) ==
    /\ faults[k] < MaxFaults[k]
    /\ faults' = [faults EXCEPT ![k] = @ + 1]

-----------------------------------------------------------------------------
(* API requests. *)

Finish(r) ==
    /\ rpc' = [rpc EXCEPT ![r] = "idle"]
    /\ target' = [target EXCEPT ![r] = {}]
    /\ purged' = [purged EXCEPT ![r] = [d \in Docs |-> {}]]

Unlocked(r) == [d \in Docs |-> IF docLock[d] = r THEN Free ELSE docLock[d]]

\* POST /documents/init: the quota check only reads the committed usage.
InitUpload(d) ==
    /\ status[d] = "absent"
    /\ usage[OrgOf[d]] < quota[OrgOf[d]]
    /\ status' = [status EXCEPT ![d] = "uploaded"]
    /\ UNCHANGED <<workerSide, requestSide, text, aged, chunks, queue, faults>>

\* POST /documents/confirm, up to its status check: the row is read, not locked.
ConfirmCheck(r) ==
    /\ rpc[r] = "idle"
    /\ \E d \in Docs :
          /\ status[d] = "uploaded"
          /\ target' = [target EXCEPT ![r] = {d}]
    /\ rpc' = [rpc EXCEPT ![r] = "checked"]
    /\ UNCHANGED <<workerSide, docVars, docLock, queue, purged, faults>>

\* set_status(PROCESSING) locks the row, then launch_pipeline publishes the
\* chain; the transaction is still open.
ConfirmDispatch(r) ==
    /\ rpc[r] = "checked"
    /\ \E d \in target[r] :
          /\ DocRowFree(d) /\ RowExists(d)
          /\ docLock' = [docLock EXCEPT ![d] = r]
          /\ Send(OcrMessage(d))
    /\ rpc' = [rpc EXCEPT ![r] = "confirming"]
    /\ UNCHANGED <<workerSide, docVars, target, purged, faults>>

\* The row was deleted since the check: the UPDATE matches nothing, the chain
\* is published all the same, and the re-fetch's assertion fails the request.
ConfirmOrphan(r) ==
    /\ rpc[r] = "checked"
    /\ \E d \in target[r] :
          /\ DocRowFree(d) /\ ~RowExists(d)
          /\ Send(OcrMessage(d))
    /\ Finish(r)
    /\ UNCHANGED <<workerSide, docVars, docLock, faults>>

ConfirmCommit(r) ==
    /\ rpc[r] = "confirming"
    /\ \E d \in target[r] : SetStatus(d, "processing")
    /\ docLock' = Unlocked(r)
    /\ Finish(r)
    /\ UNCHANGED <<workerSide, text, chunks, queue, faults>>

\* POST /documents/bulk/delete: every document must exist; then the DELETE of
\* the chunk rows starts and sees the chunks committed now.
DeleteBegin(r) ==
    /\ rpc[r] = "idle"
    /\ \E S \in SUBSET Docs \ {{}} :
          /\ \A d \in S : RowExists(d)
          /\ target' = [target EXCEPT ![r] = S]
          /\ purged' = [purged EXCEPT ![r] =
                          [d \in Docs |-> IF d \in S THEN chunks[d] ELSE {}]]
    /\ rpc' = [rpc EXCEPT ![r] = "purge"]
    /\ UNCHANGED <<workerSide, docVars, docLock, queue, faults>>

\* It waits for the transactions that lock some of those rows, then deletes and
\* locks the ones still there.
DeleteChunks(r) ==
    /\ rpc[r] = "purge"
    /\ \A d \in target[r] : ChunksFree(r, d, purged[r][d])
    /\ purged' = [purged EXCEPT ![r] =
                    [d \in Docs |-> purged[r][d] \cap chunks[d]]]
    /\ rpc' = [rpc EXCEPT ![r] = "purged"]
    /\ UNCHANGED <<workerSide, docVars, docLock, queue, target, faults>>

\* The foreign key document_chunks.document_id holds for r's DELETE.
NoChunkLeft(r) == \A d \in target[r] : chunks[d] \subseteq purged[r][d]

DeletionReady(r) ==
    /\ rpc[r] = "purged"
    /\ \A d \in target[r] : DocRowFree(d)

\* The rows are deleted and locked; the R2 objects go next, then the commit.
DeleteRows(r) ==
    /\ DeletionReady(r)
    /\ NoChunkLeft(r)
    /\ docLock' = [d \in Docs |-> IF d \in target[r] /\ RowExists(d)
                                  THEN r ELSE docLock[d]]
    /\ rpc' = [rpc EXCEPT ![r] = "deleting"]
    /\ UNCHANGED <<workerSide, docVars, queue, target, purged, faults>>

\* A chunk committed after the statement began still refers to the document:
\* the foreign key check raises and the request is rolled back.
DeleteBlocked(r) ==
    /\ DeletionReady(r)
    /\ ~NoChunkLeft(r)
    /\ Finish(r)
    /\ UNCHANGED <<workerSide, docVars, docLock, queue, faults>>

DeleteCommit(r) ==
    /\ rpc[r] = "deleting"
    /\ status' = [d \in Docs |-> IF d \in target[r] THEN "deleted"
                                                    ELSE status[d]]
    /\ text' = [d \in Docs |-> IF d \in target[r] THEN "none" ELSE text[d]]
    /\ aged' = aged \ target[r]
    /\ chunks' = [d \in Docs |-> IF d \in target[r]
                                 THEN chunks[d] \ purged[r][d] ELSE chunks[d]]
    /\ docLock' = Unlocked(r)
    /\ Finish(r)
    /\ UNCHANGED <<workerSide, queue, faults>>

\* The API process dies, or the commit fails, after the request's side effects.
RequestAbort(r) ==
    /\ rpc[r] \in {"confirming", "deleting"}
    /\ Fault("aborted")
    /\ docLock' = Unlocked(r)
    /\ Finish(r)
    /\ UNCHANGED <<workerSide, docVars, queue>>

-----------------------------------------------------------------------------
(* Worker executions: taking, publishing, acknowledging and losing. *)

Take(w, m, next) ==
    /\ pc[w] = "idle"
    /\ queue[m] > 0
    /\ queue' = [queue EXCEPT ![m] = @ - 1]
    /\ job' = [job EXCEPT ![w] = m]
    /\ pc' = [pc EXCEPT ![w] = next]
    /\ UNCHANGED <<requestSide, docVars, meterVars, orgLock, newUsage, doomed,
                   faults>>

\* The transaction of w ends: what it had not committed and its locks are gone.
EndTransaction(w, next) ==
    /\ pc' = [pc EXCEPT ![w] = next]
    /\ newUsage' = [newUsage EXCEPT ![w] = 0]
    /\ doomed' = [doomed EXCEPT ![w] = {}]
    /\ orgLock' = [o \in Orgs |-> IF orgLock[o] = w THEN Free ELSE orgLock[o]]

\* run_ocr returned: Celery publishes the next task of the chain ...
PublishNext(w) ==
    /\ pc[w] = "publish"
    /\ Send(EmbedMessage(job[w].doc))
    /\ pc' = [pc EXCEPT ![w] = "ack"]
    /\ UNCHANGED <<requestSide, docVars, meterVars, orgLock, job, newUsage,
                   doomed, faults>>

\* ... and only then acknowledges the message (task_acks_late).
Ack(w) ==
    /\ pc[w] = "ack"
    /\ pc' = [pc EXCEPT ![w] = "idle"]
    /\ job' = [job EXCEPT ![w] = NoJob]
    /\ UNCHANGED <<requestSide, docVars, meterVars, orgLock, queue, newUsage,
                   doomed, faults>>

Redeliver_AckedEarly(m) == UNCHANGED queue

\* task_reject_on_worker_lost: an unacknowledged message goes back.
Redeliver(m) == Send(m)

\* The worker process dies at any point before the acknowledgement.
WorkerLost(w) ==
    /\ pc[w] # "idle"
    /\ Fault("lost")
    /\ Redeliver(job[w])
    /\ EndTransaction(w, "idle")
    /\ job' = [job EXCEPT ![w] = NoJob]
    /\ UNCHANGED <<requestSide, docVars, meterVars>>

\* An exception no handler catches: the transaction rolls back, the message is
\* acknowledged as failed and the chain stops.
TaskRaises(w) ==
    /\ pc[w] \in {"charge", "ocr", "embed", "provider"}
    /\ Fault("raised")
    /\ EndTransaction(w, "ack")
    /\ UNCHANGED <<requestSide, docVars, meterVars, queue, job>>

\* task.retry publishes the message again with retries + 1, and raises.
RetryTask(w) ==
    /\ Send(Again(job[w]))
    /\ EndTransaction(w, "ack")
    /\ UNCHANGED <<requestSide, docVars, meterVars, job, faults>>

-----------------------------------------------------------------------------
(* run_ocr. *)

HasOcr_ReadyForgotten(d) == status[d] = "indexed"

\* The statuses that mean "OCR is done already" (ocr_done is never written).
HasOcr(d) == status[d] \in {"ready", "indexed"}

OcrTake(w, m) ==
    /\ m.task = "ocr"
    /\ Take(w, m, IF RowExists(m.doc) /\ ~HasOcr(m.doc)
                  THEN "charge" ELSE "publish")

\* The organization w works for, and the estimate it is charged first.
OrgFor(w) == OrgOf[job[w].doc]
Estimate(w) == EstPages[job[w].doc]

WithinQuota_SoftCheck(w) == usage[OrgFor(w)] < quota[OrgFor(w)]

\* check_and_increment_quota's WHERE clause.
WithinQuota(w) == usage[OrgFor(w)] + Estimate(w) <= quota[OrgFor(w)]

ChargeEstimate_ReadThenWrite(w) ==
    /\ pc[w] = "charge"
    /\ WithinQuota(w)
    /\ newUsage' = [newUsage EXCEPT ![w] = usage[OrgFor(w)] + Estimate(w)]
    /\ pc' = [pc EXCEPT ![w] = "ocr"]
    /\ UNCHANGED <<requestSide, docVars, meterVars, orgLock, queue, job, doomed,
                   faults>>

\* The conditional UPDATE succeeds: the organization's row stays locked until
\* the end of the transaction, across the download and the OCR call.
ChargeEstimate(w) ==
    /\ pc[w] = "charge"
    /\ OrgRowFree(OrgFor(w)) /\ WithinQuota(w)
    /\ orgLock' = [orgLock EXCEPT ![OrgFor(w)] = w]
    /\ newUsage' = [newUsage EXCEPT ![w] = usage[OrgFor(w)] + Estimate(w)]
    /\ pc' = [pc EXCEPT ![w] = "ocr"]
    /\ UNCHANGED <<requestSide, docVars, meterVars, queue, job, doomed,
                   faults>>

RefuseCharge(w) ==
    /\ pc[w] = "charge"
    /\ ~WithinQuota(w)
    /\ DocRowFree(job[w].doc)
    /\ SetStatus(job[w].doc, "failed")
    /\ EndTransaction(w, "publish")
    /\ UNCHANGED <<requestSide, meterVars, text, chunks, queue, job, faults>>

\* COMMIT of a transaction that charged p pages in all and left `used` on the
\* meter.  ledger records what was charged.
CommitCharge(w, used, p) ==
    /\ usage' = [usage EXCEPT ![OrgFor(w)] = used]
    /\ ledger' = [ledger EXCEPT ![OrgFor(w)] = @ + p]

TrueUp_UsageReread(w, p) == usage[OrgFor(w)] + p - Estimate(w)

\* adjust_usage: greatest(0, used + actual - estimate).
TrueUp(w, p) ==
    IF newUsage[w] + p >= Estimate(w) THEN newUsage[w] + p - Estimate(w) ELSE 0

\* What p pages joined by the page separator can be: the empty string when
\* there is no page, or a single empty one.
OcrText(p) == IF p = 0 THEN {"blank"} ELSE IF p = 1 THEN {"blank", "text"}
                                                    ELSE {"text"}

\* OCR returns p pages: READY and the text are stored, the estimate is trued up
\* and all of it commits.
OcrSucceeds(w) ==
    /\ pc[w] = "ocr"
    /\ DocRowFree(job[w].doc)
    /\ \E p \in 0 .. MaxPages :
          /\ \E t \in OcrText(p) :
                text' = IF RowExists(job[w].doc)
                        THEN [text EXCEPT ![job[w].doc] = t] ELSE text
          /\ CommitCharge(w, TrueUp(w, p), p)
    /\ SetStatus(job[w].doc, "ready")
    /\ EndTransaction(w, "publish")
    /\ UNCHANGED <<requestSide, chunks, quota, queue, job, faults>>

\* The R2 download or the OCR call raises, and a retry is left.
OcrRetry(w) ==
    /\ pc[w] = "ocr"
    /\ job[w].retries < OcrRetries
    /\ RetryTask(w)

\* ... and none is left: FAILED commits, and with it the charged estimate.
OcrGivesUp(w) ==
    /\ pc[w] = "ocr"
    /\ job[w].retries >= OcrRetries
    /\ DocRowFree(job[w].doc)
    /\ CommitCharge(w, newUsage[w], Estimate(w))
    /\ SetStatus(job[w].doc, "failed")
    /\ EndTransaction(w, "publish")
    /\ UNCHANGED <<requestSide, text, chunks, quota, queue, job, faults>>

-----------------------------------------------------------------------------
(* embed_document. *)

AlreadyIndexed_Unchecked(d) == FALSE

AlreadyIndexed(d) == status[d] = "indexed"

\* No row, no text or an empty text, or already indexed: nothing to do.
EmbedTake(w, m) ==
    /\ m.task = "embed"
    /\ Take(w, m, IF /\ RowExists(m.doc)
                     /\ text[m.doc] = "text"
                     /\ ~AlreadyIndexed(m.doc)
                  THEN "embed" ELSE "ack")

EmbedPurge_Skipped(w) ==
    /\ pc[w] = "embed"
    /\ pc' = [pc EXCEPT ![w] = "purge"]
    /\ UNCHANGED <<requestSide, docVars, meterVars, orgLock, queue, job,
                   newUsage, doomed, faults>>

\* delete_for_document starts: it sees the chunk rows committed by now ...
EmbedPurge(w) ==
    /\ pc[w] = "embed"
    /\ doomed' = [doomed EXCEPT ![w] = chunks[job[w].doc]]
    /\ pc' = [pc EXCEPT ![w] = "purge"]
    /\ UNCHANGED <<requestSide, docVars, meterVars, orgLock, queue, job,
                   newUsage, faults>>

\* ... waits for the transactions that lock some of them, and deletes (and
\* locks) those that are still there.
EmbedPurged(w) ==
    /\ pc[w] = "purge"
    /\ ChunksFree(w, job[w].doc, doomed[w])
    /\ doomed' = [doomed EXCEPT ![w] = @ \cap chunks[job[w].doc]]
    /\ pc' = [pc EXCEPT ![w] = "provider"]
    /\ UNCHANGED <<requestSide, docVars, meterVars, orgLock, queue, job,
                   newUsage, faults>>

MayInsertChunks_NoForeignKey(d) == TRUE

\* The foreign key of document_chunks: the insert waits for whoever holds the
\* document's row, and needs the row to be there.
MayInsertChunks(d) == RowExists(d) /\ DocRowFree(d)

\* Every batch is embedded: the chunks are inserted, the document becomes
\* INDEXED, and the task commits.
EmbedSucceeds(w) ==
    /\ pc[w] = "provider"
    /\ MayInsertChunks(job[w].doc)
    /\ \E b \in Batch :
          /\ Fresh(job[w].doc, b)
          /\ chunks' = [chunks EXCEPT ![job[w].doc] = (@ \ doomed[w]) \cup {b}]
    /\ SetStatus(job[w].doc, "indexed")
    /\ EndTransaction(w, "ack")
    /\ UNCHANGED <<requestSide, meterVars, text, queue, job, faults>>

\* The document was deleted while it was being embedded: the insert violates
\* the foreign key, nothing commits.
EmbedOrphan(w) ==
    /\ pc[w] = "provider"
    /\ ~RowExists(job[w].doc)
    /\ EndTransaction(w, "ack")
    /\ UNCHANGED <<requestSide, docVars, meterVars, queue, job, faults>>

\* A batch raises, and a retry is left: the deletion is rolled back.
EmbedRetry(w) ==
    /\ pc[w] = "provider"
    /\ job[w].retries < EmbedRetries
    /\ RetryTask(w)

\* ... and none is left: FAILED commits, and with it the deletion.
EmbedGivesUp(w) ==
    /\ pc[w] = "provider"
    /\ job[w].retries >= EmbedRetries
    /\ DocRowFree(job[w].doc)
    /\ chunks' = [chunks EXCEPT ![job[w].doc] = @ \ doomed[w]]
    /\ SetStatus(job[w].doc, "failed")
    /\ EndTransaction(w, "ack")
    /\ UNCHANGED <<requestSide, meterVars, text, queue, job, faults>>

-----------------------------------------------------------------------------
(* Time, beat tasks and the operator. *)

\* A minute passes since the row's last update.
Age(d) ==
    /\ status[d] = "ready" /\ d \notin aged
    /\ aged' = aged \cup {d}
    /\ UNCHANGED <<workerSide, requestSide, status, text, chunks, queue,
                   faults>>

Stuck_TextMissing(d) ==
    status[d] = "ready" /\ text[d] = "none" /\ d \in aged /\ chunks[d] = {}

\* The WHERE clause of the healing query; an empty text is NOT NULL.
Stuck(d) ==
    status[d] = "ready" /\ text[d] # "none" /\ d \in aged /\ chunks[d] = {}

\* heal_stuck_documents: at most HealLimit of the stuck rows, in no stated
\* order, each sent an embed task of its own.
Heal ==
    /\ \E S \in SUBSET {d \in Docs : Stuck(d)} :
          /\ S # {}
          /\ \/ Cardinality(S) = HealLimit
             \/ /\ Cardinality(S) < HealLimit
                /\ S = {d \in Docs : Stuck(d)}
          /\ \A m \in Message :
                m.task = "embed" /\ m.doc \in S => queue[m] < MaxCopies
          /\ queue' = [m \in Message |->
                         IF \E d \in S : m = EmbedMessage(d)
                         THEN queue[m] + 1 ELSE queue[m]]
    /\ UNCHANGED <<workerSide, requestSide, docVars, faults>>

\* reset_monthly_usage: rows with a committed usage above zero.
ResetUsage(o) ==
    /\ usage[o] > 0
    /\ OrgRowFree(o)
    /\ usage' = [usage EXCEPT ![o] = 0]
    /\ ledger' = [ledger EXCEPT ![o] = 0]
    /\ UNCHANGED <<requestSide, docVars, workVars, quota, orgLock,
                   queue, faults>>

\* PATCH /platform/organizations: monthly_page_quota.
SetQuota(o) ==
    /\ OrgRowFree(o)
    /\ \E q \in Quotas : quota' = [quota EXCEPT ![o] = q]
    /\ UNCHANGED <<requestSide, docVars, workVars, usage, ledger, orgLock,
                   queue, faults>>

-----------------------------------------------------------------------------
\* What a request under way does next, and what starts or breaks one.
Proceed(r) ==
    \/ ConfirmDispatch(r) \/ ConfirmOrphan(r) \/ ConfirmCommit(r)
    \/ DeleteChunks(r) \/ DeleteRows(r) \/ DeleteBlocked(r) \/ DeleteCommit(r)

Request(r) == ConfirmCheck(r) \/ DeleteBegin(r) \/ Proceed(r) \/ RequestAbort(r)

Deliver(m) == \E w \in Workers : OcrTake(w, m) \/ EmbedTake(w, m)

\* What a worker does with the message it has.
RunOcr(w) ==
    \/ ChargeEstimate(w) \/ RefuseCharge(w)
    \/ OcrSucceeds(w) \/ OcrRetry(w) \/ OcrGivesUp(w) \/ PublishNext(w)

EmbedDocument(w) ==
    \/ EmbedPurge(w) \/ EmbedPurged(w)
    \/ EmbedSucceeds(w) \/ EmbedOrphan(w) \/ EmbedRetry(w) \/ EmbedGivesUp(w)

Work(w) == RunOcr(w) \/ EmbedDocument(w) \/ Ack(w)

Next ==
    \/ \E d \in Docs : InitUpload(d) \/ Age(d)
    \/ \E r \in Requests : Request(r)
    \/ \E m \in Message : Deliver(m)
    \/ \E w \in Workers : Work(w) \/ WorkerLost(w) \/ TaskRaises(w)
    \/ Heal
    \/ \E o \in Orgs : ResetUsage(o) \/ SetQuota(o)

Spec == Init /\ [][Next]_vars

\* The fairness the deployment gives.  A request that has begun is run to its
\* end, beat fires heal_stuck_documents every two minutes, and time passes.
\* The broker's lists are first in first out, so no message is passed over for
\* ever; PostgreSQL queues the waiters of a row lock, so no task is either.
\* Nothing obliges a user, an operator or a fault to act.
Fairness ==
    /\ \A r \in Requests : WF_vars(Proceed(r))
    /\ \A m \in Message : SF_vars(Deliver(m))
    /\ \A w \in Workers : SF_vars(Work(w))
    /\ \A d \in Docs : WF_vars(Age(d))
    /\ WF_vars(Heal)

FairSpec == Spec /\ Fairness
-----------------------------------------------------------------------------
(* Properties. *)

\* The meter never loses an update: pages_used_this_month is exactly what the
\* committed run_ocr transactions charged since the last monthly reset, however
\* workers, the reset and the operator interleave.  It rests on run_ocr keeping
\* the organization's row locked from the charge to the commit.
UsageIsLedger == \A o \in Orgs : usage[o] = ledger[o]

\* A document shown as indexed can be searched: it has chunks.  Concurrent,
\* repeated and failing embed tasks, which delete chunks before they insert any,
\* never leave an indexed document empty.
IndexedIsSearchable == \A d \in Docs : status[d] = "indexed" => chunks[d] # {}

\* No chunk outlives its document: bulk_delete and an embed task that overlap
\* never leave rows of document_chunks behind a deleted document.
NoOrphanChunks == \A d \in Docs : chunks[d] # {} => RowExists(d)

\* "Re-running a task does not duplicate chunks": a document has one batch.
OneBatchOfChunks == \A d \in Docs : Cardinality(chunks[d]) <= 1

\* run_ocr's guard "already processed - no double charge": no transaction
\* commits a charge for a document that is ready or indexed by then.
NoChargeWhenDone ==
    [][\A w \in Workers :
          pc[w] = "ocr" /\ pc'[w] = "publish"
              => status[job[w].doc] \notin {"ready", "indexed"}]_vars

\* "Re-running a task does not re-charge": no transaction commits a charge for
\* a document whose text an earlier one has stored.
NoDoubleCharge ==
    [][\A w \in Workers :
          pc[w] = "ocr" /\ pc'[w] = "publish" => text[job[w].doc] = "none"]_vars

\* Only a true-up lifts the meter over the quota: a step that raises an
\* organization's usage ends over its quota by no more than one document was
\* longer than its estimate, however many are in flight (monthly_page_quota is
\* enforced before the paid call).
OverrunBounded ==
    [][\A o \in Orgs :
          usage'[o] > quota[o] /\ usage'[o] > usage[o]
              => \E d \in Docs :
                    usage'[o] + EstPages[d] <= quota[o] + MaxPages]_vars

\* The charge, the true-up and the failure path of run_ocr together behave like
\* one atomic step of the abstract page meter.
Meter == INSTANCE PageMeter WITH Estimates <- {EstPages[d] : d \in Docs}
MeterSpec == Meter!Spec

\* A document moves through its states as the upload flow promises, and an
\* indexed document stays so until it is deleted.
Cycle == INSTANCE Lifecycle WITH phase <- status
LifecycleSpec == Cycle!Spec

\* The confirmations of d that have passed the status check and not ended.
Confirming(d) ==
    {r \in Requests : rpc[r] \in {"checked", "confirming"} /\ d \in target[r]}

\* A document whose confirmations never overlap does not stay processing, even
\* when workers die, unless a task raises what run_ocr does not handle or a
\* request is cut off before its commit.  With two confirmations in flight it
\* may hang with no fault at all: the second publishes its chain and commits its
\* stale `processing` when the first one's chain has finished and its own has
\* skipped.  A task's own work, the provider's call included, is taken to end.
ProcessingEnds ==
    \A d \in Docs :
        ( /\ [](Cardinality(Confirming(d)) <= 1)
          /\ [](faults["raised"] = 0 /\ faults["aborted"] = 0) )
        => (status[d] = "processing" ~> status[d] # "processing")

\* "Tasks retry automatically, acks_late means no loss": processing comes to an
\* end whatever a task raises.
ProcessingAlwaysEnds ==
    \A d \in Docs : status[d] = "processing" ~> status[d] # "processing"

\* "Stuck documents that missed their embed chain are re-dispatched": a
\* document with text does not stay ready, even when embed_document raised.
ReadyIsFinished ==
    \A d \in Docs :
        (status[d] = "ready" /\ text[d] = "text") ~> (status[d] # "ready")

=============================================================================
