----------------------- MODULE PipelineOverlapProofs ------------------------
(***************************************************************************)
(* Why documents are charged twice, indexed twice or leave their life      *)
(* cycle: only because two executions about ONE document overlap, or       *)
(* because a request is cut off after it has published its chain.  For any *)
(* number of workers, requests and documents, every retry limit and        *)
(* however often workers are lost, a behaviour in which that never happens *)
(* has the property; tasks about different documents may overlap freely.   *)
(***************************************************************************)
EXTENDS PipelineProofs, FiniteSetTheorems

\* What w is doing about the document d.
Reading(w, d)   == pc[w] \in {"charge", "ocr"} /\ job[w].doc = d
Embedding(w, d) == pc[w] \in {"embed", "purge", "provider"} /\ job[w].doc = d

\* No two executions of embed_document about one document overlap, and while
\* run_ocr reads a document no other task is at work on it.
EmbedsApart ==
    \A d \in Docs : \A v, w \in Workers :
        Embedding(v, d) /\ Embedding(w, d) => v = w
ReadsAlone ==
    \A d \in Docs : \A v, w \in Workers :
        Reading(v, d) /\ (Reading(w, d) \/ Embedding(w, d)) => v = w

\* No two confirmations of one document overlap.
ConfirmsApart ==
    \A d \in Docs : \A q, r \in Confirming(d) : q = r

\* A confirmation that has published its chain commits.  (A deletion may be cut
\* off.)
Committed ==
    \A r \in Requests :
        rpc[r] = "confirming" /\ rpc'[r] = "idle"
            => \E d \in target[r] : status'[d] = "processing"
ConfirmsCommit == [][Committed]_vars

-----------------------------------------------------------------------------
(* What a task has found when it started stays true until it ends.         *)

\* A document that run_ocr is reading is neither ready nor indexed.
ReadInv ==
    \A w \in Workers : \A d \in Docs :
        Reading(w, d) => status[d] \notin {"ready", "indexed"}

\* The document an embed task is working on is not indexed, and from its DELETE
\* on the task is after every chunk the document has.
EmbedInv ==
    \A w \in Workers : \A d \in Docs : Embedding(w, d) =>
        /\ status[d] # "indexed"
        /\ pc[w] # "embed" => chunks[d] \subseteq doomed[w]

AtMostOne == \A d \in Docs : \A b, c \in chunks[d] : b = c

\* Whatever starts no embed task, inserts no chunk and indexes nothing.
LEMMA EmbedQuiet ==
    ASSUME EmbedInv, AtMostOne,
           \A d \in Docs : chunks'[d] \subseteq chunks[d],
           \A d \in Docs : status'[d] = "indexed" => status[d] = "indexed",
           \A w \in Workers : \A d \in Docs : Embedding(w, d)' =>
               /\ Embedding(w, d)
               /\ pc'[w] # "embed" => pc[w] # "embed" /\ doomed'[w] = doomed[w]
    PROVE  EmbedInv' /\ AtMostOne'
<1>1. AtMostOne'
  BY DEF AtMostOne
<1>2. ASSUME NEW w \in Workers, NEW d \in Docs, Embedding(w, d)'
      PROVE  /\ status'[d] # "indexed"
             /\ pc'[w] # "embed" => chunks'[d] \subseteq doomed'[w]
  <2>1. /\ Embedding(w, d)
        /\ pc'[w] # "embed" => pc[w] # "embed" /\ doomed'[w] = doomed[w]
    BY <1>2
  <2>2. /\ status[d] # "indexed"
        /\ pc[w] # "embed" => chunks[d] \subseteq doomed[w]
    BY <2>1 DEF EmbedInv
  <2> QED
    BY <2>1, <2>2
<1> QED
  BY <1>1, <1>2 DEF EmbedInv

\* A step in which no worker but w changes what it is doing.
OnlyWorker(w) ==
    \A v \in Workers : v # w =>
        pc'[v] = pc[v] /\ job'[v] = job[v] /\ doomed'[v] = doomed[v]

\* What an embed task relies on survives every step while embed tasks are apart.
LEMMA EmbedStep ==
    ASSUME EmbedsApart, TypeOK, JobOK, EmbedInv, AtMostOne, [Next]_vars
    PROVE  EmbedInv' /\ AtMostOne'
<1> DEFINE Goal == EmbedInv' /\ AtMostOne'
<1> USE DEF docVars, meterVars, workVars, reqVars, workerSide, requestSide
<1>1. ASSUME UNCHANGED <<pc, job, doomed>>,
             \A d \in Docs : chunks'[d] \subseteq chunks[d],
             \A d \in Docs : status'[d] = "indexed" => status[d] = "indexed"
      PROVE  Goal
  BY <1>1, EmbedQuiet DEF Embedding
<1>2. ASSUME NEW r \in Requests, Request(r)
      PROVE  Goal
  <2>1. UNCHANGED <<pc, job, doomed>>
    BY <1>2 DEF Request, Proceed, ConfirmCheck, ConfirmDispatch, ConfirmOrphan,
         ConfirmCommit, DeleteBegin, DeleteChunks, DeleteRows, DeleteBlocked,
         DeleteCommit, RequestAbort
  <2>2. /\ \A d \in Docs : chunks'[d] \subseteq chunks[d]
        /\ \A d \in Docs : status'[d] = "indexed" => status[d] = "indexed"
    BY <1>2 DEF Request, Proceed, ConfirmCheck, ConfirmDispatch, ConfirmOrphan,
         ConfirmCommit, DeleteBegin, DeleteChunks, DeleteRows, DeleteBlocked,
         DeleteCommit, RequestAbort, SetStatus, TypeOK
  <2> QED
    BY <1>1, <2>1, <2>2
<1>3. ASSUME NEW d \in Docs, InitUpload(d) \/ Age(d)
      PROVE  Goal
  <2>1. UNCHANGED <<pc, job, doomed, chunks>>
    BY <1>3 DEF InitUpload, Age
  <2>2. \A e \in Docs : status'[e] = "indexed" => status[e] = "indexed"
    BY <1>3 DEF InitUpload, Age, TypeOK
  <2> QED
    BY <1>1, <2>1, <2>2
<1>4. CASE Heal \/ \E o \in Orgs : ResetUsage(o) \/ SetQuota(o)
  BY <1>1, <1>4 DEF Heal, ResetUsage, SetQuota
<1>5. CASE UNCHANGED vars
  BY <1>1, <1>5 DEF vars
<1>6. ASSUME NEW m \in Message, NEW w \in Workers,
             OcrTake(w, m) \/ EmbedTake(w, m)
      PROVE  Goal
  <2>1. UNCHANGED <<status, chunks, doomed>> /\ OnlyWorker(w)
    BY <1>6 DEF OcrTake, EmbedTake, Take, OnlyWorker, TypeOK
  <2>2. /\ pc'[w] \in {"purge", "provider"} => FALSE
        /\ pc'[w] = "embed" => job'[w] = m /\ status[m.doc] # "indexed"
    BY <1>6 DEF OcrTake, EmbedTake, Take, TypeOK, AlreadyIndexed
  <2> QED
    BY <2>1, <2>2 DEF EmbedInv, AtMostOne, Embedding, OnlyWorker
<1>7. ASSUME NEW w \in Workers,
             ChargeEstimate(w) \/ PublishNext(w) \/ Ack(w)
      PROVE  Goal
  <2>1. UNCHANGED <<status, chunks, doomed>> /\ OnlyWorker(w)
    BY <1>7 DEF ChargeEstimate, PublishNext, Ack, OnlyWorker, TypeOK
  <2>2. pc'[w] \in {"idle", "ack", "ocr"}
    BY <1>7 DEF ChargeEstimate, PublishNext, Ack, TypeOK
  <2> QED
    BY <2>1, <2>2 DEF EmbedInv, AtMostOne, Embedding, OnlyWorker
<1>8. ASSUME NEW w \in Workers, EmbedPurge(w) \/ EmbedPurged(w)
      PROVE  Goal
  <2>1. UNCHANGED <<status, chunks, job>> /\ OnlyWorker(w)
    BY <1>8 DEF EmbedPurge, EmbedPurged, OnlyWorker, TypeOK
  <2>2. pc[w] \in {"embed", "purge"} /\ job[w].doc \in Docs
    BY <1>8 DEF EmbedPurge, EmbedPurged, JobOK, Message
  <2>3. Embedding(w, job[w].doc)
    BY <2>2 DEF Embedding
  <2>4. pc[w] = "purge" => chunks[job[w].doc] \subseteq doomed[w]
    BY <2>2, <2>3 DEF EmbedInv
  <2>5. chunks[job[w].doc] \subseteq doomed'[w]
    BY <1>8, <2>4 DEF EmbedPurge, EmbedPurged, TypeOK
  <2>6. status[job[w].doc] # "indexed"
    BY <2>2, <2>3 DEF EmbedInv
  <2> QED
    BY <2>1, <2>5, <2>6 DEF EmbedInv, AtMostOne, Embedding, OnlyWorker
<1>9. ASSUME NEW w \in Workers,
             \/ RefuseCharge(w) \/ OcrSucceeds(w) \/ OcrRetry(w) \/ OcrGivesUp(w)
             \/ EmbedOrphan(w) \/ EmbedRetry(w) \/ EmbedGivesUp(w)
             \/ WorkerLost(w) \/ TaskRaises(w)
      PROVE  Goal
  <2>1. PICK next \in {"idle", "publish", "ack"} : EndTransaction(w, next)
    BY <1>9 DEF RefuseCharge, OcrSucceeds, OcrRetry, OcrGivesUp, EmbedOrphan,
         EmbedRetry, EmbedGivesUp, WorkerLost, TaskRaises, RetryTask
  <2>2. \A v \in Workers : v # w => job'[v] = job[v]
    BY <1>9 DEF RefuseCharge, OcrSucceeds, OcrRetry, OcrGivesUp, EmbedOrphan,
         EmbedRetry, EmbedGivesUp, WorkerLost, TaskRaises, RetryTask, TypeOK
  <2>3. pc'[w] = next /\ OnlyWorker(w)
    BY <2>1, <2>2 DEF EndTransaction, OnlyWorker, TypeOK
  <2>4. /\ \A d \in Docs : chunks'[d] \subseteq chunks[d]
        /\ \A d \in Docs : status'[d] = "indexed" => status[d] = "indexed"
    BY <1>9 DEF RefuseCharge, OcrSucceeds, OcrRetry, OcrGivesUp, EmbedOrphan,
         EmbedRetry, EmbedGivesUp, WorkerLost, TaskRaises, RetryTask, SetStatus,
         TypeOK
  <2> QED
    BY <2>3, <2>4, EmbedQuiet DEF Embedding, OnlyWorker
<1>10. ASSUME NEW w \in Workers, EmbedSucceeds(w)
       PROVE  Goal
  <2> DEFINE d == job[w].doc
  <2>1. pc[w] = "provider" /\ d \in Docs /\ UNCHANGED job
    BY <1>10 DEF EmbedSucceeds, JobOK, Message
  <2>2. Embedding(w, d)
    BY <2>1 DEF Embedding
  <2>3. chunks[d] \subseteq doomed[w]
    BY <2>1, <2>2 DEF EmbedInv
  <2>4. PICK b \in Batch :
          chunks' = [chunks EXCEPT ![d] = (@ \ doomed[w]) \cup {b}]
    BY <1>10 DEF EmbedSucceeds
  <2>5. chunks'[d] = {b} /\ \A e \in Docs : e # d => chunks'[e] = chunks[e]
    BY <2>1, <2>3, <2>4 DEF TypeOK
  <2>6. \A e \in Docs : e # d => status'[e] = status[e]
    BY <1>10, <2>1 DEF EmbedSucceeds, SetStatus, TypeOK
  <2>7. pc'[w] = "ack" /\ OnlyWorker(w)
    BY <1>10 DEF EmbedSucceeds, EndTransaction, OnlyWorker, TypeOK
  <2>8. AtMostOne'
    BY <2>5 DEF AtMostOne
  <2>9. ASSUME NEW v \in Workers, NEW e \in Docs, Embedding(v, e)'
        PROVE  /\ status'[e] # "indexed"
               /\ pc'[v] # "embed" => chunks'[e] \subseteq doomed'[v]
    <3>1. v # w
      BY <2>7, <2>9 DEF Embedding
    <3>2. pc'[v] = pc[v] /\ doomed'[v] = doomed[v] /\ Embedding(v, e)
      BY <2>7, <2>9, <3>1 DEF Embedding, OnlyWorker
    <3>3. e # d
      BY <2>1, <2>2, <3>1, <3>2 DEF EmbedsApart
    <3> QED
      BY <2>5, <2>6, <3>2, <3>3 DEF EmbedInv
  <2> QED
    BY <2>8, <2>9 DEF EmbedInv
<1> QED
  BY <1>2, <1>3, <1>4, <1>5, <1>6, <1>7, <1>8, <1>9, <1>10
     DEF Next, Deliver, Work, RunOcr, EmbedDocument

LEMMA EmbedAlways == Spec /\ []EmbedsApart => [](EmbedInv /\ AtMostOne)
<1>1. Init => EmbedInv /\ AtMostOne
  BY DEF Init, EmbedInv, AtMostOne, Embedding
<1>2. EmbedsApart /\ TypeOK /\ JobOK /\ EmbedInv /\ AtMostOne /\ [Next]_vars
         => EmbedInv' /\ AtMostOne'
  BY EmbedStep
<1> QED
  BY <1>1, <1>2, TypeCorrect, PTL DEF Spec

\* A document's chunks are duplicated only if two executions of embed_document
\* about it overlap: while none do, it has one batch of chunks, however its task
\* is lost, redelivered, retried or dispatched again (property OneBatchOfChunks).
THEOREM OneBatchUnlessEmbedsOverlap ==
    Spec => ([]EmbedsApart => []OneBatchOfChunks)
<1>1. ASSUME AtMostOne
      PROVE  OneBatchOfChunks
  <2> SUFFICES ASSUME NEW d \in Docs
               PROVE  Cardinality(chunks[d]) <= 1
    BY DEF OneBatchOfChunks
  <2>1. CASE chunks[d] = {}
    BY <2>1, FS_EmptySet
  <2>2. CASE chunks[d] # {}
    <3>1. PICK b : chunks[d] = {b}
      BY <1>1, <2>2 DEF AtMostOne
    <3>2. Cardinality({b}) = 1
      BY FS_Singleton
    <3>3. Cardinality(chunks[d]) = 1
      BY <3>1, <3>2
    <3> QED
      BY <3>3
  <2> QED
    BY <2>1, <2>2
<1> QED
  BY <1>1, EmbedAlways, PTL

-----------------------------------------------------------------------------
(* run_ocr and the documents that are done. *)

LEMMA ReadQuiet ==
    ASSUME ReadInv,
           \A d \in Docs : status'[d] \in {"ready", "indexed"}
                               => status[d] \in {"ready", "indexed"},
           \A w \in Workers : \A d \in Docs : Reading(w, d)' => Reading(w, d)
    PROVE  ReadInv'
  BY DEF ReadInv

\* A worker stores "ready" or "indexed" for the document it is at work on, and
\* ends.
LEMMA ReadDone ==
    ASSUME ReadsAlone, ReadInv, NEW w \in Workers, NEW d \in Docs,
           Reading(w, d) \/ Embedding(w, d),
           \A e \in Docs : e # d => status'[e] = status[e],
           pc'[w] \in {"publish", "ack"}, OnlyWorker(w)
    PROVE  ReadInv'
<1> SUFFICES ASSUME NEW v \in Workers, NEW e \in Docs, Reading(v, e)'
             PROVE  status'[e] \notin {"ready", "indexed"}
  BY DEF ReadInv
<1>1. v # w
  BY DEF Reading
<1>2. Reading(v, e)
  BY <1>1 DEF Reading, OnlyWorker
<1>3. e # d
  BY <1>1, <1>2 DEF ReadsAlone
<1> QED
  BY <1>2, <1>3 DEF ReadInv

LEMMA ReadStep ==
    ASSUME ReadsAlone, TypeOK, JobOK, ReadInv, [Next]_vars
    PROVE  ReadInv'
<1> USE DEF docVars, meterVars, workVars, reqVars, workerSide, requestSide
<1>1. ASSUME UNCHANGED <<pc, job>>,
             \A d \in Docs : status'[d] \in {"ready", "indexed"}
                                 => status[d] \in {"ready", "indexed"}
      PROVE  ReadInv'
  BY <1>1, ReadQuiet DEF Reading
<1>2. ASSUME NEW r \in Requests, Request(r)
      PROVE  ReadInv'
  <2>1. UNCHANGED <<pc, job>>
    BY <1>2 DEF Request, Proceed, ConfirmCheck, ConfirmDispatch, ConfirmOrphan,
         ConfirmCommit, DeleteBegin, DeleteChunks, DeleteRows, DeleteBlocked,
         DeleteCommit, RequestAbort
  <2>2. \A d \in Docs : status'[d] \in {"ready", "indexed"}
                            => status[d] \in {"ready", "indexed"}
    BY <1>2 DEF Request, Proceed, ConfirmCheck, ConfirmDispatch, ConfirmOrphan,
         ConfirmCommit, DeleteBegin, DeleteChunks, DeleteRows, DeleteBlocked,
         DeleteCommit, RequestAbort, SetStatus, TypeOK
  <2> QED
    BY <1>1, <2>1, <2>2
<1>3. ASSUME NEW d \in Docs, InitUpload(d) \/ Age(d)
      PROVE  ReadInv'
  <2>1. UNCHANGED <<pc, job>>
    BY <1>3 DEF InitUpload, Age
  <2>2. \A e \in Docs : status'[e] \in {"ready", "indexed"}
                            => status[e] \in {"ready", "indexed"}
    BY <1>3 DEF InitUpload, Age, TypeOK
  <2> QED
    BY <1>1, <2>1, <2>2
<1>4. CASE Heal \/ \E o \in Orgs : ResetUsage(o) \/ SetQuota(o)
  BY <1>1, <1>4 DEF Heal, ResetUsage, SetQuota
<1>5. CASE UNCHANGED vars
  BY <1>1, <1>5 DEF vars
<1>6. ASSUME NEW m \in Message, NEW w \in Workers,
             OcrTake(w, m) \/ EmbedTake(w, m)
      PROVE  ReadInv'
  <2>1. UNCHANGED status /\ OnlyWorker(w)
    BY <1>6 DEF OcrTake, EmbedTake, Take, OnlyWorker, TypeOK
  <2>2. /\ pc'[w] # "ocr"
        /\ pc'[w] = "charge" =>
              job'[w] = m /\ status[m.doc] \notin {"ready", "indexed"}
    BY <1>6 DEF OcrTake, EmbedTake, Take, TypeOK, HasOcr
  <2> QED
    BY <2>1, <2>2 DEF ReadInv, Reading, OnlyWorker
<1>7. ASSUME NEW w \in Workers, ChargeEstimate(w)
      PROVE  ReadInv'
  <2>1. UNCHANGED <<status, job>> /\ OnlyWorker(w) /\ pc[w] = "charge"
    BY <1>7 DEF ChargeEstimate, OnlyWorker, TypeOK
  <2> QED
    BY <2>1 DEF ReadInv, Reading, OnlyWorker
<1>8. ASSUME NEW w \in Workers,
             \/ RefuseCharge(w) \/ OcrRetry(w) \/ OcrGivesUp(w) \/ PublishNext(w)
             \/ Ack(w) \/ EmbedPurge(w) \/ EmbedPurged(w) \/ EmbedOrphan(w)
             \/ EmbedRetry(w) \/ EmbedGivesUp(w) \/ WorkerLost(w) \/ TaskRaises(w)
      PROVE  ReadInv'
  <2>1. /\ pc'[w] \notin {"charge", "ocr"}
        /\ \A v \in Workers : v # w => pc'[v] = pc[v] /\ job'[v] = job[v]
    BY <1>8 DEF RefuseCharge, OcrRetry, OcrGivesUp, PublishNext, Ack, EmbedPurge,
         EmbedPurged, EmbedOrphan, EmbedRetry, EmbedGivesUp, WorkerLost,
         TaskRaises, RetryTask, EndTransaction, TypeOK
  <2>2. \A d \in Docs : status'[d] \in {"ready", "indexed"}
                            => status[d] \in {"ready", "indexed"}
    BY <1>8 DEF RefuseCharge, OcrRetry, OcrGivesUp, PublishNext, Ack, EmbedPurge,
         EmbedPurged, EmbedOrphan, EmbedRetry, EmbedGivesUp, WorkerLost,
         TaskRaises, RetryTask, SetStatus, TypeOK
  <2> QED
    BY <2>1, <2>2, ReadQuiet DEF Reading
<1>9. ASSUME NEW w \in Workers, OcrSucceeds(w) \/ EmbedSucceeds(w)
      PROVE  ReadInv'
  <2>1. pc[w] \in {"ocr", "provider"} /\ job[w].doc \in Docs
    BY <1>9 DEF OcrSucceeds, EmbedSucceeds, JobOK, Message
  <2>2. Reading(w, job[w].doc) \/ Embedding(w, job[w].doc)
    BY <2>1 DEF Reading, Embedding
  <2>3. \A e \in Docs : e # job[w].doc => status'[e] = status[e]
    BY <1>9, <2>1 DEF OcrSucceeds, EmbedSucceeds, SetStatus, TypeOK
  <2>4. pc'[w] \in {"publish", "ack"} /\ OnlyWorker(w)
    BY <1>9 DEF OcrSucceeds, EmbedSucceeds, EndTransaction, OnlyWorker, TypeOK
  <2> QED
    BY <2>1, <2>2, <2>3, <2>4, ReadDone
<1> QED
  BY <1>2, <1>3, <1>4, <1>5, <1>6, <1>7, <1>8, <1>9
     DEF Next, Deliver, Work, RunOcr, EmbedDocument

LEMMA ReadAlways == Spec /\ []ReadsAlone => []ReadInv
<1>1. Init => ReadInv
  BY DEF Init, ReadInv, Reading
<1>2. ReadsAlone /\ TypeOK /\ JobOK /\ ReadInv /\ [Next]_vars => ReadInv'
  BY ReadStep
<1> QED
  BY <1>1, <1>2, TypeCorrect, PTL DEF Spec

\* A charge is committed for a document that is ready or indexed by then only if
\* another task was at work on it while run_ocr read it (property
\* NoChargeWhenDone).
THEOREM NoChargeUnlessReadsOverlap ==
    Spec => ([]ReadsAlone => NoChargeWhenDone)
<1>1. ReadInv /\ TypeOK /\ JobOK =>
         [\A w \in Workers :
             pc[w] = "ocr" /\ pc'[w] = "publish"
                 => status[job[w].doc] \notin {"ready", "indexed"}]_vars
  BY DEF ReadInv, Reading, JobOK, Message
<1> QED
  BY <1>1, ReadAlways, TypeCorrect, PTL DEF NoChargeWhenDone

-----------------------------------------------------------------------------
(* The life of a document, as Lifecycle has it.  While confirmations of one  *)
(* document do not overlap and commit once they have published, a document   *)
(* waits for run_ocr only when it is confirmed.                              *)

\* Before it has been read, a document has no text.
NoTextYet ==
    \A d \in Docs :
        status[d] \in {"absent", "uploaded", "processing"} => text[d] = "none"

\* What a confirmation has checked is still so, or the document was deleted; once
\* it has published its chain it holds the document's row.
ConfirmInv ==
    \A r \in Requests :
        /\ rpc[r] = "checked" =>
              \E d \in Docs : /\ target[r] = {d}
                              /\ status[d] \in {"uploaded", "deleted"}
        /\ rpc[r] = "confirming" =>
              \E d \in Docs : /\ target[r] = {d}
                              /\ status[d] = "uploaded" /\ docLock[d] = r

\* The document is confirmed, or a confirmation that has published its chain and
\* holds the document's row is about to commit.
Confirmed(d) ==
    \/ status[d] \notin {"absent", "uploaded"}
    \/ \E r \in Requests : rpc[r] = "confirming" /\ d \in target[r]

\* Messages are about confirmed documents, and embed tasks about those that have
\* been read.
MessageInv ==
    /\ \A m \in Message : queue[m] > 0 => Confirmed(m.doc)
    /\ \A w \in Workers :
          /\ pc[w] # "idle" => Confirmed(job[w].doc)
          /\ pc[w] \in {"embed", "purge", "provider"} =>
                status[job[w].doc] \notin {"absent", "uploaded", "processing"}

LifeInv == NoTextYet /\ ConfirmInv /\ MessageInv

LEMMA LifeInit == Init => LifeInv /\ Cycle!Init
  BY DEF Init, LifeInv, NoTextYet, ConfirmInv, MessageInv, Cycle!Init

\* A worker that may write a document's row has a document that is confirmed.
LEMMA WriterConfirmed ==
    ASSUME TypeOK, JobOK, LifeInv, NEW w \in Workers, pc[w] # "idle",
           DocRowFree(job[w].doc)
    PROVE  job[w].doc \in Docs /\ status[job[w].doc] \notin {"absent", "uploaded"}
<1>1. job[w].doc \in Docs
  BY DEF JobOK, Message
<1>2. ASSUME NEW r \in Requests, rpc[r] = "confirming", job[w].doc \in target[r]
      PROVE  FALSE
  BY <1>2, PipelineAssumption DEF LifeInv, ConfirmInv, DocRowFree
<1> QED
  BY <1>1, <1>2 DEF LifeInv, MessageInv, Confirmed

\* A step that leaves the documents and the requests alone.
LEMMA QuietLife ==
    ASSUME LifeInv, UNCHANGED <<status, text, requestSide>>,
           \A m \in Message : queue'[m] > 0 => Confirmed(m.doc),
           \A w \in Workers :
              /\ pc'[w] # "idle" => Confirmed(job'[w].doc)
              /\ pc'[w] \in {"embed", "purge", "provider"} =>
                    status[job'[w].doc] \notin {"absent", "uploaded", "processing"}
    PROVE  LifeInv' /\ [Cycle!Next]_status
<1>1. UNCHANGED <<status, text, rpc, target, docLock>>
  BY DEF requestSide, reqVars
<1> QED
  BY <1>1 DEF LifeInv, NoTextYet, ConfirmInv, MessageInv, Confirmed

\* A worker's transaction stores a status and ends.
LEMMA WriteLife ==
    ASSUME TypeOK, JobOK, LifeInv, NEW w \in Workers, pc[w] # "idle",
           NEW d, d = job[w].doc, DocRowFree(d),
           NEW s \in {"ready", "indexed", "failed"}, SetStatus(d, s),
           NEW next \in {"publish", "ack"}, EndTransaction(w, next),
           UNCHANGED <<requestSide, queue, job>>,
           \A e \in Docs : e # d => text'[e] = text[e]
    PROVE  LifeInv' /\ (status'[d] = s \/ UNCHANGED status)
<1>1. d \in Docs /\ status[d] \notin {"absent", "uploaded"}
  BY WriterConfirmed
<1>2. /\ \A e \in Docs : e # d => status'[e] = status[e]
      /\ status'[d] \in {s, "deleted"}
      /\ status'[d] = s \/ UNCHANGED status
  BY <1>1 DEF SetStatus, RowExists, TypeOK, Status
<1>3. UNCHANGED <<rpc, target, docLock, queue, job>>
  BY DEF requestSide, reqVars
<1>4. NoTextYet'
  BY <1>2 DEF LifeInv, NoTextYet
<1>5. ConfirmInv'
  <2>1. \A e \in Docs : status[e] \in {"uploaded", "deleted"}
                            => status'[e] = status[e]
    BY <1>1, <1>2 DEF SetStatus, RowExists
  <2> QED
    BY <1>3, <2>1 DEF LifeInv, ConfirmInv
<1>6. \A e \in Docs : Confirmed(e) => Confirmed(e)'
  BY <1>2, <1>3 DEF Confirmed
<1>7. \A m \in Message : queue'[m] > 0 => Confirmed(m.doc)'
  BY <1>3, <1>6 DEF LifeInv, MessageInv, Message
<1>8. ASSUME NEW v \in Workers
      PROVE  /\ pc'[v] # "idle" => Confirmed(job[v].doc)'
             /\ pc'[v] \in {"embed", "purge", "provider"} =>
                   status'[job'[v].doc] \notin {"absent", "uploaded", "processing"}
  <2>1. pc'[v] = pc[v] \/ (v = w /\ pc'[v] = next)
    BY DEF EndTransaction, TypeOK
  <2>2. pc'[v] # "idle" => pc[v] # "idle" /\ job[v].doc \in Docs
    BY <2>1 DEF JobOK, Message
  <2>3. pc'[v] # "idle" => Confirmed(job[v].doc)'
    BY <1>3, <1>6, <2>2 DEF LifeInv, MessageInv
  <2> QED
    BY <1>2, <1>3, <2>1, <2>2, <2>3 DEF LifeInv, MessageInv
<1> QED
  BY <1>2, <1>4, <1>5, <1>7, <1>8 DEF LifeInv, MessageInv

LEMMA OcrWrites ==
    ASSUME TypeOK, JobOK, LifeInv, ReadInv, NEW w \in Workers,
           RefuseCharge(w) \/ OcrSucceeds(w) \/ OcrGivesUp(w)
    PROVE  LifeInv' /\ [Cycle!Next]_status
<1> DEFINE d == job[w].doc
<1>1. /\ pc[w] \in {"charge", "ocr"} /\ DocRowFree(d)
      /\ EndTransaction(w, "publish") /\ UNCHANGED <<requestSide, queue, job>>
  BY DEF RefuseCharge, OcrSucceeds, OcrGivesUp
<1>2. d \in Docs /\ status[d] \in {"processing", "failed", "deleted"}
  <2>1. d \in Docs /\ status[d] \notin {"absent", "uploaded"}
    BY <1>1, WriterConfirmed
  <2>2. status[d] \notin {"ready", "indexed"}
    BY <1>1, <2>1 DEF ReadInv, Reading
  <2> QED
    BY <2>1, <2>2 DEF TypeOK, Status
<1>3. \A e \in Docs : e # d => text'[e] = text[e]
  BY <1>2 DEF RefuseCharge, OcrSucceeds, OcrGivesUp, TypeOK
<1>4. PICK s \in {"ready", "failed"} : SetStatus(d, s)
  BY DEF RefuseCharge, OcrSucceeds, OcrGivesUp
<1>5. LifeInv' /\ (status'[d] = s \/ UNCHANGED status)
  BY <1>1, <1>3, <1>4, WriteLife
<1>6. ASSUME s = "ready"
      PROVE  [Cycle!Next]_status
  BY <1>2, <1>4, <1>6
     DEF SetStatus, RowExists, Cycle!Next, Cycle!Read, Cycle!Move
<1>7. ASSUME s = "failed" /\ status[d] = "processing"
      PROVE  [Cycle!Next]_status
  BY <1>2, <1>4, <1>7
     DEF SetStatus, RowExists, Cycle!Next, Cycle!Fail, Cycle!Move
<1>8. ASSUME s = "failed" /\ status[d] # "processing"
      PROVE  [Cycle!Next]_status
  BY <1>2, <1>4, <1>8 DEF SetStatus, RowExists, TypeOK
<1> QED
  BY <1>4, <1>5, <1>6, <1>7, <1>8

LEMMA EmbedWrites ==
    ASSUME TypeOK, JobOK, LifeInv, EmbedInv, NEW w \in Workers,
           EmbedSucceeds(w) \/ EmbedGivesUp(w)
    PROVE  LifeInv' /\ [Cycle!Next]_status
<1> DEFINE d == job[w].doc
<1>1. /\ pc[w] = "provider" /\ DocRowFree(d) /\ UNCHANGED text
      /\ EndTransaction(w, "ack") /\ UNCHANGED <<requestSide, queue, job>>
  BY DEF EmbedSucceeds, EmbedGivesUp, MayInsertChunks
<1>2. d \in Docs /\ status[d] \in {"ready", "failed", "deleted"}
  <2>1. d \in Docs /\ status[d] \notin {"absent", "uploaded", "processing"}
    BY <1>1, WriterConfirmed DEF LifeInv, MessageInv
  <2>2. status[d] # "indexed"
    BY <1>1, <2>1 DEF EmbedInv, Embedding
  <2> QED
    BY <2>1, <2>2 DEF TypeOK, Status
<1>3. PICK s \in {"indexed", "failed"} : SetStatus(d, s)
  BY DEF EmbedSucceeds, EmbedGivesUp
<1>4. LifeInv' /\ (status'[d] = s \/ UNCHANGED status)
  BY <1>1, <1>3, WriteLife
<1>5. ASSUME s = "indexed"
      PROVE  [Cycle!Next]_status
  BY <1>2, <1>3, <1>5
     DEF SetStatus, RowExists, Cycle!Next, Cycle!Index, Cycle!Move
<1>6. ASSUME s = "failed" /\ status[d] = "ready"
      PROVE  [Cycle!Next]_status
  BY <1>2, <1>3, <1>6
     DEF SetStatus, RowExists, Cycle!Next, Cycle!Fail, Cycle!Move
<1>7. ASSUME s = "failed" /\ status[d] # "ready"
      PROVE  [Cycle!Next]_status
  BY <1>2, <1>3, <1>7 DEF SetStatus, RowExists, TypeOK
<1> QED
  BY <1>3, <1>4, <1>5, <1>6, <1>7

\* Messages sent by a worker about its own document.
LEMMA SendLife ==
    ASSUME MessageInv, TypeOK, NEW m, Confirmed(m.doc), Send(m)
    PROVE  \A n \in Message : queue'[n] > 0 => Confirmed(n.doc)
  BY DEF MessageInv, Send, TypeOK

LEMMA WorkLife ==
    ASSUME TypeOK, JobOK, LifeInv, NEW w \in Workers,
           \/ ChargeEstimate(w) \/ OcrRetry(w) \/ PublishNext(w) \/ Ack(w)
           \/ EmbedPurge(w) \/ EmbedPurged(w) \/ EmbedOrphan(w)
           \/ EmbedRetry(w) \/ WorkerLost(w) \/ TaskRaises(w)
    PROVE  LifeInv' /\ [Cycle!Next]_status
<1>1. UNCHANGED <<status, text, requestSide>>
  BY DEF ChargeEstimate, OcrRetry, RetryTask, PublishNext, Ack, EmbedPurge,
         EmbedPurged, EmbedOrphan, EmbedRetry, WorkerLost, TaskRaises, docVars
<1>2. pc[w] # "idle" /\ Confirmed(job[w].doc) /\ job[w] \in Message
  BY DEF ChargeEstimate, OcrRetry, RetryTask, PublishNext, Ack, EmbedPurge,
         EmbedPurged, EmbedOrphan, EmbedRetry, WorkerLost, TaskRaises, LifeInv,
         MessageInv, JobOK
<1>3. \/ UNCHANGED queue
      \/ \E m : m.doc = job[w].doc /\ Send(m)
  BY <1>2 DEF ChargeEstimate, OcrRetry, RetryTask, PublishNext, Ack, EmbedPurge,
         EmbedPurged, EmbedOrphan, EmbedRetry, WorkerLost, TaskRaises, Redeliver,
         EmbedMessage, Again, Message
<1>4. \A m \in Message : queue'[m] > 0 => Confirmed(m.doc)
  BY <1>2, <1>3, SendLife DEF LifeInv, MessageInv
<1>5. \A v \in Workers :
        \/ pc'[v] = pc[v] /\ job'[v] = job[v]
        \/ v = w /\ pc'[v] = "idle"
        \/ v = w /\ pc'[v] \in {"ocr", "ack"} /\ job'[v] = job[v]
        \/ /\ v = w /\ pc[v] \in {"embed", "purge"}
           /\ pc'[v] \in {"purge", "provider"} /\ job'[v] = job[v]
  BY DEF ChargeEstimate, OcrRetry, RetryTask, PublishNext, Ack, EmbedPurge,
         EmbedPurged, EmbedOrphan, EmbedRetry, WorkerLost, TaskRaises,
         EndTransaction, TypeOK
<1>6. \A v \in Workers :
        /\ pc'[v] # "idle" => Confirmed(job'[v].doc)
        /\ pc'[v] \in {"embed", "purge", "provider"} =>
              status[job'[v].doc] \notin {"absent", "uploaded", "processing"}
  BY <1>2, <1>5 DEF LifeInv, MessageInv
<1> QED
  BY <1>1, <1>4, <1>6, QuietLife

\* The requests that are confirming a document are undisturbed by r.
Undisturbed(r) ==
    \A q \in Requests : q # r /\ rpc[q] = "confirming"
        => \A d \in target[q] : status'[d] = status[d] /\ docLock'[d] = docLock[d]

LEMMA RequestLife ==
    ASSUME ConfirmsApart, Committed, TypeOK, LifeInv, DeletionInv,
           JobOK, NEW r \in Requests, Request(r)
    PROVE  LifeInv' /\ [Cycle!Next]_status
<1> DEFINE Goal == LifeInv' /\ [Cycle!Next]_status
<1>1. /\ \A q \in Requests : q # r => rpc'[q] = rpc[q] /\ target'[q] = target[q]
      /\ UNCHANGED <<pc, job>>
  BY DEF Request, Proceed, ConfirmCheck, ConfirmDispatch, ConfirmOrphan,
         ConfirmCommit, DeleteBegin, DeleteChunks, DeleteRows, DeleteBlocked,
         DeleteCommit, RequestAbort, Finish, workerSide, workVars, TypeOK
<1>2. \A w \in Workers : pc[w] # "idle" => job[w].doc \in Docs
  BY DEF JobOK, Message
<1>3. \A q \in Requests : rpc[q] = "confirming" =>
         \E d \in Docs : /\ target[q] = {d} /\ docLock[d] = q
                         /\ status[d] = "uploaded"
  BY DEF LifeInv, ConfirmInv
\* A step of the request that is not the commit of a confirmation.
<1>4. ASSUME UNCHANGED <<status, text>>, rpc[r] # "confirming", ConfirmInv',
             \A m \in Message : queue'[m] > 0 => Confirmed(m.doc)'
      PROVE  Goal
  <2>1. NoTextYet'
    BY <1>4 DEF LifeInv, NoTextYet
  <2>2. \A d : Confirmed(d) => Confirmed(d)'
    BY <1>1, <1>4 DEF Confirmed
  <2> QED
    BY <1>1, <1>4, <2>1, <2>2 DEF LifeInv, MessageInv
<1>5. ASSUME UNCHANGED <<status, text, queue>>, rpc[r] # "confirming",
             rpc'[r] = "checked" =>
                \E d \in Docs : target'[r] = {d} /\ status[d] = "uploaded",
             rpc'[r] # "confirming", Undisturbed(r)
      PROVE  Goal
  <2>1. \A d : Confirmed(d) => Confirmed(d)'
    BY <1>1, <1>5 DEF Confirmed
  <2>2. ConfirmInv'
    BY <1>1, <1>3, <1>5 DEF LifeInv, ConfirmInv, Undisturbed
  <2> QED
    BY <1>4, <1>5, <2>1, <2>2 DEF LifeInv, MessageInv
<1>6. CASE ConfirmCheck(r) \/ DeleteBegin(r) \/ DeleteChunks(r)
           \/ DeleteRows(r) \/ DeleteBlocked(r)
  <2>1. /\ UNCHANGED <<status, text, queue>>
        /\ rpc[r] # "confirming" /\ rpc'[r] # "confirming"
    BY <1>6 DEF ConfirmCheck, DeleteBegin, DeleteChunks, DeleteRows,
         DeletionReady, DeleteBlocked, Finish, docVars, TypeOK
  <2>2. rpc'[r] = "checked" =>
           \E d \in Docs : target'[r] = {d} /\ status[d] = "uploaded"
    BY <1>6 DEF ConfirmCheck, DeleteBegin, DeleteChunks, DeleteRows,
         DeletionReady, DeleteBlocked, Finish, TypeOK
  <2>3. \A d \in Docs : docLock'[d] = docLock[d] \/ docLock[d] = Free
    BY <1>6 DEF ConfirmCheck, DeleteBegin, DeleteChunks, DeleteRows,
         DeletionReady, DeleteBlocked, DocRowFree, TypeOK
  <2>4. Undisturbed(r)
    BY <1>3, <2>1, <2>3, PipelineAssumption DEF Undisturbed
  <2> QED
    BY <1>5, <2>1, <2>2, <2>4
<1>7. CASE ConfirmDispatch(r)
  <2>1. PICK d \in Docs : /\ target[r] = {d}
                          /\ status[d] \in {"uploaded", "deleted"}
    BY <1>7 DEF ConfirmDispatch, LifeInv, ConfirmInv
  <2>2. /\ docLock' = [docLock EXCEPT ![d] = r] /\ Send(OcrMessage(d))
        /\ rpc[r] = "checked" /\ rpc'[r] = "confirming"
        /\ UNCHANGED <<status, text, target>>
        /\ status[d] = "uploaded" /\ docLock[d] = Free
    BY <1>7, <2>1 DEF ConfirmDispatch, DocRowFree, RowExists, docVars, TypeOK
  <2>3. Undisturbed(r)
    BY <1>3, <2>2, PipelineAssumption DEF Undisturbed, TypeOK
  <2>4. target'[r] = {d} /\ status'[d] = "uploaded" /\ docLock'[d] = r
    BY <2>1, <2>2 DEF TypeOK
  <2>5. ConfirmInv'
    BY <1>1, <1>3, <2>2, <2>3, <2>4 DEF LifeInv, ConfirmInv, Undisturbed
  <2>6. Confirmed(d)' /\ \A e : Confirmed(e) => Confirmed(e)'
    BY <1>1, <2>1, <2>2 DEF Confirmed
  <2>7. \A m \in Message : queue'[m] > 0 => Confirmed(m.doc)'
    BY <2>2, <2>6 DEF LifeInv, MessageInv, Send, OcrMessage, TypeOK
  <2> QED
    BY <1>4, <2>2, <2>5, <2>7
<1>8. CASE ConfirmOrphan(r)
  <2>1. PICK d \in Docs : /\ target[r] = {d}
                          /\ status[d] \in {"uploaded", "deleted"}
    BY <1>8 DEF ConfirmOrphan, LifeInv, ConfirmInv
  <2>2. /\ UNCHANGED <<status, text, docLock>>
        /\ rpc[r] = "checked" /\ rpc'[r] = "idle"
        /\ Send(OcrMessage(d)) /\ status[d] = "deleted"
    BY <1>8, <2>1 DEF ConfirmOrphan, Finish, RowExists, docVars, TypeOK
  <2>3. ConfirmInv'
    BY <1>1, <2>2 DEF LifeInv, ConfirmInv
  <2>4. Confirmed(d)' /\ \A e : Confirmed(e) => Confirmed(e)'
    BY <1>1, <2>2 DEF Confirmed
  <2>5. \A m \in Message : queue'[m] > 0 => Confirmed(m.doc)'
    BY <2>2, <2>4 DEF LifeInv, MessageInv, Send, OcrMessage, TypeOK
  <2> QED
    BY <1>4, <2>2, <2>3, <2>5
<1>9. CASE ConfirmCommit(r)
  <2>1. PICK d \in Docs : target[r] = {d} /\ status[d] = "uploaded"
    BY <1>9 DEF ConfirmCommit, LifeInv, ConfirmInv
  <2>2. /\ status' = [status EXCEPT ![d] = "processing"]
        /\ UNCHANGED <<text, queue>>
        /\ docLock' = Unlocked(r)
        /\ rpc'[r] = "idle" /\ rpc[r] = "confirming"
    BY <1>9, <2>1 DEF ConfirmCommit, SetStatus, RowExists, Finish, TypeOK
  <2>3. \A e \in Docs : Confirmed(e) => Confirmed(e)'
    BY <1>1, <2>1, <2>2 DEF Confirmed, TypeOK
  <2>4. ASSUME NEW q \in Requests, q # r, rpc[q] \in {"checked", "confirming"}
        PROVE  d \notin target[q]
    BY <2>1, <2>2, <2>4 DEF ConfirmsApart, Confirming
  <2>5. \A e \in Docs : e # d => status'[e] = status[e]
    BY <2>2 DEF TypeOK
  <2>6. \A e \in Docs : \A q \in Requests :
           q # r /\ docLock[e] = q => docLock'[e] = q
    BY <2>2 DEF Unlocked
  <2>7. ConfirmInv'
    BY <1>1, <2>2, <2>4, <2>5, <2>6 DEF LifeInv, ConfirmInv
  <2>8. NoTextYet'
    BY <2>1, <2>2 DEF LifeInv, NoTextYet, TypeOK
  <2>9. \A m \in Message : queue'[m] > 0 => Confirmed(m.doc)'
    BY <2>2, <2>3 DEF LifeInv, MessageInv, Message
  <2>10. \A w \in Workers :
           /\ pc[w] # "idle" => Confirmed(job[w].doc)'
           /\ pc[w] \in {"embed", "purge", "provider"} =>
                 status'[job[w].doc] \notin {"absent", "uploaded", "processing"}
    BY <1>1, <1>2, <2>1, <2>3, <2>5 DEF LifeInv, MessageInv
  <2>11. Cycle!Next
    BY <2>1, <2>2 DEF Cycle!Next, Cycle!Confirm, Cycle!Move
  <2> QED
    BY <1>1, <2>7, <2>8, <2>9, <2>10, <2>11 DEF LifeInv, MessageInv
<1>10. CASE DeleteCommit(r)
  <2>1. /\ \A d \in Docs :
              \/ status'[d] = "deleted"
              \/ status'[d] = status[d] /\ text'[d] = text[d]
        /\ \A d \in Docs : d \notin target[r] => status'[d] = status[d]
        /\ docLock' = Unlocked(r)
        /\ UNCHANGED queue /\ rpc'[r] = "idle" /\ rpc[r] = "deleting"
    BY <1>10 DEF DeleteCommit, Finish, TypeOK
  <2>2. ASSUME NEW q \in Requests, NEW d \in Docs,
               status[d] = "uploaded", docLock[d] = q, q # r
        PROVE  status'[d] = status[d] /\ docLock'[d] = q
    <3>1. d \notin target[r]
      BY <2>1, <2>2 DEF DeletionInv, RowExists
    <3> QED
      BY <2>1, <2>2, <3>1 DEF Unlocked
  <2>3. \A e \in Docs : Confirmed(e) => Confirmed(e)'
    BY <1>1, <2>1 DEF Confirmed
  <2>4. NoTextYet'
    BY <2>1 DEF LifeInv, NoTextYet
  <2>5. ConfirmInv'
    BY <1>1, <2>1, <2>2 DEF LifeInv, ConfirmInv
  <2>6. \A m \in Message : queue'[m] > 0 => Confirmed(m.doc)'
    BY <2>1, <2>3 DEF LifeInv, MessageInv, Message
  <2>7. \A w \in Workers :
           /\ pc[w] # "idle" => Confirmed(job[w].doc)'
           /\ pc[w] \in {"embed", "purge", "provider"} =>
                 status'[job[w].doc] \notin {"absent", "uploaded", "processing"}
    BY <1>1, <1>2, <2>1, <2>3 DEF LifeInv, MessageInv
  <2>8. Cycle!DeleteSet(target[r]) /\ target[r] \in SUBSET Docs
    BY <1>10 DEF DeleteCommit, DeletionInv, Cycle!DeleteSet, TypeOK
  <2>9. Cycle!Next
    BY <2>8 DEF Cycle!Next, Cycle!Delete
  <2> QED
    BY <1>1, <2>4, <2>5, <2>6, <2>7, <2>9 DEF LifeInv, MessageInv
<1>11. CASE RequestAbort(r)
  <2>1. /\ UNCHANGED <<status, text, queue>> /\ docLock' = Unlocked(r)
        /\ rpc[r] \in {"confirming", "deleting"} /\ rpc'[r] = "idle"
    BY <1>11 DEF RequestAbort, Finish, docVars, TypeOK
  <2>2. rpc[r] # "confirming"
    BY <1>3, <2>1 DEF Committed
  <2>3. Undisturbed(r)
    BY <1>3, <2>1 DEF Undisturbed, Unlocked
  <2> QED
    BY <1>5, <2>1, <2>2, <2>3
<1> QED
  BY <1>6, <1>7, <1>8, <1>9, <1>10, <1>11 DEF Request, Proceed

LEMMA LifeStep ==
    ASSUME ConfirmsApart, Committed, TypeOK, JobOK, ReadInv, EmbedInv,
           DeletionInv, LifeInv, Next \/ UNCHANGED vars
    PROVE  LifeInv' /\ [Cycle!Next]_status
<1> DEFINE Goal == LifeInv' /\ [Cycle!Next]_status
<1>1. ASSUME UNCHANGED <<status, text, requestSide, pc, job>>,
             \A m \in Message : queue'[m] > 0 => Confirmed(m.doc)
      PROVE  Goal
  BY <1>1, QuietLife DEF LifeInv, MessageInv
<1>2. ASSUME NEW d \in Docs, InitUpload(d)
      PROVE  Goal
  <2>1. /\ status[d] = "absent" /\ status' = [status EXCEPT ![d] = "uploaded"]
        /\ UNCHANGED <<text, rpc, target, docLock, queue, pc, job>>
    BY <1>2 DEF InitUpload, workerSide, workVars, requestSide, reqVars
  <2>2. NoTextYet' /\ ConfirmInv'
    BY <2>1 DEF LifeInv, NoTextYet, ConfirmInv, TypeOK
  <2>3. \A e \in Docs : Confirmed(e) => Confirmed(e)'
    BY <2>1 DEF Confirmed, TypeOK
  <2>4. \A m \in Message : queue'[m] > 0 => Confirmed(m.doc)'
    BY <2>1, <2>3 DEF LifeInv, MessageInv, Message
  <2>5. \A w \in Workers : pc[w] # "idle" => job[w].doc \in Docs
    BY DEF JobOK, Message
  <2>6. \A w \in Workers :
           /\ pc[w] # "idle" => Confirmed(job[w].doc)'
           /\ pc[w] \in {"embed", "purge", "provider"} =>
                 status'[job[w].doc] \notin {"absent", "uploaded", "processing"}
    BY <2>1, <2>3, <2>5 DEF LifeInv, MessageInv, TypeOK
  <2>7. Cycle!Next
    BY <2>1 DEF Cycle!Next, Cycle!Upload, Cycle!Move
  <2> QED
    BY <2>1, <2>2, <2>4, <2>6, <2>7 DEF LifeInv, MessageInv
<1>3. ASSUME NEW d \in Docs, Age(d)
      PROVE  Goal
  <2>1. UNCHANGED <<status, text, requestSide, pc, job, queue>>
    BY <1>3 DEF Age, workerSide, workVars
  <2> QED
    BY <1>1, <2>1 DEF LifeInv, MessageInv
<1>4. ASSUME NEW o \in Orgs, ResetUsage(o) \/ SetQuota(o)
      PROVE  Goal
  <2>1. UNCHANGED <<status, text, requestSide, pc, job, queue>>
    BY <1>4 DEF ResetUsage, SetQuota, docVars, workVars
  <2> QED
    BY <1>1, <2>1 DEF LifeInv, MessageInv
<1>5. CASE Heal
  <2>1. PICK S \in SUBSET {d \in Docs : Stuck(d)} :
          queue' = [m \in Message |-> IF \E d \in S : m = EmbedMessage(d)
                                      THEN queue[m] + 1 ELSE queue[m]]
    BY <1>5 DEF Heal
  <2>2. \A m \in Message : queue'[m] > 0 => Confirmed(m.doc)
    BY <2>1 DEF LifeInv, MessageInv, Confirmed, Stuck, EmbedMessage
  <2>3. UNCHANGED <<status, text, requestSide, pc, job>>
    BY <1>5 DEF Heal, docVars, workerSide, workVars
  <2> QED
    BY <1>1, <2>2, <2>3
<1>6. CASE UNCHANGED vars
  <2>1. UNCHANGED <<status, text, requestSide, pc, job, queue>>
    BY <1>6 DEF vars, docVars, workerSide, workVars
  <2> QED
    BY <1>1, <2>1 DEF LifeInv, MessageInv
<1>7. ASSUME NEW m \in Message, NEW w \in Workers,
             OcrTake(w, m) \/ EmbedTake(w, m)
      PROVE  Goal
  <2>1. /\ queue[m] > 0 /\ queue' = [queue EXCEPT ![m] = @ - 1]
        /\ job' = [job EXCEPT ![w] = m]
        /\ UNCHANGED <<status, text, requestSide>>
        /\ \A v \in Workers : v # w => pc'[v] = pc[v]
    BY <1>7 DEF OcrTake, EmbedTake, Take, docVars, TypeOK
  <2>2. Confirmed(m.doc) /\ m.doc \in Docs
    BY <2>1 DEF LifeInv, MessageInv, Message
  <2>3. pc'[w] \in {"embed", "purge", "provider"} =>
           RowExists(m.doc) /\ text[m.doc] = "text"
    BY <1>7 DEF OcrTake, EmbedTake, Take, TypeOK
  <2>4. \A n \in Message : queue'[n] > 0 => Confirmed(n.doc)
    BY <2>1 DEF LifeInv, MessageInv, TypeOK
  <2>5. \A v \in Workers :
           /\ pc'[v] # "idle" => Confirmed(job'[v].doc)
           /\ pc'[v] \in {"embed", "purge", "provider"} =>
                 status[job'[v].doc] \notin {"absent", "uploaded", "processing"}
    BY <2>1, <2>2, <2>3 DEF LifeInv, MessageInv, NoTextYet, TypeOK
  <2> QED
    BY <2>1, <2>4, <2>5, QuietLife
<1> QED
  BY <1>2, <1>3, <1>4, <1>5, <1>6, <1>7, RequestLife, OcrWrites, EmbedWrites,
     WorkLife
     DEF Next, Deliver, Work, RunOcr, EmbedDocument

\* A step of the pipeline is no move of Lifecycle only if tasks about one document
\* overlap, confirmations of one document overlap, or a confirmation is cut off
\* between publishing its chain and its commit: otherwise the pipeline implements
\* the life cycle (property LifecycleSpec).
THEOREM LifecycleUnlessOverlap ==
    Spec => ([]EmbedsApart /\ []ReadsAlone /\ []ConfirmsApart /\ ConfirmsCommit
                => LifecycleSpec)
<1>1. Init => LifeInv /\ Cycle!Init
  BY LifeInit
<1>2. TypeOK /\ JobOK /\ ReadInv /\ EmbedInv /\ ChunkInv /\ LifeInv
         /\ ConfirmsApart /\ [Committed]_vars /\ [Next]_vars
         => LifeInv' /\ [Cycle!Next]_status
  <2>1. UNCHANGED vars => Committed
    BY DEF vars, Committed, requestSide, reqVars
  <2> QED
    BY <2>1, LifeStep DEF ChunkInv
<1> QED
  BY <1>1, <1>2, TypeCorrect, ReadAlways, EmbedAlways, ChunkAlways, PTL
     DEF Spec, LifecycleSpec, Cycle!Spec, ConfirmsCommit
=============================================================================
