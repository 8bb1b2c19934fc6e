--------------------------- MODULE PipelineProofs ---------------------------
(***************************************************************************)
(* The safety of the document pipeline, for every number of organizations, *)
(* documents, workers and requests, every quota, page count, retry limit   *)
(* and fault budget.                                                       *)
(***************************************************************************)
EXTENDS Pipeline, TLAPS

-----------------------------------------------------------------------------
(* Types.  TypeOK is not inductive alone: what a worker charges and which   *)
(* row it updates come from the message it holds.                          *)

\* A worker that is not idle holds a message.
JobOK == \A w \in Workers : pc[w] # "idle" => job[w] \in Message

LEMMA TypeInit == Init => TypeOK /\ JobOK
  BY PipelineAssumption
     DEF Init, TypeOK, JobOK, Status, Batch, FaultKind

LEMMA SendType ==
    ASSUME TypeOK, NEW m, Send(m)
    PROVE  queue' \in [Message -> Nat]
<1>1. queue \in [Message -> Nat]
  BY DEF TypeOK
<1>2. queue' = [queue EXCEPT ![m] = queue[m] + 1]
  BY DEF Send
<1>3. \A n \in Message : queue[n] + 1 \in Nat
  BY <1>1
<1> QED
  BY <1>1, <1>2, <1>3

LEMMA TypeStep == TypeOK /\ JobOK /\ [Next]_vars => TypeOK' /\ JobOK'
<1> SUFFICES ASSUME TypeOK, JobOK, [Next]_vars
             PROVE  TypeOK' /\ JobOK'
  OBVIOUS
<1> USE PipelineAssumption
    DEF TypeOK, JobOK, Status, docVars, meterVars, workVars, reqVars,
        workerSide, requestSide, SetStatus, Finish, Unlocked, EndTransaction,
        Fault
<1>1. ASSUME NEW d \in Docs, InitUpload(d) \/ Age(d)
      PROVE  TypeOK' /\ JobOK'
  <2>1. CASE InitUpload(d)
    BY <2>1 DEF InitUpload
  <2>2. CASE Age(d)
    BY <2>2 DEF Age
  <2> QED
    BY <1>1, <2>1, <2>2
<1>2. ASSUME NEW r \in Requests, Request(r)
      PROVE  TypeOK' /\ JobOK'
  <2>1. CASE ConfirmCheck(r)
    BY <2>1 DEF ConfirmCheck
  <2>2. CASE ConfirmDispatch(r)
    BY <2>2, SendType DEF ConfirmDispatch
  <2>3. CASE ConfirmOrphan(r)
    BY <2>3, SendType DEF ConfirmOrphan
  <2>4. CASE ConfirmCommit(r)
    BY <2>4 DEF ConfirmCommit
  <2>5. CASE DeleteBegin(r)
    BY <2>5 DEF DeleteBegin
  <2>6. CASE DeleteChunks(r)
    BY <2>6 DEF DeleteChunks
  <2>7. CASE DeleteRows(r)
    BY <2>7 DEF DeleteRows
  <2>8. CASE DeleteBlocked(r)
    BY <2>8 DEF DeleteBlocked
  <2>9. CASE DeleteCommit(r)
    BY <2>9 DEF DeleteCommit
  <2>10. CASE RequestAbort(r)
    BY <2>10 DEF RequestAbort, FaultKind
  <2> QED
    BY <1>2, <2>1, <2>2, <2>3, <2>4, <2>5, <2>6, <2>7, <2>8, <2>9, <2>10
       DEF Request, Proceed
<1>3. ASSUME NEW m \in Message, NEW w \in Workers,
             OcrTake(w, m) \/ EmbedTake(w, m)
      PROVE  TypeOK' /\ JobOK'
  <2>1. PICK next \in {"charge", "publish", "embed", "ack"} : Take(w, m, next)
    BY <1>3 DEF OcrTake, EmbedTake
  <2>2. queue' \in [Message -> Nat]
    BY <2>1 DEF Take
  <2> QED
    BY <2>1, <2>2 DEF Take
<1>4. ASSUME NEW w \in Workers, RunOcr(w)
      PROVE  TypeOK' /\ JobOK'
  <2>1. /\ pc[w] # "idle"
        /\ job[w] \in Message /\ job[w].doc \in Docs
        /\ Estimate(w) \in Nat \ {0} /\ OrgFor(w) \in Orgs
    BY <1>4
       DEF RunOcr, ChargeEstimate, RefuseCharge, OcrSucceeds, OcrRetry,
           OcrGivesUp, PublishNext, Message, Estimate, OrgFor
  <2>2. CASE ChargeEstimate(w)
    BY <2>1, <2>2 DEF ChargeEstimate
  <2>3. CASE RefuseCharge(w)
    BY <2>3 DEF RefuseCharge
  <2>4. CASE OcrSucceeds(w)
    BY <2>1, <2>4 DEF OcrSucceeds, CommitCharge, OcrText, TrueUp
  <2>5. CASE OcrRetry(w)
    BY <2>5, SendType DEF OcrRetry, RetryTask
  <2>6. CASE OcrGivesUp(w)
    BY <2>1, <2>6 DEF OcrGivesUp, CommitCharge
  <2>7. CASE PublishNext(w)
    BY <2>7, SendType DEF PublishNext
  <2> QED
    BY <1>4, <2>2, <2>3, <2>4, <2>5, <2>6, <2>7 DEF RunOcr
<1>5. ASSUME NEW w \in Workers, EmbedDocument(w)
      PROVE  TypeOK' /\ JobOK'
  <2>1. job[w] \in Message /\ job[w].doc \in Docs
    BY <1>5
       DEF EmbedDocument, EmbedPurge, EmbedPurged, EmbedSucceeds, EmbedOrphan,
           EmbedRetry, EmbedGivesUp, Message
  <2>2. CASE EmbedPurge(w)
    BY <2>1, <2>2 DEF EmbedPurge
  <2>3. CASE EmbedPurged(w)
    BY <2>3 DEF EmbedPurged
  <2>4. CASE EmbedSucceeds(w)
    <3>1. PICK b \in Batch :
            chunks' = [chunks EXCEPT ![job[w].doc] = (@ \ doomed[w]) \cup {b}]
      BY <2>4 DEF EmbedSucceeds
    <3>2. (chunks[job[w].doc] \ doomed[w]) \cup {b} \in SUBSET Batch
      BY <2>1
    <3>3. chunks' \in [Docs -> SUBSET Batch]
      BY <3>1, <3>2
    <3> QED
      BY <2>4, <3>3 DEF EmbedSucceeds
  <2>5. CASE EmbedOrphan(w)
    BY <2>5 DEF EmbedOrphan
  <2>6. CASE EmbedRetry(w)
    BY <2>6, SendType DEF EmbedRetry, RetryTask
  <2>7. CASE EmbedGivesUp(w)
    BY <2>7 DEF EmbedGivesUp
  <2> QED
    BY <1>5, <2>2, <2>3, <2>4, <2>5, <2>6, <2>7 DEF EmbedDocument
<1>6. ASSUME NEW w \in Workers, Ack(w) \/ WorkerLost(w) \/ TaskRaises(w)
      PROVE  TypeOK' /\ JobOK'
  <2>1. CASE Ack(w)
    BY <2>1 DEF Ack
  <2>2. CASE WorkerLost(w)
    BY <2>2, SendType DEF WorkerLost, Redeliver, FaultKind
  <2>3. CASE TaskRaises(w)
    BY <2>3 DEF TaskRaises, FaultKind
  <2> QED
    BY <1>6, <2>1, <2>2, <2>3
<1>7. CASE Heal
  BY <1>7 DEF Heal
<1>8. ASSUME NEW o \in Orgs, ResetUsage(o) \/ SetQuota(o)
      PROVE  TypeOK' /\ JobOK'
  <2>1. CASE ResetUsage(o)
    BY <2>1 DEF ResetUsage
  <2>2. CASE SetQuota(o)
    BY <2>2 DEF SetQuota
  <2> QED
    BY <1>8, <2>1, <2>2
<1>9. CASE UNCHANGED vars
  BY <1>9 DEF vars
<1> QED
  BY <1>1, <1>2, <1>3, <1>4, <1>5, <1>6, <1>7, <1>8, <1>9
     DEF Next, Deliver, Work

\* Every variable of the pipeline stays within its type.
THEOREM TypeCorrect == Spec => [](TypeOK /\ JobOK)
  BY TypeInit, TypeStep, PTL DEF Spec

-----------------------------------------------------------------------------
(* The page meter.  While run_ocr is between its charge and its commit it   *)
(* holds the organization's row, so the usage it read is still the          *)
(* committed one: that is what makes the meter exact and the billing atomic. *)

MeterInv ==
    \A w \in Workers :
        pc[w] = "ocr" =>
            /\ orgLock[OrgFor(w)] = w
            /\ newUsage[w] = usage[OrgFor(w)] + Estimate(w)
            /\ newUsage[w] <= quota[OrgFor(w)]

LEMMA MeterInit == Init => MeterInv /\ UsageIsLedger /\ Meter!Init
  BY DEF Init, MeterInv, UsageIsLedger, Meter!Init

\* A transaction that commits a charge of p pages for the worker w.
LEMMA ChargeStep ==
    ASSUME TypeOK, JobOK, MeterInv, UsageIsLedger,
           NEW w \in Workers, pc[w] = "ocr",
           NEW p \in Nat,
           NEW next \in {"publish", "ack"},
           p \in (0 .. MaxPages) \cup {Estimate(w)},
           CommitCharge(w, usage[OrgFor(w)] + p, p),
           EndTransaction(w, next), UNCHANGED <<quota, job>>
    PROVE  MeterInv' /\ UsageIsLedger' /\ Meter!Next
<1> DEFINE o == OrgFor(w)
<1>1. /\ o \in Orgs /\ job[w].doc \in Docs
      /\ Estimate(w) \in {EstPages[d] : d \in Docs} /\ Estimate(w) \in Nat
  BY PipelineAssumption DEF TypeOK, JobOK, Message, OrgFor, Estimate
<1>2. /\ usage \in [Orgs -> Nat] /\ ledger \in [Orgs -> Nat]
      /\ usage' = [usage EXCEPT ![o] = usage[o] + p]
      /\ ledger' = [ledger EXCEPT ![o] = ledger[o] + p]
  BY DEF TypeOK, CommitCharge
<1>3. UsageIsLedger'
  BY <1>1, <1>2 DEF UsageIsLedger
<1>4. MeterInv'
  <2> SUFFICES ASSUME NEW v \in Workers, pc'[v] = "ocr"
               PROVE  /\ orgLock'[OrgFor(v)] = v
                      /\ newUsage'[v] = usage'[OrgFor(v)] + Estimate(v)
                      /\ newUsage'[v] <= quota'[OrgFor(v)]
    BY DEF MeterInv, OrgFor, Estimate
  <2>1. v # w /\ pc[v] = "ocr"
    BY DEF EndTransaction, TypeOK
  <2>2. OrgFor(v) # o
    BY <2>1 DEF MeterInv
  <2>3. OrgFor(v) \in Orgs
    BY <2>1, PipelineAssumption DEF TypeOK, JobOK, Message, OrgFor
  <2>4. /\ usage'[OrgFor(v)] = usage[OrgFor(v)]
        /\ newUsage'[v] = newUsage[v]
        /\ orgLock'[OrgFor(v)] = orgLock[OrgFor(v)]
    BY <1>2, <2>1, <2>2, <2>3 DEF EndTransaction, TypeOK, MeterInv
  <2> QED
    BY <2>1, <2>4 DEF MeterInv
<1>5. Meter!Bill(o)
  <2>1. usage[o] + Estimate(w) <= quota[o]
    BY DEF MeterInv
  <2> QED
    BY <1>1, <1>2, <2>1 DEF Meter!Bill
<1> QED
  BY <1>1, <1>3, <1>4, <1>5 DEF Meter!Next

\* A step that leaves the committed meter alone, and in which no worker that
\* holds a charge changes what it relies on.
LEMMA QuietStep ==
    ASSUME UsageIsLedger, MeterInv,
           UNCHANGED meterVars,
           \A v \in Workers :
              pc'[v] = "ocr" =>
                 /\ pc[v] = "ocr" /\ job'[v] = job[v]
                 /\ newUsage'[v] = newUsage[v]
                 /\ orgLock'[OrgFor(v)] = orgLock[OrgFor(v)]
    PROVE  MeterInv' /\ UsageIsLedger' /\ UNCHANGED <<usage, quota>>
  BY DEF UsageIsLedger, MeterInv, meterVars, OrgFor, Estimate

LEMMA MeterStep ==
    ASSUME TypeOK, JobOK, MeterInv, UsageIsLedger, [Next]_vars
    PROVE  MeterInv' /\ UsageIsLedger' /\ [Meter!Next]_<<usage, quota>>
<1> USE DEF docVars, workVars, reqVars, workerSide, requestSide
<1>1. CASE UNCHANGED workerSide
  BY <1>1, QuietStep
<1>2. ASSUME NEW m \in Message, NEW w \in Workers, NEW next, Take(w, m, next),
             next # "ocr"
      PROVE  MeterInv' /\ UsageIsLedger' /\ [Meter!Next]_<<usage, quota>>
  BY <1>2, QuietStep DEF Take, TypeOK
<1>3. ASSUME NEW w \in Workers, NEW next \in {"idle", "publish", "ack"},
             EndTransaction(w, next), UNCHANGED meterVars,
             \A v \in Workers : v # w => job'[v] = job[v]
      PROVE  MeterInv' /\ UsageIsLedger' /\ [Meter!Next]_<<usage, quota>>
  <2> SUFFICES ASSUME NEW v \in Workers, pc'[v] = "ocr"
               PROVE  /\ pc[v] = "ocr" /\ job'[v] = job[v]
                      /\ newUsage'[v] = newUsage[v]
                      /\ orgLock'[OrgFor(v)] = orgLock[OrgFor(v)]
    BY <1>3, QuietStep
  <2>1. v # w /\ pc[v] = "ocr"
    BY <1>3 DEF EndTransaction, TypeOK
  <2>2. OrgFor(v) \in Orgs /\ orgLock[OrgFor(v)] = v
    BY <2>1, PipelineAssumption DEF TypeOK, JobOK, Message, OrgFor, MeterInv
  <2> QED
    BY <1>3, <2>1, <2>2 DEF EndTransaction, TypeOK
<1>4. ASSUME NEW w \in Workers, ChargeEstimate(w)
      PROVE  MeterInv' /\ UsageIsLedger' /\ [Meter!Next]_<<usage, quota>>
  <2>1. UNCHANGED meterVars /\ UNCHANGED job
    BY <1>4 DEF ChargeEstimate
  <2>2. UsageIsLedger'
    BY <2>1 DEF UsageIsLedger, meterVars
  <2>3. ASSUME NEW v \in Workers, pc'[v] = "ocr"
        PROVE  /\ orgLock'[OrgFor(v)] = v
               /\ newUsage'[v] = usage'[OrgFor(v)] + Estimate(v)
               /\ newUsage'[v] <= quota'[OrgFor(v)]
    <3>1. pc[w] = "charge" /\ OrgFor(w) \in Orgs
      BY <1>4, PipelineAssumption
         DEF ChargeEstimate, TypeOK, JobOK, Message, OrgFor
    <3>2. CASE v = w
      BY <1>4, <2>1, <3>1, <3>2
         DEF ChargeEstimate, TypeOK, WithinQuota, meterVars
    <3>3. CASE v # w
      <4>1. pc[v] = "ocr" /\ orgLock[OrgFor(v)] = v
        BY <1>4, <2>3, <3>3 DEF ChargeEstimate, TypeOK, MeterInv
      <4>2. OrgFor(v) # OrgFor(w)
        BY <1>4, <4>1, PipelineAssumption DEF ChargeEstimate, OrgRowFree
      <4> QED
        BY <1>4, <2>1, <3>3, <4>1, <4>2
           DEF ChargeEstimate, TypeOK, MeterInv, meterVars
    <3> QED
      BY <3>2, <3>3
  <2> QED
    BY <2>1, <2>2, <2>3 DEF MeterInv, OrgFor, Estimate, meterVars
<1>5. ASSUME NEW w \in Workers, OcrSucceeds(w)
      PROVE  MeterInv' /\ UsageIsLedger' /\ [Meter!Next]_<<usage, quota>>
  <2>1. PICK p \in 0 .. MaxPages : CommitCharge(w, TrueUp(w, p), p)
    BY <1>5 DEF OcrSucceeds
  <2>2. TrueUp(w, p) = usage[OrgFor(w)] + p
    BY <1>5, PipelineAssumption
       DEF OcrSucceeds, TrueUp, MeterInv, TypeOK, JobOK, Message, Estimate,
           OrgFor
  <2> QED
    BY <1>5, <2>1, <2>2, ChargeStep, PipelineAssumption DEF OcrSucceeds
<1>6. ASSUME NEW w \in Workers, OcrGivesUp(w)
      PROVE  MeterInv' /\ UsageIsLedger' /\ [Meter!Next]_<<usage, quota>>
  <2>1. Estimate(w) \in Nat
    BY <1>6, PipelineAssumption
       DEF OcrGivesUp, TypeOK, JobOK, Message, Estimate
  <2>2. newUsage[w] = usage[OrgFor(w)] + Estimate(w)
    BY <1>6 DEF OcrGivesUp, MeterInv
  <2> QED
    BY <1>6, <2>1, <2>2, ChargeStep DEF OcrGivesUp
<1>7. ASSUME NEW o \in Orgs, ResetUsage(o) \/ SetQuota(o)
      PROVE  MeterInv' /\ UsageIsLedger' /\ [Meter!Next]_<<usage, quota>>
  <2>1. Meter!Reset(o) \/ Meter!SetQuota(o)
    BY <1>7 DEF ResetUsage, SetQuota, Meter!Reset, Meter!SetQuota
  <2>2. UsageIsLedger'
    BY <1>7 DEF ResetUsage, SetQuota, UsageIsLedger, TypeOK
  <2>3. ASSUME NEW v \in Workers, pc'[v] = "ocr"
        PROVE  /\ orgLock'[OrgFor(v)] = v
               /\ newUsage'[v] = usage'[OrgFor(v)] + Estimate(v)
               /\ newUsage'[v] <= quota'[OrgFor(v)]
    <3>1. pc[v] = "ocr" /\ UNCHANGED <<orgLock, newUsage, job>>
      BY <1>7, <2>3 DEF ResetUsage, SetQuota
    <3>2. OrgFor(v) # o /\ OrgFor(v) \in Orgs
      BY <1>7, <3>1, PipelineAssumption
         DEF ResetUsage, SetQuota, OrgRowFree, MeterInv, TypeOK, JobOK,
             Message, OrgFor
    <3>3. usage'[OrgFor(v)] = usage[OrgFor(v)] /\ quota'[OrgFor(v)] = quota[OrgFor(v)]
      BY <1>7, <3>2 DEF ResetUsage, SetQuota, TypeOK
    <3> QED
      BY <3>1, <3>3 DEF MeterInv
  <2>4. UNCHANGED job
    BY <1>7 DEF ResetUsage, SetQuota
  <2> QED
    BY <2>1, <2>2, <2>3, <2>4 DEF MeterInv, OrgFor, Estimate, Meter!Next
<1>8. ASSUME NEW w \in Workers, PublishNext(w) \/ Ack(w) \/ EmbedPurge(w) \/ EmbedPurged(w)
      PROVE  MeterInv' /\ UsageIsLedger' /\ [Meter!Next]_<<usage, quota>>
  <2>1. ASSUME NEW v \in Workers, pc'[v] = "ocr"
        PROVE  pc[v] = "ocr" /\ job'[v] = job[v]
    BY <1>8, <2>1 DEF PublishNext, Ack, EmbedPurge, EmbedPurged, TypeOK
  <2>2. UNCHANGED <<meterVars, newUsage, orgLock>>
    BY <1>8 DEF PublishNext, Ack, EmbedPurge, EmbedPurged
  <2> QED
    BY <2>1, <2>2, QuietStep
<1>9. ASSUME NEW r \in Requests, Request(r)
      PROVE  UNCHANGED workerSide
  BY <1>9 DEF Request, Proceed, ConfirmCheck, ConfirmDispatch, ConfirmOrphan,
       ConfirmCommit, DeleteBegin, DeleteChunks, DeleteRows, DeleteBlocked,
       DeleteCommit, RequestAbort
<1>10. ASSUME NEW d \in Docs, InitUpload(d) \/ Age(d)
       PROVE  UNCHANGED workerSide
  BY <1>10 DEF InitUpload, Age
<1>11. ASSUME NEW m \in Message, NEW w \in Workers,
              OcrTake(w, m) \/ EmbedTake(w, m)
       PROVE  MeterInv' /\ UsageIsLedger' /\ [Meter!Next]_<<usage, quota>>
  <2>1. PICK next \in {"charge", "publish", "embed", "ack"} : Take(w, m, next)
    BY <1>11 DEF OcrTake, EmbedTake
  <2> QED
    BY <1>2, <2>1
<1>12. ASSUME NEW w \in Workers,
              \/ RefuseCharge(w) \/ OcrRetry(w) \/ EmbedSucceeds(w)
              \/ EmbedOrphan(w) \/ EmbedRetry(w) \/ EmbedGivesUp(w)
              \/ WorkerLost(w) \/ TaskRaises(w)
       PROVE  MeterInv' /\ UsageIsLedger' /\ [Meter!Next]_<<usage, quota>>
  <2>1. \E next \in {"idle", "publish", "ack"} : EndTransaction(w, next)
    BY <1>12
       DEF RefuseCharge, OcrRetry, RetryTask, EmbedSucceeds, EmbedOrphan,
           EmbedRetry, EmbedGivesUp, WorkerLost, TaskRaises
  <2>2. UNCHANGED meterVars /\ \A v \in Workers : v # w => job'[v] = job[v]
    BY <1>12
       DEF RefuseCharge, OcrRetry, RetryTask, EmbedSucceeds, EmbedOrphan,
           EmbedRetry, EmbedGivesUp, WorkerLost, TaskRaises, TypeOK
  <2> QED
    BY <1>3, <2>1, <2>2
<1>13. CASE Heal
  BY <1>1, <1>13 DEF Heal
<1>14. CASE UNCHANGED vars
  BY <1>1, <1>14 DEF vars
<1> QED
  BY <1>1, <1>4, <1>5, <1>6, <1>7, <1>8, <1>9, <1>10, <1>11, <1>12, <1>13, <1>14
     DEF Next, Deliver, Work, RunOcr, EmbedDocument

LEMMA MeterAlways == Spec => [](MeterInv /\ UsageIsLedger)
<1>1. Init => MeterInv /\ UsageIsLedger
  BY MeterInit
<1>2. TypeOK /\ JobOK /\ MeterInv /\ UsageIsLedger /\ [Next]_vars
         => MeterInv' /\ UsageIsLedger'
  BY MeterStep
<1> QED
  BY <1>1, <1>2, TypeCorrect, PTL DEF Spec

\* pages_used_this_month never loses an update (property UsageIsLedger).
THEOREM UsageExact == Spec => []UsageIsLedger
  BY MeterAlways, PTL

\* run_ocr's charge, true-up and failure path bill atomically: the pipeline
\* implements the abstract page meter (property MeterSpec).
THEOREM MeterRefined == Spec => MeterSpec
<1>1. Init => Meter!Init
  BY MeterInit
<1>2. TypeOK /\ JobOK /\ MeterInv /\ UsageIsLedger /\ [Next]_vars
         => [Meter!Next]_<<usage, quota>>
  BY MeterStep
<1> QED
  BY <1>1, <1>2, TypeCorrect, MeterAlways, PTL DEF Spec, MeterSpec, Meter!Spec

\* A step that lifts an organization's usage over its quota does so by no more
\* than a document was longer than its estimate (property OverrunBounded).
THEOREM OverrunIsBounded == Spec => OverrunBounded
<1> DEFINE Bounded ==
      \A o \in Orgs :
          usage'[o] > quota[o] /\ usage'[o] > usage[o]
              => \E d \in Docs : usage'[o] + EstPages[d] <= quota[o] + MaxPages
<1>1. ASSUME TypeOK, [Meter!Next]_<<usage, quota>>
      PROVE  Bounded
  <2> SUFFICES ASSUME NEW o \in Orgs,
                      usage'[o] > quota[o], usage'[o] > usage[o]
               PROVE  \E d \in Docs :
                         usage'[o] + EstPages[d] <= quota[o] + MaxPages
    OBVIOUS
  <2>1. Meter!Bill(o)
    <3>1. usage \in [Orgs -> Nat] /\ usage'[o] > usage[o]
      BY <1>1 DEF TypeOK
    <3>2. PICK q \in Orgs : Meter!Bill(q) \/ Meter!Reset(q) \/ Meter!SetQuota(q)
      BY <1>1, <3>1 DEF Meter!Next
    <3>3. ~Meter!SetQuota(q)
      BY <3>1 DEF Meter!SetQuota
    <3>4. ~Meter!Reset(q)
      BY <3>1 DEF Meter!Reset
    <3>5. Meter!Bill(q) => q = o
      BY <3>1 DEF Meter!Bill
    <3> QED
      BY <3>2, <3>3, <3>4, <3>5
  <2>2. PICK d \in Docs :
           /\ usage[o] + EstPages[d] <= quota[o]
           /\ \E p \in (0 .. MaxPages) \cup {EstPages[d]} :
                 usage'[o] = usage[o] + p
    BY <1>1, <2>1 DEF Meter!Bill, TypeOK
  <2>3. EstPages[d] \in Nat \ {0} /\ usage[o] \in Nat /\ quota[o] \in Nat
    BY PipelineAssumption, <1>1 DEF TypeOK
  <2>4. usage'[o] <= usage[o] + MaxPages
    BY <2>2, <2>3, PipelineAssumption
  <2> QED
    BY <2>2, <2>3, <2>4, PipelineAssumption
<1>2. TypeOK /\ JobOK /\ MeterInv /\ UsageIsLedger /\ [Next]_vars => Bounded
  BY <1>1, MeterStep
<1> QED
  BY <1>2, TypeCorrect, MeterAlways, PTL DEF Spec, OverrunBounded

-----------------------------------------------------------------------------
(* Documents and their chunks.  A deletion that is past its foreign key     *)
(* check holds the row of every document it deletes, so no embed task can   *)
(* insert a chunk its DELETE statement has not seen.                        *)

DeletionInv ==
    \A r \in Requests :
        /\ rpc[r] \in {"purge", "purged", "deleting"} =>
              \A d \in target[r] : status[d] # "absent"
        /\ rpc[r] = "deleting" =>
              \A d \in target[r] : RowExists(d) =>
                  docLock[d] = r /\ chunks[d] \subseteq purged[r][d]

ChunkInv == DeletionInv /\ NoOrphanChunks /\ IndexedIsSearchable

LEMMA ChunkInit == Init => ChunkInv
  BY DEF Init, ChunkInv, DeletionInv, NoOrphanChunks, IndexedIsSearchable

\* No row appears or disappears.
SameRows ==
    \A d \in Docs : /\ RowExists(d)' = RowExists(d)
                    /\ (status'[d] = "absent") = (status[d] = "absent")

LEMMA SetStatusKeepsRows ==
    ASSUME TypeOK, NEW d \in Docs,
           NEW s \in {"processing", "ready", "indexed", "failed"},
           SetStatus(d, s)
    PROVE  /\ SameRows
           /\ \A e \in Docs : e # d => status'[e] = status[e]
           /\ status'[d] \in {s, "absent", "deleted"}
  BY DEF TypeOK, SetStatus, SameRows, RowExists

\* A step of a task that inserts no chunk.
LEMMA NoInsertStep ==
    ASSUME TypeOK, ChunkInv, UNCHANGED requestSide, SameRows,
           \A d \in Docs : chunks'[d] \subseteq chunks[d],
           \A d \in Docs : status'[d] = "indexed" =>
                              status[d] = "indexed" /\ chunks'[d] = chunks[d]
    PROVE  ChunkInv'
<1>1. DeletionInv'
  BY DEF ChunkInv, DeletionInv, requestSide, reqVars, SameRows, TypeOK
<1>2. NoOrphanChunks'
  BY DEF ChunkInv, NoOrphanChunks, SameRows
<1>3. IndexedIsSearchable'
  BY DEF ChunkInv, IndexedIsSearchable
<1> QED
  BY <1>1, <1>2, <1>3 DEF ChunkInv

LEMMA InsertStep ==
    ASSUME TypeOK, JobOK, ChunkInv, NEW w \in Workers, EmbedSucceeds(w)
    PROVE  ChunkInv'
<1> DEFINE d == job[w].doc
<1>1. d \in Docs /\ RowExists(d) /\ docLock[d] = Free
  BY DEF EmbedSucceeds, MayInsertChunks, DocRowFree, TypeOK, JobOK, Message
<1>2. PICK b \in Batch : chunks' = [chunks EXCEPT ![d] = (@ \ doomed[w]) \cup {b}]
  BY DEF EmbedSucceeds
<1>3. /\ SameRows
      /\ \A e \in Docs : e # d => status'[e] = status[e]
  BY <1>1, SetStatusKeepsRows DEF EmbedSucceeds
<1>4. /\ chunks'[d] # {}
      /\ \A e \in Docs : e # d => chunks'[e] = chunks[e]
  BY <1>1, <1>2 DEF TypeOK
<1>5. UNCHANGED requestSide
  BY DEF EmbedSucceeds
<1>6. DeletionInv'
  <2>1. ASSUME NEW r \in Requests, rpc[r] = "deleting", d \in target[r]
        PROVE  FALSE
    BY <1>1, <2>1, PipelineAssumption DEF ChunkInv, DeletionInv
  <2> QED
    BY <1>3, <1>4, <1>5, <2>1
       DEF ChunkInv, DeletionInv, requestSide, reqVars, SameRows, TypeOK
<1>7. NoOrphanChunks'
  BY <1>1, <1>3, <1>4 DEF ChunkInv, NoOrphanChunks, SameRows
<1>8. IndexedIsSearchable'
  BY <1>3, <1>4 DEF ChunkInv, IndexedIsSearchable
<1> QED
  BY <1>6, <1>7, <1>8 DEF ChunkInv

LEMMA RequestStep ==
    ASSUME TypeOK, ChunkInv, NEW r \in Requests, Request(r)
    PROVE  ChunkInv'
<1> USE DEF ChunkInv, DeletionInv, TypeOK, docVars, reqVars, requestSide, Finish
<1>1. CASE ConfirmCheck(r)
  BY <1>1 DEF ConfirmCheck, NoOrphanChunks, IndexedIsSearchable, RowExists
<1>2. CASE ConfirmDispatch(r)
  BY <1>2, PipelineAssumption
     DEF ConfirmDispatch, NoOrphanChunks, IndexedIsSearchable, RowExists,
         DocRowFree
<1>3. CASE ConfirmOrphan(r)
  BY <1>3 DEF ConfirmOrphan, NoOrphanChunks, IndexedIsSearchable, RowExists
<1>4. CASE ConfirmCommit(r)
  <2>1. PICK d \in target[r] : SetStatus(d, "processing")
    BY <1>4 DEF ConfirmCommit
  <2>2. /\ SameRows
        /\ \A e \in Docs : status'[e] = "indexed" => status[e] = "indexed"
    BY <2>1, SetStatusKeepsRows
  <2> QED
    BY <1>4, <2>2
       DEF ConfirmCommit, NoOrphanChunks, IndexedIsSearchable, SameRows, Unlocked
<1>5. CASE DeleteBegin(r)
  BY <1>5 DEF DeleteBegin, NoOrphanChunks, IndexedIsSearchable, RowExists
<1>6. CASE DeleteChunks(r)
  BY <1>6 DEF DeleteChunks, NoOrphanChunks, IndexedIsSearchable, RowExists
<1>7. CASE DeleteRows(r)
  BY <1>7, PipelineAssumption
     DEF DeleteRows, DeletionReady, NoChunkLeft, DocRowFree, NoOrphanChunks,
         IndexedIsSearchable, RowExists
<1>8. CASE DeleteBlocked(r)
  BY <1>8 DEF DeleteBlocked, NoOrphanChunks, IndexedIsSearchable, RowExists
<1>9. CASE DeleteCommit(r)
  BY <1>9
     DEF DeleteCommit, NoOrphanChunks, IndexedIsSearchable, RowExists, Unlocked
<1>10. CASE RequestAbort(r)
  BY <1>10
     DEF RequestAbort, NoOrphanChunks, IndexedIsSearchable, RowExists, Unlocked
<1> QED
  BY <1>1, <1>2, <1>3, <1>4, <1>5, <1>6, <1>7, <1>8, <1>9, <1>10
     DEF Request, Proceed

LEMMA ChunkStep ==
    ASSUME TypeOK, JobOK, ChunkInv, [Next]_vars
    PROVE  ChunkInv'
<1> USE DEF docVars, workerSide, requestSide, reqVars
<1>1. CASE UNCHANGED <<requestSide, status, chunks>>
  <2>1. SameRows
    BY <1>1 DEF SameRows, RowExists
  <2> QED
    BY <1>1, <2>1, NoInsertStep
<1>2. ASSUME NEW d \in Docs, InitUpload(d)
      PROVE  ChunkInv'
  BY <1>2
     DEF InitUpload, ChunkInv, DeletionInv, NoOrphanChunks,
         IndexedIsSearchable, RowExists, TypeOK
<1>3. ASSUME NEW w \in Workers, RefuseCharge(w) \/ OcrSucceeds(w) \/ OcrGivesUp(w)
      PROVE  ChunkInv'
  <2>1. job[w].doc \in Docs /\ UNCHANGED <<requestSide, chunks>>
    BY <1>3 DEF RefuseCharge, OcrSucceeds, OcrGivesUp, TypeOK, JobOK, Message
  <2>2. PICK s \in {"ready", "failed"} : SetStatus(job[w].doc, s)
    BY <1>3 DEF RefuseCharge, OcrSucceeds, OcrGivesUp
  <2>3. /\ SameRows
        /\ \A e \in Docs : status'[e] = "indexed" => status[e] = "indexed"
    BY <2>1, <2>2, SetStatusKeepsRows
  <2> QED
    BY <2>1, <2>3, NoInsertStep
<1>4. ASSUME NEW w \in Workers, EmbedGivesUp(w)
      PROVE  ChunkInv'
  <2> DEFINE d == job[w].doc
  <2>1. d \in Docs
    BY <1>4 DEF EmbedGivesUp, TypeOK, JobOK, Message
  <2>2. chunks' = [chunks EXCEPT ![d] = @ \ doomed[w]] /\ UNCHANGED requestSide
    BY <1>4 DEF EmbedGivesUp
  <2>3. /\ SameRows
        /\ \A e \in Docs : e # d => status'[e] = status[e]
        /\ status'[d] # "indexed"
    BY <1>4, <2>1, SetStatusKeepsRows DEF EmbedGivesUp
  <2> QED
    BY <2>1, <2>2, <2>3, NoInsertStep DEF TypeOK
<1>5. ASSUME NEW w \in Workers,
             \/ ChargeEstimate(w) \/ OcrRetry(w) \/ PublishNext(w) \/ Ack(w)
             \/ EmbedPurge(w) \/ EmbedPurged(w) \/ EmbedOrphan(w)
             \/ EmbedRetry(w) \/ WorkerLost(w) \/ TaskRaises(w)
      PROVE  UNCHANGED <<requestSide, status, chunks>>
  BY <1>5
     DEF ChargeEstimate, OcrRetry, RetryTask, PublishNext, Ack, EmbedPurge,
         EmbedPurged, EmbedOrphan, EmbedRetry, WorkerLost, TaskRaises
<1>6. ASSUME NEW m \in Message, NEW w \in Workers,
             OcrTake(w, m) \/ EmbedTake(w, m)
      PROVE  UNCHANGED <<requestSide, status, chunks>>
  BY <1>6 DEF OcrTake, EmbedTake, Take
<1>7. ASSUME NEW o \in Orgs, ResetUsage(o) \/ SetQuota(o)
      PROVE  UNCHANGED <<requestSide, status, chunks>>
  BY <1>7 DEF ResetUsage, SetQuota
<1>8. ASSUME NEW d \in Docs, Age(d)
      PROVE  UNCHANGED <<requestSide, status, chunks>>
  BY <1>8 DEF Age
<1>9. CASE Heal
  BY <1>1, <1>9 DEF Heal
<1>10. CASE UNCHANGED vars
  BY <1>1, <1>10 DEF vars
<1> QED
  BY <1>1, <1>2, <1>3, <1>4, <1>5, <1>6, <1>7, <1>8, <1>9, <1>10,
     InsertStep, RequestStep
     DEF Next, Deliver, Work, RunOcr, EmbedDocument

LEMMA ChunkAlways == Spec => []ChunkInv
<1>1. TypeOK /\ JobOK /\ ChunkInv /\ [Next]_vars => ChunkInv'
  BY ChunkStep
<1> QED
  BY <1>1, ChunkInit, TypeCorrect, PTL DEF Spec

\* No chunk outlives its document (property NoOrphanChunks).
THEOREM ChunksHaveDocument == Spec => []NoOrphanChunks
<1>1. ChunkInv => NoOrphanChunks
  BY DEF ChunkInv
<1> QED
  BY <1>1, ChunkAlways, PTL

\* An indexed document has chunks (property IndexedIsSearchable).
THEOREM IndexedHasChunks == Spec => []IndexedIsSearchable
<1>1. ChunkInv => IndexedIsSearchable
  BY DEF ChunkInv
<1> QED
  BY <1>1, ChunkAlways, PTL
=============================================================================
