\* One worker that may be lost, two requests, retries left: tasks run one at a time,
\* under the deployment's fairness.
SPECIFICATION FairSpec
CONSTANTS
    d1 = d1  d2 = d2  o1 = o1  w1 = w1  w2 = w2  r1 = r1  r2 = r2
    Docs = {d1}
    Orgs = {o1}
    OrgOf <- OneOrg
    Workers = {w1}
    Requests = {r1, r2}
    Quotas = {2}
    EstPages <- OnePage
    MaxPages = 2
    OcrRetries = 1
    EmbedRetries = 1
    HealLimit = 1
    MaxCopies = 1
    MaxFaults <- OneLost
    MaxBatch = 4
    Free = Free
    NoJob = NoJob
INVARIANT OneBatchOfChunks
PROPERTIES NoChargeWhenDone ProcessingEnds
CHECK_DEADLOCK FALSE
