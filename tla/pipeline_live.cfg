\* One document, one worker, one request, retries left, a worker lost and a task
\* that raises once, under the deployment's fairness.
SPECIFICATION FairSpec
CONSTANTS
    d1 = d1  d2 = d2  o1 = o1  w1 = w1  w2 = w2  r1 = r1  r2 = r2
    Docs = {d1}
    Orgs = {o1}
    OrgOf <- OneOrg
    Workers = {w1}
    Requests = {r1}
    Quotas = {2}
    EstPages <- OnePage
    MaxPages = 2
    OcrRetries = 1
    EmbedRetries = 1
    HealLimit = 1
    MaxCopies = 1
    MaxFaults <- LostAndRaised
    MaxBatch = 4
    Free = Free
    NoJob = NoJob
PROPERTIES ReadyIsFinished LifecycleSpec
CHECK_DEADLOCK FALSE
