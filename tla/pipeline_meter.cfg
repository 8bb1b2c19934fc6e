\* Two documents of one organization, two workers, two quotas and page counts
\* that differ from the estimates; no healing.
SPECIFICATION Spec
CONSTANTS
    d1 = d1  d2 = d2  o1 = o1  w1 = w1  w2 = w2  r1 = r1  r2 = r2
    Docs = {d1, d2}
    Orgs = {o1}
    OrgOf <- OneOrg
    Workers = {w1, w2}
    Requests = {r1}
    Quotas = {2, 3}
    EstPages <- TwoSizes
    MaxPages = 3
    OcrRetries = 1
    EmbedRetries = 0
    HealLimit = 0
    MaxCopies = 1
    MaxFaults <- NoFaults
    MaxBatch = 4
    Free = Free
    NoJob = NoJob
SYMMETRY Interchangeable
INVARIANT UsageIsLedger
PROPERTIES MeterSpec OverrunBounded
CHECK_DEADLOCK FALSE
