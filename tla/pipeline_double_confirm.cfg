\* Two confirmations of one upload.
SPECIFICATION Spec
CONSTANTS
    d1 = d1  d2 = d2  o1 = o1  w1 = w1  w2 = w2  r1 = r1  r2 = r2
    Docs = {d1}
    Orgs = {o1}
    OrgOf <- OneOrg
    Workers = {w1}
    Requests = {r1, r2}
    Quotas = {2}
    EstPages <- OnePage
    MaxPages = 1
    OcrRetries = 0
    EmbedRetries = 0
    HealLimit = 1
    MaxCopies = 1
    MaxFaults <- NoFaults
    MaxBatch = 4
    Free = Free
    NoJob = NoJob
PROPERTY NoDoubleCharge
CHECK_DEADLOCK FALSE
