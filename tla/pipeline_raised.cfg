\* run_ocr raises an exception it does not handle.
SPECIFICATION FairSpec
CONSTANTS
    d1 = d1  d2 = d2  o1 = o1  w1 = w1  w2 = w2  r1 = r1  r2 = r2
    Docs = {d1}
    Orgs = {o1}
    OrgOf <- OneOrg
    Workers = {w1}
    Requests = {r1}
    Quotas = {1}
    EstPages <- OnePage
    MaxPages = 1
    OcrRetries = 0
    EmbedRetries = 0
    HealLimit = 1
    MaxCopies = 1
    MaxFaults <- OneRaised
    MaxBatch = 4
    Free = Free
    NoJob = NoJob
PROPERTY ProcessingAlwaysEnds
CHECK_DEADLOCK FALSE
