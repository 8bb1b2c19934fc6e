\* A run over one document while the table is filtered; no request fails, and the
\* answers come in any order.
SPECIFICATION Spec
CONSTANTS
    None = None
    d1 = d1  d2 = d2  t1 = t1  t2 = t2  org1 = org1  org2 = org2
    owner = owner  admin = admin  member = member
    Docs = {d1, d2}
    Templates = {t1, t2}
    Users = {owner, admin, member}
    Orgs = {org1, org2}
    Ranges = {"old", "today"}
    Quotas = {0, 1, 2}
    MaxRows = 3
    MaxCalls = 3
    Faulty = FALSE
    Tours <- OneRun
INVARIANT NewRowsShown
CHECK_DEADLOCK FALSE
