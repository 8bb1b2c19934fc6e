\* A user and an administrator, and two requests for two connections, of which a
\* wrong password needs both; no symmetry, for the liveness property.
SPECIFICATION FairSpec
CONSTANTS
    u1 = u1  a1 = a1  r1 = r1  r2 = r2
    Users = {u1}
    Admins = {a1}
    Requests = {r1, r2}
    Pool = 2
    MaxFailed = 2
    MaxCount = 3
    MaxIds = 3
    MaxCuts = 1
INVARIANTS TypeOK CountExact OldTokensAreDead
PROPERTIES KillSwitch RequestsEnd
