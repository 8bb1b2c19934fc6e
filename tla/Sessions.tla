------------------------------ MODULE Sessions ------------------------------
(***************************************************************************)
(* Signing in (services/auth.py): login with its count of wrong passwords, *)
(* refresh and logout, as concurrent requests over user rows, refresh keys *)
(* in Redis and the connection pool.  A login holds a pooled connection    *)
(* from its first query to its end, and a wrong password takes a second    *)
(* one, in which the count is committed.  Every await that touches shared  *)
(* state ends an action.                                                   *)
(***************************************************************************)
EXTENDS Integers, FiniteSets

CONSTANTS
    Users, Admins,  \* accounts of organizations, platform administrators
    Requests,       \* requests that may be under way at a time
    Pool,           \* connections of the pool (pool_size + max_overflow)
    MaxFailed,      \* _MAX_FAILED
    MaxCount,       \* bound on the wrong passwords counted
    MaxIds,         \* bound on the refresh tokens issued
    MaxCuts         \* bound on the requests that die

Accounts == Users \cup Admins

ASSUME SessionsAssumption ==
    /\ IsFiniteSet(Requests)
    /\ Users \cap Admins = {}
    /\ Pool \in Nat \ {0} /\ MaxFailed \in Nat \ {0}
    /\ MaxCount \in Nat /\ MaxIds \in Nat /\ MaxCuts \in Nat

VARIABLES
    row,      \* the committed row of each account
    keys,     \* refresh keys in Redis
    issued,   \* number of refresh tokens made; each is its number
    given,    \* tokens that an answer has handed out
    req,      \* where each request is, and what it holds in local variables
    cuts,     \* number of requests that died
    since,    \* history: wrong passwords counted since the last success
    overlap,  \* history: accounts two of whose logins have overlapped
    dead      \* history: tokens that were refreshed or logged out

history == <<since, overlap, dead>>
vars    == <<row, keys, issued, given, req, cuts, history>>

-----------------------------------------------------------------------------
LoginSteps == {"login", "fail", "count", "reset", "store", "commit"}
OtherSteps == {"get", "delete", "check", "mint", "logout"}

\* A lock is none, in force, or past its time and not yet cleared.
Row == [active : BOOLEAN, count : Nat, lock : {"none", "set", "past"}]

\* The step a request is about to take; the account; whether the password is
\* right; the row it read; the columns it has updated and not committed; the
\* token it presents, or has made.
Request == [at : LoginSteps \cup OtherSteps, who : Accounts \cup {"none"},
            right : BOOLEAN, seen : Row,
            writes : SUBSET {"count", "lock", "last_login_at"}, id : Nat]

NewRow == [active |-> TRUE, count |-> 0, lock |-> "none"]

Idle == [at |-> "idle"]

TypeOK ==
    /\ row \in [Accounts -> Row]
    /\ keys \subseteq [id : 1 .. issued, owner : Accounts]
    /\ issued \in Nat
    /\ given \subseteq 1 .. issued
    /\ req \in [Requests -> Request \cup {Idle}]
    /\ cuts \in 0 .. MaxCuts
    /\ since \in [Users -> Nat]
    /\ overlap \subseteq Users
    /\ dead \subseteq given

Init ==
    /\ row = [a \in Accounts |-> NewRow]
    /\ keys = {} /\ issued = 0 /\ given = {}
    /\ req = [r \in Requests |-> Idle]
    /\ cuts = 0
    /\ since = [u \in Users |-> 0] /\ overlap = {} /\ dead = {}

Busy == {r \in Requests : req[r].at # "idle"}

\* r is a login of account a.
LogsIn(r, a) == req[r].at \in LoginSteps /\ req[r].who = a

\* Only logins take connections of this pool: at most two each.
Taken == Cardinality({r \in Requests : req[r].at \in LoginSteps \ {"login"}})
             + Cardinality({r \in Requests : req[r].at = "count"})

Connected == Taken < Pool

\* No other login holds the lock of a's row.
RowFree(r, a) ==
    \A s \in Requests \ {r} :
        LogsIn(s, a) /\ req[s].at \in {"store", "commit"} => req[s].writes = {}

\* r goes on to step `to`, or ends.
Goes(r, to) == req' = [req EXCEPT ![r].at = to]
Ends(r)     == req' = [req EXCEPT ![r] = Idle]

database == <<row, since, overlap>>
redis    == <<keys, issued, given, dead>>

-----------------------------------------------------------------------------
(* Requests arrive. *)

Arrive(r, step, a, right, id) ==
    /\ req[r].at = "idle"
    /\ req' = [req EXCEPT ![r] =
                  [at |-> step, who |-> a, right |-> right, seen |-> NewRow,
                   writes |-> {}, id |-> id]]
    /\ UNCHANGED <<row, redis, cuts, since>>

\* POST /login.  MaxCount and MaxIds only bound the instance.
SendLogin(r) ==
    \E a \in Accounts, right \in BOOLEAN :
        /\ row[a].count < MaxCount
        /\ issued + Cardinality(Busy) < MaxIds
        /\ Arrive(r, "login", a, right, 0)
        /\ overlap' = IF a \in Users /\ \E s \in Requests : LogsIn(s, a)
                      THEN overlap \cup {a} ELSE overlap

\* POST /refresh and POST /logout, with a token somebody was given.
SendToken(r) ==
    \E id \in given, step \in {"get", "logout"} :
        /\ issued + Cardinality(Busy) < MaxIds
        /\ Arrive(r, step, "none", FALSE, id)
        /\ UNCHANGED overlap

-----------------------------------------------------------------------------
(* login. *)

\* The account is looked up on the request's own connection.  A lock in force, a
\* deactivated account or, for an administrator, a wrong password ends the
\* request; another wrong password is to be counted; and a suspended
\* organization is turned away.
ReadLogin(r) ==
    LET a   == req[r].who
        now == row[a]
    IN  /\ req[r].at = "login" /\ Connected
        /\ \/ /\ ~now.active \/ now.lock = "set" \/ (a \in Admins /\ ~req[r].right)
              /\ Ends(r)
           \/ /\ now.active /\ now.lock # "set" /\ a \in Users /\ ~req[r].right
              /\ Goes(r, "fail")
           \/ /\ now.active /\ now.lock # "set" /\ req[r].right
              /\ req' = [req EXCEPT ![r].at = "reset", ![r].seen = now]
           \/ /\ now.active /\ now.lock # "set" /\ req[r].right
              /\ a \in Users
              /\ Ends(r)
        /\ UNCHANGED <<database, redis, cuts>>

\* The second session reads the row again, on a second connection.
ReadFailed(r) ==
    /\ req[r].at = "fail" /\ Connected
    /\ req' = [req EXCEPT ![r].at = "count", ![r].seen = row[req[r].who]]
    /\ UNCHANGED <<database, redis, cuts>>

\* increment_failed_login writes back the count that was read, plus one, and
\* commits.
CountFailed(r) ==
    LET u == req[r].who
        n == req[r].seen.count + 1
    IN  /\ req[r].at = "count" /\ RowFree(r, u)
        /\ row' = [row EXCEPT ![u].count = n,
                             ![u].lock = IF n >= MaxFailed THEN "set" ELSE @]
        /\ since' = [since EXCEPT ![u] = @ + 1]
        /\ Ends(r)
        /\ UNCHANGED <<redis, cuts, overlap>>

TimeOut_FirstOnly(r) ==
    /\ req[r].at = "login" /\ ~Connected
    /\ Ends(r)
    /\ UNCHANGED <<database, redis, cuts>>

\* The pool gives a request no connection within its time-out.
TimeOut(r) ==
    /\ req[r].at \in {"login", "fail"} /\ ~Connected
    /\ Ends(r)
    /\ UNCHANGED <<database, redis, cuts>>

Dirty_LockKept(a, seen) ==
    IF a \in Admins THEN {"last_login_at"}
    ELSE {c \in {"count"} : seen[c] # NewRow[c]}

\* A flush updates the columns whose value differs from the one that was read.
Dirty(a, seen) ==
    IF a \in Admins THEN {"last_login_at"}
    ELSE {c \in {"count", "lock"} : seen[c] # NewRow[c]}

\* reset_failed_login, update_last_login.
ResetFailed(r) ==
    LET a == req[r].who
        columns == Dirty(a, req[r].seen)
    IN  /\ req[r].at = "reset"
        /\ columns # {} => RowFree(r, a)
        /\ req' = [req EXCEPT ![r].at = "store", ![r].writes = columns]
        /\ UNCHANGED <<database, redis, cuts>>

StoreKey_Reused(r) ==
    /\ req[r].at = "store"
    /\ keys' = keys \cup {[id |-> issued + 1, owner |-> req[r].who]}
    /\ req' = [req EXCEPT ![r].at = "commit", ![r].id = issued + 1]
    /\ UNCHANGED <<database, issued, given, dead, cuts>>

\* The refresh key is stored before the transaction commits.
StoreKey(r) ==
    /\ req[r].at = "store"
    /\ issued' = issued + 1
    /\ keys' = keys \cup {[id |-> issued', owner |-> req[r].who]}
    /\ req' = [req EXCEPT ![r].at = "commit", ![r].id = issued']
    /\ UNCHANGED <<database, given, dead, cuts>>

CommitLogin(r) ==
    LET a == req[r].who
        Value(c) == IF c \in req[r].writes THEN NewRow[c] ELSE row[a][c]
    IN  /\ req[r].at = "commit"
        /\ row' = [row EXCEPT ![a] = [active |-> @.active,
                                     count  |-> Value("count"),
                                     lock   |-> Value("lock")]]
        /\ since' = IF a \in Users THEN [since EXCEPT ![a] = 0] ELSE since
        /\ given' = given \cup {req[r].id}
        /\ Ends(r)
        /\ UNCHANGED <<keys, issued, dead, cuts, overlap>>

-----------------------------------------------------------------------------
(* refresh_tokens and logout. *)

\* GET of the key: the request is refused, or knows whose token it is.
GetKey(r) ==
    /\ req[r].at = "get"
    /\ IF \E k \in keys : k.id = req[r].id
       THEN \E k \in keys :
               /\ k.id = req[r].id
               /\ req' = [req EXCEPT ![r].at = "delete", ![r].who = k.owner]
       ELSE Ends(r)
    /\ UNCHANGED <<database, redis, cuts>>

Without(id) == {k \in keys : k.id # id}

DeleteKey_Kept(r) ==
    /\ req[r].at = "delete"
    /\ Goes(r, IF req[r].who \in Admins THEN "check" ELSE "mint")
    /\ UNCHANGED <<database, redis, cuts>>

DeleteKey_NoCheck(r) ==
    /\ req[r].at = "delete"
    /\ keys' = Without(req[r].id)
    /\ Goes(r, "mint")
    /\ UNCHANGED <<database, issued, given, dead, cuts>>

\* An administrator's row is looked at again, a user's is not.
DeleteKey(r) ==
    /\ req[r].at = "delete"
    /\ keys' = Without(req[r].id)
    /\ Goes(r, IF req[r].who \in Admins THEN "check" ELSE "mint")
    /\ UNCHANGED <<database, issued, given, dead, cuts>>

CheckAdmin(r) ==
    /\ req[r].at = "check"
    /\ IF row[req[r].who].active THEN Goes(r, "mint") ELSE Ends(r)
    /\ UNCHANGED <<database, redis, cuts>>

\* A new key is stored and handed out.
Mint(r) ==
    /\ req[r].at = "mint"
    /\ issued' = issued + 1
    /\ keys' = keys \cup {[id |-> issued', owner |-> req[r].who]}
    /\ given' = given \cup {issued'}
    /\ dead' = dead \cup {req[r].id}
    /\ Ends(r)
    /\ UNCHANGED <<database, cuts>>

Logout(r) ==
    /\ req[r].at = "logout"
    /\ keys' = Without(req[r].id)
    /\ dead' = dead \cup {req[r].id}
    /\ Ends(r)
    /\ UNCHANGED <<database, issued, given, cuts>>

-----------------------------------------------------------------------------
(* Elsewhere. *)

\* update_org_user, or an operator, activates or deactivates an account.
SetActive(a) ==
    /\ \A r \in Requests : RowFree(r, a)
    /\ row' = [row EXCEPT ![a].active = ~@]
    /\ UNCHANGED <<redis, req, cuts, since, overlap>>

LockPasses(u) ==
    /\ row[u].lock = "set"
    /\ row' = [row EXCEPT ![u].lock = "past"]
    /\ UNCHANGED <<redis, req, cuts, since, overlap>>

\* Redis drops a key after REFRESH_TOKEN_EXPIRE_DAYS.
KeyExpires ==
    /\ \E k \in keys : keys' = keys \ {k}
    /\ UNCHANGED <<database, issued, given, dead, req, cuts>>

\* The process that serves a request dies: its transactions roll back.
CutOff(r) ==
    /\ req[r].at # "idle" /\ cuts < MaxCuts
    /\ cuts' = cuts + 1
    /\ Ends(r)
    /\ UNCHANGED <<database, redis>>

Step(r) ==
    \/ ReadLogin(r) \/ ReadFailed(r) \/ CountFailed(r) \/ TimeOut(r)
    \/ ResetFailed(r) \/ StoreKey(r) \/ CommitLogin(r)
    \/ GetKey(r) \/ DeleteKey(r) \/ CheckAdmin(r) \/ Mint(r) \/ Logout(r)

Next ==
    \/ \E r \in Requests : SendLogin(r) \/ SendToken(r) \/ Step(r) \/ CutOff(r)
    \/ \E a \in Accounts : SetActive(a)
    \/ \E u \in Users : LockPasses(u)
    \/ KeyExpires

Spec == Init /\ [][Next]_vars

\* The event loop runs every request; PostgreSQL queues the waiters of a row; the
\* pool's time-out ends a wait that nobody else does.
Fairness == \A r \in Requests : SF_vars(Step(r))
FairSpec == Spec /\ Fairness

-----------------------------------------------------------------------------
(* Properties. *)

\* While no two logins of an account overlap, its count is the number of wrong
\* passwords since the last login that succeeded, and it is locked, or was until
\* the lock ran out, exactly from the MaxFailed-th on: neither a flush that
\* leaves out what it thinks unchanged, nor a request that is cut off or finds
\* no connection, nor a deactivation meanwhile makes them differ.  (Logins
\* that overlap may lose a count, as the count is written back from Python.)
CountExact ==
    \A u \in Users \ overlap :
        /\ row[u].count = since[u]
        /\ row[u].lock # "none" <=> since[u] >= MaxFailed

\* A token that was refreshed or logged out stays dead, whatever refreshes,
\* logouts and logins of the same session cross or are cut off.
OldTokensAreDead == \A k \in keys : k.id \notin dead

\* A request that is past the check of a's row and may store a key for it.
Admitted(a) ==
    \E r \in Requests :
        req[r].at \in {"reset", "store", "mint"} /\ req[r].who = a

Barred(a) == ~row[a].active /\ ~Admitted(a)

KeysOf(a) == {k \in keys : k.owner = a}

\* "A deactivated admin must not be able to keep minting fresh token pairs off
\* Redis state alone": once the requests that had passed the check are over, an
\* administrator who is deactivated gets no new key, by login or refresh, until
\* activated again.
KillSwitch ==
    [][\A a \in Admins :
          Barred(a) /\ ~row'[a].active
              => Barred(a)' /\ KeysOf(a)' \subseteq KeysOf(a)]_vars

\* No login waits for ever, although every connection may be held by a login
\* that waits for a second one.
RequestsEnd == \A r \in Requests : req[r].at # "idle" ~> req[r].at = "idle"

=============================================================================
