--------------------------- MODULE SessionsProofs ---------------------------
(***************************************************************************)
(* The count of wrong passwords, the tokens that are dead and the accounts *)
(* that are barred, for every set of accounts and requests, pool and       *)
(* number of wrong passwords.                                              *)
(***************************************************************************)
EXTENDS Sessions, TLAPS

-----------------------------------------------------------------------------
(* Types. *)

\* Whose a request is from some step on, and which token it presents or has made.
ReqOK ==
    \A r \in Requests :
        /\ req[r].at \in LoginSteps \cup {"delete", "check", "mint"}
              => req[r].who \in Accounts
        /\ req[r].at \in {"fail", "count"} => req[r].who \in Users
        /\ req[r].at \in OtherSteps => req[r].id \in given
        /\ req[r].at = "commit" => req[r].id \in 1 .. issued

Typed == TypeOK /\ ReqOK

LEMMA TypedInit == Init => Typed
  BY SessionsAssumption
     DEF Init, Typed, TypeOK, ReqOK, Row, NewRow, Idle, LoginSteps, OtherSteps

\* A request under way is a record whose step can be replaced.
LEMMA GoesTyped ==
    ASSUME Typed, NEW r \in Requests, req[r].at # "idle",
           NEW to \in LoginSteps \cup OtherSteps
    PROVE  [req[r] EXCEPT !.at = to] \in Request
<1>1. req[r] \in Request
  BY DEF Typed, TypeOK, Idle
<1> QED
  BY <1>1 DEF Request

LEMMA ArriveTyped ==
    ASSUME Typed, NEW r \in Requests, SendLogin(r) \/ SendToken(r)
    PROVE  Typed'
<1> USE DEF Typed, TypeOK, ReqOK, redis
<1>1. NewRow \in Row
  BY DEF NewRow, Row
<1>2. CASE SendLogin(r)
  <2>1. PICK a \in Accounts, right \in BOOLEAN :
          /\ Arrive(r, "login", a, right, 0)
          /\ overlap' \subseteq Users
    BY <1>2 DEF SendLogin
  <2> QED
    BY <1>1, <2>1 DEF Arrive, Request, LoginSteps, OtherSteps, Idle
<1>3. CASE SendToken(r)
  <2>1. PICK id \in given, step \in {"get", "logout"} :
          Arrive(r, step, "none", FALSE, id) /\ UNCHANGED overlap
    BY <1>3 DEF SendToken
  <2>2. id \in Nat
    BY <2>1
  <2> QED
    BY <1>1, <2>1, <2>2 DEF Arrive, Request, LoginSteps, OtherSteps, Idle
<1> QED
  BY <1>2, <1>3

\* A key made for an account leaves the keys in their type.
LEMMA KeyMade ==
    ASSUME Typed, NEW a \in Accounts
    PROVE  /\ issued + 1 \in Nat /\ issued + 1 \in 1 .. (issued + 1)
           /\ 1 .. issued \subseteq 1 .. (issued + 1)
           /\ keys \cup {[id |-> issued + 1, owner |-> a]}
                 \subseteq [id : 1 .. (issued + 1), owner : Accounts]
<1>1. issued \in Nat /\ keys \subseteq [id : 1 .. issued, owner : Accounts]
  BY DEF Typed, TypeOK
<1>2. issued + 1 \in 1 .. (issued + 1) /\ 1 .. issued \subseteq 1 .. (issued + 1)
  BY <1>1
<1>3. ASSUME NEW k \in keys PROVE k \in [id : 1 .. (issued + 1), owner : Accounts]
  <2>1. k \in [id : 1 .. issued, owner : Accounts]
    BY <1>1
  <2> HIDE DEF Accounts
  <2> QED
    BY <2>1, <1>2
<1> QED
  BY <1>1, <1>2, <1>3

LEMMA StepTyped ==
    ASSUME Typed, NEW r \in Requests, Step(r)
    PROVE  Typed'
<1> USE DEF Typed, TypeOK, ReqOK, redis, database, Ends, Goes, LoginSteps,
            OtherSteps, Idle
<1>0. req[r].at # "idle" => req[r] \in Request
  OBVIOUS
<1>1. CASE ReadLogin(r)
  <2>1. row[req[r].who] \in Row
    BY <1>1 DEF ReadLogin
  <2> QED
    BY <1>0, <1>1, <2>1 DEF ReadLogin, Request
<1>2. CASE ReadFailed(r)
  <2>1. row[req[r].who] \in Row
    BY <1>2 DEF ReadFailed, Accounts
  <2> QED
    BY <1>0, <1>2, <2>1 DEF ReadFailed, Request
<1>3. CASE CountFailed(r)
  <2>1. /\ req[r].who \in Users /\ row[req[r].who] \in Row
        /\ req[r].seen.count + 1 \in Nat
    BY <1>0, <1>3 DEF CountFailed, Accounts, Request, Row
  <2> QED
    BY <1>3, <2>1 DEF CountFailed, Row
<1>4. CASE TimeOut(r)
  BY <1>4 DEF TimeOut
<1>5. CASE ResetFailed(r)
  <2>1. Dirty(req[r].who, req[r].seen) \subseteq {"count", "lock", "last_login_at"}
    BY DEF Dirty
  <2> QED
    BY <1>0, <1>5, <2>1 DEF ResetFailed, Request
<1>6. CASE StoreKey(r)
  <2>1. /\ issued' = issued + 1 /\ issued \in Nat
        /\ keys' = keys \cup {[id |-> issued + 1, owner |-> req[r].who]}
        /\ req[r].who \in Accounts
    BY <1>6 DEF StoreKey
  <2>2. /\ keys' \subseteq [id : 1 .. issued', owner : Accounts]
        /\ given \subseteq 1 .. issued'
    BY <2>1, KeyMade
  <2>3. /\ req' \in [Requests -> Request \cup {Idle}]
        /\ \A s \in Requests \ {r} : req'[s] = req[s]
        /\ req'[r].at = "commit" /\ req'[r].who = req[r].who
        /\ req'[r].id = issued + 1
    <3>1. req[r] \in Request /\ issued + 1 \in Nat
      BY <1>0, <1>6, <2>1 DEF StoreKey
    <3>2. [req[r] EXCEPT !.at = "commit", !.id = issued + 1] \in Request
      BY <3>1 DEF Request
    <3>3. req' = [req EXCEPT ![r] =
                     [req[r] EXCEPT !.at = "commit", !.id = issued + 1]]
      BY <1>6, <2>1, <3>1 DEF StoreKey
    <3>4. req \in [Requests -> Request \cup {Idle}]
      OBVIOUS
    <3>5. req' \in [Requests -> Request \cup {Idle}]
      BY <3>2, <3>3, <3>4, Zenon
    <3>6. /\ \A s \in Requests \ {r} : req'[s] = req[s]
          /\ req'[r] = [req[r] EXCEPT !.at = "commit", !.id = issued + 1]
      BY <3>3, <3>4
    <3> QED
      BY <3>1, <3>5, <3>6 DEF Request
  <2>4. TypeOK'
    <3>1. /\ row' = row /\ since' = since /\ overlap' = overlap /\ cuts' = cuts
          /\ given' = given /\ dead' = dead
      BY <1>6 DEF StoreKey
    <3>2. issued' \in Nat
      BY <2>1
    <3>3. /\ row \in [Accounts -> Row] /\ since \in [Users -> Nat]
          /\ overlap \subseteq Users /\ cuts \in 0 .. MaxCuts
          /\ dead \subseteq given
      OBVIOUS
    <3> HIDE DEF Typed, ReqOK, redis, database, Ends, Goes, LoginSteps, OtherSteps, Idle
    <3> QED
      BY <2>2, <2>3, <3>1, <3>2, <3>3
  <2>5. ASSUME NEW s \in Requests
        PROVE  /\ req'[s].at \in LoginSteps \cup {"delete", "check", "mint"}
                     => req'[s].who \in Accounts
               /\ req'[s].at \in {"fail", "count"} => req'[s].who \in Users
               /\ req'[s].at \in OtherSteps => req'[s].id \in given'
               /\ req'[s].at = "commit" => req'[s].id \in 1 .. issued'
    <3>1. CASE s = r
      BY <1>6, <2>1, <2>3, <3>1, KeyMade
    <3>2. CASE s # r
      BY <1>6, <2>1, <2>3, <3>2 DEF StoreKey
    <3> QED
      BY <3>1, <3>2
  <2> QED
    BY <2>4, <2>5
<1>7. CASE CommitLogin(r)
  <2>1. req[r].who \in Accounts /\ row[req[r].who] \in Row /\ NewRow \in Row
    BY <1>7 DEF CommitLogin, NewRow, Row
  <2>2. row' \in [Accounts -> Row]
    BY <1>7, <2>1 DEF CommitLogin, Row
  <2>3. since' \in [Users -> Nat]
    BY <1>7 DEF CommitLogin
  <2> QED
    BY <1>7, <2>2, <2>3 DEF CommitLogin
<1>8. CASE GetKey(r)
  BY <1>0, <1>8 DEF GetKey, Request
<1>9. CASE DeleteKey(r)
  BY <1>0, <1>9 DEF DeleteKey, Without, Request
<1>10. CASE CheckAdmin(r)
  BY <1>0, <1>10 DEF CheckAdmin, Request
<1>11. CASE Mint(r)
  <2>1. /\ issued' = issued + 1 /\ issued \in Nat
        /\ keys' = keys \cup {[id |-> issued', owner |-> req[r].who]}
        /\ req[r].who \in Accounts /\ req[r].id \in given
        /\ given' = given \cup {issued'} /\ dead' = dead \cup {req[r].id}
    BY <1>11 DEF Mint
  <2>2. /\ keys' \subseteq [id : 1 .. issued', owner : Accounts]
        /\ given' \subseteq 1 .. issued' /\ dead' \subseteq given'
    BY <2>1, KeyMade
  <2>3. /\ req' \in [Requests -> Request \cup {Idle}]
        /\ \A s \in Requests \ {r} : req'[s] = req[s]
        /\ req'[r].at = "idle"
    BY <1>11 DEF Mint
  <2>4. TypeOK'
    <3>1. /\ row' = row /\ since' = since /\ overlap' = overlap /\ cuts' = cuts
      BY <1>11 DEF Mint
    <3>2. issued' \in Nat
      BY <2>1
    <3>3. /\ row \in [Accounts -> Row] /\ since \in [Users -> Nat]
          /\ overlap \subseteq Users /\ cuts \in 0 .. MaxCuts
          /\ dead \subseteq given
      OBVIOUS
    <3> HIDE DEF Typed, ReqOK, redis, database, Ends, Goes, LoginSteps, OtherSteps, Idle
    <3> QED
      BY <2>2, <2>3, <3>1, <3>2, <3>3
  <2>5. ASSUME NEW s \in Requests
        PROVE  /\ req'[s].at \in LoginSteps \cup {"delete", "check", "mint"}
                     => req'[s].who \in Accounts
               /\ req'[s].at \in {"fail", "count"} => req'[s].who \in Users
               /\ req'[s].at \in OtherSteps => req'[s].id \in given'
               /\ req'[s].at = "commit" => req'[s].id \in 1 .. issued'
    <3>1. CASE s = r
      BY <1>11, <2>1, <2>3, <3>1
    <3>2. CASE s # r
      BY <1>11, <2>1, <2>3, <3>2 DEF Mint
    <3> QED
      BY <3>1, <3>2
  <2> QED
    BY <2>4, <2>5
<1>12. CASE Logout(r)
  BY <1>0, <1>12 DEF Logout, Without, Request
<1> QED
  BY <1>1, <1>2, <1>3, <1>4, <1>5, <1>6, <1>7, <1>8, <1>9, <1>10, <1>11, <1>12
     DEF Step

LEMMA TypedStep == Typed /\ [Next]_vars => Typed'
<1> SUFFICES ASSUME Typed, [Next]_vars PROVE Typed'
  OBVIOUS
<1> USE DEF Typed, TypeOK, ReqOK, redis, database, history
<1>1. CASE UNCHANGED vars
  BY <1>1 DEF vars
<1>2. ASSUME NEW r \in Requests, SendLogin(r) \/ SendToken(r) PROVE Typed'
  BY <1>2, ArriveTyped
<1>3. ASSUME NEW r \in Requests, Step(r) PROVE Typed'
  BY <1>3, StepTyped
<1>4. ASSUME NEW r \in Requests, CutOff(r) PROVE Typed'
  BY <1>4, SessionsAssumption DEF CutOff, Ends, LoginSteps, OtherSteps, Idle
<1>5. ASSUME NEW a \in Accounts, SetActive(a) PROVE Typed'
  BY <1>5 DEF SetActive, Row
<1>6. ASSUME NEW u \in Users, LockPasses(u) PROVE Typed'
  BY <1>6 DEF LockPasses, Row
<1>7. CASE KeyExpires
  BY <1>7 DEF KeyExpires
<1> QED
  BY <1>1, <1>2, <1>3, <1>4, <1>5, <1>6, <1>7 DEF Next

LEMMA TypedAlways == Spec => []Typed
  BY TypedInit, TypedStep, PTL DEF Spec

\* The variables keep their types: no token is made twice, none is dead that was
\* not handed out, and none is handed out that was not made.
THEOREM SessionsTypeCorrect == Spec => []TypeOK
  BY TypedAlways, PTL DEF Typed

-----------------------------------------------------------------------------
(* Dead tokens. *)

\* Between the removal of its key and its end, a refresh keeps the token dead.
Removed ==
    \A r \in Requests :
        req[r].at \in {"check", "mint"} => \A k \in keys : k.id # req[r].id

DeadInv == OldTokensAreDead /\ Removed

LEMMA DeadInit == Init => DeadInv
  BY DEF Init, DeadInv, OldTokensAreDead, Removed

\* It is enough that no key and no dead token is added, and that requests past
\* the removal were so before.
LEMMA DeadKept ==
    ASSUME DeadInv, keys' \subseteq keys, dead' = dead,
           \A r \in Requests :
              req'[r].at \in {"check", "mint"}
                  => req[r].at \in {"check", "mint"} /\ req'[r].id = req[r].id
    PROVE  DeadInv'
  BY DEF DeadInv, OldTokensAreDead, Removed

LEMMA DeadStep == Typed /\ DeadInv /\ [Next]_vars => DeadInv'
<1> SUFFICES ASSUME Typed, DeadInv, [Next]_vars PROVE DeadInv'
  OBVIOUS
<1> USE DEF Typed, TypeOK, redis, database, history, Idle
<1>1. CASE UNCHANGED vars
  BY <1>1, DeadKept DEF vars
<1>2. ASSUME NEW r \in Requests, SendLogin(r) \/ SendToken(r) PROVE DeadInv'
  BY <1>2, DeadKept DEF SendLogin, SendToken, Arrive
<1>3. ASSUME NEW r \in Requests, Step(r) PROVE DeadInv'
  <2>1. CASE \/ ReadLogin(r) \/ ReadFailed(r) \/ CountFailed(r) \/ TimeOut(r)
             \/ ResetFailed(r) \/ CommitLogin(r) \/ GetKey(r) \/ CheckAdmin(r)
    <3>1. keys' = keys /\ dead' = dead
      BY <2>1 DEF ReadLogin, ReadFailed, CountFailed, TimeOut, ResetFailed,
                  CommitLogin, GetKey, CheckAdmin
    <3>2. /\ \A s \in Requests \ {r} : req'[s] = req[s]
          /\ req'[r].at \in {"check", "mint"}
                => req[r].at \in {"check", "mint"} /\ req'[r].id = req[r].id
      <4>0. req[r].at # "idle" => req[r] \in Request
        OBVIOUS
      <4>1. CASE ReadLogin(r) \/ ReadFailed(r)
        BY <4>0, <4>1 DEF ReadLogin, ReadFailed, Goes, Ends, Request
      <4>2. CASE CountFailed(r) \/ TimeOut(r) \/ CommitLogin(r)
        BY <4>2 DEF CountFailed, TimeOut, CommitLogin, Ends
      <4>3. CASE ResetFailed(r)
        BY <4>0, <4>3 DEF ResetFailed, Request
      <4>4. CASE GetKey(r)
        BY <4>0, <4>4 DEF GetKey, Ends, Request
      <4>5. CASE CheckAdmin(r)
        BY <4>0, <4>5 DEF CheckAdmin, Goes, Ends, Request
      <4> QED
        BY <2>1, <4>1, <4>2, <4>3, <4>4, <4>5
    <3> QED
      BY <3>1, <3>2, DeadKept
  <2>2. CASE StoreKey(r)
    <3>1. /\ keys' = keys \cup {[id |-> issued + 1, owner |-> req[r].who]}
          /\ dead' = dead /\ issued \in Nat /\ dead \subseteq 1 .. issued
      BY <2>2 DEF StoreKey
    <3>2. \A s \in Requests :
             req'[s].at \in {"check", "mint"} => req'[s] = req[s]
      BY <2>2 DEF StoreKey, Request
    <3>3. \A s \in Requests :
             req[s].at \in {"check", "mint"} => req[s].id \in 1 .. issued
      BY DEF ReqOK, OtherSteps
    <3> QED
      BY <3>1, <3>2, <3>3 DEF DeadInv, OldTokensAreDead, Removed
  <2>3. CASE DeleteKey(r)
    <3>1. keys' = {k \in keys : k.id # req[r].id} /\ dead' = dead
      BY <2>3 DEF DeleteKey, Without
    <3>2. /\ \A s \in Requests \ {r} : req'[s] = req[s]
          /\ req'[r].id = req[r].id
      BY <2>3 DEF DeleteKey, Goes, Request
    <3> QED
      BY <3>1, <3>2 DEF DeadInv, OldTokensAreDead, Removed
  <2>4. CASE Mint(r)
    <3>1. /\ keys' = keys \cup {[id |-> issued + 1, owner |-> req[r].who]}
          /\ dead' = dead \cup {req[r].id}
          /\ issued \in Nat /\ dead \subseteq 1 .. issued
          /\ req[r].at = "mint"
      BY <2>4 DEF Mint
    <3>2. \A s \in Requests :
             req'[s].at \in {"check", "mint"} => req'[s] = req[s]
      BY <2>4 DEF Mint, Ends
    <3>3. \A s \in Requests :
             req[s].at \in {"check", "mint"} => req[s].id \in 1 .. issued
      BY DEF ReqOK, OtherSteps
    <3> QED
      BY <3>1, <3>2, <3>3 DEF DeadInv, OldTokensAreDead, Removed
  <2>5. CASE Logout(r)
    <3>1. /\ keys' = {k \in keys : k.id # req[r].id}
          /\ dead' = dead \cup {req[r].id}
      BY <2>5 DEF Logout, Without
    <3>2. \A s \in Requests :
             req'[s].at \in {"check", "mint"} => req'[s] = req[s]
      BY <2>5 DEF Logout, Ends
    <3> QED
      BY <3>1, <3>2 DEF DeadInv, OldTokensAreDead, Removed
  <2> QED
    BY <1>3, <2>1, <2>2, <2>3, <2>4, <2>5 DEF Step
<1>4. ASSUME NEW r \in Requests, CutOff(r) PROVE DeadInv'
  BY <1>4, DeadKept DEF CutOff, Ends
<1>5. CASE \/ \E a \in Accounts : SetActive(a)
           \/ \E u \in Users : LockPasses(u)
           \/ KeyExpires
  BY <1>5, DeadKept DEF SetActive, LockPasses, KeyExpires
<1> QED
  BY <1>1, <1>2, <1>3, <1>4, <1>5 DEF Next

\* A token that was refreshed or logged out has no key any more, whatever
\* requests cross: tokens are never made twice, and whoever presents one has
\* removed its key before it answers.
THEOREM OldTokensStayDead == Spec => []OldTokensAreDead
<1>1. Init => DeadInv
  BY DeadInit
<1>2. Typed /\ Typed' /\ DeadInv /\ [Next]_vars => DeadInv'
  BY DeadStep
<1>3. DeadInv => OldTokensAreDead
  BY DEF DeadInv
<1> QED
  BY <1>1, <1>2, <1>3, TypedAlways, PTL DEF Spec

-----------------------------------------------------------------------------
(* Barred administrators. *)

\* Only a request that has been admitted adds a key of a.
LEMMA NoNewKey ==
    ASSUME Typed, NEW a \in Admins, ~Admitted(a), NEW r \in Requests, Step(r)
    PROVE  KeysOf(a)' \subseteq KeysOf(a)
<1>1. CASE StoreKey(r) \/ Mint(r)
  <2>1. req[r].who # a
    BY <1>1 DEF StoreKey, Mint, Admitted
  <2>2. keys' = keys \cup {[id |-> issued', owner |-> req[r].who]}
    BY <1>1 DEF StoreKey, Mint
  <2> QED
    BY <2>1, <2>2 DEF KeysOf
<1>2. CASE DeleteKey(r) \/ Logout(r)
  BY <1>2 DEF DeleteKey, Logout, Without, KeysOf
<1>3. CASE \/ ReadLogin(r) \/ ReadFailed(r) \/ CountFailed(r) \/ TimeOut(r)
           \/ ResetFailed(r) \/ CommitLogin(r) \/ GetKey(r) \/ CheckAdmin(r)
  BY <1>3 DEF ReadLogin, ReadFailed, CountFailed, TimeOut, ResetFailed,
              CommitLogin, GetKey, CheckAdmin, KeysOf, redis
<1> QED
  BY <1>1, <1>2, <1>3 DEF Step

\* A request of a gets past its check only while a is active: a login reads the
\* row, and a refresh goes through CheckAdmin.
LEMMA NotAdmitted ==
    ASSUME Typed, NEW a \in Admins, Barred(a), NEW r \in Requests, Step(r)
    PROVE  ~Admitted(a)'
<1> USE DEF Typed, TypeOK, Idle, Goes, Ends
<1>0. req[r].at # "idle" => req[r] \in Request
  OBVIOUS
<1>1. ~(req'[r].at \in {"reset", "store", "mint"} /\ req'[r].who = a)
  <2>1. CASE ReadLogin(r)
    BY <1>0, <2>1 DEF ReadLogin, Request, Barred
  <2>2. CASE ReadFailed(r) \/ CountFailed(r) \/ TimeOut(r) \/ StoreKey(r)
    BY <1>0, <2>2 DEF ReadFailed, CountFailed, TimeOut, StoreKey, Request
  <2>3. CASE ResetFailed(r)
    BY <1>0, <2>3 DEF ResetFailed, Request, Barred, Admitted
  <2>4. CASE CommitLogin(r) \/ Mint(r) \/ Logout(r)
    BY <2>4 DEF CommitLogin, Mint, Logout
  <2>5. CASE GetKey(r)
    BY <1>0, <2>5 DEF GetKey, Request
  <2>6. CASE DeleteKey(r)
    BY <1>0, <2>6 DEF DeleteKey, Request
  <2>7. CASE CheckAdmin(r)
    BY <1>0, <2>7 DEF CheckAdmin, Request, Barred
  <2> QED
    BY <2>1, <2>2, <2>3, <2>4, <2>5, <2>6, <2>7 DEF Step
<1>2. \A s \in Requests \ {r} : req'[s] = req[s]
  BY DEF Step, ReadLogin, ReadFailed, CountFailed, TimeOut, ResetFailed, StoreKey,
         CommitLogin, GetKey, DeleteKey, CheckAdmin, Mint, Logout
<1> QED
  BY <1>1, <1>2 DEF Barred, Admitted

LEMMA StaysBarred ==
    ASSUME Typed, [Next]_vars, NEW a \in Admins, Barred(a), ~row'[a].active
    PROVE  Barred(a)' /\ KeysOf(a)' \subseteq KeysOf(a)
<1> SUFFICES ~Admitted(a)' /\ KeysOf(a)' \subseteq KeysOf(a)
  BY DEF Barred
<1>1. CASE UNCHANGED vars
  BY <1>1 DEF vars, Barred, Admitted, KeysOf
<1>2. ASSUME NEW r \in Requests, SendLogin(r) \/ SendToken(r)
      PROVE  ~Admitted(a)' /\ KeysOf(a)' \subseteq KeysOf(a)
  BY <1>2 DEF SendLogin, SendToken, Arrive, Typed, TypeOK, redis, Barred, Admitted,
              KeysOf
<1>3. ASSUME NEW r \in Requests, Step(r)
      PROVE  ~Admitted(a)' /\ KeysOf(a)' \subseteq KeysOf(a)
  BY <1>3, NoNewKey, NotAdmitted DEF Barred
<1>4. ASSUME NEW r \in Requests, CutOff(r)
      PROVE  ~Admitted(a)' /\ KeysOf(a)' \subseteq KeysOf(a)
  BY <1>4 DEF CutOff, Ends, Idle, Typed, TypeOK, redis, Barred, Admitted, KeysOf
<1>5. CASE \/ \E b \in Accounts : SetActive(b)
           \/ \E u \in Users : LockPasses(u)
           \/ KeyExpires
  BY <1>5 DEF SetActive, LockPasses, KeyExpires, redis, Barred, Admitted, KeysOf
<1> QED
  BY <1>1, <1>2, <1>3, <1>4, <1>5 DEF Next

\* Once a deactivated administrator's requests that had passed the check are
\* over, no login and no refresh stores a key for that administrator.
THEOREM DeactivationHolds == Spec => KillSwitch
<1>1. Typed /\ [Next]_vars
        => [\A a \in Admins :
              Barred(a) /\ ~row'[a].active
                  => Barred(a)' /\ KeysOf(a)' \subseteq KeysOf(a)]_vars
  BY StaysBarred
<1> QED
  BY <1>1, TypedAlways, PTL DEF Spec, KillSwitch

-----------------------------------------------------------------------------
(* The count of wrong passwords. *)

\* While no logins of u overlap, the one there is knows the row it read.
Knows(r, u) ==
    /\ req[r].at \in {"count", "reset", "store", "commit"}
          => /\ req[r].seen.count = row[u].count
             /\ req[r].seen.lock = "none" <=> row[u].lock = "none"
    /\ req[r].at \in {"store", "commit"} => req[r].writes = Dirty(u, req[r].seen)

Counted(u) ==
    /\ row[u].count = since[u]
    /\ row[u].lock # "none" <=> since[u] >= MaxFailed

Alone(u) == \A r, s \in Requests : LogsIn(r, u) /\ LogsIn(s, u) => r = s

CountInv ==
    \A u \in Users \ overlap :
        Counted(u) /\ Alone(u) /\ \A r \in Requests : LogsIn(r, u) => Knows(r, u)

LEMMA CountInit == Init => CountInv
  BY SessionsAssumption
     DEF Init, CountInv, Counted, Alone, LogsIn, NewRow, Idle, LoginSteps, Accounts

\* It is enough that the count and the lock are the same and that the logins of u
\* there are have not moved.
LEMMA CountSame ==
    ASSUME CountInv, NEW u \in Users \ overlap,
           row'[u].count = row[u].count,
           (row'[u].lock = "none") <=> (row[u].lock = "none"),
           since'[u] = since[u],
           \A s \in Requests : LogsIn(s, u)' => req'[s] = req[s]
    PROVE  /\ Counted(u)' /\ Alone(u)'
           /\ \A s \in Requests : LogsIn(s, u)' => Knows(s, u)'
<1>1. Counted(u) /\ Alone(u) /\ \A s \in Requests : LogsIn(s, u) => Knows(s, u)
  BY DEF CountInv
<1>2. \A s \in Requests : LogsIn(s, u)' => LogsIn(s, u)
  BY DEF LogsIn
<1>3. Counted(u)'
  BY <1>1 DEF Counted
<1>4. Alone(u)'
  BY <1>1, <1>2 DEF Alone
<1>5. ASSUME NEW s \in Requests, LogsIn(s, u)' PROVE Knows(s, u)'
  <2>1. Knows(s, u) /\ req'[s] = req[s]
    BY <1>1, <1>2, <1>5
  <2> QED
    BY <2>1 DEF Knows, Dirty
<1> QED
  BY <1>3, <1>4, <1>5

\* It is enough to look at the one login of u.
LEMMA CountOne ==
    ASSUME Typed, CountInv, NEW u \in Users \ overlap,
           NEW r \in Requests, LogsIn(r, u),
           \A s \in Requests \ {r} : req'[s] = req[s],
           Counted(u)', LogsIn(r, u)' => Knows(r, u)'
    PROVE  /\ Counted(u)' /\ Alone(u)'
           /\ \A s \in Requests : LogsIn(s, u)' => Knows(s, u)'
<1>1. \A s \in Requests : LogsIn(s, u) => s = r
  BY DEF CountInv, Alone
<1>2. \A s \in Requests : LogsIn(s, u)' => s = r
  BY <1>1 DEF LogsIn
<1> QED
  BY <1>2 DEF Alone

\* A step of r touches no row and no history but those of its own account, and
\* no other request.
LEMMA StepIsOwn ==
    ASSUME Typed, NEW r \in Requests, Step(r)
    PROVE  /\ \A s \in Requests \ {r} : req'[s] = req[s]
           /\ overlap' = overlap
           /\ \A u \in Users : u # req[r].who \/ ~LogsIn(r, u)
                 => /\ row'[u] = row[u] /\ since'[u] = since[u]
                    /\ ~LogsIn(r, u)'
<1> USE DEF Typed, TypeOK, Idle, Goes, Ends, database, LogsIn, LoginSteps, OtherSteps
<1>0. req[r].at # "idle" => req[r] \in Request
  OBVIOUS
<1>1. CASE ReadLogin(r) \/ ReadFailed(r)
  BY <1>0, <1>1 DEF ReadLogin, ReadFailed, Request
<1>2. CASE CountFailed(r)
  <2>1. req' = [req EXCEPT ![r] = Idle] /\ req[r].at = "count"
    BY <1>2 DEF CountFailed
  <2>2. \A u \in Users : u # req[r].who => row'[u] = row[u] /\ since'[u] = since[u]
    <3> DEFINE a == req[r].who
               new == [row[a] EXCEPT !.count = req[r].seen.count + 1,
                          !.lock = IF req[r].seen.count + 1 >= MaxFailed
                                   THEN "set" ELSE @]
    <3>1. /\ row' = [row EXCEPT ![a] = new]
          /\ since' = [since EXCEPT ![a] = @ + 1]
      BY <1>2 DEF CountFailed
    <3> HIDE DEF new
    <3> QED
      BY <3>1 DEF Accounts
  <2>3. overlap' = overlap
    BY <1>2 DEF CountFailed
  <2> QED
    BY <2>1, <2>2, <2>3
<1>6. CASE CommitLogin(r)
  <2>1. req' = [req EXCEPT ![r] = Idle] /\ req[r].who \in Accounts
    BY <1>6 DEF CommitLogin, ReqOK
  <2>2. \A u \in Users : u # req[r].who => row'[u] = row[u] /\ since'[u] = since[u]
    BY <1>6 DEF CommitLogin, Accounts
  <2> QED
    BY <1>6, <2>1, <2>2 DEF CommitLogin
<1>3. CASE TimeOut(r) \/ Mint(r) \/ Logout(r)
  BY <1>3 DEF TimeOut, Mint, Logout
<1>4. CASE ResetFailed(r) \/ StoreKey(r)
  BY <1>0, <1>4 DEF ResetFailed, StoreKey, Request
<1>5. CASE GetKey(r) \/ DeleteKey(r) \/ CheckAdmin(r)
  BY <1>0, <1>5 DEF GetKey, DeleteKey, CheckAdmin, Request
<1> QED
  BY <1>1, <1>2, <1>3, <1>4, <1>5, <1>6 DEF Step

\* The steps of the one login of u.
LEMMA LoginCounts ==
    ASSUME Typed, CountInv, NEW u \in Users \ overlap,
           NEW r \in Requests, LogsIn(r, u), Step(r)
    PROVE  Counted(u)' /\ (LogsIn(r, u)' => Knows(r, u)')
<1> DEFINE q == req[r]
<1>1. /\ q.who = u /\ q.at \in LoginSteps /\ q \in Request
      /\ u \in Accounts /\ u \notin Admins
      /\ row \in [Accounts -> Row] /\ since \in [Users -> Nat]
      /\ req \in [Requests -> Request \cup {Idle}]
  BY SessionsAssumption
     DEF LogsIn, Typed, TypeOK, Idle, LoginSteps, Accounts
<1>2. Counted(u) /\ Knows(r, u)
  BY DEF CountInv
<1>3. row[u] \in Row /\ q.seen \in Row
  BY <1>1 DEF Request
<1>4. CASE ReadLogin(r)
  <2>1. row' = row /\ since' = since
    BY <1>4 DEF ReadLogin, database
  <2>2. q.at = "login"
    BY <1>4 DEF ReadLogin
  <2>3. CASE Ends(r)
    BY <1>1, <1>2, <2>1, <2>3 DEF Ends, Idle, Counted, LogsIn, LoginSteps
  <2>4. CASE Goes(r, "fail")
    BY <1>1, <1>2, <2>1, <2>4 DEF Goes, Counted, Knows, Request
  <2>5. CASE req' = [req EXCEPT ![r].at = "reset", ![r].seen = row[u]]
    BY <1>1, <1>2, <2>1, <2>5 DEF Counted, Knows, Request
  <2> QED
    BY <1>1, <1>4, <2>3, <2>4, <2>5 DEF ReadLogin
<1>5. CASE ReadFailed(r)
  <2>1. row' = row /\ since' = since
    BY <1>5 DEF ReadFailed, database
  <2>2. req' = [req EXCEPT ![r].at = "count", ![r].seen = row[u]]
    BY <1>1, <1>5 DEF ReadFailed
  <2> QED
    BY <1>1, <1>2, <2>1, <2>2 DEF Counted, Knows, Request
<1>6. CASE CountFailed(r)
  <2>1. /\ row'[u].count = row[u].count + 1
        /\ row'[u].lock = IF row[u].count + 1 >= MaxFailed THEN "set" ELSE row[u].lock
        /\ since'[u] = since[u] + 1
    BY <1>1, <1>2, <1>3, <1>6 DEF CountFailed, Knows, Row
  <2>2. ~LogsIn(r, u)'
    BY <1>1, <1>6 DEF CountFailed, Ends, Idle, LogsIn, LoginSteps
  <2>3. row[u].count = since[u] /\ since[u] \in Nat /\ MaxFailed \in Nat
    BY <1>1, <1>2, SessionsAssumption DEF Counted
  <2> QED
    BY <1>2, <2>1, <2>2, <2>3 DEF Counted
<1>7. CASE TimeOut(r)
  BY <1>1, <1>2, <1>7 DEF TimeOut, database, Ends, Idle, Counted, LogsIn, LoginSteps
<1>8. CASE ResetFailed(r)
  <2>1. row' = row /\ since' = since
    BY <1>8 DEF ResetFailed, database
  <2>2. req' = [req EXCEPT ![r].at = "store", ![r].writes = Dirty(u, q.seen)]
    BY <1>1, <1>8 DEF ResetFailed
  <2>3. q.at = "reset"
    BY <1>8 DEF ResetFailed
  <2>4. /\ req'[r].at = "store" /\ req'[r].writes = Dirty(u, q.seen)
        /\ req'[r].seen = q.seen
    BY <1>1, <2>2 DEF Request
  <2> QED
    BY <1>2, <2>1, <2>3, <2>4 DEF Counted, Knows, Dirty
<1>9. CASE StoreKey(r)
  <2>1. row' = row /\ since' = since
    BY <1>9 DEF StoreKey, database
  <2>2. /\ q.at = "store" /\ req'[r].at = "commit"
        /\ req'[r].writes = q.writes /\ req'[r].seen = q.seen
    BY <1>1, <1>9 DEF StoreKey, Request
  <2> QED
    BY <1>2, <2>1, <2>2 DEF Counted, Knows, Dirty
<1>10. CASE CommitLogin(r)
  <2>1. /\ row'[u].count = IF "count" \in q.writes THEN 0 ELSE row[u].count
        /\ row'[u].lock = IF "lock" \in q.writes THEN "none" ELSE row[u].lock
        /\ since'[u] = 0
    BY <1>1, <1>10 DEF CommitLogin, NewRow
  <2>2. q.writes = {c \in {"count", "lock"} : q.seen[c] # NewRow[c]}
    BY <1>1, <1>2, <1>10 DEF CommitLogin, Knows, Dirty
  <2>3. /\ q.seen.count = row[u].count
        /\ (q.seen.lock = "none") <=> (row[u].lock = "none")
    BY <1>2, <1>10 DEF CommitLogin, Knows
  <2>4. row'[u].count = 0 /\ row'[u].lock = "none"
    BY <2>1, <2>2, <2>3 DEF NewRow
  <2>5. ~LogsIn(r, u)'
    BY <1>1, <1>10 DEF CommitLogin, Ends, Idle, LogsIn, LoginSteps
  <2> QED
    BY <2>1, <2>4, <2>5, SessionsAssumption DEF Counted
<1>11. CASE GetKey(r) \/ DeleteKey(r) \/ CheckAdmin(r) \/ Mint(r) \/ Logout(r)
  BY <1>1, <1>11 DEF GetKey, DeleteKey, CheckAdmin, Mint, Logout, LoginSteps
<1> QED
  BY <1>4, <1>5, <1>6, <1>7, <1>8, <1>9, <1>10, <1>11 DEF Step

LEMMA CountStep == Typed /\ CountInv /\ [Next]_vars => CountInv'
<1> SUFFICES ASSUME Typed, CountInv, [Next]_vars, NEW u \in Users \ overlap'
             PROVE  /\ Counted(u)' /\ Alone(u)'
                    /\ \A s \in Requests : LogsIn(s, u)' => Knows(s, u)'
  BY DEF CountInv
<1>1. CASE UNCHANGED vars
  BY <1>1, CountSame DEF vars, history
<1>2. ASSUME NEW r \in Requests, SendLogin(r) \/ SendToken(r)
      PROVE  /\ Counted(u)' /\ Alone(u)'
             /\ \A s \in Requests : LogsIn(s, u)' => Knows(s, u)'
  <2>1. row' = row /\ since' = since /\ u \in Users \ overlap
    BY <1>2 DEF SendLogin, SendToken, Arrive
  <2>2. \A s \in Requests \ {r} : req'[s] = req[s]
    BY <1>2 DEF SendLogin, SendToken, Arrive, Typed, TypeOK
  <2>3. CASE LogsIn(r, u)'
    <3>1. \A s \in Requests : ~LogsIn(s, u)
      BY <1>2, <2>3 DEF SendLogin, SendToken, Arrive, LogsIn, LoginSteps, Typed, TypeOK
    <3>2. \A s \in Requests : LogsIn(s, u)' => s = r
      BY <2>2, <3>1 DEF LogsIn
    <3>3. req'[r].at = "login"
      BY <1>2, <2>3 DEF SendLogin, SendToken, Arrive, LogsIn, LoginSteps, Typed, TypeOK
    <3>4. Counted(u)'
      BY <2>1 DEF CountInv, Counted
    <3>5. Knows(r, u)'
      BY <3>3 DEF Knows
    <3> QED
      BY <3>2, <3>4, <3>5 DEF Alone
  <2>4. CASE ~LogsIn(r, u)'
    BY <2>1, <2>2, <2>4, CountSame
  <2> QED
    BY <2>3, <2>4
<1>3. ASSUME NEW r \in Requests, Step(r)
      PROVE  /\ Counted(u)' /\ Alone(u)'
             /\ \A s \in Requests : LogsIn(s, u)' => Knows(s, u)'
  <2>1. u \in Users \ overlap /\ \A s \in Requests \ {r} : req'[s] = req[s]
    BY <1>3, StepIsOwn
  <2>2. CASE LogsIn(r, u)
    BY <1>3, <2>1, <2>2, LoginCounts, CountOne
  <2>3. CASE ~LogsIn(r, u)
    BY <1>3, <2>1, <2>3, StepIsOwn, CountSame
  <2> QED
    BY <2>2, <2>3
<1>4. ASSUME NEW r \in Requests, CutOff(r)
      PROVE  /\ Counted(u)' /\ Alone(u)'
             /\ \A s \in Requests : LogsIn(s, u)' => Knows(s, u)'
  <2>1. row' = row /\ since' = since /\ u \in Users \ overlap
    BY <1>4 DEF CutOff, database
  <2>2. \A s \in Requests : LogsIn(s, u)' => req'[s] = req[s]
    BY <1>4 DEF CutOff, Ends, Idle, LogsIn, LoginSteps, Typed, TypeOK
  <2> QED
    BY <2>1, <2>2, CountSame
<1>5. ASSUME NEW a \in Accounts, SetActive(a)
      PROVE  /\ Counted(u)' /\ Alone(u)'
             /\ \A s \in Requests : LogsIn(s, u)' => Knows(s, u)'
  <2>1. /\ req' = req /\ since' = since /\ u \in Users \ overlap
        /\ row'[u].count = row[u].count /\ row'[u].lock = row[u].lock
    BY <1>5 DEF SetActive, Typed, TypeOK, Row, Accounts
  <2> QED
    BY <2>1, CountSame
<1>6. ASSUME NEW v \in Users, LockPasses(v)
      PROVE  /\ Counted(u)' /\ Alone(u)'
             /\ \A s \in Requests : LogsIn(s, u)' => Knows(s, u)'
  <2>1. /\ req' = req /\ since' = since /\ u \in Users \ overlap
        /\ row'[u].count = row[u].count
        /\ (row'[u].lock = "none") <=> (row[u].lock = "none")
    BY <1>6 DEF LockPasses, Typed, TypeOK, Row, Accounts
  <2> QED
    BY <2>1, CountSame
<1>7. CASE KeyExpires
  BY <1>7, CountSame DEF KeyExpires, database
<1> QED
  BY <1>1, <1>2, <1>3, <1>4, <1>5, <1>6, <1>7 DEF Next

\* While no two logins of an account overlap, its count of wrong passwords is
\* exact and it is locked from the MaxFailed-th on: the login there is knows the
\* row it read, so what a flush leaves out is indeed unchanged.
THEOREM CountIsExact == Spec => []CountExact
<1>1. Init => CountInv
  BY CountInit
<1>2. Typed /\ CountInv /\ [Next]_vars => CountInv'
  BY CountStep
<1>3. CountInv => CountExact
  BY DEF CountInv, Counted, CountExact
<1> QED
  BY <1>1, <1>2, <1>3, TypedAlways, PTL DEF Spec
=============================================================================
