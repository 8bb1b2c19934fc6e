---------------------------- MODULE WebAppProofs ----------------------------
(***************************************************************************)
(* The owner of an organization, and the pages and panels of the tab: what *)
(* one tab, the API and the other users can do to an owner's account, and  *)
(* what each page shows while its fetches are answered in any order.       *)
(***************************************************************************)
EXTENDS WebTabProofs

-----------------------------------------------------------------------------
(* The owner stays, for every set of users, tours and faults. *)

\* There is an entry for every account that may exist.
StaffOK == DOMAIN staff = Users

LEMMA StaffInit == Init => StaffOK
  BY TourAssumption DEF Init, StaffOK, IsTour, Team!Accounts

LEMMA StaffKept ==
    ASSUME StaffOK, UNCHANGED server
    PROVE  StaffOK' /\ \A u \in Users : IsOwner(u) => IsOwner(u)'
  BY DEF StaffOK, IsOwner, server

\* An entry may change if it is not that of an active owner.
LEMMA EntryChanged ==
    ASSUME StaffOK, NEW v, NEW new, ~IsOwner(v), staff' = [staff EXCEPT ![v] = new]
    PROVE  StaffOK' /\ \A u \in Users : IsOwner(u) => IsOwner(u)'
<1>1. DOMAIN staff' = DOMAIN staff
  OBVIOUS
<1>2. ASSUME NEW u \in Users, IsOwner(u)
      PROVE  staff'[u] = staff[u]
  BY <1>2 DEF StaffOK, IsOwner
<1> QED
  BY <1>1, <1>2 DEF StaffOK, IsOwner

\* The role rules of update_org_user keep the owner out of every other's reach.
LEMMA MayUpdateSpares ==
    ASSUME NEW actor, NEW as, NEW v, NEW change, MayUpdate(actor, as, v, change)
    PROVE  ~IsOwner(v)
  BY DEF MayUpdate, IsOwner

LEMMA ReadKeeps ==
    ASSUME NEW i, NEW op, NEW found, NEW data, Read(i, op, found, data)
    PROVE  UNCHANGED server
  BY DEF Read

LEMMA ServeKeeps ==
    ASSUME StaffOK, NEW i,
           \/ ServeDocuments(i) \/ ServeExtractions(i)
           \/ ServeAccounts(i) \/ ServeAdmin(i)
    PROVE  StaffOK' /\ \A u \in Users : IsOwner(u) => IsOwner(u)'
<1> DEFINE Kept == StaffOK' /\ \A u \in Users : IsOwner(u) => IsOwner(u)'
<1>1. ASSUME staff' = staff PROVE Kept
  BY <1>1 DEF StaffOK, IsOwner
<1>2. CASE ServeDocuments(i)
  <2>1. staff' = staff
    BY <1>2, ReadKeeps
       DEF ServeDocuments, ListDocuments, GetDocument, ReadDocuments, BulkDelete,
           Compare, Answer, Search, Body, server
  <2> QED
    BY <2>1, <1>1
<1>3. CASE ServeExtractions(i)
  <2>1. staff' = staff
    BY <1>3, ReadKeeps
       DEF ServeExtractions, ReadAll, RunExtraction, DeleteRows, ExportRows,
           CreateTemplate, UpdateTemplate, DeleteTemplate, server
  <2> QED
    BY <2>1, <1>1
<1>4. CASE ServeAdmin(i)
  <2>1. staff' = staff
    BY <1>4
       DEF ServeAdmin, GetAdmin, ListOrgs, ListOrgDocuments, AdminRead,
           UpdateOrganization, server
  <2> QED
    BY <2>1, <1>1
<1>5. CASE ServeAccounts(i)
  <2>1. CASE CreateUser(i)
    <3>1. staff[calls[i].arg.user] = None
      BY <2>1 DEF CreateUser, Write
    <3> QED
      BY <2>1, <3>1, EntryChanged DEF CreateUser, IsOwner
  <2>2. CASE UpdateUser(i)
    <3>1. MayUpdate(calls[i].as.user, calls[i].as.role, calls[i].arg.user,
                    calls[i].arg.change)
      BY <2>2 DEF UpdateUser, Write
    <3>2. ~IsOwner(calls[i].arg.user)
      BY <3>1, MayUpdateSpares
    <3>3. PICK new : staff' = [staff EXCEPT ![calls[i].arg.user] = new]
      BY <2>2 DEF UpdateUser
    <3> QED
      BY <3>2, <3>3, EntryChanged
  <2>3. CASE Register(i)
    <3>1. PICK v \in Users :
            staff' = [staff EXCEPT ![v] = [role |-> "owner", active |-> TRUE]]
      BY <2>3 DEF Register
    <3>2. ~IsOwner(v)
      BY <2>3 DEF Register, IsOwner
    <3> QED
      BY <3>1, <3>2, EntryChanged
  <2>4. CASE ListUsers(i) \/ GetMe(i) \/ Login(i) \/ Logout(i)
    <3>1. staff' = staff
      BY <2>4, ReadKeeps DEF ListUsers, GetMe, Login, Logout, server
    <3> QED
      BY <3>1, <1>1
  <2> QED
    BY <1>5, <2>1, <2>2, <2>3, <2>4 DEF ServeAccounts
<1> QED
  BY <1>2, <1>3, <1>4, <1>5

LEMMA ElsewhereKeeps ==
    ASSUME StaffOK, Elsewhere
    PROVE  StaffOK' /\ \A u \in Users : IsOwner(u) => IsOwner(u)'
<1>1. CASE UploadEnds \/ OthersDelete
  <2>1. staff' = staff
    BY <1>1 DEF UploadEnds, OthersDelete
  <2> QED
    BY <2>1 DEF StaffOK, IsOwner
<1>2. CASE OthersManage
  <2>1. PICK actor \in Users, v \in Users :
          \E change \in [role : {None} \cup Roles, active : {None} \cup BOOLEAN] :
             /\ MayUpdate(actor, staff[actor].role, v, change)
             /\ staff' = [staff EXCEPT ![v] = Changed(@, change)]
    BY <1>2 DEF OthersManage
  <2>2. PICK change \in [role : {None} \cup Roles, active : {None} \cup BOOLEAN] :
             /\ MayUpdate(actor, staff[actor].role, v, change)
             /\ staff' = [staff EXCEPT ![v] = Changed(@, change)]
    BY <2>1
  <2>3. ~IsOwner(v)
    BY <2>2, MayUpdateSpares
  <2> QED
    BY <2>2, <2>3, EntryChanged
<1> QED
  BY <1>1, <1>2 DEF Elsewhere

LEMMA OwnerStep ==
    ASSUME StaffOK, [Next]_vars
    PROVE  StaffOK' /\ \A u \in Users : IsOwner(u) => IsOwner(u)'
<1>1. CASE Home \/ FollowLink \/ Submit \/ NoToken \/ HandleLogout
  BY <1>1, StaffKept DEF Home, FollowLink, Submit, NoToken, HandleLogout
<1>2. CASE \E view \in Panels : GoTo(view)
  BY <1>2, StaffKept DEF GoTo, Mount
<1>3. CASE \E d \in Docs : SelectRow(d)
  BY <1>3, StaffKept DEF SelectRow, Mount
<1>4. CASE ClickPanel
  BY <1>4, StaffKept DEF ClickPanel
<1>5. ASSUME NEW i \in DOMAIN calls, Respond(i)
      PROVE  StaffOK' /\ \A u \in Users : IsOwner(u) => IsOwner(u)'
  BY <1>5, ServeKeeps, StaffKept DEF Respond
<1>6. ASSUME NEW i \in DOMAIN calls, Continue(i)
      PROVE  UNCHANGED server
  BY <1>6 DEF Continue, SignedIn, SignInFailed, Known, Unknown, LoggedOut,
              ContinuePanel, Forget
<1>7. CASE Elsewhere
  BY <1>7, ElsewhereKeeps
<1>8. CASE UNCHANGED vars
  BY <1>8, StaffKept DEF vars
<1> QED
  BY <1>1, <1>2, <1>3, <1>4, <1>5, <1>6, <1>7, <1>8, StaffKept DEF Next

\* No step of the tab, the API, other managers or a registration takes an owner's
\* account away, deactivates it or gives it another role: update_org_user refuses
\* owners, and creating or registering needs a free entry.
THEOREM OwnerKept == Spec => OwnerStays
<1>1. Init => StaffOK
  BY StaffInit
<1>2. StaffOK /\ [Next]_vars => StaffOK'
  BY OwnerStep
<1>3. StaffOK /\ [Next]_vars => [\A u \in Users : IsOwner(u) => IsOwner(u)']_vars
  BY OwnerStep
<1> QED
  BY <1>1, <1>2, <1>3, PTL DEF Spec, OwnerStays

-----------------------------------------------------------------------------
(* How a step moves the fetches in flight. *)

Same(c, d) ==
    /\ c.by = d.by /\ c.then = d.then /\ c.op = d.op /\ c.arg = d.arg
    /\ c.kept = d.kept

\* f says where each fetch but those of `out` is after the step; the others there
\* are different ones of `new`.
Traces(f, out, new) ==
    /\ f \in [DOMAIN calls \ out -> DOMAIN calls']
    /\ \A j, m \in DOMAIN calls \ out : f[j] = f[m] => j = m
    /\ \A j \in DOMAIN calls \ out : Same(calls[j], calls'[f[j]])
    /\ \A k \in DOMAIN calls' :
          calls'[k] \in new \/ \E j \in DOMAIN calls \ out : f[j] = k
    /\ \A k, l \in DOMAIN calls' :
          \/ k = l \/ calls'[k] # calls'[l]
          \/ \E j \in DOMAIN calls \ out : f[j] \in {k, l}

Moved(out, new) == \E f : Traces(f, out, new)

\* An answer leaves every fetch where it was.
LEMMA MovedReply ==
    ASSUME CallsOK, NEW i \in DOMAIN calls, NEW state, NEW data, Reply(i, state, data)
    PROVE  Moved({}, {})
<1> DEFINE f == [j \in DOMAIN calls |-> j]
<1>1. /\ DOMAIN calls' = DOMAIN calls
      /\ \A k \in DOMAIN calls : Same(calls[k], calls'[k])
  BY ReplyLeaves DEF Same
<1>2. Traces(f, {}, {})
  BY <1>1 DEF Traces
<1> QED
  BY <1>2 DEF Moved

\* So does one more part of an answer.
LEMMA ReadsLeave ==
    ASSUME CallsOK, NEW i \in DOMAIN calls, Reads(i)
    PROVE  /\ DOMAIN calls' = DOMAIN calls
           /\ \A k \in DOMAIN calls : Same(calls[k], calls'[k])
<1>1. PICK data : calls' = [calls EXCEPT ![i].data = data]
  BY DEF Reads
<1> QED
  BY <1>1 DEF CallsOK, GoodCalls, IsFetch, Same

LEMMA MovedReads ==
    ASSUME CallsOK, NEW i \in DOMAIN calls, Reads(i)
    PROVE  Moved({}, {})
<1> DEFINE f == [j \in DOMAIN calls |-> j]
<1>1. /\ DOMAIN calls' = DOMAIN calls
      /\ \A k \in DOMAIN calls : Same(calls[k], calls'[k])
  BY ReadsLeave
<1>2. Traces(f, {}, {})
  BY <1>1 DEF Traces
<1> QED
  BY <1>2 DEF Moved

\* So does a step that does not touch the fetches.
LEMMA MovedNot ==
    ASSUME calls' = calls
    PROVE  Moved({}, {})
<1> DEFINE f == [j \in DOMAIN calls |-> j]
<1>1. Traces(f, {}, {})
  BY DEF Traces, Same
<1> QED
  BY <1>1 DEF Moved

\* A fetch whose code is done is no longer there.
LEMMA MovedReturn ==
    ASSUME CallsOK, NEW i \in DOMAIN calls, Return(i)
    PROVE  Moved({i}, {})
<1> DEFINE f == [j \in DOMAIN calls \ {i} |-> IF j < i THEN j ELSE j - 1]
<1>1. /\ DOMAIN calls' = 1 .. Len(calls) - 1
      /\ \A k \in DOMAIN calls' : calls'[k] = IF k < i THEN calls[k] ELSE calls[k + 1]
  BY SeqRemoved DEF CallsOK, GoodCalls, Return
<1>2. Len(calls) \in Nat /\ DOMAIN calls = 1 .. Len(calls)
  BY SeqFacts DEF CallsOK, GoodCalls
<1>3. \A j \in DOMAIN calls \ {i} :
         /\ f[j] = (IF j < i THEN j ELSE j - 1) /\ f[j] \in DOMAIN calls'
         /\ f[j] < i <=> j < i
  BY <1>1, <1>2
<1>4. f \in [DOMAIN calls \ {i} -> DOMAIN calls']
  BY <1>3
<1>5. \A j, m \in DOMAIN calls \ {i} : f[j] = f[m] => j = m
  BY <1>2, <1>3
<1>6. \A j \in DOMAIN calls \ {i} : calls'[f[j]] = calls[j]
  BY <1>1, <1>2, <1>3
<1>7. \A k \in DOMAIN calls' : \E j \in DOMAIN calls \ {i} : f[j] = k
  <2> SUFFICES ASSUME NEW k \in DOMAIN calls' PROVE \E j \in DOMAIN calls \ {i} : f[j] = k
    OBVIOUS
  <2>1. CASE k < i
    <3>1. k \in DOMAIN calls \ {i} /\ f[k] = k
      BY <1>1, <1>2, <1>3, <2>1
    <3> QED
      BY <3>1
  <2>2. CASE ~(k < i)
    <3>1. k + 1 \in DOMAIN calls \ {i} /\ f[k + 1] = k
      BY <1>1, <1>2, <1>3, <2>2
    <3> QED
      BY <3>1
  <2> QED
    BY <2>1, <2>2
<1> HIDE DEF f
<1>8. Traces(f, {i}, {})
  BY <1>4, <1>5, <1>6, <1>7 DEF Traces, Same
<1> QED
  BY <1>8 DEF Moved

\* A fetch that makes another gives its place to it.
LEMMA MovedReplaced ==
    ASSUME CallsOK, NEW i \in DOMAIN calls, NEW c, calls' = [calls EXCEPT ![i] = c]
    PROVE  Moved({i}, {c})
<1> DEFINE f == [j \in DOMAIN calls \ {i} |-> j]
<1>1. /\ DOMAIN calls' = DOMAIN calls
      /\ \A k \in DOMAIN calls : calls'[k] = IF k = i THEN c ELSE calls[k]
  BY SeqReplaced DEF CallsOK, GoodCalls
<1>2. Traces(f, {i}, {c})
  BY <1>1 DEF Traces, Same
<1> QED
  BY <1>2 DEF Moved

\* The same of the code that goes on to another fetch.
LEMMA MovedThen ==
    ASSUME CallsOK, NEW i \in DOMAIN calls, NEW then, NEW op, NEW arg, NEW kept,
           ThenFetch(i, then, op, arg, kept)
    PROVE  \E c : /\ Moved({i}, {c}) /\ c.by = calls[i].by
                  /\ c.then = then /\ c.arg = arg /\ c.kept = kept
<1> DEFINE c == Call(calls[i].by, then, op, arg, kept)
<1>1. c.by = calls[i].by /\ c.then = then /\ c.arg = arg /\ c.kept = kept
  BY DEF Call
<1>2. calls' = [calls EXCEPT ![i] = c]
  BY DEF ThenFetch
<1> HIDE DEF c
<1> QED
  BY <1>1, <1>2, MovedReplaced

\* A new fetch comes last.
LEMMA MovedAppended ==
    ASSUME CallsOK, NEW c, calls' = calls \o <<c>>
    PROVE  Moved({}, {c})
<1> DEFINE f == [j \in DOMAIN calls |-> j]
<1>1. IsSeq(<<c>>) /\ DOMAIN <<c>> = {1} /\ <<c>>[1] = c /\ Len(<<c>>) = 1
  BY SeqShort, SeqFacts
<1>2. /\ DOMAIN calls' = 1 .. Len(calls) + 1
      /\ \A k \in DOMAIN calls' :
            calls'[k] = IF k \in DOMAIN calls THEN calls[k] ELSE <<c>>[k - Len(calls)]
  BY <1>1, SeqJoined, SeqFacts DEF CallsOK, GoodCalls
<1>3. Len(calls) \in Nat /\ DOMAIN calls = 1 .. Len(calls)
  BY SeqFacts DEF CallsOK, GoodCalls
<1>4. \A k \in DOMAIN calls' : \/ k \in DOMAIN calls /\ calls'[k] = calls[k]
                               \/ k = Len(calls) + 1 /\ calls'[k] = c
  BY <1>1, <1>2, <1>3
<1>5. \A k \in DOMAIN calls : k \in DOMAIN calls' /\ k # Len(calls) + 1
  BY <1>2, <1>3
<1>6. /\ f \in [DOMAIN calls \ {} -> DOMAIN calls']
      /\ \A j \in DOMAIN calls : f[j] = j /\ calls'[f[j]] = calls[j]
  BY <1>4, <1>5
<1> HIDE DEF f
<1>7. Traces(f, {}, {c})
  BY <1>4, <1>6 DEF Traces, Same
<1> QED
  BY <1>7 DEF Moved

\* The same of a fetch of the mounted component.
LEMMA MovedFetch ==
    ASSUME CallsOK, NEW then, NEW op, NEW arg, NEW kept, Fetch(then, op, arg, kept)
    PROVE  \E c : /\ Moved({}, {c}) /\ c.by = mount
                  /\ c.then = then /\ c.arg = arg /\ c.kept = kept
<1> DEFINE c == Call(mount, then, op, arg, kept)
<1>1. c.by = mount /\ c.then = then /\ c.arg = arg /\ c.kept = kept
  BY DEF Call
<1>2. calls' = calls \o <<c>>
  BY FetchAppends
<1> HIDE DEF c
<1> QED
  BY <1>1, <1>2, MovedAppended

\* What the mounted component waits for, before and after.
LEMMA MovedOwn ==
    ASSUME mount' = mount, NEW out, NEW new, Moved(out, new)
    PROVE  /\ \A j \in DOMAIN calls \ out : \E k \in DOMAIN calls' :
                 Same(calls[j], calls'[k])
           /\ \A k \in DOMAIN calls' : calls'[k] \in new \/
                 \E j \in DOMAIN calls \ out : Same(calls[j], calls'[k])
           /\ \A then : (\E j \in Own \ out : calls[j].then = then) => Waiting(then)'
<1>1. PICK f : Traces(f, out, new)
  BY DEF Moved
<1>2. \A j \in DOMAIN calls \ out : f[j] \in DOMAIN calls' /\ Same(calls[j], calls'[f[j]])
  BY <1>1 DEF Traces
<1>3. \A k \in DOMAIN calls' : calls'[k] \in new \/
         \E j \in DOMAIN calls \ out : Same(calls[j], calls'[k])
  BY <1>1, <1>2 DEF Traces
<1>4. \A then : (\E j \in Own \ out : calls[j].then = then) => Waiting(then)'
  BY <1>2 DEF Own, Waiting, Same
<1> QED
  BY <1>2, <1>3, <1>4

\* At most one fetch of the mounted component is waited for by the code in R.
Lone(R) == \A j, m \in Own : calls[j].then \in R /\ calls[m].then \in R => j = m

\* At most one fetch of the codes R, unless a step sends one beside another.
LEMMA LoneKept ==
    ASSUME mount' = mount, NEW R, Lone(R), NEW out, NEW new, Moved(out, new),
           \A c, d \in new : c.then \in R /\ d.then \in R => c = d,
           (\E c \in new : c.by = mount /\ c.then \in R)
               => \A j \in Own \ out : calls[j].then \notin R
    PROVE  Lone(R)'
<1>1. PICK f : Traces(f, out, new)
  BY DEF Moved
<1>2. \A j \in DOMAIN calls \ out : f[j] \in DOMAIN calls' /\ Same(calls[j], calls'[f[j]])
  BY <1>1 DEF Traces
<1>3. \A k, l \in DOMAIN calls' :
         \/ k = l \/ calls'[k] # calls'[l]
         \/ \E j \in DOMAIN calls \ out : f[j] = k
         \/ \E j \in DOMAIN calls \ out : f[j] = l
  BY <1>1 DEF Traces
<1>4. \A k \in DOMAIN calls' : calls'[k] \in new \/ \E j \in DOMAIN calls \ out : f[j] = k
  BY <1>1 DEF Traces
<1> SUFFICES ASSUME NEW k \in DOMAIN calls', NEW l \in DOMAIN calls',
                    calls'[k].by = mount, calls'[l].by = mount,
                    calls'[k].then \in R, calls'[l].then \in R
             PROVE  k = l
  BY DEF Lone, Own
<1>5. ASSUME NEW j \in DOMAIN calls \ out, f[j] = k
      PROVE  k = l
  <2>1. j \in Own \ out /\ calls[j].then \in R
    BY <1>2, <1>5 DEF Own, Same
  <2>2. PICK m \in DOMAIN calls \ out : f[m] = l
    BY <1>4, <2>1
  <2>3. m \in Own /\ calls[m].then \in R
    BY <1>2, <2>2 DEF Own, Same
  <2> QED
    BY <1>5, <2>1, <2>2, <2>3 DEF Lone
<1>6. ASSUME NEW m \in DOMAIN calls \ out, f[m] = l
      PROVE  k = l
  <2>1. m \in Own \ out /\ calls[m].then \in R
    BY <1>2, <1>6 DEF Own, Same
  <2>2. PICK j \in DOMAIN calls \ out : f[j] = k
    BY <1>4, <2>1
  <2> QED
    BY <1>5, <2>2
<1>7. CASE calls'[k] \in new /\ calls'[l] \in new
  <2>1. calls'[k] = calls'[l]
    BY <1>7
  <2> QED
    BY <1>3, <1>5, <1>6, <2>1
<1> QED
  BY <1>4, <1>5, <1>6, <1>7
-----------------------------------------------------------------------------
(* What a step is to the mounted component. *)

\* It does not notice: the fetches it waits for are still there, and there is no
\* new one but a logout, or the list's when an upload has ended.
Quiet ==
    /\ mount' = mount /\ ui' = ui /\ token' = token
    /\ \E out, new :
          /\ Moved(out, new)
          /\ \A j \in Own : j \notin out
          /\ \A c \in new : c.by = mount =>
                \/ c.then = "handleLogout"
                \/ c.then = "fetchDocs" /\ ui.view = "documents"

\* It is new, and has sent one request.
Opens ==
    \E view \in Panels \cup {"viewer"} : \E c :
        /\ mount' = mount + 1 /\ ui'.view = view
        /\ ui' = IF view = "viewer" THEN Viewer!Fresh(c.arg) ELSE FreshOf(view, user')
        /\ c.by = mount'
        /\ c.then = IF view = "viewer" THEN "viewer" ELSE FirstThen[view]
        /\ \E k \in DOMAIN calls' : calls'[k] = c
        /\ \A k \in DOMAIN calls' : calls'[k].by = mount' => calls'[k] = c

\* It is a page that has been loaded.
Loads == \E view \in {"dashboard", "login", "register", "admin"} : Load(view)

\* What a quiet step leaves as it was, for the component that is mounted.
LEMMA QuietKeeps ==
    ASSUME Quiet
    PROVE  /\ mount' = mount /\ ui' = ui /\ token' = token
           /\ \A then : Waiting(then) => Waiting(then)'
           /\ \A k \in DOMAIN calls' : calls'[k].by = mount =>
                 \/ calls'[k].then = "handleLogout"
                 \/ calls'[k].then = "fetchDocs" /\ ui.view = "documents"
                 \/ \E j \in Own : Same(calls[j], calls'[k])
           /\ \A j \in Own : \E k \in DOMAIN calls' : Same(calls[j], calls'[k])
           /\ \A R : Lone(R) /\ R \cap {"handleLogout", "fetchDocs"} = {} => Lone(R)'
<1>1. PICK out, new :
         /\ Moved(out, new)
         /\ \A j \in Own : j \notin out
         /\ \A c \in new : c.by = mount =>
               \/ c.then = "handleLogout"
               \/ c.then = "fetchDocs" /\ ui.view = "documents"
  BY DEF Quiet
<1>2. mount' = mount /\ ui' = ui /\ token' = token
  BY DEF Quiet
<1>3. /\ \A j \in DOMAIN calls \ out : \E k \in DOMAIN calls' : Same(calls[j], calls'[k])
      /\ \A k \in DOMAIN calls' : calls'[k] \in new \/
            \E j \in DOMAIN calls \ out : Same(calls[j], calls'[k])
      /\ \A then : (\E j \in Own \ out : calls[j].then = then) => Waiting(then)'
  BY <1>1, <1>2, MovedOwn
<1>4. \A then : Waiting(then) => Waiting(then)'
  BY <1>1, <1>3 DEF Waiting
<1>5. \A k \in DOMAIN calls' : calls'[k].by = mount =>
         \/ calls'[k].then = "handleLogout"
         \/ calls'[k].then = "fetchDocs" /\ ui.view = "documents"
         \/ \E j \in Own : Same(calls[j], calls'[k])
  BY <1>1, <1>3 DEF Own, Same
<1>6. \A j \in Own : \E k \in DOMAIN calls' : Same(calls[j], calls'[k])
  BY <1>1, <1>3 DEF Own
<1>7. ASSUME NEW R, Lone(R), R \cap {"handleLogout", "fetchDocs"} = {}
      PROVE  Lone(R)'
  <2>0. PICK f : Traces(f, out, new)
    BY <1>1 DEF Moved
  <2>1. \A j \in DOMAIN calls \ out : f[j] \in DOMAIN calls' /\ Same(calls[j], calls'[f[j]])
    BY <2>0 DEF Traces
  <2>2. \A k \in DOMAIN calls' : calls'[k] \in new \/ \E j \in DOMAIN calls \ out : f[j] = k
    BY <2>0 DEF Traces
  <2> SUFFICES ASSUME NEW k \in DOMAIN calls', NEW l \in DOMAIN calls',
                      calls'[k].by = mount, calls'[l].by = mount,
                      calls'[k].then \in R, calls'[l].then \in R
               PROVE  k = l
    BY <1>2 DEF Lone, Own
  <2>3. calls'[k] \notin new /\ calls'[l] \notin new
    BY <1>1, <1>7
  <2>4. PICK j \in DOMAIN calls \ out : f[j] = k
    BY <2>2, <2>3
  <2>5. PICK m \in DOMAIN calls \ out : f[m] = l
    BY <2>2, <2>3
  <2>6. j \in Own /\ m \in Own /\ calls[j].then \in R /\ calls[m].then \in R
    BY <2>1, <2>4, <2>5 DEF Own, Same
  <2> QED
    BY <1>7, <2>4, <2>5, <2>6 DEF Lone
<1> QED
  BY <1>2, <1>4, <1>5, <1>6, <1>7

\* A step is quiet if it moves no fetch of the mounted component.
LEMMA QuietBy ==
    ASSUME mount' = mount, ui' = ui, token' = token, NEW out, NEW new, Moved(out, new),
           \A j \in Own : j \notin out,
           \A c \in new : c.by = mount =>
              \/ c.then = "handleLogout"
              \/ c.then = "fetchDocs" /\ ui.view = "documents"
    PROVE  Quiet
  BY DEF Quiet

\* What goes on for a component that is gone is quiet.
LEMMA ForeignQuiet ==
    ASSUME CallsOK, NEW i \in DOMAIN calls, calls[i].by # mount, Goes(i),
           mount' = mount, ui' = ui, token' = token
    PROVE  Quiet
<1>1. CASE Return(i)
  <2>1. Moved({i}, {}) /\ \A j \in Own : j \notin {i}
    BY <1>1, MovedReturn DEF Own
  <2> QED
    BY <2>1 DEF Quiet
<1>2. ASSUME NEW then, NEW op, NEW arg, NEW kept, ThenFetch(i, then, op, arg, kept)
      PROVE  Quiet
  <2> DEFINE c == Call(calls[i].by, then, op, arg, kept)
  <2>1. c.by # mount /\ calls' = [calls EXCEPT ![i] = c]
    BY <1>2 DEF ThenFetch, Call
  <2> HIDE DEF c
  <2>2. Moved({i}, {c})
    BY <2>1, MovedReplaced
  <2>3. \A j \in Own : j \notin {i}
    BY DEF Own
  <2> QED
    BY <2>1, <2>2, <2>3, QuietBy
<1>3. CASE Reads(i)
  BY <1>3, MovedReads DEF Quiet
<1> QED
  BY <1>1, <1>2, <1>3 DEF Goes

\* Every handler ends in an answer.
LEMMA RespondReplies ==
    ASSUME NEW i \in DOMAIN calls, Respond(i)
    PROVE  \E state, data : Reply(i, state, data)
<1>1. CASE ServeDocuments(i)
  BY <1>1 DEF ServeDocuments, ListDocuments, GetDocument, ReadDocuments, BulkDelete,
     Compare, Answer, Search, Body, Read, Write
<1>2. CASE ServeExtractions(i)
  BY <1>2 DEF ServeExtractions, ReadAll, RunExtraction, DeleteRows, ExportRows,
     CreateTemplate, UpdateTemplate, DeleteTemplate, Read, Write
<1>3. CASE ServeAccounts(i)
  BY <1>3 DEF ServeAccounts, ListUsers, CreateUser, UpdateUser, GetMe, Login, Register,
     Logout, Read, Write
<1>4. CASE ServeAdmin(i)
  BY <1>4 DEF ServeAdmin, GetAdmin, ListOrgs, ListOrgDocuments, UpdateOrganization, AdminRead
<1> QED
  BY <1>1, <1>2, <1>3, <1>4 DEF Respond, Refuse, Lose

\* An answer on its way is not yet seen by anyone.
LEMMA ReplyQuiet ==
    ASSUME CallsOK, NEW i \in DOMAIN calls, NEW state, NEW data, Reply(i, state, data)
    PROVE  Quiet
<1>1. Moved({}, {}) /\ mount' = mount /\ ui' = ui /\ token' = token
  BY MovedReply DEF Reply
<1> QED
  BY <1>1 DEF Quiet

\* A step that leaves the tab alone is quiet.
LEMMA StillQuiet ==
    ASSUME calls' = calls, mount' = mount, ui' = ui, token' = token
    PROVE  Quiet
  BY MovedNot DEF Quiet

\* Leaving sends one fetch and changes nothing shown.
LEMMA LogoutQuiet ==
    ASSUME CallsOK, HandleLogout
    PROVE  Quiet
<1>1. mount' = mount /\ ui' = ui /\ token' = token
  BY DEF HandleLogout
<1>2. PICK c : Moved({}, {c}) /\ c.then = "handleLogout"
  <2>1. Fetch("handleLogout", "POST logout", None, None)
    BY DEF HandleLogout
  <2> QED
    BY <2>1, MovedFetch
<1> QED
  BY <1>1, <1>2 DEF Quiet

\* Others, uploads and the timer change nothing of what is mounted.
LEMMA ElsewhereQuiet ==
    ASSUME CallsOK, Elsewhere
    PROVE  Quiet
<1>1. mount' = mount /\ ui' = ui /\ token' = token
  BY DEF Elsewhere
<1>2. CASE calls' = calls
  BY <1>1, <1>2, StillQuiet
<1>3. CASE ui.view = "documents" /\ calls' = calls \o List!Effect(mount)
  <2> DEFINE c == Call(mount, "fetchDocs", "GET documents", None, None)
  <2>1. calls' = calls \o <<c>>
    BY <1>3 DEF List!Effect, List!Call, Call
  <2>2. c.then = "fetchDocs"
    BY DEF Call
  <2> HIDE DEF c
  <2>3. Moved({}, {c})
    BY <2>1, MovedAppended
  <2> QED
    BY <1>1, <1>3, <2>2, <2>3 DEF Quiet
<1> QED
  BY <1>2, <1>3 DEF Elsewhere, UploadEnds, OthersDelete, OthersManage

\* What is appended is there.
LEMMA JoinedHas ==
    ASSUME NEW base, IsSeq(base), NEW c
    PROVE  \E k \in DOMAIN (base \o <<c>>) : (base \o <<c>>)[k] = c
<1>1. IsSeq(<<c>>) /\ DOMAIN <<c>> = {1} /\ <<c>>[1] = c /\ Len(<<c>>) = 1
  BY SeqShort, SeqFacts
<1>2. /\ DOMAIN (base \o <<c>>) = 1 .. Len(base) + 1
      /\ \A k \in DOMAIN (base \o <<c>>) :
            (base \o <<c>>)[k] = IF k \in DOMAIN base THEN base[k] ELSE <<c>>[k - Len(base)]
  BY <1>1, SeqJoined, SeqFacts
<1>3. Len(base) \in Nat /\ DOMAIN base = 1 .. Len(base)
  BY SeqFacts
<1>4. /\ Len(base) + 1 \in DOMAIN (base \o <<c>>) /\ Len(base) + 1 \notin DOMAIN base
      /\ Len(base) + 1 - Len(base) = 1
  BY <1>2, <1>3
<1> QED
  BY <1>1, <1>2, <1>4

\* A panel is mounted fresh, with the fetch of its first effect.
LEMMA MountOpens ==
    ASSUME TabInv, NEW view \in Panels \cup {"viewer"}, NEW new, NEW c,
           Mount(new, <<c>>), new.view = view,
           new = IF view = "viewer" THEN Viewer!Fresh(c.arg) ELSE FreshOf(view, user),
           IsFirst(c, mount + 1, view), c.as = token,
           c.then = IF view = "viewer" THEN "viewer" ELSE FirstThen[view]
    PROVE  Opens
<1>1. /\ CallsOK /\ mount' = mount + 1 /\ ui' = new /\ token' = token /\ user' = user
      /\ calls' = calls \o <<c>> /\ IsSeq(calls)
  BY DEF TabInv, Mount, CallsOK, GoodCalls
<1>2. c.by = mount'
  BY <1>1 DEF IsFirst
<1>3. \E k \in DOMAIN calls' : calls'[k] = c
  BY <1>1, JoinedHas
<1>4. \A k \in DOMAIN calls' : calls'[k].by = mount' => calls'[k] = c
  <2>1. \A k \in DOMAIN calls : \E j \in DOMAIN calls : calls[k] = calls[j]
    OBVIOUS
  <2>2. IsFirst(c, mount + 1, ui'.view)
    BY <1>1
  <2> QED
    BY <1>1, <2>1, <2>2, Mounted
<1>5. /\ ui' = IF view = "viewer" THEN Viewer!Fresh(c.arg) ELSE FreshOf(view, user')
      /\ ui'.view = view /\ mount' = mount + 1
  BY <1>1
<1> QED
  BY <1>2, <1>3, <1>4, <1>5 DEF Opens

\* The navigation bar opens a panel.
LEMMA GoToOpens ==
    ASSUME TabInv, NEW view \in Panels, GoTo(view)
    PROVE  Opens
<1>1. /\ token \in Tokens /\ user \in Profiles
      /\ Mount(FreshOf(view, user), EffectOf(view, mount + 1))
  BY DEF TabInv, CallsOK, PagesOK, GoTo
<1>2. PICK c : /\ EffectOf(view, mount + 1) = <<c>> /\ IsFirst(c, mount + 1, view)
               /\ c.as = token /\ c.then = FirstThen[view] /\ c.state = "sent"
  BY <1>1, PanelEffect
<1>3. FreshOf(view, user).view = view
  BY <1>1, PanelFresh
<1>4. view # "viewer"
  BY DEF Panels
<1> QED
  BY <1>1, <1>2, <1>3, <1>4, MountOpens

\* A row of the list opens the viewer.
LEMMA SelectRowOpens ==
    ASSUME TabInv, NEW d \in Docs, SelectRow(d)
    PROVE  Opens
<1> DEFINE c == Call(mount + 1, "viewer", "GET document", d, None)
<1>1. token \in Tokens /\ Mount(Viewer!Fresh(d), <<c>>)
  BY DEF TabInv, CallsOK, SelectRow, Viewer!Effect, Viewer!Call, Call
<1>2. Viewer!Fresh(d).view = "viewer"
  BY DEF Viewer!Fresh
<1>3. IsFetch(c)
  BY <1>1, FirstFetch DEF OpFits, ArgFits, KeptFits, Call
<1>4. /\ c.as = token /\ IsFirst(c, mount + 1, "viewer")
      /\ c.arg = d /\ c.then = "viewer"
  BY <1>3 DEF IsFirst, Thens, Call
<1> HIDE DEF c
<1> QED
  BY <1>1, <1>2, <1>4, MountOpens

\* The dashboard, once it knows its user, opens the list of documents.
LEMMA KnownOpens ==
    ASSUME TabInv, NEW i \in DOMAIN calls, Known(i)
    PROVE  Opens
<1>1. /\ CallsOK /\ mount' = mount + 1 /\ token' = token
      /\ calls[i].then = "dashboard" /\ calls[i].state = "ok"
      /\ ui' = List!Fresh
      /\ calls' = Without(calls, i) \o List!Effect(mount')
  BY DEF TabInv, Known, Awaited, IsOk
<1>2. IsFetch(calls[i]) /\ InTab(calls[i])
  BY <1>1 DEF CallsOK, GoodCalls
<1>3. token \in Tokens
  BY <1>1 DEF CallsOK
<1> DEFINE c == Call(mount + 1, "fetchDocs", "GET documents", None, None)
<1>4. List!Effect(mount') = <<c>>
  BY <1>1 DEF List!Effect, List!Call, Call
<1>5. ui'.view = "documents" /\ ui' = FreshOf("documents", user')
  BY <1>1 DEF FreshOf, List!Fresh
<1>6. /\ c.as = token /\ IsFirst(c, mount + 1, ui'.view)
      /\ c.then = "fetchDocs" /\ c.by = mount'
  <2>1. IsFetch(c)
    BY <1>3, FirstFetch DEF OpFits, ArgFits, KeptFits, Call
  <2> QED
    BY <1>1, <1>5, <2>1 DEF IsFirst, Thens, Call
<1> HIDE DEF c
<1>7. /\ IsSeq(Without(calls, i))
      /\ \A k \in DOMAIN Without(calls, i) : \E j \in DOMAIN calls :
            Without(calls, i)[k] = calls[j]
  <2>1. IsSeq(calls) /\ Len(calls) \in Nat /\ DOMAIN calls = 1 .. Len(calls)
    BY <1>1, SeqFacts DEF CallsOK, GoodCalls
  <2>2. /\ IsSeq(Without(calls, i)) /\ DOMAIN Without(calls, i) = 1 .. Len(calls) - 1
        /\ \A k \in DOMAIN Without(calls, i) :
              Without(calls, i)[k] = IF k < i THEN calls[k] ELSE calls[k + 1]
    BY <2>1, SeqRemoved
  <2>3. \A k \in DOMAIN Without(calls, i) : k \in DOMAIN calls /\ k + 1 \in DOMAIN calls
    BY <2>1, <2>2
  <2> QED
    BY <2>2, <2>3
<1>8. calls' = Without(calls, i) \o <<c>>
  BY <1>1, <1>4
<1>9. \A k \in DOMAIN calls' : calls'[k].by = mount' => calls'[k] = c
  BY <1>1, <1>6, <1>7, <1>8, Mounted
<1>10. \E k \in DOMAIN calls' : calls'[k] = c
  BY <1>7, <1>8, JoinedHas
<1>11. "documents" \in Panels /\ c.then = FirstThen["documents"]
  BY <1>6 DEF Panels, FirstThen
<1> QED
  BY <1>1, <1>5, <1>6, <1>9, <1>10, <1>11 DEF Opens

\* Every step of the specification is of one of these kinds.
LEMMA Steps ==
    ASSUME TabInv, [Next]_vars
    PROVE  \/ Quiet \/ Opens \/ Loads
           \/ ClickPanel \/ Submit
           \/ \E i \in DOMAIN calls : /\ ContinuePanel(i) \/ SignInFailed(i)
                                      /\ calls[i].by = mount
<1> DEFINE Goal == \/ Quiet \/ Opens \/ Loads
                   \/ ClickPanel \/ Submit
                   \/ \E i \in DOMAIN calls : /\ ContinuePanel(i) \/ SignInFailed(i)
                                              /\ calls[i].by = mount
<1>0. CallsOK
  BY DEF TabInv
<1>1. CASE UNCHANGED vars
  BY <1>1, StillQuiet DEF vars, client
<1>2. CASE Home \/ FollowLink \/ NoToken
  BY <1>2 DEF Loads, Home, FollowLink, NoToken
<1>3. CASE Submit
  BY <1>3
<1>4. CASE HandleLogout
  BY <1>0, <1>4, LogoutQuiet
<1>5. CASE \E view \in Panels : GoTo(view)
  BY <1>5, GoToOpens
<1>6. CASE \E d \in Docs : SelectRow(d)
  BY <1>6, SelectRowOpens
<1>7. CASE ClickPanel
  BY <1>7
<1>8. CASE \E i \in DOMAIN calls : Respond(i)
  BY <1>0, <1>8, RespondReplies, ReplyQuiet
<1>9. ASSUME NEW i \in DOMAIN calls, Continue(i)
      PROVE  Goal
  <2>1. CASE SignedIn(i) \/ Unknown(i) \/ LoggedOut(i)
    BY <2>1 DEF Loads, SignedIn, Unknown, LoggedOut
  <2>2. CASE Known(i)
    BY <2>2, KnownOpens
  <2>3. CASE Forget(i)
    <3>1. /\ Return(i) /\ calls[i].then = "gone"
          /\ mount' = mount /\ ui' = ui /\ token' = token
      BY <2>3 DEF Forget, Awaited
    <3>2. calls[i].by # mount
      BY <1>0, <3>1 DEF CallsOK, GoodCalls, InTab
    <3> QED
      BY <1>0, <3>1, <3>2, ForeignQuiet DEF Goes
  <2>4. CASE SignInFailed(i) /\ calls[i].by # mount
    <3>1. Return(i) /\ mount' = mount /\ ui' = ui /\ token' = token
      BY <2>4 DEF SignInFailed, SetState
    <3> QED
      BY <1>0, <2>4, <3>1, ForeignQuiet DEF Goes
  <2>5. CASE ContinuePanel(i) /\ calls[i].by # mount
    BY <1>0, <2>5, ContinueGoes, ForeignQuiet
  <2> QED
    BY <1>9, <2>1, <2>2, <2>3, <2>4, <2>5 DEF Continue
<1>10. CASE Elsewhere
  BY <1>0, <1>10, ElsewhereQuiet
<1> QED
  BY <1>1, <1>2, <1>3, <1>4, <1>5, <1>6, <1>7, <1>8, <1>9, <1>10 DEF Next

\* The handlers and continuations of the mounted panel are its own.
LEMMA ClickView ==
    ASSUME TabInv, ClickPanel
    PROVE  /\ Stays
           /\ ui.view \in Panels \cup {"viewer", "admin"}
           /\ ui.view = "documents" => List!Click
           /\ ui.view = "viewer" => Viewer!Click
           /\ ui.view = "search" => SearchPanel!Click
           /\ ui.view = "ai" => Chat!Click
           /\ ui.view = "compare" => Comparison!Click
           /\ ui.view = "extract" => Extractions!ClickForm \/ Extractions!ClickRun
                                     \/ Extractions!ClickResults
           /\ ui.view = "team" => Team!Click
           /\ ui.view = "admin" => AdminPanel!Click
<1>1. CallsOK /\ UiOK(ui)
  BY DEF TabInv
<1>2. List!Click => ui.view = "documents" /\ Stays
  BY <1>1, ListClick
     DEF List!Click, List!ToggleSelect, List!ToggleAll, List!Refresh, List!Shown,
         List!HandleBulkDownload, List!HandleBulkExport, List!HandleBulkDelete,
         List!BulkAction, List!Offers
<1>3. Viewer!Click => ui.view = "viewer" /\ Stays
  BY <1>1, ViewerClick
     DEF Viewer!Click, Viewer!ShowTab, Viewer!SetMode, Viewer!HandleExport,
         Viewer!TypeQuestion, Viewer!HandleAsk, Viewer!CanAsk, Viewer!Shown
<1>4. SearchPanel!Click => ui.view = "search" /\ Stays
  BY <1>1, SearchClick
     DEF SearchPanel!Click, SearchPanel!SelectDocument, SearchPanel!HandleSearch,
         SearchPanel!CanSearch, SearchPanel!ToggleExpand, SearchPanel!HitsShown,
         SearchPanel!Shown
<1>5. Chat!Click => ui.view = "ai" /\ Stays
  BY <1>1, ChatClick
     DEF Chat!Click, Chat!HandleSubmit, Chat!HandleSummarize, Chat!SelectDocument,
         Chat!CanSend, Chat!CanSummarize, Chat!Shown
<1>6. Comparison!Click => ui.view = "compare" /\ Stays
  BY <1>1, ComparisonClick
     DEF Comparison!Click, Comparison!SelectA, Comparison!SelectB,
         Comparison!HandleCompare, Comparison!CanCompare, Comparison!Shown
<1>7. Extractions!ClickForm => ui.view = "extract" /\ Stays
  BY <1>1, ExtractionsFormClick
     DEF Extractions!ClickForm, Extractions!NewTemplate, Extractions!CancelForm,
         Extractions!SubmitForm, Extractions!EditTemplate, Extractions!CardShown,
         Extractions!HandleDeleteTemplate, Extractions!FillForm, Extractions!Shown
<1>8. Extractions!ClickRun => ui.view = "extract" /\ Stays
  BY <1>1, ExtractionsRunClick
     DEF Extractions!ClickRun, Extractions!SelectTemplate, Extractions!ToggleDoc,
         Extractions!DocShown, Extractions!ToggleAllDocs, Extractions!HandleExtract,
         Extractions!CanExtract, Extractions!Shown
<1>9. Extractions!ClickResults => ui.view = "extract" /\ Stays
  BY <1>1, ExtractionsResultsClick
     DEF Extractions!ClickResults, Extractions!SetFilter, Extractions!ToggleExtraction,
         Extractions!RowShown, Extractions!HandleDeleteExtraction,
         Extractions!ToggleAllExtractions, Extractions!HandleBulkDelete,
         Extractions!CanBulkDelete, Extractions!HandleExport, Extractions!CanExport,
         Extractions!Shown
<1>10. Team!Click => ui.view = "team" /\ Stays
  BY <1>1, TeamClick
     DEF Team!Click, Team!FillIn, Team!HandleCreate, Team!PatchUser, Team!Shown
<1>11. AdminPanel!Click => ui.view = "admin" /\ Stays
  BY <1>1, AdminClick
     DEF AdminPanel!Click, AdminPanel!HandleToggle, AdminPanel!TypeQuota,
         AdminPanel!HandleQuotaSave, AdminPanel!ToggleDocuments, AdminPanel!Shown
<1> QED
  BY <1>2, <1>3, <1>4, <1>5, <1>6, <1>7, <1>8, <1>9, <1>10, <1>11 DEF ClickPanel, Panels

\* What goes on for the mounted panel is the code of that panel.
LEMMA ContinueView ==
    ASSUME TabInv, NEW i \in DOMAIN calls, ContinuePanel(i), calls[i].by = mount
    PROVE  /\ Stays
           /\ ui.view \in Panels \cup {"viewer", "admin"}
           /\ ui.view = "documents" => List!Continue(i)
           /\ ui.view = "viewer" => Viewer!Continue(i)
           /\ ui.view = "search" => SearchPanel!Continue(i)
           /\ ui.view = "ai" => \/ Chat!Headers(i) \/ Chat!Failed(i) \/ Chat!Answered(i)
                                \/ SearchPanel!SelectorLoaded(i)
           /\ ui.view = "compare" => Comparison!Continue(i)
           /\ ui.view = "extract" => Extractions!Continue(i)
           /\ ui.view = "team" => Team!Continue(i)
           /\ ui.view = "admin" => AdminPanel!Continue(i)
<1>0. CallsOK /\ UiOK(ui) /\ Managed
  BY DEF TabInv
<1>1. calls[i].then \in Thens(ui.view) \cup {"handleLogout"}
  BY <1>0 DEF CallsOK, GoodCalls, InTab
<1>2. List!Continue(i) => ui.view = "documents" /\ Stays
  BY <1>0, <1>1, ListContinue
     DEF List!Continue, List!FetchDocs, List!BulkActionDone, List!BulkDeleteDone,
         List!DeletedLoaded, List!Awaited, Thens
<1>3. Viewer!Continue(i) => ui.view = "viewer" /\ Stays
  BY <1>0, <1>1, ViewerContinue
     DEF Viewer!Continue, Viewer!Load, Viewer!Exported, Viewer!Answered,
         Viewer!Awaited, Thens
<1>4. SearchPanel!Continue(i) =>
         /\ ui.view = "search" \/ (ui.view = "ai" /\ SearchPanel!SelectorLoaded(i))
         /\ Stays
  BY <1>0, <1>1, SearchContinue
     DEF SearchPanel!Continue, SearchPanel!SelectorLoaded, SearchPanel!Headers,
         SearchPanel!Failed, SearchPanel!Results, SearchPanel!Awaited, Thens
<1>5. Chat!Headers(i) \/ Chat!Failed(i) \/ Chat!Answered(i) => ui.view = "ai" /\ Stays
  BY <1>0, <1>1, ChatContinue
     DEF Chat!Headers, Chat!Failed, Chat!Answered, Chat!Awaited, Thens
<1>6. Comparison!Continue(i) => ui.view = "compare" /\ Stays
  BY <1>0, <1>1, ComparisonContinue
     DEF Comparison!Continue, Comparison!DocsLoaded, Comparison!Compared,
         Comparison!Awaited, Thens
<1>7. Extractions!Continue(i) => ui.view = "extract" /\ Stays
  <2>1. Extractions!Continue(i) =>
          calls[i].then \in
            {"fetchAll", "handleExtract", "handleExtract: fetchAll", "bulk-delete",
             "bulk-delete: fetchAll", "delete extraction", "delete template",
             "handleExport", "TemplateForm"}
    BY DEF Extractions!Continue, Extractions!ReadOn, Extractions!FetchAllDone,
           Extractions!NextDoc, Extractions!LoopEnds, Extractions!RunDone,
           Extractions!BulkDeleted, Extractions!BulkDeleteDone, Extractions!ExtractionDeleted,
           Extractions!TemplateDeleted, Extractions!ExportDone,
           Extractions!FormSaved, Extractions!Awaited
  <2> QED
    BY <1>0, <1>1, <2>1, ExtractionsContinue DEF Thens
<1>8. Team!Continue(i) => ui.view = "team" /\ Stays
  BY <1>0, <1>1, TeamContinue
     DEF Team!Continue, Team!Load, Team!Created, Team!CreatedLoaded, Team!Patched,
         Team!Awaited, Thens
<1>9. AdminPanel!Continue(i) => ui.view = "admin" /\ Stays
  BY <1>0, <1>1, AdminContinue
     DEF AdminPanel!Continue, AdminPanel!OrgsLoaded, AdminPanel!AdminKnown,
         AdminPanel!Toggled, AdminPanel!QuotaSaved, AdminPanel!DocumentsShown,
         AdminPanel!Awaited, Thens
<1> QED
  BY <1>2, <1>3, <1>4, <1>5, <1>6, <1>7, <1>8, <1>9 DEF ContinuePanel, Panels

\* A page that has been loaded, and what it has sent.
LEMMA LoadsFresh ==
    ASSUME TabInv, TabInv', Loads
    PROVE  /\ ui'.view \in {"dashboard", "login", "register", "admin"}
           /\ ui' = FreshOf(ui'.view, None) /\ mount' = mount + 1
           /\ Len(calls') <= Len(calls) + 2
           /\ ui'.view \in {"login", "register"} => Len(calls') = Len(calls)
           /\ \A k \in DOMAIN calls' : calls'[k].by \in {0, mount'}
           /\ \A k \in DOMAIN calls' : calls'[k].by = mount' =>
                 calls'[k].then \in {"dashboard", "admin: getMe", "admin: loadOrgs"}
           /\ ui'.view = "dashboard" /\ token' # None => Waiting("dashboard")'
           /\ ui'.view = "admin" /\ token' # None => Waiting("admin: loadOrgs")'
<1>1. PICK view \in {"dashboard", "login", "register", "admin"} : Load(view)
  BY DEF Loads
<1>2. /\ mount' = mount + 1 /\ ui' = FreshOf(view, None) /\ token' \in Tokens
      /\ mount \in Nat \ {0} /\ mount' \in Nat \ {0} /\ IsSeq(calls)
      /\ calls' = Abandoned \o EffectOf(view, mount)'
  BY <1>1 DEF Load, TabInv, CallsOK, GoodCalls
<1>3. ui'.view = view
  BY <1>1, <1>2 DEF FreshOf, AdminPanel!Fresh, Page
<1> DEFINE effect == EffectOf(view, mount)'
<1>4. \/ effect = << >> /\ (view \in {"dashboard", "admin"} => token' = None)
      \/ view = "dashboard" /\ effect = << Opening(mount', token', "dashboard", "GET me") >>
      \/ /\ view = "admin"
         /\ effect = << Opening(mount', token', "admin: getMe", "GET platform-admin/me"),
                        Opening(mount', token', "admin: loadOrgs", "GET orgs") >>
  BY <1>1 DEF EffectOf, Call, AdminPanel!Effect, AdminPanel!Call, Opening
<1> HIDE DEF effect
<1>5. /\ IsSeq(effect) /\ Len(effect) <= 2
      /\ view \in {"login", "register"} => Len(effect) = 0
      /\ \A k \in DOMAIN effect : /\ effect[k].by = mount'
            /\ effect[k].then \in {"dashboard", "admin: getMe", "admin: loadOrgs"}
      /\ view = "dashboard" /\ token' # None =>
            \E k \in DOMAIN effect : effect[k].then = "dashboard"
      /\ view = "admin" /\ token' # None =>
            \E k \in DOMAIN effect : effect[k].then = "admin: loadOrgs"
  <2>1. CASE effect = << >> /\ (view \in {"dashboard", "admin"} => token' = None)
    BY <2>1, SeqShort
  <2>2. CASE /\ view = "dashboard"
             /\ effect = << Opening(mount', token', "dashboard", "GET me") >>
    <3> DEFINE c == Opening(mount', token', "dashboard", "GET me")
    <3>1. c.by = mount' /\ c.then = "dashboard"
      BY DEF Opening
    <3> HIDE DEF c
    <3>2. IsSeq(<<c>>) /\ Len(<<c>>) = 1 /\ <<c>>[1] = c
      BY SeqShort
    <3>3. DOMAIN <<c>> = {1}
      BY <3>2, SeqFacts
    <3>4. effect = <<c>>
      BY <2>2 DEF c
    <3>50. Len(effect) = 1
      BY <3>2, <3>4
    <3>5. Len(effect) <= 2
      BY <3>50
    <3> QED
      BY <2>2, <3>1, <3>2, <3>3, <3>4, <3>5
  <2>3. CASE /\ view = "admin"
             /\ effect = << Opening(mount', token', "admin: getMe", "GET platform-admin/me"),
                            Opening(mount', token', "admin: loadOrgs", "GET orgs") >>
    <3> DEFINE c == Opening(mount', token', "admin: getMe", "GET platform-admin/me")
               d == Opening(mount', token', "admin: loadOrgs", "GET orgs")
    <3>1. /\ c.by = mount' /\ c.then = "admin: getMe"
          /\ d.by = mount' /\ d.then = "admin: loadOrgs"
      BY DEF Opening
    <3> HIDE DEF c, d
    <3>2. /\ IsSeq(<<c, d>>) /\ Len(<<c, d>>) = 2
          /\ <<c, d>>[1] = c /\ <<c, d>>[2] = d
      BY SeqShort
    <3>3. DOMAIN <<c, d>> = 1 .. 2
      BY <3>2, SeqFacts
    <3>4. effect = <<c, d>>
      BY <2>3 DEF c, d
    <3>5. \A k \in 1 .. 2 : k = 1 \/ k = 2
      OBVIOUS
    <3>6. 2 \in 1 .. 2
      OBVIOUS
    <3>70. Len(effect) = 2
      BY <3>2, <3>4
    <3>7. Len(effect) <= 2
      BY <3>70
    <3> QED
      BY <2>3, <3>1, <3>2, <3>3, <3>4, <3>5, <3>6, <3>7
  <2> QED
    BY <1>4, <2>1, <2>2, <2>3
<1>6. /\ IsSeq(Abandoned) /\ DOMAIN Abandoned = DOMAIN calls
      /\ Len(Abandoned) = Len(calls) /\ Len(calls) \in Nat
      /\ \A k \in DOMAIN calls : Abandoned[k].by = 0
  <2>1. Len(calls) \in Nat /\ DOMAIN calls = 1 .. Len(calls)
    BY <1>2, SeqFacts
  <2>2. /\ Abandoned \in Seq({Orphan(calls[k]) : k \in DOMAIN calls})
        /\ Len(Abandoned) = Len(calls)
    BY <2>1 DEF Abandoned
  <2> QED
    BY <2>1, <2>2 DEF Abandoned, IsSeq, Orphan
<1>7. calls' = Abandoned \o effect
  BY <1>2 DEF effect
<1>8. /\ \A k \in DOMAIN calls' :
            calls'[k] = IF k \in DOMAIN Abandoned THEN Abandoned[k]
                        ELSE effect[k - Len(Abandoned)]
      /\ \A k \in DOMAIN calls' : k \in DOMAIN Abandoned \/ k - Len(Abandoned) \in DOMAIN effect
      /\ Len(Abandoned) \in Nat /\ DOMAIN Abandoned = 1 .. Len(Abandoned)
      /\ Len(effect) \in Nat /\ DOMAIN effect = 1 .. Len(effect)
      /\ DOMAIN calls' = 1 .. Len(Abandoned) + Len(effect)
      /\ Len(calls') = Len(Abandoned) + Len(effect)
  <2>1. IsSeq(Abandoned) /\ IsSeq(effect)
    BY <1>5, <1>6
  <2>2. /\ Len(Abandoned) \in Nat /\ DOMAIN Abandoned = 1 .. Len(Abandoned)
        /\ Len(effect) \in Nat /\ DOMAIN effect = 1 .. Len(effect)
    BY <2>1, SeqFacts
  <2> HIDE DEF Abandoned
  <2>3. /\ DOMAIN (Abandoned \o effect) = 1 .. Len(Abandoned) + Len(effect)
        /\ Len(Abandoned \o effect) = Len(Abandoned) + Len(effect)
        /\ \A k \in DOMAIN (Abandoned \o effect) :
              /\ (Abandoned \o effect)[k] = IF k \in DOMAIN Abandoned THEN Abandoned[k]
                                            ELSE effect[k - Len(Abandoned)]
              /\ k \in DOMAIN Abandoned \/ k - Len(Abandoned) \in DOMAIN effect
    BY <2>1, <2>2, SeqJoined, SeqFacts
  <2> QED
    BY <1>7, <2>2, <2>3
<1>9. \A k \in DOMAIN calls' : calls'[k].by = mount' =>
         calls'[k].then \in {"dashboard", "admin: getMe", "admin: loadOrgs"}
  <2>1. mount' # 0
    BY <1>2
  <2>2. \A k \in DOMAIN calls' : calls'[k].by = mount' => k \notin DOMAIN Abandoned
    BY <1>6, <1>8, <2>1
  <2> QED
    BY <1>5, <1>8, <2>2
<1>10. \A j \in DOMAIN effect : /\ j + Len(Abandoned) \in DOMAIN calls'
                                /\ calls'[j + Len(Abandoned)] = effect[j]
  BY <1>8
<1>11. \A then : (\E j \in DOMAIN effect : effect[j].then = then) => Waiting(then)'
  BY <1>5, <1>10 DEF Waiting, Own
<1>12. \A k \in DOMAIN calls' : calls'[k].by = 0 \/ calls'[k].by = mount'
  BY <1>5, <1>6, <1>8
<1>13. /\ Len(effect) \in Nat /\ Len(calls) \in Nat
       /\ Len(calls') = Len(calls) + Len(effect)
  BY <1>6, <1>8
<1>14. /\ Len(calls') <= Len(calls) + 2
       /\ view \in {"login", "register"} => Len(calls') = Len(calls)
  <2>1. Len(effect) <= 2
    BY <1>5
  <2>2. view \in {"login", "register"} => Len(effect) = 0
    BY <1>5
  <2>3. Len(calls') <= Len(calls) + 2
    BY <1>13, <2>1
  <2> QED
    BY <1>13, <2>2, <2>3
<1> QED
  BY <1>2, <1>3, <1>5, <1>9, <1>11, <1>12, <1>14

-----------------------------------------------------------------------------
(* Spinners. *)

\* Every panel means the same by waiting.
LEMMA WaitingShared ==
    /\ \A t : List!Waiting(t) <=> Waiting(t)
    /\ \A t : Viewer!Waiting(t) <=> Waiting(t)
    /\ \A t : SearchPanel!Waiting(t) <=> Waiting(t)
    /\ \A t : Chat!Waiting(t) <=> Waiting(t)
    /\ \A t : Comparison!Waiting(t) <=> Waiting(t)
    /\ \A t : Extractions!Waiting(t) <=> Waiting(t)
    /\ \A t : Team!Waiting(t) <=> Waiting(t)
    /\ \A t : AdminPanel!Waiting(t) <=> Waiting(t)
  BY DEF Waiting, Own, List!Waiting, List!Own, Viewer!Waiting, Viewer!Own,
     SearchPanel!Waiting, SearchPanel!Own, Chat!Waiting, Chat!Own,
     Comparison!Waiting, Comparison!Own, Extractions!Waiting, Extractions!Own,
     Team!Waiting, Team!Own, AdminPanel!Waiting, AdminPanel!Own

\* The wait for an answer begins, goes on at other code, or ends; other waits stay.
LEMMA WaitBegins ==
    ASSUME CallsOK, mount' = mount, NEW then, NEW op, NEW arg, NEW kept,
           Fetch(then, op, arg, kept)
    PROVE  /\ Waiting(then)' /\ \A t : Waiting(t) => Waiting(t)'
           /\ \E k \in DOMAIN calls' : /\ calls'[k].by = mount /\ calls'[k].then = then
                                       /\ calls'[k].kept = kept
           /\ \A j \in Own : \E k \in DOMAIN calls' : Same(calls[j], calls'[k])
<1> DEFINE c == Call(mount, then, op, arg, kept)
<1>1. c.by = mount /\ c.then = then /\ c.kept = kept
  BY DEF Call
<1>2. calls' = calls \o <<c>> /\ IsSeq(calls)
  BY FetchAppends DEF CallsOK, GoodCalls
<1> HIDE DEF c
<1>3. Moved({}, {c})
  BY <1>2, MovedAppended
<1>4. \E k \in DOMAIN calls' : calls'[k] = c
  BY <1>2, JoinedHas
<1>5. /\ \A t : Waiting(t) => Waiting(t)'
      /\ \A j \in Own : \E k \in DOMAIN calls' : Same(calls[j], calls'[k])
  BY <1>3, MovedOwn DEF Waiting, Own
<1> QED
  BY <1>1, <1>4, <1>5 DEF Waiting, Own

\* The code goes on and awaits another answer.
LEMMA WaitGoesOn ==
    ASSUME CallsOK, mount' = mount, NEW i \in Own,
           NEW then, NEW op, NEW arg, NEW kept, ThenFetch(i, then, op, arg, kept)
    PROVE  /\ Waiting(then)'
           /\ \A t : Waiting(t) /\ t # calls[i].then => Waiting(t)'
           /\ \A j \in Own \ {i} : \E k \in DOMAIN calls' : Same(calls[j], calls'[k])
<1> DEFINE c == Call(calls[i].by, then, op, arg, kept)
<1>1. c.by = mount /\ c.then = then
  BY DEF Call, Own
<1>2. calls' = [calls EXCEPT ![i] = c] /\ i \in DOMAIN calls
  BY DEF ThenFetch, Own
<1> HIDE DEF c
<1>3. Moved({i}, {c})
  BY <1>2, MovedReplaced
<1>4. DOMAIN calls' = DOMAIN calls /\ calls'[i] = c
  BY <1>2, SeqReplaced DEF CallsOK, GoodCalls
<1>5. /\ \A t : Waiting(t) /\ t # calls[i].then => Waiting(t)'
      /\ \A j \in Own \ {i} : \E k \in DOMAIN calls' : Same(calls[j], calls'[k])
  BY <1>3, MovedOwn DEF Waiting, Own
<1> QED
  BY <1>1, <1>2, <1>4, <1>5 DEF Waiting, Own

\* The code is done: nothing else stops waiting.
LEMMA WaitEnds ==
    ASSUME CallsOK, mount' = mount, NEW i \in Own, Return(i)
    PROVE  /\ \A t : Waiting(t) /\ t # calls[i].then => Waiting(t)'
           /\ \A j \in Own \ {i} : \E k \in DOMAIN calls' : Same(calls[j], calls'[k])
<1> DEFINE new == {}
<1>1. Moved({i}, new) /\ \A c : c \notin new
  BY MovedReturn DEF Own
<1> HIDE DEF new
<1>2. /\ \A j \in DOMAIN calls \ {i} : \E k \in DOMAIN calls' : Same(calls[j], calls'[k])
      /\ \A then : (\E j \in Own \ {i} : calls[j].then = then) => Waiting(then)'
  BY <1>1, MovedOwn
<1>3. \A j \in Own \ {i} : j \in DOMAIN calls \ {i}
  BY DEF Own
<1>4. ASSUME NEW t, Waiting(t), t # calls[i].then PROVE Waiting(t)'
  <2>1. PICK j \in Own : calls[j].then = t
    BY <1>4 DEF Waiting
  <2> QED
    BY <1>2, <1>4, <2>1
<1> QED
  BY <1>2, <1>3, <1>4

\* Where no fetch moves, no wait ends.
LEMMA WaitStays ==
    ASSUME calls' = calls, mount' = mount
    PROVE  \A t : Waiting(t) => Waiting(t)'
  BY DEF Waiting, Own

\* The mounted component sets its own state.
LEMMA OwnState ==
    ASSUME NEW i \in Own, NEW new, SetState(i, new)
    PROVE  ui' = new
  BY DEF Own, SetState

\* Where the fetches of the mounted component come from.
LEMMA FetchOwn ==
    ASSUME CallsOK, mount' = mount, NEW then, NEW op, NEW arg, NEW kept,
           Fetch(then, op, arg, kept)
    PROVE  \A k \in Own' :
              \/ \E j \in Own : Same(calls[j], calls'[k])
              \/ calls'[k].then = then /\ calls'[k].arg = arg /\ calls'[k].kept = kept
<1>1. PICK c : /\ Moved({}, {c}) /\ c.by = mount
               /\ c.then = then /\ c.arg = arg /\ c.kept = kept
  BY MovedFetch
<1> DEFINE out == {}  new == {c}
<1>2. Moved(out, new) /\ \A d \in new : d = c
  BY <1>1
<1> HIDE DEF out, new
<1>3. \A k \in DOMAIN calls' : calls'[k] \in new \/
         \E j \in DOMAIN calls \ out : Same(calls[j], calls'[k])
  BY <1>2, MovedOwn
<1> QED
  BY <1>1, <1>2, <1>3 DEF Own, Same

\* The same, where the code goes on to another fetch.
LEMMA ThenFetchOwn ==
    ASSUME CallsOK, mount' = mount, NEW i \in Own,
           NEW then, NEW op, NEW arg, NEW kept, ThenFetch(i, then, op, arg, kept)
    PROVE  \A k \in Own' :
              \/ \E j \in Own \ {i} : Same(calls[j], calls'[k])
              \/ calls'[k].then = then /\ calls'[k].arg = arg /\ calls'[k].kept = kept
<1> DEFINE c == Call(calls[i].by, then, op, arg, kept)
<1>0. c.then = then /\ c.arg = arg /\ c.kept = kept
  BY DEF Call
<1>1. calls' = [calls EXCEPT ![i] = c] /\ i \in DOMAIN calls
  BY DEF ThenFetch, Own
<1> HIDE DEF c
<1> DEFINE new == {c}
<1>2. Moved({i}, new) /\ \A d \in new : d = c
  BY <1>1, MovedReplaced
<1> HIDE DEF new
<1>3. \A k \in DOMAIN calls' : calls'[k] \in new \/
         \E j \in DOMAIN calls \ {i} : Same(calls[j], calls'[k])
  BY <1>2, MovedOwn
<1> QED
  BY <1>0, <1>2, <1>3 DEF Own, Same

\* The same, where it is done.
LEMMA ReturnOwn ==
    ASSUME CallsOK, mount' = mount, NEW i \in Own, Return(i)
    PROVE  \A k \in Own' : \E j \in Own \ {i} : Same(calls[j], calls'[k])
<1>1. \A k \in DOMAIN calls' : \E j \in DOMAIN calls \ {i} : calls'[k] = calls[j]
  BY ReturnLeaves DEF Own
<1> QED
  BY <1>1 DEF Own, Same

\* The same, where no fetch moves.
LEMMA OwnStays ==
    ASSUME calls' = calls, mount' = mount
    PROVE  \A k \in Own' : \E j \in Own : Same(calls[j], calls'[k])
  BY DEF Own, Same

-----------------------------------------------------------------------------
(* What is true of each page and panel while it is mounted. *)

ListInv ==
    /\ ui.loading => Waiting("fetchDocs")
    /\ ui.action # None =>
          \E t \in {"download", "export", "delete", "delete: fetchDocs"} : Waiting(t)

\* The list of documents spins only while something is awaited.
LEMMA ListStep ==
    ASSUME CallsOK, ui \in List!States, Stays, ListInv,
           List!Click \/ \E i \in Own : List!Continue(i)
    PROVE  ListInv'
<1> DEFINE busy == {"download", "export", "delete", "delete: fetchDocs"}
<1>0. mount' = mount /\ "fetchDocs" \notin busy
  BY DEF Stays
<1>1. CASE (\E d \in Docs : List!ToggleSelect(d)) \/ List!ToggleAll
  <2>1. ui'.loading = ui.loading /\ ui'.action = ui.action /\ calls' = calls
    BY <1>1 DEF List!ToggleSelect, List!ToggleAll, List!States
  <2> QED
    BY <1>0, <2>1, WaitStays DEF ListInv
<1>2. CASE List!Refresh
  <2>1. Fetch("fetchDocs", "GET documents", None, None) /\ ui' = ui
    BY <1>2, ListShared DEF List!Refresh
  <2>2. \A t : Waiting(t) => Waiting(t)'
    BY <1>0, <2>1, WaitBegins
  <2> QED
    BY <2>1, <2>2 DEF ListInv
<1>3. ASSUME NEW action \in {"download", "export", "delete"}, NEW op,
             List!BulkAction(action, op)
      PROVE  ListInv'
  <2>1. Fetch(action, op, ui.selected, None) /\ ui'.loading = ui.loading
    BY <1>3, ListShared DEF List!BulkAction, List!States
  <2>2. Waiting(action)' /\ \A t : Waiting(t) => Waiting(t)'
    BY <1>0, <2>1, WaitBegins
  <2> QED
    BY <2>1, <2>2 DEF ListInv
<1>4. ASSUME NEW i \in Own, List!FetchDocs(i)
      PROVE  ListInv'
  <2>1. Return(i) /\ calls[i].then = "fetchDocs" /\ ui' = List!Loaded(i)
    BY <1>4, ListShared, OwnState DEF List!FetchDocs, Awaited
  <2>2. ui'.loading = FALSE /\ ui'.action = ui.action
    BY <2>1 DEF List!Loaded, List!States
  <2>3. \A t \in busy : Waiting(t) => Waiting(t)'
    BY <1>0, <2>1, WaitEnds
  <2> QED
    BY <2>2, <2>3 DEF ListInv
<1>5. ASSUME NEW i \in Own, List!BulkActionDone(i)
      PROVE  ListInv'
  <2>1. /\ Return(i) /\ calls[i].then \in {"download", "export"}
        /\ ui' = [ui EXCEPT !.action = None]
    BY <1>5, ListShared, OwnState DEF List!BulkActionDone, Awaited
  <2>2. Waiting("fetchDocs") => Waiting("fetchDocs")'
    BY <1>0, <2>1, WaitEnds
  <2> QED
    BY <2>1, <2>2 DEF ListInv, List!States
<1>6. ASSUME NEW i \in Own, List!BulkDeleteDone(i)
      PROVE  ListInv'
  <2>1. calls[i].then = "delete"
    BY <1>6, ListShared DEF List!BulkDeleteDone, Awaited
  <2>2. CASE IsOk(i)
    <3>1. /\ ThenFetch(i, "delete: fetchDocs", "GET documents", None, None)
          /\ ui' = [ui EXCEPT !.selected = {}]
      BY <1>6, <2>2, ListShared, OwnState DEF List!BulkDeleteDone
    <3>2. /\ Waiting("delete: fetchDocs")'
          /\ Waiting("fetchDocs") => Waiting("fetchDocs")'
      BY <1>0, <2>1, <3>1, WaitGoesOn
    <3> QED
      BY <3>1, <3>2 DEF ListInv, List!States
  <2>3. CASE ~IsOk(i)
    <3>1. Return(i) /\ ui' = [ui EXCEPT !.action = None]
      BY <1>6, <2>3, ListShared, OwnState DEF List!BulkDeleteDone
    <3>2. Waiting("fetchDocs") => Waiting("fetchDocs")'
      BY <1>0, <2>1, <3>1, WaitEnds
    <3> QED
      BY <3>1, <3>2 DEF ListInv, List!States
  <2> QED
    BY <2>2, <2>3
<1>7. ASSUME NEW i \in Own, List!DeletedLoaded(i)
      PROVE  ListInv'
  <2>1. ui' = [List!Loaded(i) EXCEPT !.action = None]
    BY <1>7, ListShared, OwnState DEF List!DeletedLoaded
  <2> QED
    BY <2>1 DEF ListInv, List!Loaded, List!States
<1> QED
  BY <1>1, <1>2, <1>3, <1>4, <1>5, <1>6, <1>7
     DEF List!Click, List!Continue, List!HandleBulkDownload, List!HandleBulkExport,
         List!HandleBulkDelete

ViewerInv ==
    /\ ui.loading => Waiting("viewer")
    /\ ui.asking => Waiting("DocAiPanel")
    /\ ui.exporting => Waiting("DocExportButton")
    /\ ui.detail # None => ui.detail.doc \in {ui.doc, None}
    /\ ui.answer # None => ui.answer.doc \in {ui.doc, None}
    /\ \A i \in Own : /\ calls[i].then = "viewer" => calls[i].arg = ui.doc
                      /\ calls[i].then = "DocAiPanel" => calls[i].arg.doc = ui.doc

\* The viewer spins only while something is awaited, and shows its own document.
LEMMA ViewerStep ==
    ASSUME CallsOK, ui \in Viewer!States, Stays, ViewerInv,
           Viewer!Click \/ \E i \in Own : Viewer!Continue(i)
    PROVE  ViewerInv'
<1> DEFINE Kept == \A k \in Own' :
                     /\ calls'[k].then = "viewer" => calls'[k].arg = ui.doc
                     /\ calls'[k].then = "DocAiPanel" => calls'[k].arg.doc = ui.doc
<1>0. mount' = mount
  BY DEF Stays
<1>1. CASE (\E t \in {"preview", "text"} : Viewer!ShowTab(t))
           \/ (\E m \in {"ask", "summarize"} : Viewer!SetMode(m)) \/ Viewer!TypeQuestion
  <2>1. /\ calls' = calls /\ ui'.doc = ui.doc /\ ui'.loading = ui.loading
        /\ ui'.asking = ui.asking /\ ui'.exporting = ui.exporting
        /\ ui'.detail = ui.detail /\ ui'.answer = ui.answer
    BY <1>1 DEF Viewer!ShowTab, Viewer!SetMode, Viewer!TypeQuestion, Viewer!States
  <2>2. Kept
    BY <1>0, <2>1 DEF ViewerInv, Own
  <2>3. \A t : Waiting(t) => Waiting(t)'
    BY <1>0, <2>1, WaitStays
  <2> QED
    BY <2>1, <2>2, <2>3 DEF ViewerInv
<1>2. CASE Viewer!HandleExport
  <2> DEFINE these == {ui.doc}
  <2>1. /\ Fetch("DocExportButton", "POST documents/bulk", these, None)
        /\ ui' = [ui EXCEPT !.exporting = TRUE]
    BY <1>2, ViewerShared DEF Viewer!HandleExport
  <2> HIDE DEF these
  <2>2. Waiting("DocExportButton")' /\ \A t : Waiting(t) => Waiting(t)'
    BY <1>0, <2>1, WaitBegins
  <2>3. \A k \in Own' : \/ \E j \in Own : Same(calls[j], calls'[k])
                        \/ /\ calls'[k].then = "DocExportButton"
                           /\ calls'[k].arg = these /\ calls'[k].kept = None
    BY <1>0, <2>1, FetchOwn
  <2>4. Kept
    BY <2>3 DEF ViewerInv, Same
  <2> QED
    BY <2>1, <2>2, <2>4 DEF ViewerInv, Viewer!States
<1>3. CASE Viewer!HandleAsk
  <2> DEFINE question == [doc |-> ui.doc, what |-> ui.mode]
  <2>0. question.doc = ui.doc
    OBVIOUS
  <2>1. /\ Fetch("DocAiPanel", "POST ai", question, None)
        /\ ui' = [ui EXCEPT !.asking = TRUE, !.answer = None]
    BY <1>3, ViewerShared DEF Viewer!HandleAsk
  <2> HIDE DEF question
  <2>2. Waiting("DocAiPanel")' /\ \A t : Waiting(t) => Waiting(t)'
    BY <1>0, <2>1, WaitBegins
  <2>3. \A k \in Own' : \/ \E j \in Own : Same(calls[j], calls'[k])
                        \/ /\ calls'[k].then = "DocAiPanel"
                           /\ calls'[k].arg = question /\ calls'[k].kept = None
    BY <1>0, <2>1, FetchOwn
  <2>4. Kept
    BY <2>0, <2>3 DEF ViewerInv, Same
  <2> QED
    BY <2>1, <2>2, <2>4 DEF ViewerInv, Viewer!States
<1>4. ASSUME NEW i \in Own, Return(i)
      PROVE  Kept /\ \A t : Waiting(t) /\ t # calls[i].then => Waiting(t)'
  <2>1. Kept
    BY <1>0, <1>4, ReturnOwn DEF ViewerInv, Same
  <2> QED
    BY <1>0, <1>4, <2>1, WaitEnds
<1>5. ASSUME NEW i \in Own, Viewer!Load(i)
      PROVE  ViewerInv'
  <2>1. /\ Return(i) /\ calls[i].then = "viewer"
        /\ ui' = [ui EXCEPT !.detail = IF calls[i].state = "lost" THEN @ ELSE Viewer!Detail(i),
                            !.loading = FALSE]
    BY <1>5, ViewerShared, OwnState DEF Viewer!Load, Awaited
  <2>2. Viewer!Detail(i).doc \in {ui.doc, None}
    <3>1. IsFetch(calls[i]) /\ calls[i].arg = ui.doc
      BY <2>1 DEF CallsOK, GoodCalls, Own, ViewerInv
    <3>2. IsOk(i) => calls[i].data \in [doc : {ui.doc}, preview : BOOLEAN]
      BY <2>1, <3>1 DEF IsFetch, OpFits, AnswerFits, IsOk
    <3> QED
      BY <3>2, ViewerShared DEF Viewer!Detail
  <2>3. ui'.doc = ui.doc /\ ui'.asking = ui.asking /\ ui'.exporting = ui.exporting
        /\ ui'.loading = FALSE /\ ui'.answer = ui.answer
        /\ ui'.detail \in {ui.detail, Viewer!Detail(i)}
    BY <2>1 DEF Viewer!States
  <2> QED
    BY <1>4, <2>1, <2>2, <2>3 DEF ViewerInv
<1>6. ASSUME NEW i \in Own, Viewer!Exported(i)
      PROVE  ViewerInv'
  <2>1. /\ Return(i) /\ calls[i].then = "DocExportButton"
        /\ ui' = [ui EXCEPT !.exporting = FALSE]
    BY <1>6, ViewerShared, OwnState DEF Viewer!Exported, Awaited
  <2> QED
    BY <1>4, <2>1 DEF ViewerInv, Viewer!States
<1>7. ASSUME NEW i \in Own, Viewer!Answered(i)
      PROVE  ViewerInv'
  <2> DEFINE answer == IF Viewer!IsOk(i) THEN calls[i].data
                       ELSE [doc |-> None, what |-> "failure"]
  <2>1. /\ Return(i) /\ calls[i].then = "DocAiPanel"
        /\ ui' = [ui EXCEPT !.answer = answer, !.asking = FALSE]
    BY <1>7, ViewerShared, OwnState DEF Viewer!Answered, Awaited
  <2>2. answer.doc \in {ui.doc, None}
    <3>1. IsFetch(calls[i]) /\ calls[i].arg.doc = ui.doc
      BY <2>1 DEF CallsOK, GoodCalls, Own, ViewerInv
    <3>2. IsOk(i) => calls[i].data = calls[i].arg
      BY <2>1, <3>1 DEF IsFetch, OpFits, AnswerFits, IsOk
    <3> QED
      BY <3>1, <3>2, ViewerShared
  <2> HIDE DEF answer
  <2> QED
    BY <1>4, <2>1, <2>2 DEF ViewerInv, Viewer!States
<1> QED
  BY <1>1, <1>2, <1>3, <1>5, <1>6, <1>7 DEF Viewer!Click, Viewer!Continue

SearchInv ==
    /\ ui.loading => Waiting("SearchBox")
    /\ ui.expanded \subseteq (IF ui.results = None THEN {} ELSE ui.results.hits)

\* The document selector fills its menu and touches nothing else.
LEMMA SelectorStep ==
    ASSUME CallsOK, Stays, NEW i \in Own, SearchPanel!SelectorLoaded(i),
           ui \in SearchPanel!States \/ ui \in Chat!States
    PROVE  /\ \E menu : ui' = [ui EXCEPT !.menu = menu]
           /\ Return(i) /\ calls[i].then = "DocumentSelector"
           /\ \A t : Waiting(t) /\ t # "DocumentSelector" => Waiting(t)'
<1>1. /\ Return(i) /\ calls[i].then = "DocumentSelector" /\ mount' = mount
      /\ \E menu : ui' = [ui EXCEPT !.menu = menu]
  BY SearchShared, OwnState DEF SearchPanel!SelectorLoaded, Awaited, Stays
<1> QED
  BY <1>1, WaitEnds

\* The search panel spins only while it searches, and expands only hits.
LEMMA SearchStep ==
    ASSUME CallsOK, ui \in SearchPanel!States, Stays, SearchInv,
           SearchPanel!Click \/ \E i \in Own : SearchPanel!Continue(i)
    PROVE  SearchInv'
<1>0. mount' = mount
  BY DEF Stays
<1>1. ASSUME NEW d, SearchPanel!SelectDocument(d)
      PROVE  SearchInv'
  <2>1. calls' = calls /\ ui' = [ui EXCEPT !.docFilter = d]
    BY <1>1 DEF SearchPanel!SelectDocument
  <2> QED
    BY <1>0, <2>1, WaitStays DEF SearchInv, SearchPanel!States
<1>2. CASE SearchPanel!HandleSearch
  <2>1. /\ Fetch("SearchBox", "GET search", ui.docFilter, None)
        /\ ui' = [ui EXCEPT !.loading = TRUE, !.error = FALSE]
    BY <1>2, SearchShared DEF SearchPanel!HandleSearch
  <2>2. Waiting("SearchBox")'
    BY <1>0, <2>1, WaitBegins
  <2> QED
    BY <2>1, <2>2 DEF SearchInv, SearchPanel!States
<1>3. ASSUME NEW h \in Docs, SearchPanel!ToggleExpand(h)
      PROVE  SearchInv'
  <2>1. /\ calls' = calls /\ ui' = [ui EXCEPT !.expanded = SearchPanel!Toggle(@, h)]
        /\ h \in IF ui.results # None THEN ui.results.hits ELSE {}
    BY <1>3 DEF SearchPanel!ToggleExpand, SearchPanel!HitsShown
  <2>2. SearchPanel!Toggle(ui.expanded, h) \subseteq ui.expanded \cup {h}
    BY DEF SearchPanel!Toggle
  <2>3. /\ ui'.expanded \subseteq ui.expanded \cup {h}
        /\ ui'.loading = ui.loading /\ ui'.results = ui.results
    BY <2>1, <2>2 DEF SearchPanel!States
  <2> QED
    BY <1>0, <2>1, <2>3, WaitStays DEF SearchInv
<1>4. ASSUME NEW i \in Own, SearchPanel!SelectorLoaded(i)
      PROVE  SearchInv'
  <2>1. /\ \E menu : ui' = [ui EXCEPT !.menu = menu]
        /\ Waiting("SearchBox") => Waiting("SearchBox")'
    BY <1>4, SelectorStep
  <2> QED
    BY <2>1 DEF SearchInv, SearchPanel!States
<1>5. ASSUME NEW i \in Own, SearchPanel!Headers(i) \/ SearchPanel!Failed(i)
      PROVE  SearchInv'
  <2>1. \/ ui' = [ui EXCEPT !.loading = FALSE]
        \/ ui' = [ui EXCEPT !.loading = FALSE, !.error = TRUE]
    BY <1>5, SearchShared, OwnState DEF SearchPanel!Headers, SearchPanel!Failed
  <2> QED
    BY <2>1 DEF SearchInv, SearchPanel!States
<1>6. ASSUME NEW i \in Own, SearchPanel!Results(i)
      PROVE  SearchInv'
  <2>1. /\ Return(i) /\ calls[i].then = "SearchBox: body"
        /\ ui' = [ui EXCEPT !.results = calls[i].data, !.expanded = {}]
    BY <1>6, SearchShared, OwnState DEF SearchPanel!Results, Awaited
  <2>2. Waiting("SearchBox") => Waiting("SearchBox")'
    BY <1>0, <2>1, WaitEnds
  <2> QED
    BY <2>1, <2>2 DEF SearchInv, SearchPanel!States
<1> QED
  BY <1>1, <1>2, <1>3, <1>4, <1>5, <1>6 DEF SearchPanel!Click, SearchPanel!Continue

ChatInv == ui.loading => Waiting("AiChat")

\* The assistant spins only while an answer is awaited.
LEMMA ChatStep ==
    ASSUME CallsOK, ui \in Chat!States, Stays, ChatInv,
           \/ Chat!Click
           \/ \E i \in Own : \/ Chat!Headers(i) \/ Chat!Failed(i) \/ Chat!Answered(i)
                             \/ SearchPanel!SelectorLoaded(i)
    PROVE  ChatInv'
<1>0. mount' = mount
  BY DEF Stays
<1>1. CASE Chat!HandleSubmit \/ Chat!HandleSummarize
  <2>1. PICK op, arg : Fetch("AiChat", op, arg, None)
    BY <1>1, ChatShared DEF Chat!HandleSubmit, Chat!HandleSummarize
  <2>2. Waiting("AiChat")'
    BY <1>0, <2>1, WaitBegins
  <2> QED
    BY <2>2 DEF ChatInv
<1>2. ASSUME NEW d, Chat!SelectDocument(d)
      PROVE  ChatInv'
  <2>1. calls' = calls /\ ui' = [ui EXCEPT !.docFilter = d, !.messages = << >>]
    BY <1>2 DEF Chat!SelectDocument
  <2> QED
    BY <1>0, <2>1, WaitStays DEF ChatInv, Chat!States
<1>3. ASSUME NEW i \in Own, Chat!Headers(i) \/ Chat!Failed(i)
      PROVE  ChatInv'
  <2>1. \/ ui' = [ui EXCEPT !.loading = FALSE]
        \/ ui' = [Chat!Said("assistant") EXCEPT !.loading = FALSE]
    BY <1>3, ChatShared, OwnState DEF Chat!Headers, Chat!Failed
  <2> QED
    BY <2>1 DEF ChatInv, Chat!Said, Chat!States
<1>4. ASSUME NEW i \in Own, Chat!Answered(i)
      PROVE  ChatInv'
  <2>1. /\ Return(i) /\ calls[i].then = "AiChat: body"
        /\ ui' = Chat!Said("assistant")
    BY <1>4, ChatShared, OwnState DEF Chat!Answered, Awaited
  <2>2. Waiting("AiChat") => Waiting("AiChat")'
    BY <1>0, <2>1, WaitEnds
  <2> QED
    BY <2>1, <2>2 DEF ChatInv, Chat!Said, Chat!States
<1>5. ASSUME NEW i \in Own, SearchPanel!SelectorLoaded(i)
      PROVE  ChatInv'
  <2>1. /\ \E menu : ui' = [ui EXCEPT !.menu = menu]
        /\ Waiting("AiChat") => Waiting("AiChat")'
    BY <1>5, SelectorStep
  <2> QED
    BY <2>1 DEF ChatInv, Chat!States
<1> QED
  BY <1>1, <1>2, <1>3, <1>4, <1>5 DEF Chat!Click

-----------------------------------------------------------------------------
(* Work that goes on by one request at a time. *)

\* Nothing is under way in the code of R.
Idle(R) == \A j \in Own : calls[j].then \notin R

\* A fetch of R leaves one alone if there was none before.
LEMMA LoneFetch ==
    ASSUME CallsOK, mount' = mount, NEW R, Lone(R),
           NEW then, NEW op, NEW arg, NEW kept, Fetch(then, op, arg, kept),
           then \notin R \/ Idle(R)
    PROVE  Lone(R)' /\ (then \notin R /\ Idle(R) => Idle(R)')
<1> DEFINE c == Call(mount, then, op, arg, kept)
           out == {}  new == {c}
<1>0. c.then = then
  BY DEF Call
<1>1. calls' = calls \o <<c>>
  BY FetchAppends
<1> HIDE DEF c
<1>2. Moved(out, new) /\ (\A d \in new : d = c) /\ (\A j \in Own \ out : j \in Own)
  BY <1>1, MovedAppended
<1>3. \A d, e \in new : d.then \in R /\ e.then \in R => d = e
  BY <1>2
<1>4. (\E d \in new : d.by = mount /\ d.then \in R) => \A j \in Own \ out : calls[j].then \notin R
  BY <1>0, <1>2 DEF Idle
<1> HIDE DEF out, new
<1>5. Lone(R)'
  BY <1>2, <1>3, <1>4, LoneKept
<1>6. then \notin R /\ Idle(R) => Idle(R)'
  BY FetchOwn DEF Idle, Same
<1> QED
  BY <1>5, <1>6

\* A fetch that takes the place of one of R leaves one alone.
LEMMA LoneThen ==
    ASSUME CallsOK, mount' = mount, NEW R, Lone(R), NEW i \in Own,
           NEW then, NEW op, NEW arg, NEW kept, ThenFetch(i, then, op, arg, kept),
           then \in R => calls[i].then \in R
    PROVE  Lone(R)' /\ (Idle(R) => Idle(R)')
<1> DEFINE c == Call(calls[i].by, then, op, arg, kept)
<1>0. c.then = then
  BY DEF Call
<1>1. calls' = [calls EXCEPT ![i] = c] /\ i \in DOMAIN calls
  BY DEF ThenFetch, Own
<1> HIDE DEF c
<1> DEFINE new == {c}
<1>2. Moved({i}, new) /\ \A d \in new : d = c
  BY <1>1, MovedReplaced
<1>3. \A d, e \in new : d.then \in R /\ e.then \in R => d = e
  BY <1>2
<1>4. (\E d \in new : d.by = mount /\ d.then \in R)
         => \A j \in Own \ {i} : calls[j].then \notin R
  BY <1>0, <1>2 DEF Lone
<1> HIDE DEF new
<1>5. Lone(R)'
  BY <1>2, <1>3, <1>4, LoneKept
<1>6. Idle(R) => Idle(R)'
  BY ThenFetchOwn DEF Idle, Same
<1> QED
  BY <1>5, <1>6

\* The code of the one fetch of R is done: there is none.
LEMMA LoneReturn ==
    ASSUME CallsOK, mount' = mount, NEW R, Lone(R), NEW i \in Own, Return(i)
    PROVE  Lone(R)' /\ (Idle(R) \/ calls[i].then \in R => Idle(R)')
<1> DEFINE new == {}
<1>1. Moved({i}, new) /\ \A c : c \notin new
  BY MovedReturn DEF Own
<1> HIDE DEF new
<1>2. Lone(R)'
  BY <1>1, LoneKept
<1>3. Idle(R) \/ calls[i].then \in R => Idle(R)'
  BY ReturnOwn DEF Idle, Same, Lone
<1> QED
  BY <1>2, <1>3

\* Where no fetch moves, one stays alone.
LEMMA LoneStays ==
    ASSUME calls' = calls, mount' = mount
    PROVE  \A R : (Lone(R) => Lone(R)') /\ (Idle(R) => Idle(R)')
  BY DEF Lone, Idle, Own

-----------------------------------------------------------------------------
Comparing == {"handleCompare"}

CompareInv ==
    /\ ui.loading => Waiting("handleCompare")
    /\ ~ui.loading => Idle(Comparing)
    /\ Lone(Comparing)

\* One comparison at a time, and the spinner says so.
LEMMA CompareStep ==
    ASSUME CallsOK, ui \in Comparison!States, Stays, CompareInv,
           Comparison!Click \/ \E i \in Own : Comparison!Continue(i)
    PROVE  CompareInv'
<1>0. mount' = mount
  BY DEF Stays
<1>1. ASSUME NEW d, Comparison!SelectA(d) \/ Comparison!SelectB(d)
      PROVE  CompareInv'
  <2>1. calls' = calls /\ ui'.loading = ui.loading
    BY <1>1 DEF Comparison!SelectA, Comparison!SelectB, Comparison!States
  <2>2. /\ Waiting("handleCompare") => Waiting("handleCompare")'
        /\ Lone(Comparing) => Lone(Comparing)' 
        /\ Idle(Comparing) => Idle(Comparing)'
    BY <1>0, <2>1, WaitStays, LoneStays
  <2> QED
    BY <2>1, <2>2 DEF CompareInv
<1>2. CASE Comparison!HandleCompare
  <2>1. PICK arg : Fetch("handleCompare", "POST compare", arg, None)
    BY <1>2, ComparisonShared DEF Comparison!HandleCompare
  <2>2. ui'.loading = TRUE /\ ~ui.loading
    BY <1>2 DEF Comparison!HandleCompare, Comparison!CanCompare, Comparison!States
  <2>3. Waiting("handleCompare")'
    BY <1>0, <2>1, WaitBegins
  <2>4. Lone(Comparing)'
    BY <1>0, <2>1, <2>2, LoneFetch DEF CompareInv
  <2> QED
    BY <2>2, <2>3, <2>4 DEF CompareInv
<1>3. ASSUME NEW i \in Own, Comparison!DocsLoaded(i)
      PROVE  CompareInv'
  <2>1. /\ Return(i) /\ calls[i].then = "compare: documents"
        /\ \E new : ui' = [ui EXCEPT !.docs = new]
    BY <1>3, ComparisonShared, OwnState DEF Comparison!DocsLoaded, Awaited
  <2>2. Waiting("handleCompare") => Waiting("handleCompare")'
    BY <1>0, <2>1, WaitEnds
  <2>3. Lone(Comparing) => Lone(Comparing)' /\ (Idle(Comparing) => Idle(Comparing)')
    BY <1>0, <2>1, LoneReturn
  <2> QED
    BY <2>1, <2>2, <2>3 DEF CompareInv, Comparison!States
<1>4. ASSUME NEW i \in Own, Comparison!Compared(i)
      PROVE  CompareInv'
  <2>1. Return(i) /\ calls[i].then \in Comparing
    BY <1>4, ComparisonShared DEF Comparison!Compared, Awaited, Comparing
  <2>2. ui'.loading = FALSE
    BY <1>4, ComparisonShared, OwnState DEF Comparison!Compared, Comparison!States
  <2>3. Lone(Comparing)' /\ Idle(Comparing)'
    BY <1>0, <2>1, LoneReturn DEF CompareInv
  <2> QED
    BY <2>2, <2>3 DEF CompareInv
<1> QED
  BY <1>1, <1>2, <1>3, <1>4 DEF Comparison!Click, Comparison!Continue

TeamInv == ui.creating => Waiting("handleCreate") \/ Waiting("handleCreate: load")

\* The team panel creates only while a request is under way.
LEMMA TeamStep ==
    ASSUME CallsOK, ui \in Team!States, Stays, TeamInv,
           Team!Click \/ \E i \in Own : Team!Continue(i)
    PROVE  TeamInv'
<1>0. mount' = mount
  BY DEF Stays
<1>1. ASSUME NEW r, Team!FillIn(r)
      PROVE  TeamInv'
  <2>1. calls' = calls /\ ui'.creating = ui.creating
    BY <1>1 DEF Team!FillIn, Team!States
  <2> QED
    BY <1>0, <2>1, WaitStays DEF TeamInv
<1>2. CASE Team!HandleCreate
  <2>1. PICK arg : Fetch("handleCreate", "POST user", arg, None)
    BY <1>2, TeamShared DEF Team!HandleCreate
  <2>2. Waiting("handleCreate")'
    BY <1>0, <2>1, WaitBegins
  <2> QED
    BY <2>2 DEF TeamInv
<1>3. ASSUME NEW u, Team!PatchUser(u)
      PROVE  TeamInv'
  <2>1. PICK arg : Fetch("patchUser", "PATCH user", arg, None)
    BY <1>3, TeamShared DEF Team!PatchUser
  <2>2. \A t : Waiting(t) => Waiting(t)'
    BY <1>0, <2>1, WaitBegins
  <2>3. ui'.creating = ui.creating
    BY <1>3 DEF Team!PatchUser, Team!States
  <2> QED
    BY <2>2, <2>3 DEF TeamInv
<1>4. ASSUME NEW i \in Own, Team!Load(i)
      PROVE  TeamInv'
  <2>1. Return(i) /\ calls[i].then = "load" /\ ui' = Team!Loaded(i)
    BY <1>4, TeamShared, OwnState DEF Team!Load, Awaited
  <2>2. \A t : Waiting(t) /\ t # "load" => Waiting(t)'
    BY <1>0, <2>1, WaitEnds
  <2> QED
    BY <2>1, <2>2 DEF TeamInv, Team!Loaded, Team!States
<1>5. ASSUME NEW i \in Own, Team!Created(i)
      PROVE  TeamInv'
  <2>1. CASE IsOk(i)
    <3>1. ThenFetch(i, "handleCreate: load", "GET users", None, None)
      BY <1>5, <2>1, TeamShared DEF Team!Created
    <3>2. Waiting("handleCreate: load")'
      BY <1>0, <3>1, WaitGoesOn
    <3> QED
      BY <3>2 DEF TeamInv
  <2>2. CASE ~IsOk(i)
    BY <1>5, <2>2, TeamShared, OwnState DEF Team!Created, TeamInv, Team!States
  <2> QED
    BY <2>1, <2>2
<1>6. ASSUME NEW i \in Own, Team!CreatedLoaded(i)
      PROVE  TeamInv'
  <2>1. ui' = [Team!Loaded(i) EXCEPT !.creating = FALSE,
                       !.error = @ \/ calls[i].state = "lost"]
    BY <1>6, TeamShared, OwnState DEF Team!CreatedLoaded
  <2> QED
    BY <2>1 DEF TeamInv, Team!Loaded, Team!States
<1>7. ASSUME NEW i \in Own, Team!Patched(i)
      PROVE  TeamInv'
  <2>0. calls[i].then = "patchUser"
    BY <1>7, TeamShared DEF Team!Patched, Awaited
  <2>1. CASE IsOk(i)
    <3>1. ThenFetch(i, "load", "GET users", None, None) /\ ui' = ui
      BY <1>7, <2>1, TeamShared DEF Team!Patched
    <3>2. \A t : Waiting(t) /\ t # "patchUser" => Waiting(t)'
      BY <1>0, <2>0, <3>1, WaitGoesOn
    <3> QED
      BY <3>1, <3>2 DEF TeamInv
  <2>2. CASE ~IsOk(i)
    <3>1. Return(i) /\ ui' \in {ui, [ui EXCEPT !.error = TRUE]}
      BY <1>7, <2>2, TeamShared, OwnState DEF Team!Patched
    <3>2. \A t : Waiting(t) /\ t # "patchUser" => Waiting(t)'
      BY <1>0, <2>0, <3>1, WaitEnds
    <3> QED
      BY <3>1, <3>2 DEF TeamInv, Team!States
  <2> QED
    BY <2>1, <2>2
<1> QED
  BY <1>1, <1>2, <1>3, <1>4, <1>5, <1>6, <1>7 DEF Team!Click, Team!Continue

\* Without a token the page is about to be left.
AdminInv == token # None /\ ui.orgs = None => Waiting("admin: loadOrgs")

\* The administrator's page keeps what it says of its organizations.
LEMMA AdminStep ==
    ASSUME CallsOK, ui \in AdminPanel!States, Stays, AdminInv, Managed,
           AdminPanel!Click \/ \E i \in Own : AdminPanel!Continue(i)
    PROVE  AdminInv'
<1>0. mount' = mount /\ token' = token
  BY DEF Stays
<1>1. CASE AdminPanel!Click
  <2>1. ui.orgs # None
    BY <1>1 DEF AdminPanel!Click, AdminPanel!HandleToggle, AdminPanel!TypeQuota,
       AdminPanel!HandleQuotaSave, AdminPanel!ToggleDocuments, AdminPanel!Shown
  <2>2. ui'.orgs = ui.orgs
    BY <1>1 DEF AdminPanel!Click, AdminPanel!HandleToggle, AdminPanel!TypeQuota,
       AdminPanel!HandleQuotaSave, AdminPanel!ToggleDocuments, AdminPanel!Update,
       AdminPanel!States
  <2> QED
    BY <2>1, <2>2 DEF AdminInv
<1>2. ASSUME NEW i \in Own, AdminPanel!OrgsLoaded(i)
      PROVE  AdminInv'
  <2>1. calls[i].then = "admin: loadOrgs" /\ IsOk(i) /\ ui' = [ui EXCEPT !.orgs = calls[i].data]
    BY <1>2, AdminShared, OwnState DEF AdminPanel!OrgsLoaded, Awaited
  <2>2. IsFetch(calls[i])
    BY DEF CallsOK, GoodCalls, Own
  <2>3. calls[i].data \in [Orgs -> AdminPanel!Settings]
    BY <2>1, <2>2 DEF IsFetch, OpFits, AnswerFits, IsOk
  <2>4. ui'.orgs # None
    BY <2>1, <2>3, NullAssumption DEF AdminPanel!States
  <2> QED
    BY <2>4 DEF AdminInv
<1>3. ASSUME NEW i \in Own, AdminPanel!AdminKnown(i) \/ AdminPanel!DocumentsShown(i)
      PROVE  AdminInv'
  <2>1. /\ Return(i) /\ calls[i].then \in {"admin: getMe", "toggleDocuments"}
        /\ ui' = ui \/ ui' = [ui EXCEPT !.docs = calls[i].data]
    BY <1>3, AdminShared, OwnState
       DEF AdminPanel!AdminKnown, AdminPanel!DocumentsShown, Awaited
  <2>2. Waiting("admin: loadOrgs") => Waiting("admin: loadOrgs")'
    BY <1>0, <2>1, WaitEnds
  <2> QED
    BY <1>0, <2>1, <2>2 DEF AdminInv, AdminPanel!States
<1>4. ASSUME NEW i \in Own, AdminPanel!Toggled(i) \/ AdminPanel!QuotaSaved(i)
      PROVE  AdminInv'
  <2>1. calls[i].then \in {"handleToggle", "handleQuotaSave"}
    BY <1>4, AdminShared DEF AdminPanel!Toggled, AdminPanel!QuotaSaved, Awaited
  <2>2. ui.orgs \in [Orgs -> AdminPanel!Settings]
    BY <2>1 DEF Managed, AdminPanel!States
  <2>3. IsOk(i) => calls[i].data \in AdminPanel!Settings
    <3>1. IsFetch(calls[i])
      BY DEF CallsOK, GoodCalls, Own
    <3> QED
      BY <2>1, <3>1 DEF IsFetch, OpFits, AnswerFits, IsOk
  <2> DEFINE new == [ui.orgs EXCEPT ![calls[i].arg.org] = calls[i].data]
  <2>4. IsOk(i) => new \in [Orgs -> AdminPanel!Settings]
    BY <2>2, <2>3
  <2>5. ui'.orgs = IF IsOk(i) THEN new ELSE ui.orgs
    BY <1>4, AdminShared, OwnState
       DEF AdminPanel!Toggled, AdminPanel!QuotaSaved, AdminPanel!Replaced, AdminPanel!States
  <2> HIDE DEF new
  <2>6. ui'.orgs # None
    BY <2>2, <2>4, <2>5, NullAssumption
  <2> QED
    BY <2>6 DEF AdminInv
<1> QED
  BY <1>1, <1>2, <1>3, <1>4 DEF AdminPanel!Continue

-----------------------------------------------------------------------------
(* The extractions panel. *)

Running == {"handleExtract", "handleExtract: fetchAll"}

RunInv  == Lone(Running) /\ (ui.extracting <=> ~Idle(Running))
BinInv  == ui.deleting => Waiting("bulk-delete") \/ Waiting("bulk-delete: fetchAll")
FileInv == ui.exporting # None => Waiting("handleExport")

\* A form that is being saved is waited for by a request of its own.
FormInv ==
    ui.form # None /\ ui.form.saving =>
        \E j \in Own : calls[j].then = "TemplateForm" /\ calls[j].kept.no = ui.form.no

ExtractInv == RunInv /\ BinInv /\ FileInv /\ FormInv

\* What keeps each part, for a step after which all that the panel waits for but
\* in the code of `gone` is still waited for.
LEMMA PartsKept ==
    ASSUME ExtractInv, mount' = mount, NEW gone,
           \A j \in Own : calls[j].then \notin gone =>
               \E k \in DOMAIN calls' : Same(calls[j], calls'[k])
    PROVE  /\ \/ ui'.extracting # ui.extracting
              \/ ~Lone(Running)' \/ (Idle(Running) /\ ~Idle(Running)')
              \/ Running \cap gone # {}
              \/ RunInv'
           /\ \/ ui'.deleting # ui.deleting
              \/ {"bulk-delete", "bulk-delete: fetchAll"} \cap gone # {}
              \/ BinInv'
           /\ ui'.exporting # ui.exporting \/ "handleExport" \in gone \/ FileInv'
           /\ ui'.form # ui.form \/ "TemplateForm" \in gone \/ FormInv'
<1>1. \A t : Waiting(t) /\ t \notin gone => Waiting(t)'
  BY DEF Waiting, Own, Same
<1>2. \/ ui'.extracting # ui.extracting
      \/ ~Lone(Running)' \/ (Idle(Running) /\ ~Idle(Running)')
      \/ Running \cap gone # {}
      \/ RunInv'
  <2>1. ~Idle(Running) /\ Running \cap gone = {} => ~Idle(Running)'
    BY DEF Idle, Own, Same
  <2> QED
    BY <2>1 DEF ExtractInv, RunInv
<1>3. \/ ui'.deleting # ui.deleting
      \/ {"bulk-delete", "bulk-delete: fetchAll"} \cap gone # {}
      \/ BinInv'
  BY <1>1 DEF ExtractInv, BinInv
<1>4. ui'.exporting # ui.exporting \/ "handleExport" \in gone \/ FileInv'
  BY <1>1 DEF ExtractInv, FileInv
<1>5. ui'.form # ui.form \/ "TemplateForm" \in gone \/ FormInv'
  BY DEF ExtractInv, FormInv, Own, Same
<1> QED
  BY <1>2, <1>3, <1>4, <1>5

\* The four parts of the panel, when no fetch moves.
LEMMA PartsStay ==
    ASSUME ExtractInv, mount' = mount, calls' = calls, ui'.extracting = ui.extracting,
           ui'.deleting = ui.deleting, ui'.exporting = ui.exporting
    PROVE  RunInv' /\ BinInv' /\ FileInv' /\ (ui'.form = ui.form => FormInv')
<1> DEFINE gone == {}
<1>1. /\ \A j \in Own : calls[j].then \notin gone =>
            \E k \in DOMAIN calls' : Same(calls[j], calls'[k])
      /\ \A t : t \notin gone
  BY DEF Same, Own
<1>2. Lone(Running)' /\ (Idle(Running) => Idle(Running)')
  BY LoneStays DEF ExtractInv, RunInv
<1>3. /\ Running \cap gone = {}
      /\ {"bulk-delete", "bulk-delete: fetchAll"} \cap gone = {}
  OBVIOUS
<1> HIDE DEF gone
<1> QED
  BY <1>1, <1>2, <1>3, PartsKept

\* The four parts of the panel, when a fetch is sent.
LEMMA PartsFetch ==
    ASSUME ExtractInv, CallsOK, mount' = mount,
           NEW then, NEW op, NEW arg, NEW kept, Fetch(then, op, arg, kept),
           ui'.extracting = ui.extracting \/ then \in Running
    PROVE  /\ then \notin Running => RunInv'
           /\ ui'.deleting = ui.deleting => BinInv'
           /\ ui'.exporting = ui.exporting => FileInv'
           /\ ui'.form = ui.form => FormInv'
<1> DEFINE gone == {}
<1>1. /\ \A j \in Own : calls[j].then \notin gone =>
            \E k \in DOMAIN calls' : Same(calls[j], calls'[k])
      /\ \A t : t \notin gone
  BY WaitBegins
<1>2. then \notin Running => Lone(Running)' /\ (Idle(Running) => Idle(Running)')
  BY LoneFetch DEF ExtractInv, RunInv
<1>3. /\ Running \cap gone = {}
      /\ {"bulk-delete", "bulk-delete: fetchAll"} \cap gone = {}
  OBVIOUS
<1> HIDE DEF gone
<1> QED
  BY <1>1, <1>2, <1>3, PartsKept

\* The four parts of the panel, when the code of one goes on to another fetch.
LEMMA PartsThen ==
    ASSUME ExtractInv, CallsOK, mount' = mount, NEW i \in Own,
           NEW then, NEW op, NEW arg, NEW kept, ThenFetch(i, then, op, arg, kept)
    PROVE  /\ \/ calls[i].then \in Running \/ then \in Running
              \/ ui'.extracting # ui.extracting \/ RunInv'
           /\ \/ calls[i].then \in {"bulk-delete", "bulk-delete: fetchAll"}
              \/ ui'.deleting # ui.deleting \/ BinInv'
           /\ calls[i].then = "handleExport" \/ ui'.exporting # ui.exporting \/ FileInv'
           /\ calls[i].then = "TemplateForm" \/ ui'.form # ui.form \/ FormInv'
<1> DEFINE gone == {calls[i].then}
<1>1. \A j \in Own : calls[j].then \notin gone =>
         \E k \in DOMAIN calls' : Same(calls[j], calls'[k])
  BY WaitGoesOn
<1>2. then \notin Running => Lone(Running)' /\ (Idle(Running) => Idle(Running)')
  BY LoneThen DEF ExtractInv, RunInv
<1>3. \A t : t \in gone <=> t = calls[i].then
  OBVIOUS
<1>4. /\ Running \cap gone = {} \/ calls[i].then \in Running
      /\ \/ {"bulk-delete", "bulk-delete: fetchAll"} \cap gone = {}
         \/ calls[i].then \in {"bulk-delete", "bulk-delete: fetchAll"}
  OBVIOUS
<1> HIDE DEF gone
<1> QED
  BY <1>1, <1>2, <1>3, <1>4, PartsKept

\* The four parts of the panel, when the code of one is done.
LEMMA PartsReturn ==
    ASSUME ExtractInv, CallsOK, mount' = mount, NEW i \in Own, Return(i)
    PROVE  /\ calls[i].then \in Running \/ ui'.extracting # ui.extracting \/ RunInv'
           /\ \/ calls[i].then \in {"bulk-delete", "bulk-delete: fetchAll"}
              \/ ui'.deleting # ui.deleting \/ BinInv'
           /\ calls[i].then = "handleExport" \/ ui'.exporting # ui.exporting \/ FileInv'
           /\ calls[i].then = "TemplateForm" \/ ui'.form # ui.form \/ FormInv'
<1> DEFINE gone == {calls[i].then}
<1>1. \A j \in Own : calls[j].then \notin gone =>
         \E k \in DOMAIN calls' : Same(calls[j], calls'[k])
  BY WaitEnds
<1>2. Lone(Running)' /\ (Idle(Running) => Idle(Running)')
  BY LoneReturn DEF ExtractInv, RunInv
<1>3. \A t : t \in gone <=> t = calls[i].then
  OBVIOUS
<1>4. /\ Running \cap gone = {} \/ calls[i].then \in Running
      /\ \/ {"bulk-delete", "bulk-delete: fetchAll"} \cap gone = {}
         \/ calls[i].then \in {"bulk-delete", "bulk-delete: fetchAll"}
  OBVIOUS
<1> HIDE DEF gone
<1> QED
  BY <1>1, <1>2, <1>3, <1>4, PartsKept

\* Clicks in the template form keep them.
LEMMA FormClickStep ==
    ASSUME CallsOK, ui \in Extractions!States, Stays, ExtractInv, Extractions!ClickForm
    PROVE  ExtractInv'
<1>0. mount' = mount
  BY DEF Stays
<1>1. ASSUME NEW t, Extractions!Turn(t)
      PROVE  ExtractInv'
  <2>1. /\ calls' = calls /\ ui'.extracting = ui.extracting
        /\ ui'.deleting = ui.deleting /\ ui'.exporting = ui.exporting
    BY <1>1 DEF Extractions!Turn, Extractions!Change, Extractions!States
  <2>2. CASE ui.form = None
    <3>0. Extractions!Form(t).saving = FALSE
      BY DEF Extractions!Form
    <3>1. ui'.form = Extractions!Form(t)
      BY <1>1, <2>2 DEF Extractions!Turn, Extractions!Change, Extractions!States
    <3> QED
      BY <1>0, <2>1, <3>0, <3>1, PartsStay DEF ExtractInv, FormInv
  <2>3. CASE ui.form # None
    <3>1. ui.form \in Extractions!AnyForm
      BY <2>3 DEF Extractions!States
    <3>2. ui'.form = [ui.form EXCEPT !.edits = t]
      BY <1>1, <2>3 DEF Extractions!Turn, Extractions!Change, Extractions!States
    <3>3. ui'.form.saving = ui.form.saving /\ ui'.form.no = ui.form.no
      BY <3>1, <3>2 DEF Extractions!AnyForm
    <3>4. FormInv'
      BY <1>0, <2>1, <2>3, <3>3 DEF ExtractInv, FormInv, Own
    <3> QED
      BY <1>0, <2>1, <3>4, PartsStay DEF ExtractInv
  <2> QED
    BY <2>2, <2>3
<1>2. CASE Extractions!CancelForm
  <2>1. /\ calls' = calls /\ ui'.extracting = ui.extracting /\ ui'.form = None
        /\ ui'.deleting = ui.deleting /\ ui'.exporting = ui.exporting
    BY <1>2 DEF Extractions!CancelForm, Extractions!Change, Extractions!States
  <2> QED
    BY <1>0, <2>1, PartsStay DEF ExtractInv, FormInv
<1>3. ASSUME NEW valid \in BOOLEAN, Extractions!FillForm(valid)
      PROVE  ExtractInv'
  <2>1. /\ calls' = calls /\ ui'.extracting = ui.extracting
        /\ ui'.deleting = ui.deleting /\ ui'.exporting = ui.exporting
        /\ ui.form # None /\ ui'.form = [ui.form EXCEPT !.valid = valid]
    BY <1>3 DEF Extractions!FillForm, Extractions!Change, Extractions!States
  <2>2. ui.form \in Extractions!AnyForm
    BY <2>1 DEF Extractions!States
  <2>3. ui'.form.saving = ui.form.saving /\ ui'.form.no = ui.form.no
    BY <2>1, <2>2 DEF Extractions!AnyForm
  <2>4. FormInv'
    BY <1>0, <2>1, <2>3 DEF ExtractInv, FormInv, Own
  <2> QED
    BY <1>0, <2>1, <2>4, PartsStay DEF ExtractInv
<1>4. CASE Extractions!SubmitForm
  <2> DEFINE sender == [filter |-> ui.filter, no |-> ui.form.no]
  <2>0. sender.no = ui.form.no
    OBVIOUS
  <2>1. /\ ui.form # None /\ ui.form \in Extractions!AnyForm
        /\ ui'.extracting = ui.extracting
        /\ ui'.deleting = ui.deleting /\ ui'.exporting = ui.exporting
        /\ ui'.form = [ui.form EXCEPT !.saving = TRUE]
    BY <1>4 DEF Extractions!SubmitForm, Extractions!States
  <2>2. PICK op, arg : Fetch("TemplateForm", op, arg, sender)
    BY <1>4, ExtractionsShared DEF Extractions!SubmitForm, Extractions!Sender
  <2> HIDE DEF sender
  <2>3. \E k \in DOMAIN calls' : /\ calls'[k].by = mount /\ calls'[k].then = "TemplateForm"
                                 /\ calls'[k].kept = sender
    BY <1>0, <2>2, WaitBegins
  <2>4. ui'.form.no = ui.form.no
    BY <2>1 DEF Extractions!AnyForm
  <2>5. FormInv'
    BY <1>0, <2>0, <2>3, <2>4 DEF FormInv, Own
  <2>6. "TemplateForm" \notin Running
    BY DEF Running
  <2> QED
    BY <1>0, <2>1, <2>2, <2>5, <2>6, PartsFetch DEF ExtractInv
<1>5. ASSUME NEW t, Extractions!HandleDeleteTemplate(t)
      PROVE  ExtractInv'
  <2>1. PICK kept : ui' = ui /\ Fetch("delete template", "DELETE template", t, kept)
    BY <1>5, ExtractionsShared DEF Extractions!HandleDeleteTemplate
  <2>2. "delete template" \notin Running
    BY DEF Running
  <2> QED
    BY <1>0, <2>1, <2>2, PartsFetch DEF ExtractInv
<1> QED
  BY <1>1, <1>2, <1>3, <1>4, <1>5
     DEF Extractions!ClickForm, Extractions!NewTemplate, Extractions!EditTemplate

\* Clicks that choose what to run, and start it, keep them.
LEMMA RunClickStep ==
    ASSUME CallsOK, ui \in Extractions!States, Stays, ExtractInv, Extractions!ClickRun
    PROVE  ExtractInv'
<1>0. mount' = mount
  BY DEF Stays
<1>1. CASE ~Extractions!HandleExtract
  <2>1. /\ calls' = calls /\ ui'.extracting = ui.extracting /\ ui'.form = ui.form
        /\ ui'.deleting = ui.deleting /\ ui'.exporting = ui.exporting
    BY <1>1 DEF Extractions!ClickRun, Extractions!SelectTemplate, Extractions!ToggleDoc,
                Extractions!ToggleAllDocs, Extractions!Change, Extractions!States
  <2> QED
    BY <1>0, <2>1, PartsStay DEF ExtractInv
<1>2. CASE Extractions!HandleExtract
  <2>1. /\ ui'.extracting = TRUE /\ ~ui.extracting /\ ui'.form = ui.form
        /\ ui'.deleting = ui.deleting /\ ui'.exporting = ui.exporting
    BY <1>2 DEF Extractions!HandleExtract, Extractions!CanExtract, Extractions!States
  <2>2. PICK arg, kept : Fetch("handleExtract", "POST extract", arg, kept)
    BY <1>2, ExtractionsShared DEF Extractions!HandleExtract
  <2>3. "handleExtract" \in Running /\ Idle(Running)
    BY <2>1 DEF Running, ExtractInv, RunInv
  <2>4. Lone(Running)'
    BY <1>0, <2>2, <2>3, LoneFetch DEF ExtractInv, RunInv
  <2>5. Waiting("handleExtract")'
    BY <1>0, <2>2, WaitBegins
  <2>6. RunInv'
    BY <2>1, <2>3, <2>4, <2>5 DEF RunInv, Idle, Waiting
  <2> QED
    BY <1>0, <2>1, <2>2, <2>3, <2>6, PartsFetch DEF ExtractInv
<1> QED
  BY <1>1, <1>2

\* Clicks in the list of results keep them.
LEMMA ResultsClickStep ==
    ASSUME CallsOK, ui \in Extractions!States, Stays, ExtractInv, Extractions!ClickResults
    PROVE  ExtractInv'
<1>0. mount' = mount
  BY DEF Stays
<1>1. CASE Extractions!ToggleAllExtractions \/
           \E id \in 1 .. MaxRows : Extractions!ToggleExtraction(id)
  <2>1. /\ calls' = calls /\ ui'.extracting = ui.extracting /\ ui'.form = ui.form
        /\ ui'.deleting = ui.deleting /\ ui'.exporting = ui.exporting
    BY <1>1 DEF Extractions!ToggleAllExtractions, Extractions!ToggleExtraction,
                Extractions!Change, Extractions!States
  <2> QED
    BY <1>0, <2>1, PartsStay DEF ExtractInv
<1>2. ASSUME NEW then \in {"fetchAll", "delete extraction"}, NEW op, NEW arg, NEW kept,
             Fetch(then, op, arg, kept), ui'.extracting = ui.extracting,
             ui'.form = ui.form, ui'.deleting = ui.deleting, ui'.exporting = ui.exporting
      PROVE  ExtractInv'
  <2>1. then \notin Running
    BY DEF Running
  <2> QED
    BY <1>0, <1>2, <2>1, PartsFetch DEF ExtractInv
<1>3. ASSUME NEW r, Extractions!SetFilter(r)
      PROVE  ExtractInv'
  <2>1. /\ Fetch("fetchAll", "GET all", r, None) /\ ui' = [ui EXCEPT !.filter = r]
    BY <1>3, ExtractionsShared DEF Extractions!SetFilter, Extractions!FetchAll
  <2>2. /\ ui'.extracting = ui.extracting /\ ui'.form = ui.form
        /\ ui'.deleting = ui.deleting /\ ui'.exporting = ui.exporting
    BY <2>1 DEF Extractions!States
  <2> QED
    BY <1>2, <2>1, <2>2
<1>4. ASSUME NEW id, Extractions!HandleDeleteExtraction(id)
      PROVE  ExtractInv'
  <2>1. PICK arg : Fetch("delete extraction", "DELETE extractions", arg, ui.filter)
    BY <1>4, ExtractionsShared DEF Extractions!HandleDeleteExtraction
  <2>2. ui' = ui
    BY <1>4 DEF Extractions!HandleDeleteExtraction
  <2> QED
    BY <1>2, <2>1, <2>2
<1>5. CASE Extractions!HandleBulkDelete
  <2>1. /\ Fetch("bulk-delete", "DELETE extractions", ui.chosen, ui.filter)
        /\ ui' = [ui EXCEPT !.deleting = TRUE]
    BY <1>5, ExtractionsShared DEF Extractions!HandleBulkDelete
  <2>2. ui'.extracting = ui.extracting /\ ui'.form = ui.form /\ ui'.exporting = ui.exporting
    BY <2>1 DEF Extractions!States
  <2>3. Waiting("bulk-delete")' /\ "bulk-delete" \notin Running
    BY <1>0, <2>1, WaitBegins DEF Running
  <2>4. BinInv'
    BY <2>3 DEF BinInv
  <2> QED
    BY <1>0, <2>1, <2>2, <2>3, <2>4, PartsFetch DEF ExtractInv
<1>6. ASSUME NEW format, Extractions!HandleExport(format)
      PROVE  ExtractInv'
  <2>1. PICK arg : /\ Fetch("handleExport", "GET extractions/export", arg, None)
                   /\ ui' = [ui EXCEPT !.exporting = format]
    BY <1>6, ExtractionsShared DEF Extractions!HandleExport
  <2>2. ui'.extracting = ui.extracting /\ ui'.form = ui.form /\ ui'.deleting = ui.deleting
    BY <2>1 DEF Extractions!States
  <2>3. Waiting("handleExport")' /\ "handleExport" \notin Running
    BY <1>0, <2>1, WaitBegins DEF Running
  <2>4. FileInv'
    BY <2>3 DEF FileInv
  <2> QED
    BY <1>0, <2>1, <2>2, <2>3, <2>4, PartsFetch DEF ExtractInv
<1> QED
  BY <1>1, <1>3, <1>4, <1>5, <1>6 DEF Extractions!ClickResults

\* What a part of fetchAll's answers changes of the panel: the rows, and the
\* selection with them unless another listing is to be read first.
LEMMA TakenKeeps ==
    ASSUME NEW s \in Extractions!States, NEW d \in Everything, NEW filter
    PROVE  LET t == Extractions!Taken(s, d, filter)
           IN  /\ t.extracting = s.extracting /\ t.deleting = s.deleting
               /\ t.exporting = s.exporting /\ t.form = s.form
               /\ d.part \in {"templates", "docs"} => t.rows = s.rows /\ t.chosen = s.chosen
               /\ d.part = "rows" =>
                     /\ t.rows = d.rows
                     /\ \/ Extractions!ReadsAll(d, filter)
                        \/ t.chosen = s.chosen \cap IdsOf(d.rows)
               /\ d.part = "all" =>
                     t.rows = s.rows /\ t.chosen = s.chosen \cap IdsOf(d.rows)
<1>1. \A r : Extractions!IdsOf(r) = IdsOf(r)
  BY DEF Extractions!IdsOf, IdsOf
<1>2. d.part \in {"templates", "rows", "all", "docs"}
  BY DEF Everything, Listings
<1>3. CASE d.part = "templates"
  BY <1>3 DEF Extractions!Taken, Extractions!States
<1>4. CASE d.part = "rows"
  BY <1>1, <1>4 DEF Extractions!Taken, Extractions!Pruned, Extractions!States
<1>5. CASE d.part = "all"
  BY <1>1, <1>5 DEF Extractions!Taken, Extractions!Pruned, Extractions!States
<1>6. CASE d.part = "docs"
  BY <1>6 DEF Extractions!Taken, Extractions!States
<1> QED
  BY <1>2, <1>3, <1>4, <1>5, <1>6

\* The same of the code that has the last part.
LEMMA FetchAllKeeps ==
    ASSUME CallsOK, ui \in Extractions!States, NEW i \in DOMAIN calls,
           calls[i].op = "GET all"
    PROVE  LET t == Extractions!AfterFetchAll(i, ui)
           IN  /\ t \in Extractions!States
               /\ t.extracting = ui.extracting /\ t.deleting = ui.deleting
               /\ t.exporting = ui.exporting /\ t.form = ui.form
               /\ \/ ~Extractions!FetchAllEnds(i)
                  \/ t.rows = ui.rows /\ t.chosen \subseteq ui.chosen
                  \/ t.chosen = ui.chosen \cap IdsOf(t.rows)
<1> DEFINE d == calls[i].data
           filter == calls[i].arg
<1>1. CASE ~IsOk(i)
  <2>1. Extractions!AfterFetchAll(i, ui) = ui
    BY <1>1, ExtractionsShared DEF Extractions!AfterFetchAll
  <2> QED
    BY <2>1
<1>2. CASE IsOk(i)
  <2>1. Extractions!AfterFetchAll(i, ui) = Extractions!Taken(ui, d, filter)
    BY <1>2, ExtractionsShared DEF Extractions!AfterFetchAll
  <2>2. d \in Everything
    BY <1>2 DEF CallsOK, GoodCalls, IsFetch, AnswerFits, IsOk
  <2>3. d.part = "rows" /\ Extractions!ReadsAll(d, filter)
          => ~Extractions!FetchAllEnds(i)
    BY <1>2, ExtractionsShared DEF Extractions!FetchAllEnds, Extractions!NextPart
  <2>4. d.part \in {"templates", "rows", "all", "docs"}
    BY <2>2 DEF Everything, Listings
  <2> HIDE DEF d, filter
  <2>5. Extractions!Taken(ui, d, filter) \in Extractions!States
    BY <2>2, TakenTyped
  <2> DEFINE t == Extractions!Taken(ui, d, filter)
  <2>6. /\ t.extracting = ui.extracting /\ t.deleting = ui.deleting
        /\ t.exporting = ui.exporting /\ t.form = ui.form
    BY <2>2, TakenKeeps
  <2>7. CASE d.part \in {"templates", "docs"}
    <3>1. t.rows = ui.rows /\ t.chosen = ui.chosen
      BY <2>2, <2>7, TakenKeeps
    <3> HIDE DEF t
    <3> QED
      BY <2>1, <2>5, <2>6, <3>1 DEF t
  <2>8. CASE d.part = "rows"
    <3>1. \/ ~Extractions!FetchAllEnds(i)
          \/ t.rows = d.rows /\ t.chosen = ui.chosen \cap IdsOf(d.rows)
      BY <2>2, <2>3, <2>8, TakenKeeps
    <3> QED
      BY <2>1, <2>5, <2>6, <3>1
  <2>9. CASE d.part = "all"
    <3>1. t.rows = ui.rows /\ t.chosen \subseteq ui.chosen
      BY <2>2, <2>9, TakenKeeps
    <3> QED
      BY <2>1, <2>5, <2>6, <3>1
  <2> QED
    BY <2>4, <2>7, <2>8, <2>9
<1> QED
  BY <1>1, <1>2

\* The end of a run: two requests where there was one.
LEMMA MovedLoop ==
    ASSUME CallsOK, NEW i \in DOMAIN calls, NEW c, NEW d, c # d,
           calls' = [calls EXCEPT ![i] = c] \o <<d>>
    PROVE  Moved({i}, {c, d}) /\ i \in DOMAIN calls' /\ calls'[i] = c
<1> DEFINE f == [j \in DOMAIN calls \ {i} |-> j]
           s == [calls EXCEPT ![i] = c]
<1>1. /\ IsSeq(s) /\ DOMAIN s = DOMAIN calls /\ Len(s) = Len(calls)
      /\ \A k \in DOMAIN calls : s[k] = IF k = i THEN c ELSE calls[k]
  BY SeqReplaced DEF CallsOK, GoodCalls
<1>2. IsSeq(<<d>>) /\ DOMAIN <<d>> = {1} /\ <<d>>[1] = d /\ Len(<<d>>) = 1
  BY SeqShort, SeqFacts
<1> HIDE DEF s
<1>3. /\ DOMAIN (s \o <<d>>) = 1 .. Len(s) + 1
      /\ \A k \in DOMAIN (s \o <<d>>) :
            (s \o <<d>>)[k] = IF k \in DOMAIN s THEN s[k] ELSE <<d>>[k - Len(s)]
  BY <1>1, <1>2, SeqJoined, SeqFacts
<1>4. Len(s) \in Nat /\ DOMAIN s = 1 .. Len(s)
  BY <1>1, SeqFacts
<1>5. \A k \in DOMAIN calls' : \/ k = i /\ calls'[k] = c
                               \/ k \in DOMAIN calls \ {i} /\ calls'[k] = calls[k]
                               \/ k = Len(s) + 1 /\ calls'[k] = d
  BY <1>1, <1>2, <1>3, <1>4 DEF s
<1>6. \A k \in DOMAIN calls : k \in DOMAIN calls' /\ k # Len(s) + 1
  BY <1>1, <1>3, <1>4 DEF s
<1>7. /\ f \in [DOMAIN calls \ {i} -> DOMAIN calls']
      /\ \A j \in DOMAIN calls \ {i} : f[j] = j /\ calls'[f[j]] = calls[j]
  BY <1>5, <1>6
<1> HIDE DEF f
<1>8. Traces(f, {i}, {c, d})
  BY <1>5, <1>7 DEF Traces, Same
<1> QED
  BY <1>5, <1>6, <1>8 DEF Moved

\* The run goes on in its last request, and nothing else of it is left.
LEMMA LoopStep ==
    ASSUME CallsOK, mount' = mount, NEW i \in Own, Extractions!LoopEnds(i),
           ui \in Extractions!States, Lone(Running)
    PROVE  /\ \A j \in Own : calls[j].then # "handleExtract" =>
                 \E k \in DOMAIN calls' : Same(calls[j], calls'[k])
           /\ Lone(Running)' /\ ~Idle(Running)'
           /\ ui' = [ui EXCEPT !.filter = None] /\ calls[i].then = "handleExtract"
           /\ \A k \in Own' : \/ \E j \in Own \ {i} : Same(calls[j], calls'[k])
                              \/ calls'[k].then = "fetchAll"
                              \/ calls'[k].then = "handleExtract: fetchAll"
<1> DEFINE c == Call(calls[i].by, "handleExtract: fetchAll", "GET all",
                     calls[i].kept.filter, Extractions!After(i))
           d == Call(mount, "fetchAll", "GET all", None, None)
<1>1. /\ c.by = mount /\ c.then = "handleExtract: fetchAll" /\ d.then = "fetchAll"
      /\ c.then \in Running /\ d.then \notin Running
  BY DEF Own, Call, Running
<1>2. /\ calls[i].then = "handleExtract" /\ calls[i].then \in Running
      /\ ui' = [ui EXCEPT !.filter = None] /\ i \in DOMAIN calls
  BY ExtractionsShared, OwnState DEF Extractions!LoopEnds, Awaited, Running, Own
<1>3. \/ calls' = [calls EXCEPT ![i] = c] \o <<d>>
      \/ calls' = [calls EXCEPT ![i] = c] \o << >>
  BY DEF Extractions!LoopEnds, Extractions!Call, Call, Extractions!Effect
<1> HIDE DEF c, d
<1>4. \E new : /\ Moved({i}, new) /\ c \in new /\ \A e \in new : e = c \/ e = d
               /\ calls'[i] = c /\ i \in DOMAIN calls'
  <2>1. CASE calls' = [calls EXCEPT ![i] = c] \o <<d>>
    <3>1. Moved({i}, {c, d}) /\ i \in DOMAIN calls' /\ calls'[i] = c
      BY <1>1, <1>2, <2>1, MovedLoop
    <3> QED
      BY <3>1
  <2>2. CASE calls' = [calls EXCEPT ![i] = c] \o << >>
    <3>1. \E S : [calls EXCEPT ![i] = c] \in Seq(S)
      BY <1>2, SeqReplaced DEF CallsOK, GoodCalls, IsSeq
    <3>2. calls' = [calls EXCEPT ![i] = c]
      BY <2>2, <3>1
    <3>3. Moved({i}, {c})
      BY <1>2, <3>2, MovedReplaced
    <3>4. i \in DOMAIN calls' /\ calls'[i] = c
      BY <1>2, <3>2, SeqReplaced DEF CallsOK, GoodCalls
    <3> QED
      BY <3>3, <3>4
  <2> QED
    BY <1>3, <2>1, <2>2
<1>5. PICK new : /\ Moved({i}, new) /\ c \in new /\ \A e \in new : e = c \/ e = d
                 /\ calls'[i] = c /\ i \in DOMAIN calls'
  BY <1>4
<1>6. \A e, g \in new : e.then \in Running /\ g.then \in Running => e = g
  BY <1>1, <1>5
<1>7. \A j \in Own \ {i} : calls[j].then \notin Running
  BY <1>2 DEF Lone
<1>8. Lone(Running)'
  BY <1>5, <1>6, <1>7, LoneKept
<1>9. ~Idle(Running)'
  BY <1>1, <1>5 DEF Idle, Own
<1>10. /\ \A j \in DOMAIN calls \ {i} : \E k \in DOMAIN calls' : Same(calls[j], calls'[k])
       /\ \A k \in DOMAIN calls' : calls'[k] \in new \/
             \E j \in DOMAIN calls \ {i} : Same(calls[j], calls'[k])
  BY <1>5, MovedOwn
<1>11. \A j \in Own : calls[j].then # "handleExtract" =>
         \E k \in DOMAIN calls' : Same(calls[j], calls'[k])
  BY <1>2, <1>10 DEF Own
<1>12. \A k \in Own' : \/ \E j \in Own \ {i} : Same(calls[j], calls'[k])
                       \/ calls'[k].then = "fetchAll"
                       \/ calls'[k].then = "handleExtract: fetchAll"
  <2>1. \A e \in new : e.then = "fetchAll" \/ e.then = "handleExtract: fetchAll"
    BY <1>1, <1>5
  <2>2. \A k \in Own' : calls'[k] \in new \/ \E j \in Own \ {i} : Same(calls[j], calls'[k])
    BY <1>10 DEF Own, Same
  <2> QED
    BY <2>1, <2>2
<1> QED
  BY <1>2, <1>8, <1>9, <1>11, <1>12

\* Every answer to the extractions panel keeps its four parts.
LEMMA ExtractContinueStep ==
    ASSUME CallsOK, ui \in Extractions!States, Stays, ExtractInv,
           NEW i \in Own, Extractions!Continue(i)
    PROVE  ExtractInv'
<1>0. /\ mount' = mount /\ Lone(Running)
      /\ "handleExtract" \in Running /\ "handleExtract: fetchAll" \in Running
      /\ {"fetchAll", "bulk-delete", "bulk-delete: fetchAll", "delete extraction",
          "delete template", "handleExport", "TemplateForm"} \cap Running = {}
  BY DEF Stays, ExtractInv, RunInv, Running
<1>1. calls[i].then \in {"fetchAll", "handleExtract: fetchAll", "bulk-delete: fetchAll"}
        => LET t == Extractions!AfterFetchAll(i, ui)
           IN  /\ t \in Extractions!States
               /\ t.extracting = ui.extracting /\ t.deleting = ui.deleting
               /\ t.exporting = ui.exporting /\ t.form = ui.form
  BY FetchAllKeeps DEF Own, CallsOK, GoodCalls, IsFetch, OpFits
<1>1a. ui'.extracting \in BOOLEAN
  BY ExtractionsContinue, Typed DEF Own, Stays, Extractions!States
<1>2. CASE Extractions!FetchAllDone(i)
  <2>1. /\ Return(i) /\ calls[i].then = "fetchAll"
        /\ ui' = Extractions!AfterFetchAll(i, ui)
    BY <1>2, ExtractionsShared, OwnState DEF Extractions!FetchAllDone, Awaited
  <2> QED
    BY <1>0, <1>1, <2>1, PartsReturn DEF ExtractInv
<1>3. CASE Extractions!NextDoc(i)
  <2>1. /\ calls[i].then = "handleExtract" /\ ui' = ui
        /\ \E arg, kept : ThenFetch(i, "handleExtract", "POST extract", arg, kept)
    BY <1>3, ExtractionsShared DEF Extractions!NextDoc, Awaited
  <2>2. Lone(Running)'
    BY <1>0, <2>1, LoneThen
  <2>3. Waiting("handleExtract")'
    BY <1>0, <2>1, WaitGoesOn
  <2>4. ui.extracting
    BY <1>0, <2>1 DEF ExtractInv, RunInv, Idle
  <2>5. RunInv'
    BY <1>0, <2>1, <2>2, <2>3, <2>4 DEF RunInv, Idle, Waiting
  <2> QED
    BY <1>0, <2>1, <2>5, PartsThen DEF ExtractInv
<1>4. CASE Extractions!LoopEnds(i)
  <2> DEFINE gone == {"handleExtract"}
  <2>1. /\ \A j \in Own : calls[j].then \notin gone =>
              \E k \in DOMAIN calls' : Same(calls[j], calls'[k])
        /\ Lone(Running)' /\ ~Idle(Running)'
        /\ ui' = [ui EXCEPT !.filter = None] /\ calls[i].then = "handleExtract"
    BY <1>0, <1>4, LoopStep
  <2>2. /\ ui'.extracting = ui.extracting /\ ui'.form = ui.form
        /\ ui'.deleting = ui.deleting /\ ui'.exporting = ui.exporting
    BY <2>1 DEF Extractions!States
  <2>3. ui.extracting
    BY <1>0, <2>1 DEF ExtractInv, RunInv, Idle
  <2>4. RunInv'
    BY <2>1, <2>2, <2>3 DEF RunInv
  <2>5. /\ {"bulk-delete", "bulk-delete: fetchAll"} \cap gone = {}
        /\ "handleExport" \notin gone /\ "TemplateForm" \notin gone
    OBVIOUS
  <2> HIDE DEF gone
  <2> QED
    BY <1>0, <2>1, <2>2, <2>4, <2>5, PartsKept DEF ExtractInv
<1>5. CASE Extractions!RunDone(i)
  <2>1. Return(i) /\ calls[i].then = "handleExtract: fetchAll"
    BY <1>5, ExtractionsShared DEF Extractions!RunDone, Awaited
  <2>2. \E picked, chosen, notice :
           \/ ui' = [Extractions!AfterFetchAll(i, ui) EXCEPT
                       !.picked = picked, !.chosen = chosen, !.extracting = FALSE,
                       !.notice = notice]
           \/ ui' = [ui EXCEPT !.extracting = FALSE]
    BY <1>5, ExtractionsShared, OwnState DEF Extractions!RunDone
  <2>4. /\ ui'.extracting = FALSE /\ ui'.form = ui.form
        /\ ui'.deleting = ui.deleting /\ ui'.exporting = ui.exporting
    BY <1>1, <2>1, <2>2 DEF Extractions!States
  <2>5. Lone(Running)' /\ Idle(Running)'
    BY <1>0, <2>1, LoneReturn
  <2>6. RunInv'
    BY <2>4, <2>5 DEF RunInv
  <2> QED
    BY <1>0, <2>1, <2>4, <2>6, PartsReturn DEF ExtractInv
<1>6. CASE Extractions!BulkDeleted(i)
  <2>0. calls[i].then = "bulk-delete"
    BY <1>6, ExtractionsShared DEF Extractions!BulkDeleted, Awaited
  <2>1. CASE calls[i].state = "lost"
    <3>1. Return(i) /\ ui' = [ui EXCEPT !.deleting = FALSE]
      BY <1>6, <2>1, ExtractionsShared, OwnState DEF Extractions!BulkDeleted
    <3>2. /\ ui'.extracting = ui.extracting /\ ui'.form = ui.form
          /\ ui'.deleting = FALSE /\ ui'.exporting = ui.exporting
      BY <3>1 DEF Extractions!States
    <3> QED
      BY <1>0, <2>0, <3>1, <3>2, PartsReturn DEF ExtractInv, BinInv
  <2>2. CASE calls[i].state # "lost"
    <3>1. /\ ThenFetch(i, "bulk-delete: fetchAll", "GET all", calls[i].kept, None)
          /\ ui' = [ui EXCEPT !.chosen = {}]
      BY <1>6, <2>2, ExtractionsShared, OwnState DEF Extractions!BulkDeleted
    <3>2. /\ ui'.extracting = ui.extracting /\ ui'.form = ui.form
          /\ ui'.exporting = ui.exporting
      BY <3>1 DEF Extractions!States
    <3>3. Waiting("bulk-delete: fetchAll")'
      BY <1>0, <3>1, WaitGoesOn
    <3>4. BinInv'
      BY <3>3 DEF BinInv
    <3> QED
      BY <1>0, <2>0, <3>1, <3>2, <3>3, <3>4, PartsThen DEF ExtractInv
  <2> QED
    BY <2>1, <2>2
<1>7. CASE Extractions!BulkDeleteDone(i)
  <2>1. /\ Return(i) /\ calls[i].then = "bulk-delete: fetchAll"
        /\ ui' = [Extractions!AfterFetchAll(i, ui) EXCEPT !.deleting = FALSE]
    BY <1>7, ExtractionsShared, OwnState DEF Extractions!BulkDeleteDone, Awaited
  <2>2. /\ ui'.extracting = ui.extracting /\ ui'.form = ui.form
        /\ ui'.deleting = FALSE /\ ui'.exporting = ui.exporting
    BY <1>1, <2>1 DEF Extractions!States
  <2> QED
    BY <1>0, <2>1, <2>2, PartsReturn DEF ExtractInv, BinInv
<1>8. ASSUME NEW kept,
             calls[i].then = "delete extraction" \/ calls[i].then = "delete template",
             ThenFetch(i, "fetchAll", "GET all", kept, None),
             ui'.extracting = ui.extracting, ui'.form = ui.form,
             ui'.deleting = ui.deleting, ui'.exporting = ui.exporting
      PROVE  ExtractInv'
  <2>1. \/ calls[i].then = "delete extraction"
        \/ calls[i].then = "delete template"
    BY <1>8
  <2>2. calls[i].then \notin Running /\ "fetchAll" \notin Running
    BY <1>0, <2>1
  <2>3. RunInv' /\ BinInv' /\ FileInv' /\ FormInv'
    BY <1>0, <1>8, <2>1, <2>2, PartsThen
  <2> QED
    BY <2>3 DEF ExtractInv
<1>9. CASE Extractions!ExtractionDeleted(i)
  <2>1. /\ ui' = ui /\ calls[i].then = "delete extraction"
        /\ Return(i) \/ \E kept : ThenFetch(i, "fetchAll", "GET all", kept, None)
    BY <1>9, ExtractionsShared DEF Extractions!ExtractionDeleted, Awaited
  <2>2. CASE Return(i)
    BY <1>0, <2>1, <2>2, PartsReturn DEF ExtractInv
  <2>3. /\ ui'.extracting = ui.extracting /\ ui'.form = ui.form
        /\ ui'.deleting = ui.deleting /\ ui'.exporting = ui.exporting
    BY <2>1
  <2>4. ASSUME NEW kept, ThenFetch(i, "fetchAll", "GET all", kept, None)
        PROVE  ExtractInv'
    BY <1>8, <2>1, <2>3, <2>4
  <2> QED
    BY <2>1, <2>2, <2>4
<1>10. CASE Extractions!TemplateDeleted(i)
  <2>1. /\ calls[i].then = "delete template"
        /\ ui' = ui \/ ui' = [ui EXCEPT !.template = None]
        /\ Return(i) \/ \E kept : ThenFetch(i, "fetchAll", "GET all", kept, None)
    BY <1>10, ExtractionsShared, OwnState DEF Extractions!TemplateDeleted, Awaited
  <2>2. /\ ui'.extracting = ui.extracting /\ ui'.form = ui.form
        /\ ui'.deleting = ui.deleting /\ ui'.exporting = ui.exporting
    BY <2>1 DEF Extractions!States
  <2>3. CASE Return(i)
    BY <1>0, <2>1, <2>2, <2>3, PartsReturn DEF ExtractInv
  <2>4. ASSUME NEW kept, ThenFetch(i, "fetchAll", "GET all", kept, None)
        PROVE  ExtractInv'
    BY <1>8, <2>1, <2>2, <2>4
  <2> QED
    BY <2>1, <2>3, <2>4
<1>11. CASE Extractions!ExportDone(i)
  <2>1. /\ Return(i) /\ calls[i].then = "handleExport"
        /\ ui' = [ui EXCEPT !.exporting = None]
    BY <1>11, ExtractionsShared, OwnState DEF Extractions!ExportDone, Awaited
  <2>2. /\ ui'.extracting = ui.extracting /\ ui'.form = ui.form
        /\ ui'.deleting = ui.deleting /\ ui'.exporting = None
    BY <2>1 DEF Extractions!States
  <2> QED
    BY <1>0, <2>1, <2>2, PartsReturn DEF ExtractInv, FileInv
<1>12. CASE Extractions!FormSaved(i)
  <2>0. calls[i].then = "TemplateForm"
    BY <1>12, ExtractionsShared DEF Extractions!FormSaved, Awaited
  <2>1. CASE IsOk(i)
    <3>1. /\ \E kept : ThenFetch(i, "fetchAll", "GET all", kept, None)
          /\ ui' = [ui EXCEPT !.form = None]
      BY <1>12, <2>1, ExtractionsShared, OwnState DEF Extractions!FormSaved
    <3>2. /\ ui'.extracting = ui.extracting /\ ui'.form = None
          /\ ui'.deleting = ui.deleting /\ ui'.exporting = ui.exporting
      BY <3>1 DEF Extractions!States
    <3>3. FormInv'
      BY <3>2 DEF FormInv
    <3> QED
      BY <1>0, <2>0, <3>1, <3>2, <3>3, PartsThen DEF ExtractInv
  <2>2. CASE ~IsOk(i)
    <3>1. /\ Return(i)
          /\ ui' = IF ui.form = None \/ ui.form.no # calls[i].kept.no
                   THEN ui ELSE [ui EXCEPT !.form.saving = FALSE]
      BY <1>12, <2>2, ExtractionsShared, OwnState DEF Extractions!FormSaved
    <3>2. /\ ui'.extracting = ui.extracting
          /\ ui'.deleting = ui.deleting /\ ui'.exporting = ui.exporting
      BY <3>1 DEF Extractions!States
    <3>3. CASE ui.form = None \/ ui.form.no # calls[i].kept.no
      <4>1. \A j \in Own \ {i} : \E k \in DOMAIN calls' : Same(calls[j], calls'[k])
        BY <1>0, <3>1, WaitEnds
      <4>2. ASSUME ui.form # None, ui.form.saving
            PROVE  \E k \in Own' : /\ calls'[k].then = "TemplateForm"
                                   /\ calls'[k].kept.no = ui.form.no
        <5>1. PICK j \in Own : calls[j].then = "TemplateForm" /\ calls[j].kept.no = ui.form.no
          BY <4>2 DEF ExtractInv, FormInv
        <5>2. PICK k \in DOMAIN calls' : Same(calls[j], calls'[k])
          BY <3>3, <4>1, <4>2, <5>1
        <5> QED
          BY <1>0, <5>1, <5>2 DEF Own, Same
      <4>3. ui' = ui
        BY <3>1, <3>3
      <4>4. FormInv'
        BY <4>2, <4>3 DEF FormInv
      <4> QED
        BY <1>0, <2>0, <3>1, <3>2, <4>4, PartsReturn DEF ExtractInv
    <3>4. CASE ~(ui.form = None \/ ui.form.no # calls[i].kept.no)
      <4>1. ui.form \in Extractions!AnyForm
        BY <3>4 DEF Extractions!States
      <4>2. ui'.form = [ui.form EXCEPT !.saving = FALSE]
        BY <3>1, <3>4 DEF Extractions!States
      <4>3. ui'.form.saving = FALSE
        BY <4>1, <4>2 DEF Extractions!AnyForm
      <4>4. FormInv'
        BY <4>3 DEF FormInv
      <4> QED
        BY <1>0, <2>0, <3>1, <3>2, <4>4, PartsReturn DEF ExtractInv
    <3> QED
      BY <3>3, <3>4
  <2> QED
    BY <2>1, <2>2
<1>13. CASE Extractions!ReadOn(i)
  <2> DEFINE gone == {}
  <2>1. /\ Reads(i) /\ calls[i].data \in Everything
        /\ ui' = Extractions!Taken(ui, calls[i].data, calls[i].arg)
    BY <1>13, ReadOnReads, OwnState DEF Reads, Own
  <2>2. /\ ui'.extracting = ui.extracting /\ ui'.form = ui.form
        /\ ui'.deleting = ui.deleting /\ ui'.exporting = ui.exporting
    BY <2>1, TakenKeeps
  <2>3. Moved({}, {})
    BY <2>1, MovedReads DEF Own
  <2>4. \A j \in Own : calls[j].then \notin gone =>
           \E k \in DOMAIN calls' : Same(calls[j], calls'[k])
    BY <2>1, ReadsLeave DEF Own
  <2>5. Lone(Running)'
    BY <1>0, <2>3, LoneKept
  <2>6. Idle(Running) => Idle(Running)'
    BY <1>0, <2>1, ReadsLeave DEF Idle, Own, Same
  <2>7. \A t : t \notin gone
    OBVIOUS
  <2> HIDE DEF gone
  <2> QED
    BY <1>0, <2>2, <2>4, <2>5, <2>6, <2>7, PartsKept DEF ExtractInv
<1> QED
  BY <1>2, <1>3, <1>4, <1>5, <1>6, <1>7, <1>9, <1>10, <1>11, <1>12, <1>13
     DEF Extractions!Continue

-----------------------------------------------------------------------------
(* The invariant of whatever is mounted. *)

DashInv  == token # None => Waiting("dashboard")
LoginInv == ui.loading => Waiting("handleSubmit")

PanelInv ==
    /\ ui.view = "documents" => ListInv
    /\ ui.view = "viewer"    => ViewerInv
    /\ ui.view = "search"    => SearchInv
    /\ ui.view = "extract"   => ExtractInv
    /\ ui.view = "compare"   => CompareInv
    /\ ui.view = "ai"        => ChatInv
    /\ ui.view = "team"      => TeamInv
    /\ ui.view = "admin"     => AdminInv
    /\ ui.view = "dashboard" => DashInv
    /\ ui.view \in {"login", "register"} => LoginInv

\* A quiet step keeps what is true of the mounted panel.
LEMMA PanelQuiet ==
    ASSUME Quiet, PanelInv
    PROVE  PanelInv'
<1>1. /\ mount' = mount /\ ui' = ui /\ token' = token
      /\ \A then : Waiting(then) => Waiting(then)'
      /\ \A k \in DOMAIN calls' : calls'[k].by = mount =>
            \/ calls'[k].then = "handleLogout"
            \/ calls'[k].then = "fetchDocs" /\ ui.view = "documents"
            \/ \E j \in Own : Same(calls[j], calls'[k])
      /\ \A j \in Own : \E k \in DOMAIN calls' : Same(calls[j], calls'[k])
      /\ \A R : Lone(R) /\ R \cap {"handleLogout", "fetchDocs"} = {} => Lone(R)'
  BY QuietKeeps
<1>2. ASSUME NEW R, "handleLogout" \notin R, "fetchDocs" \notin R
      PROVE  (Idle(R) <=> Idle(R)') /\ (Lone(R) => Lone(R)')
  <2>1. Idle(R) => Idle(R)'
    BY <1>1, <1>2 DEF Idle, Own, Same
  <2>2. Idle(R)' => Idle(R)
    BY <1>1 DEF Idle, Own, Same
  <2>3. R \cap {"handleLogout", "fetchDocs"} = {}
    BY <1>2
  <2> QED
    BY <1>1, <2>1, <2>2, <2>3
<1>3. ListInv => ListInv'
  BY <1>1 DEF ListInv
<1>4. ui.view = "viewer" /\ ViewerInv => ViewerInv'
  <2> SUFFICES ASSUME ui.view = "viewer", ViewerInv PROVE ViewerInv'
    OBVIOUS
  <2>1. \A k \in Own' : /\ calls'[k].then = "viewer" => calls'[k].arg = ui.doc
                        /\ calls'[k].then = "DocAiPanel" => calls'[k].arg.doc = ui.doc
    BY <1>1 DEF ViewerInv, Own, Same
  <2> QED
    BY <1>1, <2>1 DEF ViewerInv
<1>5. SearchInv => SearchInv'
  BY <1>1 DEF SearchInv
<1>6. ExtractInv => ExtractInv'
  <2> SUFFICES ASSUME ExtractInv PROVE ExtractInv'
    OBVIOUS
  <2>1. "handleLogout" \notin Running /\ "fetchDocs" \notin Running
    BY DEF Running
  <2>2. RunInv'
    BY <1>1, <1>2, <2>1 DEF ExtractInv, RunInv
  <2>3. BinInv' /\ FileInv'
    BY <1>1 DEF ExtractInv, BinInv, FileInv
  <2>4. FormInv'
    BY <1>1 DEF ExtractInv, FormInv, Own, Same
  <2> QED
    BY <2>2, <2>3, <2>4 DEF ExtractInv
<1>7. CompareInv => CompareInv'
  <2>1. "handleLogout" \notin Comparing /\ "fetchDocs" \notin Comparing
    BY DEF Comparing
  <2>2. (Idle(Comparing) => Idle(Comparing)') /\ (Lone(Comparing) => Lone(Comparing)')
    BY <1>2, <2>1
  <2> QED
    BY <1>1, <2>2 DEF CompareInv
<1>8. (ChatInv => ChatInv') /\ (TeamInv => TeamInv')
  BY <1>1 DEF ChatInv, TeamInv
<1>9. (AdminInv => AdminInv') /\ (DashInv => DashInv') /\ (LoginInv => LoginInv')
  BY <1>1 DEF AdminInv, DashInv, LoginInv
<1> QED
  BY <1>1, <1>3, <1>4, <1>5, <1>6, <1>7, <1>8, <1>9 DEF PanelInv

\* The mounted panel is new, and waits for its first request.
Begins ==
    \E c : /\ ui.view \in Panels \cup {"viewer"}
           /\ ui = IF ui.view = "viewer" THEN Viewer!Fresh(c.arg)
                   ELSE FreshOf(ui.view, user)
           /\ c.then = IF ui.view = "viewer" THEN "viewer" ELSE FirstThen[ui.view]
           /\ \E k \in Own : calls[k] = c
           /\ \A k \in Own : calls[k] = c

\* It is true of a panel that has just been mounted.
LEMMA PanelBegins == Begins => PanelInv
<1> SUFFICES ASSUME Begins PROVE PanelInv
  OBVIOUS
<1>1. PICK c : /\ ui.view \in Panels \cup {"viewer"}
               /\ ui = IF ui.view = "viewer" THEN Viewer!Fresh(c.arg)
                       ELSE FreshOf(ui.view, user)
               /\ c.then = IF ui.view = "viewer" THEN "viewer" ELSE FirstThen[ui.view]
               /\ \E k \in Own : calls[k] = c
               /\ \A k \in Own : calls[k] = c
  BY DEF Begins
<1>2. Waiting(c.then) /\ \A R : /\ Lone(R) \/ c.then \in R
                                /\ c.then \notin R => Idle(R)
  BY <1>1 DEF Waiting, Lone, Idle
<1>3. CASE ui.view = "documents"
  <2>1. c.then = "fetchDocs" /\ ui.action = None
    BY <1>1, <1>3 DEF FreshOf, List!Fresh, FirstThen
  <2> QED
    BY <1>2, <1>3, <2>1 DEF PanelInv, ListInv
<1>4. CASE ui.view = "viewer"
  <2>1. /\ c.then = "viewer" /\ ui.doc = c.arg /\ ~ui.asking /\ ~ui.exporting
        /\ ui.detail = None /\ ui.answer = None
    BY <1>1, <1>4 DEF Viewer!Fresh
  <2>2. \A i \in Own : /\ calls[i].then = "viewer" => calls[i].arg = ui.doc
                       /\ calls[i].then = "DocAiPanel" => calls[i].arg.doc = ui.doc
    BY <1>1, <2>1
  <2> QED
    BY <1>2, <1>4, <2>1, <2>2 DEF PanelInv, ViewerInv
<1>5. CASE ui.view = "search"
  <2>1. ~ui.loading /\ ui.expanded = {}
    BY <1>1, <1>5 DEF FreshOf, SearchPanel!Fresh
  <2> QED
    BY <1>5, <2>1 DEF PanelInv, SearchInv
<1>6. CASE ui.view = "extract"
  <2>1. /\ c.then = "fetchAll" /\ ~ui.extracting /\ ~ui.deleting
        /\ ui.exporting = None /\ ui.form = None
    BY <1>1, <1>6 DEF FreshOf, Extractions!Fresh, FirstThen
  <2>2. c.then \notin Running
    BY <2>1 DEF Running
  <2>3. Idle(Running) /\ Lone(Running)
    BY <1>2, <2>2 DEF Lone, Idle
  <2>4. RunInv /\ BinInv /\ FileInv /\ FormInv
    BY <2>1, <2>3 DEF RunInv, BinInv, FileInv, FormInv
  <2> QED
    BY <1>6, <2>4 DEF PanelInv, ExtractInv
<1>7. CASE ui.view = "compare"
  <2>0. c.then = "compare: documents"
    <3>1. c.then = FirstThen["compare"]
      BY <1>1, <1>7
    <3> QED
      BY <3>1 DEF FirstThen
  <2>00. ui = Comparison!Fresh
    BY <1>1, <1>7 DEF FreshOf
  <2>1. ~ui.loading
    BY <2>00 DEF Comparison!Fresh
  <2>2. c.then \notin Comparing
    BY <2>0 DEF Comparing
  <2>3. Idle(Comparing) /\ Lone(Comparing)
    BY <1>2, <2>2 DEF Lone, Idle
  <2> QED
    BY <1>7, <2>1, <2>3 DEF PanelInv, CompareInv
<1>8. CASE ui.view = "ai"
  BY <1>1, <1>8 DEF FreshOf, Chat!Fresh, PanelInv, ChatInv
<1>9. CASE ui.view = "team"
  <2>1. ui = Team!Fresh(user)
    BY <1>1, <1>9 DEF FreshOf
  <2>2. ui.creating = FALSE
    BY <2>1 DEF Team!Fresh
  <2> QED
    BY <1>9, <2>2 DEF PanelInv, TeamInv
<1> QED
  BY <1>1, <1>3, <1>4, <1>5, <1>6, <1>7, <1>8, <1>9 DEF Panels

\* So it is after a step that opens one.
LEMMA PanelOpens ==
    ASSUME Opens
    PROVE  PanelInv'
<1>1. Begins'
  <2> DEFINE First(view, c) ==
           /\ mount' = mount + 1 /\ ui'.view = view
           /\ ui' = IF view = "viewer" THEN Viewer!Fresh(c.arg) ELSE FreshOf(view, user')
           /\ c.by = mount'
           /\ c.then = IF view = "viewer" THEN "viewer" ELSE FirstThen[view]
           /\ \E k \in DOMAIN calls' : calls'[k] = c
           /\ \A k \in DOMAIN calls' : calls'[k].by = mount' => calls'[k] = c
  <2>0. PICK view \in Panels \cup {"viewer"} : \E c : First(view, c)
    BY DEF Opens
  <2>1. PICK c : First(view, c)
    BY <2>0
  <2>2. (\E k \in Own' : calls'[k] = c) /\ (\A k \in Own' : calls'[k] = c)
    BY <2>1 DEF Own
  <2> QED
    BY <2>1, <2>2 DEF Begins
<1> QED
  BY <1>1, PanelBegins, PTL

\* So it is after a step that loads a page.
LEMMA PanelLoads ==
    ASSUME TabInv, TabInv', Loads
    PROVE  PanelInv'
<1>1. /\ ui'.view \in {"dashboard", "login", "register", "admin"}
      /\ ui' = FreshOf(ui'.view, None)
      /\ ui'.view = "dashboard" /\ token' # None => Waiting("dashboard")'
      /\ ui'.view = "admin" /\ token' # None => Waiting("admin: loadOrgs")'
  BY LoadsFresh
<1>2. CASE ui'.view \in {"login", "register"}
  <2>1. CASE ui'.view = "login"
    <3>1. ui' = Page("login")
      BY <1>1, <2>1 DEF FreshOf
    <3> QED
      BY <2>1, <3>1 DEF Page, PanelInv, LoginInv
  <2>2. CASE ui'.view = "register"
    <3>1. ui' = Page("register")
      BY <1>1, <2>2 DEF FreshOf
    <3> QED
      BY <2>2, <3>1 DEF Page, PanelInv, LoginInv
  <2> QED
    BY <1>2, <2>1, <2>2
<1>3. CASE ui'.view = "dashboard"
  BY <1>1, <1>3 DEF PanelInv, DashInv
<1>4. CASE ui'.view = "admin"
  BY <1>1, <1>4 DEF PanelInv, AdminInv
<1> QED
  BY <1>1, <1>2, <1>3, <1>4

\* Every click keeps it.
LEMMA PanelClicks ==
    ASSUME TabInv, ClickPanel, PanelInv
    PROVE  PanelInv'
<1>1. /\ Stays /\ ui.view \in Panels \cup {"viewer", "admin"}
      /\ ui.view = "documents" => List!Click
      /\ ui.view = "viewer" => Viewer!Click
      /\ ui.view = "search" => SearchPanel!Click
      /\ ui.view = "ai" => Chat!Click
      /\ ui.view = "compare" => Comparison!Click
      /\ ui.view = "extract" => Extractions!ClickForm \/ Extractions!ClickRun
                                \/ Extractions!ClickResults
      /\ ui.view = "team" => Team!Click
      /\ ui.view = "admin" => AdminPanel!Click
  BY ClickView
<1>2. CallsOK /\ UiOK(ui) /\ Managed /\ ui'.view = ui.view
  BY <1>1 DEF TabInv, Stays
<1>3. ui.view = "documents" => ListInv'
  BY <1>1, <1>2, ListStep, Typed DEF PanelInv
<1>4. ui.view = "viewer" => ViewerInv'
  BY <1>1, <1>2, ViewerStep, Typed DEF PanelInv
<1>5. ui.view = "search" => SearchInv'
  BY <1>1, <1>2, SearchStep, Typed DEF PanelInv
<1>6. ui.view = "ai" => ChatInv'
  BY <1>1, <1>2, ChatStep, Typed DEF PanelInv
<1>7. ui.view = "compare" => CompareInv'
  BY <1>1, <1>2, CompareStep, Typed DEF PanelInv
<1>8. ui.view = "extract" => ExtractInv'
  BY <1>1, <1>2, FormClickStep, RunClickStep, ResultsClickStep, Typed DEF PanelInv
<1>9. ui.view = "team" => TeamInv'
  BY <1>1, <1>2, TeamStep, Typed DEF PanelInv
<1>10. ui.view = "admin" => AdminInv'
  BY <1>1, <1>2, AdminStep, Typed DEF PanelInv
<1>11. ui.view \notin {"dashboard", "login", "register"}
  BY <1>1 DEF Panels
<1> QED
  BY <1>2, <1>3, <1>4, <1>5, <1>6, <1>7, <1>8, <1>9, <1>10, <1>11 DEF PanelInv

\* Every answer keeps it.
LEMMA PanelContinues ==
    ASSUME TabInv, NEW i \in Own, ContinuePanel(i), PanelInv
    PROVE  PanelInv'
<1>0. i \in DOMAIN calls /\ calls[i].by = mount
  BY DEF Own
<1>1. /\ Stays /\ ui.view \in Panels \cup {"viewer", "admin"}
      /\ ui.view = "documents" => List!Continue(i)
      /\ ui.view = "viewer" => Viewer!Continue(i)
      /\ ui.view = "search" => SearchPanel!Continue(i)
      /\ ui.view = "ai" => \/ Chat!Headers(i) \/ Chat!Failed(i) \/ Chat!Answered(i)
                           \/ SearchPanel!SelectorLoaded(i)
      /\ ui.view = "compare" => Comparison!Continue(i)
      /\ ui.view = "extract" => Extractions!Continue(i)
      /\ ui.view = "team" => Team!Continue(i)
      /\ ui.view = "admin" => AdminPanel!Continue(i)
  BY <1>0, ContinueView
<1>2. CallsOK /\ UiOK(ui) /\ Managed /\ ui'.view = ui.view
  BY <1>1 DEF TabInv, Stays
<1>3. ui.view = "documents" => ListInv'
  BY <1>1, <1>2, ListStep, Typed DEF PanelInv
<1>4. ui.view = "viewer" => ViewerInv'
  BY <1>1, <1>2, ViewerStep, Typed DEF PanelInv
<1>5. ui.view = "search" => SearchInv'
  BY <1>1, <1>2, SearchStep, Typed DEF PanelInv
<1>6. ui.view = "ai" => ChatInv'
  BY <1>1, <1>2, ChatStep, Typed DEF PanelInv
<1>7. ui.view = "compare" => CompareInv'
  BY <1>1, <1>2, CompareStep, Typed DEF PanelInv
<1>8. ui.view = "extract" => ExtractInv'
  BY <1>1, <1>2, ExtractContinueStep, Typed DEF PanelInv
<1>9. ui.view = "team" => TeamInv'
  BY <1>1, <1>2, TeamStep, Typed DEF PanelInv
<1>10. ui.view = "admin" => AdminInv'
  BY <1>1, <1>2, AdminStep, Typed DEF PanelInv
<1>11. ui.view \notin {"dashboard", "login", "register"}
  BY <1>1 DEF Panels
<1> QED
  BY <1>2, <1>3, <1>4, <1>5, <1>6, <1>7, <1>8, <1>9, <1>10, <1>11 DEF PanelInv

\* Signing in, well or badly, keeps it: those pages have no panel.
LEMMA PanelSubmits ==
    ASSUME TabInv, Submit \/ \E i \in Own : SignInFailed(i)
    PROVE  PanelInv'
<1>0. CallsOK /\ UiOK(ui)
  BY DEF TabInv
<1>1. CASE Submit
  <2>1. PICK op : Fetch("handleSubmit", op, None, None)
    BY <1>1 DEF Submit
  <2>2. mount' = mount /\ ui.view \in {"login", "register"} /\ ui'.view = ui.view
    BY <1>0, <1>1 DEF Submit, CanSubmit, UiOK
  <2>3. Waiting("handleSubmit")'
    BY <1>0, <2>1, <2>2, WaitBegins
  <2> QED
    BY <2>2, <2>3 DEF PanelInv, LoginInv
<1>2. ASSUME NEW i \in Own, SignInFailed(i)
      PROVE  PanelInv'
  <2>1. /\ calls[i].then = "handleSubmit"
        /\ ui' = [ui EXCEPT !.loading = FALSE, !.error = TRUE]
    BY <1>2, OwnState DEF SignInFailed, Awaited
  <2>2. ui.view \in {"login", "register"}
    BY <1>0, <2>1 DEF CallsOK, GoodCalls, InTab, Thens, Own
  <2>3. ui'.loading = FALSE /\ ui'.view = ui.view
    BY <1>0, <2>1, <2>2 DEF UiOK
  <2> QED
    BY <2>2, <2>3 DEF PanelInv, LoginInv
<1> QED
  BY <1>1, <1>2

\* Every step keeps it.
LEMMA PanelNext == TabInv /\ TabInv' /\ PanelInv /\ [Next]_vars => PanelInv'
<1> SUFFICES ASSUME TabInv, TabInv', PanelInv, [Next]_vars PROVE PanelInv'
  OBVIOUS
<1>1. CASE Quiet \/ Opens \/ Loads
  BY <1>1, PanelQuiet, PanelOpens, PanelLoads
<1>2. CASE ClickPanel \/ Submit
  BY <1>2, PanelClicks, PanelSubmits
<1>3. ASSUME NEW i \in DOMAIN calls, ContinuePanel(i) \/ SignInFailed(i),
             calls[i].by = mount
      PROVE  PanelInv'
  <2>1. i \in Own
    BY <1>3 DEF Own
  <2> QED
    BY <1>3, <2>1, PanelContinues, PanelSubmits
<1> QED
  BY <1>1, <1>2, <1>3, Steps

\* A tour that is at rest, and one that has just begun.
LEMMA PanelAtRest ==
    ASSUME AtRest(ui), UiOK(ui), calls = << >>
    PROVE  PanelInv
<1>1. Own = {}
  <2>1. DOMAIN << >> = {}
    OBVIOUS
  <2> QED
    BY <2>1 DEF Own
<1>2. \A R : Idle(R) /\ Lone(R)
  BY <1>1 DEF Idle, Lone
<1>3. CASE ui.view = "documents"
  BY <1>3 DEF AtRest, PanelInv, ListInv
<1>4. CASE ui.view = "viewer"
  <2>1. /\ ~ui.loading /\ ~ui.asking /\ ~ui.exporting /\ ui.answer = None
        /\ ui.detail # None => ui.detail.doc = ui.doc
    BY <1>4 DEF AtRest
  <2> QED
    BY <1>1, <1>4, <2>1 DEF PanelInv, ViewerInv
<1>5. CASE ui.view = "search"
  BY <1>5 DEF AtRest, PanelInv, SearchInv
<1>6. CASE ui.view = "extract"
  <2>1. /\ ~ui.extracting /\ ~ui.deleting /\ ui.exporting = None
        /\ ui.form # None => ~ui.form.saving
    BY <1>6 DEF AtRest
  <2>2. Idle(Running) /\ Lone(Running)
    BY <1>2
  <2> QED
    BY <1>6, <2>1, <2>2 DEF PanelInv, ExtractInv, RunInv, BinInv, FileInv, FormInv
<1>7. CASE ui.view = "compare"
  <2>1. ~ui.loading
    BY <1>7 DEF AtRest
  <2>2. Idle(Comparing) /\ Lone(Comparing)
    BY <1>2
  <2> QED
    BY <1>7, <2>1, <2>2 DEF PanelInv, CompareInv
<1>8. CASE ui.view = "ai"
  BY <1>8 DEF AtRest, PanelInv, ChatInv
<1>9. CASE ui.view = "team"
  BY <1>9 DEF AtRest, PanelInv, TeamInv
<1>10. CASE ui.view = "admin"
  BY <1>10 DEF AtRest, PanelInv, AdminInv
<1>11. ui.view # "dashboard"
  BY DEF AtRest
<1>12. CASE ui.view \in {"login", "register"}
  BY <1>12 DEF AtRest, PanelInv, LoginInv
<1> QED
  BY <1>3, <1>4, <1>5, <1>6, <1>7, <1>8, <1>9, <1>10, <1>11, <1>12 DEF PanelInv

\* It holds where a tour starts with its first fetches under way.
LEMMA PanelStarts ==
    ASSUME TabInv, mount = 1, ui = FreshOf(ui.view, user), calls = EffectOf(ui.view, 1)
    PROVE  PanelInv
<1>1. CASE ui.view \in Panels
  <2>1. token \in Tokens
    BY DEF TabInv, CallsOK
  <2>2. PICK c : EffectOf(ui.view, 1) = <<c>> /\ IsFirst(c, 1, ui.view)
                 /\ c.as = token /\ c.then = FirstThen[ui.view] /\ c.state = "sent"
    BY <1>1, <2>1, PanelEffect
  <2>3. IsSeq(<<c>>) /\ Len(<<c>>) = 1 /\ <<c>>[1] = c
    BY SeqShort
  <2>4. DOMAIN calls = {1} /\ calls[1] = c
    BY <2>2, <2>3, SeqFacts
  <2>5. (\E k \in Own : calls[k] = c) /\ (\A k \in Own : calls[k] = c)
    BY <2>2, <2>4 DEF Own, IsFirst
  <2>6. ui.view # "viewer"
    BY <1>1 DEF Panels
  <2>7. Begins
    BY <1>1, <2>2, <2>5, <2>6 DEF Begins
  <2> QED
    BY <2>7, PanelBegins
<1>2. CASE ui.view = "viewer"
  <2>1. ui = Page("viewer")
    BY <1>2 DEF FreshOf
  <2>2. ui \in Viewer!States
    BY <1>2 DEF TabInv, UiOK
  <2>3. DOMAIN ui = {"view", "loading", "error"} /\ "doc" \in DOMAIN ui
    BY <2>1, <2>2 DEF Page, Viewer!States
  <2> QED
    BY <2>3
<1>3. CASE ui.view \in {"login", "register"}
  <2>1. ui = Page(ui.view)
    BY <1>3 DEF FreshOf
  <2>2. ui.loading = FALSE
    BY <2>1 DEF Page
  <2> QED
    BY <1>3, <2>2 DEF PanelInv, LoginInv
<1>4. CASE ui.view = "dashboard"
  <2> SUFFICES ASSUME token # None PROVE Waiting("dashboard")
    BY <1>4 DEF PanelInv, DashInv
  <2> DEFINE c == Call(1, "dashboard", "GET me", None, None)
  <2>1. calls = <<c>> /\ c.by = 1 /\ c.then = "dashboard"
    BY <1>4 DEF EffectOf, Call
  <2> HIDE DEF c
  <2>2. IsSeq(<<c>>) /\ Len(<<c>>) = 1 /\ <<c>>[1] = c
    BY SeqShort
  <2>3. 1 \in DOMAIN calls /\ calls[1] = c
    BY <2>1, <2>2, SeqFacts
  <2> QED
    BY <2>1, <2>3 DEF Waiting, Own
<1>5. CASE ui.view = "admin"
  <2> SUFFICES ASSUME token # None PROVE Waiting("admin: loadOrgs")
    BY <1>5 DEF PanelInv, AdminInv
  <2> DEFINE c == Call(1, "admin: getMe", "GET platform-admin/me", None, None)
             d == Call(1, "admin: loadOrgs", "GET orgs", None, None)
  <2>1. calls = <<c, d>> /\ d.by = 1 /\ d.then = "admin: loadOrgs"
    BY <1>5 DEF EffectOf, Call, AdminPanel!Effect, AdminPanel!Call
  <2> HIDE DEF c, d
  <2>2. IsSeq(<<c, d>>) /\ Len(<<c, d>>) = 2 /\ <<c, d>>[2] = d
    BY SeqShort
  <2>3. DOMAIN <<c, d>> = 1 .. 2
    BY <2>2, SeqFacts
  <2> HIDE DEF c, d
  <2>30. calls = <<c, d>>
    BY <2>1
  <2>31. 2 \in 1 .. 2
    OBVIOUS
  <2>4. 2 \in DOMAIN calls /\ calls[2] = d
    BY <2>30, <2>2, <2>3, <2>31, Zenon
  <2> QED
    BY <2>1, <2>4 DEF Waiting, Own
<1>6. CASE ui.view \notin Panels \cup {"viewer", "login", "register", "dashboard", "admin"}
  BY <1>6 DEF PanelInv, Panels
<1> QED
  BY <1>1, <1>2, <1>3, <1>4, <1>5, <1>6

\* It holds in every initial state.
LEMMA PanelInit == Init => PanelInv
<1> SUFFICES ASSUME Init PROVE PanelInv
  OBVIOUS
<1>1. PICK t \in Tours :
         /\ token = t.token /\ user = t.user /\ mount = 1 /\ ui = t.ui
         /\ calls = IF t.settled THEN << >> ELSE EffectOf(t.ui.view, 1)
  BY DEF Init
<1>2. IsTour(t)
  BY TourAssumption
<1>3. TabInv
  BY TabInit
<1>4. CASE t.settled
  BY <1>1, <1>2, <1>4, PanelAtRest DEF IsTour
<1>5. CASE ~t.settled
  BY <1>1, <1>2, <1>3, <1>5, PanelStarts DEF IsTour
<1> QED
  BY <1>4, <1>5

\* The mounted component's invariant, for every step of the tab, of the API and
\* of the others.
THEOREM PanelAlways == Spec => []PanelInv
<1>1. Init => PanelInv
  BY PanelInit
<1>2. TabInv /\ TabInv' /\ PanelInv /\ [Next]_vars => PanelInv'
  BY PanelNext
<1> QED
  BY <1>1, <1>2, TabAlways, PTL DEF Spec

\* Whatever says it is loading, asking, deleting, saving or exporting has a
\* request in flight behind it: no handler ends its wait without ending what it
\* shows, and none that is still awaited is forgotten by a switch of panels.
THEOREM SpinnersHaveRequests == Spec => []SpinnersAreReal
<1>1. PanelInv => SpinnersAreReal
  <2> SUFFICES ASSUME PanelInv PROVE SpinnersAreReal
    OBVIOUS
  <2>1. CASE ui.view = "documents"
    BY <2>1, WaitingShared DEF PanelInv, ListInv, SpinnersAreReal, List!SpinnersAreReal
  <2>2. CASE ui.view = "viewer"
    BY <2>2, WaitingShared DEF PanelInv, ViewerInv, SpinnersAreReal, Viewer!SpinnersAreReal
  <2>3. CASE ui.view = "search"
    BY <2>3, WaitingShared
       DEF PanelInv, SearchInv, SpinnersAreReal, SearchPanel!SpinnersAreReal
  <2>4. CASE ui.view = "extract"
    <3>1. ExtractInv
      BY <2>4 DEF PanelInv
    <3>2. ui.extracting => Waiting("handleExtract") \/ Waiting("handleExtract: fetchAll")
      BY <3>1 DEF ExtractInv, RunInv, Idle, Running, Waiting
    <3>3. ui.form # None /\ ui.form.saving => Waiting("TemplateForm")
      BY <3>1 DEF ExtractInv, FormInv, Waiting
    <3>4. Extractions!SpinnersAreReal
      BY <3>1, <3>2, <3>3, WaitingShared
         DEF ExtractInv, BinInv, FileInv, Extractions!SpinnersAreReal
    <3> QED
      BY <2>4, <3>4 DEF SpinnersAreReal
  <2>5. CASE ui.view = "compare"
    BY <2>5, WaitingShared
       DEF PanelInv, CompareInv, SpinnersAreReal, Comparison!SpinnersAreReal
  <2>6. CASE ui.view = "ai"
    BY <2>6, WaitingShared DEF PanelInv, ChatInv, SpinnersAreReal, Chat!SpinnersAreReal
  <2>7. CASE ui.view = "team"
    BY <2>7, WaitingShared DEF PanelInv, TeamInv, SpinnersAreReal, Team!SpinnersAreReal
  <2>8. CASE ui.view = "admin"
    BY <2>8, WaitingShared
       DEF PanelInv, AdminInv, SpinnersAreReal, AdminPanel!SpinnersAreReal
  <2>9. CASE ui.view = "dashboard"
    BY <2>9 DEF PanelInv, DashInv, SpinnersAreReal
  <2>10. CASE ui.view \in {"login", "register"}
    BY <2>10 DEF PanelInv, LoginInv, SpinnersAreReal
  <2>11. CASE ui.view \notin {"documents", "viewer", "search", "extract", "compare",
                              "ai", "team", "admin", "dashboard", "login", "register"}
    BY <2>11 DEF SpinnersAreReal
  <2> QED
    BY <2>1, <2>2, <2>3, <2>4, <2>5, <2>6, <2>7, <2>8, <2>9, <2>10, <2>11
<1> QED
  BY <1>1, PanelAlways, PTL

\* The viewer shows the details of, and answers about, its own document only,
\* however late they come: what it waits for, it asked for that document.
THEOREM ViewerIsTrue == Spec => []ViewerShowsItsDocument
<1>1. PanelInv => ViewerShowsItsDocument
  BY DEF PanelInv, ViewerInv, ViewerShowsItsDocument, Viewer!ShowsItsDocument
<1> QED
  BY <1>1, PanelAlways, PTL

\* Of overlapping searches, none leaves a hit expanded that is not on the page.
THEOREM HitsAreShown == Spec => []ExpandedAreHits
<1>1. PanelInv => ExpandedAreHits
  BY DEF PanelInv, SearchInv, ExpandedAreHits, SearchPanel!ExpandedAreHits,
         SearchPanel!HitsShown, SearchPanel!Shown
<1> QED
  BY <1>1, PanelAlways, PTL

\* A panel has at most one extraction run and one comparison under way: each
\* request is paid for.
THEOREM OnePaidRequest == Spec => []OneProviderCall
<1>1. ASSUME NEW R, Lone(R)
      PROVE  Cardinality({j \in Own : calls[j].then \in R}) <= 1
  <2> DEFINE S == {j \in Own : calls[j].then \in R}
  <2> SUFFICES Cardinality(S) <= 1
    OBVIOUS
  <2>1. CASE S = {}
    BY <2>1, FS_EmptySet
  <2>2. CASE S # {}
    <3>1. PICK j \in Own : calls[j].then \in R
      BY <2>2
    <3>2. S = {j}
      BY <1>1, <3>1 DEF Lone
    <3> HIDE DEF S
    <3>3. Cardinality({j}) = 1
      BY FS_Singleton
    <3> QED
      BY <3>2, <3>3
  <2> QED
    BY <2>1, <2>2
<1>2. TabInv /\ PanelInv => Lone(Running) /\ Lone(Comparing)
  <2> SUFFICES ASSUME TabInv, PanelInv PROVE Lone(Running) /\ Lone(Comparing)
    OBVIOUS
  <2>1. \A j \in Own : calls[j].then \in Thens(ui.view) \cup {"handleLogout"}
    BY DEF TabInv, CallsOK, GoodCalls, InTab, Own
  <2>2. CASE ui.view = "extract"
    <3>1. Lone(Running)
      BY <2>2 DEF PanelInv, ExtractInv, RunInv
    <3>2. \A j \in Own : calls[j].then \notin Comparing
      BY <2>1, <2>2 DEF Thens, Comparing
    <3> QED
      BY <3>1, <3>2 DEF Lone
  <2>3. CASE ui.view = "compare"
    <3>1. Lone(Comparing)
      BY <2>3 DEF PanelInv, CompareInv
    <3>2. \A j \in Own : calls[j].then \notin Running
      BY <2>1, <2>3 DEF Thens, Running
    <3> QED
      BY <3>1, <3>2 DEF Lone
  <2>4. CASE ui.view \notin {"extract", "compare"}
    <3>1. \A j \in Own : calls[j].then \notin Running \cup Comparing
      BY <2>1, <2>4 DEF Thens, Running, Comparing
    <3> QED
      BY <3>1 DEF Lone
  <2> QED
    BY <2>2, <2>3, <2>4
<1>3. TabInv /\ PanelInv => OneProviderCall
  <2> SUFFICES ASSUME TabInv, PanelInv PROVE OneProviderCall
    OBVIOUS
  <2>1. Cardinality({j \in Own : calls[j].then \in Running}) <= 1
    BY <1>1, <1>2
  <2>2. Cardinality({j \in Own : calls[j].then \in Comparing}) <= 1
    BY <1>1, <1>2
  <2>3. {j \in Own : calls[j].then \in Running}
           = {j \in Extractions!Own : calls[j].then \in {"handleExtract",
                                                       "handleExtract: fetchAll"}}
    BY DEF Own, Extractions!Own, Running
  <2>4. {j \in Own : calls[j].then \in Comparing}
           = {j \in Comparison!Own : calls[j].then = "handleCompare"}
    BY DEF Own, Comparison!Own, Comparing
  <2>5. Extractions!OneAtATime
    BY <2>1, <2>3 DEF Extractions!OneAtATime, Extractions!Cardinality, Cardinality
  <2>6. Comparison!OneAtATime
    BY <2>2, <2>4 DEF Comparison!OneAtATime, Comparison!Cardinality, Cardinality
  <2> QED
    BY <2>5, <2>6 DEF OneProviderCall
<1> QED
  BY <1>3, TabAlways, PanelAlways, PTL

=============================================================================
