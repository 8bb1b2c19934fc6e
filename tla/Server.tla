------------------------------- MODULE Server -------------------------------
(***************************************************************************)
(* The API as the panels of the web application see it: one action per     *)
(* endpoint, which answers a fetch and has its effect in one transaction.  *)
(* A request that waits for a provider (extraction, answers) takes effect  *)
(* when it ends.  Pages, chunks and jobs are the business of Pipeline.     *)
(***************************************************************************)
EXTENDS Browser

CONSTANTS
    Docs,       \* documents an organization may have
    Templates,  \* extraction templates that may exist
    Users,      \* accounts that may exist in the organization
    Orgs,       \* organizations the platform administrator sees
    MaxRows     \* bound on the extractions ever made

ASSUME ServerAssumption ==
    /\ IsFiniteSet(Docs) /\ IsFiniteSet(Templates)
    /\ IsFiniteSet(Users) /\ IsFiniteSet(Orgs)
    /\ MaxRows \in Nat

VARIABLES
    docs,       \* documents with their text read
    templates,
    rows,       \* extractions
    serial,     \* identity of the latest extraction
    staff,      \* the accounts that exist
    orgs        \* what a platform administrator sets for each organization

server == <<docs, templates, rows, serial, staff, orgs>>

Roles == {"owner", "admin", "member", "viewer"}

Row(id, doc, template, day) ==
    [id |-> id, doc |-> doc, template |-> template, day |-> day]

IdsOf(S) == {r.id : r \in S}

-----------------------------------------------------------------------------
\* Which tokens an endpoint takes: those of an organization's user, or those of
\* a platform administrator.
Permitted(i, account) ==
    calls[i].as # None /\ calls[i].as.account = account

\* A handler that only reads, for a user of the organization.
Read(i, op, found, data) ==
    /\ Sent(i, op)
    /\ IF Permitted(i, "user") /\ found
       THEN Reply(i, "ok", data) ELSE Reply(i, "refused", None)
    /\ UNCHANGED server

\* A handler that changes something, if `allowed`: the caller says what.
Write(i, op, allowed, data) ==
    /\ Sent(i, op) /\ Permitted(i, "user") /\ allowed
    /\ Reply(i, "ok", data)

-----------------------------------------------------------------------------
(* Documents, search and answers. *)

ListDocuments(i) == Read(i, "GET documents", TRUE, docs)

\* storage may fail to sign a preview.
GetDocument(i) ==
    \E preview \in BOOLEAN :
        Read(i, "GET document", calls[i].arg \in docs,
             [doc |-> calls[i].arg, preview |-> preview])

\* Bulk download and export answer 404 when one of the documents is missing.
ReadDocuments(i) ==
    Read(i, "POST documents/bulk", calls[i].arg \subseteq docs, calls[i].arg)

\* bulk_delete: 404 when one is missing; the foreign keys of extractions hold
\* the others back, so it is all or nothing.
BulkDelete(i) ==
    /\ Write(i, "POST documents/bulk/delete",
             /\ calls[i].arg \subseteq docs
             /\ \A r \in rows : r.doc \notin calls[i].arg, None)
    /\ docs' = docs \ calls[i].arg
    /\ UNCHANGED <<templates, rows, serial, staff, orgs>>

Compare(i) ==
    Read(i, "POST compare", calls[i].arg \subseteq docs, calls[i].arg)

\* Questions about, and summaries of, one document; or of all (None).
Answer(i) ==
    Read(i, "POST ai", calls[i].arg.doc \in docs \cup {None}, calls[i].arg)

\* Any of the documents in scope may hold hits.
Search(i) ==
    \E hits \in SUBSET {d \in docs : calls[i].arg \in {d, None}} :
        Read(i, "GET search", TRUE, [scope |-> calls[i].arg, hits |-> hits])

\* What is left of an answer whose headers have arrived.
Body(i) ==
    /\ Sent(i, "body")
    /\ Reply(i, "ok", calls[i].arg)
    /\ UNCHANGED server

-----------------------------------------------------------------------------
(* Templates and extractions. *)

\* The rows a date range lets through: None is no range, and a range covers the
\* day it is named for.
InRange(S, range) == {r \in S : range \in {None, r.day}}

Listings == {"templates", "rows", "all", "docs"}

\* The reads of one fetchAll see one state.  The listing may be refused, the
\* unfiltered one that goes with a range may fail by itself, or the session is
\* over.  `part` is the body the panel is about to take.
ReadAll(i) ==
    /\ Sent(i, "GET all")
    /\ \E bad \in {{}} \cup (IF Faulty THEN {{"rows"}, Listings} ELSE {})
                     \cup (IF Faulty /\ calls[i].arg # None THEN {{"all"}} ELSE {}) :
          Reply(i, "ok",
                [templates |-> templates, rows |-> InRange(rows, calls[i].arg),
                 all |-> rows, docs |-> docs, refused |-> bad, part |-> "templates"])
    /\ UNCHANGED server

\* extract_fields: the document and the template are there when the row is
\* written; the answer is the new row.
RunExtraction(i) ==
    LET new == Row(serial + 1, calls[i].arg.doc, calls[i].arg.template, "today")
    IN  /\ serial < MaxRows
        /\ Write(i, "POST extract",
                 new.doc \in docs /\ new.template \in templates, new.id)
        /\ rows' = rows \cup {new}
        /\ serial' = new.id
        /\ UNCHANGED <<docs, templates, staff, orgs>>

\* Deleting one or several extractions: 404 unless all of them are there.
DeleteRows(i) ==
    /\ Write(i, "DELETE extractions", calls[i].arg \subseteq IdsOf(rows), None)
    /\ rows' = {r \in rows : r.id \notin calls[i].arg}
    /\ UNCHANGED <<docs, templates, serial, staff, orgs>>

ExportRows(i) ==
    Read(i, "GET extractions/export", TRUE, calls[i].arg)

CreateTemplate(i) ==
    /\ \E t \in Templates \ templates :
          /\ Write(i, "POST template", TRUE, t)
          /\ templates' = templates \cup {t}
    /\ UNCHANGED <<docs, rows, serial, staff, orgs>>

\* A template's name and fields are not told apart.
UpdateTemplate(i) ==
    Read(i, "PATCH template", calls[i].arg \in templates, calls[i].arg)

\* The foreign key of extractions has no ON DELETE: with one left, the request
\* fails.
DeleteTemplate(i) ==
    /\ Write(i, "DELETE template",
             /\ calls[i].arg \in templates
             /\ \A r \in rows : r.template # calls[i].arg, None)
    /\ templates' = templates \ {calls[i].arg}
    /\ UNCHANGED <<docs, rows, serial, staff, orgs>>

-----------------------------------------------------------------------------
(* Accounts. *)

ASSIGNABLE_ROLES ==
    [r \in Roles |-> CASE r = "owner" -> {"admin", "member", "viewer"}
                       [] r = "admin" -> {"member", "viewer"}
                       [] OTHER       -> {}]

ListUsers(i) == Read(i, "GET users", TRUE, staff)

CreateUser(i) ==
    /\ Write(i, "POST user",
             /\ calls[i].arg.role \in ASSIGNABLE_ROLES[calls[i].as.role]
             /\ staff[calls[i].arg.user] = None, None)
    /\ staff' = [staff EXCEPT ![calls[i].arg.user] =
                    [role |-> calls[i].arg.role, active |-> TRUE]]
    /\ UNCHANGED <<docs, templates, rows, serial, orgs>>

MayUpdate_OwnersToo(actor, as, user, change) ==
    /\ staff[user] # None /\ user # actor
    /\ change.role \in ASSIGNABLE_ROLES[as] \cup {None}

\* update_org_user: not oneself, not the owner, and neither a role nor a person
\* beyond what the actor's token may assign.
MayUpdate(actor, as, user, change) ==
    /\ staff[user] # None /\ user # actor
    /\ staff[user].role # "owner"
    /\ staff[user].role \in ASSIGNABLE_ROLES[as]
    /\ change.role \in ASSIGNABLE_ROLES[as] \cup {None}

\* UserRepository.update_user sets what is given.
Changed(account, change) ==
    [role   |-> IF change.role = None THEN account.role ELSE change.role,
     active |-> IF change.active = None THEN account.active ELSE change.active]

UpdateUser(i) ==
    LET user == calls[i].arg.user change == calls[i].arg.change
    IN  /\ Write(i, "PATCH user",
                 MayUpdate(calls[i].as.user, calls[i].as.role, user, change), None)
        /\ staff' = [staff EXCEPT ![user] = Changed(@, change)]
        /\ UNCHANGED <<docs, templates, rows, serial, orgs>>

\* GET /users/me: the role the database has, which need not be the token's.
GetMe(i) ==
    Read(i, "GET me", staff[calls[i].as.user] # None, staff[calls[i].as.user].role)

-----------------------------------------------------------------------------
(* Signing in and out, and platform administration. *)

UserToken(u) == [account |-> "user", user |-> u, role |-> staff[u].role]
AdminToken   == [account |-> "admin"]

Profiles == [user : Users, role : Roles]
Tokens   == {None, AdminToken} \cup [account : {"user"}, user : Users, role : Roles]

\* The password of an active account, or of a platform administrator.
Login(i) ==
    /\ Sent(i, "POST login")
    /\ \E t \in {AdminToken} \cup
                {UserToken(u) : u \in {v \in Users : staff[v] # None /\ staff[v].active}} :
          Reply(i, "ok", t)
    /\ UNCHANGED server

\* register makes the organization and its owner.  The model has one: once it
\* is there, the address is taken.
Register(i) ==
    /\ Sent(i, "POST register")
    /\ \A v \in Users : staff[v] = None
    /\ \E u \in Users :
          /\ staff' = [staff EXCEPT ![u] = [role |-> "owner", active |-> TRUE]]
          /\ Reply(i, "ok", [account |-> "user", user |-> u, role |-> "owner"])
    /\ UNCHANGED <<docs, templates, rows, serial, orgs>>

\* Refresh tokens are not modelled: the web application never uses one.
Logout(i) ==
    /\ Sent(i, "POST logout")
    /\ Reply(i, "ok", None)
    /\ UNCHANGED server

AdminRead(i, op, data) ==
    /\ Sent(i, op)
    /\ IF Permitted(i, "admin") THEN Reply(i, "ok", data)
       ELSE Reply(i, "refused", None)
    /\ UNCHANGED server

GetAdmin(i)        == AdminRead(i, "GET platform-admin/me", None)
ListOrgs(i)        == AdminRead(i, "GET orgs", orgs)
ListOrgDocuments(i) == AdminRead(i, "GET org documents", calls[i].arg)

\* update_organization sets the fields given and answers the whole row.
UpdateOrganization(i) ==
    LET new == [orgs EXCEPT ![calls[i].arg.org][calls[i].arg.field] = calls[i].arg.value]
    IN  /\ Sent(i, "PATCH org") /\ Permitted(i, "admin")
        /\ calls[i].arg.field = "quota" => calls[i].arg.value > 0
        /\ Reply(i, "ok", new[calls[i].arg.org])
        /\ orgs' = new
        /\ UNCHANGED <<docs, templates, rows, serial, staff>>

-----------------------------------------------------------------------------
ServeDocuments(i) ==
    \/ ListDocuments(i) \/ GetDocument(i) \/ ReadDocuments(i) \/ BulkDelete(i)
    \/ Compare(i) \/ Answer(i) \/ Search(i) \/ Body(i)

ServeExtractions(i) ==
    \/ ReadAll(i) \/ RunExtraction(i) \/ DeleteRows(i) \/ ExportRows(i)
    \/ CreateTemplate(i) \/ UpdateTemplate(i) \/ DeleteTemplate(i)

ServeAccounts(i) ==
    \/ ListUsers(i) \/ CreateUser(i) \/ UpdateUser(i) \/ GetMe(i)
    \/ Login(i) \/ Register(i) \/ Logout(i)

ServeAdmin(i) ==
    GetAdmin(i) \/ ListOrgs(i) \/ ListOrgDocuments(i) \/ UpdateOrganization(i)
=============================================================================
