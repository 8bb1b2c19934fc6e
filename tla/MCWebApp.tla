------------------------------ MODULE MCWebApp ------------------------------
(***************************************************************************)
(* Small instances of WebApp: the tours of a tab, one or two for each part *)
(* of the application, with the data each of them needs.                   *)
(***************************************************************************)
EXTENDS WebApp

CONSTANTS d1, d2, t1, t2, owner, admin, member, org1, org2

AsRole(role) == [role |-> role, active |-> TRUE]

MCStaff == [u \in Users |-> CASE u = owner -> AsRole("owner")
                              [] u = admin -> AsRole("admin")
                              [] OTHER     -> None]

OneTeam == [MCStaff EXCEPT ![member] = AsRole("member")]

Settled == [o \in Orgs |-> [suspended |-> FALSE, extraction |-> TRUE, quota |-> 1]]

\* Starting on `start`, the owner signed in, with two documents and a template.
Tour(start, route, n) ==
    [ui |-> start, settled |-> TRUE,
     token |-> [account |-> "user", user |-> owner, role |-> "owner"],
     user |-> [user |-> owner, role |-> "owner"],
     docs |-> {d1, d2}, templates |-> {t1}, rows |-> {}, staff |-> MCStaff,
     orgs |-> Settled, plan |-> route, clicks |-> n, outside |-> 0]

SignedOut(t) == [t EXCEPT !.token = None, !.user = None]
Mounting(t)  == [t EXCEPT !.settled = FALSE]
WithOthers(t) == [t EXCEPT !.outside = 1]

\* Pages and sessions.
SigningIn   == SignedOut(Tour(Page("home"), << >>, 2))
Registering == [SigningIn EXCEPT !.docs = {}, !.templates = {},
                                 !.staff = [u \in Users |-> None]]
Returning   == [SigningIn EXCEPT !.token = AdminToken]
ByAddress   == SignedOut(Mounting(Tour(Page("dashboard"), << >>, 0)))
AdminByAddress == [ByAddress EXCEPT !.ui = AdminPanel!Fresh]

\* Documents.
Table     == [List!Fresh EXCEPT !.docs = {d1, d2}, !.loading = FALSE]
Listing   == [Tour(Table, << >>, 3) EXCEPT !.rows = {Row(1, d1, t1, "old")}]
Uploading == [Mounting(Tour(List!Fresh, << >>, 1)) EXCEPT !.docs = {}, !.outside = 2]
Viewing   == Tour(Table, <<"viewer", "documents", "viewer">>, 1)
Reading   == Tour([Viewer!Fresh(d1) EXCEPT !.loading = FALSE,
                      !.detail = [doc |-> d1, preview |-> TRUE]], << >>, 3)

\* Search, answers, comparison.
Searching == Tour([SearchPanel!Fresh EXCEPT !.menu = {d1}], << >>, 3)
Chatting  == Tour([Chat!Fresh EXCEPT !.menu = {d1}], <<"search", "ai">>, 2)
Comparing == Tour([Comparison!Fresh EXCEPT !.docs = {d1, d2}, !.docA = d1],
                  <<"compare">>, 3)
Visiting  == Mounting(Tour(Chat!Fresh, <<"compare", "search", "team">>, 0))

\* Extractions: nothing chosen; two documents ready to run, one of them deleted
\* meanwhile or not, and two templates; two results, both selected; a filtered
\* table.
Panel      == [Extractions!Fresh EXCEPT !.docs = {d1, d2}, !.templates = {t1}]
Filled     == [edits |-> None, holds |-> None, valid |-> TRUE, saving |-> FALSE, no |-> 1]
Editing    == Tour([Panel EXCEPT !.form = Filled, !.forms = 1], << >>, 2)
ReadyToRun == [Panel EXCEPT !.templates = {t1, t2}, !.template = t1, !.picked = {d1, d2}]
Extracting == [Tour(ReadyToRun, << >>, 2) EXCEPT !.templates = {t1, t2}, !.docs = {d1}]
Leaving    == [Tour(ReadyToRun, <<"documents", "extract">>, 1) EXCEPT !.templates = {t1, t2}]
Results    == {Row(1, d1, t1, "old"), Row(2, d2, t1, "today")}
ResultsShown == [Panel EXCEPT !.rows = Results, !.keys = {<<d1, t1>>, <<d2, t1>>}]
Sorting    == [Tour([ResultsShown EXCEPT !.chosen = {1, 2}], << >>, 2) EXCEPT !.rows = Results]
Filtered   == [Panel EXCEPT !.filter = "old", !.template = t1, !.picked = {d1}]
Refiltering == WithOthers(Tour(Filtered, << >>, 1))

\* Accounts.
Members(as) == [Team!Fresh(as) EXCEPT !.users = OneTeam]
Managing    == [WithOthers(Tour(Members([user |-> owner, role |-> "owner"]), << >>, 1))
                    EXCEPT !.staff = OneTeam]
ManagingAsAdmin ==
    [Managing EXCEPT !.ui = Members([user |-> admin, role |-> "admin"]),
                     !.clicks = 2,
                     !.user = [user |-> admin, role |-> "admin"],
                     !.token = [account |-> "user", user |-> admin, role |-> "admin"]]
Hiring      == [Managing EXCEPT !.staff = MCStaff, !.ui.users = MCStaff,
                                !.ui.filled = TRUE]
Governing   == [SignedOut(Tour([AdminPanel!Fresh EXCEPT !.orgs = Settled], << >>, 2))
                    EXCEPT !.token = AdminToken]

MCTours ==
    {SigningIn, Registering, Returning, ByAddress, AdminByAddress,
     Listing, Uploading, Viewing, Reading, Searching, Chatting, Comparing, Visiting, Editing, Extracting, Leaving,
     Sorting, Refiltering, Managing, ManagingAsAdmin, Hiring, Governing}

\* One run of a template, while the table is filtered.
OneRun == {[Refiltering EXCEPT !.clicks = 1]}
=============================================================================
