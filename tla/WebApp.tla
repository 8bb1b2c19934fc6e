------------------------------- MODULE WebApp -------------------------------
(***************************************************************************)
(* One tab of the web application against the API: the pages and their     *)
(* redirects, the dashboard that mounts one panel at a time, the panels,   *)
(* and what happens elsewhere meanwhile.                                   *)
(*                                                                         *)
(* Switching panels unmounts the old one and leaves its requests in        *)
(* flight; their continuations still run.  Loading a page drops them, but  *)
(* not what the server does with them.                                     *)
(*                                                                         *)
(* A user has a plan, one of Tours, and a number of clicks: together with  *)
(* `outside` they bound the model.                                         *)
(***************************************************************************)
EXTENDS Server

CONSTANTS
    Ranges, Quotas,   \* see the panels
    Tours    \* where a tab starts, which panels it visits, how often it clicks

VARIABLES
    user,     \* DashboardPage's profile: who is signed in
    plan,     \* panels still to be visited, in order
    clicks,   \* clicks left
    outside   \* things left to happen elsewhere

budget == <<plan, clicks, outside>>
vars   == <<client, server, user, budget>>

List        == INSTANCE DocumentList
Viewer      == INSTANCE DocumentViewer
SearchPanel == INSTANCE SearchBox
Chat        == INSTANCE AiChat
Comparison  == INSTANCE DocumentCompare
Extractions == INSTANCE ExtractionsPanel
Team        == INSTANCE TeamPanel
AdminPanel  == INSTANCE AdminPage

Panels == {"documents", "search", "extract", "compare", "ai", "team"}

InDashboard == ui.view \in Panels \cup {"viewer"}

-----------------------------------------------------------------------------
(* Pages and panels as they are mounted. *)

\* The pages that only redirect, sign in or register.
Page(view) == [view |-> view, loading |-> FALSE, error |-> FALSE]

FreshOf(view, profile) ==
    CASE view = "documents" -> List!Fresh
      [] view = "search"    -> SearchPanel!Fresh
      [] view = "extract"   -> Extractions!Fresh
      [] view = "compare"   -> Comparison!Fresh
      [] view = "ai"        -> Chat!Fresh
      [] view = "team"      -> Team!Fresh(profile)
      [] view = "admin"     -> AdminPanel!Fresh
      [] OTHER              -> Page(view)

\* The requests a page or panel sends when it is mounted; without a token the
\* dashboard and the admin page send none.
EffectOf(view, by) ==
    CASE view = "documents" -> List!Effect(by)
      [] view = "search"    -> SearchPanel!Effect(by)
      [] view = "extract"   -> Extractions!Effect(by, None)
      [] view = "compare"   -> Comparison!Effect(by)
      [] view = "ai"        -> Chat!Effect(by)
      [] view = "team"      -> Team!Effect(by)
      [] view = "admin" /\ token # None -> AdminPanel!Effect(by)
      [] view = "dashboard" /\ token # None ->
             << Call(by, "dashboard", "GET me", None, None) >>
      [] OTHER              -> << >>

UiOK(u) ==
    CASE u.view = "documents" -> u \in List!States
      [] u.view = "viewer"    -> u \in Viewer!States
      [] u.view = "search"    -> u \in SearchPanel!States
      [] u.view = "extract"   -> u \in Extractions!States
      [] u.view = "compare"   -> u \in Comparison!States
      [] u.view = "ai"        -> u \in Chat!States
      [] u.view = "team"      -> u \in Team!States
      [] u.view = "admin"     -> u \in AdminPanel!States
      [] OTHER -> u \in [view : {"home", "login", "register", "dashboard"},
                          loading : BOOLEAN, error : BOOLEAN]

\* Nothing on the page waits for an answer; what is shown has been loaded.
AtRest(u) ==
    CASE u.view = "documents" -> ~u.loading /\ u.action = None
      [] u.view = "viewer"    -> /\ ~u.loading /\ ~u.asking /\ ~u.exporting
                                 /\ u.answer = None
                                 /\ u.detail # None => u.detail.doc = u.doc
      [] u.view = "search"    -> ~u.loading /\ u.expanded = {}
      [] u.view = "extract"   -> /\ ~u.extracting /\ ~u.deleting
                                 /\ u.exporting = None
                                 /\ u.form # None => ~u.form.saving
      [] u.view = "ai"        -> ~u.loading /\ u.messages = << >>
      [] u.view = "team"      -> ~u.creating
      [] u.view = "admin"     -> u.orgs # None
      [] u.view = "dashboard" -> FALSE
      [] OTHER                -> ~u.loading

\* A tour is a state the tab can be in: a panel of the dashboard for a user whose
\* profile is known, the organizations for a platform administrator.
IsTour(t) ==
    /\ UiOK(t.ui) /\ t.token \in Tokens /\ t.settled \in BOOLEAN
    /\ IF t.settled THEN AtRest(t.ui) ELSE t.ui = FreshOf(t.ui.view, t.user)
    /\ t.ui.view \in Panels \cup {"viewer"} =>
          /\ t.token # None /\ t.token.account = "user"
          /\ t.user \in Profiles /\ t.user.user = t.token.user
    /\ t.ui.view = "team" => t.ui.as = t.user
    /\ (t.ui.view = "admin" /\ t.ui.orgs # None)
          => t.token # None /\ t.token.account = "admin"
    /\ t.docs \subseteq Docs /\ t.templates \subseteq Templates
    /\ t.rows \subseteq Extractions!AnyRow
    /\ IsFiniteSet(t.rows) /\ Cardinality(t.rows) <= MaxRows
    /\ \A r \in t.rows : r.id <= Cardinality(t.rows)
    /\ t.staff \in Team!Accounts /\ t.orgs \in [Orgs -> AdminPanel!Settings]

ASSUME TourAssumption == \A t \in Tours : IsTour(t)

\* null is not a list of organizations.
ASSUME NullAssumption == None \notin [Orgs -> AdminPanel!Settings]

\* A tour starts on a page or panel just mounted or, `settled`, some time after,
\* when every request has been answered.
Init ==
    \E t \in Tours :
        /\ token = t.token /\ user = t.user
        /\ mount = 1 /\ ui = t.ui
        /\ calls = IF t.settled THEN << >> ELSE EffectOf(t.ui.view, 1)
        /\ docs = t.docs /\ templates = t.templates /\ rows = t.rows
        /\ serial = Cardinality(t.rows)
        /\ staff = t.staff /\ orgs = t.orgs
        /\ plan = t.plan /\ clicks = t.clicks /\ outside = t.outside

\* Requests of a page that is gone: what was sent stays so, with nobody to
\* continue; an answer that came is of no use.
Orphan(c) ==
    [by |-> 0, then |-> "gone", op |-> c.op, arg |-> c.arg, kept |-> None,
     as |-> c.as, state |-> IF c.state = "sent" THEN "sent" ELSE "lost",
     data |-> None]

Abandoned == [i \in DOMAIN calls |-> Orphan(calls[i])]

\* window.location.href
Load(view) ==
    /\ mount' = mount + 1
    /\ ui' = FreshOf(view, None)
    /\ calls' = Abandoned \o EffectOf(view, mount)'
    /\ user' = None

-----------------------------------------------------------------------------
(* The pages outside the dashboard. *)

Click == clicks > 0 /\ clicks' = clicks - 1

\* app/page.tsx: any token leads to the dashboard.
Home ==
    /\ ui.view = "home"
    /\ UNCHANGED <<server, token, budget>>
    /\ \/ token # None /\ Load("dashboard")
       \/ token = None /\ Load("login")

\* The links between the two forms.
FollowLink ==
    /\ Click
    /\ \/ ui.view = "login" /\ Load("register")
       \/ ui.view = "register" /\ Load("login")
    /\ UNCHANGED <<server, token, plan, outside>>

\* The form is filled in; its button is disabled while loading.
CanSubmit == ui.view \in {"login", "register"} /\ ~ui.loading

\* handleSubmit of either form.
Submit ==
    /\ Click
    /\ CanSubmit
    /\ ui' = [ui EXCEPT !.loading = TRUE, !.error = FALSE]
    /\ IF ui.view = "login" THEN Fetch("handleSubmit", "POST login", None, None)
       ELSE Fetch("handleSubmit", "POST register", None, None)
    /\ UNCHANGED <<server, mount, token, user, plan, outside>>

SignedIn(i) ==
    /\ Awaited(i, "handleSubmit") /\ IsOk(i)
    /\ token' = calls[i].data
    /\ \/ calls[i].data.account = "admin" /\ Load("admin")
       \/ calls[i].data.account = "user" /\ Load("dashboard")
    /\ UNCHANGED <<server, budget>>

SignInFailed(i) ==
    /\ Awaited(i, "handleSubmit") /\ ~IsOk(i)
    /\ SetState(i, [ui EXCEPT !.loading = FALSE, !.error = TRUE])
    /\ Return(i)
    /\ UNCHANGED <<server, mount, token, user, budget>>

\* The effects of the dashboard and of the admin page without a token.
NoToken ==
    /\ ui.view \in {"dashboard", "admin"} /\ token = None
    /\ Load("login")
    /\ UNCHANGED <<server, token, budget>>

\* The dashboard knows who is signed in and shows the documents, or cannot find
\* out; the token stays where it is.
Known(i) ==
    /\ Awaited(i, "dashboard") /\ IsOk(i)
    /\ user' = [user |-> calls[i].as.user, role |-> calls[i].data]
    /\ ui' = List!Fresh
    /\ mount' = mount + 1
    /\ calls' = Without(calls, i) \o List!Effect(mount')
    /\ UNCHANGED <<server, token, budget>>

Unknown_Uncaught(i) ==
    /\ calls[i].state = "refused"
    /\ \E t \in {"dashboard", "admin: getMe", "admin: loadOrgs"} : Awaited(i, t)
    /\ Load("login")
    /\ UNCHANGED <<server, token, budget>>

Unknown(i) ==
    /\ ~IsOk(i)
    /\ \E t \in {"dashboard", "admin: getMe", "admin: loadOrgs"} : Awaited(i, t)
    /\ Load("login")
    /\ UNCHANGED <<server, token, budget>>

\* handleLogout of the dashboard and of the admin page: what the server says is
\* ignored.
HandleLogout ==
    /\ Click
    /\ \/ InDashboard
       \/ ui.view = "admin" /\ ui.orgs # None
    /\ Fetch("handleLogout", "POST logout", None, None)
    /\ UNCHANGED <<server, ui, mount, token, user, plan, outside>>

LoggedOut_Stays(i) ==
    /\ Awaited(i, "handleLogout")
    /\ token' = None
    /\ Return(i)
    /\ UNCHANGED <<server, ui, mount, user, budget>>

LoggedOut(i) ==
    /\ Awaited(i, "handleLogout")
    /\ token' = None
    /\ Load("login")
    /\ UNCHANGED <<server, budget>>

-----------------------------------------------------------------------------
(* The dashboard. *)

\* One panel takes the place of another.
Mount(new, effect) ==
    /\ mount' = mount + 1
    /\ ui' = new
    /\ calls' = calls \o effect
    /\ Len(calls') <= MaxCalls
    /\ UNCHANGED <<server, token, user, clicks, outside>>

\* goTo, from the sidebar or the search button; Back leads to the list.
GoTo(view) ==
    /\ InDashboard
    /\ plan # << >> /\ Head(plan) = view /\ view \in Panels \ {ui.view}
    /\ plan' = Tail(plan)
    /\ Mount(FreshOf(view, user), EffectOf(view, mount + 1))

\* A click on a row of the list.
SelectRow(d) ==
    /\ ui.view = "documents" /\ List!Shown /\ d \in ui.docs
    /\ plan # << >> /\ Head(plan) = "viewer"
    /\ plan' = Tail(plan)
    /\ Mount(Viewer!Fresh(d), Viewer!Effect(mount + 1, d))

ClickPanel ==
    /\ Click
    /\ \/ List!Click \/ Viewer!Click \/ SearchPanel!Click \/ Chat!Click
       \/ Comparison!Click \/ Team!Click \/ AdminPanel!Click
       \/ Extractions!ClickForm \/ Extractions!ClickRun \/ Extractions!ClickResults
    /\ UNCHANGED <<server, user, plan, outside>>

-----------------------------------------------------------------------------
(* Continuations and answers. *)

ContinuePanel(i) ==
    /\ \/ List!Continue(i) \/ Viewer!Continue(i) \/ SearchPanel!Continue(i)
       \/ Chat!Headers(i) \/ Chat!Failed(i) \/ Chat!Answered(i)
       \/ Comparison!Continue(i) \/ Extractions!Continue(i)
       \/ Team!Continue(i) \/ AdminPanel!Continue(i)
    /\ UNCHANGED <<server, user, budget>>

\* What nobody waits for comes to nothing.
Forget(i) ==
    /\ Awaited(i, "gone")
    /\ Return(i)
    /\ UNCHANGED <<server, ui, mount, token, user, budget>>

Continue(i) ==
    \/ SignedIn(i) \/ SignInFailed(i) \/ Known(i) \/ Unknown(i) \/ LoggedOut(i)
    \/ ContinuePanel(i) \/ Forget(i)

\* What the bundle of fetchAll is refused is up to ReadAll.
Respond(i) ==
    /\ \/ ServeDocuments(i) \/ ServeExtractions(i)
       \/ ServeAccounts(i) \/ ServeAdmin(i)
       \/ calls[i].op \notin {"GET all", "body"} /\ Refuse(i) /\ UNCHANGED server
       \/ Lose(i) /\ UNCHANGED server
    /\ UNCHANGED <<user, budget>>

-----------------------------------------------------------------------------
(* Elsewhere. *)

\* An upload of this tab ends and refreshKey changes: the list, if it is there,
\* fetches again.
UploadEnds ==
    /\ \E d \in Docs \ docs : docs' = docs \cup {d}
    /\ calls' = IF ui.view = "documents" THEN calls \o List!Effect(mount) ELSE calls
    /\ Len(calls') <= MaxCalls
    /\ UNCHANGED <<templates, rows, serial, staff, orgs>>

\* Another user deletes a document, or an extraction.
OthersDelete ==
    /\ \/ /\ \E d \in docs : /\ \A r \in rows : r.doc # d
                             /\ docs' = docs \ {d}
          /\ UNCHANGED rows
       \/ /\ \E r \in rows : rows' = rows \ {r}
          /\ UNCHANGED docs
    /\ UNCHANGED <<calls, templates, serial, staff, orgs>>

\* Another manager changes an account, with a token that still has its role.
OthersManage ==
    /\ \E actor, u \in Users :
          /\ staff[actor] # None /\ u # actor /\ staff[u] # None
          /\ \E change \in [role : {None} \cup Roles, active : {None} \cup BOOLEAN] :
                /\ MayUpdate(actor, staff[actor].role, u, change)
                /\ staff' = [staff EXCEPT ![u] = Changed(@, change)]
    /\ UNCHANGED <<calls, docs, templates, rows, serial, orgs>>

Elsewhere ==
    /\ outside > 0 /\ outside' = outside - 1
    /\ UploadEnds \/ OthersDelete \/ OthersManage
    /\ UNCHANGED <<ui, mount, token, user, plan, clicks>>

-----------------------------------------------------------------------------
Next ==
    \/ Home \/ FollowLink \/ Submit \/ NoToken \/ HandleLogout
    \/ \E view \in Panels : GoTo(view)
    \/ \E d \in Docs : SelectRow(d)
    \/ ClickPanel
    \/ \E i \in DOMAIN calls : Respond(i) \/ Continue(i)
    \/ Elsewhere

\* A page redirects; a fetch is answered or fails, and what waits for it runs: the
\* oldest request is the one that is not put off for ever.  Users owe nothing.
Spec ==
    /\ Init /\ [][Next]_vars
    /\ WF_vars(Home \/ NoToken)
    /\ WF_vars(calls # << >> /\ (Respond(1) \/ Continue(1)))

-----------------------------------------------------------------------------
(* Properties. *)

IsCall(c) ==
    /\ c.by \in 0 .. mount
    /\ c.state \in {"sent", "ok", "refused", "lost"}
    /\ c.state = "sent" => c.data = None

TypeOK ==
    /\ UiOK(ui)
    /\ \A i \in DOMAIN calls : IsCall(calls[i])
    /\ Len(calls) <= MaxCalls + 2
    /\ docs \subseteq Docs /\ templates \subseteq Templates
    /\ rows \subseteq Extractions!AnyRow /\ serial \in 0 .. MaxRows
    /\ staff \in Team!Accounts /\ orgs \in [Orgs -> AdminPanel!Settings]

\* The viewer never shows the details of, or an answer about, another document
\* than the one it is for.  Its requests are not cancelled when it goes: what
\* keeps a late answer out is that two viewers never follow each other without
\* the list, and so a new mount, between them (dashboard, viewer).
ViewerShowsItsDocument == ui.view = "viewer" => Viewer!ShowsItsDocument

\* Whatever says it is loading, asking, deleting, saving or exporting has a
\* request in flight behind it, also when two requests share one flag.
SpinnersAreReal ==
    CASE ui.view = "documents" -> List!SpinnersAreReal
      [] ui.view = "viewer"    -> Viewer!SpinnersAreReal
      [] ui.view = "search"    -> SearchPanel!SpinnersAreReal
      [] ui.view = "extract"   -> Extractions!SpinnersAreReal
      [] ui.view = "compare"   -> Comparison!SpinnersAreReal
      [] ui.view = "ai"        -> Chat!SpinnersAreReal
      [] ui.view = "team"      -> Team!SpinnersAreReal
      [] ui.view = "admin"     -> token # None => AdminPanel!SpinnersAreReal
      [] ui.view = "dashboard" -> token # None => Waiting("dashboard")
      [] ui.view \in {"login", "register"} -> ui.loading => Waiting("handleSubmit")
      [] OTHER                 -> TRUE

\* A panel has one extraction run, and one comparison, under way at a time: each
\* is a paid request to a provider ("Sequential, not Promise.all").
OneProviderCall == Extractions!OneAtATime /\ Comparison!OneAtATime

\* A run extracts what was chosen when it started: one template, each document
\* once, whatever is clicked meanwhile and even after its panel has gone.
RunIsUniform == Extractions!RunIsUniform

\* The extractions that Delete Selected and the exports are about are on the
\* page, with two exceptions: the end of a run selects what the run made, and a
\* filtered listing is shown before the selection is pruned to it, which waits
\* for a second listing (and never comes if that one's body is lost).
SelectionIsShown == [][Extractions!SelectsWhatIsShown]_vars

\* "Show the new rows even if a date filter would hide them, then select only
\* those rows so CSV/Excel export contains just this run": when a run has ended
\* and everything it asked for has come, the rows it selected are on the page.
NewRowsShown ==
    (ui.view = "extract" /\ ui.notice = "ok" /\ calls = << >>)
        => ui.chosen \subseteq IdsOf(ui.rows)

IsOwner(u) == staff[u] # None /\ staff[u].role = "owner" /\ staff[u].active

\* The owner of an organization stays its active owner, whatever managers do to
\* each other's accounts, with tokens as old as they may be, and whoever signs up.
OwnerStays == [][\A u \in Users : IsOwner(u) => IsOwner(u)']_vars

\* What the team panel offers on a row that is up to date, the API accepts.
OfferedIsAllowed == ui.view = "team" => Team!OfferedIsAllowed

\* The assistant's conversation keeps every question until it is answered, and
\* loses no message until another document is chosen.
NoQuestionDropped == ui.view = "ai" => Chat!NoQuestionDropped
ConversationGrows == [][Chat!Grows]_vars

\* Overlapping searches leave no hit expanded that is not on the page.
ExpandedAreHits == ui.view = "search" => SearchPanel!ExpandedAreHits

\* The dashboard is shown to a user's token and the organizations to a platform
\* administrator's: home sends both to the dashboard, and the API tells them
\* apart.
PagesMatchToken ==
    /\ InDashboard => token # None /\ token.account = "user"
    /\ ui.view = "team" => ui.as.user = token.user
    /\ (ui.view = "admin" /\ ui.orgs # None) => token # None /\ token.account = "admin"

\* However requests fail, the tab comes to rest: no redirect goes round, and
\* every request and spinner ends.
ComesToRest == <>[](calls = << >> /\ ui.view \notin {"home", "dashboard"})
=============================================================================
