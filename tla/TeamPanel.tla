----------------------------- MODULE TeamPanel ------------------------------
(***************************************************************************)
(* The members of the organization.  The panel offers what it believes the *)
(* signed-in user may do, from its own table and the rows it has loaded.   *)
(***************************************************************************)
EXTENDS Server

\* `as` is the profile the dashboard loaded; `newRole` the role the form will
\* give, its address and password being there or not (`filled`).
Fresh(as) ==
    [view |-> "team", as |-> as, users |-> [u \in Users |-> None], error |-> FALSE,
     filled |-> FALSE, newRole |-> "member", creating |-> FALSE]

Effect(by) == << Call(by, "load", "GET users", None, None) >>

-----------------------------------------------------------------------------
ASSIGNABLE_AdminsToo ==
    [r \in Roles |-> IF r \in {"owner", "admin"} THEN {"admin", "member", "viewer"}
                     ELSE {}]

ASSIGNABLE ==
    [r \in Roles |-> CASE r = "owner" -> {"admin", "member", "viewer"}
                       [] r = "admin" -> {"member", "viewer"}
                       [] OTHER       -> {}]

Shown      == ui.view = "team"
Assignable == ASSIGNABLE[ui.as.role]
CanManage  == Assignable # {}

Manageable(u) ==
    /\ CanManage /\ ui.users[u] # None /\ u # ui.as.user
    /\ ui.users[u].role # "owner" /\ ui.users[u].role \in Assignable

\* The changes the row of u offers: another role, or the other state.
Offered(u) ==
    IF ~Manageable(u) THEN {}
    ELSE [role : Assignable \ {ui.users[u].role}, active : {None}]
         \cup [role : {None}, active : {~ui.users[u].active}]

FillIn(role) ==
    /\ Shown /\ CanManage /\ role \in Assignable
    /\ ui' = [ui EXCEPT !.filled = TRUE, !.newRole = role]
    /\ UNCHANGED <<mount, calls, token>>

\* The form needs an address and a password; the button is disabled while one
\* account is made.
HandleCreate ==
    /\ Shown /\ CanManage /\ ui.filled /\ ~ui.creating
    /\ ui' = [ui EXCEPT !.error = FALSE, !.creating = TRUE]
    /\ \E u \in Users :
          Fetch("handleCreate", "POST user", [user |-> u, role |-> ui.newRole], None)
    /\ UNCHANGED <<mount, token>>

\* Nothing is disabled while a change is under way.
PatchUser(u) ==
    /\ Shown
    /\ ui' = [ui EXCEPT !.error = FALSE]
    /\ \E change \in Offered(u) :
          Fetch("patchUser", "PATCH user", [user |-> u, change |-> change], None)
    /\ UNCHANGED <<mount, token>>

-----------------------------------------------------------------------------
Loaded(i) == [ui EXCEPT !.users = IF IsOk(i) THEN calls[i].data ELSE @]

Load(i) ==
    /\ Awaited(i, "load")
    /\ SetState(i, Loaded(i))
    /\ Return(i)
    /\ UNCHANGED <<mount, token>>

\* Made: the form is emptied, and the list loaded before the button is released.
Created(i) ==
    /\ Awaited(i, "handleCreate")
    /\ IF IsOk(i)
       THEN /\ SetState(i, [ui EXCEPT !.filled = FALSE, !.newRole = "member"])
            /\ ThenFetch(i, "handleCreate: load", "GET users", None, None)
       ELSE /\ SetState(i, [ui EXCEPT !.error = TRUE, !.creating = FALSE])
            /\ Return(i)
    /\ UNCHANGED <<mount, token>>

\* A lost load is reported as if the account had not been made.
CreatedLoaded(i) ==
    /\ Awaited(i, "handleCreate: load")
    /\ SetState(i, [Loaded(i) EXCEPT !.creating = FALSE,
                       !.error = @ \/ calls[i].state = "lost"])
    /\ Return(i)
    /\ UNCHANGED <<mount, token>>

\* A refused change is reported, a lost one is not.
Patched(i) ==
    /\ Awaited(i, "patchUser")
    /\ IF IsOk(i)
       THEN ThenFetch(i, "load", "GET users", None, None) /\ UNCHANGED ui
       ELSE /\ SetState(i, IF calls[i].state = "refused"
                           THEN [ui EXCEPT !.error = TRUE] ELSE ui)
            /\ Return(i)
    /\ UNCHANGED <<mount, token>>

-----------------------------------------------------------------------------
Click ==
    \/ \E r \in Roles : FillIn(r)
    \/ HandleCreate
    \/ \E u \in Users : PatchUser(u)

Continue(i) == Load(i) \/ Created(i) \/ CreatedLoaded(i) \/ Patched(i)

-----------------------------------------------------------------------------
Accounts == [Users -> {None} \cup [role : Roles, active : BOOLEAN]]

States ==
    [view : {"team"}, as : [user : Users, role : Roles], users : Accounts,
     error : BOOLEAN, filled : BOOLEAN, newRole : Roles, creating : BOOLEAN]

SpinnersAreReal ==
    ui.creating => Waiting("handleCreate") \/ Waiting("handleCreate: load")

\* The panel and the API agree on who may do what: a change offered on a row
\* that is up to date is one the API accepts, if the token still has the role
\* the panel was given.
OfferedIsAllowed ==
    (Shown /\ token.role = ui.as.role) =>
        \A u \in Users :
            ui.users[u] = staff[u] =>
                \A change \in Offered(u) : MayUpdate(token.user, token.role, u, change)
=============================================================================
