----------------------------- MODULE AdminPage ------------------------------
(***************************************************************************)
(* The page of the platform administrator: the organizations, what is set  *)
(* for each, and a look at the documents of one.                           *)
(***************************************************************************)
EXTENDS Server

CONSTANT Quotas  \* page quotas an administrator types; positive ones are valid

\* orgs is None until the list has come; drafts are the quotas being typed.
Fresh ==
    [view |-> "admin", orgs |-> None, expanded |-> None, docs |-> None,
     error |-> FALSE, drafts |-> [o \in Orgs |-> None]]

\* getMe and loadOrgs.
Effect(by) == << Call(by, "admin: getMe", "GET platform-admin/me", None, None),
                 Call(by, "admin: loadOrgs", "GET orgs", None, None) >>

-----------------------------------------------------------------------------
Shown == ui.view = "admin" /\ ui.orgs # None

TOGGLE_FIELDS == {"suspended", "extraction"}

\* updateOrganization with one field.
Update(then, o, field, value) ==
    /\ ui' = [ui EXCEPT !.error = FALSE]
    /\ Fetch(then, "PATCH org", [org |-> o, field |-> field, value |-> value], None)

\* The opposite of what the page shows is sent; nothing is disabled meanwhile.
HandleToggle(o, field) ==
    /\ Shown
    /\ Update("handleToggle", o, field, ~ui.orgs[o][field])
    /\ UNCHANGED <<mount, token>>

TypeQuota(o, q) ==
    /\ Shown /\ q # ui.drafts[o]
    /\ ui' = [ui EXCEPT !.drafts[o] = q]
    /\ UNCHANGED <<mount, calls, token>>

\* Leaving the field: a bad quota is reported, the same one drops the draft, and
\* another is sent.
HandleQuotaSave(o) ==
    LET draft == ui.drafts[o]
    IN  /\ Shown /\ draft # None
        /\ \/ /\ draft <= 0
              /\ ui' = [ui EXCEPT !.error = TRUE]
              /\ UNCHANGED calls
           \/ /\ draft > 0 /\ draft = ui.orgs[o].quota
              /\ ui' = [ui EXCEPT !.drafts[o] = None]
              /\ UNCHANGED calls
           \/ /\ draft > 0 /\ draft # ui.orgs[o].quota
              /\ Update("handleQuotaSave", o, "quota", draft)
        /\ UNCHANGED <<mount, token>>

\* View and Hide.  The documents shown before stay until the new ones come.
ToggleDocuments(o) ==
    /\ Shown
    /\ IF ui.expanded = o
       THEN ui' = [ui EXCEPT !.expanded = None, !.docs = None] /\ UNCHANGED calls
       ELSE /\ ui' = [ui EXCEPT !.expanded = o]
            /\ Fetch("toggleDocuments", "GET org documents", o, None)
    /\ UNCHANGED <<mount, token>>

-----------------------------------------------------------------------------
\* A list that is refused sends the tab to the sign-in page; see WebApp.
OrgsLoaded(i) ==
    /\ Awaited(i, "admin: loadOrgs") /\ IsOk(i)
    /\ SetState(i, [ui EXCEPT !.orgs = calls[i].data])
    /\ Return(i)
    /\ UNCHANGED <<mount, token>>

AdminKnown(i) ==
    /\ Awaited(i, "admin: getMe") /\ IsOk(i)
    /\ Return(i)
    /\ UNCHANGED <<ui, mount, token>>

\* The whole row is replaced by the answer.
Replaced(i) ==
    [ui EXCEPT !.orgs = [ui.orgs EXCEPT ![calls[i].arg.org] = calls[i].data]]

Toggled_Unchecked(i) ==
    /\ Awaited(i, "handleToggle")
    /\ SetState(i, Replaced(i))
    /\ Return(i)
    /\ UNCHANGED <<mount, token>>

Toggled(i) ==
    /\ Awaited(i, "handleToggle")
    /\ SetState(i, IF IsOk(i) THEN Replaced(i) ELSE [ui EXCEPT !.error = TRUE])
    /\ Return(i)
    /\ UNCHANGED <<mount, token>>

\* The draft goes even if another has been typed meanwhile.
QuotaSaved(i) ==
    /\ Awaited(i, "handleQuotaSave")
    /\ SetState(i, IF IsOk(i) THEN [Replaced(i) EXCEPT !.drafts[calls[i].arg.org] = None]
                   ELSE [ui EXCEPT !.error = TRUE])
    /\ Return(i)
    /\ UNCHANGED <<mount, token>>

\* The documents are those of the organization asked for, whichever is expanded
\* by now.
DocumentsShown(i) ==
    /\ Awaited(i, "toggleDocuments")
    /\ SetState(i, [ui EXCEPT !.docs = calls[i].data])
    /\ Return(i)
    /\ UNCHANGED <<mount, token>>

-----------------------------------------------------------------------------
Click ==
    \E o \in Orgs :
        \/ \E f \in TOGGLE_FIELDS : HandleToggle(o, f)
        \/ \E q \in Quotas : TypeQuota(o, q)
        \/ HandleQuotaSave(o) \/ ToggleDocuments(o)

Continue(i) ==
    OrgsLoaded(i) \/ AdminKnown(i) \/ Toggled(i) \/ QuotaSaved(i) \/ DocumentsShown(i)

-----------------------------------------------------------------------------
Settings == [suspended : BOOLEAN, extraction : BOOLEAN, quota : Quotas]

States ==
    [view : {"admin"}, orgs : {None} \cup [Orgs -> Settings],
     expanded : Orgs \cup {None}, docs : Orgs \cup {None}, error : BOOLEAN,
     drafts : [Orgs -> Quotas \cup {None}]]

SpinnersAreReal == ui.orgs = None => Waiting("admin: loadOrgs")
=============================================================================
