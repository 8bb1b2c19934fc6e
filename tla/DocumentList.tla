---------------------------- MODULE DocumentList ----------------------------
(***************************************************************************)
(* The document list of the dashboard: what is shown and selected, and the *)
(* bulk actions on the selection.                                          *)
(***************************************************************************)
EXTENDS Server

Fresh == [view |-> "documents", docs |-> {}, selected |-> {}, loading |-> TRUE,
          action |-> None]

\* The effect: the documents are fetched on mount and for each refreshKey.
Effect(by) == << Call(by, "fetchDocs", "GET documents", None, None) >>

-----------------------------------------------------------------------------
\* The table, with its check boxes and rows, is shown when the list is there.
Shown == ui.view = "documents" /\ ~ui.loading /\ ui.docs # {}

\* The bulk actions are shown with a selection; each is disabled only while it
\* is itself the one under way.
Offers(action) == Shown /\ ui.selected # {} /\ ui.action # action

ToggleSelect(d) ==
    /\ Shown /\ d \in ui.docs
    /\ ui' = [ui EXCEPT !.selected = Toggle(@, d)]
    /\ UNCHANGED <<mount, calls, token>>

\* The box at the head compares how many are selected, not which.
ToggleAll ==
    /\ Shown
    /\ ui' = [ui EXCEPT !.selected =
                IF Cardinality(@) = Cardinality(ui.docs) THEN {} ELSE ui.docs]
    /\ UNCHANGED <<mount, calls, token>>

\* Refresh is shown while nothing is selected.
Refresh ==
    /\ Shown /\ ui.selected = {}
    /\ Fetch("fetchDocs", "GET documents", None, None)
    /\ UNCHANGED <<ui, mount, token>>

BulkAction(action, op) ==
    /\ Offers(action)
    /\ ui' = [ui EXCEPT !.action = action]
    /\ Fetch(action, op, ui.selected, None)
    /\ UNCHANGED <<mount, token>>

HandleBulkDownload == BulkAction("download", "POST documents/bulk")
HandleBulkExport   == BulkAction("export", "POST documents/bulk")
HandleBulkDelete   == BulkAction("delete", "POST documents/bulk/delete")

-----------------------------------------------------------------------------
\* What fetchDocs does with its answer.
Loaded(i) ==
    [ui EXCEPT !.docs = IF IsOk(i) THEN calls[i].data ELSE @, !.loading = FALSE]

FetchDocs_KeepsWaiting(i) ==
    /\ Awaited(i, "fetchDocs")
    /\ SetState(i, IF IsOk(i) THEN Loaded(i) ELSE ui)
    /\ Return(i)
    /\ UNCHANGED <<mount, token>>

FetchDocs(i) ==
    /\ Awaited(i, "fetchDocs")
    /\ SetState(i, Loaded(i))
    /\ Return(i)
    /\ UNCHANGED <<mount, token>>

\* handleBulkDownload and handleBulkExport: what went wrong is ignored.
BulkActionDone(i) ==
    /\ Awaited(i, "download") \/ Awaited(i, "export")
    /\ SetState(i, [ui EXCEPT !.action = None])
    /\ Return(i)
    /\ UNCHANGED <<mount, token>>

\* handleBulkDelete: a refused deletion changes nothing; otherwise the selection
\* is dropped and the list fetched again before the button is released.
BulkDeleteDone(i) ==
    /\ Awaited(i, "delete")
    /\ IF IsOk(i)
       THEN /\ SetState(i, [ui EXCEPT !.selected = {}])
            /\ ThenFetch(i, "delete: fetchDocs", "GET documents", None, None)
       ELSE /\ SetState(i, [ui EXCEPT !.action = None])
            /\ Return(i)
    /\ UNCHANGED <<mount, token>>

DeletedLoaded(i) ==
    /\ Awaited(i, "delete: fetchDocs")
    /\ SetState(i, [Loaded(i) EXCEPT !.action = None])
    /\ Return(i)
    /\ UNCHANGED <<mount, token>>

-----------------------------------------------------------------------------
Click ==
    \/ \E d \in Docs : ToggleSelect(d)
    \/ ToggleAll \/ Refresh
    \/ HandleBulkDownload \/ HandleBulkExport \/ HandleBulkDelete

Continue(i) ==
    FetchDocs(i) \/ BulkActionDone(i) \/ BulkDeleteDone(i) \/ DeletedLoaded(i)

-----------------------------------------------------------------------------
States ==
    [view : {"documents"}, docs : SUBSET Docs, selected : SUBSET Docs,
     loading : BOOLEAN, action : {None, "download", "export", "delete"}]

\* A spinner, or a button showing "...", has a request of its panel behind it.
SpinnersAreReal ==
    /\ ui.loading => Waiting("fetchDocs")
    /\ ui.action # None =>
          \E t \in {"download", "export", "delete", "delete: fetchDocs"} : Waiting(t)
=============================================================================
