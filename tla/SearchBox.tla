----------------------------- MODULE SearchBox ------------------------------
(***************************************************************************)
(* The search box.  As in the assistant, the button is released when the   *)
(* headers of an answer arrive, before its body.                           *)
(***************************************************************************)
EXTENDS DocumentSelector

\* `results` is the answer shown: the scope it was asked for and its hits.
Fresh == [view |-> "search", menu |-> {}, docFilter |-> None, results |-> None,
          loading |-> FALSE, error |-> FALSE, expanded |-> {}]

Effect(by) == SelectorEffect(by)

-----------------------------------------------------------------------------
Shown == ui.view = "search"

SelectDocument(d) ==
    /\ Shown /\ d \in Offered \ {ui.docFilter}
    /\ ui' = [ui EXCEPT !.docFilter = d]
    /\ UNCHANGED <<mount, calls, token>>

\* The button, and with it the form, is disabled while loading.
CanSearch == Shown /\ ~ui.loading

\* A query is typed and sent.
HandleSearch ==
    /\ CanSearch
    /\ ui' = [ui EXCEPT !.loading = TRUE, !.error = FALSE]
    /\ Fetch("SearchBox", "GET search", ui.docFilter, None)
    /\ UNCHANGED <<mount, token>>

\* Hits are known by their place; one per document stands for the list.
HitsShown == IF Shown /\ ui.results # None THEN ui.results.hits ELSE {}

ToggleExpand(h) ==
    /\ h \in HitsShown
    /\ ui' = [ui EXCEPT !.expanded = Toggle(@, h)]
    /\ UNCHANGED <<mount, calls, token>>

-----------------------------------------------------------------------------
Headers(i) ==
    /\ Awaited(i, "SearchBox") /\ IsOk(i)
    /\ SetState(i, [ui EXCEPT !.loading = FALSE])
    /\ ThenFetch(i, "SearchBox: body", "body", calls[i].data, None)
    /\ UNCHANGED <<mount, token>>

Failed(i) ==
    /\ ~IsOk(i)
    /\ Awaited(i, "SearchBox") \/ Awaited(i, "SearchBox: body")
    /\ SetState(i, [ui EXCEPT !.loading = FALSE, !.error = TRUE])
    /\ Return(i)
    /\ UNCHANGED <<mount, token>>

Results_StillExpanded(i) ==
    /\ Awaited(i, "SearchBox: body") /\ IsOk(i)
    /\ SetState(i, [ui EXCEPT !.results = calls[i].data])
    /\ Return(i)
    /\ UNCHANGED <<mount, token>>

\* The body: new results, none of them expanded.
Results(i) ==
    /\ Awaited(i, "SearchBox: body") /\ IsOk(i)
    /\ SetState(i, [ui EXCEPT !.results = calls[i].data, !.expanded = {}])
    /\ Return(i)
    /\ UNCHANGED <<mount, token>>

-----------------------------------------------------------------------------
Click ==
    \/ \E d \in Docs \cup {None} : SelectDocument(d)
    \/ HandleSearch
    \/ \E h \in Docs : ToggleExpand(h)

Continue(i) == SelectorLoaded(i) \/ Headers(i) \/ Failed(i) \/ Results(i)

-----------------------------------------------------------------------------
States ==
    [view : {"search"}, menu : SUBSET Docs, docFilter : Docs \cup {None},
     results : {None} \cup [scope : Docs \cup {None}, hits : SUBSET Docs],
     loading : BOOLEAN, error : BOOLEAN, expanded : SUBSET Docs]

SpinnersAreReal == ui.loading => Waiting("SearchBox")

\* Only hits of the results on the page are expanded, even when the answers of
\* two searches overlap.
ExpandedAreHits ==
    ui.expanded \subseteq HitsShown
=============================================================================
