-------------------------- MODULE DocumentCompare ---------------------------
(***************************************************************************)
(* Comparing two documents.  The difference of the texts is computed by a  *)
(* library and is left out.                                                *)
(***************************************************************************)
EXTENDS Server

Fresh == [view |-> "compare", docs |-> {}, docA |-> None, docB |-> None,
          result |-> None, loading |-> FALSE, error |-> FALSE]

Effect(by) == << Call(by, "compare: documents", "GET documents", None, None) >>

-----------------------------------------------------------------------------
Shown == ui.view = "compare"

SelectA(d) ==
    /\ Shown /\ d \in (ui.docs \cup {None}) \ {ui.docA}
    /\ ui' = [ui EXCEPT !.docA = d]
    /\ UNCHANGED <<mount, calls, token>>

\* The second menu leaves out the first one's document; choosing the first
\* afterwards may still make them equal.
SelectB(d) ==
    /\ Shown /\ d \in ((ui.docs \ {ui.docA}) \cup {None}) \ {ui.docB}
    /\ ui' = [ui EXCEPT !.docB = d]
    /\ UNCHANGED <<mount, calls, token>>

\* The button wants two documents, and no comparison under way.
CanCompare ==
    Shown /\ None \notin {ui.docA, ui.docB} /\ ui.docA # ui.docB /\ ~ui.loading

HandleCompare ==
    /\ CanCompare
    /\ ui' = [ui EXCEPT !.loading = TRUE, !.error = FALSE, !.result = None]
    /\ Fetch("handleCompare", "POST compare", {ui.docA, ui.docB}, None)
    /\ UNCHANGED <<mount, token>>

-----------------------------------------------------------------------------
DocsLoaded(i) ==
    /\ Awaited(i, "compare: documents")
    /\ SetState(i, [ui EXCEPT !.docs =
           CASE calls[i].state = "ok"      -> calls[i].data
             [] calls[i].state = "refused" -> {}
             [] OTHER                      -> @])
    /\ Return(i)
    /\ UNCHANGED <<mount, token>>

Compared(i) ==
    /\ Awaited(i, "handleCompare")
    /\ SetState(i, [ui EXCEPT !.loading = FALSE,
           !.result = IF IsOk(i) THEN calls[i].data ELSE @,
           !.error = ~IsOk(i)])
    /\ Return(i)
    /\ UNCHANGED <<mount, token>>

-----------------------------------------------------------------------------
Click ==
    \/ \E d \in Docs \cup {None} : SelectA(d) \/ SelectB(d)
    \/ HandleCompare

Continue(i) == DocsLoaded(i) \/ Compared(i)

-----------------------------------------------------------------------------
States ==
    [view : {"compare"}, docs : SUBSET Docs, docA : Docs \cup {None},
     docB : Docs \cup {None}, result : {None} \cup SUBSET Docs,
     loading : BOOLEAN, error : BOOLEAN]

SpinnersAreReal == ui.loading => Waiting("handleCompare")

\* The request for a comparison is made to a provider: never two at once.
OneAtATime == Cardinality({j \in Own : calls[j].then = "handleCompare"}) <= 1
=============================================================================
