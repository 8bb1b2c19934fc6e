--------------------------- MODULE DocumentViewer ---------------------------
(***************************************************************************)
(* The viewer of one document, with its export button and its AI panel.    *)
(* Finding and highlighting text on the page is left out.                  *)
(***************************************************************************)
EXTENDS Server

Fresh(d) ==
    [view |-> "viewer", doc |-> d, detail |-> None, loading |-> TRUE,
     tab |-> "preview", mode |-> "ask", question |-> FALSE, answer |-> None,
     asking |-> FALSE, exporting |-> FALSE]

\* The effect on doc.id; it is not cancelled when the viewer goes.
Effect(by, d) == << Call(by, "viewer", "GET document", d, None) >>

-----------------------------------------------------------------------------
Shown == ui.view = "viewer" /\ ~ui.loading

\* A PDF or an image whose preview could be signed.  The type is not told apart.
CanPreview == ui.detail # None /\ ui.detail.preview

\* The tabs of the left side.
ShowTab(t) ==
    /\ Shown /\ t # ui.tab
    /\ t = "preview" => CanPreview
    /\ ui' = [ui EXCEPT !.tab = t]
    /\ UNCHANGED <<mount, calls, token>>

\* DocExportButton.
HandleExport ==
    /\ Shown /\ ~ui.exporting
    /\ ui' = [ui EXCEPT !.exporting = TRUE]
    /\ Fetch("DocExportButton", "POST documents/bulk", {ui.doc}, None)
    /\ UNCHANGED <<mount, token>>

\* DocAiPanel.  The question is there or not.
TypeQuestion ==
    /\ Shown /\ ui.mode = "ask" /\ ~ui.question
    /\ ui' = [ui EXCEPT !.question = TRUE]
    /\ UNCHANGED <<mount, calls, token>>

SetMode(m) ==
    /\ Shown /\ m # ui.mode
    /\ ui' = [ui EXCEPT !.mode = m]
    /\ UNCHANGED <<mount, calls, token>>

\* The Ask button is disabled while an answer is awaited, the Enter key is not;
\* a summary is offered only while no answer is shown.
CanAsk ==
    /\ Shown
    /\ \/ ui.mode = "ask" /\ ui.question
       \/ ui.mode = "summarize" /\ ui.answer = None /\ ~ui.asking

HandleAsk ==
    /\ CanAsk
    /\ ui' = [ui EXCEPT !.asking = TRUE, !.answer = None]
    /\ Fetch("DocAiPanel", "POST ai", [doc |-> ui.doc, what |-> ui.mode], None)
    /\ UNCHANGED <<mount, token>>

-----------------------------------------------------------------------------
\* r.json() is set whatever the status: an error answer is a detail with neither
\* preview nor text.
Detail(i) ==
    IF IsOk(i) THEN calls[i].data ELSE [doc |-> None, preview |-> FALSE]

Load(i) ==
    /\ Awaited(i, "viewer")
    /\ SetState(i, [ui EXCEPT
           !.detail = IF calls[i].state = "lost" THEN @ ELSE Detail(i),
           !.loading = FALSE])
    /\ Return(i)
    /\ UNCHANGED <<mount, token>>

Exported(i) ==
    /\ Awaited(i, "DocExportButton")
    /\ SetState(i, [ui EXCEPT !.exporting = FALSE])
    /\ Return(i)
    /\ UNCHANGED <<mount, token>>

\* The answer, the status of a refusal, or "Failed to connect".
Answered(i) ==
    /\ Awaited(i, "DocAiPanel")
    /\ SetState(i, [ui EXCEPT
           !.answer = IF IsOk(i) THEN calls[i].data
                      ELSE [doc |-> None, what |-> "failure"],
           !.asking = FALSE])
    /\ Return(i)
    /\ UNCHANGED <<mount, token>>

-----------------------------------------------------------------------------
Click ==
    \/ \E t \in {"preview", "text"} : ShowTab(t)
    \/ \E m \in {"ask", "summarize"} : SetMode(m)
    \/ HandleExport \/ TypeQuestion \/ HandleAsk

Continue(i) == Load(i) \/ Exported(i) \/ Answered(i)

-----------------------------------------------------------------------------
States ==
    [view : {"viewer"}, doc : Docs,
     detail : {None} \cup [doc : Docs \cup {None}, preview : BOOLEAN],
     loading : BOOLEAN, tab : {"preview", "text"}, mode : {"ask", "summarize"},
     question : BOOLEAN,
     answer : {None} \cup [doc : Docs \cup {None},
                           what : {"ask", "summarize", "failure"}],
     asking : BOOLEAN, exporting : BOOLEAN]

SpinnersAreReal ==
    /\ ui.loading => Waiting("viewer")
    /\ ui.asking => Waiting("DocAiPanel")
    /\ ui.exporting => Waiting("DocExportButton")

\* What the viewer shows, its details and its answers, is about its document.
ShowsItsDocument ==
    /\ ui.detail # None => ui.detail.doc \in {ui.doc, None}
    /\ ui.answer # None => ui.answer.doc \in {ui.doc, None}
=============================================================================
