------------------------------- MODULE AiChat -------------------------------
(***************************************************************************)
(* The assistant: a conversation about one document or all of them.  An    *)
(* answer arrives in two steps, its headers and its body, and the panel is *)
(* released after the first.                                               *)
(***************************************************************************)
EXTENDS DocumentSelector

Fresh == [view |-> "ai", menu |-> {}, messages |-> << >>, loading |-> FALSE,
          docFilter |-> None]

Effect(by) == SelectorEffect(by)

\* A message is a question ("user"), the notice that a summary is being made
\* ("system"), or an answer or apology ("assistant").
Speakers == {"user", "system", "assistant"}

Said(role) == [ui EXCEPT !.messages = Append(@, role)]

-----------------------------------------------------------------------------
Shown == ui.view = "ai"

\* The form is disabled while loading; Summarize is shown for a selected
\* document, and disabled too.
CanSend      == Shown /\ ~ui.loading
CanSummarize == Shown /\ ui.docFilter # None /\ ~ui.loading

\* A question is typed and sent.
HandleSubmit ==
    /\ CanSend
    /\ ui' = [Said("user") EXCEPT !.loading = TRUE]
    /\ Fetch("AiChat", "POST ai", [doc |-> ui.docFilter, what |-> "ask"], None)
    /\ UNCHANGED <<mount, token>>

HandleSummarize ==
    /\ CanSummarize
    /\ ui' = [Said("system") EXCEPT !.loading = TRUE]
    /\ Fetch("AiChat", "POST ai", [doc |-> ui.docFilter, what |-> "summarize"], None)
    /\ UNCHANGED <<mount, token>>

\* Choosing in the menu starts a new conversation, whatever is still awaited.
SelectDocument(d) ==
    /\ Shown /\ d \in Offered \ {ui.docFilter}
    /\ ui' = [ui EXCEPT !.docFilter = d, !.messages = << >>]
    /\ UNCHANGED <<mount, calls, token>>

-----------------------------------------------------------------------------
\* The headers of a good answer: loading ends, and the body is read.
Headers(i) ==
    /\ Awaited(i, "AiChat") /\ IsOk(i)
    /\ SetState(i, [ui EXCEPT !.loading = FALSE])
    /\ ThenFetch(i, "AiChat: body", "body", calls[i].data, None)
    /\ UNCHANGED <<mount, token>>

Failed_Silently(i) ==
    /\ ~IsOk(i)
    /\ Awaited(i, "AiChat") \/ Awaited(i, "AiChat: body")
    /\ SetState(i, [ui EXCEPT !.loading = FALSE])
    /\ Return(i)
    /\ UNCHANGED <<mount, token>>

\* A refusal, a request that is lost, or a body that is.
Failed(i) ==
    /\ ~IsOk(i)
    /\ Awaited(i, "AiChat") \/ Awaited(i, "AiChat: body")
    /\ SetState(i, [Said("assistant") EXCEPT !.loading = FALSE])
    /\ Return(i)
    /\ UNCHANGED <<mount, token>>

Answered_FromCapture(i) ==
    /\ Awaited(i, "AiChat: body") /\ IsOk(i)
    /\ SetState(i, [ui EXCEPT !.messages = <<"user", "assistant">>])
    /\ Return(i)
    /\ UNCHANGED <<mount, token>>

Answered(i) ==
    /\ Awaited(i, "AiChat: body") /\ IsOk(i)
    /\ SetState(i, Said("assistant"))
    /\ Return(i)
    /\ UNCHANGED <<mount, token>>

-----------------------------------------------------------------------------
Click == HandleSubmit \/ HandleSummarize \/ \E d \in Docs \cup {None} : SelectDocument(d)

Continue(i) == SelectorLoaded(i) \/ Headers(i) \/ Failed(i) \/ Answered(i)

-----------------------------------------------------------------------------
States ==
    [view : {"ai"}, menu : SUBSET Docs,
     messages : Seq(Speakers),
     loading : BOOLEAN, docFilter : Docs \cup {None}]

SpinnersAreReal == ui.loading => Waiting("AiChat")

Asked == {k \in DOMAIN ui.messages : ui.messages[k] # "assistant"}
Given == {k \in DOMAIN ui.messages : ui.messages[k] = "assistant"}

\* Every question on the page has its answer or an apology below, or a request
\* that will bring one: none is dropped, whatever fails and however answers
\* overlap.
NoQuestionDropped ==
    Cardinality(Asked) <= Cardinality(Given)
        + Cardinality({j \in Own : calls[j].then \in {"AiChat", "AiChat: body"}})

\* A conversation only grows, until another document is chosen for it.
Grows ==
    (ui.view = "ai" /\ mount' = mount /\ ui'.docFilter = ui.docFilter)
        => /\ Len(ui.messages) <= Len(ui'.messages)
           /\ \A k \in DOMAIN ui.messages : ui'.messages[k] = ui.messages[k]
=============================================================================
