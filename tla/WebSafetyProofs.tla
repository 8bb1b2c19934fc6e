--------------------------- MODULE WebSafetyProofs ---------------------------
(***************************************************************************)
(* What takes the tab several steps: the conversation and the questions it *)
(* waits for, the rows that are selected, how many fetches there can be,   *)
(* and what a run of the extractions panel makes.                          *)
(***************************************************************************)
EXTENDS WebAppProofs

-----------------------------------------------------------------------------
(* What a step never does to a conversation, and to a selection. *)

\* The conversation after a step of the assistant that stays with its document.
LEMMA ChatSays ==
    ASSUME ui \in Chat!States, ui'.docFilter = ui.docFilter,
           \/ Chat!Click
           \/ \E i \in Own : \/ Chat!Headers(i) \/ Chat!Failed(i) \/ Chat!Answered(i)
                             \/ SearchPanel!SelectorLoaded(i)
    PROVE  \/ ui'.messages = ui.messages
           \/ \E role \in Chat!Speakers : ui'.messages = Append(ui.messages, role)
<1>1. CASE Chat!HandleSubmit \/ Chat!HandleSummarize
  <2>1. \E role \in {"user", "system"} : ui' = [Chat!Said(role) EXCEPT !.loading = TRUE]
    BY <1>1 DEF Chat!HandleSubmit, Chat!HandleSummarize
  <2> QED
    BY <2>1 DEF Chat!Said, Chat!States, Chat!Speakers
<1>2. ASSUME NEW d, Chat!SelectDocument(d)
      PROVE  FALSE
  BY <1>2 DEF Chat!SelectDocument, Chat!States
<1>3. ASSUME NEW i \in Own, Chat!Headers(i) \/ Chat!Failed(i) \/ Chat!Answered(i)
      PROVE  ui'.messages \in {ui.messages, Append(ui.messages, "assistant")}
  <2>1. \/ ui' = [ui EXCEPT !.loading = FALSE]
        \/ ui' = [Chat!Said("assistant") EXCEPT !.loading = FALSE]
        \/ ui' = Chat!Said("assistant")
    BY <1>3, ChatShared, OwnState DEF Chat!Headers, Chat!Failed, Chat!Answered
  <2> QED
    BY <2>1 DEF Chat!Said, Chat!States
<1>4. ASSUME NEW i \in Own, SearchPanel!SelectorLoaded(i)
      PROVE  ui'.messages = ui.messages
  <2>1. \E menu : ui' = [ui EXCEPT !.menu = menu]
    BY <1>4, SearchShared, OwnState DEF SearchPanel!SelectorLoaded
  <2> QED
    BY <2>1 DEF Chat!States
<1>5. "assistant" \in Chat!Speakers
  BY DEF Chat!Speakers
<1> QED
  BY <1>1, <1>2, <1>3, <1>4, <1>5 DEF Chat!Click

\* A step that leaves another component mounted, or this one as it is.
LEMMA StepsHere ==
    ASSUME TabInv, TabInv', [Next]_vars, mount' = mount, InDashboard
    PROVE  \/ ui' = ui /\ Quiet
           \/ ClickPanel
           \/ \E i \in Own : ContinuePanel(i)
<1>0. mount \in Nat
  BY DEF TabInv, CallsOK
<1>1. ~Opens
  BY <1>0 DEF Opens
<1>2. ~Loads
  <2> SUFFICES ASSUME Loads PROVE FALSE
    OBVIOUS
  <2>1. mount' = mount + 1
    BY LoadsFresh
  <2> QED
    BY <1>0, <2>1
<1>3. ~Submit
  BY DEF Submit, CanSubmit, InDashboard, Panels
<1>4. \A i \in DOMAIN calls : ~(SignInFailed(i) /\ calls[i].by = mount)
  <2> SUFFICES ASSUME NEW i \in DOMAIN calls, SignInFailed(i), calls[i].by = mount
               PROVE  FALSE
    OBVIOUS
  <2>1. calls[i].then = "handleSubmit"
    BY DEF SignInFailed, Awaited
  <2>2. calls[i].then \in Thens(ui.view) \cup {"handleLogout"}
    BY DEF TabInv, CallsOK, GoodCalls, InTab
  <2> QED
    BY <2>1, <2>2 DEF Thens, InDashboard, Panels
<1>5. Quiet => ui' = ui
  BY QuietKeeps
<1> QED
  BY <1>1, <1>2, <1>3, <1>4, <1>5, Steps DEF Own

\* The assistant's conversation loses no message, whatever is answered late or
\* twice, until another document is chosen for it.
THEOREM ConversationKept == Spec => ConversationGrows
<1>1. ASSUME TabInv, TabInv', [Next]_vars
      PROVE  Chat!Grows
  <2> SUFFICES ASSUME ui.view = "ai", mount' = mount, ui'.docFilter = ui.docFilter
               PROVE  /\ Len(ui.messages) <= Len(ui'.messages)
                      /\ \A k \in DOMAIN ui.messages : ui'.messages[k] = ui.messages[k]
    BY DEF Chat!Grows
  <2>1. ui \in Chat!States /\ InDashboard
    BY <1>1, Typed DEF TabInv, InDashboard, Panels
  <2>2. ui.messages \in Seq(Chat!Speakers)
    BY <2>1 DEF Chat!States
  <2>3. \/ ui'.messages = ui.messages
        \/ \E role \in Chat!Speakers : ui'.messages = Append(ui.messages, role)
    <3>1. CASE ui' = ui
      BY <3>1
    <3>2. CASE ClickPanel
      BY <1>1, <2>1, <3>2, ClickView, ChatSays
    <3>3. CASE \E i \in Own : ContinuePanel(i)
      <4>1. PICK i \in Own : ContinuePanel(i)
        BY <3>3
      <4>2. i \in DOMAIN calls /\ calls[i].by = mount
        BY DEF Own
      <4>3. \/ Chat!Headers(i) \/ Chat!Failed(i) \/ Chat!Answered(i)
            \/ SearchPanel!SelectorLoaded(i)
        BY <1>1, <4>1, <4>2, ContinueView
      <4> QED
        BY <2>1, <4>3, ChatSays
    <3> QED
      BY <1>1, <2>1, <3>1, <3>2, <3>3, StepsHere
  <2>4. ASSUME NEW role \in Chat!Speakers
        PROVE  /\ Len(Append(ui.messages, role)) = Len(ui.messages) + 1
               /\ \A k \in 1 .. Len(ui.messages) :
                     Append(ui.messages, role)[k] = ui.messages[k]
    BY <2>2, AppendProperties
  <2>5. Len(ui.messages) \in Nat /\ DOMAIN ui.messages = 1 .. Len(ui.messages)
    BY <2>2
  <2> QED
    BY <2>3, <2>4, <2>5
<1>2. TabInv /\ TabInv' /\ [Next]_vars => [Chat!Grows]_vars
  BY <1>1
<1> QED
  BY <1>2, TabAlways, PTL DEF Spec, ConversationGrows

\* What is selected out of sight is not more than before.
HidesNoMore ==
    \/ ui'.chosen \subseteq ui.chosen /\ ui'.rows = ui.rows
    \/ ui'.chosen \subseteq IdsOf(ui'.rows)
    \/ /\ ui'.rows = ui.rows
       /\ \E x \in IdsOf(ui.rows) : ui'.chosen \subseteq ui.chosen \cup {x}

\* A click in the extractions panel hides no row that is selected.
LEMMA ClickHidesNoMore ==
    ASSUME ui \in Extractions!States,
           \/ Extractions!ClickForm \/ Extractions!ClickRun \/ Extractions!ClickResults
    PROVE  HidesNoMore
<1> DEFINE Keeps == ui'.chosen = ui.chosen /\ ui'.rows = ui.rows
<1>0. \A r : Extractions!IdsOf(r) = IdsOf(r)
  BY DEF Extractions!IdsOf, IdsOf
<1>1. CASE Extractions!ClickForm
  <2>1. ASSUME Extractions!SubmitForm PROVE Keeps
    BY <2>1 DEF Extractions!SubmitForm, Extractions!States
  <2>2. ASSUME NEW t, \/ Extractions!EditTemplate(t) \/ Extractions!NewTemplate
        PROVE  Keeps
    BY <2>2 DEF Extractions!EditTemplate, Extractions!NewTemplate, Extractions!Turn,
                Extractions!Change, Extractions!States
  <2>3. ASSUME Extractions!CancelForm PROVE Keeps
    BY <2>3 DEF Extractions!CancelForm, Extractions!Change, Extractions!States
  <2>4. ASSUME NEW v, Extractions!FillForm(v)
        PROVE  Keeps
    BY <2>4 DEF Extractions!FillForm, Extractions!Change, Extractions!States
  <2>5. ASSUME NEW t, Extractions!HandleDeleteTemplate(t)
        PROVE  Keeps
    BY <2>5 DEF Extractions!HandleDeleteTemplate
  <2>6. Keeps
    BY <1>1, <2>1, <2>2, <2>3, <2>4, <2>5 DEF Extractions!ClickForm
  <2> QED
    BY <2>6 DEF HidesNoMore
<1>2. CASE Extractions!ClickRun
  <2>1. Keeps
    BY <1>2 DEF Extractions!ClickRun, Extractions!SelectTemplate, Extractions!ToggleDoc,
       Extractions!ToggleAllDocs, Extractions!HandleExtract, Extractions!Change,
       Extractions!States
  <2> QED
    BY <2>1 DEF HidesNoMore
<1>3. CASE Extractions!ToggleAllExtractions
  <2>1. /\ ui'.rows = ui.rows
        /\ ui'.chosen = Extractions!Toggled(ui.chosen, IdsOf(ui.rows))
    BY <1>0, <1>3 DEF Extractions!ToggleAllExtractions, Extractions!Change, Extractions!States
  <2>2. \A a, b : Extractions!Toggled(a, b) \subseteq b
    BY DEF Extractions!Toggled
  <2> QED
    BY <2>1, <2>2 DEF HidesNoMore
<1>4. ASSUME NEW id, Extractions!ToggleExtraction(id)
      PROVE  HidesNoMore
  <2>1. /\ ui'.rows = ui.rows /\ id \in IdsOf(ui.rows)
        /\ ui'.chosen = Extractions!Toggle(ui.chosen, id)
    BY <1>0, <1>4 DEF Extractions!ToggleExtraction, Extractions!RowShown,
       Extractions!Change, Extractions!States
  <2>2. Extractions!Toggle(ui.chosen, id) \subseteq ui.chosen \cup {id}
    BY DEF Extractions!Toggle
  <2> QED
    BY <2>1, <2>2 DEF HidesNoMore
<1>5. ASSUME NEW id, \/ Extractions!SetFilter(id)
                     \/ Extractions!HandleDeleteExtraction(id)
                     \/ Extractions!HandleBulkDelete \/ Extractions!HandleExport(id)
      PROVE  HidesNoMore
  BY <1>5 DEF Extractions!SetFilter, Extractions!HandleDeleteExtraction,
     Extractions!HandleBulkDelete, Extractions!HandleExport, Extractions!States, HidesNoMore
<1> QED
  BY <1>1, <1>2, <1>3, <1>4, <1>5 DEF Extractions!ClickResults

\* fetchAll, reading on: when it shows other rows without looking at the
\* selection, the pruning is to come; when that comes, all that is selected is
\* shown.
LEMMA ReadOnHides ==
    ASSUME CallsOK, Stays, ui \in Extractions!States, NEW i \in Own,
           Extractions!ReadOn(i)
    PROVE  /\ HidesNoMore \/ (\E j \in DOMAIN calls : Extractions!PruningToCome(j))'
           /\ Extractions!PruningToCome(i) => ui'.chosen \subseteq IdsOf(ui'.rows)
<1> DEFINE d == calls[i].data
           filter == calls[i].arg
<1>1. /\ i \in DOMAIN calls /\ calls[i].by = mount
      /\ calls[i].op = "GET all" /\ IsOk(i) /\ d \in Everything
      /\ SetState(i, Extractions!Taken(ui, d, filter))
  BY ReadOnReads DEF Own
<1>2. PICK data \in Everything :
         /\ calls' = [calls EXCEPT ![i].data = data]
         /\ data.part = Extractions!NextPart(d, filter)
         /\ data.part # "docs" => data.rows = d.rows
  BY <1>1, ReadOnReads
<1>3. ui' = Extractions!Taken(ui, d, filter)
  BY <1>1, OwnState
<1>4. d.part \in {"templates", "rows", "all", "docs"}
  BY <1>1 DEF Everything, Listings
<1>5. /\ i \in DOMAIN calls' /\ calls'[i].by = calls[i].by
      /\ calls'[i].op = calls[i].op /\ calls'[i].state = calls[i].state
      /\ calls'[i].data = data
  <2>1. calls' = [calls EXCEPT ![i].data = data] /\ i \in DOMAIN calls
    BY <1>1, <1>2
  <2>2. calls[i] = [by |-> calls[i].by, then |-> calls[i].then, op |-> calls[i].op,
                    arg |-> calls[i].arg, kept |-> calls[i].kept, as |-> calls[i].as,
                    state |-> calls[i].state, data |-> calls[i].data]
    BY <2>1 DEF CallsOK, GoodCalls, IsFetch
  <2> QED
    BY <2>1, <2>2
<1>6. Extractions!PruningToCome(i) => d.part = "all" /\ d.rows = ui.rows
  BY DEF Extractions!PruningToCome
<1> HIDE DEF d, filter
<1>7. CASE d.part \in {"templates", "docs"}
  <2>1. ui'.rows = ui.rows /\ ui'.chosen = ui.chosen
    BY <1>1, <1>3, <1>7, TakenKeeps
  <2> QED
    BY <1>6, <1>7, <2>1 DEF HidesNoMore
<1>8. CASE d.part = "all"
  <2>1. ui'.rows = ui.rows /\ ui'.chosen = ui.chosen \cap IdsOf(d.rows)
    BY <1>1, <1>3, <1>8, TakenKeeps
  <2> QED
    BY <1>6, <2>1 DEF HidesNoMore
<1>9. CASE d.part = "rows" /\ ~Extractions!ReadsAll(d, filter)
  <2>1. ui'.rows = d.rows /\ ui'.chosen = ui.chosen \cap IdsOf(d.rows)
    BY <1>1, <1>3, <1>9, TakenKeeps
  <2> QED
    BY <1>6, <1>9, <2>1 DEF HidesNoMore
<1>10. CASE d.part = "rows" /\ Extractions!ReadsAll(d, filter)
  <2>1. ui'.rows = d.rows
    BY <1>1, <1>3, <1>10, TakenKeeps
  <2>2. data.part = "all" /\ data.rows = d.rows
    BY <1>2, <1>10 DEF Extractions!NextPart
  <2>3. Extractions!PruningToCome(i)'
    BY <1>1, <1>5, <2>1, <2>2
       DEF Extractions!PruningToCome, Extractions!Own, Extractions!IsOk, IsOk, Stays
  <2>4. (\E j \in DOMAIN calls : Extractions!PruningToCome(j))'
    BY <1>5, <2>3
  <2> QED
    BY <1>6, <1>10, <2>4
<1> QED
  BY <1>4, <1>7, <1>8, <1>9, <1>10

\* Nor does an answer, but for the one that ends a run.
LEMMA ContinueHidesNoMore ==
    ASSUME CallsOK, Stays, ui \in Extractions!States, NEW i \in Own,
           Extractions!Continue(i)
    PROVE  \/ calls[i].then = "handleExtract: fetchAll" /\ ui'.extracting = FALSE
           \/ HidesNoMore
           \/ (\E j \in DOMAIN calls : Extractions!PruningToCome(j))'
<1> DEFINE s == Extractions!AfterFetchAll(i, ui)
<1>1. calls[i].then \in {"fetchAll", "handleExtract: fetchAll", "bulk-delete: fetchAll"}
        => /\ s \in Extractions!States
           /\ \/ ~Extractions!FetchAllEnds(i)
              \/ s.rows = ui.rows /\ s.chosen \subseteq ui.chosen
              \/ s.chosen = ui.chosen \cap IdsOf(s.rows)
  BY FetchAllKeeps DEF Own, CallsOK, GoodCalls, IsFetch, OpFits
<1>1a. CASE Extractions!ReadOn(i)
  BY <1>1a, ReadOnHides
<1>2. CASE Extractions!FetchAllDone(i)
  <2>1. /\ ui' = s /\ Extractions!FetchAllEnds(i)
        /\ calls[i].then = "fetchAll"
    BY <1>2, ExtractionsShared, OwnState DEF Extractions!FetchAllDone, Awaited
  <2> HIDE DEF s
  <2> QED
    BY <1>1, <2>1 DEF HidesNoMore
<1>3. CASE Extractions!BulkDeleteDone(i)
  <2>1. /\ ui' = [s EXCEPT !.deleting = FALSE] /\ Extractions!FetchAllEnds(i)
        /\ calls[i].then = "bulk-delete: fetchAll"
    BY <1>3, ExtractionsShared, OwnState DEF Extractions!BulkDeleteDone, Awaited
  <2> HIDE DEF s
  <2>2. ui'.rows = s.rows /\ ui'.chosen = s.chosen
    BY <1>1, <2>1 DEF Extractions!States
  <2> QED
    BY <1>1, <2>1, <2>2 DEF HidesNoMore
<1>4. CASE Extractions!RunDone(i)
  <2>1. calls[i].then = "handleExtract: fetchAll"
    BY <1>4, ExtractionsShared DEF Extractions!RunDone, Awaited
  <2>2. \E picked, chosen, notice :
           \/ ui' = [s EXCEPT !.picked = picked, !.chosen = chosen, !.extracting = FALSE,
                              !.notice = notice]
           \/ ui' = [ui EXCEPT !.extracting = FALSE]
    BY <1>4, ExtractionsShared, OwnState DEF Extractions!RunDone
  <2> HIDE DEF s
  <2>3. ui'.extracting = FALSE
    BY <1>1, <2>1, <2>2 DEF Extractions!States
  <2> QED
    BY <2>1, <2>3
<1>5. CASE Extractions!BulkDeleted(i)
  <2>1. \/ ui' = [ui EXCEPT !.deleting = FALSE]
        \/ ui' = [ui EXCEPT !.chosen = {}]
    BY <1>5, ExtractionsShared, OwnState DEF Extractions!BulkDeleted
  <2> QED
    BY <2>1 DEF HidesNoMore, Extractions!States
<1>6. CASE Extractions!NextDoc(i) \/ Extractions!ExtractionDeleted(i)
  BY <1>6 DEF Extractions!NextDoc, Extractions!ExtractionDeleted, HidesNoMore
<1>7. CASE Extractions!LoopEnds(i)
  <2>1. ui' = [ui EXCEPT !.filter = None]
    BY <1>7, ExtractionsShared, OwnState DEF Extractions!LoopEnds
  <2> QED
    BY <2>1 DEF HidesNoMore, Extractions!States
<1>8. CASE Extractions!TemplateDeleted(i)
  <2>1. ui' = ui \/ ui' = [ui EXCEPT !.template = None]
    BY <1>8, ExtractionsShared, OwnState DEF Extractions!TemplateDeleted
  <2> QED
    BY <2>1 DEF HidesNoMore, Extractions!States
<1>9. CASE Extractions!ExportDone(i)
  <2>1. ui' = [ui EXCEPT !.exporting = None]
    BY <1>9, ExtractionsShared, OwnState DEF Extractions!ExportDone
  <2> QED
    BY <2>1 DEF HidesNoMore, Extractions!States
<1>10. CASE Extractions!FormSaved(i)
  <2>1. \/ ui' = ui \/ ui' = [ui EXCEPT !.form = None]
        \/ ui' = [ui EXCEPT !.form.saving = FALSE]
    BY <1>10, ExtractionsShared, OwnState DEF Extractions!FormSaved
  <2> QED
    BY <2>1 DEF HidesNoMore, Extractions!States
<1> QED
  BY <1>1a, <1>2, <1>3, <1>4, <1>5, <1>6, <1>7, <1>8, <1>9, <1>10
     DEF Extractions!Continue

\* Delete Selected and the exports are about rows of the page: a row comes to be
\* selected out of sight only at the end of a run, which ends `extracting` too, or
\* until fetchAll has read the listing the selection is pruned with, and then
\* there is none.
THEOREM SelectedInSight == Spec => SelectionIsShown
<1>1. ASSUME TabInv, TabInv', PanelInv, [Next]_vars
      PROVE  Extractions!SelectsWhatIsShown
  <2>0. \A r : Extractions!IdsOf(r) = IdsOf(r)
    BY DEF Extractions!IdsOf, IdsOf
  <2>1. ASSUME ui.view = "extract", mount' = mount, ~(ui.extracting /\ ~ui'.extracting)
        PROVE  \/ ui'.chosen \ IdsOf(ui'.rows) \subseteq ui.chosen \ IdsOf(ui.rows)
               \/ (\E i \in DOMAIN calls : Extractions!PruningToCome(i))'
    <3>0. /\ ui \in Extractions!States /\ InDashboard /\ RunInv /\ CallsOK
      BY <1>1, <2>1, Typed DEF TabInv, InDashboard, Panels, PanelInv, ExtractInv
    <3>1. CASE ui' = ui
      BY <3>1
    <3>2. CASE ClickPanel
      <4>1. HidesNoMore
        BY <1>1, <2>1, <3>0, <3>2, ClickView, ClickHidesNoMore
      <4> QED
        BY <4>1 DEF HidesNoMore
    <3>3. CASE \E i \in Own : ContinuePanel(i)
      <4>1. PICK i \in Own : ContinuePanel(i)
        BY <3>3
      <4>2. i \in DOMAIN calls /\ calls[i].by = mount
        BY DEF Own
      <4>3. Extractions!Continue(i) /\ Stays
        BY <1>1, <2>1, <4>1, <4>2, ContinueView
      <4>4. calls[i].then = "handleExtract: fetchAll" => ui.extracting
        BY <3>0 DEF RunInv, Idle, Running
      <4>5. HidesNoMore \/ (\E j \in DOMAIN calls : Extractions!PruningToCome(j))'
        BY <2>1, <3>0, <4>3, <4>4, ContinueHidesNoMore
      <4> QED
        BY <4>5 DEF HidesNoMore
    <3> QED
      BY <1>1, <2>1, <3>0, <3>1, <3>2, <3>3, StepsHere
  <2>2. ASSUME NEW i \in DOMAIN calls, Extractions!PruningToCome(i), Extractions!ReadOn(i)
        PROVE  ui'.chosen \subseteq IdsOf(ui'.rows)
    <3>1. i \in Own /\ calls[i].by = mount /\ CallsOK
      BY <1>1, <2>2 DEF TabInv, Extractions!PruningToCome, Extractions!Own, Own
    <3>2. calls[i].then \in {"fetchAll", "handleExtract: fetchAll",
                            "bulk-delete: fetchAll"}
      BY <2>2, <3>1, ReadOnReads
    <3>3. ui.view = "extract" /\ Stays
      <4>1. IsFetch(calls[i]) /\ InTab(calls[i])
        BY <3>1 DEF CallsOK, GoodCalls
      <4>2. ui.view = "extract"
        BY <3>1, <3>2, <4>1 DEF InTab, Thens
      <4>3. Extractions!Continue(i)
        BY <2>2 DEF Extractions!Continue
      <4> QED
        BY <1>1, <3>1, <4>2, <4>3, ExtractionsContinue DEF TabInv
    <3>4. ui \in Extractions!States
      BY <1>1, <3>3, Typed DEF TabInv
    <3> QED
      BY <2>2, <3>1, <3>3, <3>4, ReadOnHides
  <2> QED
    BY <2>0, <2>1, <2>2 DEF Extractions!SelectsWhatIsShown, Extractions!Shown,
                            Extractions!Hidden
<1>2. TabInv /\ TabInv' /\ PanelInv /\ [Next]_vars => [Extractions!SelectsWhatIsShown]_vars
  BY <1>1
<1> QED
  BY <1>2, TabAlways, PanelAlways, PTL DEF Spec, SelectionIsShown

-----------------------------------------------------------------------------
(* Questions and answers, counted. *)

AskedIn(m) == {k \in DOMAIN m : m[k] # "assistant"}
GivenIn(m) == {k \in DOMAIN m : m[k] = "assistant"}

\* What will bring an answer, or an apology.
Pending == {j \in Own : calls[j].then \in {"AiChat", "AiChat: body"}}

ConvInv ==
    ui.view = "ai" =>
        Cardinality(AskedIn(ui.messages)) <= Cardinality(GivenIn(ui.messages))
                                             + Cardinality(Pending)

\* There are finitely many questions and answers in a conversation.
LEMMA Counted ==
    ASSUME NEW m \in Seq(Chat!Speakers)
    PROVE  /\ IsFiniteSet(AskedIn(m)) /\ Cardinality(AskedIn(m)) \in Nat
           /\ IsFiniteSet(GivenIn(m)) /\ Cardinality(GivenIn(m)) \in Nat
<1>1. Len(m) \in Nat /\ DOMAIN m = 1 .. Len(m)
  OBVIOUS
<1>2. IsFiniteSet(1 .. Len(m))
  BY <1>1, FS_Interval
<1>3. AskedIn(m) \subseteq 1 .. Len(m) /\ GivenIn(m) \subseteq 1 .. Len(m)
  BY <1>1 DEF AskedIn, GivenIn
<1>4. IsFiniteSet(AskedIn(m)) /\ IsFiniteSet(GivenIn(m))
  BY <1>2, <1>3, FS_Subset
<1> QED
  BY <1>4, FS_CardinalityType

\* A message is one question more, or one answer more.
LEMMA OneMore ==
    ASSUME NEW m \in Seq(Chat!Speakers), NEW role \in Chat!Speakers
    PROVE  IF role = "assistant"
           THEN /\ AskedIn(Append(m, role)) = AskedIn(m)
                /\ Cardinality(GivenIn(Append(m, role))) = Cardinality(GivenIn(m)) + 1
           ELSE /\ GivenIn(Append(m, role)) = GivenIn(m)
                /\ Cardinality(AskedIn(Append(m, role))) = Cardinality(AskedIn(m)) + 1
<1> DEFINE n == Len(m) + 1
           more == Append(m, role)
<1>1. /\ Len(m) \in Nat /\ DOMAIN m = 1 .. Len(m) /\ DOMAIN more = 1 .. n
      /\ more[n] = role /\ \A k \in 1 .. Len(m) : more[k] = m[k]
  BY AppendProperties
<1>2. n \notin DOMAIN m /\ 1 .. n = (1 .. Len(m)) \cup {n}
  BY <1>1
<1> HIDE DEF n, more
<1>3. n \notin AskedIn(m) /\ n \notin GivenIn(m)
  BY <1>2 DEF AskedIn, GivenIn
<1>4. CASE role = "assistant"
  <2>1. AskedIn(more) = AskedIn(m)
    BY <1>1, <1>2, <1>4 DEF AskedIn
  <2>2. GivenIn(more) = GivenIn(m) \cup {n}
    BY <1>1, <1>2, <1>4 DEF GivenIn
  <2>3. Cardinality(GivenIn(m) \cup {n}) = Cardinality(GivenIn(m)) + 1
    BY <1>3, Counted, FS_AddElement
  <2> QED
    BY <1>4, <2>1, <2>2, <2>3 DEF more
<1>5. CASE role # "assistant"
  <2>1. GivenIn(more) = GivenIn(m)
    BY <1>1, <1>2, <1>5 DEF GivenIn
  <2>2. AskedIn(more) = AskedIn(m) \cup {n}
    BY <1>1, <1>2, <1>5 DEF AskedIn
  <2>3. Cardinality(AskedIn(m) \cup {n}) = Cardinality(AskedIn(m)) + 1
    BY <1>3, Counted, FS_AddElement
  <2> QED
    BY <1>5, <2>1, <2>2, <2>3 DEF more
<1> QED
  BY <1>4, <1>5

PendingOK == IsFiniteSet(Pending) /\ Cardinality(Pending) \in Nat

\* Finitely many questions are pending.
LEMMA PendingFinite == CallsOK => PendingOK
<1> SUFFICES ASSUME CallsOK PROVE PendingOK
  OBVIOUS
<1>1. Len(calls) \in Nat /\ DOMAIN calls = 1 .. Len(calls)
  BY SeqFacts DEF CallsOK, GoodCalls
<1>2. IsFiniteSet(1 .. Len(calls))
  BY <1>1, FS_Interval
<1>3. Pending \subseteq 1 .. Len(calls)
  BY <1>1 DEF Pending, Own
<1>4. IsFiniteSet(Pending)
  BY <1>2, <1>3, FS_Subset
<1> QED
  BY <1>4, FS_CardinalityType DEF PendingOK

\* Requests that only move are as many as they were.
LEMMA PendingMoved ==
    ASSUME CallsOK', mount' = mount, NEW out, NEW new, Moved(out, new)
    PROVE  Cardinality(Pending \ out) <= Cardinality(Pending)'
<1>1. PICK f : Traces(f, out, new)
  BY DEF Moved
<1> DEFINE old == Pending \ out
           g == [j \in old |-> f[j]]
<1>2. \A j \in old : /\ f[j] \in DOMAIN calls' /\ Same(calls[j], calls'[f[j]])
                     /\ \A m \in old : f[j] = f[m] => j = m
  BY <1>1 DEF Traces, Pending, Own
<1>3. \A j \in old : f[j] \in Pending'
  BY <1>2 DEF Pending, Own, Same
<1> HIDE DEF old
<1>4. g \in Injection(old, Pending')
  BY <1>2, <1>3 DEF Injection, IsInjective
<1>5a. PendingOK'
  BY PendingFinite, PTL
<1>5. IsFiniteSet(Pending')
  BY <1>5a DEF PendingOK
<1>6. Cardinality(old) <= Cardinality(Pending')
  BY <1>4, <1>5, FS_Injection
<1> QED
  BY <1>6 DEF old

\* Asking makes one more pending.
LEMMA PendingAsked ==
    ASSUME CallsOK, mount' = mount, NEW op, NEW arg, Fetch("AiChat", op, arg, None)
    PROVE  Cardinality(Pending)' = Cardinality(Pending) + 1
<1> DEFINE c == Call(mount, "AiChat", op, arg, None)
           n == Len(calls) + 1
<1>1. c.by = mount /\ c.then = "AiChat"
  BY DEF Call
<1>2. calls' = calls \o <<c>> /\ IsSeq(calls)
  BY FetchAppends DEF CallsOK, GoodCalls
<1> HIDE DEF c
<1>3. IsSeq(<<c>>) /\ DOMAIN <<c>> = {1} /\ <<c>>[1] = c /\ Len(<<c>>) = 1
  BY SeqShort, SeqFacts
<1>4. /\ DOMAIN calls' = 1 .. Len(calls) + 1
      /\ \A k \in DOMAIN calls' :
            calls'[k] = IF k \in DOMAIN calls THEN calls[k] ELSE <<c>>[k - Len(calls)]
  BY <1>2, <1>3, SeqJoined, SeqFacts
<1>5. Len(calls) \in Nat /\ DOMAIN calls = 1 .. Len(calls)
  BY <1>2, SeqFacts
<1>6. n \notin DOMAIN calls /\ DOMAIN calls' = DOMAIN calls \cup {n} /\ n - Len(calls) = 1
  BY <1>4, <1>5
<1>7. calls'[n] = c /\ \A k \in DOMAIN calls : calls'[k] = calls[k]
  BY <1>3, <1>4, <1>6
<1> HIDE DEF n
<1>8. Pending' = Pending \cup {n} /\ n \notin Pending
  BY <1>1, <1>6, <1>7 DEF Pending, Own
<1> QED
  BY <1>8, PendingFinite, FS_AddElement DEF PendingOK

\* A question whose answer is being read is still pending.
LEMMA PendingGoesOn ==
    ASSUME CallsOK, mount' = mount, NEW i \in Pending, NEW op, NEW arg, NEW kept,
           ThenFetch(i, "AiChat: body", op, arg, kept)
    PROVE  Pending' = Pending
<1> DEFINE c == Call(calls[i].by, "AiChat: body", op, arg, kept)
<1>1. c.by = mount /\ c.then = "AiChat: body"
  BY DEF Call, Pending, Own
<1>2. calls' = [calls EXCEPT ![i] = c] /\ i \in DOMAIN calls
  BY DEF ThenFetch, Pending, Own
<1> HIDE DEF c
<1>3. /\ DOMAIN calls' = DOMAIN calls
      /\ \A k \in DOMAIN calls : calls'[k] = IF k = i THEN c ELSE calls[k]
  BY <1>2, SeqReplaced DEF CallsOK, GoodCalls
<1> QED
  BY <1>1, <1>3 DEF Pending, Own

\* At most one question stops pending, the one whose code is done.
LEMMA PendingReturns ==
    ASSUME CallsOK, CallsOK', mount' = mount, NEW i \in Own, Return(i)
    PROVE  Cardinality(Pending)' >= Cardinality(Pending) - (IF i \in Pending THEN 1 ELSE 0)
<1> DEFINE out == {i}  new == {}
<1>1. Moved(out, new)
  BY MovedReturn DEF Own
<1>2. Cardinality(Pending \ out) <= Cardinality(Pending)'
  <2> HIDE DEF out, new
  <2> QED
    BY <1>1, PendingMoved
<1>3. Cardinality(Pending \ {i}) = IF i \in Pending THEN Cardinality(Pending) - 1
                                   ELSE Cardinality(Pending)
  BY PendingFinite, FS_RemoveElement DEF PendingOK
<1>4. PendingOK /\ PendingOK'
  BY PendingFinite, PTL
<1> QED
  BY <1>2, <1>3, <1>4 DEF PendingOK

\* An empty conversation has neither questions nor answers.
LEMMA NoneAsked ==
    ASSUME NEW m, m = << >>
    PROVE  Cardinality(AskedIn(m)) = 0 /\ Cardinality(GivenIn(m)) = 0
<1>1. DOMAIN << >> = {}
  OBVIOUS
<1>2. AskedIn(m) = {} /\ GivenIn(m) = {}
  BY <1>1 DEF AskedIn, GivenIn
<1> QED
  BY <1>2, FS_EmptySet

\* Every step of the assistant keeps the count of questions.
LEMMA ConvStep ==
    ASSUME CallsOK, CallsOK', ui \in Chat!States, Stays, ConvInv, ui.view = "ai",
           \/ Chat!Click
           \/ \E i \in Own : \/ Chat!Headers(i) \/ Chat!Failed(i) \/ Chat!Answered(i)
                             \/ SearchPanel!SelectorLoaded(i)
    PROVE  ConvInv'
<1> DEFINE m == ui.messages
<1>1. m \in Seq(Chat!Speakers) /\ mount' = mount
  BY DEF Chat!States, Stays
<1>2. /\ Cardinality(AskedIn(m)) \in Nat /\ Cardinality(GivenIn(m)) \in Nat
      /\ Cardinality(AskedIn(m)) <= Cardinality(GivenIn(m)) + Cardinality(Pending)
  BY <1>1, Counted DEF ConvInv
<1>3. Cardinality(Pending) \in Nat /\ Cardinality(Pending)' \in Nat
  <2>1. PendingOK /\ PendingOK'
    BY PendingFinite, PTL
  <2> QED
    BY <2>1 DEF PendingOK
<1>4. ASSUME NEW role \in {"user", "system"}, NEW op, NEW arg,
             ui' = [Chat!Said(role) EXCEPT !.loading = TRUE], Fetch("AiChat", op, arg, None)
      PROVE  ConvInv'
  <2>1. ui'.messages = Append(m, role) /\ role \in Chat!Speakers /\ role # "assistant"
    BY <1>4 DEF Chat!Said, Chat!States, Chat!Speakers
  <2>2. Cardinality(Pending)' = Cardinality(Pending) + 1
    BY <1>1, <1>4, PendingAsked
  <2>3. /\ GivenIn(Append(m, role)) = GivenIn(m)
        /\ Cardinality(AskedIn(Append(m, role))) = Cardinality(AskedIn(m)) + 1
    BY <1>1, <2>1, OneMore
  <2> HIDE DEF m
  <2> QED
    BY <1>2, <1>3, <2>1, <2>2, <2>3 DEF ConvInv
<1>5. ASSUME NEW i \in Own, NEW loading, Return(i), i \in Pending,
             \/ ui' = [Chat!Said("assistant") EXCEPT !.loading = loading]
             \/ ui' = Chat!Said("assistant")
      PROVE  ConvInv'
  <2>1. ui'.messages = Append(m, "assistant") /\ "assistant" \in Chat!Speakers
    BY <1>5 DEF Chat!Said, Chat!States, Chat!Speakers
  <2>2. Cardinality(Pending)' >= Cardinality(Pending) - 1
    BY <1>1, <1>5, PendingReturns
  <2>3. /\ AskedIn(Append(m, "assistant")) = AskedIn(m)
        /\ Cardinality(GivenIn(Append(m, "assistant"))) = Cardinality(GivenIn(m)) + 1
    BY <1>1, <2>1, OneMore
  <2> HIDE DEF m
  <2> QED
    BY <1>2, <1>3, <2>1, <2>2, <2>3 DEF ConvInv
<1>6. CASE Chat!HandleSubmit \/ Chat!HandleSummarize
  <2>1. PICK role \in {"user", "system"} :
           ui' = [Chat!Said(role) EXCEPT !.loading = TRUE]
    BY <1>6 DEF Chat!HandleSubmit, Chat!HandleSummarize
  <2>2. PICK op, arg : Fetch("AiChat", op, arg, None)
    BY <1>6, ChatShared DEF Chat!HandleSubmit, Chat!HandleSummarize
  <2> QED
    BY <1>4, <2>1, <2>2
<1>7. ASSUME NEW d, Chat!SelectDocument(d)
      PROVE  ConvInv'
  <2>1. ui'.messages = << >>
    BY <1>7 DEF Chat!SelectDocument, Chat!States
  <2>2. /\ Cardinality(AskedIn(ui'.messages)) = 0
        /\ Cardinality(GivenIn(ui'.messages)) = 0
    BY <2>1, NoneAsked
  <2> QED
    BY <1>3, <2>2 DEF ConvInv
<1>8. ASSUME NEW i \in Own, Chat!Headers(i)
      PROVE  ConvInv'
  <2>1. /\ ThenFetch(i, "AiChat: body", "body", calls[i].data, None)
        /\ calls[i].then = "AiChat" /\ ui' = [ui EXCEPT !.loading = FALSE]
    BY <1>8, ChatShared, OwnState DEF Chat!Headers, Awaited
  <2>2. i \in Pending /\ ui'.messages = m
    BY <2>1 DEF Pending, Chat!States
  <2>3. Pending' = Pending
    BY <1>1, <2>1, <2>2, PendingGoesOn
  <2> QED
    BY <1>2, <2>2, <2>3 DEF ConvInv
<1>9. ASSUME NEW i \in Own, Chat!Failed(i)
      PROVE  ConvInv'
  <2>1. /\ Return(i) /\ calls[i].then \in {"AiChat", "AiChat: body"}
        /\ ui' = [Chat!Said("assistant") EXCEPT !.loading = FALSE]
    BY <1>9, ChatShared, OwnState DEF Chat!Failed, Awaited
  <2>2. i \in Pending
    BY <2>1 DEF Pending
  <2> QED
    BY <1>5, <2>1, <2>2
<1>10. ASSUME NEW i \in Own, Chat!Answered(i)
       PROVE  ConvInv'
  <2>1. /\ Return(i) /\ calls[i].then = "AiChat: body"
        /\ ui' = Chat!Said("assistant")
    BY <1>10, ChatShared, OwnState DEF Chat!Answered, Awaited
  <2>2. i \in Pending
    BY <2>1 DEF Pending
  <2> QED
    BY <1>5, <2>1, <2>2
<1>11. ASSUME NEW i \in Own, SearchPanel!SelectorLoaded(i)
       PROVE  ConvInv'
  <2>1. /\ \E menu : ui' = [ui EXCEPT !.menu = menu]
        /\ Return(i) /\ calls[i].then = "DocumentSelector"
    BY <1>11, SelectorStep
  <2>2. i \notin Pending /\ ui'.messages = m
    BY <2>1 DEF Pending, Chat!States
  <2>3. Cardinality(Pending)' >= Cardinality(Pending)
    BY <1>1, <1>3, <2>1, <2>2, PendingReturns
  <2> QED
    BY <1>2, <1>3, <2>2, <2>3 DEF ConvInv
<1> QED
  BY <1>6, <1>7, <1>8, <1>9, <1>10, <1>11 DEF Chat!Click

\* An empty conversation has nothing to drop.
LEMMA ConvEmpty ==
    ASSUME CallsOK, ui.view = "ai" => ui.messages = << >>
    PROVE  ConvInv
<1>1. ui.view = "ai" => /\ Cardinality(AskedIn(ui.messages)) = 0
                        /\ Cardinality(GivenIn(ui.messages)) = 0
  BY NoneAsked
<1>2. Cardinality(Pending) \in Nat
  BY PendingFinite DEF PendingOK
<1> QED
  BY <1>1, <1>2 DEF ConvInv

\* It holds in every initial state.
LEMMA ConvInit == Init => ConvInv
<1> SUFFICES ASSUME Init PROVE ConvInv
  OBVIOUS
<1>1. PICK t \in Tours : user = t.user /\ ui = t.ui
  BY DEF Init
<1>2. IsTour(t)
  BY TourAssumption
<1>3. CallsOK
  BY TabInit DEF TabInv
<1>4. ui.view = "ai" => ui.messages = << >>
  <2>1. ui.view = "ai" /\ AtRest(ui) => ui.messages = << >>
    BY DEF AtRest
  <2>2. ui.view = "ai" /\ ui = FreshOf(ui.view, user) => ui.messages = << >>
    BY DEF FreshOf, Chat!Fresh
  <2> QED
    BY <1>1, <1>2, <2>1, <2>2 DEF IsTour
<1> QED
  BY <1>3, <1>4, ConvEmpty

NewTalk == CallsOK /\ (ui.view = "ai" => ui.messages = << >>)

\* Every step keeps it.
LEMMA ConvNext == TabInv /\ TabInv' /\ ConvInv /\ [Next]_vars => ConvInv'
<1> SUFFICES ASSUME TabInv, TabInv', ConvInv, [Next]_vars PROVE ConvInv'
  OBVIOUS
<1>0. CallsOK /\ CallsOK' /\ UiOK(ui)
  BY DEF TabInv
<1>1. NewTalk => ConvInv
  BY ConvEmpty DEF NewTalk
<1>2. CASE Quiet
  <2>1. ui' = ui /\ mount' = mount
    BY <1>2 DEF Quiet
  <2>2. PICK out, new : /\ Moved(out, new) /\ \A j \in Own : j \notin out
                        /\ \A c \in new : c.by = mount =>
                              \/ c.then = "handleLogout"
                              \/ c.then = "fetchDocs" /\ ui.view = "documents"
    BY <1>2 DEF Quiet
  <2>3. Pending \ out = Pending
    BY <2>2 DEF Pending
  <2>4. Cardinality(Pending) <= Cardinality(Pending)'
    BY <1>0, <2>1, <2>2, <2>3, PendingMoved
  <2>5. PendingOK /\ PendingOK'
    BY <1>0, PendingFinite, PTL
  <2>6. ui.view = "ai" => ui.messages \in Seq(Chat!Speakers)
    BY <1>0, Typed DEF Chat!States
  <2> SUFFICES ASSUME ui.view = "ai"
               PROVE  Cardinality(AskedIn(ui.messages)) <= Cardinality(GivenIn(ui.messages))
                                                           + Cardinality(Pending)'
    BY <2>1 DEF ConvInv
  <2>7. /\ Cardinality(AskedIn(ui.messages)) \in Nat
        /\ Cardinality(GivenIn(ui.messages)) \in Nat
    BY <2>6, Counted
  <2> QED
    BY <2>4, <2>5, <2>7 DEF PendingOK, ConvInv
<1>3. CASE Opens
  <2>1. ui'.view = "ai" => ui' = FreshOf("ai", user')
    BY <1>3 DEF Opens
  <2>2. ui'.view = "ai" => ui'.messages = << >>
    BY <2>1 DEF FreshOf, Chat!Fresh
  <2>3. NewTalk'
    BY <1>0, <2>2 DEF NewTalk
  <2> QED
    BY <2>3, ConvEmpty, PTL DEF NewTalk
<1>4. CASE Loads
  BY <1>4, LoadsFresh DEF ConvInv
<1>5. CASE Submit
  <2>1. ui'.view = ui.view /\ ui.view # "ai"
    BY <1>0, <1>5 DEF Submit, CanSubmit, UiOK
  <2> QED
    BY <2>1 DEF ConvInv
<1>6. CASE ClickPanel
  <2>1. Stays /\ (ui.view = "ai" => Chat!Click)
    BY <1>6, ClickView
  <2> QED
    BY <1>0, <2>1, ConvStep, Typed DEF ConvInv, Stays
<1>7. ASSUME NEW i \in DOMAIN calls, calls[i].by = mount, ContinuePanel(i)
      PROVE  ConvInv'
  <2>1. /\ Stays /\ i \in Own
        /\ ui.view = "ai" => \/ Chat!Headers(i) \/ Chat!Failed(i) \/ Chat!Answered(i)
                             \/ SearchPanel!SelectorLoaded(i)
    BY <1>7, ContinueView DEF Own
  <2> QED
    BY <1>0, <2>1, ConvStep, Typed DEF ConvInv, Stays
<1>8. ASSUME NEW i \in DOMAIN calls, calls[i].by = mount, SignInFailed(i)
      PROVE  ConvInv'
  <2>1. /\ calls[i].then = "handleSubmit" /\ i \in Own
        /\ ui' = [ui EXCEPT !.loading = FALSE, !.error = TRUE]
    BY <1>8, OwnState DEF SignInFailed, Awaited, Own
  <2>2. ui.view \in {"login", "register"}
    BY <1>0, <2>1 DEF CallsOK, GoodCalls, InTab, Thens, Own
  <2>3. ui'.view = ui.view
    BY <1>0, <2>1, <2>2 DEF UiOK
  <2> QED
    BY <2>2, <2>3 DEF ConvInv
<1> QED
  BY <1>2, <1>3, <1>4, <1>5, <1>6, <1>7, <1>8, Steps

\* A question on the page has its answer or an apology below it, or a request that
\* will bring one, however answers overlap and whatever fails: the questions are
\* never more than the answers and what is awaited together.
THEOREM QuestionsAreAnswered == Spec => []NoQuestionDropped
<1>1. Init => ConvInv
  BY ConvInit
<1>2. TabInv /\ TabInv' /\ ConvInv /\ [Next]_vars => ConvInv'
  BY ConvNext
<1>3. ConvInv => NoQuestionDropped
  <2> SUFFICES ASSUME ConvInv, ui.view = "ai" PROVE Chat!NoQuestionDropped
    BY DEF NoQuestionDropped
  <2>1. Chat!Asked = AskedIn(ui.messages) /\ Chat!Given = GivenIn(ui.messages)
    BY DEF Chat!Asked, Chat!Given, AskedIn, GivenIn
  <2>2. Pending = {j \in Chat!Own : calls[j].then \in {"AiChat", "AiChat: body"}}
    BY DEF Pending, Own, Chat!Own
  <2>3. Cardinality(AskedIn(ui.messages)) <= Cardinality(GivenIn(ui.messages))
                                             + Cardinality(Pending)
    BY DEF ConvInv
  <2> QED
    BY <2>1, <2>2, <2>3 DEF Chat!NoQuestionDropped, Chat!Cardinality, Cardinality
<1> QED
  BY <1>1, <1>2, <1>3, TabAlways, PTL DEF Spec

-----------------------------------------------------------------------------
(* What a click and a continuation do to the fetches, runs and logins told     *)
(* apart from the others.                                                      *)

IsPlain(c) == c.then \notin {"handleExtract", "handleSubmit", "dashboard"}

NewRun(c) ==
    /\ c.then = "handleExtract" /\ c.state = "sent"
    /\ c.kept.made = {} /\ c.arg.doc \notin c.kept.todo

\* Fetch d of a run follows its fetch c.
Follows(c, d) ==
    /\ c.then = "handleExtract" /\ d.then = "handleExtract"
    /\ d.by = c.by /\ d.state = "sent"
    /\ d.arg.template = c.arg.template /\ d.arg.doc \in c.kept.todo
    /\ d.kept.todo = c.kept.todo \ {d.arg.doc}
    /\ d.kept.made = IF c.state = "ok" THEN c.kept.made \cup {c.data} ELSE c.kept.made

Sends ==
    \/ calls' = calls
    \/ /\ Len(calls) < MaxCalls
       /\ \E c : calls' = calls \o <<c>> /\ (IsPlain(c) \/ NewRun(c))

GoesOn(i) ==
    \/ calls' = calls \/ Return(i)
    \/ \E c : /\ calls' = [calls EXCEPT ![i] = c]
              /\ IsPlain(c) \/ Follows(calls[i], c)

\* A click that sends one fetch.
LEMMA FetchSends ==
    ASSUME CallsOK, NEW then, NEW op, NEW arg, NEW kept, Fetch(then, op, arg, kept),
           then # "handleExtract", then # "handleSubmit", then # "dashboard"
    PROVE  Sends
<1> DEFINE c == Call(mount, then, op, arg, kept)
<1>1. calls' = calls \o <<c>> /\ Len(calls) < MaxCalls
  BY FetchAppends DEF Fetch
<1>2. IsPlain(c)
  BY DEF IsPlain, Call
<1> HIDE DEF c
<1> QED
  BY <1>1, <1>2 DEF Sends

\* An answer after which one fetch is sent.
LEMMA ThenGoesOn ==
    ASSUME NEW i, NEW then, NEW op, NEW arg, NEW kept, ThenFetch(i, then, op, arg, kept),
           then # "handleExtract", then # "handleSubmit", then # "dashboard"
    PROVE  GoesOn(i)
<1> DEFINE c == Call(calls[i].by, then, op, arg, kept)
<1>1. calls' = [calls EXCEPT ![i] = c]
  BY DEF ThenFetch
<1>2. IsPlain(c)
  BY DEF IsPlain, Call
<1> HIDE DEF c
<1> QED
  BY <1>1, <1>2 DEF GoesOn

\* Nothing is sent.
LEMMA Stuck ==
    /\ calls' = calls => Sends
    /\ \A i : calls' = calls \/ Return(i) => GoesOn(i)
  BY DEF Sends, GoesOn

\* No click sends more than one fetch.
LEMMA ClickSends ==
    ASSUME CallsOK, ClickPanel
    PROVE  Sends
<1>1. CASE List!Click
  <2>1. \A action, op : List!BulkAction(action, op) => Fetch(action, op, ui.selected, None)
    BY ListShared DEF List!BulkAction
  <2>2. CASE List!HandleBulkDownload \/ List!HandleBulkExport \/ List!HandleBulkDelete
    <3>1. \E action \in {"download", "export", "delete"} : \E op : List!BulkAction(action, op)
      BY <2>2 DEF List!HandleBulkDownload, List!HandleBulkExport, List!HandleBulkDelete
    <3> QED
      BY <2>1, <3>1, FetchSends
  <2>3. CASE List!Refresh
    <3>1. \E op, arg, kept : Fetch("fetchDocs", op, arg, kept)
      BY <2>3, ListShared DEF List!Refresh
    <3> QED
      BY <3>1, FetchSends
  <2>4. CASE List!ToggleAll \/ \E d \in Docs : List!ToggleSelect(d)
    BY <2>4, Stuck DEF List!ToggleAll, List!ToggleSelect
  <2> QED
    BY <1>1, <2>2, <2>3, <2>4 DEF List!Click
<1>2. CASE Viewer!Click
  <2>1. CASE Viewer!HandleExport
    <3>1. \E op, arg, kept : Fetch("DocExportButton", op, arg, kept)
      BY <2>1, ViewerShared DEF Viewer!HandleExport
    <3> QED
      BY <3>1, FetchSends
  <2>2. CASE Viewer!HandleAsk
    <3>1. \E op, arg, kept : Fetch("DocAiPanel", op, arg, kept)
      BY <2>2, ViewerShared DEF Viewer!HandleAsk
    <3> QED
      BY <3>1, FetchSends
  <2> QED
    BY <1>2, <2>1, <2>2, Stuck
       DEF Viewer!Click, Viewer!ShowTab, Viewer!SetMode, Viewer!TypeQuestion
<1>3. CASE SearchPanel!Click
  <2>1. CASE SearchPanel!HandleSearch
    <3>1. \E op, arg, kept : Fetch("SearchBox", op, arg, kept)
      BY <2>1, SearchShared DEF SearchPanel!HandleSearch
    <3> QED
      BY <3>1, FetchSends
  <2> QED
    BY <1>3, <2>1, Stuck
       DEF SearchPanel!Click, SearchPanel!SelectDocument, SearchPanel!ToggleExpand
<1>4. CASE Chat!Click
  <2>1. CASE Chat!HandleSubmit
    <3>1. \E op, arg, kept : Fetch("AiChat", op, arg, kept)
      BY <2>1, ChatShared DEF Chat!HandleSubmit
    <3> QED
      BY <3>1, FetchSends
  <2>2. CASE Chat!HandleSummarize
    <3>1. \E op, arg, kept : Fetch("AiChat", op, arg, kept)
      BY <2>2, ChatShared DEF Chat!HandleSummarize
    <3> QED
      BY <3>1, FetchSends
  <2> QED
    BY <1>4, <2>1, <2>2, Stuck DEF Chat!Click, Chat!SelectDocument
<1>5. CASE Comparison!Click
  <2>1. CASE Comparison!HandleCompare
    <3>1. \E op, arg, kept : Fetch("handleCompare", op, arg, kept)
      BY <2>1, ComparisonShared DEF Comparison!HandleCompare
    <3> QED
      BY <3>1, FetchSends
  <2> QED
    BY <1>5, <2>1, Stuck DEF Comparison!Click, Comparison!SelectA, Comparison!SelectB
<1>6. CASE Team!Click
  <2>1. CASE Team!HandleCreate
    <3>1. PICK u \in Users :
             Fetch("handleCreate", "POST user", [user |-> u, role |-> ui.newRole], None)
      BY <2>1, TeamShared DEF Team!HandleCreate
    <3> QED
      BY <3>1, FetchSends
  <2>2. ASSUME NEW u, Team!PatchUser(u)
        PROVE  Sends
    <3>1. PICK change :
             Fetch("patchUser", "PATCH user", [user |-> u, change |-> change], None)
      BY <2>2, TeamShared DEF Team!PatchUser
    <3> QED
      BY <3>1, FetchSends
  <2> QED
    BY <1>6, <2>1, <2>2, Stuck DEF Team!Click, Team!FillIn
<1>7. CASE AdminPanel!Click
  <2>1. ASSUME NEW then, NEW o, NEW field, NEW value, AdminPanel!Update(then, o, field, value),
               then # "handleExtract", then # "handleSubmit", then # "dashboard"
        PROVE  Sends
    <3>1. Fetch(then, "PATCH org", [org |-> o, field |-> field, value |-> value], None)
      BY <2>1, AdminShared DEF AdminPanel!Update
    <3> QED
      BY <2>1, <3>1, FetchSends
  <2>2. ASSUME NEW o, NEW f, AdminPanel!HandleToggle(o, f) PROVE Sends
    BY <2>1, <2>2 DEF AdminPanel!HandleToggle
  <2>3. ASSUME NEW o, AdminPanel!HandleQuotaSave(o) PROVE Sends
    <3>1. \/ calls' = calls
          \/ AdminPanel!Update("handleQuotaSave", o, "quota", ui.drafts[o])
      BY <2>3 DEF AdminPanel!HandleQuotaSave
    <3> QED
      BY <2>1, <3>1, Stuck
  <2>4. ASSUME NEW o, AdminPanel!ToggleDocuments(o) PROVE Sends
    <3>1. \/ calls' = calls
          \/ Fetch("toggleDocuments", "GET org documents", o, None)
      BY <2>4, AdminShared DEF AdminPanel!ToggleDocuments
    <3> QED
      BY <3>1, FetchSends, Stuck
  <2> QED
    BY <1>7, <2>2, <2>3, <2>4, Stuck DEF AdminPanel!Click, AdminPanel!TypeQuota
<1>8. CASE Extractions!ClickForm
  <2>1. CASE Extractions!SubmitForm
    <3>1. \E op, arg, kept : Fetch("TemplateForm", op, arg, kept)
      BY <2>1, ExtractionsShared DEF Extractions!SubmitForm
    <3> QED
      BY <3>1, FetchSends
  <2>2. ASSUME NEW t, Extractions!HandleDeleteTemplate(t) PROVE Sends
    <3>1. \E arg, kept : Fetch("delete template", "DELETE template", arg, kept)
      BY <2>2, ExtractionsShared DEF Extractions!HandleDeleteTemplate
    <3> QED
      BY <3>1, FetchSends
  <2> QED
    BY <1>8, <2>1, <2>2, Stuck DEF Extractions!ClickForm, Extractions!NewTemplate,
       Extractions!CancelForm, Extractions!EditTemplate, Extractions!FillForm,
       Extractions!Turn, Extractions!Change
<1>9. CASE Extractions!ClickRun
  <2>1. CASE Extractions!HandleExtract
    <3>1. PICK d \in ui.picked :
            Fetch("handleExtract", "POST extract", [doc |-> d, template |-> ui.template],
                  [todo |-> ui.picked \ {d}, made |-> {}, failed |-> FALSE,
                   filter |-> ui.filter])
      BY <2>1, ExtractionsShared DEF Extractions!HandleExtract
    <3> DEFINE c == Call(mount, "handleExtract", "POST extract",
                         [doc |-> d, template |-> ui.template],
                         [todo |-> ui.picked \ {d}, made |-> {}, failed |-> FALSE,
                          filter |-> ui.filter])
    <3>2. calls' = calls \o <<c>> /\ Len(calls) < MaxCalls
      BY <3>1, FetchAppends DEF Fetch
    <3>3. NewRun(c)
      BY DEF NewRun, Call
    <3> HIDE DEF c
    <3> QED
      BY <3>2, <3>3 DEF Sends
  <2> QED
    BY <1>9, <2>1, Stuck DEF Extractions!ClickRun, Extractions!SelectTemplate,
       Extractions!ToggleDoc, Extractions!ToggleAllDocs, Extractions!Change
<1>10. CASE Extractions!ClickResults
  <2>1. ASSUME NEW r, Extractions!SetFilter(r) PROVE Sends
    <3>1. \E op, arg, kept : Fetch("fetchAll", op, arg, kept)
      BY <2>1, ExtractionsShared DEF Extractions!SetFilter, Extractions!FetchAll
    <3> QED
      BY <3>1, FetchSends
  <2>2. ASSUME NEW id, Extractions!HandleDeleteExtraction(id) PROVE Sends
    <3>1. \E arg, kept : Fetch("delete extraction", "DELETE extractions", arg, kept)
      BY <2>2, ExtractionsShared DEF Extractions!HandleDeleteExtraction
    <3> QED
      BY <3>1, FetchSends
  <2>3. CASE Extractions!HandleBulkDelete
    <3>1. \E op, arg, kept : Fetch("bulk-delete", op, arg, kept)
      BY <2>3, ExtractionsShared DEF Extractions!HandleBulkDelete
    <3> QED
      BY <3>1, FetchSends
  <2>4. ASSUME NEW format, Extractions!HandleExport(format) PROVE Sends
    <3>1. \E arg : Fetch("handleExport", "GET extractions/export", arg, None)
      BY <2>4, ExtractionsShared DEF Extractions!HandleExport
    <3> QED
      BY <3>1, FetchSends
  <2> QED
    BY <1>10, <2>1, <2>2, <2>3, <2>4, Stuck DEF Extractions!ClickResults,
       Extractions!ToggleExtraction, Extractions!ToggleAllExtractions, Extractions!Change
<1> QED
  BY <1>1, <1>2, <1>3, <1>4, <1>5, <1>6, <1>7, <1>8, <1>9, <1>10 DEF ClickPanel

\* No answer makes more than one fetch of one, but the end of a run.
LEMMA PanelGoesOn ==
    ASSUME CallsOK, NEW i \in DOMAIN calls, ContinuePanel(i)
    PROVE  GoesOn(i) \/ Extractions!LoopEnds(i)
<1>0. ASSUME NEW then, then # "handleExtract", then # "handleSubmit", then # "dashboard",
             \/ Return(i) \/ \E op, arg, kept : ThenFetch(i, then, op, arg, kept)
      PROVE  GoesOn(i)
  BY <1>0, ThenGoesOn, Stuck
<1>1. CASE List!Continue(i)
  <2>1. Return(i) \/ \E op, arg, kept : ThenFetch(i, "delete: fetchDocs", op, arg, kept)
    BY <1>1, ListShared
       DEF List!Continue, List!FetchDocs, List!BulkActionDone, List!BulkDeleteDone,
           List!DeletedLoaded
  <2> QED
    BY <1>0, <2>1
<1>2. CASE Viewer!Continue(i)
  <2>1. Return(i)
    BY <1>2, ViewerShared
       DEF Viewer!Continue, Viewer!Load, Viewer!Exported, Viewer!Answered
  <2> QED
    BY <2>1, Stuck
<1>3. CASE SearchPanel!Continue(i)
  <2>1. Return(i) \/ \E op, arg, kept : ThenFetch(i, "SearchBox: body", op, arg, kept)
    BY <1>3, SearchShared
       DEF SearchPanel!Continue, SearchPanel!SelectorLoaded, SearchPanel!Headers,
           SearchPanel!Failed, SearchPanel!Results
  <2> QED
    BY <1>0, <2>1
<1>4. CASE Chat!Headers(i) \/ Chat!Failed(i) \/ Chat!Answered(i)
  <2>1. Return(i) \/ \E op, arg, kept : ThenFetch(i, "AiChat: body", op, arg, kept)
    BY <1>4, ChatShared DEF Chat!Headers, Chat!Failed, Chat!Answered
  <2> QED
    BY <1>0, <2>1
<1>5. CASE Comparison!Continue(i)
  <2>1. Return(i)
    BY <1>5, ComparisonShared
       DEF Comparison!Continue, Comparison!DocsLoaded, Comparison!Compared
  <2> QED
    BY <2>1, Stuck
<1>6. CASE Team!Continue(i)
  <2>1. \/ Return(i)
        \/ \E op, arg, kept : ThenFetch(i, "handleCreate: load", op, arg, kept)
        \/ \E op, arg, kept : ThenFetch(i, "load", op, arg, kept)
    BY <1>6, TeamShared
       DEF Team!Continue, Team!Load, Team!Created, Team!CreatedLoaded, Team!Patched
  <2>2. CASE \E op, arg, kept : ThenFetch(i, "load", op, arg, kept)
    BY <1>0, <2>2
  <2>3. CASE \E op, arg, kept : ThenFetch(i, "handleCreate: load", op, arg, kept)
    BY <1>0, <2>3
  <2> QED
    BY <2>1, <2>2, <2>3, Stuck
<1>7. CASE AdminPanel!Continue(i)
  <2>1. Return(i)
    BY <1>7, AdminShared
       DEF AdminPanel!Continue, AdminPanel!OrgsLoaded, AdminPanel!AdminKnown,
           AdminPanel!Toggled, AdminPanel!QuotaSaved, AdminPanel!DocumentsShown
  <2> QED
    BY <2>1, Stuck
<1>8. CASE Extractions!Continue(i) /\ ~Extractions!LoopEnds(i)
  <2>1. CASE Extractions!NextDoc(i)
    <3>1. PICK d \in calls[i].kept.todo :
             ThenFetch(i, "handleExtract", "POST extract",
                       [doc |-> d, template |-> calls[i].arg.template],
                       [Extractions!After(i) EXCEPT !.todo = @ \ {d}])
      BY <2>1, ExtractionsShared DEF Extractions!NextDoc
    <3> DEFINE c == Call(calls[i].by, "handleExtract", "POST extract",
                         [doc |-> d, template |-> calls[i].arg.template],
                         [Extractions!After(i) EXCEPT !.todo = @ \ {d}])
    <3>2. calls' = [calls EXCEPT ![i] = c] /\ calls[i].then = "handleExtract"
      BY <2>1, <3>1, ExtractionsShared DEF ThenFetch, Extractions!NextDoc, Awaited
    <3>3. calls[i].kept \in Runs
      BY <3>2 DEF CallsOK, GoodCalls, IsFetch, KeptFits
    <3>4. Follows(calls[i], c)
      <4>1. /\ Extractions!After(i).todo = calls[i].kept.todo
            /\ Extractions!After(i).made = IF calls[i].state = "ok"
                                           THEN calls[i].kept.made \cup {calls[i].data}
                                           ELSE calls[i].kept.made
            /\ "todo" \in DOMAIN Extractions!After(i)
            /\ "made" \in DOMAIN Extractions!After(i)
        BY <3>3, ExtractionsShared DEF Extractions!After, Runs, IsOk
      <4> DEFINE run == [Extractions!After(i) EXCEPT !.todo = @ \ {d}]
      <4>2. run.todo = calls[i].kept.todo \ {d} /\ run.made = Extractions!After(i).made
        BY <4>1
      <4> HIDE DEF run
      <4>3. c = Call(calls[i].by, "handleExtract", "POST extract",
                     [doc |-> d, template |-> calls[i].arg.template], run)
        BY DEF run
      <4>4. /\ c.then = "handleExtract" /\ c.by = calls[i].by /\ c.state = "sent"
            /\ c.arg.template = calls[i].arg.template /\ c.arg.doc = d /\ c.kept = run
        BY <4>3 DEF Call
      <4> HIDE DEF c
      <4> QED
        BY <3>1, <3>2, <4>1, <4>2, <4>4 DEF Follows
    <3> HIDE DEF c
    <3> QED
      BY <3>2, <3>4 DEF GoesOn
  <2>2. CASE Extractions!ReadOn(i)
    <3>1. calls[i].then \in {"fetchAll", "handleExtract: fetchAll",
                            "bulk-delete: fetchAll"}
      BY <2>2, ReadOnReads
    <3>2. PICK data : calls' = [calls EXCEPT ![i].data = data]
      BY <2>2, ReadOnReads
    <3> DEFINE c == [calls[i] EXCEPT !.data = data]
    <3>3. c.then = calls[i].then
      BY DEF CallsOK, GoodCalls, IsFetch
    <3>4. calls' = [calls EXCEPT ![i] = c]
      BY <3>2
    <3> HIDE DEF c
    <3> QED
      BY <3>1, <3>3, <3>4 DEF GoesOn, IsPlain
  <2>3. CASE ~Extractions!NextDoc(i) /\ ~Extractions!ReadOn(i)
    <3>1. \/ Return(i)
          \/ \E op, arg, kept : ThenFetch(i, "bulk-delete: fetchAll", op, arg, kept)
          \/ \E op, arg, kept : ThenFetch(i, "fetchAll", op, arg, kept)
      BY <1>8, <2>3, ExtractionsShared
         DEF Extractions!Continue, Extractions!FetchAllDone,
             Extractions!RunDone, Extractions!BulkDeleted, Extractions!BulkDeleteDone,
             Extractions!ExtractionDeleted, Extractions!TemplateDeleted,
             Extractions!ExportDone, Extractions!FormSaved
    <3>2. CASE \E op, arg, kept : ThenFetch(i, "fetchAll", op, arg, kept)
      BY <1>0, <3>2
    <3>3. CASE \E op, arg, kept : ThenFetch(i, "bulk-delete: fetchAll", op, arg, kept)
      BY <1>0, <3>3
    <3> QED
      BY <3>1, <3>2, <3>3, Stuck
  <2> QED
    BY <2>1, <2>2, <2>3
<1> QED
  BY <1>1, <1>2, <1>3, <1>4, <1>5, <1>6, <1>7, <1>8 DEF ContinuePanel

-----------------------------------------------------------------------------
(* How many fetches there can be.  Loading a page or the end of a run sends    *)
(* what the bound does not count: each of them happens when there is room.     *)

RoomFor(c, n, view, m) ==
    /\ c.then = "handleSubmit" => n <= MaxCalls /\ view \in {"login", "register"}
    /\ c.then = "dashboard" => view \notin {"login", "register"}
    /\ (c.then = "handleExtract" /\ c.by = m) => n <= MaxCalls

Room ==
    /\ Len(calls) <= MaxCalls + 2
    /\ ui.view = "home" => Len(calls) = 0
    /\ \A k \in DOMAIN calls : RoomFor(calls[k], Len(calls), ui.view, mount)

\* The requests of runs are new runs or come from those there were.
Derived ==
    \A k \in DOMAIN calls' :
        \/ calls'[k].then # "handleExtract"
        \/ NewRun(calls'[k])
        \/ \E j \in DOMAIN calls : calls'[k] = calls[j] \/ Follows(calls[j], calls'[k])

\* With fewer fetches under way there is still room.
LEMMA RoomShrinks ==
    ASSUME NEW n \in Nat, NEW l \in Nat, l <= n \/ l <= MaxCalls,
           NEW c, NEW view, NEW m, RoomFor(c, n, view, m)
    PROVE  RoomFor(c, l, view, m)
  BY BrowserAssumption DEF RoomFor

\* There is room for what the code sends after a click or an answer.
LEMMA Fits ==
    /\ \A c, n, view, m : IsPlain(c) => RoomFor(c, n, view, m)
    /\ \A c, n, view, m : NewRun(c) /\ n <= MaxCalls => RoomFor(c, n, view, m)
    /\ \A c, d, n, view, m :
          RoomFor(c, n, view, m) /\ Follows(c, d) => RoomFor(d, n, view, m)
  BY DEF RoomFor, IsPlain, NewRun, Follows

\* A sequence with one more at its end.
LEMMA Lengthened ==
    ASSUME NEW s, IsSeq(s), NEW c
    PROVE  /\ IsSeq(s \o <<c>>) /\ Len(s \o <<c>>) = Len(s) + 1
           /\ \A k \in DOMAIN (s \o <<c>>) :
                 \/ k \in DOMAIN s /\ (s \o <<c>>)[k] = s[k]
                 \/ (s \o <<c>>)[k] = c
<1>1. IsSeq(<<c>>) /\ DOMAIN <<c>> = {1} /\ <<c>>[1] = c /\ Len(<<c>>) = 1
  BY SeqShort, SeqFacts
<1>2. /\ IsSeq(s \o <<c>>) /\ Len(s \o <<c>>) = Len(s) + 1
      /\ \A k \in DOMAIN (s \o <<c>>) :
            /\ (s \o <<c>>)[k] = IF k \in DOMAIN s THEN s[k] ELSE <<c>>[k - Len(s)]
            /\ k \in DOMAIN s \/ k - Len(s) \in DOMAIN <<c>>
  BY <1>1, SeqJoined
<1> QED
  BY <1>1, <1>2

\* The component stays, and sends at most one request.
LEMMA RoomSends ==
    ASSUME CallsOK, Room, Sends, mount' = mount, ui'.view = ui.view, ui.view # "home"
    PROVE  Room' /\ Derived
<1>1. Len(calls) \in Nat /\ IsSeq(calls)
  BY SeqFacts DEF CallsOK, GoodCalls
<1>2. CASE calls' = calls
  BY <1>2 DEF Room, Derived
<1>3. ASSUME Len(calls) < MaxCalls,
             NEW c, calls' = calls \o <<c>>, IsPlain(c) \/ NewRun(c)
      PROVE  Room' /\ Derived
  <2>1. /\ Len(calls') = Len(calls) + 1 /\ Len(calls') <= MaxCalls
        /\ \A k \in DOMAIN calls' : \/ k \in DOMAIN calls /\ calls'[k] = calls[k]
                                    \/ calls'[k] = c
    BY <1>1, <1>3, Lengthened, BrowserAssumption
  <2>2. RoomFor(c, Len(calls'), ui.view, mount)
    BY <1>3, <2>1, Fits
  <2>3. \A k \in DOMAIN calls : RoomFor(calls[k], Len(calls'), ui.view, mount)
    BY <1>1, <2>1, RoomShrinks DEF Room
  <2>4. \A k \in DOMAIN calls' : RoomFor(calls'[k], Len(calls'), ui'.view, mount')
    BY <2>1, <2>2, <2>3
  <2>5. Room'
    BY <1>1, <2>1, <2>4, BrowserAssumption DEF Room
  <2>6. c.then # "handleExtract" \/ NewRun(c)
    BY <1>3 DEF IsPlain
  <2>7. Derived
    BY <2>1, <2>6 DEF Derived
  <2> QED
    BY <2>5, <2>7
<1> QED
  BY <1>2, <1>3 DEF Sends

\* The component stays, and the code that waited for call i goes on.
LEMMA RoomGoesOn ==
    ASSUME CallsOK, Room, NEW i \in DOMAIN calls, GoesOn(i),
           mount' = mount, ui'.view = ui.view
    PROVE  Room' /\ Derived
<1>1. Len(calls) \in Nat /\ IsSeq(calls) /\ DOMAIN calls = 1 .. Len(calls)
  BY SeqFacts DEF CallsOK, GoodCalls
<1>2. CASE calls' = calls
  BY <1>2 DEF Room, Derived
<1>3. CASE Return(i)
  <2>1. Len(calls') = Len(calls) - 1 /\ Len(calls') \in Nat /\ Len(calls) # 0
    <3>1. Len(Without(calls, i)) = Len(calls) - 1
      BY <1>1, SeqRemoved
    <3>2. calls' = Without(calls, i)
      BY <1>3 DEF Return
    <3>3. Len(calls) \in Nat /\ i \in 1 .. Len(calls)
      BY <1>1
    <3>4. Len(calls') = Len(calls) - 1
      BY <3>1, <3>2
    <3> QED
      BY <3>3, <3>4
  <2>2. \A k \in DOMAIN calls' : \E j \in DOMAIN calls : calls'[k] = calls[j]
    BY <1>3, ReturnLeaves
  <2>3. \A k \in DOMAIN calls : RoomFor(calls[k], Len(calls'), ui.view, mount)
    BY <1>1, <2>1, RoomShrinks DEF Room
  <2>4. \A k \in DOMAIN calls' : RoomFor(calls'[k], Len(calls'), ui'.view, mount')
    BY <2>2, <2>3
  <2>5. Room'
    BY <1>1, <2>1, <2>4, BrowserAssumption DEF Room
  <2> QED
    BY <2>2, <2>5 DEF Derived
<1>4. ASSUME NEW c, calls' = [calls EXCEPT ![i] = c], IsPlain(c) \/ Follows(calls[i], c)
      PROVE  Room' /\ Derived
  <2>1. /\ Len(calls') = Len(calls) /\ DOMAIN calls' = DOMAIN calls
        /\ \A k \in DOMAIN calls : calls'[k] = IF k = i THEN c ELSE calls[k]
    BY <1>1, <1>4, SeqReplaced
  <2>2. \A k \in DOMAIN calls : RoomFor(calls[k], Len(calls'), ui.view, mount)
    BY <2>1 DEF Room
  <2>3. RoomFor(c, Len(calls'), ui.view, mount)
    BY <1>4, <2>2, Fits
  <2>4. \A k \in DOMAIN calls' : RoomFor(calls'[k], Len(calls'), ui'.view, mount')
    BY <2>1, <2>2, <2>3
  <2>5. Room'
    BY <2>1, <2>4 DEF Room
  <2>6. c.then # "handleExtract" \/ Follows(calls[i], c)
    BY <1>4 DEF IsPlain
  <2>7. Derived
    BY <2>1, <2>6 DEF Derived
  <2> QED
    BY <2>5, <2>7
<1> QED
  BY <1>2, <1>3, <1>4 DEF GoesOn

\* The end of a run sends two fetches where there was one, and there is room.
LEMMA RoomLoop ==
    ASSUME CallsOK, Room, NEW i \in DOMAIN calls, Extractions!LoopEnds(i),
           mount' = mount, ui'.view = ui.view, ui.view = "extract" => Lone(Running)
    PROVE  Room' /\ Derived
<1> DEFINE c == Call(calls[i].by, "handleExtract: fetchAll", "GET all",
                     calls[i].kept.filter, Extractions!After(i))
           d == Call(mount, "fetchAll", "GET all", None, None)
           s == [calls EXCEPT ![i] = c]
<1>1. IsPlain(c) /\ IsPlain(d)
  BY DEF IsPlain, Call
<1>2. /\ calls[i].then = "handleExtract"
      /\ \/ calls' = s
         \/ calls' = s \o <<d>> /\ calls[i].by = mount
  <2>1. /\ calls[i].then = "handleExtract"
        /\ SetState(i, [ui EXCEPT !.filter = None])
        /\ calls' = s \o (IF ui' # ui THEN <<d>> ELSE << >>)
    BY ExtractionsShared DEF Extractions!LoopEnds, Awaited, Extractions!Call, Call,
       Extractions!Effect
  <2> HIDE DEF c, d
  <2>2. \E S : s \in Seq(S)
    BY SeqReplaced DEF CallsOK, GoodCalls, IsSeq
  <2> HIDE DEF s
  <2>3. s \o << >> = s
    BY <2>2
  <2> QED
    BY <2>1, <2>3 DEF SetState
<1> HIDE DEF c, d
<1>3. /\ Len(calls) \in Nat /\ IsSeq(calls) /\ DOMAIN calls = 1 .. Len(calls)
      /\ IsSeq(s) /\ Len(s) = Len(calls) /\ DOMAIN s = DOMAIN calls
      /\ \A k \in DOMAIN calls : s[k] = IF k = i THEN c ELSE calls[k]
  BY SeqFacts, SeqReplaced DEF CallsOK, GoodCalls
<1>4. ui.view # "home"
  BY <1>3 DEF Room
<1> HIDE DEF s
<1>5. CASE calls' = s
  <2>1. \A k \in DOMAIN calls' : RoomFor(calls'[k], Len(calls'), ui'.view, mount')
    BY <1>1, <1>3, <1>5, Fits DEF Room
  <2>2. Room'
    BY <1>3, <1>5, <2>1 DEF Room
  <2>3. c.then # "handleExtract"
    BY <1>1 DEF IsPlain
  <2> QED
    BY <1>3, <1>5, <2>2, <2>3 DEF Derived
<1>6. CASE calls' = s \o <<d>> /\ calls[i].by = mount
  <2>1. /\ Len(calls') = Len(calls) + 1
        /\ \A k \in DOMAIN calls' : \/ k \in DOMAIN s /\ calls'[k] = s[k]
                                    \/ calls'[k] = d
    BY <1>3, <1>6, Lengthened
  <2>2. Len(calls) <= MaxCalls
    <3>1. RoomFor(calls[i], Len(calls), ui.view, mount)
      BY DEF Room
    <3> QED
      BY <1>2, <1>6, <3>1 DEF RoomFor
  <2>3. ui.view = "extract"
    BY <1>2, <1>6 DEF CallsOK, GoodCalls, InTab, Thens
  <2>4. ASSUME NEW k \in DOMAIN calls, k # i
        PROVE  RoomFor(calls[k], Len(calls'), ui.view, mount)
    <3>1. calls[k].then # "handleSubmit"
      <4>1. RoomFor(calls[k], Len(calls), ui.view, mount)
        BY DEF Room
      <4> QED
        BY <2>3, <4>1 DEF RoomFor
    <3>2. ~(calls[k].then = "handleExtract" /\ calls[k].by = mount)
      BY <1>2, <1>6, <2>3, <2>4 DEF Lone, Running, Own
    <3> QED
      BY <2>3, <3>1, <3>2 DEF RoomFor
  <2>5. RoomFor(c, Len(calls'), ui.view, mount) /\ RoomFor(d, Len(calls'), ui.view, mount)
    BY <1>1, Fits
  <2>6. \A k \in DOMAIN calls' : RoomFor(calls'[k], Len(calls'), ui'.view, mount')
    BY <1>3, <2>1, <2>4, <2>5
  <2>7. Room'
    BY <1>3, <1>4, <2>1, <2>2, <2>6, BrowserAssumption DEF Room
  <2>8. c.then # "handleExtract" /\ d.then # "handleExtract"
    BY <1>1 DEF IsPlain
  <2>9. Derived
    BY <1>3, <2>1, <2>8 DEF Derived
  <2> QED
    BY <2>7, <2>9
<1> QED
  BY <1>2, <1>5, <1>6

\* Pages that are loaded; what they leave behind is nobody's.
LEMMA RoomLoads ==
    ASSUME TabInv, TabInv', Room, Loads,
           ui'.view \notin {"login", "register"} => Len(calls) <= MaxCalls
    PROVE  Room' /\ Derived
<1>1. /\ ui'.view \in {"dashboard", "login", "register", "admin"}
      /\ Len(calls') <= Len(calls) + 2
      /\ ui'.view \in {"login", "register"} => Len(calls') = Len(calls)
      /\ \A k \in DOMAIN calls' : calls'[k].by \in {0, mount'}
      /\ \A k \in DOMAIN calls' : calls'[k].by = mount' =>
            calls'[k].then \in {"dashboard", "admin: getMe", "admin: loadOrgs"}
  BY LoadsFresh
<1>2. /\ IsSeq(calls) /\ IsSeq(calls')
      /\ \A k \in DOMAIN calls' : InTab(calls[k])'
  BY DEF TabInv, CallsOK, GoodCalls
<1>3. Len(calls) \in Nat /\ Len(calls') \in Nat
  BY <1>2, SeqFacts
<1>4. \A k \in DOMAIN calls' :
         /\ calls'[k].then \in {"gone", "dashboard", "admin: getMe", "admin: loadOrgs"}
         /\ calls'[k].then = "dashboard" => ui'.view \notin {"login", "register"}
  BY <1>1, <1>2 DEF InTab, Thens
<1>5. \A k \in DOMAIN calls' : RoomFor(calls'[k], Len(calls'), ui'.view, mount')
  BY <1>4 DEF RoomFor
<1>6. Len(calls') <= MaxCalls + 2
  <2>1. CASE ui'.view \in {"login", "register"}
    BY <1>1, <2>1 DEF Room
  <2>2. CASE ui'.view \notin {"login", "register"}
    <3>1. Len(calls) <= MaxCalls
      BY <2>2
    <3>2. Len(calls') <= Len(calls) + 2
      BY <1>1
    <3> QED
      BY <1>3, <3>1, <3>2, BrowserAssumption
  <2> QED
    BY <2>1, <2>2
<1> QED
  BY <1>1, <1>4, <1>5, <1>6 DEF Room, Derived

\* Another panel, or the first one.
LEMMA RoomMounts ==
    ASSUME TabInv, Room, NEW base, IsSeq(base), Len(base) <= Len(calls),
           \A k \in DOMAIN base : \E j \in DOMAIN calls : base[k] = calls[j],
           NEW c, c.then \notin {"handleExtract", "handleSubmit", "dashboard"},
           calls' = base \o <<c>>, mount' = mount + 1,
           ui.view \notin {"login", "register"},
           ui'.view \in Panels \cup {"viewer"},
           Len(calls') <= MaxCalls \/ Len(calls') = Len(calls)
    PROVE  Room' /\ Derived
<1>1. /\ IsSeq(calls) /\ Len(calls) \in Nat /\ Len(base) \in Nat /\ mount \in Nat
      /\ \A j \in DOMAIN calls : calls[j].by \in 0 .. mount
  BY SeqFacts DEF TabInv, CallsOK, GoodCalls, InTab
<1>2. /\ Len(calls') = Len(base) + 1
      /\ \A k \in DOMAIN calls' : \/ \E j \in DOMAIN calls : calls'[k] = calls[j]
                                  \/ calls'[k] = c
  BY Lengthened
<1>3. \A j \in DOMAIN calls : calls[j].then # "handleSubmit" /\ calls[j].by # mount'
  BY <1>1 DEF Room, RoomFor
<1>4. ui'.view \notin {"home", "login", "register"}
  BY DEF Panels
<1>5. \A k \in DOMAIN calls' : RoomFor(calls'[k], Len(calls'), ui'.view, mount')
  BY <1>2, <1>3, <1>4 DEF RoomFor
<1>6. Len(calls') <= MaxCalls + 2
  BY <1>1, <1>2, BrowserAssumption DEF Room
<1>7. Room'
  BY <1>4, <1>5, <1>6 DEF Room
<1> QED
  BY <1>2, <1>7 DEF Derived

\* Opening a panel sends one.
LEMMA GoToRoom ==
    ASSUME TabInv, Room,
           \/ \E view \in Panels : GoTo(view)
           \/ \E d \in Docs : SelectRow(d)
           \/ \E i \in DOMAIN calls : Known(i)
    PROVE  Room' /\ Derived
<1>1. CallsOK /\ IsSeq(calls) /\ token \in Tokens
  BY DEF TabInv, CallsOK, GoodCalls
<1>2. ASSUME NEW new, NEW c, Mount(new, <<c>>), InDashboard,
             new.view \in Panels \cup {"viewer"},
             c.then \notin {"handleExtract", "handleSubmit", "dashboard"}
      PROVE  Room' /\ Derived
  <2>1. /\ calls' = calls \o <<c>> /\ mount' = mount + 1 /\ ui' = new
        /\ Len(calls') <= MaxCalls
    BY <1>2 DEF Mount
  <2>2. ui.view \notin {"login", "register"}
    BY <1>2 DEF InDashboard, Panels
  <2>3. /\ \A k \in DOMAIN calls : \E j \in DOMAIN calls : calls[k] = calls[j]
        /\ Len(calls) <= Len(calls)
    BY <1>1, SeqFacts
  <2> QED
    BY <1>1, <1>2, <2>1, <2>2, <2>3, RoomMounts
<1>3. ASSUME NEW view \in Panels, GoTo(view)
      PROVE  Room' /\ Derived
  <2>1. /\ user \in Profiles /\ InDashboard
        /\ Mount(FreshOf(view, user), EffectOf(view, mount + 1))
    BY <1>3 DEF TabInv, PagesOK, GoTo
  <2>2. PICK c : /\ EffectOf(view, mount + 1) = <<c>> /\ c.then = FirstThen[view]
    BY <1>1, PanelEffect
  <2>3. FreshOf(view, user).view \in Panels \cup {"viewer"}
    BY <2>1, PanelFresh
  <2>4. c.then \notin {"handleExtract", "handleSubmit", "dashboard"}
    <3>1. /\ FirstThen["documents"] = "fetchDocs" /\ FirstThen["search"] = "DocumentSelector"
          /\ FirstThen["extract"] = "fetchAll" /\ FirstThen["team"] = "load"
          /\ FirstThen["compare"] = "compare: documents"
          /\ FirstThen["ai"] = "DocumentSelector"
      BY DEF FirstThen
    <3>2. \/ view = "documents" \/ view = "search" \/ view = "extract"
          \/ view = "team" \/ view = "compare" \/ view = "ai"
      BY DEF Panels
    <3>3. FirstThen[view] \in {"fetchDocs", "DocumentSelector", "fetchAll", "load",
                              "compare: documents"}
      BY <3>1, <3>2
    <3> QED
      BY <2>2, <3>3
  <2> QED
    BY <1>2, <2>1, <2>2, <2>3, <2>4
<1>4. ASSUME NEW d \in Docs, SelectRow(d)
      PROVE  Room' /\ Derived
  <2> DEFINE c == Call(mount + 1, "viewer", "GET document", d, None)
  <2>1. Mount(Viewer!Fresh(d), <<c>>) /\ InDashboard
    BY <1>4 DEF SelectRow, Viewer!Effect, Viewer!Call, Call, InDashboard, Panels
  <2>2. Viewer!Fresh(d).view = "viewer"
    BY DEF Viewer!Fresh
  <2>3. c.then = "viewer"
    BY DEF Call
  <2> HIDE DEF c
  <2> QED
    BY <1>2, <2>1, <2>2, <2>3
<1>5. ASSUME NEW i \in DOMAIN calls, Known(i)
      PROVE  Room' /\ Derived
  <2> DEFINE c == Call(mount + 1, "fetchDocs", "GET documents", None, None)
             base == Without(calls, i)
  <2>1. /\ mount' = mount + 1 /\ calls[i].then = "dashboard"
        /\ ui' = List!Fresh /\ token' = token
        /\ calls' = base \o List!Effect(mount')
    BY <1>5 DEF Known, Awaited
  <2>2. List!Effect(mount') = <<c>>
    BY <2>1 DEF List!Effect, List!Call, Call
  <2>3. ui'.view = "documents"
    BY <2>1 DEF List!Fresh
  <2>4. c.then = "fetchDocs"
    BY DEF Call
  <2>5. Len(calls) \in Nat /\ DOMAIN calls = 1 .. Len(calls)
    BY <1>1, SeqFacts
  <2>6. /\ IsSeq(base) /\ Len(base) = Len(calls) - 1
        /\ DOMAIN base = 1 .. Len(calls) - 1
        /\ \A k \in DOMAIN base : base[k] = IF k < i THEN calls[k] ELSE calls[k + 1]
    BY <1>1, SeqRemoved
  <2> HIDE DEF c, base
  <2>7. \A k \in DOMAIN base : \E j \in DOMAIN calls : base[k] = calls[j]
    <3>1. \A k \in DOMAIN base : k \in DOMAIN calls /\ k + 1 \in DOMAIN calls
      BY <2>5, <2>6
    <3> QED
      BY <2>6, <3>1
  <2>8. calls' = base \o <<c>>
    BY <2>1, <2>2
  <2>9. Len(base) <= Len(calls) /\ Len(calls') = Len(calls)
    <3>1. Len(base \o <<c>>) = Len(base) + 1
      BY <2>6, Lengthened
    <3>2. Len(base) = Len(calls) - 1
      BY <2>6
    <3>3. Len(calls') = Len(base) + 1
      BY <2>8, <3>1
    <3> QED
      BY <2>5, <3>2, <3>3
  <2>10. ui.view \notin {"login", "register"}
    BY <2>1 DEF Room, RoomFor
  <2>11. ui'.view \in Panels \cup {"viewer"}
    BY <2>3 DEF Panels
  <2> QED
    BY <2>1, <2>4, <2>6, <2>7, <2>8, <2>9, <2>10, <2>11, RoomMounts
<1> QED
  BY <1>3, <1>4, <1>5

\* What an answer does not touch.
LEMMA RoomReply ==
    ASSUME TabInv, Room, NEW i \in DOMAIN calls, Respond(i)
    PROVE  Room'
<1>1. PICK state, data : Reply(i, state, data)
  BY RespondReplies
<1>2. CallsOK /\ IsSeq(calls) /\ mount' = mount /\ ui' = ui
  BY <1>1 DEF TabInv, CallsOK, GoodCalls, Reply
<1>3. /\ DOMAIN calls' = DOMAIN calls
      /\ \A k \in DOMAIN calls : calls'[k].by = calls[k].by /\ calls'[k].then = calls[k].then
  BY <1>1, <1>2, ReplyLeaves
<1>4. Len(calls') = Len(calls)
  <2> DEFINE c == [calls[i] EXCEPT !.state = state, !.data = data]
  <2>1. calls' = [calls EXCEPT ![i] = c]
    BY <1>1 DEF Reply
  <2> HIDE DEF c
  <2> QED
    BY <1>2, <2>1, SeqReplaced
<1>5. \A k \in DOMAIN calls' : RoomFor(calls'[k], Len(calls'), ui'.view, mount')
  BY <1>2, <1>3, <1>4 DEF Room, RoomFor
<1> QED
  BY <1>2, <1>4, <1>5 DEF Room

\* Signing in, and leaving, send one.
LEMMA RoomFetch ==
    ASSUME TabInv, TabInv', Room, Submit \/ HandleLogout
    PROVE  Room' /\ Derived
<1>1. CallsOK /\ IsSeq(calls) /\ Len(calls) \in Nat /\ UiOK(ui) /\ UiOK(ui')
  BY SeqFacts DEF TabInv, CallsOK, GoodCalls
<1>2. CASE HandleLogout
  <2>1. Fetch("handleLogout", "POST logout", None, None) /\ mount' = mount /\ ui' = ui
    BY <1>2 DEF HandleLogout
  <2>2. ui.view # "home"
    BY <1>2 DEF HandleLogout, InDashboard, Panels
  <2>3. \E op, arg, kept : Fetch("handleLogout", op, arg, kept)
    BY <2>1
  <2>4. Sends
    BY <1>1, <2>3, FetchSends
  <2> QED
    BY <1>1, <2>1, <2>2, <2>4, RoomSends
<1>3. CASE Submit
  <2>1. PICK op : Fetch("handleSubmit", op, None, None)
    BY <1>3 DEF Submit
  <2>2. /\ mount' = mount /\ ui.view \in {"login", "register"} /\ ui'.view = ui.view
    BY <1>1, <1>3 DEF Submit, CanSubmit, UiOK
  <2> DEFINE c == Call(mount, "handleSubmit", op, None, None)
  <2>3. calls' = calls \o <<c>> /\ Len(calls) < MaxCalls
    BY <1>1, <2>1, FetchAppends DEF Fetch
  <2>4. c.then = "handleSubmit"
    BY DEF Call
  <2> HIDE DEF c
  <2>5. /\ Len(calls') = Len(calls) + 1
        /\ \A k \in DOMAIN calls' : \/ k \in DOMAIN calls /\ calls'[k] = calls[k]
                                    \/ calls'[k] = c
    BY <1>1, <2>3, Lengthened
  <2>6. Len(calls') \in Nat /\ Len(calls') <= MaxCalls
    BY <1>1, <2>3, <2>5, BrowserAssumption
  <2>7. \A k \in DOMAIN calls : RoomFor(calls[k], Len(calls'), ui.view, mount)
    BY <1>1, <2>6, RoomShrinks DEF Room
  <2>8. RoomFor(c, Len(calls'), ui.view, mount)
    BY <2>2, <2>4, <2>6 DEF RoomFor
  <2>9. \A k \in DOMAIN calls' : RoomFor(calls'[k], Len(calls'), ui'.view, mount')
    BY <2>2, <2>5, <2>7, <2>8
  <2>10. Room'
    BY <2>2, <2>6, <2>9, BrowserAssumption DEF Room
  <2> QED
    BY <2>4, <2>5, <2>10 DEF Derived
<1> QED
  BY <1>2, <1>3

\* What happens elsewhere sends at most one, the list's own refresh.
LEMMA ElsewhereSends ==
    ASSUME TabInv, Elsewhere
    PROVE  Sends /\ (ui.view = "home" => calls' = calls)
<1>1. IsSeq(calls) /\ Len(calls) \in Nat
  BY SeqFacts DEF TabInv, CallsOK, GoodCalls
<1>2. CASE calls' = calls
  BY <1>2, Stuck
<1>3. CASE /\ ui.view = "documents" /\ Len(calls') <= MaxCalls
           /\ calls' = calls \o List!Effect(mount)
  <2> DEFINE c == Call(mount, "fetchDocs", "GET documents", None, None)
  <2>1. calls' = calls \o <<c>>
    BY <1>3 DEF List!Effect, List!Call, Call
  <2>2. IsPlain(c)
    BY DEF IsPlain, Call
  <2> HIDE DEF c
  <2>3. Len(calls') = Len(calls) + 1
    BY <1>1, <2>1, Lengthened
  <2>4. Len(calls) < MaxCalls
    BY <1>1, <1>3, <2>3, BrowserAssumption
  <2>5. ui.view # "home"
    BY <1>3
  <2> QED
    BY <2>1, <2>2, <2>4, <2>5 DEF Sends
<1> QED
  BY <1>2, <1>3 DEF Elsewhere, UploadEnds, OthersDelete, OthersManage

\* A page is loaded when nothing is under way, when somebody signs in, or it is
\* one that sends nothing.
LEMMA LoadsHaveRoom ==
    ASSUME TabInv, Room,
           \/ Home \/ FollowLink \/ NoToken
           \/ \E i \in DOMAIN calls : SignedIn(i) \/ Unknown(i) \/ LoggedOut(i)
    PROVE  /\ Loads /\ UNCHANGED server
           /\ ui'.view \notin {"login", "register"} => Len(calls) <= MaxCalls
<1>1. \A view : view \in {"login", "register"} /\ Load(view) => ui'.view = view
  BY DEF Load, FreshOf, Page
<1>2. CASE Home
  <2>1. Len(calls) = 0
    BY <1>2 DEF Home, Room
  <2> QED
    BY <1>2, <2>1, BrowserAssumption DEF Home, Loads
<1>3. CASE FollowLink \/ NoToken \/ \E i \in DOMAIN calls : Unknown(i) \/ LoggedOut(i)
  <2>1. UNCHANGED server /\ \E view \in {"login", "register"} : Load(view)
    BY <1>3 DEF FollowLink, NoToken, Unknown, LoggedOut
  <2> QED
    BY <1>1, <2>1 DEF Loads
<1>4. ASSUME NEW i \in DOMAIN calls, SignedIn(i)
      PROVE  Loads /\ UNCHANGED server /\ Len(calls) <= MaxCalls
  <2>1. calls[i].then = "handleSubmit" /\ UNCHANGED server /\ (Load("admin") \/ Load("dashboard"))
    BY <1>4 DEF SignedIn, Awaited
  <2>2. Len(calls) <= MaxCalls
    BY <2>1 DEF Room, RoomFor
  <2> QED
    BY <2>1, <2>2 DEF Loads
<1> QED
  BY <1>2, <1>3, <1>4

\* Every step either answers a fetch, or sends and goes on without adding to the
\* extractions.
LEMMA CallsStep ==
    ASSUME TabInv, TabInv', PanelInv, Room, [Next]_vars
    PROVE  /\ Room'
           /\ \/ \E i \in DOMAIN calls : Respond(i)
              \/ Derived /\ rows' \subseteq rows /\ serial' = serial
<1> DEFINE Still == rows' \subseteq rows /\ serial' = serial
           Goal == /\ Room'
                   /\ \/ \E i \in DOMAIN calls : Respond(i)
                      \/ Derived /\ Still
<1>0. CallsOK /\ UiOK(ui) /\ (UNCHANGED server => Still)
  BY DEF TabInv, server
<1>1. CASE UNCHANGED vars
  BY <1>0, <1>1 DEF vars, client, Room, Derived
<1>2. CASE \/ Home \/ FollowLink \/ NoToken
           \/ \E i \in DOMAIN calls : SignedIn(i) \/ Unknown(i) \/ LoggedOut(i)
  BY <1>0, <1>2, LoadsHaveRoom, RoomLoads
<1>3. CASE Submit \/ HandleLogout
  <2>1. UNCHANGED server
    BY <1>3 DEF Submit, HandleLogout
  <2> QED
    BY <1>0, <1>3, <2>1, RoomFetch
<1>4. CASE \/ \E view \in Panels : GoTo(view)
           \/ \E d \in Docs : SelectRow(d)
           \/ \E i \in DOMAIN calls : Known(i)
  <2>1. UNCHANGED server
    BY <1>4 DEF GoTo, SelectRow, Known, Mount
  <2> QED
    BY <1>0, <1>4, <2>1, GoToRoom
<1>5. CASE ClickPanel
  <2>1. Sends /\ Stays /\ ui.view \in Panels \cup {"viewer", "admin"} /\ UNCHANGED server
    BY <1>0, <1>5, ClickSends, ClickView DEF ClickPanel
  <2>2. ui.view # "home" /\ mount' = mount /\ ui'.view = ui.view
    BY <2>1 DEF Panels, Stays
  <2> QED
    BY <1>0, <2>1, <2>2, RoomSends
<1>6. CASE \E i \in DOMAIN calls : Respond(i)
  BY <1>6, RoomReply
<1>7. ASSUME NEW i \in DOMAIN calls, ContinuePanel(i)
      PROVE  Goal
  <2>1. mount' = mount /\ ui'.view = ui.view /\ UNCHANGED server
    <3>1. CASE calls[i].by = mount
      BY <1>7, <3>1, ContinueView DEF Stays, ContinuePanel
    <3>2. CASE calls[i].by # mount
      BY <1>0, <1>7, <3>2, ContinueGoes DEF ContinuePanel
    <3> QED
      BY <3>1, <3>2
  <2>2. CASE GoesOn(i)
    BY <1>0, <2>1, <2>2, RoomGoesOn
  <2>3. CASE Extractions!LoopEnds(i)
    <3>1. ui.view = "extract" => Lone(Running)
      BY DEF PanelInv, ExtractInv, RunInv
    <3> QED
      BY <1>0, <2>1, <2>3, <3>1, RoomLoop
  <2> QED
    BY <1>0, <1>7, <2>2, <2>3, PanelGoesOn
<1>8. ASSUME NEW i \in DOMAIN calls, SignInFailed(i) \/ Forget(i)
      PROVE  Goal
  <2>1. Return(i) /\ mount' = mount /\ UNCHANGED server
    BY <1>8 DEF SignInFailed, Forget
  <2>2. ui'.view = ui.view
    <3>1. CASE SignInFailed(i) /\ calls[i].by = mount
      <4>1. ui' = [ui EXCEPT !.loading = FALSE, !.error = TRUE]
        BY <3>1 DEF SignInFailed, SetState
      <4>2. ui.view \in {"login", "register"}
        BY <1>0, <3>1 DEF CallsOK, GoodCalls, InTab, Thens, SignInFailed, Awaited
      <4> QED
        BY <1>0, <4>1, <4>2 DEF UiOK
    <3>2. CASE Forget(i) \/ calls[i].by # mount
      BY <1>8, <3>2 DEF SignInFailed, Forget, SetState
    <3> QED
      BY <1>8, <3>1, <3>2
  <2>3. GoesOn(i)
    BY <2>1, Stuck
  <2> QED
    BY <1>0, <2>1, <2>2, <2>3, RoomGoesOn
<1>9. CASE Elsewhere
  <2>1. Sends /\ (ui.view = "home" => calls' = calls) /\ mount' = mount /\ ui' = ui
    BY <1>9, ElsewhereSends DEF Elsewhere
  <2>2. Still
    BY <1>9 DEF Elsewhere, UploadEnds, OthersDelete, OthersManage
  <2>3. Room' /\ Derived
    <3>1. CASE ui.view # "home"
      BY <1>0, <2>1, <3>1, RoomSends
    <3>2. CASE ui.view = "home"
      BY <2>1, <3>2 DEF Room, Derived
    <3> QED
      BY <3>1, <3>2
  <2> QED
    BY <2>2, <2>3
<1> QED
  BY <1>1, <1>2, <1>3, <1>4, <1>5, <1>6, <1>7, <1>8, <1>9 DEF Next, Continue

\* There is room for the first fetches of every page.
LEMMA RoomInit == Init => Room
<1> SUFFICES ASSUME Init PROVE Room
  OBVIOUS
<1>1. PICK t \in Tours :
         /\ token = t.token /\ mount = 1 /\ ui = t.ui
         /\ calls = IF t.settled THEN << >> ELSE EffectOf(t.ui.view, 1)
  BY DEF Init
<1>2. token \in Tokens /\ MaxCalls \in Nat
  BY <1>1, TourAssumption, BrowserAssumption DEF IsTour
<1>3. CASE calls = << >>
  <2>1. Len(calls) = 0 /\ DOMAIN calls = {}
    BY <1>3
  <2> QED
    BY <1>2, <2>1 DEF Room
<1>4. ASSUME NEW c, calls = <<c>>, ui.view # "home", IsPlain(c) \/ ui.view = "dashboard",
             c.then \notin {"handleExtract", "handleSubmit"}
      PROVE  Room
  <2>1. Len(calls) = 1 /\ DOMAIN calls = {1} /\ calls[1] = c
    BY <1>4, SeqShort, SeqFacts
  <2>2. RoomFor(c, Len(calls), ui.view, mount)
    BY <1>4 DEF RoomFor, IsPlain
  <2> QED
    BY <1>2, <1>4, <2>1, <2>2 DEF Room
<1>5. CASE calls = EffectOf(ui.view, 1)
  <2>1. CASE ui.view \in Panels
    <3>1. PICK c : EffectOf(ui.view, 1) = <<c>> /\ c.then = FirstThen[ui.view]
      BY <1>2, <2>1, PanelEffect
    <3>2. /\ FirstThen["documents"] = "fetchDocs" /\ FirstThen["search"] = "DocumentSelector"
          /\ FirstThen["extract"] = "fetchAll" /\ FirstThen["team"] = "load"
          /\ FirstThen["compare"] = "compare: documents"
          /\ FirstThen["ai"] = "DocumentSelector"
      BY DEF FirstThen
    <3>3. \/ ui.view = "documents" \/ ui.view = "search" \/ ui.view = "extract"
          \/ ui.view = "team" \/ ui.view = "compare" \/ ui.view = "ai"
      BY <2>1 DEF Panels
    <3>4. c.then \in {"fetchDocs", "DocumentSelector", "fetchAll", "load",
                      "compare: documents"}
      BY <3>1, <3>2, <3>3
    <3>5. IsPlain(c) /\ c.then \notin {"handleExtract", "handleSubmit"} /\ ui.view # "home"
      BY <3>3, <3>4 DEF IsPlain
    <3> QED
      BY <1>4, <1>5, <3>1, <3>5
  <2>2. CASE ui.view = "dashboard" /\ token # None
    <3> DEFINE c == Call(1, "dashboard", "GET me", None, None)
    <3>1. calls = <<c>>
      BY <1>5, <2>2 DEF EffectOf
    <3>2. c.then = "dashboard"
      BY DEF Call
    <3> HIDE DEF c
    <3> QED
      BY <1>4, <2>2, <3>1, <3>2
  <2>3. CASE ui.view = "admin" /\ token # None
    <3> DEFINE c == Call(1, "admin: getMe", "GET platform-admin/me", None, None)
               d == Call(1, "admin: loadOrgs", "GET orgs", None, None)
    <3>1. calls = <<c, d>>
      BY <1>5, <2>3 DEF EffectOf, AdminPanel!Effect, AdminPanel!Call, Call
    <3>2. IsPlain(c) /\ IsPlain(d)
      BY DEF Call, IsPlain
    <3> HIDE DEF c, d
    <3>3. Len(calls) = 2 /\ calls[1] = c /\ calls[2] = d /\ DOMAIN calls = 1 .. 2
      BY <3>1, SeqShort, SeqFacts
    <3>4. \A k \in DOMAIN calls : k = 1 \/ k = 2
      BY <3>3
    <3>5. \A k \in DOMAIN calls : IsPlain(calls[k])
      BY <3>2, <3>3, <3>4
    <3>6. \A k \in DOMAIN calls : RoomFor(calls[k], Len(calls), ui.view, mount)
      BY <3>5, Fits
    <3>7. ui.view # "home"
      BY <2>3
    <3> QED
      BY <1>2, <3>3, <3>6, <3>7 DEF Room
  <2>4. CASE ui.view \notin Panels /\ ~(ui.view \in {"dashboard", "admin"} /\ token # None)
    <3>1. calls = << >>
      BY <1>5, <2>4 DEF EffectOf, Panels
    <3> QED
      BY <1>3, <3>1
  <2> QED
    BY <2>1, <2>2, <2>3, <2>4
<1> QED
  BY <1>1, <1>3, <1>5

\* Types of the whole tab: what is mounted is a state of its page or panel, the
\* server's tables are over what there is, and no more fetches are in flight than
\* the bound and the two that a loaded page may add.
THEOREM TypesHold == Spec => []TypeOK
<1>1. Init => Room
  BY RoomInit
<1>2. TabInv /\ TabInv' /\ PanelInv /\ Room /\ [Next]_vars => Room'
  BY CallsStep
<1>3. Spec => []Room
  BY <1>1, <1>2, TabAlways, PanelAlways, PTL DEF Spec
<1>4. TabInv /\ Room => TypeOK
  <2> SUFFICES ASSUME TabInv, Room PROVE TypeOK
    OBVIOUS
  <2>1. \A i \in DOMAIN calls : IsCall(calls[i])
    BY DEF TabInv, CallsOK, GoodCalls, IsFetch, InTab, IsCall
  <2> QED
    BY <2>1 DEF TabInv, ServerOK, Room, TypeOK
<1> QED
  BY <1>3, <1>4, TabAlways, PTL

-----------------------------------------------------------------------------
(* Runs. *)

\* The extractions that run request c has made and knows of.
Made(c) == IF c.state = "ok" THEN c.kept.made \cup {c.data} ELSE c.kept.made

\* What a run has made is of one template and of documents that are not to come.
RunOK(c, table, last) ==
    c.then = "handleExtract" =>
        /\ Made(c) \subseteq 1 .. last /\ c.arg.doc \notin c.kept.todo
        /\ \A r \in table :
              /\ r.id \in Made(c) =>
                    r.template = c.arg.template /\ r.doc \notin c.kept.todo
              /\ r.id \in c.kept.made => r.doc # c.arg.doc
        /\ \A r, s \in table :
              {r.id, s.id} \subseteq Made(c) /\ r # s => r.doc # s.doc

RunsOK ==
    /\ \A r \in rows : r.id <= serial
    /\ \A k \in DOMAIN calls : RunOK(calls[k], rows, serial)

\* A run that starts has made nothing.
LEMMA RunBegins ==
    ASSUME NEW c, NewRun(c), NEW table, NEW last
    PROVE  RunOK(c, table, last)
  BY DEF NewRun, RunOK, Made

\* The next request of a run remembers what the run has made.
LEMMA RunGoesOn ==
    ASSUME NEW c, NEW d, NEW table, NEW last, RunOK(c, table, last), Follows(c, d)
    PROVE  RunOK(d, table, last)
<1>1. /\ c.then = "handleExtract" /\ d.state = "sent"
      /\ d.arg.template = c.arg.template /\ d.arg.doc \in c.kept.todo
      /\ d.kept.todo = c.kept.todo \ {d.arg.doc} /\ d.kept.made = Made(c)
  BY DEF Follows, Made
<1>2. Made(d) = Made(c)
  BY <1>1 DEF Made
<1> HIDE DEF Made
<1> QED
  BY <1>1, <1>2 DEF RunOK

\* Rows that others delete are no harm to a run.
LEMMA FewerRows ==
    ASSUME NEW c, NEW table, NEW less \in SUBSET table, NEW last, RunOK(c, table, last)
    PROVE  RunOK(c, less, last)
  BY DEF RunOK

\* A run request that is answered with nothing, or whose answer is lost.
LEMMA RunLoses ==
    ASSUME NEW c, NEW d, d.then = c.then, d.arg = c.arg, d.kept = c.kept,
           d.state # "ok", NEW table, NEW last, RunOK(c, table, last)
    PROVE  RunOK(d, table, last)
<1>1. Made(d) = c.kept.made /\ Made(d) \subseteq Made(c)
  BY DEF Made
<1> HIDE DEF Made
<1> QED
  BY <1>1 DEF RunOK

\* A new extraction, of the run that asked for it and of the others.
LEMMA RowAdded ==
    ASSUME NEW table, NEW last \in Nat, \A r \in table : r.id <= last,
           NEW row, row.id = last + 1,
           NEW c, RunOK(c, table, last)
    PROVE  RunOK(c, table \cup {row}, last + 1)
<1>1. \A n \in 1 .. last : n \in 1 .. last + 1 /\ n # last + 1
  OBVIOUS
<1> SUFFICES ASSUME c.then = "handleExtract"
             PROVE  RunOK(c, table \cup {row}, last + 1)
  BY DEF RunOK
<1>2. Made(c) \subseteq 1 .. last
  BY DEF RunOK
<1>3. row.id \notin Made(c) /\ row.id \notin c.kept.made /\ Made(c) \subseteq 1 .. last + 1
  BY <1>1, <1>2 DEF Made
<1> HIDE DEF Made
<1> QED
  BY <1>3 DEF RunOK

\* The row that a run's own request makes.
LEMMA RowMade ==
    ASSUME NEW table, NEW last \in Nat, \A r \in table : r.id <= last,
           NEW row, row.id = last + 1,
           NEW c, RunOK(c, table, last), c.state = "sent",
           row.doc = c.arg.doc, row.template = c.arg.template,
           NEW d, d.then = c.then, d.arg = c.arg, d.kept = c.kept,
           d.state = "ok", d.data = row.id
    PROVE  RunOK(d, table \cup {row}, last + 1)
<1>1. \A n \in 1 .. last : n \in 1 .. last + 1 /\ n # last + 1
  OBVIOUS
<1> SUFFICES ASSUME c.then = "handleExtract"
             PROVE  RunOK(d, table \cup {row}, last + 1)
  BY DEF RunOK
<1>2. Made(d) = Made(c) \cup {row.id} /\ Made(c) = c.kept.made
  BY DEF Made
<1>3. Made(c) \subseteq 1 .. last /\ c.arg.doc \notin c.kept.todo
  BY DEF RunOK
<1>4. row.id \notin Made(c) /\ Made(d) \subseteq 1 .. last + 1
  BY <1>1, <1>2, <1>3
<1>5. \A r \in table : /\ r.id # row.id
                       /\ r.id \in Made(d) => r.id \in Made(c)
  <2>1. \A r \in table : r.id # last + 1
    <3> SUFFICES ASSUME NEW r \in table, r.id = last + 1 PROVE FALSE
      OBVIOUS
    <3>1. last + 1 <= last
      OBVIOUS
    <3> QED
      BY <3>1
  <2> QED
    BY <1>2, <2>1
<1> HIDE DEF Made
<1>6. \A r \in table \cup {row} :
         /\ r.id \in Made(d) =>
               r.template = d.arg.template /\ r.doc \notin d.kept.todo
         /\ r.id \in d.kept.made => r.doc # d.arg.doc
  BY <1>2, <1>3, <1>4, <1>5 DEF RunOK
<1>7. \A r \in table : r.id \in Made(d) => r.doc # row.doc
  BY <1>2, <1>5 DEF RunOK
<1>8. \A r, s \in table \cup {row} :
         {r.id, s.id} \subseteq Made(d) /\ r # s => r.doc # s.doc
  BY <1>5, <1>7 DEF RunOK
<1> QED
  BY <1>3, <1>4, <1>6, <1>8 DEF RunOK

\* No other handler makes a row.
LEMMA RespondsHow ==
    ASSUME NEW i \in DOMAIN calls, Respond(i), ~RunExtraction(i)
    PROVE  \E state, data :
              /\ Reply(i, state, data) /\ rows' \subseteq rows /\ serial' = serial
              /\ state # "ok" \/ calls[i].op # "POST extract"
<1> DEFINE Goal == \E state, data :
              /\ Reply(i, state, data) /\ rows' \subseteq rows /\ serial' = serial
              /\ state # "ok" \/ calls[i].op # "POST extract"
<1>1. ASSUME NEW op, NEW found, NEW data, op # "POST extract", Read(i, op, found, data)
      PROVE  Goal
  <2>1. /\ calls[i].op # "POST extract" /\ UNCHANGED server
        /\ Reply(i, "ok", data) \/ Reply(i, "refused", None)
    BY <1>1 DEF Read, Sent
  <2> QED
    BY <2>1 DEF server
<1>2. ASSUME NEW op, NEW allowed, NEW data, op # "POST extract",
             Write(i, op, allowed, data), rows' \subseteq rows, serial' = serial
      PROVE  Goal
  <2>1. calls[i].op # "POST extract" /\ Reply(i, "ok", data)
    BY <1>2 DEF Write, Sent
  <2> QED
    BY <1>2, <2>1
<1>3. ASSUME NEW op, NEW data, op # "POST extract", AdminRead(i, op, data)
      PROVE  Goal
  <2>1. /\ calls[i].op # "POST extract" /\ UNCHANGED server
        /\ Reply(i, "ok", data) \/ Reply(i, "refused", None)
    BY <1>3 DEF AdminRead, Sent
  <2> QED
    BY <2>1 DEF server
<1>4. CASE ServeDocuments(i)
  <2>1. CASE BulkDelete(i)
    <3>1. /\ \E allowed : Write(i, "POST documents/bulk/delete", allowed, None)
          /\ rows' \subseteq rows /\ serial' = serial
      BY <2>1 DEF BulkDelete
    <3> QED
      BY <1>2, <3>1
  <2>2. CASE Body(i)
    <3>1. /\ calls[i].op # "POST extract" /\ UNCHANGED server
          /\ Reply(i, "ok", calls[i].arg)
      BY <2>2 DEF Body, Sent
    <3> QED
      BY <3>1 DEF server
  <2>3. CASE \/ ListDocuments(i) \/ GetDocument(i) \/ ReadDocuments(i)
             \/ Compare(i) \/ Answer(i) \/ Search(i)
    <3>1. \E op \in {"GET documents", "GET document", "POST documents/bulk",
                     "POST compare", "POST ai", "GET search"} :
             \E found, data : Read(i, op, found, data)
      BY <2>3 DEF ListDocuments, GetDocument, ReadDocuments, Compare, Answer, Search
    <3> QED
      BY <1>1, <3>1
  <2> QED
    BY <1>4, <2>1, <2>2, <2>3 DEF ServeDocuments
<1>5. CASE ServeExtractions(i)
  <2>1. CASE ReadAll(i)
    <3>1. /\ calls[i].op # "POST extract" /\ UNCHANGED server
          /\ \E data : Reply(i, "ok", data)
      BY <2>1 DEF ReadAll, Sent
    <3> QED
      BY <3>1 DEF server
  <2>2. CASE DeleteRows(i)
    <3>1. /\ \E allowed : Write(i, "DELETE extractions", allowed, None)
          /\ rows' \subseteq rows /\ serial' = serial
      BY <2>2 DEF DeleteRows
    <3> QED
      BY <1>2, <3>1
  <2>3. CASE CreateTemplate(i)
    <3>1. /\ \E allowed, data : Write(i, "POST template", allowed, data)
          /\ rows' \subseteq rows /\ serial' = serial
      BY <2>3 DEF CreateTemplate
    <3> QED
      BY <1>2, <3>1
  <2>4. CASE DeleteTemplate(i)
    <3>1. /\ \E allowed : Write(i, "DELETE template", allowed, None)
          /\ rows' \subseteq rows /\ serial' = serial
      BY <2>4 DEF DeleteTemplate
    <3> QED
      BY <1>2, <3>1
  <2>5. CASE ExportRows(i) \/ UpdateTemplate(i)
    <3>1. \E op \in {"GET extractions/export", "PATCH template"} :
             \E found, data : Read(i, op, found, data)
      BY <2>5 DEF ExportRows, UpdateTemplate
    <3> QED
      BY <1>1, <3>1
  <2> QED
    BY <1>5, <2>1, <2>2, <2>3, <2>4, <2>5 DEF ServeExtractions
<1>6. CASE ServeAccounts(i)
  <2>1. CASE CreateUser(i)
    <3>1. /\ \E allowed : Write(i, "POST user", allowed, None)
          /\ rows' \subseteq rows /\ serial' = serial
      BY <2>1 DEF CreateUser
    <3> QED
      BY <1>2, <3>1
  <2>2. CASE UpdateUser(i)
    <3>1. /\ \E allowed : Write(i, "PATCH user", allowed, None)
          /\ rows' \subseteq rows /\ serial' = serial
      BY <2>2 DEF UpdateUser
    <3> QED
      BY <1>2, <3>1
  <2>3. CASE Login(i) \/ Register(i) \/ Logout(i)
    <3>1. /\ calls[i].op # "POST extract" /\ rows' \subseteq rows /\ serial' = serial
          /\ \E data : Reply(i, "ok", data)
      BY <2>3 DEF Login, Register, Logout, Sent, server
    <3> QED
      BY <3>1
  <2>4. CASE ListUsers(i) \/ GetMe(i)
    <3>1. \E op \in {"GET users", "GET me"} : \E found, data : Read(i, op, found, data)
      BY <2>4 DEF ListUsers, GetMe
    <3> QED
      BY <1>1, <3>1
  <2> QED
    BY <1>6, <2>1, <2>2, <2>3, <2>4 DEF ServeAccounts
<1>7. CASE ServeAdmin(i)
  <2>1. CASE UpdateOrganization(i)
    <3>1. /\ calls[i].op # "POST extract" /\ rows' \subseteq rows /\ serial' = serial
          /\ \E data : Reply(i, "ok", data)
      BY <2>1 DEF UpdateOrganization, Sent
    <3> QED
      BY <3>1
  <2>2. CASE GetAdmin(i) \/ ListOrgs(i) \/ ListOrgDocuments(i)
    <3>1. \E op \in {"GET platform-admin/me", "GET orgs", "GET org documents"} :
             \E data : AdminRead(i, op, data)
      BY <2>2 DEF GetAdmin, ListOrgs, ListOrgDocuments
    <3> QED
      BY <1>3, <3>1
  <2> QED
    BY <1>7, <2>1, <2>2 DEF ServeAdmin
<1>8. CASE (Refuse(i) \/ Lose(i)) /\ UNCHANGED server
  <2>1. Reply(i, "refused", None) \/ Reply(i, "lost", None)
    BY <1>8 DEF Refuse, Lose
  <2> QED
    <3>1. rows' \subseteq rows /\ serial' = serial
      BY <1>8 DEF server
    <3>2. \E state : state # "ok" /\ Reply(i, state, None)
      BY <2>1
    <3> QED
      BY <3>1, <3>2
<1> QED
  BY <1>4, <1>5, <1>6, <1>7, <1>8 DEF Respond

\* Call i is answered, and the others are what they were.
LEMMA Answered ==
    ASSUME CallsOK, NEW i \in DOMAIN calls, NEW state, NEW data, Reply(i, state, data)
    PROVE  /\ DOMAIN calls' = DOMAIN calls
           /\ \A k \in DOMAIN calls \ {i} : calls'[k] = calls[k]
           /\ calls'[i].then = calls[i].then /\ calls'[i].arg = calls[i].arg
           /\ calls'[i].kept = calls[i].kept
           /\ calls'[i].state = state /\ calls'[i].data = data
<1> DEFINE c == [calls[i] EXCEPT !.state = state, !.data = data]
<1>1. calls' = [calls EXCEPT ![i] = c]
  BY DEF Reply
<1>2. IsSeq(calls) /\ IsFetch(calls[i])
  BY DEF CallsOK, GoodCalls
<1>3. calls[i] = [by |-> calls[i].by, then |-> calls[i].then, op |-> calls[i].op,
                  arg |-> calls[i].arg, kept |-> calls[i].kept, as |-> calls[i].as,
                  state |-> calls[i].state, data |-> calls[i].data]
  BY <1>2 DEF IsFetch
<1>4. /\ c.then = calls[i].then /\ c.arg = calls[i].arg /\ c.kept = calls[i].kept
      /\ c.state = state /\ c.data = data
  BY <1>3
<1> HIDE DEF c
<1>5. /\ DOMAIN calls' = DOMAIN calls
      /\ \A k \in DOMAIN calls : calls'[k] = IF k = i THEN c ELSE calls[k]
  BY <1>1, <1>2, SeqReplaced
<1> QED
  BY <1>4, <1>5

\* Every answer keeps what is true of the runs.
LEMMA RunsReply ==
    ASSUME TabInv, RunsOK, NEW i \in DOMAIN calls, Respond(i)
    PROVE  RunsOK'
<1>1. CallsOK /\ serial \in Nat
  BY DEF TabInv, ServerOK
<1>2. CASE ~RunExtraction(i)
  <2>1. PICK state, data :
           /\ Reply(i, state, data) /\ rows' \subseteq rows /\ serial' = serial
           /\ state # "ok" \/ calls[i].op # "POST extract"
    BY <1>2, RespondsHow
  <2>2. /\ DOMAIN calls' = DOMAIN calls
        /\ \A k \in DOMAIN calls \ {i} : calls'[k] = calls[k]
        /\ calls'[i].then = calls[i].then /\ calls'[i].arg = calls[i].arg
        /\ calls'[i].kept = calls[i].kept /\ calls'[i].state = state
    BY <1>1, <2>1, Answered
  <2>3. calls[i].then = "handleExtract" => state # "ok"
    BY <1>1, <2>1 DEF CallsOK, GoodCalls, IsFetch, OpFits
  <2>4. \A k \in DOMAIN calls : RunOK(calls[k], rows', serial')
    BY <2>1, FewerRows DEF RunsOK
  <2>5. RunOK(calls'[i], rows', serial')
    <3>1. CASE calls[i].then = "handleExtract"
      BY <2>2, <2>3, <2>4, <3>1, RunLoses
    <3>2. CASE calls[i].then # "handleExtract"
      BY <2>2, <3>2 DEF RunOK
    <3> QED
      BY <3>1, <3>2
  <2> QED
    BY <2>1, <2>2, <2>4, <2>5 DEF RunsOK
<1>3. CASE RunExtraction(i)
  <2> DEFINE row == Row(serial + 1, calls[i].arg.doc, calls[i].arg.template, "today")
  <2>1. /\ row.id = serial + 1 /\ row.doc = calls[i].arg.doc
        /\ row.template = calls[i].arg.template
    BY DEF Row
  <2>2. /\ calls[i].state = "sent" /\ Reply(i, "ok", row.id)
        /\ rows' = rows \cup {row} /\ serial' = row.id
    BY <1>3 DEF RunExtraction, Write, Sent
  <2> HIDE DEF row
  <2>3. /\ DOMAIN calls' = DOMAIN calls
        /\ \A k \in DOMAIN calls \ {i} : calls'[k] = calls[k]
        /\ calls'[i].then = calls[i].then /\ calls'[i].arg = calls[i].arg
        /\ calls'[i].kept = calls[i].kept
        /\ calls'[i].state = "ok" /\ calls'[i].data = row.id
    BY <1>1, <2>2, Answered
  <2>4. (\A r \in rows : r.id <= serial) /\ \A k \in DOMAIN calls : RunOK(calls[k], rows, serial)
    BY DEF RunsOK
  <2>5. \A k \in DOMAIN calls \ {i} : RunOK(calls'[k], rows', serial')
    <3>1. \A k \in DOMAIN calls : RunOK(calls[k], rows \cup {row}, serial + 1)
      BY <1>1, <2>1, <2>4, RowAdded
    <3> QED
      BY <2>1, <2>2, <2>3, <3>1
  <2>6. RunOK(calls'[i], rows', serial')
    <3>1. RunOK(calls'[i], rows \cup {row}, serial + 1)
      BY <1>1, <2>1, <2>2, <2>3, <2>4, RowMade
    <3> QED
      BY <2>1, <2>2, <3>1
  <2>7. \A r \in rows' : r.id <= serial'
    <3>1. \A r \in rows : r.id \in Nat
      BY ServerAssumption DEF TabInv, ServerOK, Extractions!AnyRow
    <3> QED
      BY <1>1, <2>1, <2>2, <2>4, <3>1
  <2> QED
    BY <2>3, <2>5, <2>6, <2>7 DEF RunsOK
<1> QED
  BY <1>2, <1>3

\* So does every step of the tab.
LEMMA RunsDerived ==
    ASSUME RunsOK, Derived, rows' \subseteq rows, serial' = serial
    PROVE  RunsOK'
<1>1. \A k \in DOMAIN calls : RunOK(calls[k], rows', serial')
  BY FewerRows DEF RunsOK
<1>2. ASSUME NEW k \in DOMAIN calls'
      PROVE  RunOK(calls'[k], rows', serial')
  <2>1. CASE calls'[k].then # "handleExtract"
    BY <2>1 DEF RunOK
  <2>2. CASE NewRun(calls'[k])
    BY <2>2, RunBegins
  <2>3. CASE \E j \in DOMAIN calls : calls'[k] = calls[j] \/ Follows(calls[j], calls'[k])
    BY <1>1, <2>3, RunGoesOn
  <2> QED
    BY <2>1, <2>2, <2>3 DEF Derived
<1> QED
  BY <1>2 DEF RunsOK

\* Nothing that mounting a page asks for is a run over documents.
LEMMA StartsPlain ==
    Init => \A k \in DOMAIN calls : calls[k].then # "handleExtract"
<1> SUFFICES ASSUME Init PROVE \A k \in DOMAIN calls : calls[k].then # "handleExtract"
  OBVIOUS
<1>1. PICK t \in Tours :
         /\ token = t.token /\ ui = t.ui
         /\ calls = IF t.settled THEN << >> ELSE EffectOf(t.ui.view, 1)
  BY DEF Init
<1>2. token \in Tokens
  BY <1>1, TourAssumption DEF IsTour
<1>3. CASE calls = << >>
  <2>1. DOMAIN calls = {}
    BY <1>3
  <2> QED
    BY <2>1
<1>4. ASSUME NEW c, calls = <<c>>, c.then # "handleExtract"
      PROVE  \A k \in DOMAIN calls : calls[k].then # "handleExtract"
  <2>1. DOMAIN calls = {1} /\ calls[1] = c
    BY <1>4, SeqShort, SeqFacts
  <2> QED
    BY <1>4, <2>1
<1>5. CASE calls = EffectOf(ui.view, 1)
  <2>1. CASE ui.view \in Panels
    <3>1. PICK c : EffectOf(ui.view, 1) = <<c>> /\ c.then = FirstThen[ui.view]
      BY <1>2, <2>1, PanelEffect
    <3>2. /\ FirstThen["documents"] # "handleExtract" /\ FirstThen["search"] # "handleExtract"
          /\ FirstThen["extract"] # "handleExtract" /\ FirstThen["team"] # "handleExtract"
          /\ FirstThen["compare"] # "handleExtract" /\ FirstThen["ai"] # "handleExtract"
      BY DEF FirstThen
    <3>3. \/ ui.view = "documents" \/ ui.view = "search" \/ ui.view = "extract"
          \/ ui.view = "team" \/ ui.view = "compare" \/ ui.view = "ai"
      BY <2>1 DEF Panels
    <3>4. c.then # "handleExtract"
      BY <3>1, <3>2, <3>3
    <3> QED
      BY <1>4, <1>5, <3>1, <3>4
  <2>2. CASE ui.view = "dashboard" /\ token # None
    <3> DEFINE c == Call(1, "dashboard", "GET me", None, None)
    <3>1. calls = <<c>>
      BY <1>5, <2>2 DEF EffectOf
    <3>2. c.then # "handleExtract"
      BY DEF Call
    <3> HIDE DEF c
    <3> QED
      BY <1>4, <3>1, <3>2
  <2>3. CASE ui.view = "admin" /\ token # None
    <3> DEFINE c == Call(1, "admin: getMe", "GET platform-admin/me", None, None)
               d == Call(1, "admin: loadOrgs", "GET orgs", None, None)
    <3>1. calls = <<c, d>>
      BY <1>5, <2>3 DEF EffectOf, AdminPanel!Effect, AdminPanel!Call, Call
    <3>2. c.then # "handleExtract" /\ d.then # "handleExtract"
      BY DEF Call
    <3> HIDE DEF c, d
    <3>3. calls[1] = c /\ calls[2] = d /\ DOMAIN calls = 1 .. 2
      BY <3>1, SeqShort, SeqFacts
    <3>4. \A k \in DOMAIN calls : k = 1 \/ k = 2
      BY <3>3
    <3> QED
      BY <3>2, <3>3, <3>4
  <2>4. CASE ui.view \notin Panels /\ ~(ui.view \in {"dashboard", "admin"} /\ token # None)
    <3>1. calls = << >>
      BY <1>5, <2>4 DEF EffectOf, Panels
    <3> QED
      BY <1>3, <3>1
  <2> QED
    BY <2>1, <2>2, <2>3, <2>4
<1> QED
  BY <1>1, <1>3, <1>5

\* No run is under way at the start.
LEMMA RunsInit == Init => RunsOK
<1> SUFFICES ASSUME Init PROVE RunsOK
  OBVIOUS
<1>1. PICK t \in Tours :
         /\ ui = t.ui /\ rows = t.rows /\ serial = Cardinality(t.rows)
         /\ calls = IF t.settled THEN << >> ELSE EffectOf(t.ui.view, 1)
  BY DEF Init
<1>2. \A r \in rows : r.id <= serial
  BY <1>1, TourAssumption DEF IsTour
<1>3. \A k \in DOMAIN calls : calls[k].then # "handleExtract"
  BY StartsPlain
<1> QED
  BY <1>2, <1>3 DEF RunsOK, RunOK

\* A run is of the template and the documents that were chosen when it started:
\* what it has made is of that template, and of documents that are neither to come
\* nor twice among them, whoever deletes what meanwhile, and whether or not the
\* panel is still there.
THEOREM RunsAreUniform == Spec => []RunIsUniform
<1>1. Init => Room /\ RunsOK
  BY RoomInit, RunsInit
<1>2. TabInv /\ TabInv' /\ PanelInv /\ Room /\ RunsOK /\ [Next]_vars => Room' /\ RunsOK'
  BY CallsStep, RunsReply, RunsDerived
<1>3. Spec => []RunsOK
  BY <1>1, <1>2, TabAlways, PanelAlways, PTL DEF Spec
<1>4. RunsOK => RunIsUniform
  <2> SUFFICES ASSUME RunsOK, NEW i \in DOMAIN calls, calls[i].then = "handleExtract",
                      NEW r \in rows, NEW s \in rows,
                      {r.id, s.id} \subseteq calls[i].kept.made
               PROVE  /\ r.template = calls[i].arg.template
                      /\ r.doc \notin calls[i].kept.todo
                      /\ r # s => r.doc # s.doc
    BY DEF RunIsUniform, Extractions!RunIsUniform
  <2>1. RunOK(calls[i], rows, serial)
    BY DEF RunsOK
  <2>2. {r.id, s.id} \subseteq Made(calls[i])
    BY DEF Made
  <2> HIDE DEF Made
  <2> QED
    BY <2>1, <2>2 DEF RunOK
<1> QED
  BY <1>3, <1>4, PTL

=============================================================================
