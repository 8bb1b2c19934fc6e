-------------------------- MODULE ExtractionsPanel --------------------------
(***************************************************************************)
(* The extractions panel: templates and the form that makes and edits      *)
(* them, runs of a template over documents, and the table of results with  *)
(* its date filter, selection, export and deletion.                        *)
(***************************************************************************)
EXTENDS Server

CONSTANT Ranges  \* date ranges a user may set; a range is named for its day

\* The state at mount, named as in the code but for: rows (extractions),
\* template (selectedTemplate), picked (selectedDocs), chosen
\* (selectedExtractions), filter (dateFrom and dateTo), keys (extractedKeys) and
\* forms (how many forms have been mounted, to tell them apart).
Fresh ==
    [view |-> "extract", templates |-> {}, rows |-> {}, docs |-> {},
     form |-> None, template |-> None, picked |-> {}, chosen |-> {},
     filter |-> None, keys |-> {}, extracting |-> FALSE, deleting |-> FALSE,
     exporting |-> None, notice |-> None, forms |-> 0]

\* fetchAll, with the filter of the closure that calls it.
FetchAll(then, filter) == Fetch(then, "GET all", filter, None)

\* The effect on fetchAll, which is renewed when the filter changes.
Effect(by, filter) == << Call(by, "fetchAll", "GET all", filter, None) >>

-----------------------------------------------------------------------------
Shown == ui.view = "extract"

Visible == {d \in ui.docs :
                ui.template = None \/ <<d, ui.template>> \notin ui.keys}

\* A document in the picker; a row of the results, with its box and its bin.
DocShown(d)  == Shown /\ d \in Visible
RowShown(id) == Shown /\ id \in IdsOf(ui.rows)

\* The cards of the templates are hidden while one is edited.
CardShown(t) ==
    Shown /\ t \in ui.templates /\ (ui.form # None => ui.form.edits = None)

Change(new) == ui' = new /\ UNCHANGED <<mount, calls, token>>

\* The head of a list of boxes compares how many are ticked, not which.
Toggled(ticked, all) == IF Cardinality(ticked) = Cardinality(all) THEN {} ELSE all

SelectTemplate(t) ==
    /\ Shown /\ t \in (ui.templates \cup {None}) \ {ui.template}
    /\ Change([ui EXCEPT !.template = t])

\* What is picked stays picked when another template hides it.
ToggleDoc(d) ==
    /\ DocShown(d)
    /\ Change([ui EXCEPT !.picked = Toggle(@, d)])

ToggleAllDocs ==
    /\ Shown /\ Visible # {}
    /\ Change([ui EXCEPT !.picked = Toggled(@, Visible)])

ToggleExtraction(id) ==
    /\ RowShown(id)
    /\ Change([ui EXCEPT !.chosen = Toggle(@, id)])

ToggleAllExtractions ==
    /\ Shown /\ ui.rows # {}
    /\ Change([ui EXCEPT !.chosen = Toggled(@, IdsOf(ui.rows))])

\* A date is set or cleared: the effect fetches everything again.
SetFilter(range) ==
    /\ Shown /\ ui.templates # {} /\ range # ui.filter
    /\ ui' = [ui EXCEPT !.filter = range]
    /\ FetchAll("fetchAll", range)
    /\ UNCHANGED <<mount, token>>

-----------------------------------------------------------------------------
(* Runs. *)

CanExtract_NotDisabled == Shown /\ ui.picked # {} /\ ui.template # None

\* The button wants documents and a template, and no run under way.
CanExtract ==
    Shown /\ ui.picked # {} /\ ui.template # None /\ ~ui.extracting

\* handleExtract captures the documents, the template and the filter, and sends
\* the first request.
HandleExtract ==
    /\ CanExtract
    /\ ui' = [ui EXCEPT !.extracting = TRUE, !.notice = None]
    /\ \E d \in ui.picked :
          Fetch("handleExtract", "POST extract", [doc |-> d, template |-> ui.template],
                [todo |-> ui.picked \ {d}, made |-> {}, failed |-> FALSE,
                 filter |-> ui.filter])
    /\ UNCHANGED <<mount, token>>

\* What the run knows after the answer of call i.
After(i) ==
    IF IsOk(i) THEN [calls[i].kept EXCEPT !.made = @ \cup {calls[i].data}]
    ELSE [calls[i].kept EXCEPT !.failed = TRUE]

NextDoc_LiveTemplate(i) ==
    /\ Awaited(i, "handleExtract")
    /\ \E d \in calls[i].kept.todo :
          ThenFetch(i, "handleExtract", "POST extract",
                    [doc |-> d, template |-> IF ui.view = "extract" /\ ui.template # None
                                             THEN ui.template ELSE calls[i].arg.template],
                    [After(i) EXCEPT !.todo = @ \ {d}])
    /\ UNCHANGED <<ui, mount, token>>

\* One document after the other, a failed one like the others; the loop goes on
\* when the panel is no longer there.
NextDoc(i) ==
    /\ Awaited(i, "handleExtract")
    /\ \E d \in calls[i].kept.todo :
          ThenFetch(i, "handleExtract", "POST extract",
                    [doc |-> d, template |-> calls[i].arg.template],
                    [After(i) EXCEPT !.todo = @ \ {d}])
    /\ UNCHANGED <<ui, mount, token>>

\* The end of the loop: the filter is cleared, so that the effect fetches with
\* none, while the loop's own fetchAll still has the one it started with.
LoopEnds(i) ==
    /\ Awaited(i, "handleExtract") /\ calls[i].kept.todo = {}
    /\ SetState(i, [ui EXCEPT !.filter = None])
    /\ LET own == Call(calls[i].by, "handleExtract: fetchAll", "GET all",
                       calls[i].kept.filter, After(i))
           effect == IF ui' # ui THEN Effect(mount, None) ELSE << >>
       IN  calls' = [calls EXCEPT ![i] = own] \o effect
    /\ UNCHANGED <<mount, token>>

-----------------------------------------------------------------------------
(* The other handlers. *)

\* Delete Selected is part of the filter's bar, the exports of the results' head.
CanBulkDelete ==
    Shown /\ ui.templates # {} /\ ui.chosen # {} /\ ~ui.deleting

CanExport(format) == Shown /\ ui.rows # {} /\ ui.exporting # format

HandleBulkDelete ==
    /\ CanBulkDelete
    /\ ui' = [ui EXCEPT !.deleting = TRUE]
    /\ Fetch("bulk-delete", "DELETE extractions", ui.chosen, ui.filter)
    /\ UNCHANGED <<mount, token>>

HandleDeleteExtraction(id) ==
    /\ RowShown(id)
    /\ Fetch("delete extraction", "DELETE extractions", {id}, ui.filter)
    /\ UNCHANGED <<ui, mount, token>>

HandleDeleteTemplate(t) ==
    /\ CardShown(t)
    /\ Fetch("delete template", "DELETE template", t,
             [filter |-> ui.filter, template |-> ui.template])
    /\ UNCHANGED <<ui, mount, token>>

\* An export is of the selection, or of what the filter lets through.
HandleExport(format) ==
    /\ CanExport(format)
    /\ ui' = [ui EXCEPT !.exporting = format]
    /\ Fetch("handleExport", "GET extractions/export",
             [ids |-> ui.chosen, filter |-> ui.filter], None)
    /\ UNCHANGED <<mount, token>>

\* The form: the template it edits (None makes a new one), the template whose
\* values its fields hold, and whether they make a template.
Form(t) == [edits |-> t, holds |-> t, valid |-> t # None, saving |-> FALSE,
            no |-> ui.forms + 1]

\* A form already open stays the same component: it keeps its fields when the
\* panel turns it from making into editing, or back.
Turn(t) ==
    IF ui.form = None
    THEN Change([ui EXCEPT !.form = Form(t), !.forms = @ + 1])
    ELSE Change([ui EXCEPT !.form.edits = t])

NewTemplate ==
    /\ Shown
    /\ ui.form # None => ui.form.edits # None
    /\ Turn(None)

EditTemplate(t) ==
    /\ CardShown(t)
    /\ Turn(t)

CancelForm ==
    /\ Shown /\ ui.form # None
    /\ Change([ui EXCEPT !.form = None])

FillForm(valid) ==
    /\ Shown /\ ui.form # None /\ valid # ui.form.valid
    /\ Change([ui EXCEPT !.form.valid = valid])

Sender == [filter |-> ui.filter, no |-> ui.form.no]

\* handleSubmit returns early without a name or a field.  What the fields were
\* filled from is not sent: it is kept here to be told apart.
SubmitForm ==
    /\ Shown /\ ui.form # None /\ ui.form.valid /\ ~ui.form.saving
    /\ ui' = [ui EXCEPT !.form.saving = TRUE]
    /\ IF ui.form.edits = None
       THEN Fetch("TemplateForm", "POST template", None, Sender)
       ELSE Fetch("TemplateForm", "PATCH template", ui.form.edits, Sender)
    /\ UNCHANGED <<mount, token>>

-----------------------------------------------------------------------------
(* Answers. *)

\* With a filter the keys come from a listing of their own, unless it is refused.
ReadsAll(d, filter) == filter # None /\ "all" \notin d.refused

\* The body fetchAll takes after d.part, of what it was not refused, or "end".
NextPart(d, filter) ==
    IF d.part = "templates" /\ "rows" \notin d.refused THEN "rows"
    ELSE IF d.part = "rows" /\ ReadsAll(d, filter) THEN "all"
    ELSE IF d.part # "docs" /\ "docs" \notin d.refused THEN "docs"
    ELSE "end"

Pruned_KeepsSelection(s, listed, known) ==
    [s EXCEPT !.keys = {<<r.doc, r.template>> : r \in known}]

\* The keys are those of the rows known; what is not listed is selected no more.
Pruned(s, listed, known) ==
    [s EXCEPT !.keys = {<<r.doc, r.template>> : r \in known},
              !.chosen = @ \cap IdsOf(listed)]

\* What fetchAll sets from the part d.part of its answers, in a state s of the
\* panel.  Between the rows and their pruning it waits for the second listing, if
\* there is one to read.
Taken(s, d, filter) ==
    CASE d.part = "templates" ->
             [s EXCEPT !.templates = IF "templates" \in d.refused THEN @ ELSE d.templates,
                       !.notice = IF "rows" \in d.refused THEN "error" ELSE @]
      [] d.part = "rows" ->
             LET shown == [s EXCEPT !.rows = d.rows]
             IN  IF ReadsAll(d, filter) THEN shown
                 ELSE Pruned(shown, d.rows, IF filter = None THEN d.rows ELSE {})
      [] d.part = "all"  -> Pruned(s, d.rows, d.all)
      [] d.part = "docs" -> [s EXCEPT !.docs = d.docs]

\* fetchAll is over: it has the last body, or it throws.
FetchAllEnds(i) == IsOk(i) => NextPart(calls[i].data, calls[i].arg) = "end"

\* A body that has been taken is let go.
Rest(d, part) ==
    LET left == [d EXCEPT !.part = part, !.templates = {}]
    IN  IF part = "docs" THEN [left EXCEPT !.rows = {}, !.all = {}, !.refused = {}]
        ELSE left

\* fetchAll, whoever called it, sets what has come and waits for the next body.
ReadOn(i) ==
    /\ \E then \in {"fetchAll", "handleExtract: fetchAll", "bulk-delete: fetchAll"} :
          Awaited(i, then)
    /\ ~FetchAllEnds(i)
    /\ SetState(i, Taken(ui, calls[i].data, calls[i].arg))
    /\ calls' = [calls EXCEPT ![i].data = Rest(@, NextPart(@, calls[i].arg))]
    /\ UNCHANGED <<mount, token>>

\* When it throws, what it has not set yet stays as it is.
AfterFetchAll(i, s) ==
    IF IsOk(i) THEN Taken(s, calls[i].data, calls[i].arg) ELSE s

FetchAllDone(i) ==
    /\ Awaited(i, "fetchAll") /\ FetchAllEnds(i)
    /\ SetState(i, AfterFetchAll(i, ui))
    /\ Return(i)
    /\ UNCHANGED <<mount, token>>

\* The run selects what it made and says so; when its fetchAll throws, only
\* extracting ends.
RunDone(i) ==
    /\ Awaited(i, "handleExtract: fetchAll") /\ FetchAllEnds(i)
    /\ SetState(i,
          IF IsOk(i)
          THEN [AfterFetchAll(i, ui) EXCEPT
                  !.picked = {}, !.chosen = calls[i].kept.made, !.extracting = FALSE,
                  !.notice = IF calls[i].kept.failed THEN "error" ELSE "ok"]
          ELSE [ui EXCEPT !.extracting = FALSE])
    /\ Return(i)
    /\ UNCHANGED <<mount, token>>

\* handleBulkDeleteExtractions does not ask whether the deletion was refused.
BulkDeleted(i) ==
    /\ Awaited(i, "bulk-delete")
    /\ IF calls[i].state = "lost"
       THEN SetState(i, [ui EXCEPT !.deleting = FALSE]) /\ Return(i)
       ELSE /\ SetState(i, [ui EXCEPT !.chosen = {}])
            /\ ThenFetch(i, "bulk-delete: fetchAll", "GET all", calls[i].kept, None)
    /\ UNCHANGED <<mount, token>>

BulkDeleteDone(i) ==
    /\ Awaited(i, "bulk-delete: fetchAll") /\ FetchAllEnds(i)
    /\ SetState(i, [AfterFetchAll(i, ui) EXCEPT !.deleting = FALSE])
    /\ Return(i)
    /\ UNCHANGED <<mount, token>>

\* handleDeleteExtraction does not either.
ExtractionDeleted(i) ==
    /\ Awaited(i, "delete extraction")
    /\ IF calls[i].state = "lost" THEN Return(i)
       ELSE ThenFetch(i, "fetchAll", "GET all", calls[i].kept, None)
    /\ UNCHANGED <<ui, mount, token>>

\* Nor does handleDeleteTemplate; the template it compares with is the one that
\* was selected at the click.
TemplateDeleted(i) ==
    /\ Awaited(i, "delete template")
    /\ IF calls[i].state = "lost"
       THEN Return(i) /\ UNCHANGED ui
       ELSE /\ SetState(i, IF calls[i].kept.template = calls[i].arg
                           THEN [ui EXCEPT !.template = None] ELSE ui)
            /\ ThenFetch(i, "fetchAll", "GET all", calls[i].kept.filter, None)
    /\ UNCHANGED <<mount, token>>

ExportDone(i) ==
    /\ Awaited(i, "handleExport")
    /\ SetState(i, [ui EXCEPT !.exporting = None])
    /\ Return(i)
    /\ UNCHANGED <<mount, token>>

\* A saved form closes whatever form is open, and fetches with the filter of the
\* panel that was there when it was sent; a failure leaves it open.
FormSaved(i) ==
    /\ Awaited(i, "TemplateForm")
    /\ IF IsOk(i)
       THEN /\ SetState(i, [ui EXCEPT !.form = None])
            /\ ThenFetch(i, "fetchAll", "GET all", calls[i].kept.filter, None)
       ELSE /\ SetState(i, IF ui.form = None \/ ui.form.no # calls[i].kept.no
                           THEN ui ELSE [ui EXCEPT !.form.saving = FALSE])
            /\ Return(i)
    /\ UNCHANGED <<mount, token>>

-----------------------------------------------------------------------------
ClickForm ==
    \/ NewTemplate \/ CancelForm \/ SubmitForm
    \/ \E t \in Templates : EditTemplate(t) \/ HandleDeleteTemplate(t)
    \/ \E valid \in BOOLEAN : FillForm(valid)

ClickRun ==
    \/ \E t \in Templates \cup {None} : SelectTemplate(t)
    \/ \E d \in Docs : ToggleDoc(d)
    \/ ToggleAllDocs \/ HandleExtract

ClickResults ==
    \/ \E r \in Ranges \cup {None} : SetFilter(r)
    \/ \E id \in 1 .. MaxRows : ToggleExtraction(id) \/ HandleDeleteExtraction(id)
    \/ ToggleAllExtractions \/ HandleBulkDelete
    \/ \E format \in {"csv", "excel"} : HandleExport(format)

Continue(i) ==
    \/ ReadOn(i) \/ FetchAllDone(i) \/ NextDoc(i) \/ LoopEnds(i) \/ RunDone(i)
    \/ BulkDeleted(i) \/ BulkDeleteDone(i) \/ ExtractionDeleted(i)
    \/ TemplateDeleted(i) \/ ExportDone(i) \/ FormSaved(i)

-----------------------------------------------------------------------------
AnyRow == [id : 1 .. MaxRows, doc : Docs, template : Templates,
           day : Ranges \cup {"today"}]

AnyForm == [edits : Templates \cup {None}, holds : Templates \cup {None},
            valid : BOOLEAN, saving : BOOLEAN, no : Nat]

States ==
    [view : {"extract"}, templates : SUBSET Templates, rows : SUBSET AnyRow,
     docs : SUBSET Docs, form : {None} \cup AnyForm, forms : Nat,
     template : Templates \cup {None}, picked : SUBSET Docs,
     chosen : SUBSET (1 .. MaxRows), filter : Ranges \cup {None},
     keys : SUBSET (Docs \X Templates), extracting : BOOLEAN,
     deleting : BOOLEAN, exporting : {None, "csv", "excel"},
     notice : {None, "ok", "error"}]

SpinnersAreReal ==
    /\ ui.extracting => Waiting("handleExtract") \/ Waiting("handleExtract: fetchAll")
    /\ ui.deleting => Waiting("bulk-delete") \/ Waiting("bulk-delete: fetchAll")
    /\ ui.exporting # None => Waiting("handleExport")
    /\ ui.form # None => (ui.form.saving => Waiting("TemplateForm"))

\* "Sequential, not Promise.all": a panel has one run under way.
OneAtATime ==
    Cardinality({j \in Own : calls[j].then \in {"handleExtract",
                                                "handleExtract: fetchAll"}}) <= 1

\* Selected and not on the page.
Hidden == ui.chosen \ IdsOf(ui.rows)

\* Call i is a fetchAll that has put its rows on the page and is to prune the
\* selection when the second listing has come.
PruningToCome(i) ==
    /\ i \in Own /\ calls[i].op = "GET all" /\ IsOk(i)
    /\ calls[i].data.part = "all" /\ calls[i].data.rows = ui.rows

\* A row comes to be selected out of sight only when a run ends, or until the
\* pruning that is to come; when that comes, nothing is left out of sight.
SelectsWhatIsShown ==
    /\ (Shown /\ ui'.view = "extract" /\ mount' = mount /\ ~(Hidden' \subseteq Hidden))
        => \/ ui.extracting /\ ~ui'.extracting
           \/ (\E i \in DOMAIN calls : PruningToCome(i))'
    /\ \A i \in DOMAIN calls : PruningToCome(i) /\ ReadOn(i) => Hidden' = {}

\* A run uses one template, and no document twice, whatever is clicked while it
\* goes on or even after the panel has gone.
RunIsUniform ==
    \A i \in DOMAIN calls : calls[i].then = "handleExtract" =>
        \A r, s \in rows :
            /\ {r.id, s.id} \subseteq calls[i].kept.made
            => /\ r.template = calls[i].arg.template
               /\ r.doc \notin calls[i].kept.todo
               /\ r # s => r.doc # s.doc
=============================================================================
