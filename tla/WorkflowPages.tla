----------------------------- MODULE WorkflowPages -----------------------------
(***************************************************************************)
(* The workflow pages of the client, in one tab: the list with its filter  *)
(* and pager, the detail, and the form in a dialog over either, which      *)
(* Escape closes whether or not it is saving.  Each asks the server and    *)
(* takes the answers in any order.  Mended names the places where client   *)
(* and server do not agree on the request that a run takes as repaired:    *)
(*   "query"     the server can answer a list (its validation assigns      *)
(*               req.query, which Express 5 does not allow)                *)
(*   "spelling"  a status the user chooses is spelled as the server's      *)
(*   "patch"     the client sends a status change as the server routes it  *)
(*   "body"      the client takes an answer without a body (204)           *)
(* Of the statuses, inactive is one with draft.                            *)
(***************************************************************************)
EXTENDS Naturals, Sequences

CONSTANTS
  Flows, None, Texts, Calls,
  PerPage,      \* workflows of a page
  Mended,
  MaxFailures,  \* bound: requests lost or failed
  MaxClicks     \* bound: clicks of the user

WorkflowPagesAssumption ==
  /\ None \notin Flows \cup Texts
  /\ PerPage \in Nat \ {0} /\ {MaxFailures, MaxClicks} \subseteq Nat
  /\ Mended \subseteq {"query", "spelling", "patch", "body"}

VARIABLES
  rows,     \* the workflows on the server
  order,    \* the same, the last updated first
  list, detail, form,
  calls,    \* what each call awaits
  failures, clicks

vars == <<rows, order, list, detail, form, calls, failures, clicks>>
server == <<rows, order>>
bounds == <<failures, clicks>>

Statuses == {"draft", "active"}
Filters == {"all"} \cup Statuses
Rows == [text : Texts, status : Statuses]
Idle == [kind |-> "idle", page |-> "none", key |-> None, back |-> None, edit |-> None, sent |-> "no", answer |-> None]

TypeOK ==
  /\ rows \in [Flows -> Rows \cup {None}]
  /\ \A i \in DOMAIN order : rows[order[i]] # None /\ \A j \in DOMAIN order : order[i] = order[j] => i = j
  /\ Len(list.items) <= PerPage /\ \A i \in DOMAIN list.items : list.items[i] \in Flows \X Rows
  /\ list.page \in Nat \ {0} /\ list.status \in Filters /\ list.loading \in BOOLEAN /\ list.error \in BOOLEAN
  /\ detail \in [open : Flows \cup {None}, data : (Flows \X Rows) \cup {None}, loading : BOOLEAN, error : BOOLEAN]
  /\ form \in [open : BOOLEAN, editing : Flows \cup {None}, base : Rows \cup {None}, saving : BOOLEAN, error : BOOLEAN]
  /\ \A c \in Calls : calls[c].sent \in {"no", "yes", "ok", "refused", "failed"}
  /\ failures \in 0..MaxFailures /\ clicks \in 0..MaxClicks

Params(l) == [page |-> l.page, status |-> l.status]
Fresh == [page |-> 1, status |-> "all", items |-> <<>>, totalPages |-> 1, loading |-> TRUE, error |-> FALSE]
Gone == [Fresh EXCEPT !.loading = FALSE]
Closed == [open |-> None, data |-> None, loading |-> FALSE, error |-> FALSE]
NoForm == [open |-> FALSE, editing |-> None, base |-> None, saving |-> FALSE, error |-> FALSE]

Ask(kind, page, key, back) ==
  [kind |-> kind, page |-> page, key |-> key, back |-> back, edit |-> None, sent |-> "yes", answer |-> None]

Init ==
  /\ \E n \in 1..2, t \in Texts : \E q \in [1..n -> Flows] :
       /\ \A i, j \in 1..n : q[i] = q[j] => i = j
       /\ order = q
       /\ rows = [w \in Flows |-> IF \E i \in 1..n : q[i] = w THEN [text |-> t, status |-> "draft"] ELSE None]
  /\ \E c \in Calls : calls = [d \in Calls |-> IF d = c THEN Ask("list", "list", Params(Fresh), None) ELSE Idle]
  /\ list = Fresh /\ detail = Closed /\ form = NoForm
  /\ failures = 0 /\ clicks = 0

-----------------------------------------------------------------------------
\* The server.

Matching(status) == SelectSeq(order, LAMBDA w : status = "all" \/ rows[w].status = status)

\* findByUserId: a page of the workflows of this status, and how many pages there are.
Listed(p) ==
  LET found == Matching(p.status)
      last == IF p.page * PerPage < Len(found) THEN p.page * PerPage ELSE Len(found)
      page == SubSeq(found, (p.page - 1) * PerPage + 1, last)
  IN [items |-> [i \in DOMAIN page |-> <<page[i], rows[page[i]]>>],
      totalPages |-> (Len(found) + PerPage - 1) \div PerPage]

Without(w) == SelectSeq(order, LAMBDA v : v # w)

Write(w, row) ==
  /\ rows' = [rows EXCEPT ![w] = row]
  /\ order' = <<w>> \o Without(w)

Spelled(chosen) == chosen => "spelling" \in Mended

\* What the validation of the request takes.
Parsed(call) ==
  CASE call.kind = "list" -> "query" \in Mended /\ Spelled(call.key.status # "all")
    [] call.kind = "save" -> Spelled(call.edit.chosen)
    [] call.kind = "create" -> Spelled(TRUE)
    [] OTHER -> TRUE

StatusTaken(w, status) == "patch" \in Mended /\ Spelled(TRUE) /\ rows[w].status # status

Accepted(call) ==
  /\ Parsed(call)
  /\ call.kind \notin {"list", "create"} => rows[call.key] # None
  /\ call.kind = "status" => StatusTaken(call.key, call.edit.status)

Answered(c, result, a) == calls' = [calls EXCEPT ![c].sent = result, ![c].answer = a]

Do(c) ==
  LET call == calls[c]
      w == call.key
      edited(row) == Write(w, row) /\ Answered(c, "ok", <<w, row>>)
      new(row) == IF \A v \in Flows : rows[v] # None   \* a bound: there are no more identities
                  THEN Answered(c, "failed", None) /\ UNCHANGED server
                  ELSE \E v \in Flows : rows[v] = None /\ Write(v, row) /\ Answered(c, "ok", <<v, row>>)
  IN CASE call.kind = "list" -> Answered(c, "ok", Listed(call.key)) /\ UNCHANGED server
       [] call.kind = "detail" -> Answered(c, "ok", <<w, rows[w]>>) /\ UNCHANGED server
       [] call.kind = "status" -> edited([rows[w] EXCEPT !.status = call.edit.status])
       [] call.kind = "save" -> edited([text |-> call.edit.text, status |-> call.edit.status])
       [] call.kind = "create" -> new([text |-> call.edit.text, status |-> call.edit.status])
       [] call.kind = "duplicate" -> new([rows[w] EXCEPT !.status = "draft"])
       [] call.kind = "delete" ->
            /\ rows' = [rows EXCEPT ![w] = None] /\ order' = Without(w)
            /\ Answered(c, IF "body" \in Mended THEN "ok" ELSE "failed", None)

Serve(c) ==
  /\ calls[c].sent = "yes"
  /\ \/ failures < MaxFailures /\ failures' = failures + 1 /\ Answered(c, "failed", None) /\ UNCHANGED server
     \/ Accepted(calls[c]) /\ Do(c) /\ UNCHANGED failures
     \/ ~Accepted(calls[c]) /\ Answered(c, "refused", None) /\ UNCHANGED <<server, failures>>
  /\ UNCHANGED <<list, detail, form, clicks>>

-----------------------------------------------------------------------------
\* The list.

Free(c) == calls[c].kind = "idle"
Click == clicks < MaxClicks /\ clicks' = clicks + 1
Failed(c) == calls[c].sent \in {"refused", "failed"}
Ended(c, kinds, page) == calls[c].kind \in kinds /\ calls[c].page = page /\ (Failed(c) \/ calls[c].sent = "ok")

\* The filter is on the screen unless the spinner is alone there.
ListShown == detail.open = None /\ ~form.open /\ ~(list.loading /\ list.items = <<>>)
Row(w) == \E i \in DOMAIN list.items : list.items[i][1] = w

LoadWorkflows(c, params) ==
  /\ calls' = [calls EXCEPT ![c] = Ask("list", "list", params, None)]
  /\ list' = [list EXCEPT !.page = params.page, !.status = params.status, !.loading = TRUE, !.error = FALSE]

\* A filter keeps the page.
ChooseFilter(c, status) ==
  /\ Free(c) /\ ListShown /\ Click /\ status # list.status
  /\ LoadWorkflows(c, [page |-> list.page, status |-> status])
  /\ UNCHANGED <<server, detail, form, failures>>

\* The pager has the pages of the last answer, and is there when that has workflows.
TurnPage(c, page) ==
  /\ Free(c) /\ ListShown /\ Click /\ list.items # <<>> /\ page # list.page
  /\ LoadWorkflows(c, [page |-> page, status |-> list.status])
  /\ UNCHANGED <<server, detail, form, failures>>

LoadFailed(page) == [page EXCEPT !.loading = FALSE, !.error = TRUE]

ListAnswered(c) ==
  /\ Ended(c, {"list"}, "list")
  /\ list' = IF Failed(c) THEN LoadFailed(list)
             ELSE [list EXCEPT !.items = calls[c].answer.items, !.totalPages = calls[c].answer.totalPages,
                               !.loading = FALSE]
  /\ calls' = [calls EXCEPT ![c] = Idle]
  /\ UNCHANGED <<server, detail, form, bounds>>

\* Status, duplicate and delete of a row; each keeps the parameters of its render.
RowButton(c, w, kind) ==
  /\ Free(c) /\ ListShown /\ Row(w) /\ Click
  /\ \/ kind # "status" /\ calls' = [calls EXCEPT ![c] = Ask(kind, "list", w, Params(list))]
     \/ kind = "status" /\ \E s \in Statuses :
          calls' = [calls EXCEPT ![c] = [Ask(kind, "list", w, Params(list)) EXCEPT !.edit = [status |-> s]]]
  /\ UNCHANGED <<server, list, detail, form, failures>>

\* The list loads again, or the banner says that it failed.
RowAnswered(c) ==
  /\ Ended(c, {"status", "delete", "duplicate"}, "list")
  /\ IF Failed(c)
     THEN list' = [list EXCEPT !.error = TRUE] /\ calls' = [calls EXCEPT ![c] = Idle]
     ELSE /\ calls' = [calls EXCEPT ![c] = Ask("list", "list", calls[c].back, None)]
          /\ list' = [list EXCEPT !.loading = TRUE, !.error = FALSE]
  /\ UNCHANGED <<server, detail, form, bounds>>

-----------------------------------------------------------------------------
\* The detail, in the place of the list.

\* What a page asked for is answered to no one when another takes its place; only a form
\* that was saving is still heard of.
Orphaned(cs, page) == [c \in Calls |-> IF cs[c].page = page THEN [cs[c] EXCEPT !.page = "none"] ELSE cs[c]]

Show(c, w, cs) ==
  /\ calls' = [cs EXCEPT ![c] = Ask("detail", "detail", w, None)]
  /\ detail' = [detail EXCEPT !.open = w, !.loading = TRUE, !.error = FALSE]
  /\ list' = Gone

View(c, w) ==
  /\ Free(c) /\ ListShown /\ Row(w) /\ Click
  /\ Show(c, w, Orphaned(calls, "list"))
  /\ UNCHANGED <<server, form, failures>>

DetailShown == detail.open # None /\ ~detail.loading /\ ~form.open

Back(c) ==
  /\ Free(c) /\ DetailShown /\ Click
  /\ detail' = Closed /\ list' = Fresh
  /\ calls' = [Orphaned(calls, "detail") EXCEPT ![c] = Ask("list", "list", Params(Fresh), None)]
  /\ UNCHANGED <<server, form, failures>>

DetailButton(c, kind) ==
  /\ Free(c) /\ DetailShown /\ ~detail.error /\ detail.data # None /\ Click
  /\ \E s \in Statuses :
       calls' = [calls EXCEPT ![c] = [Ask(kind, "detail", detail.data[1], None) EXCEPT !.edit = [status |-> s]]]
  /\ UNCHANGED <<server, list, detail, form, failures>>

\* The answer to a load or a status change is shown, whichever it is; a duplicate is an alert.
DetailAnswered(c) ==
  /\ Ended(c, {"detail", "status", "duplicate"}, "detail")
  /\ calls' = [calls EXCEPT ![c] = Idle]
  /\ detail' = CASE calls[c].kind = "duplicate" -> detail
                 [] calls[c].kind = "detail" /\ Failed(c) -> LoadFailed(detail)
                 [] calls[c].kind = "detail" /\ ~Failed(c) -> [detail EXCEPT !.data = calls[c].answer, !.loading = FALSE]
                 [] calls[c].kind = "status" /\ Failed(c) -> [detail EXCEPT !.error = TRUE]
                 [] calls[c].kind = "status" /\ ~Failed(c) -> [detail EXCEPT !.data = calls[c].answer]
  /\ UNCHANGED <<server, list, form, bounds>>

\* No page is left to tell.
NobodyAnswered(c) ==
  /\ Ended(c, {"list", "detail", "status", "delete", "duplicate"}, "none")
  /\ calls' = [calls EXCEPT ![c] = Idle]
  /\ UNCHANGED <<server, list, detail, form, bounds>>

-----------------------------------------------------------------------------
\* The form.

Edit(w, row) ==
  /\ \/ ListShown /\ \E i \in DOMAIN list.items : list.items[i] = <<w, row>>
     \/ DetailShown /\ ~detail.error /\ detail.data = <<w, row>>
  /\ Click
  /\ form' = [NoForm EXCEPT !.open = TRUE, !.editing = w, !.base = row]
  /\ UNCHANGED <<server, list, detail, calls, failures>>

CreateNew ==
  /\ ListShown /\ Click
  /\ form' = [NoForm EXCEPT !.open = TRUE]
  /\ UNCHANGED <<server, list, detail, calls, failures>>

\* handleSubmit sends all of the form, what the user has typed and what it was filled with;
\* back is the workflow whose detail is shown.
Submit(c, text, status) ==
  /\ Free(c) /\ form.open /\ ~form.saving /\ Click
  /\ form' = [form EXCEPT !.saving = TRUE]
  /\ LET edit == [text |-> text, status |-> status,
                  chosen |-> form.base = None \/ status # form.base.status,
                  typed |-> form.base = None \/ text # form.base.text]
     IN calls' = [calls EXCEPT ![c] =
          [Ask(IF form.editing = None THEN "create" ELSE "save", "form", form.editing, detail.open)
             EXCEPT !.edit = edit]]
  /\ UNCHANGED <<server, list, detail, failures>>

\* Cancel, Escape or a click beside the dialog.
CloseForm ==
  /\ form.open /\ Click
  /\ form' = NoForm
  /\ calls' = Orphaned(calls, "form")
  /\ UNCHANGED <<server, list, detail, failures>>

\* Mutant: a save that fails leaves the form as it was.
MutantSaveFailed(f) == [f EXCEPT !.error = TRUE]

SaveFailed(f) == [f EXCEPT !.error = TRUE, !.saving = FALSE]

\* handleFormSave of the render the form was submitted in, open or not: the dialog is
\* closed, the workflow created is shown, and so is the one edited if its detail was.
SaveAnswered(c) ==
  LET call == calls[c]
      w == call.answer[1]
      mine == call.page = "form"
  IN /\ call.kind \in {"save", "create"} /\ (Failed(c) \/ call.sent = "ok")
     /\ form' = IF ~Failed(c) THEN NoForm ELSE IF mine THEN SaveFailed(form) ELSE form
     /\ IF ~Failed(c) /\ w # detail.open
           /\ (call.kind = "create" \/ (call.back = w /\ detail.open # None))
        THEN Show(c, w, Orphaned(Orphaned(calls, "list"), "form"))
        ELSE /\ calls' = [(IF Failed(c) THEN calls ELSE Orphaned(calls, "form")) EXCEPT ![c] = Idle]
             /\ UNCHANGED <<list, detail>>
     /\ UNCHANGED <<server, bounds>>

Next ==
  \/ CreateNew \/ CloseForm
  \/ \E w \in Flows, row \in Rows : Edit(w, row)
  \/ \E c \in Calls :
       \/ Serve(c) \/ ListAnswered(c) \/ RowAnswered(c) \/ Back(c) \/ DetailAnswered(c) \/ NobodyAnswered(c) \/ SaveAnswered(c)
       \/ \E status \in Filters : ChooseFilter(c, status)
       \/ \E page \in 1..list.totalPages : TurnPage(c, page)
       \/ \E w \in Flows : View(c, w) \/ \E kind \in {"status", "delete", "duplicate"} : RowButton(c, w, kind)
       \/ \E kind \in {"status", "duplicate"} : DetailButton(c, kind)
       \/ \E text \in Texts, status \in Statuses : Submit(c, text, status)

Spec == Init /\ [][Next]_vars

\* Requests are answered, and the tab handles the answers.
FairSpec ==
  /\ Spec
  /\ \A c \in Calls : /\ WF_vars(Serve(c))
                      /\ WF_vars(ListAnswered(c) \/ RowAnswered(c) \/ DetailAnswered(c) \/ NobodyAnswered(c) \/ SaveAnswered(c))
-----------------------------------------------------------------------------
\* A page that shows its spinner, and a form whose buttons are disabled, has the call
\* under way that will end it, whatever was closed, left and opened meanwhile.
BusyIsUnderWay ==
  /\ detail.loading => \E c \in Calls : calls[c].kind = "detail" /\ calls[c].page = "detail"
  /\ list.loading => \E c \in Calls : calls[c].kind = "list" /\ calls[c].page = "list"
  /\ form.saving => \E c \in Calls : calls[c].kind \in {"save", "create"} /\ calls[c].page = "form"

\* Spinners go away and the form can be used again.
BusyEnds ==
  (list.loading ~> ~list.loading) /\ (detail.loading ~> ~detail.loading) /\ (form.saving ~> ~form.saving)
=============================================================================
