---------------------------- MODULE NetworksPage ----------------------------
(***************************************************************************)
(* The networks list (app/networks/page.tsx): a searchable, sortable list  *)
(* with dialogs that create, edit and delete a network.  While a list is   *)
(* being fetched the whole page, its dialogs included, gives way to a      *)
(* skeleton; the dialogs' state survives and they come back with the list. *)
(*                                                                         *)
(* One form state serves the create and the edit dialog, and one           *)
(* `selected' serves the edit and the delete dialog.  Escape closes a      *)
(* dialog whose request is still in flight.                                *)
(*                                                                         *)
(* `uncertain' is not in the code: the page could not tell, by the order   *)
(* of the calls it made, whether its rows are those the backend holds.     *)
(***************************************************************************)
EXTENDS Screen

NetworksFresh ==
  [mounted |-> TRUE, rows |-> {}, loading |-> TRUE, dialogs |-> {},
   selected |-> Nobody, form |-> Nobody, submitting |-> FALSE,
   fetchError |-> FALSE, uncertain |-> ~Quiet]

NetworksShown == screen = "networks" /\ ui # Unmounted

\* The page proper: while it fetches there is only a skeleton.  A dialog
\* covers everything but itself.
NetworksDialog(d) == NetworksShown /\ ~ui.loading /\ d \in ui.dialogs
NetworksBare      == NetworksShown /\ ~ui.loading /\ ui.dialogs = {}

\* What can be clicked: a row and its menu, Retry, and the button of each
\* dialog, which is disabled while any request of the page is in flight.
NetworksRow(i)        == NetworksBare /\ i \in ui.rows
NetworksRetryOffered  == NetworksBare /\ ui.fetchError /\ ui.rows = {}
NetworksCreateEnabled == NetworksDialog("create") /\ ~ui.submitting
\* Not the code: a button that stays enabled while its request is in flight.
NetworksUpdateAlways == NetworksDialog("edit")

NetworksUpdateEnabled == NetworksDialog("edit") /\ ~ui.submitting

NetworksDeleteEnabled == NetworksDialog("delete") /\ ~ui.submitting

NetworksServer(s) ==
  LET c == calls[s] IN
  CASE c.op = "listNetworks"  -> ListReply
    [] c.op = "createNetwork" -> CreateReplies(Items)
    [] c.op = "updateNetwork" -> UpdateReply(c.arg.id)
    [] c.op = "deleteNetwork" -> DeleteReply(c.arg.id)

-----------------------------------------------------------------------------
\* The shell mounts the page, and the page fetches its list.
NetworksMount ==
  /\ screen = "networks" /\ ui = Unmounted
  /\ ui' = NetworksFresh
  /\ Await("listNetworks", Nobody)
  /\ UNCHANGED <<screen, db>>

\* A fetch shows the skeleton from the moment it starts.
NetworksRefetch ==
  /\ ui' = [ui EXCEPT !.loading = TRUE, !.uncertain = ~Quiet]
  /\ Await("listNetworks", Nobody)
  /\ UNCHANGED <<screen, db>>

\* A key typed into the search box, a click on a column header, and Retry.
NetworksSearch == NetworksBare /\ NetworksRefetch
NetworksSort   == NetworksBare /\ ui.rows # {} /\ NetworksRefetch
NetworksRetry  == NetworksRetryOffered /\ NetworksRefetch

NetworksFetched(s) ==
  /\ NetworksShown /\ Mine(s) /\ Answered(s, "listNetworks")
  /\ IF calls[s].outcome = "ok"
     THEN ui' = [ui EXCEPT !.rows = calls[s].data, !.fetchError = FALSE,
                           !.loading = FALSE]
     ELSE ui' = [ui EXCEPT !.fetchError = TRUE, !.loading = FALSE,
                           !.dialogs = IF calls[s].outcome = "unauthorized"
                                       THEN @ \cup {"unlock"} ELSE @]
  /\ Finish(s)
  /\ UNCHANGED <<screen, db>>

\* The unlock dialog of the page; when it succeeds the list is fetched.
NetworksUnlocked ==
  /\ NetworksDialog("unlock")
  /\ ui' = [ui EXCEPT !.dialogs = @ \ {"unlock"}, !.loading = TRUE,
                      !.uncertain = ~Quiet]
  /\ Await("listNetworks", Nobody)
  /\ UNCHANGED <<screen, db>>

-----------------------------------------------------------------------------
NetworksOpenCreate ==
  /\ NetworksBare
  /\ ui' = [ui EXCEPT !.dialogs = {"create"}]
  /\ UNCHANGED <<screen, calls, db>>

\* Not the code: the form of the record edited before.
NetworksReopenEdit(i) ==
  /\ NetworksRow(i)
  /\ ui' = [ui EXCEPT !.selected = i, !.dialogs = {"edit"},
                      !.form = IF @ = Nobody THEN i ELSE @]
  /\ UNCHANGED <<screen, calls, db>>

NetworksOpenEdit(i) ==
  /\ NetworksRow(i)
  /\ ui' = [ui EXCEPT !.selected = i, !.form = i,
                      !.dialogs = {"edit"}]
  /\ UNCHANGED <<screen, calls, db>>

NetworksOpenDelete(i) ==
  /\ NetworksRow(i)
  /\ ui' = [ui EXCEPT !.selected = i, !.dialogs = {"delete"}]
  /\ UNCHANGED <<screen, calls, db>>

\* Cancel, Escape or a click outside: form and selection are kept.
NetworksClose(d) ==
  /\ NetworksDialog(d)
  /\ ui' = [ui EXCEPT !.dialogs = @ \ {d}]
  /\ UNCHANGED <<screen, calls, db>>

-----------------------------------------------------------------------------
NetworksSubmitCreate ==
  /\ NetworksCreateEnabled
  /\ ui' = [ui EXCEPT !.submitting = TRUE]
  /\ Await("createNetwork", [id |-> Nobody, of |-> ui.form])
  /\ UNCHANGED <<screen, db>>

NetworksSubmitUpdate ==
  /\ NetworksUpdateEnabled /\ ui.selected # Nobody
  /\ ui' = [ui EXCEPT !.submitting = TRUE]
  /\ Await("updateNetwork", [id |-> ui.selected, of |-> ui.form])
  /\ UNCHANGED <<screen, db>>

NetworksSubmitDelete ==
  /\ NetworksDeleteEnabled /\ ui.selected # Nobody
  /\ ui' = [ui EXCEPT !.submitting = TRUE]
  /\ Await("deleteNetwork", [id |-> ui.selected, of |-> ui.selected])
  /\ UNCHANGED <<screen, db>>

\* What the three handlers do with a failure: the dialog stays as it is.
NetworksWriteFailed(s) ==
  /\ ui' = [ui EXCEPT !.submitting = FALSE, !.uncertain = TRUE]
  /\ Finish(s)

\* Not the code: the list is not fetched anew.
NetworksWrittenOnly(s, closed, form) ==
  /\ ui' = [ui EXCEPT !.dialogs = @ \ {closed}, !.form = form,
                      !.selected = Nobody, !.submitting = FALSE]
  /\ Finish(s)

\* A write that succeeded closes its dialog and fetches the list.
NetworksWritten(s, closed, form) ==
  /\ ui' = [ui EXCEPT !.dialogs = @ \ {closed}, !.form = form,
                      !.selected = Nobody, !.submitting = FALSE,
                      !.loading = TRUE, !.uncertain = Others(s)]
  /\ AwaitNext(s, "listNetworks", Nobody)

NetworksCreated(s) ==
  /\ NetworksShown /\ Mine(s) /\ Answered(s, "createNetwork")
  /\ IF calls[s].outcome = "ok"
     THEN NetworksWritten(s, "create", Nobody)
     ELSE NetworksWriteFailed(s)
  /\ UNCHANGED <<screen, db>>

NetworksUpdated(s) ==
  /\ NetworksShown /\ Mine(s) /\ Answered(s, "updateNetwork")
  /\ IF calls[s].outcome = "ok"
     THEN NetworksWritten(s, "edit", Nobody)
     ELSE NetworksWriteFailed(s)
  /\ UNCHANGED <<screen, db>>

NetworksDeleted(s) ==
  /\ NetworksShown /\ Mine(s) /\ Answered(s, "deleteNetwork")
  /\ IF calls[s].outcome = "ok"
     THEN NetworksWritten(s, "delete", ui.form)
     ELSE NetworksWriteFailed(s)
  /\ UNCHANGED <<screen, db>>

-----------------------------------------------------------------------------
NetworksStep ==
  \/ NetworksMount \/ NetworksUnlocked
  \/ NetworksSearch \/ NetworksSort \/ NetworksRetry
  \/ NetworksOpenCreate
  \/ \E i \in Items : NetworksOpenEdit(i) \/ NetworksOpenDelete(i)
  \/ \E d \in {"create", "edit", "delete", "unlock"} : NetworksClose(d)
  \/ NetworksSubmitCreate \/ NetworksSubmitUpdate \/ NetworksSubmitDelete

NetworksHandle(s) ==
  \/ NetworksFetched(s)
  \/ NetworksCreated(s) \/ NetworksUpdated(s) \/ NetworksDeleted(s)
=============================================================================
