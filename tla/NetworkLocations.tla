-------------------------- MODULE NetworkLocations --------------------------
(***************************************************************************)
(* The locations tab of a network (components/network-locations.tsx).  Its *)
(* state is ui.child while the network page has it mounted.  A write that  *)
(* succeeds closes its dialog, fetches the list and reports the change to  *)
(* the network page, which unmounts the tab: what the tab fetched is shown *)
(* nowhere, and a fresh tab fetches the list once more.                    *)
(*                                                                         *)
(* `uncertain' is not in the code, as in NetworksPage.                     *)
(***************************************************************************)
EXTENDS NetworkPage

LocationsFresh(doubt) ==
  [rows |-> {}, loading |-> TRUE, dialogs |-> {}, selected |-> Nobody,
   form |-> Nobody, submitting |-> FALSE, fetchError |-> FALSE,
   uncertain |-> doubt]

LocationsShown     == screen = "locations" /\ NetworkShown /\ ui.child # Unmounted
LocationsDialog(d) == LocationsShown /\ ~ui.child.loading /\ d \in ui.child.dialogs
LocationsBare      == LocationsShown /\ ~ui.child.loading /\ ui.child.dialogs = {}

LocationsRow(i)        == LocationsBare /\ i \in ui.child.rows
LocationsRetryOffered  == LocationsBare /\ ui.child.fetchError
LocationsCreateEnabled == LocationsDialog("create") /\ ~ui.child.submitting
LocationsUpdateEnabled == LocationsDialog("edit") /\ ~ui.child.submitting
LocationsDeleteEnabled == LocationsDialog("delete") /\ ~ui.child.submitting

LocationsServer(s) ==
  LET c == calls[s] IN
  CASE c.op \in {"getNetwork", "listLocations"} -> ListReply
    [] c.op = "createLocation" -> CreateReplies(Items)
    [] c.op = "updateLocation" -> UpdateReply(c.arg.id)
    [] c.op = "deleteLocation" -> DeleteReply(c.arg.id)

-----------------------------------------------------------------------------
LocationsRetry ==
  /\ LocationsRetryOffered
  /\ ui' = [ui EXCEPT !.child.loading = TRUE, !.child.fetchError = FALSE,
                      !.child.uncertain = ~Quiet]
  /\ Await("listLocations", Nobody)
  /\ UNCHANGED <<screen, db>>

LocationsFetched(s) ==
  /\ LocationsShown /\ Mine(s) /\ Answered(s, "listLocations")
  /\ IF calls[s].outcome = "ok"
     THEN ui' = [ui EXCEPT !.child.rows = calls[s].data,
                           !.child.fetchError = FALSE,
                           !.child.loading = FALSE]
     ELSE ui' = [ui EXCEPT !.child.fetchError = TRUE, !.child.loading = FALSE]
  /\ Finish(s)
  /\ UNCHANGED <<screen, db>>

LocationsOpenCreate ==
  /\ LocationsBare
  /\ ui' = [ui EXCEPT !.child.dialogs = {"create"}]
  /\ UNCHANGED <<screen, calls, db>>

LocationsOpenEdit(i) ==
  /\ LocationsRow(i)
  /\ ui' = [ui EXCEPT !.child.selected = i, !.child.form = i,
                      !.child.dialogs = {"edit"}]
  /\ UNCHANGED <<screen, calls, db>>

LocationsOpenDelete(i) ==
  /\ LocationsRow(i)
  /\ ui' = [ui EXCEPT !.child.selected = i, !.child.dialogs = {"delete"}]
  /\ UNCHANGED <<screen, calls, db>>

LocationsClose(d) ==
  /\ LocationsDialog(d)
  /\ ui' = [ui EXCEPT !.child.dialogs = @ \ {d}]
  /\ UNCHANGED <<screen, calls, db>>

-----------------------------------------------------------------------------
LocationsSubmit(op, id, of) ==
  /\ ui' = [ui EXCEPT !.child.submitting = TRUE]
  /\ Await(op, [id |-> id, of |-> of, alive |-> TRUE])
  /\ UNCHANGED <<screen, db>>

LocationsSubmitCreate ==
  /\ LocationsCreateEnabled
  /\ LocationsSubmit("createLocation", Nobody, ui.child.form)

LocationsSubmitUpdate ==
  /\ LocationsUpdateEnabled /\ ui.child.selected # Nobody
  /\ LocationsSubmit("updateLocation", ui.child.selected, ui.child.form)

LocationsSubmitDelete ==
  /\ LocationsDeleteEnabled /\ ui.child.selected # Nobody
  /\ LocationsSubmit("deleteLocation", ui.child.selected, ui.child.selected)

\* The three handlers end alike.  The page is told of a success whether or
\* not the tab is still there; a failure leaves the dialog as it is.
LocationsWritten(s) ==
  IF calls[s].outcome = "ok" THEN NetworkReload(s)
  ELSE /\ IF calls[s].arg.alive
          THEN ui' = [ui EXCEPT !.child.submitting = FALSE,
                                !.child.uncertain = TRUE]
          ELSE UNCHANGED ui
       /\ Finish(s)

LocationsAnswered(s, op) ==
  screen = "locations" /\ ui # Unmounted /\ Mine(s) /\ Answered(s, op)

LocationsCreated(s) ==
  /\ LocationsAnswered(s, "createLocation") /\ LocationsWritten(s)
  /\ UNCHANGED <<screen, db>>

LocationsUpdated(s) ==
  /\ LocationsAnswered(s, "updateLocation") /\ LocationsWritten(s)
  /\ UNCHANGED <<screen, db>>

LocationsDeleted(s) ==
  /\ LocationsAnswered(s, "deleteLocation") /\ LocationsWritten(s)
  /\ UNCHANGED <<screen, db>>

-----------------------------------------------------------------------------
LocationsStep ==
  \/ NetworkMount("locations")
  \/ NetworkLeaveTab("locations")
  \/ NetworkEnterTab("locations", LocationsFresh(~Quiet), "listLocations", Nobody)
  \/ LocationsRetry \/ LocationsOpenCreate
  \/ \E i \in Items : LocationsOpenEdit(i) \/ LocationsOpenDelete(i)
  \/ \E d \in {"create", "edit", "delete"} : LocationsClose(d)
  \/ LocationsSubmitCreate \/ LocationsSubmitUpdate \/ LocationsSubmitDelete

LocationsHandle(s) ==
  \/ NetworkFetched(s, "locations", LocationsFresh(Others(s)), "listLocations", Nobody)
  \/ LocationsFetched(s)
  \/ LocationsCreated(s) \/ LocationsUpdated(s) \/ LocationsDeleted(s)
=============================================================================
