--------------------------- MODULE NetworkDevices ---------------------------
(***************************************************************************)
(* The devices tab of a network (components/network-devices.tsx).  Unlike  *)
(* the locations tab it stays in place while it fetches anew: its filters  *)
(* can be changed, and a change is fetched 300 ms after the last one.  The *)
(* row menu regenerates an API key or the WireGuard keys of a device, and  *)
(* is not disabled while another request is in flight: `submitting' is one *)
(* flag, which the first of two handlers to end clears.                    *)
(*                                                                         *)
(* The rows a filter lets through are not told apart: `fitting' says that  *)
(* the rows were fetched with the filters shown, and `current' the same of *)
(* a call.  The locations and the network the tab also reads, for the      *)
(* options of its forms, are left out, and so are the keys themselves.     *)
(* `uncertain' is not in the code, as in NetworksPage.                     *)
(***************************************************************************)
EXTENDS NetworkPage

CONSTANT Devices   \* the devices the network may have

DevicesFresh(doubt) ==
  [rows |-> {}, fitting |-> TRUE, due |-> FALSE, loading |-> TRUE,
   dialogs |-> {}, selected |-> Nobody, submitting |-> FALSE,
   fetchError |-> FALSE, uncertain |-> doubt]

DevicesShown     == screen = "devices" /\ NetworkShown /\ ui.child # Unmounted
DevicesDialog(d) == DevicesShown /\ ~ui.child.loading /\ d \in ui.child.dialogs
DevicesBare      == DevicesShown /\ ~ui.child.loading /\ ui.child.dialogs = {}

DevicesRow(i)        == DevicesBare /\ i \in ui.child.rows
DevicesRetryOffered  == DevicesBare /\ ui.child.fetchError
DevicesDeleteEnabled == DevicesDialog("delete") /\ ~ui.child.submitting
DevicesFormEnabled(d) == DevicesDialog(d) /\ ~ui.child.submitting

DevicesServer(s) ==
  LET c == calls[s] IN
  CASE c.op \in {"getNetwork", "listDevices"} -> ListReply
    [] c.op = "createDevice" -> CreateReplies(Devices)
    [] c.op \in {"updateDevice", "regenerateDeviceApiKey",
                 "regenerateDeviceKeys"} -> UpdateReply(c.arg.id)
    [] c.op = "deleteDevice" -> DeleteReply(c.arg.id)

-----------------------------------------------------------------------------
\* A fetch is made with the filters of the render its handler was made in.
DevicesQuery(current) == [current |-> current]

DevicesFetched(s) ==
  /\ DevicesShown /\ Mine(s) /\ Answered(s, "listDevices")
  /\ IF calls[s].outcome = "ok"
     THEN ui' = [ui EXCEPT !.child.rows = calls[s].data,
                           !.child.fitting = calls[s].arg.current,
                           !.child.fetchError = FALSE,
                           !.child.loading = FALSE]
     ELSE ui' = [ui EXCEPT !.child.fetchError = TRUE, !.child.loading = FALSE]
  /\ Finish(s)
  /\ UNCHANGED <<screen, db>>

\* A change of search, location or status: the timer starts over, and what
\* is on its way was asked for with other filters.
Outdated(c) ==
  IF c.op \in {"listDevices", "regenerateDeviceApiKey", "regenerateDeviceKeys"}
  THEN [c EXCEPT !.arg.current = FALSE] ELSE c

DevicesFilter ==
  /\ DevicesBare
  /\ ui' = [ui EXCEPT !.child.due = TRUE, !.child.fitting = FALSE]
  /\ calls' = [s \in Slots |-> Outdated(calls[s])]
  /\ UNCHANGED <<screen, db>>

\* The timer fires, and calls the fetch of the latest render.
DevicesDue ==
  /\ DevicesShown /\ ui.child.due
  /\ ui' = [ui EXCEPT !.child.due = FALSE, !.child.fetchError = FALSE,
                      !.child.uncertain = ~Quiet]
  /\ Await("listDevices", DevicesQuery(TRUE))
  /\ UNCHANGED <<screen, db>>

DevicesRetry ==
  /\ DevicesRetryOffered
  /\ ui' = [ui EXCEPT !.child.fetchError = FALSE, !.child.uncertain = ~Quiet]
  /\ Await("listDevices", DevicesQuery(TRUE))
  /\ UNCHANGED <<screen, db>>

-----------------------------------------------------------------------------
DevicesOpenCreate ==
  /\ DevicesBare
  /\ ui' = [ui EXCEPT !.child.dialogs = {"create"}]
  /\ UNCHANGED <<screen, calls, db>>

\* Selecting a device for one purpose selects it for all of them.
DevicesSelect(i, dialog) ==
  ui' = [ui EXCEPT !.child.selected = i, !.child.dialogs = {dialog}]

DevicesOpenEdit(i) ==
  /\ DevicesRow(i) /\ DevicesSelect(i, "edit")
  /\ UNCHANGED <<screen, calls, db>>

DevicesOpenDelete(i) ==
  /\ DevicesRow(i) /\ DevicesSelect(i, "delete")
  /\ UNCHANGED <<screen, calls, db>>

\* Closing the edit dialog drops the selection; the others keep it.
DevicesClose(d) ==
  /\ DevicesDialog(d)
  /\ ui' = [ui EXCEPT !.child.dialogs = @ \ {d},
                      !.child.selected = IF d = "edit" THEN Nobody ELSE @]
  /\ UNCHANGED <<screen, calls, db>>

-----------------------------------------------------------------------------
DevicesSend(op, i) ==
  /\ Await(op, [id |-> i, current |-> TRUE, alive |-> TRUE])
  /\ UNCHANGED <<screen, db>>

DevicesSubmitCreate ==
  /\ DevicesFormEnabled("create")
  /\ ui' = [ui EXCEPT !.child.submitting = TRUE]
  /\ DevicesSend("createDevice", Nobody)

DevicesSubmitUpdate ==
  /\ DevicesFormEnabled("edit") /\ ui.child.selected # Nobody
  /\ ui' = [ui EXCEPT !.child.submitting = TRUE]
  /\ DevicesSend("updateDevice", ui.child.selected)

DevicesSubmitDelete ==
  /\ DevicesDeleteEnabled /\ ui.child.selected # Nobody
  /\ ui' = [ui EXCEPT !.child.submitting = TRUE]
  /\ DevicesSend("deleteDevice", ui.child.selected)

DevicesRegenerate(op, i) ==
  /\ DevicesRow(i)
  /\ ui' = [ui EXCEPT !.child.selected = i, !.child.submitting = TRUE]
  /\ DevicesSend(op, i)

DevicesRegenerateApiKey(i) == DevicesRegenerate("regenerateDeviceApiKey", i)
DevicesRegenerateKeys(i)   == DevicesRegenerate("regenerateDeviceKeys", i)

-----------------------------------------------------------------------------
DevicesAnswered(s, op) ==
  screen = "devices" /\ ui # Unmounted /\ Mine(s) /\ Answered(s, op)

DevicesFailed(s) ==
  /\ IF calls[s].arg.alive
     THEN ui' = [ui EXCEPT !.child.submitting = FALSE, !.child.uncertain = TRUE]
     ELSE UNCHANGED ui
  /\ Finish(s)

DevicesWritten(s) ==
  IF calls[s].outcome = "ok" THEN NetworkReload(s) ELSE DevicesFailed(s)

DevicesCreated(s) ==
  /\ DevicesAnswered(s, "createDevice") /\ DevicesWritten(s)
  /\ UNCHANGED <<screen, db>>

\* Told that the backend is locked, the handler locks the provider, which
\* unmounts the page and the form with it, and asks for the password.
DevicesUpdated(s) ==
  /\ DevicesAnswered(s, "updateDevice")
  /\ IF calls[s].outcome = "locked"
     THEN /\ ui' = Unmounted
          /\ calls' = [t \in Slots |-> IF t = s THEN Idle ELSE Orphaned(calls[t])]
     ELSE DevicesWritten(s)
  /\ UNCHANGED <<screen, db>>

DevicesDeleted(s) ==
  /\ DevicesAnswered(s, "deleteDevice") /\ DevicesWritten(s)
  /\ UNCHANGED <<screen, db>>

\* A dialog, one for an API key and one for WireGuard keys, shows the new key
\* under the name of whichever device is selected by now, and the list is
\* fetched with the filters of the click.  The network page is not told.
DevicesRegenerated(s) ==
  IF ~calls[s].arg.alive THEN Finish(s) /\ UNCHANGED ui
  ELSE IF calls[s].outcome # "ok" THEN DevicesFailed(s)
  ELSE /\ ui' = [ui EXCEPT !.child.dialogs = @ \cup {"issued"},
                           !.child.submitting = FALSE,
                           !.child.fetchError = FALSE,
                           !.child.uncertain = Others(s) \/ ~calls[s].arg.current]
       /\ AwaitNext(s, "listDevices", DevicesQuery(calls[s].arg.current))

DevicesApiKeyRegenerated(s) ==
  /\ DevicesAnswered(s, "regenerateDeviceApiKey")
  /\ DevicesRegenerated(s)
  /\ UNCHANGED <<screen, db>>

DevicesKeysRegenerated(s) ==
  /\ DevicesAnswered(s, "regenerateDeviceKeys")
  /\ DevicesRegenerated(s)
  /\ UNCHANGED <<screen, db>>

-----------------------------------------------------------------------------
DevicesStep ==
  \/ NetworkMount("devices")
  \/ NetworkLeaveTab("devices")
  \/ NetworkEnterTab("devices", DevicesFresh(~Quiet), "listDevices", DevicesQuery(TRUE))
  \/ DevicesFilter \/ DevicesDue \/ DevicesRetry \/ DevicesOpenCreate
  \/ \E i \in Devices :
       \/ DevicesOpenEdit(i) \/ DevicesOpenDelete(i)
       \/ DevicesRegenerateApiKey(i) \/ DevicesRegenerateKeys(i)
  \/ \E d \in {"create", "edit", "delete", "issued"} : DevicesClose(d)
  \/ DevicesSubmitCreate \/ DevicesSubmitUpdate \/ DevicesSubmitDelete

DevicesHandle(s) ==
  \/ NetworkFetched(s, "devices", DevicesFresh(Others(s)), "listDevices", DevicesQuery(TRUE))
  \/ DevicesFetched(s)
  \/ DevicesCreated(s) \/ DevicesUpdated(s) \/ DevicesDeleted(s)
  \/ DevicesApiKeyRegenerated(s) \/ DevicesKeysRegenerated(s)
=============================================================================
