----------------------------- MODULE SmallPages -----------------------------
(***************************************************************************)
(* The pages with one thing to load and at most one form: the dashboard    *)
(* (app/page.tsx), the edit pages of a network and of a device, and the    *)
(* two export pages.  Each has its own screen; db is the number of times   *)
(* the record being edited was changed.                                    *)
(***************************************************************************)
EXTENDS Screen

MaxUpdates == 2   \* bound: updates the backend accepts

SmallPage(loading) ==
  [mounted |-> TRUE, page |-> loading, shown |-> Nobody, submitting |-> FALSE,
   generating |-> FALSE, psk |-> FALSE, unlock |-> FALSE]

On(here) == screen = here /\ ui # Unmounted

SmallServer(s) ==
  CASE calls[s].op \in {"updateNetwork", "updateDevice"} ->
         IF db = MaxUpdates THEN {Reply(db, "invalid", Nobody)}
         ELSE {Reply(db + 1, "ok", Nobody)}
    [] OTHER -> ListReply

\* A page that fetches what it shows when it is mounted.
MountOn(here, op) ==
  /\ screen = here /\ ui = Unmounted
  /\ ui' = SmallPage("loading")
  /\ Await(op, Nobody)
  /\ UNCHANGED <<screen, db>>

\* Skeleton, then either the page or an error in its place.
FetchedOn(here, op, s) ==
  /\ On(here) /\ Mine(s) /\ Answered(s, op)
  /\ IF calls[s].outcome = "ok"
     THEN ui' = [ui EXCEPT !.page = "shown", !.shown = calls[s].data]
     ELSE ui' = [ui EXCEPT !.page = "error"]
  /\ Finish(s)
  /\ UNCHANGED <<screen, db>>

-----------------------------------------------------------------------------
(***************************************************************************)
(* The dashboard asks for the audit statistics and the health together and *)
(* goes on when both are settled; the model asks one after the other.  A   *)
(* failed health check shows nothing, and an unauthorized answer opens the *)
(* unlock dialog over the page.                                            *)
(***************************************************************************)
DashboardShown   == On("dashboard") /\ ui.page = "shown"
DashboardError   == On("dashboard") /\ ui.page = "error"

DashboardMount == MountOn("dashboard", "getAuditStatistics")

DashboardStatistics(s) ==
  /\ On("dashboard") /\ Mine(s) /\ Answered(s, "getAuditStatistics")
  /\ AwaitNext(s, "getHealth", calls[s].outcome)
  /\ UNCHANGED <<screen, ui, db>>

DashboardFetched(s) ==
  /\ On("dashboard") /\ Mine(s) /\ Answered(s, "getHealth")
  /\ ui' = CASE calls[s].arg = "ok"           -> [ui EXCEPT !.page = "shown"]
             [] calls[s].arg = "unauthorized" -> [ui EXCEPT !.page = "shown", !.unlock = TRUE]
             [] calls[s].arg = "failed"       -> [ui EXCEPT !.page = "error"]
  /\ Finish(s)
  /\ UNCHANGED <<screen, db>>

\* handleUnlockSuccess fetches again, the page showing that it loads.
DashboardUnlocked ==
  /\ DashboardShown /\ ui.unlock
  /\ ui' = SmallPage("loading")
  /\ Await("getAuditStatistics", Nobody)
  /\ UNCHANGED <<screen, db>>

DashboardCloseUnlock ==
  /\ DashboardShown /\ ui.unlock
  /\ ui' = [ui EXCEPT !.unlock = FALSE]
  /\ UNCHANGED <<screen, calls, db>>

\* Try Again loads the document anew.
DashboardReload ==
  /\ DashboardError
  /\ ui' = Unmounted
  /\ calls' = [s \in Slots |-> Idle]
  /\ UNCHANGED <<screen, db>>

-----------------------------------------------------------------------------
(***************************************************************************)
(* The edit page of a network.  The preshared key is never sent back by    *)
(* the backend, so the field starts empty, and an empty field is left out  *)
(* of the update.  The page is left when the update succeeds.              *)
(***************************************************************************)
NetworkEditMount      == MountOn("networkEdit", "getNetwork")
NetworkEditFetched(s) == FetchedOn("networkEdit", "getNetwork", s)

NetworkEditShown      == On("networkEdit") /\ ui.page = "shown"
NetworkEditEnabled    == NetworkEditShown /\ ~ui.submitting
NetworkEditPskEnabled == NetworkEditEnabled /\ ~ui.generating

\* Typing a key, or clearing the field.
NetworkEditPsk ==
  /\ NetworkEditEnabled
  /\ ui' = [ui EXCEPT !.psk = ~@]
  /\ UNCHANGED <<screen, calls, db>>

NetworkEditGenerate ==
  /\ NetworkEditPskEnabled
  /\ ui' = [ui EXCEPT !.generating = TRUE]
  /\ Await("generateWireGuardPresharedKey", Nobody)
  /\ UNCHANGED <<screen, db>>

\* The answer may come while the form is being submitted without it.
NetworkEditGenerated(s) ==
  /\ On("networkEdit") /\ Mine(s) /\ Answered(s, "generateWireGuardPresharedKey")
  /\ ui' = [ui EXCEPT !.generating = FALSE,
                      !.psk = @ \/ calls[s].outcome = "ok"]
  /\ Finish(s)
  /\ UNCHANGED <<screen, db>>

NetworkEditSubmit ==
  /\ NetworkEditEnabled
  /\ ui' = [ui EXCEPT !.submitting = TRUE]
  /\ Await("updateNetwork", [id |-> "this", of |-> "this", psk |-> ui.psk])
  /\ UNCHANGED <<screen, db>>

NetworkEditSubmitted(s) ==
  /\ On("networkEdit") /\ Mine(s) /\ Answered(s, "updateNetwork")
  /\ IF calls[s].outcome = "ok"
     THEN /\ ui' = Unmounted
          /\ calls' = [t \in Slots |-> IF t = s THEN Idle ELSE Orphaned(calls[t])]
     ELSE /\ ui' = [ui EXCEPT !.submitting = FALSE]
          /\ Finish(s)
  /\ UNCHANGED <<screen, db>>

-----------------------------------------------------------------------------
\* The edit page of a device fetches the device, the locations and the
\* network together and shows the form of DeviceForm in edit mode.
DeviceEditMount      == MountOn("deviceEdit", "getDevice")
DeviceEditFetched(s) == FetchedOn("deviceEdit", "getDevice", s)
DeviceEditEnabled    == On("deviceEdit") /\ ui.page = "shown" /\ ~ui.submitting

DeviceEditSubmit ==
  /\ DeviceEditEnabled
  /\ ui' = [ui EXCEPT !.submitting = TRUE]
  /\ Await("updateDevice", [id |-> "this", of |-> "this", psk |-> FALSE])
  /\ UNCHANGED <<screen, db>>

DeviceEditSubmitted(s) ==
  /\ On("deviceEdit") /\ Mine(s) /\ Answered(s, "updateDevice")
  /\ ui' = IF calls[s].outcome = "ok" THEN Unmounted
           ELSE [ui EXCEPT !.submitting = FALSE]
  /\ Finish(s)
  /\ UNCHANGED <<screen, db>>

-----------------------------------------------------------------------------
(***************************************************************************)
(* The export pages.  The page of all networks fetches nothing, and its    *)
(* selection of networks is never filled: it exports them all, as one JSON *)
(* answer or as an archive.  That of one network fetches it first.         *)
(***************************************************************************)
ExportMount ==
  /\ screen = "export" /\ ui = Unmounted
  /\ ui' = SmallPage("shown")
  /\ UNCHANGED <<screen, calls, db>>

NetworkExportMount      == MountOn("networkExport", "getNetwork")
NetworkExportFetched(s) == FetchedOn("networkExport", "getNetwork", s)

ExportEnabled        == On("export") /\ ~ui.submitting
NetworkExportEnabled == On("networkExport") /\ ui.page = "shown" /\ ~ui.submitting

ExportNetworks(op) ==
  /\ ExportEnabled
  /\ ui' = [ui EXCEPT !.submitting = TRUE]
  /\ Await(op, Nobody)
  /\ UNCHANGED <<screen, db>>

ExportConfigs ==
  /\ NetworkExportEnabled
  /\ ui' = [ui EXCEPT !.submitting = TRUE]
  /\ Await("downloadNetworkConfigs", ui.shown)
  /\ UNCHANGED <<screen, db>>

ExportOps == {"exportNetworks", "downloadExport", "downloadNetworkConfigs"}

Exported(s) ==
  /\ ui # Unmounted /\ Mine(s) /\ \E op \in ExportOps : Answered(s, op)
  /\ ui' = [ui EXCEPT !.submitting = FALSE]
  /\ Finish(s)
  /\ UNCHANGED <<screen, db>>

-----------------------------------------------------------------------------
SmallStep ==
  \/ DashboardMount \/ DashboardUnlocked \/ DashboardCloseUnlock \/ DashboardReload
  \/ NetworkEditMount \/ NetworkEditPsk \/ NetworkEditGenerate \/ NetworkEditSubmit
  \/ DeviceEditMount \/ DeviceEditSubmit
  \/ ExportMount \/ NetworkExportMount \/ ExportConfigs
  \/ \E op \in {"exportNetworks", "downloadExport"} : ExportNetworks(op)

SmallHandle(s) ==
  \/ DashboardStatistics(s) \/ DashboardFetched(s)
  \/ NetworkEditFetched(s) \/ NetworkEditGenerated(s) \/ NetworkEditSubmitted(s)
  \/ DeviceEditFetched(s) \/ DeviceEditSubmitted(s)
  \/ NetworkExportFetched(s) \/ Exported(s)
=============================================================================
