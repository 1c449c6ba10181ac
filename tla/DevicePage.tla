----------------------------- MODULE DevicePage -----------------------------
(***************************************************************************)
(* The page of one device (app/networks/[id]/devices/[deviceId]/page.tsx)  *)
(* with the tabs that call the backend: API management, whose dialog       *)
(* regenerates the API key, and the configuration preview.  A key that     *)
(* regenerating returns is shown once; the page then fetches the device,   *)
(* and a skeleton, or an error, takes its place.                           *)
(*                                                                         *)
(* db is the number of the API key in force.  `uncertain' is not in the    *)
(* code: a key may have been issued since whose answer was not seen.       *)
(***************************************************************************)
EXTENDS Screen

MaxKeys == 2   \* bound: keys issued to the device

NoPreview == [shown |-> FALSE, loading |-> FALSE, config |-> FALSE, error |-> FALSE]

DeviceFresh ==
  [mounted |-> TRUE, page |-> "loading", tab |-> "overview", apiKey |-> Nobody,
   regenerating |-> FALSE, dialog |-> FALSE, preview |-> NoPreview,
   uncertain |-> ~Quiet]

DeviceShown  == screen = "device" /\ ui # Unmounted
DeviceTabs   == DeviceShown /\ ui.page = "shown"
DeviceModal  == DeviceTabs /\ ui.dialog
DeviceBare   == DeviceTabs /\ ~ui.dialog

RegenerateOffered == DeviceBare /\ ui.tab = "api" /\ ~ui.regenerating
RegenerateEnabled == DeviceModal /\ ~ui.regenerating
ApiKeyShown       == DeviceTabs /\ ui.tab = "api" /\ ui.apiKey # Nobody
PreviewEnabled    == DeviceBare /\ ui.tab = "config" /\ ~ui.preview.loading

DeviceServer(s) ==
  CASE calls[s].op = "regenerateDeviceApiKey" ->
         IF db = MaxKeys THEN {Reply(db, "failed", Nobody)}
         ELSE {Reply(db + 1, "ok", db + 1)}
    [] OTHER -> GenerateReply

-----------------------------------------------------------------------------
DeviceMount ==
  /\ screen = "device" /\ ui = Unmounted
  /\ ui' = DeviceFresh
  /\ Await("getDevice", "effect")
  /\ UNCHANGED <<screen, db>>

\* fetchDevice; the handler that regenerates a key waits for it, too.
DeviceFetched(s) ==
  /\ DeviceShown /\ Mine(s) /\ Answered(s, "getDevice")
  /\ ui' = [ui EXCEPT
              !.page = IF calls[s].outcome = "ok" THEN "shown" ELSE "error",
              !.regenerating = @ /\ calls[s].arg = "effect"]
  /\ Finish(s)
  /\ UNCHANGED <<screen, db>>

\* A preview that goes away takes its loads with it.
WithoutLoads == [s \in Slots |-> IF calls[s].op = "getAdminDeviceConfig" THEN Idle
                                 ELSE calls[s]]

DeviceTab(tab) ==
  /\ DeviceBare /\ tab # ui.tab
  /\ ui' = [ui EXCEPT !.tab = tab, !.preview = NoPreview]
  /\ calls' = WithoutLoads
  /\ UNCHANGED <<screen, db>>

-----------------------------------------------------------------------------
\* ApiKeyRegenerateDialog.
ApiKeyDialog ==
  /\ \/ RegenerateOffered
     \/ DeviceModal
  /\ ui' = [ui EXCEPT !.dialog = ~@]
  /\ UNCHANGED <<screen, calls, db>>

ApiKeyRegenerate ==
  /\ RegenerateEnabled
  /\ ui' = [ui EXCEPT !.regenerating = TRUE]
  /\ Await("regenerateDeviceApiKey", Nobody)
  /\ UNCHANGED <<screen, db>>

\* Not the code: only the first key is kept.
ApiKeyRegeneratedFirst(s) ==
  /\ DeviceShown /\ Mine(s) /\ Answered(s, "regenerateDeviceApiKey")
  /\ IF calls[s].outcome = "ok"
     THEN /\ ui' = [ui EXCEPT !.apiKey = IF @ = Nobody THEN calls[s].data ELSE @,
                              !.page = "loading", !.dialog = FALSE,
                              !.preview = NoPreview]
          /\ calls' = [WithoutLoads EXCEPT ![s] = NewCall("getDevice", "regenerate")]
     ELSE /\ ui' = [ui EXCEPT !.regenerating = FALSE, !.uncertain = TRUE]
          /\ Finish(s)
  /\ UNCHANGED <<screen, db>>

\* The key is kept, and the fetch that follows unmounts the tabs.  After a
\* failure the key shown before is still there, in force or not.
ApiKeyRegenerated(s) ==
  /\ DeviceShown /\ Mine(s) /\ Answered(s, "regenerateDeviceApiKey")
  /\ IF calls[s].outcome = "ok"
     THEN /\ ui' = [ui EXCEPT !.apiKey = calls[s].data, !.page = "loading",
                              !.dialog = FALSE, !.preview = NoPreview]
          /\ calls' = [WithoutLoads EXCEPT ![s] = NewCall("getDevice", "regenerate")]
     ELSE /\ ui' = [ui EXCEPT !.regenerating = FALSE, !.dialog = FALSE,
                              !.uncertain = TRUE]
          /\ Finish(s)
  /\ UNCHANGED <<screen, db>>

-----------------------------------------------------------------------------
\* loadConfig, from the click and from the effect that a preview without a
\* configuration triggers: the first preview loads twice.
PreviewConfig ==
  /\ PreviewEnabled /\ ~ui.preview.shown
  /\ ui' = [ui EXCEPT !.preview.shown = TRUE, !.preview.loading = TRUE,
                      !.preview.error = FALSE]
  /\ IF ui.preview.config \/ Cardinality(FreeSlots) < 2
     THEN Await("getAdminDeviceConfig", Nobody)
     ELSE \E both \in SUBSET FreeSlots :
            /\ Cardinality(both) = 2
            /\ calls' = [s \in Slots |->
                           IF s \in both THEN NewCall("getAdminDeviceConfig", Nobody)
                           ELSE calls[s]]
  /\ UNCHANGED <<screen, db>>

HideConfig ==
  /\ PreviewEnabled /\ ui.preview.shown
  /\ ui' = [ui EXCEPT !.preview.shown = FALSE]
  /\ UNCHANGED <<screen, calls, db>>

ConfigLoaded(s) ==
  /\ DeviceTabs /\ Mine(s) /\ Answered(s, "getAdminDeviceConfig")
  /\ IF calls[s].outcome = "ok"
     THEN ui' = [ui EXCEPT !.preview.loading = FALSE, !.preview.config = TRUE]
     ELSE ui' = [ui EXCEPT !.preview.loading = FALSE, !.preview.error = TRUE]
  /\ Finish(s)
  /\ UNCHANGED <<screen, db>>

\* Download, from the header, which nothing disables, or from the preview.
DownloadConfig ==
  /\ DeviceBare
  /\ Await("downloadAdminDeviceConfig", Nobody)
  /\ UNCHANGED <<screen, ui, db>>

ConfigDownloaded(s) ==
  /\ DeviceShown /\ Mine(s) /\ Answered(s, "downloadAdminDeviceConfig")
  /\ Finish(s)
  /\ UNCHANGED <<screen, ui, db>>

DeviceStep ==
  \/ DeviceMount \/ ApiKeyDialog \/ ApiKeyRegenerate
  \/ PreviewConfig \/ HideConfig \/ DownloadConfig
  \/ \E tab \in {"overview", "api", "network", "config"} : DeviceTab(tab)

DeviceHandle(s) ==
  \/ DeviceFetched(s) \/ ApiKeyRegenerated(s)
  \/ ConfigLoaded(s) \/ ConfigDownloaded(s)
=============================================================================
