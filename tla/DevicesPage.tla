---------------------------- MODULE DevicesPage ----------------------------
(***************************************************************************)
(* All devices of all networks (app/devices/page.tsx).  It creates devices *)
(* and regenerates their keys; the edit and delete entries of its rows do  *)
(* nothing here.  Devices, networks and locations are fetched together: a  *)
(* skeleton, or an error with Retry, stands in for the whole page, and a   *)
(* dialog that is open comes back with the list.  Filters are applied to   *)
(* the rows in place and make no call.                                     *)
(*                                                                         *)
(* db maps a device to the age of its API key: 0 before it exists, 1 for   *)
(* the key it was created with, 2 for a regenerated one.  A regenerated    *)
(* API key exists in readable form only in the answer to the call.         *)
(*                                                                         *)
(* Two fields are not in the code: `uncertain', as in NetworksPage, and    *)
(* `crossed': two regenerations were under way together.                   *)
(***************************************************************************)
EXTENDS Screen

MaxKeyAge == 2   \* bound: one regeneration of each API key

FleetFresh ==
  [mounted |-> TRUE, page |-> "loading", rows |-> {}, dialogs |-> {},
   selected |-> Nobody, newApiKey |-> Nobody, submitting |-> FALSE,
   uncertain |-> ~Quiet, crossed |-> FALSE]

FleetShown     == screen = "fleet" /\ ui # Unmounted
FleetDialog(d) == FleetShown /\ ui.page = "shown" /\ d \in ui.dialogs
FleetBare      == FleetShown /\ ui.page = "shown" /\ ui.dialogs = {}
FleetRow(i)    == FleetBare /\ i \in ui.rows
FleetCreateEnabled == FleetDialog("create") /\ ~ui.submitting
FleetRetryOffered  == FleetShown /\ ui.page = "error"

Existing == {i \in Items : db[i] > 0}
Regenerations ==
  InFlight("regenerateDeviceApiKey") \cup InFlight("regenerateDeviceKeys")

FleetServer(s) ==
  LET c == calls[s] IN
  CASE c.op = "listDevices" -> {Reply(db, "ok", Existing)}
    [] c.op = "createDevice" ->
         {Reply([db EXCEPT ![i] = 1], "ok", i) : i \in Items \ Existing}
    [] c.op = "regenerateDeviceApiKey" ->
         {Reply([db EXCEPT ![i] = @ + 1], "ok", [device |-> i, key |-> db[i] + 1]) :
            i \in {i \in {c.arg.id} \cap Existing : db[i] < MaxKeyAge}}
    [] c.op = "regenerateDeviceKeys" -> GenerateReply

-----------------------------------------------------------------------------
FleetMount ==
  /\ screen = "fleet" /\ ui = Unmounted
  /\ ui' = FleetFresh
  /\ Await("listDevices", Nobody)
  /\ UNCHANGED <<screen, db>>

FleetRetry ==
  /\ FleetRetryOffered
  /\ ui' = [ui EXCEPT !.page = "loading", !.uncertain = ~Quiet]
  /\ Await("listDevices", Nobody)
  /\ UNCHANGED <<screen, db>>

\* fetchData: the three lists arrive together, or none does.
FleetFetched(s) ==
  /\ FleetShown /\ Mine(s) /\ Answered(s, "listDevices")
  /\ IF calls[s].outcome = "ok"
     THEN ui' = [ui EXCEPT !.rows = calls[s].data,
                           !.page = IF @ = "error" THEN "error" ELSE "shown"]
     ELSE ui' = [ui EXCEPT !.page = "error"]
  /\ Finish(s)
  /\ UNCHANGED <<screen, db>>

FleetOpenCreate ==
  /\ FleetBare
  /\ ui' = [ui EXCEPT !.dialogs = {"create"}]
  /\ UNCHANGED <<screen, calls, db>>

FleetClose(d) ==
  /\ FleetDialog(d)
  /\ ui' = [ui EXCEPT !.dialogs = @ \ {d}]
  /\ UNCHANGED <<screen, calls, db>>

-----------------------------------------------------------------------------
FleetSubmitCreate ==
  /\ FleetCreateEnabled
  /\ ui' = [ui EXCEPT !.submitting = TRUE]
  /\ Await("createDevice", [id |-> Nobody])
  /\ UNCHANGED <<screen, db>>

FleetRegenerate(op, i) ==
  /\ FleetRow(i)
  /\ ui' = [ui EXCEPT !.selected = i, !.submitting = TRUE,
                      !.crossed = Regenerations # {}]
  /\ Await(op, [id |-> i])
  /\ UNCHANGED <<screen, db>>

FleetRegenerateApiKey(i) == FleetRegenerate("regenerateDeviceApiKey", i)
FleetRegenerateKeys(i)   == FleetRegenerate("regenerateDeviceKeys", i)

FleetFailed(s) ==
  /\ ui' = [ui EXCEPT !.submitting = FALSE, !.uncertain = TRUE]
  /\ Finish(s)

\* What the three handlers do last: fetchData puts the skeleton up.
FleetRefetch(s, dialogs, key) ==
  /\ ui' = [ui EXCEPT !.dialogs = dialogs, !.newApiKey = key,
                      !.submitting = FALSE, !.page = "loading",
                      !.uncertain = Others(s)]
  /\ AwaitNext(s, "listDevices", Nobody)

FleetCreated(s) ==
  /\ FleetShown /\ Mine(s) /\ Answered(s, "createDevice")
  /\ IF calls[s].outcome = "ok"
     THEN FleetRefetch(s, ui.dialogs \ {"create"}, ui.newApiKey)
     ELSE FleetFailed(s)
  /\ UNCHANGED <<screen, db>>

\* Not the code: the key shown first stays in the dialog.
FleetApiKeyKept(s) ==
  /\ FleetShown /\ Mine(s) /\ Answered(s, "regenerateDeviceApiKey")
  /\ IF calls[s].outcome = "ok"
     THEN FleetRefetch(s, ui.dialogs \cup {"apiKey"},
                       IF ui.newApiKey = Nobody THEN calls[s].data ELSE ui.newApiKey)
     ELSE FleetFailed(s)
  /\ UNCHANGED <<screen, db>>

\* The key in the dialog is that of the answer, the name that of whichever
\* device is selected by now.
FleetApiKeyRegenerated(s) ==
  /\ FleetShown /\ Mine(s) /\ Answered(s, "regenerateDeviceApiKey")
  /\ IF calls[s].outcome = "ok"
     THEN FleetRefetch(s, ui.dialogs \cup {"apiKey"}, calls[s].data)
     ELSE FleetFailed(s)
  /\ UNCHANGED <<screen, db>>

FleetKeysRegenerated(s) ==
  /\ FleetShown /\ Mine(s) /\ Answered(s, "regenerateDeviceKeys")
  /\ IF calls[s].outcome = "ok"
     THEN FleetRefetch(s, ui.dialogs \cup {"keys"}, ui.newApiKey)
     ELSE FleetFailed(s)
  /\ UNCHANGED <<screen, db>>

-----------------------------------------------------------------------------
FleetStep ==
  \/ FleetMount \/ FleetRetry \/ FleetOpenCreate \/ FleetSubmitCreate
  \/ \E d \in {"create", "apiKey", "keys"} : FleetClose(d)
  \/ \E i \in Items : FleetRegenerateApiKey(i) \/ FleetRegenerateKeys(i)

FleetHandle(s) ==
  \/ FleetFetched(s) \/ FleetCreated(s)
  \/ FleetApiKeyRegenerated(s) \/ FleetKeysRegenerated(s)
=============================================================================
