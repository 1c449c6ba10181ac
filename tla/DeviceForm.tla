----------------------------- MODULE DeviceForm -----------------------------
(***************************************************************************)
(* The form a device is created or edited with (components/                *)
(* device-form.tsx), mounted by its host in one of the two modes.  It has  *)
(* a key pair generated by the backend, loads the private key the backend  *)
(* holds, or has a preshared key generated; each answer is written into    *)
(* the form as it is when the answer arrives, whichever device is open in  *)
(* it by then.  Three flags keep each button from being clicked twice, and *)
(* do not know of one another.                                             *)
(*                                                                         *)
(* A pair of keys is named after the device it was the key of, or "new";   *)
(* a half of it is named after the pair.  db is the pair of each device.   *)
(* Keys typed by hand and the other fields are left out.  The form's own   *)
(* unlock dialog is too: the form is only mounted while the provider says  *)
(* unlocked, so that requireUnlock never withholds what it is given.       *)
(***************************************************************************)
EXTENDS Screen

FormFresh(mode) ==
  [mounted |-> TRUE, mode |-> mode, open |-> FALSE, device |-> Nobody,
   pub |-> Nobody, priv |-> Nobody, psk |-> FALSE, generating |-> FALSE,
   generatingPsk |-> FALSE, loadingKey |-> FALSE, submitting |-> FALSE]

FormOpen == screen = "deviceForm" /\ ui # Unmounted /\ ui.open

\* The buttons of the form, and when each is enabled.
FormGenerateEnabled == FormOpen /\ ~ui.submitting /\ ~ui.generating
FormLoadEnabled     == FormOpen /\ ui.mode = "edit" /\ ~ui.submitting /\ ~ui.loadingKey
FormPskEnabled      == FormOpen /\ ~ui.submitting /\ ~ui.generatingPsk
FormSubmitEnabled   == FormOpen /\ ~ui.submitting

\* Both halves have the length of a key; only an edit may omit the private.
FormSchema == /\ ui.pub # Nobody
              /\ ui.mode = "create" => ui.priv # Nobody

\* Not the code: the halves are not compared.
KeyUpdateUnchecked(i, pub, priv) ==
  Reply(IF priv = Nobody THEN db ELSE [db EXCEPT ![i] = priv], "ok", i)

\* update_device compares the halves, and ignores a public key on its own.
KeyUpdate(i, pub, priv) ==
  IF priv = Nobody THEN Reply(db, "ok", i)
  ELSE IF pub # priv THEN Reply(db, "invalid", Nobody)
  ELSE Reply([db EXCEPT ![i] = priv], "ok", i)

KeyCreation(i, pub, priv) ==
  IF pub # priv THEN Reply(db, "invalid", Nobody)
  ELSE Reply([db EXCEPT ![i] = priv], "ok", i)

FormServer(s) ==
  LET c == calls[s] IN
  CASE c.op = "generateWireGuardKeys" -> GenerateReply
    [] c.op = "generateWireGuardPresharedKey" -> GenerateReply
    [] c.op = "getAdminDeviceConfig" ->
         {Reply(db, "ok", db[c.arg.id])}
    [] c.op = "updateDevice" -> {KeyUpdate(c.arg.id, c.arg.pub, c.arg.priv)}
    [] c.op = "createDevice" ->
         {KeyCreation(i, c.arg.pub, c.arg.priv) : i \in {i \in Items : db[i] = Nobody}}

-----------------------------------------------------------------------------
FormMount ==
  /\ screen = "deviceForm" /\ ui = Unmounted
  /\ \E mode \in {"create", "edit"} : ui' = FormFresh(mode)
  /\ UNCHANGED <<screen, calls, db>>

\* The host opens the form.  A device that arrives as a prop resets it.
FormOpenCreate ==
  /\ screen = "deviceForm" /\ ui # Unmounted
  /\ ui.mode = "create" /\ ~ui.open
  /\ ui' = [ui EXCEPT !.open = TRUE]
  /\ UNCHANGED <<screen, calls, db>>

FormReset(i) ==
  ui' = [ui EXCEPT !.open = TRUE, !.device = i, !.pub = db[i],
                   !.priv = Nobody, !.psk = FALSE]

FormOpenEdit(i) ==
  /\ screen = "deviceForm" /\ ui # Unmounted
  /\ ui.mode = "edit" /\ ~ui.open /\ db[i] # Nobody
  /\ FormReset(i)
  /\ UNCHANGED <<screen, calls, db>>

\* Escape, also while something is in flight.  The fields keep their values.
FormClose ==
  /\ FormOpen
  /\ ui' = [ui EXCEPT !.open = FALSE, !.device = Nobody]
  /\ UNCHANGED <<screen, calls, db>>

-----------------------------------------------------------------------------
\* Keys are generated with the wg tool, and failing that in the backend.
FormGenerate ==
  /\ FormGenerateEnabled
  /\ ui' = [ui EXCEPT !.generating = TRUE]
  /\ Await("generateWireGuardKeys", "cli")
  /\ UNCHANGED <<screen, db>>

FormGenerated(s) ==
  /\ screen = "deviceForm" /\ Mine(s) /\ Answered(s, "generateWireGuardKeys")
  /\ IF calls[s].outcome # "ok" /\ calls[s].arg = "cli"
     THEN AwaitNext(s, "generateWireGuardKeys", "crypto") /\ UNCHANGED ui
     ELSE /\ ui' = IF calls[s].outcome = "ok"
                   THEN [ui EXCEPT !.pub = "new", !.priv = "new",
                                   !.generating = FALSE]
                   ELSE [ui EXCEPT !.generating = FALSE]
          /\ Finish(s)
  /\ UNCHANGED <<screen, db>>

FormGeneratePsk ==
  /\ FormPskEnabled
  /\ ui' = [ui EXCEPT !.generatingPsk = TRUE]
  /\ Await("generateWireGuardPresharedKey", Nobody)
  /\ UNCHANGED <<screen, db>>

FormPskGenerated(s) ==
  /\ screen = "deviceForm" /\ Mine(s) /\ Answered(s, "generateWireGuardPresharedKey")
  /\ ui' = [ui EXCEPT !.generatingPsk = FALSE,
                      !.psk = @ \/ calls[s].outcome = "ok"]
  /\ Finish(s)
  /\ UNCHANGED <<screen, db>>

\* The key of the device the form is open for when the button is clicked.
FormLoad ==
  /\ FormLoadEnabled /\ ui.device # Nobody
  /\ ui' = [ui EXCEPT !.loadingKey = TRUE]
  /\ Await("getAdminDeviceConfig", [id |-> ui.device])
  /\ UNCHANGED <<screen, db>>

FormLoaded(s) ==
  /\ screen = "deviceForm" /\ Mine(s) /\ Answered(s, "getAdminDeviceConfig")
  /\ ui' = IF calls[s].outcome = "ok"
           THEN [ui EXCEPT !.priv = calls[s].data, !.loadingKey = FALSE]
           ELSE [ui EXCEPT !.loadingKey = FALSE]
  /\ Finish(s)
  /\ UNCHANGED <<screen, db>>

-----------------------------------------------------------------------------
FormSubmit ==
  /\ FormSubmitEnabled /\ FormSchema
  /\ ui' = [ui EXCEPT !.submitting = TRUE]
  /\ IF ui.mode = "create"
     THEN Await("createDevice", [id |-> Nobody, pub |-> ui.pub, priv |-> ui.priv])
     ELSE Await("updateDevice", [id |-> ui.device, pub |-> ui.pub, priv |-> ui.priv])
  /\ UNCHANGED <<screen, db>>

\* After a success the host fetches anew, which mounts another form; after a
\* failure the form is as it was.
FormSubmitted(s) ==
  /\ screen = "deviceForm" /\ Mine(s)
  /\ Answered(s, "createDevice") \/ Answered(s, "updateDevice")
  /\ IF calls[s].outcome = "ok"
     THEN /\ ui' = FormFresh(ui.mode)
          /\ calls' = [t \in Slots |->
                         IF t = s THEN Idle ELSE Orphaned(calls[t])]
     ELSE /\ ui' = [ui EXCEPT !.submitting = FALSE]
          /\ Finish(s)
  /\ UNCHANGED <<screen, db>>

-----------------------------------------------------------------------------
FormStep ==
  \/ FormMount \/ FormOpenCreate \/ FormClose
  \/ \E i \in Items : FormOpenEdit(i)
  \/ FormGenerate \/ FormGeneratePsk \/ FormLoad \/ FormSubmit

FormHandle(s) ==
  \/ FormGenerated(s) \/ FormPskGenerated(s) \/ FormLoaded(s)
  \/ FormSubmitted(s)
=============================================================================
