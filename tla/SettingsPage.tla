---------------------------- MODULE SettingsPage ----------------------------
(***************************************************************************)
(* The settings page (app/settings/page.tsx) and the card on it that is    *)
(* connected to the backend (security-configuration-card.tsx): the numeric *)
(* fields, "limits", and the trusted proxies with their editable list.     *)
(* The page fetches the settings; the card copies them when it is mounted  *)
(* and again only from the answer of its own update.                       *)
(*                                                                         *)
(* `loading' of the page is never set to false.  It matters only while     *)
(* there are no settings: a first fetch that fails leaves the page loading *)
(* for ever, and Try Again is not offered.                                 *)
(*                                                                         *)
(* `uncertain' is not in the code, as in NetworksPage.                     *)
(***************************************************************************)
EXTENDS Screen

Fields   == {"limits", "proxies"}
MaxValue == 1          \* bound: values of a field told apart
Rejected == MaxValue + 1   \* a value the backend turns down

NoCard == [mounted |-> FALSE]

\* useState(initialSettings): a copy of what the page holds at that moment.
SettingsCard(settings) ==
  [mounted |-> TRUE, values |-> settings, isSaving |-> FALSE,
   editing |-> FALSE]

SettingsFresh ==
  [mounted |-> TRUE, settings |-> Nobody, error |-> FALSE, card |-> NoCard,
   uncertain |-> ~Quiet]

SettingsShown   == screen = "settings" /\ ui # Unmounted
SettingsLoading == SettingsShown /\ ui.settings = Nobody
CardShown       == SettingsShown /\ ui.card # NoCard
SettingsFailed  == SettingsShown /\ ui.error /\ ui.settings # Nobody
SaveEnabled     == CardShown /\ ~ui.card.isSaving

\* handleSave: only the fields whose value is not the page's.
Changed     == {f \in Fields : ui.card.values[f] # ui.settings[f]}
SavePayload == [f \in Changed |-> ui.card.values[f]]

SettingsServer(s) ==
  LET update == calls[s].arg.fields
      merged == [f \in Fields |-> IF f \in DOMAIN update THEN update[f] ELSE db[f]]
  IN
  CASE calls[s].op = "getOperationalSettings" -> ListReply
    [] calls[s].op = "updateOperationalSettings" ->
         IF \E f \in DOMAIN update : update[f] = Rejected
         THEN {Reply(db, "invalid", Nobody)}
         ELSE {Reply(merged, "ok", merged)}

-----------------------------------------------------------------------------
SettingsMount ==
  /\ screen = "settings" /\ ui = Unmounted
  /\ ui' = SettingsFresh
  /\ Await("getOperationalSettings", Nobody)
  /\ UNCHANGED <<screen, db>>

\* The card gives way to an error, and with it the state of its handlers.
CardLeft(c) ==
  IF c.op = "updateOperationalSettings" THEN [c EXCEPT !.arg.alive = FALSE] ELSE c

\* refreshSettings: an answer mounts the card, unless an error is up.
SettingsFetched(s) ==
  /\ SettingsShown /\ Mine(s) /\ Answered(s, "getOperationalSettings")
  /\ IF calls[s].outcome = "ok"
     THEN /\ ui' = [ui EXCEPT !.settings = calls[s].data,
                              !.card = IF ui.card = NoCard /\ ~ui.error
                                       THEN SettingsCard(calls[s].data) ELSE @]
          /\ Finish(s)
     ELSE /\ ui' = [ui EXCEPT !.error = TRUE, !.card = NoCard, !.uncertain = TRUE]
          /\ calls' = [t \in Slots |-> IF t = s THEN Idle ELSE CardLeft(calls[t])]
  /\ UNCHANGED <<screen, db>>

\* Try Again puts the card back, with the settings from before.
SettingsTryAgain ==
  /\ SettingsFailed
  /\ ui' = [ui EXCEPT !.error = FALSE, !.card = SettingsCard(ui.settings),
                      !.uncertain = ~Quiet]
  /\ Await("getOperationalSettings", Nobody)
  /\ UNCHANGED <<screen, db>>

-----------------------------------------------------------------------------
\* The number inputs, disabled while saving.
EditLimit(v) ==
  /\ SaveEnabled /\ v # ui.card.values["limits"]
  /\ ui' = [ui EXCEPT !.card.values["limits"] = v]
  /\ UNCHANGED <<screen, calls, db>>

\* The editable list: an entry is added or removed at once, or edited and
\* then saved or dropped.
ProxiesChange(v) ==
  /\ SaveEnabled /\ v # ui.card.values["proxies"]
  /\ ui' = [ui EXCEPT !.card.values["proxies"] = v]
  /\ UNCHANGED <<screen, calls, db>>

ProxiesEdit ==
  /\ SaveEnabled
  /\ ui' = [ui EXCEPT !.card.editing = TRUE]
  /\ UNCHANGED <<screen, calls, db>>

ProxiesSaveEdit(v) ==
  /\ SaveEnabled /\ ui.card.editing
  /\ ui' = [ui EXCEPT !.card.values["proxies"] = v, !.card.editing = FALSE]
  /\ UNCHANGED <<screen, calls, db>>

ProxiesCancelEdit ==
  /\ SaveEnabled /\ ui.card.editing
  /\ ui' = [ui EXCEPT !.card.editing = FALSE]
  /\ UNCHANGED <<screen, calls, db>>

\* handleSave with nothing changed says so and is done.
SettingsSave ==
  /\ SaveEnabled /\ Changed # {}
  /\ ui' = [ui EXCEPT !.card.isSaving = TRUE]
  /\ Await("updateOperationalSettings", [fields |-> SavePayload, alive |-> TRUE])
  /\ UNCHANGED <<screen, db>>

\* The numbers come from the answer, the proxies stay as they are.  onSave
\* fetches the settings, be the card that saved still there or not.
SettingsSaved(s) ==
  /\ SettingsShown /\ Mine(s) /\ Answered(s, "updateOperationalSettings")
  /\ calls[s].outcome = "ok"
  /\ ui' = IF calls[s].arg.alive
           THEN [ui EXCEPT !.card.values["limits"] = calls[s].data["limits"],
                           !.card.isSaving = FALSE,
                           !.uncertain = Others(s)]
           ELSE [ui EXCEPT !.uncertain = Others(s)]
  /\ AwaitNext(s, "getOperationalSettings", Nobody)
  /\ UNCHANGED <<screen, db>>

SettingsNotSaved(s) ==
  /\ SettingsShown /\ Mine(s) /\ Answered(s, "updateOperationalSettings")
  /\ calls[s].outcome # "ok"
  /\ ui' = IF calls[s].arg.alive
           THEN [ui EXCEPT !.card.isSaving = FALSE, !.uncertain = TRUE]
           ELSE [ui EXCEPT !.uncertain = TRUE]
  /\ Finish(s)
  /\ UNCHANGED <<screen, db>>

SettingsStep ==
  \/ SettingsMount \/ SettingsTryAgain \/ SettingsSave
  \/ ProxiesEdit \/ ProxiesCancelEdit
  \/ \E v \in 0..Rejected : EditLimit(v) \/ ProxiesChange(v) \/ ProxiesSaveEdit(v)

SettingsHandle(s) ==
  \/ SettingsFetched(s) \/ SettingsSaved(s) \/ SettingsNotSaved(s)
=============================================================================
