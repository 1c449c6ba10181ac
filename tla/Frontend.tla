------------------------------- MODULE Frontend -------------------------------
(***************************************************************************)
(* The web frontend: one of its pages at a time, with the calls the page   *)
(* has in flight, the backend that answers them and a network that loses   *)
(* answers.  The pages share no React state, so a behaviour stays with one *)
(* of them, which may be left and entered again.  Screen "session" is the  *)
(* provider around all pages, and "client" one call of the API client.     *)
(***************************************************************************)
EXTENDS NetworksPage, NetworkLocations, NetworkDevices, DevicesPage,
        DeviceForm, DevicePage, PeerLinks, RotationPage, AuditPage,
        SettingsPage, SmallPages, UnlockProvider, ApiClient

CONSTANT Screens   \* the screens a behaviour may be about

SmallScreens == {"dashboard", "networkEdit", "deviceEdit", "export", "networkExport"}

\* What the backend holds when the browser opens the page.
Stored(here) ==
  CASE here \in {"networks", "locations"} -> {{}, Items}
    [] here = "devices"     -> {{}, Devices}
    [] here = "fleet"       -> {[i \in Items |-> age] : age \in {0, 1}}
    [] here = "deviceForm"  -> {[i \in Items |-> Nobody], [i \in Items |-> i]}
    [] here = "connections" -> {[i \in Items |-> n] : n \in 0..MaxProperties}
    [] here = "rotation"    -> {[password |-> 0, session |-> FALSE]}
    [] here = "settings"    -> {[f \in Fields |-> 0]}
    [] here = "session"     -> {[open |-> b, sessions |-> {}, issued |-> 0] :
                                  b \in BOOLEAN}
    [] here \in {"network", "device", "audit", "client"} \cup SmallScreens -> {0}

\* Only screen "client" has a call of the API client to look at.
NoClientCall ==
  /\ op = "getHealth" /\ phase = "ended" /\ retryCount = 0
  /\ retryOnCsrf = "yes" /\ retryOnNetwork = "yes"
  /\ reply = "none" /\ outcome = "none" /\ performed = 0

FrontendInit ==
  /\ screen \in Screens
  /\ db \in Stored(screen)
  /\ ui = Unmounted
  /\ calls = [s \in Slots |-> Idle]
  /\ IF screen = "client" THEN ClientInit ELSE NoClientCall

-----------------------------------------------------------------------------
\* What the backend may do with a call, by the page that made it.
Replied(s) ==
  CASE screen = "networks"      -> NetworksServer(s)
    [] screen = "locations"     -> LocationsServer(s)
    [] screen = "devices"       -> DevicesServer(s)
    [] screen = "network"       -> LintServer(s)
    [] screen = "fleet"         -> FleetServer(s)
    [] screen = "deviceForm"    -> FormServer(s)
    [] screen = "device"        -> DeviceServer(s)
    [] screen = "connections"   -> LinksServer(s)
    [] screen = "rotation"      -> RotationServer(s)
    [] screen = "audit"         -> AuditServer(s)
    [] screen = "settings"      -> SettingsServer(s)
    [] screen = "session"       -> SessionServer(s)
    [] screen \in SmallScreens  -> SmallServer(s)

\* How a call fails without having been performed, as far as the handler
\* that awaits it tells one failure from another.
Refusals(s) ==
  CASE calls[s].op \in {"listNetworks", "getAuditStatistics"} -> {"failed", "unauthorized"}
    [] calls[s].op = "updateDevice" /\ screen = "devices" -> {"failed", "locked"}
    [] OTHER -> {"failed"}

BackendAnswers(s) ==
  Waiting(s) /\ (Perform(s, Replied(s)) \/ Refuse(s, Refusals(s)))

AnswerLost(s) == Waiting(s) /\ LoseAnswer(s, Replied(s))

\* The provider's belief changes or the user goes elsewhere.  The provider
\* itself stays, and the rotation page leaves in its own way.
Leave == screen \notin {"session", "rotation"} /\ Unmount

\* The steps of the user and of the timers, and the handlers that go on.
PageStep ==
  \/ screen = "networks"    /\ NetworksStep
  \/ screen = "locations"   /\ LocationsStep
  \/ screen = "devices"     /\ DevicesStep
  \/ screen = "network"     /\ LintStep
  \/ screen = "fleet"       /\ FleetStep
  \/ screen = "deviceForm"  /\ FormStep
  \/ screen = "device"      /\ DeviceStep
  \/ screen = "connections" /\ LinksStep
  \/ screen = "rotation"    /\ RotationStep
  \/ screen = "audit"       /\ AuditStep
  \/ screen = "settings"    /\ SettingsStep
  \/ screen = "session"     /\ SessionStep
  \/ screen \in SmallScreens /\ SmallStep

PageHandle(s) ==
  \/ screen = "networks"    /\ NetworksHandle(s)
  \/ screen = "locations"   /\ LocationsHandle(s)
  \/ screen = "devices"     /\ DevicesHandle(s)
  \/ screen = "network"     /\ LintHandle(s)
  \/ screen = "fleet"       /\ FleetHandle(s)
  \/ screen = "deviceForm"  /\ FormHandle(s)
  \/ screen = "device"      /\ DeviceHandle(s)
  \/ screen = "connections" /\ LinksHandle(s)
  \/ screen = "rotation"    /\ RotationHandle(s)
  \/ screen = "audit"       /\ AuditHandle(s)
  \/ screen = "settings"    /\ SettingsHandle(s)
  \/ screen = "session"     /\ SessionHandle(s)
  \/ screen \in SmallScreens /\ SmallHandle(s)

PageNext ==
  \/ PageStep \/ Leave
  \/ \E s \in Slots : PageHandle(s) \/ BackendAnswers(s) \/ AnswerLost(s)

allVars == <<vars, clientVars>>

FrontendNext ==
  \/ screen # "client" /\ PageNext /\ UNCHANGED clientVars
  \/ screen = "client" /\ ClientNext /\ UNCHANGED vars

FrontendSpec == FrontendInit /\ [][FrontendNext]_allVars

\* A call is answered or fails, the browser runs the handler that waits for
\* the answer, and its timers fire.  An answer need not be lost and nobody
\* need click.  The poll gets a strong fairness because the bound on calls
\* in flight, which the browser does not have, may disable it now and then.
FrontendFairness ==
  /\ \A s \in Slots : /\ WF_allVars(PageHandle(s) /\ UNCHANGED clientVars)
                      /\ WF_allVars(BackendAnswers(s) /\ UNCHANGED clientVars)
  /\ SF_allVars(SessionPoll /\ UNCHANGED clientVars)
  /\ WF_allVars(ClientStep /\ UNCHANGED vars)
  /\ WF_allVars(BackendAttempt /\ UNCHANGED vars)

FairFrontendSpec == FrontendSpec /\ FrontendFairness

-----------------------------------------------------------------------------
\* The calls in flight are calls of the client, answered as it answers.
FrontendTypeOK ==
  /\ screen \in Screens
  /\ ui # Unmounted => ui.mounted
  /\ \A s \in Slots : Busy(s) =>
       /\ calls[s].op \in DOMAIN Method
       /\ calls[s].mine \in BOOLEAN /\ calls[s].done \in BOOLEAN
       /\ calls[s].outcome \in {"none", "ok"} \cup Failures
       /\ calls[s].done => Repeats(calls[s].op)
  /\ ClientTypeOK

\* The calls that change a record the page shows.
RecordWrites ==
  {"createNetwork", "updateNetwork", "deleteNetwork",
   "createLocation", "updateLocation", "deleteLocation",
   "createDevice", "updateDevice", "updateOperationalSettings"}

OfMountedPart(s) ==
  /\ calls[s].mine
  /\ "alive" \in DOMAIN calls[s].arg => calls[s].arg.alive

\* On a page whose writes share one isSubmitting flag there is never a
\* second write under way: not by a double click, not through another
\* dialog, not after a dialog was dismissed with its request in flight
\* (isSubmitting in networks/page.tsx, network-locations.tsx and the forms).
OneWriteAtATime ==
  screen \in {"networks", "locations", "deviceForm", "settings",
              "networkEdit", "deviceEdit"} =>
    Cardinality({s \in Slots : calls[s].op \in RecordWrites /\ OfMountedPart(s)}) <= 1

\* An update is sent with the data of the record it is for: the form and the
\* selection, two variables each handler reads at submit, never come from
\* two records (openEditModal and handleUpdate of networks and locations).
WritesOwnRecord ==
  screen \in {"networks", "locations"} =>
    \A s \in Slots : calls[s].op \in {"updateNetwork", "updateLocation"} =>
                       calls[s].arg.id = calls[s].arg.of

\* When nothing is in flight, the page is not loading and reports no error,
\* then what it shows is what the backend holds.  Excepted is a page that was
\* told of a failure since its last fetch, or fetched while another call was
\* in flight: that one cannot know (`uncertain').
RowsFollowWrites ==
  Quiet /\ ui # Unmounted =>
    /\ NetworksShown /\ ~ui.loading /\ ~ui.fetchError /\ ~ui.uncertain => ui.rows = db
    /\ LocationsShown /\ ~ui.child.loading /\ ~ui.child.fetchError
         /\ ~ui.child.uncertain => ui.child.rows = db
    /\ DevicesShown /\ ~ui.child.loading /\ ~ui.child.fetchError
         /\ ~ui.child.uncertain /\ ~ui.child.due => ui.child.rows = db /\ ui.child.fitting
    /\ FleetShown /\ ui.page = "shown" /\ ~ui.uncertain => ui.rows = Existing
    /\ LinksShown /\ ui.page = "shown" /\ ~ui.uncertain => ui.links = db
    /\ SettingsShown /\ ~SettingsLoading /\ ~ui.error /\ ~ui.uncertain => ui.settings = db

\* The lint results on the page of a network are those of its configuration
\* as it is, once all is quiet, if no two lints ran together (the effect of
\* use-config-lint.ts on the network that reload hands it).
LintIsCurrent ==
  Quiet /\ LintShown /\ ui.page = "shown" /\ ~ui.overlapped => ui.lint = db

\* The API key on display works, and is that of the device it is displayed
\* for: it is shown once, and a stale one would lock the device out (the API
\* key dialogs of devices/page.tsx and of devices/[deviceId]/page.tsx).
KeyShownIsInForce ==
  /\ FleetDialog("apiKey") /\ ~ui.crossed =>
       /\ ui.newApiKey.device = ui.selected
       /\ ui.newApiKey.key = db[ui.selected]
  /\ Quiet /\ ApiKeyShown /\ ~ui.uncertain => ui.apiKey = db

\* However the answers of Generate, Load Private Key and Submit interleave
\* with closing the form and opening it for another device, a device never
\* ends up with the key pair of another (device-form.tsx, update_device).
DevicesKeepTheirKeys ==
  screen = "deviceForm" => \A i \in Items : db[i] \in {i, "new", Nobody}

\* A rotation that took effect never goes unnoticed: the page has been
\* locked out, or it has reported a failure (executeRotation).
RotationIsNoticed ==
  Quiet /\ RotationShown /\ ~ui.uncertain => db.password = ui.since

\* When all is quiet the audit page shows the events its filters ask for,
\* unless fetches overlapped (refreshAuditEvents and the effect that runs it
\* for every change of the filters).
AuditMatchesFilters ==
  Quiet /\ AuditContent /\ ~ui.overlapped => ui.auditData = ui.filters

\* When all is quiet the provider believes what its session can do, unless
\* the backend changed since it last asked (refreshStatus).
SessionAgrees ==
  Quiet /\ SessionShown /\ ~ui.uncertain =>
    (ui.isUnlocked <=> db.open /\ ui.token \in db.sessions \cup {0})

-----------------------------------------------------------------------------
\* The ways a page shows that it is waiting.
Signs == {"page", "preview", "button", "export"}

ShowsWaiting(sign) ==
  CASE sign = "page" ->
         \/ DeviceShown /\ ui.page = "loading"
         \/ screen \in SmallScreens /\ ui # Unmounted /\ ui.page = "loading"
         \/ AuditShown /\ ui.loading
    [] sign = "preview" -> DeviceShown /\ ui.preview.loading
    [] sign = "button" ->
         \/ DeviceShown /\ ui.regenerating
         \/ screen \in SmallScreens /\ ui # Unmounted /\ ui.submitting
         \/ SessionShown /\ ui.unlocking
    [] sign = "export" -> AuditShown /\ ui.exporting

\* No skeleton, spinner or disabled button stays for ever: each flag is
\* cleared on every path of the handler that set it (the finally blocks).
WaitingEnds == \A sign \in Signs : ShowsWaiting(sign) ~> ~ShowsWaiting(sign)

\* A lock that lasts is noticed, if need be by the poll, however late and in
\* whatever order the answers come (the effects of unlock-context.tsx).
LockedIsNoticed ==
  <>[](screen = "session" /\ ~db.open) => <>[](SessionShown => ~ui.isUnlocked)

\* request() always comes to an end, with an answer or an error.
ClientEnds == <>(phase = "ended")
=============================================================================
