----------------------------- MODULE CallProofs -----------------------------
(***************************************************************************)
(* The calls: what one call of the API client guarantees, for every number *)
(* of retries, and that the calls the pages have in flight are such calls  *)
(* (FrontendTypes).                                                        *)
(***************************************************************************)
EXTENDS RowsProofs

(***************************************************************************)
(* One call that is not repeatable is performed at most once, every call   *)
(* gives up, and the call is what RemoteCall promises the pages.           *)
(*                                                                         *)
(* The attempts counted by retryCount are what bounds the effects: each    *)
(* attempt that has ended performed the call at most once, and a call that *)
(* is not repeatable goes on only after an attempt that the backend turned *)
(* away before it performed anything.  AttemptsCount says both.            *)
(***************************************************************************)

\* How many attempts have been made so far.
Attempts == IF phase \in {"ready", "sent", "refreshing"} THEN retryCount
            ELSE retryCount + 1

\* No attempt beyond the retries, except one for the CSRF token; no effect
\* without an attempt; and none at all, for a call that is not repeatable, as
\* long as another attempt can follow.
AttemptsCount ==
  /\ retryOnCsrf = "yes" => retryCount <= MaxRetries
  /\ retryOnCsrf = "no"  => retryCount <= MaxRetries + 1
  /\ performed <= Attempts
  /\ ~Repeats(op) => performed <= 1
  /\ ~Repeats(op) /\ phase \in {"ready", "sent", "refreshing"} => performed = 0
  /\ ~Repeats(op) /\ phase = "replied"
       /\ reply \in {"csrf", "rateLimit", "rejected"} => performed = 0
  /\ phase # "ended" => outcome = "none"
  /\ phase = "replied" => reply # "none"
  /\ phase = "replied" /\ reply = "ok" => performed > 0

ClientInv == ClientTypeOK /\ AttemptsCount

-----------------------------------------------------------------------------
LEMMA InitEstablishes == ClientInit => ClientInv
  BY RetriesAssumption
     DEF ClientInit, ClientInv, ClientTypeOK, AttemptsCount, Attempts,
         Phases, Replies, Outcomes

\* The client makes or gives up an attempt.
LEMMA StepPreserves ==
  ASSUME ClientInv, ClientStep
  PROVE  ClientInv'
<1> USE RetriesAssumption
        DEF ClientInv, ClientTypeOK, AttemptsCount, Attempts,
            Phases, Replies, Outcomes, Repeats
<1>1. CASE SendAttempt
  BY <1>1 DEF SendAttempt
<1>2. CASE TokenUnavailable
  BY <1>2 DEF TokenUnavailable, End
<1>3. CASE NetworkFailed
  BY <1>3 DEF NetworkFailed, RetryNetwork, Again
<1>4. CASE ServerBusy
  BY <1>4 DEF ServerBusy, RetryBusy, Again
<1>5. CASE CsrfFailed
  BY <1>5 DEF CsrfFailed, RetryCsrf, Again
<1>6. CASE TokenRefreshed
  BY <1>6 DEF TokenRefreshed
<1>7. CASE Throw
  BY <1>7 DEF Throw, End
<1>8. CASE Return
  BY <1>8 DEF Return, End
<1> QED
  BY <1>1, <1>2, <1>3, <1>4, <1>5, <1>6, <1>7, <1>8 DEF ClientStep

\* The backend answers an attempt, having performed the call or not.
LEMMA BackendPreserves ==
  ASSUME ClientInv, BackendAttempt
  PROVE  ClientInv'
<1> USE RetriesAssumption
        DEF ClientInv, ClientTypeOK, AttemptsCount, Attempts,
            Phases, Replies, Outcomes, Repeats
<1>1. CASE TurnAway
  BY <1>1 DEF TurnAway
<1>2. CASE PerformAttempt
  BY <1>2 DEF PerformAttempt
<1> QED
  BY <1>1, <1>2 DEF BackendAttempt

LEMMA StutterPreserves ==
  ASSUME ClientInv, UNCHANGED clientVars
  PROVE  ClientInv'
  BY DEF ClientInv, ClientTypeOK, AttemptsCount, Attempts, clientVars, Repeats

\* The inductive invariant holds in every behaviour of a call.
THEOREM ClientInvariant == ClientSpec => []ClientInv
<1>1. ClientInit => ClientInv
  BY InitEstablishes
<1>2. ClientInv /\ [ClientNext]_clientVars => ClientInv'
  BY StepPreserves, BackendPreserves, StutterPreserves DEF ClientNext
<1> QED
  BY <1>1, <1>2, PTL DEF ClientSpec

-----------------------------------------------------------------------------
\* The variables of request() have the values its parameters allow, for any
\* number of retries.
THEOREM ClientTypes == ClientSpec => []ClientTypeOK
<1>1. ClientInv => ClientTypeOK
  BY DEF ClientInv
<1> QED
  BY <1>1, ClientInvariant, PTL

\* One click creates at most one network and issues at most one key: a POST
\* is performed at most once (isIdempotent in request()).
THEOREM PostsOnce == ClientSpec => []ClientPostsOnce
<1>1. ClientInv => ClientPostsOnce
  BY DEF ClientInv, AttemptsCount, ClientPostsOnce
<1> QED
  BY <1>1, ClientInvariant, PTL

\* The number of attempts is bounded by maxRetries (retryCount in request()).
THEOREM GivesUp == ClientSpec => []ClientGivesUp
<1>1. ClientInv => ClientGivesUp
  BY RetriesAssumption
     DEF ClientInv, ClientTypeOK, AttemptsCount, Attempts, ClientGivesUp
<1> QED
  BY <1>1, ClientInvariant, PTL

-----------------------------------------------------------------------------
(***************************************************************************)
(* The refinement.  The outcome that RemoteCall speaks of is settled by    *)
(* the reply to the last attempt, before request() has ended: the backend  *)
(* takes the steps of RemoteCall, and most steps of the client are none.   *)
(***************************************************************************)

LEMMA InitRefines == ClientInit => Call!CallInit
  BY DEF ClientInit, Call!CallInit, Fate

\* A step of the client ends the call with a failure, or changes nothing that
\* the page can see.
LEMMA ClientStepRefines ==
  ASSUME ClientInv, ClientStep
  PROVE  Call!CallNext \/ UNCHANGED Call!callVars
<1> USE DEF ClientInv, AttemptsCount, Fate, Repeats,
            Call!CallNext, Call!Refused, Call!callVars
<1>1. CASE SendAttempt
  BY <1>1 DEF SendAttempt
<1>2. CASE TokenUnavailable
  BY <1>2 DEF TokenUnavailable, End
<1>3. CASE NetworkFailed
  BY <1>3 DEF NetworkFailed, RetryNetwork, Again
<1>4. CASE ServerBusy
  BY <1>4 DEF ServerBusy, RetryBusy, Again
<1>5. CASE CsrfFailed
  BY <1>5 DEF CsrfFailed, RetryCsrf, Again
<1>6. CASE TokenRefreshed
  BY <1>6 DEF TokenRefreshed
<1>7. CASE Throw
  BY <1>7 DEF Throw, End
<1>8. CASE Return
  BY <1>8 DEF Return, End
<1> QED
  BY <1>1, <1>2, <1>3, <1>4, <1>5, <1>6, <1>7, <1>8 DEF ClientStep

\* A step of the backend performs the call or turns it away.
LEMMA BackendStepRefines ==
  ASSUME ClientInv, BackendAttempt
  PROVE  Call!CallNext \/ UNCHANGED Call!callVars
<1> USE DEF ClientInv, AttemptsCount, Fate, Repeats,
            Call!CallNext, Call!callVars
<1>1. CASE TurnAway
  BY <1>1 DEF TurnAway, Call!Refused
<1>2. CASE PerformAttempt
  BY <1>2 DEF PerformAttempt, Call!Performed, Call!AnswerLost
<1> QED
  BY <1>1, <1>2 DEF BackendAttempt

LEMMA StutterRefines ==
  ASSUME UNCHANGED clientVars
  PROVE  UNCHANGED Call!callVars
  BY DEF clientVars, Call!callVars, Fate, Repeats

\* For any number of retries request() keeps what RemoteCall promises: the
\* outcome is settled once, a success means that the backend performed the
\* call, and a POST is performed at most once.
THEOREM ClientRefines == ClientSpec => ClientImplementsCall
<1>1. ClientInit => Call!CallInit
  BY InitRefines
<1>2. ClientInv /\ [ClientNext]_clientVars => [Call!CallNext]_(Call!callVars)
  BY ClientStepRefines, BackendStepRefines, StutterRefines DEF ClientNext
<1> QED
  BY <1>1, <1>2, ClientInvariant, PTL
     DEF ClientSpec, ClientImplementsCall, Call!CallSpec

-----------------------------------------------------------------------------
(***************************************************************************)
(* The types (FrontendTypeOK).  What the backend may answer depends on the *)
(* call, so each page is given the calls it makes (PageOps).               *)
(***************************************************************************)

NetworksOps  == {"listNetworks", "createNetwork", "updateNetwork", "deleteNetwork"}
LocationsOps == {"getNetwork", "listLocations", "createLocation", "updateLocation",
                 "deleteLocation"}
DevicesOps   == {"getNetwork", "listDevices", "createDevice", "updateDevice",
                 "deleteDevice", "regenerateDeviceApiKey", "regenerateDeviceKeys"}
LintOps      == {"getNetwork", "listDevices", "lintNetworkConfig"}
LinksOps     == {"listDevicePeerLinks"} \cup LinkWriteOps
AuditOps     == {"getAuditEvents", "exportAuditEvents"}
SettingsOps  == {"getOperationalSettings", "updateOperationalSettings"}
SmallOps     == {"getAuditStatistics", "getHealth", "getNetwork", "getDevice",
                 "generateWireGuardPresharedKey", "updateNetwork", "updateDevice",
                 "exportNetworks", "downloadExport", "downloadNetworkConfigs"}

PageOps(here) ==
  CASE here = "networks"     -> NetworksOps
    [] here = "locations"    -> LocationsOps
    [] here = "devices"      -> DevicesOps
    [] here = "network"      -> LintOps
    [] here = "fleet"        -> FleetOps \ {"idle"}
    [] here = "deviceForm"   -> FormOps \ {"idle"}
    [] here = "device"       -> DeviceOps \ {"idle"}
    [] here = "connections"  -> LinksOps
    [] here = "rotation"     -> RotationOps
    [] here = "audit"        -> AuditOps
    [] here = "settings"     -> SettingsOps
    [] here = "session"      -> SessionOps
    [] here \in SmallScreens -> SmallOps
    [] here = "client"       -> {}

Endings == {"none", "ok"} \cup Failures

CallTyped(here, c) ==
  /\ CallFields \subseteq DOMAIN c
  /\ c.op \in PageOps(here) /\ c.op # "idle"
  /\ c.mine \in BOOLEAN /\ c.done \in BOOLEAN
  /\ c.outcome \in Endings
  /\ c.done => Repeats(c.op)

CallsTyped ==
  /\ DOMAIN calls = Slots
  /\ \A s \in Slots : calls[s] = Idle \/ CallTyped(screen, calls[s])

UiTyped == ui # Unmounted => "mounted" \in DOMAIN ui /\ ui.mounted = TRUE

AllScreens == {"networks", "locations", "devices", "network", "fleet", "deviceForm",
               "device", "connections", "rotation", "audit", "settings", "session",
               "client"} \cup SmallScreens

\* Which page makes which calls.
LEMMA OpsOf ==
  /\ PageOps("networks") = NetworksOps
  /\ PageOps("locations") = LocationsOps
  /\ PageOps("devices") = DevicesOps
  /\ PageOps("network") = LintOps
  /\ PageOps("fleet") = FleetOps \ {"idle"}
  /\ PageOps("deviceForm") = FormOps \ {"idle"}
  /\ PageOps("device") = DeviceOps \ {"idle"}
  /\ PageOps("connections") = LinksOps
  /\ PageOps("rotation") = RotationOps
  /\ PageOps("audit") = AuditOps
  /\ PageOps("settings") = SettingsOps
  /\ PageOps("session") = SessionOps
  /\ PageOps("client") = {}
  /\ \A here \in SmallScreens : PageOps(here) = SmallOps
  BY DEF PageOps, SmallScreens

LEMMA KnownOps ==
  ASSUME NEW here \in AllScreens
  PROVE  /\ PageOps(here) \subseteq DOMAIN Method
         /\ "idle" \notin PageOps(here)
<1> DEFINE Calls == DOMAIN NetworkCalls \cup DOMAIN LocationCalls \cup DOMAIN DeviceCalls
                      \cup DOMAIN ConfigAndKeyCalls \cup DOMAIN ExportAndAuditCalls
                      \cup DOMAIN RotationCalls \cup DOMAIN SessionAndSettingsCalls
           Known(ops) == ops \subseteq DOMAIN Method /\ "idle" \notin ops
<1>1. Calls = DOMAIN Method
  BY DEF Method, Merged
<1>2. Known(NetworksOps)
  BY <1>1 DEF NetworksOps, NetworkCalls
<1>3. Known(LocationsOps)
  BY <1>1 DEF LocationsOps, NetworkCalls, LocationCalls
<1>4. Known(DevicesOps)
  BY <1>1 DEF DevicesOps, NetworkCalls, DeviceCalls, ConfigAndKeyCalls
<1>5. Known(LintOps)
  BY <1>1 DEF LintOps, NetworkCalls, DeviceCalls, SessionAndSettingsCalls
<1>6. Known(FleetOps \ {"idle"})
  BY <1>1 DEF FleetOps, RegenerateOps, DeviceCalls, ConfigAndKeyCalls
<1>7. Known(FormOps \ {"idle"})
  BY <1>1 DEF FormOps, DeviceCalls, ConfigAndKeyCalls
<1>8. Known(DeviceOps \ {"idle"})
  BY <1>1 DEF DeviceOps, DeviceCalls, ConfigAndKeyCalls
<1>9. Known(LinksOps)
  BY <1>1 DEF LinksOps, LinkWriteOps, DeviceCalls
<1>10. Known(RotationOps)
  BY <1>1 DEF RotationOps, RotationCalls
<1>11. Known(AuditOps)
  BY <1>1 DEF AuditOps, ExportAndAuditCalls
<1>12. Known(SettingsOps)
  BY <1>1 DEF SettingsOps, SessionAndSettingsCalls
<1>13. Known(SessionOps)
  BY <1>1 DEF SessionOps, RefreshOps, ChangeOps, SessionAndSettingsCalls
<1>14. Known(SmallOps)
  BY <1>1 DEF SmallOps, NetworkCalls, DeviceCalls, ConfigAndKeyCalls, ExportAndAuditCalls
<1> QED
  BY <1>2, <1>3, <1>4, <1>5, <1>6, <1>7, <1>8, <1>9, <1>10, <1>11, <1>12, <1>13, <1>14, OpsOf DEF AllScreens

LEMMA TypedIsOK ==
  ASSUME CallsTyped
  PROVE  CallsOK
  BY DEF CallsTyped, CallTyped, CallsOK, Busy, Idle

LEMMA AwaitTyped ==
  ASSUME CallsTyped, screen' = screen, screen \in AllScreens,
         NEW op_ \in PageOps(screen), NEW arg, Await(op_, arg)
  PROVE  CallsTyped'
<1>0. op_ # "idle"
  BY KnownOps
<1>1. /\ CallsOK'
      /\ \E s \in Slots : /\ calls'[s] = NewCall(op_, arg)
                          /\ \A t \in Slots \ {s} : calls'[t] = calls[t]
  BY <1>0, AwaitTakesSlot, TypedIsOK
<1>2. CallTyped(screen, NewCall(op_, arg))
  BY <1>0 DEF CallTyped, NewCall, CallFields, Endings
<1> QED
  BY <1>1, <1>2 DEF CallsTyped, CallsOK

LEMMA AwaitNextTyped ==
  ASSUME CallsTyped, screen' = screen, screen \in AllScreens, NEW s \in Slots,
         NEW op_ \in PageOps(screen), NEW arg, AwaitNext(s, op_, arg)
  PROVE  CallsTyped'
<1>0. op_ # "idle"
  BY KnownOps
<1>1. /\ CallsOK' /\ calls'[s] = NewCall(op_, arg)
      /\ \A t \in Slots \ {s} : calls'[t] = calls[t]
  BY <1>0, AwaitNextReplaces, TypedIsOK
<1>2. CallTyped(screen, NewCall(op_, arg))
  BY <1>0 DEF CallTyped, NewCall, CallFields, Endings
<1> QED
  BY <1>1, <1>2 DEF CallsTyped, CallsOK

\* A call goes on or ends, whatever becomes of its argument and its page.
CallGoesOn(c, d) ==
  \/ d = Idle \/ d = c
  \/ \E a : d = [c EXCEPT !.arg = a]
  \/ \E m \in BOOLEAN : d = [c EXCEPT !.mine = m]

LEMMA GoesOnTyped ==
  ASSUME CallsTyped, NEW t \in Slots, NEW d, d # Idle, CallGoesOn(calls[t], d)
  PROVE  CallTyped(screen, d)
<1>1. CASE calls[t] = Idle
  <2>1. \A a : [Idle EXCEPT !.arg = a] = Idle
    BY DEF Idle
  <2>2. \A m : [Idle EXCEPT !.mine = m] = Idle
    BY DEF Idle
  <2> QED
    BY <1>1, <2>1, <2>2 DEF CallGoesOn
<1>2. CASE CallTyped(screen, calls[t])
  BY <1>2 DEF CallTyped, CallFields, CallGoesOn
<1> QED
  BY <1>1, <1>2 DEF CallsTyped

LEMMA FinishTyped ==
  ASSUME CallsTyped, screen' = screen, NEW s \in Slots, Finish(s)
  PROVE  CallsTyped'
  BY FinishFrees, TypedIsOK DEF CallsTyped, CallsOK

LEMMA SettleTyped ==
  ASSUME CallsTyped, screen' = screen, NEW s \in Slots, Busy(s),
         NEW o \in Failures \cup {"ok"}, NEW d, Settle(s, o, d)
  PROVE  CallsTyped'
<1>1. CASE Finish(s)
  BY <1>1, FinishTyped
<1>2. CASE calls' = [calls EXCEPT ![s].outcome = o, ![s].data = d]
  BY <1>2 DEF CallsTyped, CallTyped, CallFields, Endings, Busy, Idle
<1> QED
  BY <1>1, <1>2 DEF Settle

LEMMA AnswerTyped ==
  ASSUME CallsTyped, UiTyped, NEW s \in Slots, NEW replies, NEW outcomes,
         Waiting(s) => \A r \in replies : r.outcome \in Failures \cup {"ok"},
         outcomes \subseteq Failures,
         Perform(s, replies) \/ LoseAnswer(s, replies) \/ Refuse(s, outcomes)
  PROVE  CallsTyped' /\ UiTyped'
<1>0. ui' = ui /\ screen' = screen /\ Busy(s) /\ Waiting(s)
  BY DEF Perform, LoseAnswer, Refuse, Waiting
<1>1. CASE Perform(s, replies)
  BY <1>0, <1>1, SettleTyped DEF Perform, UiTyped
<1>2. CASE Refuse(s, outcomes)
  BY <1>0, <1>2, SettleTyped DEF Refuse, UiTyped
<1>3. CASE LoseAnswer(s, replies)
  <2>1. CASE Repeats(calls[s].op)
    <3>1. calls' = [calls EXCEPT ![s].done = TRUE]
      BY <1>3, <2>1 DEF LoseAnswer
    <3>2. CallTyped(screen, calls[s]) /\ s \in DOMAIN calls
      BY <1>0 DEF CallsTyped, Busy, Idle
    <3>3. CallTyped(screen, [calls[s] EXCEPT !.done = TRUE])
      BY <2>1, <3>2 DEF CallTyped, CallFields
    <3>4. /\ DOMAIN calls' = Slots /\ calls'[s] = [calls[s] EXCEPT !.done = TRUE]
          /\ \A t \in Slots \ {s} : calls'[t] = calls[t]
      BY <3>1, <3>2 DEF CallsTyped
    <3>5. CallsTyped'
      BY <1>0, <3>3, <3>4 DEF CallsTyped
    <3> QED
      BY <1>0, <3>5 DEF UiTyped
  <2>2. CASE ~Repeats(calls[s].op)
    BY <1>0, <1>3, <2>2, SettleTyped DEF LoseAnswer, UiTyped, Failures
  <2> QED
    BY <2>1, <2>2
<1> QED
  BY <1>1, <1>2, <1>3

\* What becomes of a call when its page goes away, or a part of it.
Gone(c) ==
  {Idle, c, Orphaned(c), Left(c), Outdated(c), CardLeft(c), Abandoned(c)}

LEMMA GoneGoesOn == \A c : \A d \in Gone(c) : CallGoesOn(c, d)
<1> SUFFICES ASSUME NEW c PROVE \A d \in Gone(c) : CallGoesOn(c, d)
  OBVIOUS
<1>1. CallGoesOn(c, Orphaned(c))
  BY DEF CallGoesOn, Orphaned
<1>2. CallGoesOn(c, [c EXCEPT !.arg = [c.arg EXCEPT !.alive = FALSE]])
  BY DEF CallGoesOn
<1>3. CallGoesOn(c, [c EXCEPT !.arg = [c.arg EXCEPT !.current = FALSE]])
  BY DEF CallGoesOn
<1>4. CallGoesOn(c, Left(c)) /\ CallGoesOn(c, CardLeft(c)) /\ CallGoesOn(c, Outdated(c))
  BY <1>2, <1>3 DEF CallGoesOn, Left, CardLeft, Outdated
<1>5. CallGoesOn(c, Abandoned(c))
  BY <1>2 DEF CallGoesOn, Abandoned
<1> QED
  BY <1>1, <1>4, <1>5 DEF CallGoesOn, Gone

\* What a handler does to the calls in flight: it sends one of its page's,
\* in a free slot or in its own, ends its own, or neither.
Sends(ops) ==
  \E o \in ops : \E arg : Await(o, arg) \/ \E s \in Slots : AwaitNext(s, o, arg)

Proceeds(ops) ==
  screen' = screen /\ (Sends(ops) \/ (\E s \in Slots : Finish(s)) \/ UNCHANGED calls)

LEMMA ProceedsTyped ==
  ASSUME CallsTyped, screen \in AllScreens, Proceeds(PageOps(screen))
  PROVE  CallsTyped'
<1>1. CASE Sends(PageOps(screen))
  <2>1. PICK o, arg : /\ o \in PageOps(screen)
                      /\ Await(o, arg) \/ \E s \in Slots : AwaitNext(s, o, arg)
    BY <1>1 DEF Sends
  <2> QED
    BY <2>1, AwaitTyped, AwaitNextTyped DEF Proceeds
<1>2. CASE \E s \in Slots : Finish(s)
  BY <1>2, FinishTyped DEF Proceeds
<1>3. CASE UNCHANGED calls
  BY <1>3 DEF Proceeds, CallsTyped
<1> QED
  BY <1>1, <1>2, <1>3 DEF Proceeds

\* Or it looks at every call: one goes on, goes away with what it was made
\* for, or gives way to a new one.
Moves(ops) ==
  /\ screen' = screen /\ DOMAIN calls' = Slots
  /\ \A t \in Slots : \/ calls'[t] \in Gone(calls[t])
                       \/ \E o \in ops : \E arg : calls'[t] = NewCall(o, arg)

LEMMA MovesTyped ==
  ASSUME CallsTyped, screen \in AllScreens, Moves(PageOps(screen))
  PROVE  CallsTyped'
<1>1. ASSUME NEW t \in Slots, calls'[t] \in Gone(calls[t]), calls'[t] # Idle
      PROVE  CallTyped(screen, calls'[t])
  <2>1. CallGoesOn(calls[t], calls'[t])
    BY <1>1, GoneGoesOn
  <2> QED
    BY <1>1, <2>1, GoesOnTyped DEF CallsTyped
<1>2. ASSUME NEW o \in PageOps(screen), NEW arg  PROVE CallTyped(screen, NewCall(o, arg))
  BY <1>2, KnownOps DEF CallTyped, NewCall, CallFields, Endings
<1> QED
  BY <1>1, <1>2 DEF Moves, CallsTyped

-----------------------------------------------------------------------------
LEMMA NetworksTyped ==
  ASSUME UiTyped, NetworksStep \/ \E s \in Slots : NetworksHandle(s)
  PROVE  Proceeds(NetworksOps) /\ UiTyped'
<1> USE DEF UiTyped, Proceeds, Sends, NetworksOps
<1>1. CASE NetworksMount
  BY <1>1 DEF NetworksMount, NetworksFresh
<1>2. CASE NetworksUnlocked \/ NetworksSearch \/ NetworksSort \/ NetworksRetry
  BY <1>2 DEF NetworksUnlocked, NetworksSearch, NetworksSort, NetworksRetry,
              NetworksRefetch, NetworksRetryOffered, NetworksBare, NetworksDialog,
              NetworksShown, Unmounted
<1>3. CASE NetworksOpenCreate \/ \E i \in Items : NetworksOpenEdit(i) \/ NetworksOpenDelete(i)
  BY <1>3 DEF NetworksOpenCreate, NetworksOpenEdit, NetworksOpenDelete, NetworksRow,
              NetworksBare, NetworksShown
<1>4. CASE \E d \in {"create", "edit", "delete", "unlock"} : NetworksClose(d)
  BY <1>4 DEF NetworksClose, NetworksDialog, NetworksShown
<1>5. CASE NetworksSubmitCreate \/ NetworksSubmitUpdate \/ NetworksSubmitDelete
  BY <1>5 DEF NetworksSubmitCreate, NetworksSubmitUpdate, NetworksSubmitDelete,
              NetworksCreateEnabled, NetworksUpdateEnabled, NetworksDeleteEnabled,
              NetworksDialog, NetworksShown
<1>6. ASSUME NEW s \in Slots, NetworksHandle(s)
      PROVE  Proceeds(NetworksOps) /\ UiTyped'
  <2>1. CASE NetworksFetched(s)
    BY <2>1 DEF NetworksFetched, NetworksShown
  <2>2. CASE NetworksCreated(s) \/ NetworksUpdated(s) \/ NetworksDeleted(s)
    BY <2>2 DEF NetworksCreated, NetworksUpdated, NetworksDeleted, NetworksWritten,
                NetworksWriteFailed, NetworksShown
  <2> QED
    BY <1>6, <2>1, <2>2 DEF NetworksHandle
<1> QED
  BY <1>1, <1>2, <1>3, <1>4, <1>5, <1>6 DEF NetworksStep

-----------------------------------------------------------------------------
LEMMA FleetTyped ==
  ASSUME UiTyped, FleetStep \/ \E s \in Slots : FleetHandle(s)
  PROVE  Proceeds(FleetOps \ {"idle"}) /\ UiTyped'
<1> USE DEF UiTyped, Proceeds, Sends, FleetOps, RegenerateOps, FleetShown
<1>1. CASE FleetMount
  BY <1>1 DEF FleetMount, FleetFresh
<1>2. CASE FleetRetry \/ FleetSubmitCreate
  BY <1>2 DEF FleetRetry, FleetRetryOffered, FleetSubmitCreate, FleetCreateEnabled, FleetDialog
<1>3. CASE FleetOpenCreate \/ \E d \in {"create", "apiKey", "keys"} : FleetClose(d)
  BY <1>3 DEF FleetOpenCreate, FleetBare, FleetClose, FleetDialog
<1>4. CASE \E i \in Items : FleetRegenerateApiKey(i) \/ FleetRegenerateKeys(i)
  BY <1>4 DEF FleetRegenerateApiKey, FleetRegenerateKeys, FleetRegenerate, FleetRow, FleetBare
<1>5. ASSUME NEW s \in Slots, FleetHandle(s)
      PROVE  Proceeds(FleetOps \ {"idle"}) /\ UiTyped'
  <2>1. CASE FleetFetched(s)
    BY <2>1 DEF FleetFetched
  <2>2. CASE FleetCreated(s) \/ FleetApiKeyRegenerated(s) \/ FleetKeysRegenerated(s)
    BY <2>2 DEF FleetCreated, FleetApiKeyRegenerated, FleetKeysRegenerated, FleetRefetch, FleetFailed
  <2> QED
    BY <1>5, <2>1, <2>2 DEF FleetHandle
<1> QED
  BY <1>1, <1>2, <1>3, <1>4, <1>5 DEF FleetStep

-----------------------------------------------------------------------------
LEMMA LintTyped ==
  ASSUME UiTyped, LintStep \/ \E s \in Slots : LintHandle(s)
  PROVE  Proceeds(LintOps) /\ UiTyped'
<1> USE DEF UiTyped, Proceeds, Sends, LintOps, LintShown
<1>1. CASE LintMount
  BY <1>1 DEF LintMount, LintFresh
<1>3. CASE LintChanged \/ LintRefresh
  BY <1>3 DEF LintChanged, LintRefresh
<1>2. ASSUME NEW s \in Slots, LintHandle(s)
      PROVE  Proceeds(LintOps) /\ UiTyped'
  BY <1>2 DEF LintHandle, LintFetched, LintRead, LintAnswered, LintFailed
<1> QED
  BY <1>1, <1>2, <1>3 DEF LintStep

-----------------------------------------------------------------------------
LEMMA AuditTyped ==
  ASSUME UiTyped, AuditStep \/ \E s \in Slots : AuditHandle(s)
  PROVE  Proceeds(AuditOps) /\ UiTyped'
<1> USE DEF UiTyped, Proceeds, Sends, AuditOps, AuditShown
<1>1. CASE AuditMount
  BY <1>1 DEF AuditMount, AuditFresh
<1>2. CASE AuditToggleFilters \/ AuditExport
  BY <1>2 DEF AuditToggleFilters, AuditExport, AuditExportEnabled, AuditContent
<1>3. ASSUME ui # Unmounted, NEW f, AuditFetch(f)
      PROVE  Proceeds(AuditOps) /\ UiTyped'
  BY <1>3 DEF AuditFetch
<1>4. CASE AuditClearFilters \/ AuditRefresh \/ AuditTryAgain
  BY <1>3, <1>4 DEF AuditClearFilters, AuditClearEnabled, AuditFiltersOpen, AuditRefresh,
              AuditRefreshEnabled, AuditTryAgain, AuditFailed, AuditContent
<1>5. CASE \E f \in Items \cup {Nobody} : AuditFilterBy(f)
  BY <1>3, <1>5 DEF AuditFilterBy, AuditFiltersOpen, AuditContent
<1>6. CASE \E p \in 1..MaxPage : AuditTurnPage(p)
  <2>1. PICK p : AuditTurnPage(p)
    BY <1>6
  <2>2. ui # Unmounted
    BY <2>1 DEF AuditTurnPage, AuditPageLinks, AuditContent
  <2> QED
    BY <1>3, <2>1, <2>2 DEF AuditTurnPage
<1>7. ASSUME NEW s \in Slots, AuditHandle(s)
      PROVE  Proceeds(AuditOps) /\ UiTyped'
  BY <1>7 DEF AuditHandle, AuditFetched, AuditExported
<1> QED
  BY <1>1, <1>2, <1>4, <1>5, <1>6, <1>7 DEF AuditStep

-----------------------------------------------------------------------------
LEMMA LinksTyped ==
  ASSUME UiTyped, LinksStep \/ \E s \in Slots : LinksHandle(s)
  PROVE  Proceeds(LinksOps) /\ UiTyped'
<1> USE DEF UiTyped, Proceeds, Sends, LinksOps, LinkWriteOps, LinksShown
<1>1. CASE LinksMount
  BY <1>1 DEF LinksMount, LinksFresh
<1>2. CASE LinksRefresh \/ LinksPickLine
  BY <1>2 DEF LinksRefresh, LinksPickLine, LinksSelect, LinksMesh
<1>3. ASSUME NEW i \in Items, LinksPickDevice(i)
      PROVE  Proceeds(LinksOps) /\ UiTyped'
  BY <1>3 DEF LinksPickDevice, LinksSelect, LinksMesh
<1>4. ASSUME NEW i \in Items, LinksRevert(i) \/ \E d : LinksEdit(i, d)
      PROVE  Proceeds(LinksOps) /\ UiTyped'
  <2>1. ui # Unmounted /\ \E f : ui' = [ui EXCEPT !.draft = f]
    BY <1>4 DEF LinksRevert, LinksEdit, LinksSaveEnabled, LinksEditor, LinksMesh
  <2> QED
    BY <1>4, <2>1 DEF LinksRevert, LinksEdit
<1>5. ASSUME NEW i \in Items, LinksSave(i)
      PROVE  Proceeds(LinksOps) /\ UiTyped'
  BY <1>5 DEF LinksSave, LinksSaveEnabled, LinksEditor, LinksMesh
<1>6. ASSUME NEW s \in Slots, LinksHandle(s)
      PROVE  Proceeds(LinksOps) /\ UiTyped'
  BY <1>6 DEF LinksHandle, LinksFetched, LinksSaved
<1> QED
  BY <1>1, <1>2, <1>3, <1>4, <1>5, <1>6 DEF LinksStep

-----------------------------------------------------------------------------
\* A form that is submitted takes its calls with it.
LEMMA FormTyped ==
  ASSUME UiTyped, FormMine, FormStep \/ \E s \in Slots : FormHandle(s)
  PROVE  /\ UiTyped'
         /\ Proceeds(FormOps \ {"idle"}) \/ Moves(FormOps \ {"idle"})
<1> USE DEF UiTyped, Proceeds, Sends, FormOps, FormOpen
<1>1. CASE FormMount
  BY <1>1 DEF FormMount, FormFresh
<1>2. CASE FormOpenCreate \/ FormClose \/ \E i \in Items : FormOpenEdit(i)
  BY <1>2 DEF FormOpenCreate, FormClose, FormOpenEdit, FormReset
<1>3. CASE FormGenerate \/ FormGeneratePsk \/ FormLoad
  BY <1>3 DEF FormGenerate, FormGenerateEnabled, FormGeneratePsk, FormPskEnabled,
              FormLoad, FormLoadEnabled
<1>4. CASE FormSubmit
  BY <1>4 DEF FormSubmit, FormSubmitEnabled
<1>5. ASSUME NEW s \in Slots, FormGenerated(s) \/ FormPskGenerated(s) \/ FormLoaded(s)
      PROVE  Proceeds(FormOps \ {"idle"}) /\ UiTyped'
  <2>1. ui # Unmounted
    BY <1>5 DEF FormMine, FormGenerated, FormPskGenerated, FormLoaded
  <2>2. CASE FormGenerated(s)
    BY <2>1, <2>2 DEF FormGenerated
  <2>3. CASE FormPskGenerated(s) \/ FormLoaded(s)
    BY <2>1, <2>3 DEF FormPskGenerated, FormLoaded
  <2> QED
    BY <1>5, <2>2, <2>3
<1>6. ASSUME NEW s \in Slots, FormSubmitted(s)
      PROVE  /\ UiTyped'
             /\ Proceeds(FormOps \ {"idle"}) \/ Moves(FormOps \ {"idle"})
  <2>1. ui # Unmounted
    BY <1>6 DEF FormMine, FormSubmitted
  <2> QED
    BY <1>6, <2>1 DEF FormSubmitted, FormFresh, Moves, Gone
<1> QED
  BY <1>1, <1>2, <1>3, <1>4, <1>5, <1>6 DEF FormStep, FormHandle

-----------------------------------------------------------------------------
\* A page that is left or locked out takes its calls with it.
LEMMA RotationTyped ==
  ASSUME UiTyped, RotationStep \/ \E s \in Slots : RotationHandle(s)
  PROVE  /\ UiTyped'
         /\ Proceeds(RotationOps) \/ Moves(RotationOps)
<1> USE DEF UiTyped, Proceeds, Sends, RotationOps, RotationShown
<1>1. CASE RotationMount
  BY <1>1 DEF RotationMount, RotationFresh
<1>2. CASE RotationLeave
  BY <1>2 DEF RotationLeave, Moves, Gone
<1>3. CASE \E c, n \in Passwords : RotationSubmit(c, n)
  BY <1>3 DEF RotationSubmit, RotateEnabled
<1>4. ASSUME NEW s \in Slots, RotationEstimated(s)
      PROVE  Proceeds(RotationOps) /\ UiTyped'
  BY <1>4 DEF RotationEstimated
<1>5. ASSUME NEW s \in Slots, CurrentPasswordChecked(s)
      PROVE  Proceeds(RotationOps) /\ UiTyped'
  BY <1>5, NothingToSet DEF CurrentPasswordChecked
<1>6. ASSUME NEW s \in Slots, RotationFailed(s)
      PROVE  Proceeds(RotationOps) /\ UiTyped'
  BY <1>6, NothingToSet DEF RotationFailed
<1>7. ASSUME NEW s \in Slots, RotationSucceeded(s)
      PROVE  Moves(RotationOps) /\ UiTyped'
  BY <1>7 DEF RotationSucceeded, Moves, Gone
<1> QED
  BY <1>1, <1>2, <1>3, <1>4, <1>5, <1>6, <1>7 DEF RotationStep, RotationHandle

-----------------------------------------------------------------------------
\* A card that gives way to an error leaves its calls.
LEMMA SettingsTyped ==
  ASSUME UiTyped, SettingsStep \/ \E s \in Slots : SettingsHandle(s)
  PROVE  /\ UiTyped'
         /\ Proceeds(SettingsOps) \/ Moves(SettingsOps)
<1> USE DEF UiTyped, Proceeds, Sends, SettingsOps, SettingsShown
<1>0. ASSUME ui # Unmounted, NEW card, ui' = [ui EXCEPT !.card = card] PROVE UiTyped'
  BY <1>0
<1>1. CASE SettingsMount
  BY <1>1 DEF SettingsMount, SettingsFresh
<1>2. CASE SettingsTryAgain
  BY <1>2 DEF SettingsTryAgain, SettingsFailed
<1>3. CASE SettingsSave
  <2>1. ui # Unmounted /\ ui' = [ui EXCEPT !.card = [ui.card EXCEPT !.isSaving = TRUE]]
    BY <1>3 DEF SettingsSave, SaveEnabled, CardShown
  <2> QED
    BY <1>0, <1>3, <2>1 DEF SettingsSave
<1>4. CASE ProxiesEdit \/ ProxiesCancelEdit
  <2>1. ui # Unmounted /\ \E card : ui' = [ui EXCEPT !.card = card]
    <3>1. CASE ProxiesEdit
      BY <3>1 DEF ProxiesEdit, SaveEnabled, CardShown
    <3>2. CASE ProxiesCancelEdit
      BY <3>2 DEF ProxiesCancelEdit, SaveEnabled, CardShown
    <3> QED
      BY <1>4, <3>1, <3>2
  <2> QED
    BY <1>0, <1>4, <2>1 DEF ProxiesEdit, ProxiesCancelEdit
<1>5. ASSUME NEW v, EditLimit(v) \/ ProxiesChange(v) \/ ProxiesSaveEdit(v)
      PROVE  Proceeds(SettingsOps) /\ UiTyped'
  <2>1. ui # Unmounted /\ \E card : ui' = [ui EXCEPT !.card = card]
    <3>1. CASE EditLimit(v)
      BY <3>1 DEF EditLimit, SaveEnabled, CardShown
    <3>2. CASE ProxiesChange(v)
      BY <3>2 DEF ProxiesChange, SaveEnabled, CardShown
    <3>3. CASE ProxiesSaveEdit(v)
      <4>1. ui' = [ui EXCEPT !.card = [ui.card EXCEPT
                     !.values = [ui.card.values EXCEPT !["proxies"] = v], !.editing = FALSE]]
        BY <3>3 DEF ProxiesSaveEdit, SaveEnabled, CardShown
      <4> QED
        BY <3>3, <4>1 DEF ProxiesSaveEdit, SaveEnabled, CardShown
    <3> QED
      BY <1>5, <3>1, <3>2, <3>3
  <2> QED
    BY <1>0, <1>5, <2>1 DEF EditLimit, ProxiesChange, ProxiesSaveEdit
<1>6. ASSUME NEW s \in Slots, SettingsFetched(s)
      PROVE  /\ UiTyped'
             /\ Proceeds(SettingsOps) \/ Moves(SettingsOps)
  BY <1>6 DEF SettingsFetched, Moves, Gone
<1>7. ASSUME NEW s \in Slots, SettingsSaved(s)
      PROVE  Proceeds(SettingsOps) /\ UiTyped'
  <2>1. ui # Unmounted /\ Proceeds(SettingsOps)
    BY <1>7 DEF SettingsSaved
  <2>2. ui' = IF calls[s].arg.alive
              THEN [ui EXCEPT !.card = [ui.card EXCEPT
                      !.values = [ui.card.values EXCEPT !["limits"] = calls[s].data["limits"]],
                      !.isSaving = FALSE], !.uncertain = Others(s)]
              ELSE [ui EXCEPT !.uncertain = Others(s)]
    BY <1>7 DEF SettingsSaved
  <2> QED
    BY <2>1, <2>2
<1>8. ASSUME NEW s \in Slots, SettingsNotSaved(s)
      PROVE  Proceeds(SettingsOps) /\ UiTyped'
  <2>1. ui # Unmounted /\ Proceeds(SettingsOps)
    BY <1>8 DEF SettingsNotSaved
  <2>2. ui' = IF calls[s].arg.alive
              THEN [ui EXCEPT !.card = [ui.card EXCEPT !.isSaving = FALSE], !.uncertain = TRUE]
              ELSE [ui EXCEPT !.uncertain = TRUE]
    BY <1>8 DEF SettingsNotSaved
  <2> QED
    BY <2>1, <2>2
<1> QED
  BY <1>1, <1>2, <1>3, <1>4, <1>5, <1>6, <1>7, <1>8 DEF SettingsStep, SettingsHandle

-----------------------------------------------------------------------------
\* The preview loads once or twice, and goes away with its loads.
LEMMA DeviceTyped ==
  ASSUME CallsTyped, UiTyped, DeviceStep \/ \E s \in Slots : DeviceHandle(s)
  PROVE  (Proceeds(DeviceOps \ {"idle"}) \/ Moves(DeviceOps \ {"idle"})) /\ UiTyped'
<1> USE DEF UiTyped, Proceeds, Sends, DeviceOps, DeviceShown, DeviceTabs, DeviceBare, DeviceModal
<1>0. ASSUME ui # Unmounted, NEW preview, ui' = [ui EXCEPT !.preview = preview] PROVE UiTyped'
  BY <1>0
<1>1. CASE DeviceMount
  BY <1>1 DEF DeviceMount, DeviceFresh
<1>2. CASE ApiKeyDialog
  BY <1>2 DEF ApiKeyDialog, RegenerateOffered
<1>3. CASE ApiKeyRegenerate
  BY <1>3 DEF ApiKeyRegenerate, RegenerateEnabled
<1>4. CASE PreviewConfig
  <2>1. /\ ui # Unmounted /\ screen' = screen
        /\ ui' = [ui EXCEPT !.preview = [ui.preview EXCEPT !.shown = TRUE, !.loading = TRUE,
                                                        !.error = FALSE]]
    BY <1>4 DEF PreviewConfig, PreviewEnabled
  <2>2. CASE Await("getAdminDeviceConfig", Nobody)
    BY <1>0, <2>1, <2>2
  <2>3. CASE ~Await("getAdminDeviceConfig", Nobody)
    <3>1. PICK both \in SUBSET FreeSlots :
            calls' = [s \in Slots |-> IF s \in both THEN NewCall("getAdminDeviceConfig", Nobody)
                                     ELSE calls[s]]
      BY <1>4, <2>3 DEF PreviewConfig
    <3>2. Moves(DeviceOps \ {"idle"})
      BY <2>1, <3>1 DEF Moves, Gone
    <3> QED
      BY <1>0, <2>1, <3>2
  <2> QED
    BY <2>2, <2>3
<1>5. CASE HideConfig
  <2>1. ui # Unmounted /\ ui' = [ui EXCEPT !.preview = [ui.preview EXCEPT !.shown = FALSE]]
    BY <1>5 DEF HideConfig, PreviewEnabled
  <2> QED
    BY <1>0, <1>5, <2>1 DEF HideConfig
<1>6. CASE DownloadConfig
  BY <1>6 DEF DownloadConfig
<1>7. ASSUME NEW tab, DeviceTab(tab)
      PROVE  Moves(DeviceOps \ {"idle"}) /\ UiTyped'
  BY <1>7 DEF DeviceTab, WithoutLoads, Moves, Gone
<1>8. ASSUME NEW s \in Slots, DeviceFetched(s)
      PROVE  Proceeds(DeviceOps \ {"idle"}) /\ UiTyped'
  BY <1>8 DEF DeviceFetched
<1>9. ASSUME NEW s \in Slots, ApiKeyRegenerated(s)
      PROVE  (Proceeds(DeviceOps \ {"idle"}) \/ Moves(DeviceOps \ {"idle"})) /\ UiTyped'
  <2>1. CASE calls[s].outcome = "ok"
    <3>1. \A t \in Slots : \/ calls'[t] \in {Idle, calls[t]}
                           \/ calls'[t] = NewCall("getDevice", "regenerate")
      BY <1>9, <2>1 DEF ApiKeyRegenerated, WithoutLoads
    <3>2. screen' = screen /\ DOMAIN calls' = Slots /\ UiTyped'
      BY <1>9, <2>1 DEF ApiKeyRegenerated, WithoutLoads
    <3> QED
      BY <3>1, <3>2 DEF Moves, Gone
  <2>2. CASE calls[s].outcome # "ok"
    BY <1>9, <2>2 DEF ApiKeyRegenerated
  <2> QED
    BY <2>1, <2>2
<1>10. ASSUME NEW s \in Slots, ConfigLoaded(s)
       PROVE  Proceeds(DeviceOps \ {"idle"}) /\ UiTyped'
  <2>1. /\ ui # Unmounted /\ Proceeds(DeviceOps \ {"idle"})
        /\ \/ ui' = [ui EXCEPT !.preview = [ui.preview EXCEPT !.loading = FALSE, !.config = TRUE]]
           \/ ui' = [ui EXCEPT !.preview = [ui.preview EXCEPT !.loading = FALSE, !.error = TRUE]]
    BY <1>10 DEF ConfigLoaded
  <2> QED
    BY <1>0, <2>1
<1>11. ASSUME NEW s \in Slots, ConfigDownloaded(s)
       PROVE  Proceeds(DeviceOps \ {"idle"}) /\ UiTyped'
  BY <1>11 DEF ConfigDownloaded
<1> QED
  BY <1>1, <1>2, <1>3, <1>4, <1>5, <1>6, <1>7, <1>8, <1>9, <1>10, <1>11 DEF DeviceStep, DeviceHandle

-----------------------------------------------------------------------------
LEMMA BelieveTyped ==
  ASSUME ui # Unmounted, NEW s \in Slots, NEW next, NEW b, screen' = screen,
         "mounted" \in DOMAIN next, next.mounted = TRUE, Believe(s, next, b)
  PROVE  Proceeds(SessionOps) /\ UiTyped'
<1>1. RefreshOp(next.token) \in SessionOps
  BY DEF RefreshOp, SessionOps, RefreshOps, ChangeOps
<1>2. CASE b = ui.isUnlocked
  BY <1>2 DEF Believe, Proceeds, UiTyped
<1>3. CASE b # ui.isUnlocked
  <2>1. /\ ui' = [next EXCEPT !.isUnlocked = b, !.uncertain = Others(s)]
        /\ AwaitNext(s, RefreshOp(next.token), Asked(next.token, "nobody"))
    BY <1>3 DEF Believe
  <2> QED
    BY <1>1, <2>1 DEF Proceeds, Sends, UiTyped
<1> QED
  BY <1>2, <1>3

LEMMA SessionTyped ==
  ASSUME CallsTyped, UiTyped, SessionCalls, SessionStep \/ \E s \in Slots : SessionHandle(s)
  PROVE  (Proceeds(SessionOps) \/ Moves(SessionOps)) /\ UiTyped'
<1> USE DEF UiTyped, SessionShown
<1>0. /\ \A token : RefreshOp(token) \in SessionOps
      /\ {"unlockMasterPassword", "lockMasterPassword", "extendMasterPasswordTTL"} \subseteq SessionOps
  BY DEF RefreshOp, SessionOps, RefreshOps, ChangeOps
<1>1. CASE SessionMount
  BY <1>0, <1>1 DEF SessionMount, SessionFresh, Proceeds, Sends
<1>2. CASE SessionReload
  <2>1. UiTyped'
    BY <1>2 DEF SessionReload, SessionFresh
  <2>2. Moves(SessionOps)
    BY <1>0, <1>2 DEF SessionReload, Moves, Gone
  <2> QED
    BY <2>1, <2>2
<1>3. CASE SessionPoll \/ SessionForceLock
  BY <1>0, <1>3 DEF SessionPoll, SessionForceLock, Proceeds, Sends
<1>4. CASE SessionOpenDialog \/ SessionCloseDialog \/ BackendChanges
  BY <1>4 DEF SessionOpenDialog, SessionCloseDialog, BackendChanges, Proceeds
<1>5. CASE SessionUnlock
  BY <1>0, <1>5 DEF SessionUnlock, UnlockEnabled, UnlockFormShown, SessionSend, Proceeds, Sends
<1>6. CASE SessionLock \/ SessionLockNow \/ SessionExtend
  BY <1>0, <1>6 DEF SessionLock, SessionLockNow, SessionExtend, SessionSend, Proceeds, Sends
<1>7. ASSUME NEW s \in Slots, SessionRefreshed(s)
      PROVE  Proceeds(SessionOps) /\ UiTyped'
  <2> DEFINE c == calls[s]
             ended == [ui EXCEPT !.isChecking = FALSE,
                                 !.known = c.outcome = "ok" /\ c.op = "getMasterPasswordStatus",
                                 !.unlocking = @ /\ c.arg.for # "unlock",
                                 !.dialog = @ /\ c.arg.for = "nobody"]
             doubted == [ended EXCEPT !.uncertain = @ \/ c.outcome # "unauthorized"]
  <2>1. ui # Unmounted /\ screen' = screen
    BY <1>7 DEF SessionRefreshed
  <2>2. "mounted" \in DOMAIN ended /\ ended.mounted = TRUE
    BY <2>1
  <2>3. "mounted" \in DOMAIN doubted /\ doubted.mounted = TRUE
    BY <2>2
  <2>4. \E next \in {ended, doubted} : \E b : Believe(s, next, b)
    <3>1. CASE c.outcome = "ok"
      BY <1>7, <3>1 DEF SessionRefreshed
    <3>2. CASE c.outcome # "ok"
      BY <1>7, <3>2 DEF SessionRefreshed
    <3> QED
      BY <3>1, <3>2
  <2> HIDE DEF ended, doubted
  <2> QED
    BY <2>1, <2>2, <2>3, <2>4, BelieveTyped
<1>8. ASSUME NEW s \in Slots, SessionUnlocked(s)
      PROVE  Proceeds(SessionOps) /\ UiTyped'
  BY <1>0, <1>8 DEF SessionUnlocked, Proceeds, Sends
<1>9. ASSUME NEW s \in Slots, SessionExtended(s)
      PROVE  Proceeds(SessionOps) /\ UiTyped'
  BY <1>0, <1>9 DEF SessionExtended, Proceeds, Sends
<1>10. ASSUME NEW s \in Slots, SessionLocked(s)
       PROVE  Proceeds(SessionOps) /\ UiTyped'
  <2> DEFINE c == calls[s]
             locked == [ui EXCEPT !.token = 0, !.known = FALSE, !.uncertain = @ \/ Others(s)]
  <2>1. ui # Unmounted /\ screen' = screen /\ c.op = "lockMasterPassword"
    BY <1>10 DEF SessionLocked, Answered
  <2>2. c.arg.for \in {"lock", "dialog"}
    BY <2>1 DEF SessionCalls, Busy
  <2>3. CASE c.outcome # "ok"
    BY <1>10, <2>1, <2>3 DEF SessionLocked, Proceeds
  <2>4. CASE c.outcome = "ok" /\ c.arg.for = "dialog"
    BY <1>10, <2>1, <2>4 DEF SessionLocked, Proceeds
  <2>5. CASE c.outcome = "ok" /\ c.arg.for = "lock"
    <3>1. Believe(s, locked, FALSE)
      BY <1>10, <2>5 DEF SessionLocked
    <3>2. "mounted" \in DOMAIN locked /\ locked.mounted = TRUE
      BY <2>1
    <3> HIDE DEF locked
    <3> QED
      BY <2>1, <3>1, <3>2, BelieveTyped
  <2> QED
    BY <2>2, <2>3, <2>4, <2>5
<1> QED
  BY <1>1, <1>2, <1>3, <1>4, <1>5, <1>6, <1>7, <1>8, <1>9, <1>10 DEF SessionStep, SessionHandle

-----------------------------------------------------------------------------
\* A page with tabs.
LEMMA TabsTyped ==
  ASSUME UiTyped, NEW ops, {"getNetwork"} \subseteq ops, NEW here,
         \/ NetworkMount(here) \/ NetworkLeaveTab(here)
         \/ \E s \in Slots : screen' = screen /\ ui # Unmounted /\ NetworkReload(s)
  PROVE  (Proceeds(ops) \/ Moves(ops)) /\ UiTyped'
<1> USE DEF UiTyped, NetworkFresh
<1>1. CASE NetworkMount(here)
  BY <1>1 DEF NetworkMount, Proceeds, Sends
<1>2. CASE NetworkLeaveTab(here)
  BY <1>2 DEF NetworkLeaveTab, NetworkShown, Moves, Gone
<1>3. CASE \E s \in Slots : screen' = screen /\ ui # Unmounted /\ NetworkReload(s)
  BY <1>3 DEF NetworkReload, LeftBut, Moves, Gone
<1> QED
  BY <1>1, <1>2, <1>3

LEMMA EnterTyped ==
  ASSUME UiTyped, NEW ops, NEW list \in ops, NEW here, NEW fresh, NEW query,
         \/ NetworkEnterTab(here, fresh, list, query)
         \/ \E s \in Slots : NetworkFetched(s, here, fresh, list, query)
  PROVE  (Proceeds(ops) \/ Moves(ops)) /\ UiTyped'
<1> USE DEF UiTyped, NetworkFresh
<1>1. CASE NetworkEnterTab(here, fresh, list, query)
  BY <1>1 DEF NetworkEnterTab, NetworkShown, Proceeds, Sends
<1>2. ASSUME NEW s \in Slots, NetworkFetched(s, here, fresh, list, query)
      PROVE  (Proceeds(ops) \/ Moves(ops)) /\ UiTyped'
  <2>1. CASE calls[s].outcome # "ok"
    BY <1>2, <2>1 DEF NetworkFetched, LeftBut, Moves, Gone
  <2>2. CASE /\ calls[s].outcome = "ok"
             /\ ui.page # "error" /\ ui.tab = "here" /\ ui.child = Unmounted
    BY <1>2, <2>2 DEF NetworkFetched, Proceeds, Sends
  <2>3. CASE /\ calls[s].outcome = "ok"
             /\ ~(ui.page # "error" /\ ui.tab = "here" /\ ui.child = Unmounted)
    BY <1>2, <2>3 DEF NetworkFetched, Proceeds
  <2> QED
    BY <2>1, <2>2, <2>3
<1> QED
  BY <1>1, <1>2

\* A step that sets fields of the open tab.
ChildSet == ui # Unmounted /\ \E child : ui' = [ui EXCEPT !.child = child]

LEMMA ChildSetTyped ==
  ASSUME UiTyped, ChildSet
  PROVE  UiTyped'
  BY DEF UiTyped, ChildSet

-----------------------------------------------------------------------------
LEMMA LocationsTyped ==
  ASSUME UiTyped, LocationsStep \/ \E s \in Slots : LocationsHandle(s)
  PROVE  (Proceeds(LocationsOps) \/ Moves(LocationsOps)) /\ UiTyped'
<1>0. {"getNetwork", "listLocations"} \subseteq LocationsOps
  BY DEF LocationsOps
<1>1. CASE \/ NetworkMount("locations") \/ NetworkLeaveTab("locations")
           \/ NetworkEnterTab("locations", LocationsFresh(~Quiet), "listLocations", Nobody)
  BY <1>0, <1>1, TabsTyped, EnterTyped
<1>2. CASE LocationsRetry
  <2>1. ui # Unmounted /\ ui' = [ui EXCEPT !.child = [ui.child EXCEPT
          !.loading = TRUE, !.fetchError = FALSE, !.uncertain = ~Quiet]]
    BY <1>2 DEF LocationsRetry, LocationsRetryOffered, LocationsBare, LocationsShown, NetworkShown
  <2> QED
    BY <1>0, <1>2, <2>1, ChildSetTyped DEF ChildSet, LocationsRetry, Proceeds, Sends
<1>3. CASE LocationsOpenCreate
  <2>1. ui # Unmounted /\ ui' = [ui EXCEPT !.child = [ui.child EXCEPT !.dialogs = {"create"}]]
    BY <1>3 DEF LocationsOpenCreate, LocationsBare, LocationsShown, NetworkShown
  <2> QED
    BY <1>3, <2>1, ChildSetTyped DEF ChildSet, LocationsOpenCreate, Proceeds
<1>4. ASSUME NEW i, LocationsOpenEdit(i) \/ LocationsOpenDelete(i)
      PROVE  Proceeds(LocationsOps) /\ UiTyped'
  <2>1. CASE LocationsOpenEdit(i)
    <3>1. ui # Unmounted /\ ui' = [ui EXCEPT !.child = [ui.child EXCEPT
            !.selected = i, !.form = i, !.dialogs = {"edit"}]]
      BY <2>1 DEF LocationsOpenEdit, LocationsRow, LocationsBare, LocationsShown, NetworkShown
    <3> QED
      BY <2>1, <3>1, ChildSetTyped DEF ChildSet, LocationsOpenEdit, Proceeds
  <2>2. CASE LocationsOpenDelete(i)
    <3>1. ui # Unmounted /\ ui' = [ui EXCEPT !.child = [ui.child EXCEPT
            !.selected = i, !.dialogs = {"delete"}]]
      BY <2>2 DEF LocationsOpenDelete, LocationsRow, LocationsBare, LocationsShown, NetworkShown
    <3> QED
      BY <2>2, <3>1, ChildSetTyped DEF ChildSet, LocationsOpenDelete, Proceeds
  <2> QED
    BY <1>4, <2>1, <2>2
<1>5. ASSUME NEW d, LocationsClose(d)
      PROVE  Proceeds(LocationsOps) /\ UiTyped'
  <2>1. ui # Unmounted /\ ui' = [ui EXCEPT !.child = [ui.child EXCEPT
          !.dialogs = ui.child.dialogs \ {d}]]
    BY <1>5 DEF LocationsClose, LocationsDialog, LocationsShown, NetworkShown
  <2> QED
    BY <1>5, <2>1, ChildSetTyped DEF ChildSet, LocationsClose, Proceeds
<1>6. CASE LocationsSubmitCreate \/ LocationsSubmitUpdate \/ LocationsSubmitDelete
  <2>1. PICK o, id, of : o \in LocationsOps /\ ui # Unmounted /\ LocationsSubmit(o, id, of)
    BY <1>6 DEF LocationsSubmitCreate, LocationsSubmitUpdate, LocationsSubmitDelete,
                LocationsCreateEnabled, LocationsUpdateEnabled, LocationsDeleteEnabled,
                LocationsDialog, LocationsShown, NetworkShown, LocationsOps
  <2>2. ui' = [ui EXCEPT !.child = [ui.child EXCEPT !.submitting = TRUE]]
    BY <2>1 DEF LocationsSubmit
  <2> QED
    BY <2>1, <2>2, ChildSetTyped DEF ChildSet, LocationsSubmit, Proceeds, Sends
<1>7. ASSUME NEW s \in Slots, LocationsHandle(s)
      PROVE  (Proceeds(LocationsOps) \/ Moves(LocationsOps)) /\ UiTyped'
  <2>1. CASE NetworkFetched(s, "locations", LocationsFresh(Others(s)), "listLocations", Nobody)
    BY <1>0, <2>1, EnterTyped
  <2>2. CASE LocationsFetched(s)
    <3>1. /\ ui # Unmounted /\ Proceeds(LocationsOps)
          /\ \/ ui' = [ui EXCEPT !.child = [ui.child EXCEPT !.rows = calls[s].data,
                          !.fetchError = FALSE, !.loading = FALSE]]
             \/ ui' = [ui EXCEPT !.child = [ui.child EXCEPT !.fetchError = TRUE,
                          !.loading = FALSE]]
      BY <2>2 DEF LocationsFetched, LocationsShown, NetworkShown, Proceeds
    <3> QED
      BY <3>1, ChildSetTyped DEF ChildSet
  <2>3. CASE LocationsCreated(s) \/ LocationsUpdated(s) \/ LocationsDeleted(s)
    <3>1. ui # Unmounted /\ screen' = screen /\ LocationsWritten(s)
      BY <2>3 DEF LocationsCreated, LocationsUpdated, LocationsDeleted, LocationsAnswered
    <3>2. CASE calls[s].outcome = "ok"
      BY <1>0, <3>1, <3>2, TabsTyped DEF LocationsWritten
    <3>3. CASE calls[s].outcome # "ok"
      <4>1. /\ Proceeds(LocationsOps)
            /\ \/ ui' = ui
               \/ ui' = [ui EXCEPT !.child = [ui.child EXCEPT !.submitting = FALSE,
                                                          !.uncertain = TRUE]]
        BY <3>1, <3>3 DEF LocationsWritten, Proceeds
      <4> QED
        BY <3>1, <4>1, ChildSetTyped DEF ChildSet, UiTyped
    <3> QED
      BY <3>2, <3>3
  <2> QED
    BY <1>7, <2>1, <2>2, <2>3 DEF LocationsHandle
<1> QED
  BY <1>1, <1>2, <1>3, <1>4, <1>5, <1>6, <1>7 DEF LocationsStep

-----------------------------------------------------------------------------
LEMMA DevicesTyped ==
  ASSUME UiTyped, DevicesStep \/ \E s \in Slots : DevicesHandle(s)
  PROVE  (Proceeds(DevicesOps) \/ Moves(DevicesOps)) /\ UiTyped'
<1>0. {"getNetwork", "listDevices"} \subseteq DevicesOps
  BY DEF DevicesOps
<1>1. CASE \/ NetworkMount("devices") \/ NetworkLeaveTab("devices")
           \/ NetworkEnterTab("devices", DevicesFresh(~Quiet), "listDevices", DevicesQuery(TRUE))
  BY <1>0, <1>1, TabsTyped, EnterTyped
<1>2. CASE DevicesFilter
  <2>1. ui # Unmounted /\ ui' = [ui EXCEPT !.child = [ui.child EXCEPT
          !.due = TRUE, !.fitting = FALSE]]
    BY <1>2 DEF DevicesFilter, DevicesBare, DevicesShown, NetworkShown
  <2>2. Moves(DevicesOps)
    BY <1>2 DEF DevicesFilter, Moves, Gone
  <2> QED
    BY <2>1, <2>2, ChildSetTyped DEF ChildSet
<1>3. CASE DevicesDue
  <2>1. ui # Unmounted /\ ui' = [ui EXCEPT !.child = [ui.child EXCEPT
          !.due = FALSE, !.fetchError = FALSE, !.uncertain = ~Quiet]]
    BY <1>3 DEF DevicesDue, DevicesShown, NetworkShown
  <2> QED
    BY <1>0, <1>3, <2>1, ChildSetTyped DEF ChildSet, DevicesDue, Proceeds, Sends
<1>4. CASE DevicesRetry
  <2>1. ui # Unmounted /\ ui' = [ui EXCEPT !.child = [ui.child EXCEPT
          !.fetchError = FALSE, !.uncertain = ~Quiet]]
    BY <1>4 DEF DevicesRetry, DevicesRetryOffered, DevicesBare, DevicesShown, NetworkShown
  <2> QED
    BY <1>0, <1>4, <2>1, ChildSetTyped DEF ChildSet, DevicesRetry, Proceeds, Sends
<1>5. CASE DevicesOpenCreate
  <2>1. ui # Unmounted /\ ui' = [ui EXCEPT !.child = [ui.child EXCEPT !.dialogs = {"create"}]]
    BY <1>5 DEF DevicesOpenCreate, DevicesBare, DevicesShown, NetworkShown
  <2> QED
    BY <1>5, <2>1, ChildSetTyped DEF ChildSet, DevicesOpenCreate, Proceeds
<1>6. ASSUME NEW i, DevicesOpenEdit(i) \/ DevicesOpenDelete(i)
      PROVE  Proceeds(DevicesOps) /\ UiTyped'
  <2>1. PICK d : ui # Unmounted /\ DevicesSelect(i, d)
    BY <1>6 DEF DevicesOpenEdit, DevicesOpenDelete, DevicesRow, DevicesBare, DevicesShown,
                NetworkShown
  <2>2. ui' = [ui EXCEPT !.child = [ui.child EXCEPT !.selected = i, !.dialogs = {d}]]
    BY <2>1 DEF DevicesSelect
  <2> QED
    BY <1>6, <2>1, <2>2, ChildSetTyped DEF ChildSet, DevicesOpenEdit, DevicesOpenDelete, Proceeds
<1>7. ASSUME NEW d, DevicesClose(d)
      PROVE  Proceeds(DevicesOps) /\ UiTyped'
  <2>1. ui # Unmounted /\ ui' = [ui EXCEPT !.child = [ui.child EXCEPT
          !.dialogs = ui.child.dialogs \ {d},
          !.selected = IF d = "edit" THEN Nobody ELSE ui.child.selected]]
    BY <1>7 DEF DevicesClose, DevicesDialog, DevicesShown, NetworkShown
  <2> QED
    BY <1>7, <2>1, ChildSetTyped DEF ChildSet, DevicesClose, Proceeds
<1>8. CASE DevicesSubmitCreate \/ DevicesSubmitUpdate \/ DevicesSubmitDelete
  <2>1. PICK o, i : /\ o \in DevicesOps /\ ui # Unmounted /\ DevicesSend(o, i)
                    /\ ui' = [ui EXCEPT !.child.submitting = TRUE]
    BY <1>8 DEF DevicesSubmitCreate, DevicesSubmitUpdate, DevicesSubmitDelete,
                DevicesFormEnabled, DevicesDeleteEnabled, DevicesDialog, DevicesShown,
                NetworkShown, DevicesOps
  <2>2. ui' = [ui EXCEPT !.child = [ui.child EXCEPT !.submitting = TRUE]]
    BY <2>1
  <2> QED
    BY <2>1, <2>2, ChildSetTyped DEF ChildSet, DevicesSend, Proceeds, Sends
<1>9. ASSUME NEW i, DevicesRegenerateApiKey(i) \/ DevicesRegenerateKeys(i)
      PROVE  Proceeds(DevicesOps) /\ UiTyped'
  <2>1. PICK o : o \in DevicesOps /\ DevicesRegenerate(o, i)
    BY <1>9 DEF DevicesRegenerateApiKey, DevicesRegenerateKeys, DevicesOps
  <2>2. ui # Unmounted /\ ui' = [ui EXCEPT !.child = [ui.child EXCEPT
          !.selected = i, !.submitting = TRUE]]
    BY <2>1 DEF DevicesRegenerate, DevicesRow, DevicesBare, DevicesShown, NetworkShown
  <2> QED
    BY <2>1, <2>2, ChildSetTyped DEF ChildSet, DevicesRegenerate, DevicesSend, Proceeds, Sends
<1>10. ASSUME NEW s \in Slots, DevicesFailed(s), ui # Unmounted, screen' = screen
       PROVE  Proceeds(DevicesOps) /\ UiTyped'
  <2>1. /\ Proceeds(DevicesOps)
        /\ \/ ui' = ui
           \/ ui' = [ui EXCEPT !.child = [ui.child EXCEPT !.submitting = FALSE,
                                                      !.uncertain = TRUE]]
    BY <1>10 DEF DevicesFailed, Proceeds
  <2> QED
    BY <1>10, <2>1, ChildSetTyped DEF ChildSet, UiTyped
<1>11. ASSUME NEW s \in Slots, DevicesWritten(s), ui # Unmounted, screen' = screen
       PROVE  (Proceeds(DevicesOps) \/ Moves(DevicesOps)) /\ UiTyped'
  BY <1>0, <1>10, <1>11, TabsTyped DEF DevicesWritten
<1>12. ASSUME NEW s \in Slots, DevicesHandle(s)
       PROVE  (Proceeds(DevicesOps) \/ Moves(DevicesOps)) /\ UiTyped'
  <2>1. CASE NetworkFetched(s, "devices", DevicesFresh(Others(s)), "listDevices", DevicesQuery(TRUE))
    BY <1>0, <2>1, EnterTyped
  <2>2. CASE DevicesFetched(s)
    <3>1. /\ ui # Unmounted /\ Proceeds(DevicesOps)
          /\ \/ ui' = [ui EXCEPT !.child = [ui.child EXCEPT !.rows = calls[s].data,
                          !.fitting = calls[s].arg.current,
                          !.fetchError = FALSE, !.loading = FALSE]]
             \/ ui' = [ui EXCEPT !.child = [ui.child EXCEPT !.fetchError = TRUE,
                          !.loading = FALSE]]
      BY <2>2 DEF DevicesFetched, DevicesShown, NetworkShown, Proceeds
    <3> QED
      BY <3>1, ChildSetTyped DEF ChildSet
  <2>3. CASE DevicesCreated(s) \/ DevicesDeleted(s)
    BY <1>11, <2>3 DEF DevicesCreated, DevicesDeleted, DevicesAnswered
  <2>4. CASE DevicesUpdated(s)
    <3>1. CASE calls[s].outcome = "locked"
      BY <2>4, <3>1 DEF DevicesUpdated, Moves, Gone, UiTyped
    <3>2. CASE calls[s].outcome # "locked"
      BY <1>11, <2>4, <3>2 DEF DevicesUpdated, DevicesAnswered
    <3> QED
      BY <3>1, <3>2
  <2>5. CASE DevicesApiKeyRegenerated(s) \/ DevicesKeysRegenerated(s)
    <3>1. ui # Unmounted /\ screen' = screen /\ DevicesRegenerated(s)
      BY <2>5 DEF DevicesApiKeyRegenerated, DevicesKeysRegenerated, DevicesAnswered
    <3>2. CASE ~calls[s].arg.alive
      BY <3>1, <3>2 DEF DevicesRegenerated, Proceeds, UiTyped
    <3>3. CASE calls[s].arg.alive /\ calls[s].outcome # "ok"
      BY <1>10, <3>1, <3>3 DEF DevicesRegenerated
    <3>4. CASE calls[s].arg.alive /\ calls[s].outcome = "ok"
      <4>1. /\ ui' = [ui EXCEPT !.child = [ui.child EXCEPT
                 !.dialogs = ui.child.dialogs \cup {"issued"}, !.submitting = FALSE,
                 !.fetchError = FALSE,
                 !.uncertain = Others(s) \/ ~calls[s].arg.current]]
            /\ AwaitNext(s, "listDevices", DevicesQuery(calls[s].arg.current))
        BY <3>1, <3>4 DEF DevicesRegenerated
      <4> QED
        BY <1>0, <3>1, <4>1, ChildSetTyped DEF ChildSet, Proceeds, Sends
    <3> QED
      BY <3>2, <3>3, <3>4
  <2> QED
    BY <1>12, <2>1, <2>2, <2>3, <2>4, <2>5 DEF DevicesHandle
<1> QED
  BY <1>1, <1>2, <1>3, <1>4, <1>5, <1>6, <1>7, <1>8, <1>9, <1>12 DEF DevicesStep

-----------------------------------------------------------------------------
(***************************************************************************)
(* The small pages.  The dashboard keeps in the argument of its second     *)
(* call what became of the first, and has a case for each of the ways the  *)
(* first can end (DashboardOK).                                            *)
(***************************************************************************)

StatisticsEnd == {"ok", "unauthorized", "failed"}

DashboardOK ==
  screen = "dashboard" =>
    \A s \in Slots :
      /\ calls[s].op \in {"idle", "getAuditStatistics", "getHealth"}
      /\ calls[s].op = "getAuditStatistics" => calls[s].outcome \in {"none"} \cup StatisticsEnd
      /\ calls[s].op = "getHealth" => calls[s].arg \in StatisticsEnd

LEMMA SmallTyped ==
  ASSUME UiTyped, DashboardOK, SmallStep \/ \E s \in Slots : SmallHandle(s)
  PROVE  (Proceeds(SmallOps) \/ Moves(SmallOps)) /\ UiTyped'
<1> USE DEF UiTyped, On
<1>1. ASSUME NEW here, NEW o \in SmallOps, MountOn(here, o)
      PROVE  Proceeds(SmallOps) /\ UiTyped'
  BY <1>1 DEF MountOn, SmallPage, Proceeds, Sends
<1>2. CASE DashboardMount \/ NetworkEditMount \/ DeviceEditMount \/ NetworkExportMount
  BY <1>1, <1>2 DEF DashboardMount, NetworkEditMount, DeviceEditMount, NetworkExportMount, SmallOps
<1>3. CASE DashboardUnlocked
  BY <1>3 DEF DashboardUnlocked, SmallPage, Proceeds, Sends, SmallOps
<1>4. CASE DashboardCloseUnlock \/ NetworkEditPsk
  BY <1>4 DEF DashboardCloseUnlock, DashboardShown, NetworkEditPsk, NetworkEditEnabled,
              NetworkEditShown, Proceeds
<1>5. CASE DashboardReload
  BY <1>5 DEF DashboardReload, Moves, Gone
<1>6. CASE NetworkEditGenerate \/ NetworkEditSubmit \/ DeviceEditSubmit
  BY <1>6 DEF NetworkEditGenerate, NetworkEditPskEnabled, NetworkEditSubmit, DeviceEditSubmit,
              NetworkEditEnabled, NetworkEditShown, DeviceEditEnabled, Proceeds, Sends, SmallOps
<1>7. CASE ExportMount
  BY <1>7 DEF ExportMount, SmallPage, Proceeds
<1>8. CASE ExportConfigs \/ \E o \in {"exportNetworks", "downloadExport"} : ExportNetworks(o)
  BY <1>8 DEF ExportConfigs, NetworkExportEnabled, ExportNetworks, ExportEnabled, Proceeds, Sends,
              SmallOps
<1>9. ASSUME NEW s \in Slots, SmallHandle(s)
      PROVE  (Proceeds(SmallOps) \/ Moves(SmallOps)) /\ UiTyped'
  <2>1. CASE DashboardStatistics(s)
    BY <2>1 DEF DashboardStatistics, Proceeds, Sends, SmallOps
  <2>2. CASE DashboardFetched(s)
    <3>1. calls[s].arg \in StatisticsEnd
      BY <2>2 DEF DashboardFetched, DashboardOK, Answered
    <3>2. ui # Unmounted /\ Proceeds(SmallOps)
      BY <2>2 DEF DashboardFetched, Proceeds
    <3>3. \/ ui' = [ui EXCEPT !.page = "shown"]
          \/ ui' = [ui EXCEPT !.page = "shown", !.unlock = TRUE]
          \/ ui' = [ui EXCEPT !.page = "error"]
      BY <2>2, <3>1 DEF DashboardFetched, StatisticsEnd
    <3> QED
      BY <3>2, <3>3
  <2>3. ASSUME NEW here, NEW o, FetchedOn(here, o, s)
        PROVE  Proceeds(SmallOps) /\ UiTyped'
    BY <2>3 DEF FetchedOn, Proceeds
  <2>4. CASE NetworkEditFetched(s) \/ DeviceEditFetched(s) \/ NetworkExportFetched(s)
    BY <2>3, <2>4 DEF NetworkEditFetched, DeviceEditFetched, NetworkExportFetched
  <2>5. CASE NetworkEditGenerated(s)
    BY <2>5 DEF NetworkEditGenerated, Proceeds
  <2>6. CASE NetworkEditSubmitted(s)
    BY <2>6 DEF NetworkEditSubmitted, Proceeds, Moves, Gone
  <2>7. CASE DeviceEditSubmitted(s)
    BY <2>7 DEF DeviceEditSubmitted, Proceeds
  <2>8. CASE Exported(s)
    BY <2>8 DEF Exported, Proceeds
  <2> QED
    BY <1>9, <2>1, <2>2, <2>4, <2>5, <2>6, <2>7, <2>8 DEF SmallHandle
<1> QED
  BY <1>2, <1>3, <1>4, <1>5, <1>6, <1>7, <1>8, <1>9 DEF SmallStep

-----------------------------------------------------------------------------
(***************************************************************************)
(* What the backend answers, page by page: the data is any, the outcome is *)
(* a success or one of the failures.                                       *)
(***************************************************************************)

LEMMA RepliesTyped ==
  ASSUME CallsTyped, screen \in AllScreens, NEW s \in Slots, Waiting(s)
  PROVE  \A r \in Replied(s) : r.outcome \in Failures \cup {"ok"}
<1> DEFINE Answers(replies) == \A r \in replies : r.outcome \in Failures \cup {"ok"}
<1> USE DEF Reply, Failures
<1>0. calls[s].op \in PageOps(screen)
  BY DEF CallsTyped, CallTyped, Waiting, Busy, Idle
<1>1. CASE screen = "networks"
  <2>1. Replied(s) = NetworksServer(s) /\ calls[s].op \in NetworksOps
    BY <1>0, <1>1, OpsOf DEF Replied, SmallScreens
  <2>2. Answers(NetworksServer(s))
    BY <2>1 DEF NetworksServer, NetworksOps, ListReply, CreateReplies, UpdateReply, DeleteReply
  <2> QED
    BY <2>1, <2>2
<1>2. CASE screen = "locations"
  <2>1. Replied(s) = LocationsServer(s) /\ calls[s].op \in LocationsOps
    BY <1>0, <1>2, OpsOf DEF Replied, SmallScreens
  <2>2. Answers(LocationsServer(s))
    BY <2>1 DEF LocationsServer, LocationsOps, ListReply, CreateReplies, UpdateReply, DeleteReply
  <2> QED
    BY <2>1, <2>2
<1>3. CASE screen = "devices"
  <2>1. Replied(s) = DevicesServer(s) /\ calls[s].op \in DevicesOps
    BY <1>0, <1>3, OpsOf DEF Replied, SmallScreens
  <2>2. Answers(DevicesServer(s))
    BY <2>1 DEF DevicesServer, DevicesOps, ListReply, CreateReplies, UpdateReply, DeleteReply
  <2> QED
    BY <2>1, <2>2
<1>4. CASE screen = "network"
  <2>1. Replied(s) = LintServer(s) /\ calls[s].op \in LintOps
    BY <1>0, <1>4, OpsOf DEF Replied, SmallScreens
  <2>2. Answers(LintServer(s))
    BY <2>1 DEF LintServer, LintOps, ListReply
  <2> QED
    BY <2>1, <2>2
<1>5. CASE screen = "fleet"
  <2>1. Replied(s) = FleetServer(s) /\ calls[s].op \in FleetOps \ {"idle"}
    BY <1>0, <1>5, OpsOf DEF Replied, SmallScreens
  <2>2. Answers(FleetServer(s))
    BY <2>1 DEF FleetServer, FleetOps, RegenerateOps, GenerateReply
  <2> QED
    BY <2>1, <2>2
<1>6. CASE screen = "deviceForm"
  <2>1. Replied(s) = FormServer(s) /\ calls[s].op \in FormOps \ {"idle"}
    BY <1>0, <1>6, OpsOf DEF Replied, SmallScreens
  <2>2. \A i, pub, priv : /\ KeyUpdate(i, pub, priv).outcome \in Failures \cup {"ok"}
                          /\ KeyCreation(i, pub, priv).outcome \in Failures \cup {"ok"}
    BY DEF KeyUpdate, KeyCreation
  <2>3. Answers(FormServer(s))
    BY <2>1, <2>2 DEF FormServer, FormOps, GenerateReply
  <2> QED
    BY <2>1, <2>3
<1>7. CASE screen = "device"
  <2>1. Replied(s) = DeviceServer(s)
    BY <1>7 DEF Replied, SmallScreens
  <2>2. Answers(DeviceServer(s))
    BY DEF DeviceServer, GenerateReply
  <2> QED
    BY <2>1, <2>2
<1>8. CASE screen = "connections"
  <2>1. Replied(s) = LinksServer(s) /\ calls[s].op \in LinksOps
    BY <1>0, <1>8, OpsOf DEF Replied, SmallScreens
  <2>2. Answers(LinksServer(s))
    BY <2>1 DEF LinksServer, LinksOps, LinkWriteOps, ListReply
  <2> QED
    BY <2>1, <2>2
<1>9. CASE screen = "rotation"
  <2>1. Replied(s) = RotationServer(s) /\ calls[s].op \in RotationOps
    BY <1>0, <1>9, OpsOf DEF Replied, SmallScreens
  <2>2. Answers(RotationServer(s))
    BY <2>1 DEF RotationServer, RotationOps
  <2> QED
    BY <2>1, <2>2
<1>10. CASE screen = "audit"
  <2>1. Replied(s) = AuditServer(s)
    BY <1>10 DEF Replied, SmallScreens
  <2>2. Answers(AuditServer(s))
    BY DEF AuditServer
  <2> QED
    BY <2>1, <2>2
<1>11. CASE screen = "settings"
  <2>1. Replied(s) = SettingsServer(s) /\ calls[s].op \in SettingsOps
    BY <1>0, <1>11, OpsOf DEF Replied, SmallScreens
  <2>2. Answers(SettingsServer(s))
    BY <2>1 DEF SettingsServer, SettingsOps, ListReply
  <2> QED
    BY <2>1, <2>2
<1>12. CASE screen = "session"
  <2>1. Replied(s) = SessionServer(s) /\ calls[s].op \in SessionOps
    BY <1>0, <1>12, OpsOf DEF Replied, SmallScreens
  <2>2. SUFFICES ASSUME NEW r \in SessionServer(s)
                 PROVE  r.outcome \in Failures \cup {"ok"}
    BY <2>1
  <2>3. CASE calls[s].op = "isMasterPasswordUnlocked"
    BY <2>3 DEF SessionServer
  <2>4. CASE calls[s].op = "unlockMasterPassword"
    <3>1. r = Unauthorized \/ \E d, t : r = Reply(d, "ok", t)
      BY <2>4 DEF SessionServer
    <3> QED
      BY <3>1 DEF Unauthorized
  <2>5. CASE calls[s].op = "getMasterPasswordStatus"
    <3>1. r = Unauthorized \/ r = Reply(db, "ok", db.open)
      BY <2>5 DEF SessionServer
    <3> QED
      BY <3>1 DEF Unauthorized
  <2>6. CASE calls[s].op = "lockMasterPassword"
    <3>1. r = Unauthorized \/ \E d, t : r = Reply(d, "ok", t)
      BY <2>6 DEF SessionServer
    <3> QED
      BY <3>1 DEF Unauthorized
  <2>7. CASE calls[s].op = "extendMasterPasswordTTL"
    <3>1. r = Unauthorized \/ \E o \in {"ok", "invalid"} : \E t : r = Reply(db, o, t)
      BY <2>7 DEF SessionServer
    <3> QED
      BY <3>1 DEF Unauthorized
  <2> QED
    BY <2>1, <2>3, <2>4, <2>5, <2>6, <2>7 DEF SessionOps, RefreshOps, ChangeOps
<1>13. CASE screen \in SmallScreens
  <2>1. Replied(s) = SmallServer(s)
    BY <1>13 DEF Replied, SmallScreens
  <2>2. Answers(SmallServer(s))
    BY DEF SmallServer, ListReply
  <2> QED
    BY <2>1, <2>2
<1>14. CASE screen = "client"
  BY <1>0, <1>14, OpsOf
<1> QED
  BY <1>1, <1>2, <1>3, <1>4, <1>5, <1>6, <1>7, <1>8, <1>9, <1>10, <1>11, <1>12, <1>13, <1>14 DEF AllScreens

LEMMA RefusalsTyped == \A s \in Slots : Refusals(s) \subseteq Failures
  BY DEF Refusals, Failures

-----------------------------------------------------------------------------
\* The argument of the second call of the dashboard is how the first ended.
LEMMA DashboardKeeps ==
  ASSUME CallsTyped, UiTyped, DashboardOK, screen = "dashboard", screen' = screen, PageNext
  PROVE  DashboardOK'
<1> DEFINE Fits(c) == /\ c.op \in {"idle", "getAuditStatistics", "getHealth"}
                      /\ c.op = "getAuditStatistics" => c.outcome \in {"none"} \cup StatisticsEnd
                      /\ c.op = "getHealth" => c.arg \in StatisticsEnd
<1>0. \A s \in Slots : Fits(calls[s])
  BY DEF DashboardOK
<1>1. Fits(Idle) /\ Fits(NewCall("getAuditStatistics", Nobody))
  BY DEF Idle, NewCall
<1>2. SUFFICES \A t \in Slots : Fits(calls'[t])
  BY DEF DashboardOK
<1>3. CASE UNCHANGED calls \/ calls' = [s \in Slots |-> Idle] \/ \E s \in Slots : Finish(s)
  BY <1>0, <1>1, <1>3 DEF Finish, CallsTyped
<1>4. CASE Await("getAuditStatistics", Nobody)
  <2>1. \E s \in Slots : /\ calls'[s] = NewCall("getAuditStatistics", Nobody)
                         /\ \A t \in Slots \ {s} : calls'[t] = calls[t]
    BY <1>4, AwaitTakesSlot, TypedIsOK
  <2> QED
    BY <1>0, <1>1, <2>1
<1>5. ASSUME NEW s \in Slots, DashboardStatistics(s)
      PROVE  \A t \in Slots : Fits(calls'[t])
  <2>1. calls[s].outcome \in StatisticsEnd
    BY <1>0, <1>5 DEF DashboardStatistics, Answered
  <2>2. Fits(NewCall("getHealth", calls[s].outcome))
    BY <2>1 DEF NewCall
  <2>3. calls' = [calls EXCEPT ![s] = NewCall("getHealth", calls[s].outcome)]
    BY <1>5 DEF DashboardStatistics, AwaitNext
  <2> QED
    BY <1>0, <2>2, <2>3 DEF CallsTyped
<1>6. CASE SmallStep
  BY <1>3, <1>4, <1>6
     DEF SmallStep, DashboardMount, MountOn, DashboardUnlocked, DashboardCloseUnlock,
         DashboardReload, NetworkEditMount, NetworkEditPsk, NetworkEditGenerate,
         NetworkEditSubmit, DeviceEditMount, DeviceEditSubmit, ExportMount,
         NetworkExportMount, ExportConfigs, ExportNetworks, NetworkEditPskEnabled,
         NetworkEditEnabled, NetworkEditShown, DeviceEditEnabled, ExportEnabled,
         NetworkExportEnabled, On
<1>7. ASSUME NEW s \in Slots, SmallHandle(s)
      PROVE  \A t \in Slots : Fits(calls'[t])
  BY <1>3, <1>5, <1>7
     DEF SmallHandle, DashboardFetched, NetworkEditFetched, NetworkEditGenerated,
         NetworkEditSubmitted, DeviceEditFetched, DeviceEditSubmitted, FetchedOn,
         NetworkExportFetched, Exported, On
<1>8. CASE Leave
  <2>1. \A t \in Slots : Fits(Orphaned(calls[t]))
    <3>1. SUFFICES ASSUME NEW t \in Slots PROVE Fits(Orphaned(calls[t]))
      OBVIOUS
    <3>2. CASE Orphaned(calls[t]) \in {Idle, calls[t]}
      BY <1>0, <1>1, <3>2
    <3>3. CASE Orphaned(calls[t]) = [calls[t] EXCEPT !.mine = FALSE] /\ calls[t].op # "idle"
      <4>1. CallTyped(screen, calls[t])
        BY <3>3 DEF CallsTyped, Idle
      <4> QED
        BY <1>0, <3>3, <4>1 DEF CallTyped, CallFields
    <3> QED
      BY <3>2, <3>3 DEF Orphaned
  <2> QED
    BY <1>8, <2>1 DEF Leave, Unmount
<1>9. ASSUME NEW s \in Slots, NEW o, NEW d, Waiting(s), Settle(s, o, d),
             calls[s].op = "getAuditStatistics" => o \in StatisticsEnd
      PROVE  \A t \in Slots : Fits(calls'[t])
  <2>1. CASE Finish(s)
    BY <1>3, <2>1
  <2>2. CASE calls' = [calls EXCEPT ![s].outcome = o, ![s].data = d]
    <3>1. CallTyped(screen, calls[s])
      BY <1>9 DEF CallsTyped, Waiting, Busy, Idle
    <3>2. Fits([calls[s] EXCEPT !.outcome = o, !.data = d])
      BY <1>0, <1>9, <3>1 DEF CallTyped, CallFields
    <3>3. /\ calls'[s] = [calls[s] EXCEPT !.outcome = o, !.data = d]
          /\ \A t \in Slots \ {s} : calls'[t] = calls[t]
      BY <2>2 DEF CallsTyped
    <3> QED
      BY <1>0, <3>2, <3>3
  <2> QED
    BY <1>9, <2>1, <2>2 DEF Settle
<1>10. ASSUME NEW s \in Slots, BackendAnswers(s) \/ AnswerLost(s)
       PROVE  \A t \in Slots : Fits(calls'[t])
  <2>1. Waiting(s) /\ calls[s].op \in {"getAuditStatistics", "getHealth"}
    BY <1>0, <1>10 DEF BackendAnswers, AnswerLost, Waiting, Busy
  <2>2. Replied(s) = {Reply(db, "ok", db)}
    BY <2>1 DEF Replied, SmallScreens, SmallServer, ListReply
  <2>3. calls[s].op = "getAuditStatistics" => Refusals(s) = {"failed", "unauthorized"}
    BY <2>1 DEF Refusals
  <2>4. ~AnswerLost(s)
    BY <2>2 DEF AnswerLost, LoseAnswer, Reply
  <2>5. CASE Perform(s, Replied(s))
    <3>1. Settle(s, "ok", db)
      BY <2>2, <2>5 DEF Perform, Reply
    <3> QED
      BY <1>9, <2>1, <3>1 DEF StatisticsEnd
  <2>6. CASE Refuse(s, Refusals(s))
    <3>1. PICK k \in Refusals(s) : Settle(s, k, Nobody)
      BY <2>6 DEF Refuse
    <3> QED
      BY <1>9, <2>1, <2>3, <3>1 DEF StatisticsEnd
  <2> QED
    BY <1>10, <2>4, <2>5, <2>6 DEF BackendAnswers
<1> QED
  BY <1>6, <1>7, <1>8, <1>10 DEF PageNext, PageStep, PageHandle, SmallScreens

-----------------------------------------------------------------------------
\* The calls in flight and the pages, whatever the screen.
PagesInv ==
  /\ CallsTyped /\ UiTyped /\ DashboardOK
  /\ screen \notin AllScreens => ui = Unmounted /\ \A s \in Slots : calls[s] = Idle

\* The steps of the user and of the timers, and the handlers that go on.
LEMMA PageMoves ==
  ASSUME PagesInv, FormInv, SessionInv, PageStep \/ \E s \in Slots : PageHandle(s)
  PROVE  /\ screen \in AllScreens /\ UiTyped'
         /\ Proceeds(PageOps(screen)) \/ Moves(PageOps(screen))
<1> USE DEF PagesInv
<1>1. CASE screen = "networks"
  <2>1. NetworksStep \/ \E s \in Slots : NetworksHandle(s)
    BY <1>1 DEF PageStep, PageHandle, SmallScreens
  <2> QED
    BY <1>1, <2>1, NetworksTyped, OpsOf DEF AllScreens
<1>2. CASE screen = "locations"
  <2>1. LocationsStep \/ \E s \in Slots : LocationsHandle(s)
    BY <1>2 DEF PageStep, PageHandle, SmallScreens
  <2> QED
    BY <1>2, <2>1, LocationsTyped, OpsOf DEF AllScreens
<1>3. CASE screen = "devices"
  <2>1. DevicesStep \/ \E s \in Slots : DevicesHandle(s)
    BY <1>3 DEF PageStep, PageHandle, SmallScreens
  <2> QED
    BY <1>3, <2>1, DevicesTyped, OpsOf DEF AllScreens
<1>4. CASE screen = "network"
  <2>1. LintStep \/ \E s \in Slots : LintHandle(s)
    BY <1>4 DEF PageStep, PageHandle, SmallScreens
  <2> QED
    BY <1>4, <2>1, LintTyped, OpsOf DEF AllScreens
<1>5. CASE screen = "fleet"
  <2>1. FleetStep \/ \E s \in Slots : FleetHandle(s)
    BY <1>5 DEF PageStep, PageHandle, SmallScreens
  <2> QED
    BY <1>5, <2>1, FleetTyped, OpsOf DEF AllScreens
<1>6. CASE screen = "deviceForm"
  <2>1. FormStep \/ \E s \in Slots : FormHandle(s)
    BY <1>6 DEF PageStep, PageHandle, SmallScreens
  <2>2. FormMine
    BY <1>6 DEF FormInv
  <2> QED
    BY <1>6, <2>1, <2>2, FormTyped, OpsOf DEF AllScreens
<1>7. CASE screen = "device"
  <2>1. DeviceStep \/ \E s \in Slots : DeviceHandle(s)
    BY <1>7 DEF PageStep, PageHandle, SmallScreens
  <2> QED
    BY <1>7, <2>1, DeviceTyped, OpsOf DEF AllScreens
<1>8. CASE screen = "connections"
  <2>1. LinksStep \/ \E s \in Slots : LinksHandle(s)
    BY <1>8 DEF PageStep, PageHandle, SmallScreens
  <2> QED
    BY <1>8, <2>1, LinksTyped, OpsOf DEF AllScreens
<1>9. CASE screen = "rotation"
  <2>1. RotationStep \/ \E s \in Slots : RotationHandle(s)
    BY <1>9 DEF PageStep, PageHandle, SmallScreens
  <2> QED
    BY <1>9, <2>1, RotationTyped, OpsOf DEF AllScreens
<1>10. CASE screen = "audit"
  <2>1. AuditStep \/ \E s \in Slots : AuditHandle(s)
    BY <1>10 DEF PageStep, PageHandle, SmallScreens
  <2> QED
    BY <1>10, <2>1, AuditTyped, OpsOf DEF AllScreens
<1>11. CASE screen = "settings"
  <2>1. SettingsStep \/ \E s \in Slots : SettingsHandle(s)
    BY <1>11 DEF PageStep, PageHandle, SmallScreens
  <2> QED
    BY <1>11, <2>1, SettingsTyped, OpsOf DEF AllScreens
<1>12. CASE screen = "session"
  <2>1. SessionStep \/ \E s \in Slots : SessionHandle(s)
    BY <1>12 DEF PageStep, PageHandle, SmallScreens
  <2>2. SessionCalls
    BY <1>12 DEF SessionInv, SessionTypes
  <2> QED
    BY <1>12, <2>1, <2>2, SessionTyped, OpsOf DEF AllScreens
<1>13. CASE screen \in SmallScreens
  <2>1. SmallStep \/ \E s \in Slots : SmallHandle(s)
    BY <1>13 DEF PageStep, PageHandle, SmallScreens
  <2> QED
    BY <1>13, <2>1, SmallTyped, OpsOf DEF AllScreens
<1> QED
  BY <1>1, <1>2, <1>3, <1>4, <1>5, <1>6, <1>7, <1>8, <1>9, <1>10, <1>11, <1>12, <1>13
     DEF PageStep, PageHandle

LEMMA PagesKept ==
  ASSUME PagesInv, FormInv, SessionInv, screen' = screen, PageNext
  PROVE  PagesInv'
<1>1. CASE PageStep \/ \E s \in Slots : PageHandle(s)
  <2>1. /\ screen \in AllScreens /\ UiTyped'
        /\ Proceeds(PageOps(screen)) \/ Moves(PageOps(screen))
    BY <1>1, PageMoves
  <2>2. CallsTyped'
    BY <2>1, ProceedsTyped, MovesTyped DEF PagesInv
  <2> QED
    BY <2>1, <2>2, DashboardKeeps DEF PagesInv, DashboardOK
<1>2. CASE Leave
  <2>1. ui # Unmounted /\ screen \in AllScreens /\ UiTyped'
    BY <1>2 DEF Leave, Unmount, PagesInv, UiTyped
  <2>2. Moves(PageOps(screen))
    BY <1>2 DEF Leave, Unmount, Moves, Gone
  <2>3. CallsTyped'
    BY <2>1, <2>2, MovesTyped DEF PagesInv
  <2> QED
    BY <2>1, <2>3, DashboardKeeps DEF PagesInv, DashboardOK
<1>3. ASSUME NEW s \in Slots, BackendAnswers(s) \/ AnswerLost(s)
      PROVE  PagesInv'
  <2>1. Waiting(s) /\ screen \in AllScreens
    BY <1>3 DEF BackendAnswers, AnswerLost, Waiting, Busy, Idle, PagesInv
  <2>2. \A r \in Replied(s) : r.outcome \in Failures \cup {"ok"}
    BY <2>1, RepliesTyped DEF PagesInv
  <2>3. Perform(s, Replied(s)) \/ LoseAnswer(s, Replied(s)) \/ Refuse(s, Refusals(s))
    BY <1>3 DEF BackendAnswers, AnswerLost
  <2>4. CallsTyped' /\ UiTyped'
    BY <2>2, <2>3, AnswerTyped, RefusalsTyped DEF PagesInv
  <2> QED
    BY <2>1, <2>4, DashboardKeeps DEF PagesInv, DashboardOK
<1> QED
  BY <1>1, <1>2, <1>3 DEF PageNext

-----------------------------------------------------------------------------
\* Screen "client" has its one call, and the others have their pages.
TypesInv ==
  /\ screen \in Screens /\ PagesInv
  /\ screen = "client" => ClientInv
  /\ ClientTypeOK

LEMMA NoClientTyped == NoClientCall => ClientTypeOK
<1>1. "getHealth" \in DOMAIN NetworkCalls
  BY DEF NetworkCalls
<1>2. "getHealth" \in DOMAIN Method
  BY <1>1 DEF Method, Merged
<1> QED
  BY <1>2, RetriesAssumption DEF NoClientCall, ClientTypeOK, Phases, Replies, Outcomes

LEMMA TypesAlways == FrontendSpec => []TypesInv
<1>1. FrontendInit => TypesInv
  <2> SUFFICES ASSUME FrontendInit PROVE TypesInv
    OBVIOUS
  <2>1. calls = [s \in Slots |-> Idle] /\ ui = Unmounted /\ screen \in Screens
    BY DEF FrontendInit
  <2>2. PagesInv
    BY <2>1 DEF PagesInv, CallsTyped, UiTyped, DashboardOK, Idle
  <2>3. CASE screen = "client"
    BY <2>1, <2>2, <2>3, InitEstablishes DEF FrontendInit, TypesInv, ClientInv
  <2>4. CASE screen # "client"
    BY <2>1, <2>2, <2>4, NoClientTyped DEF FrontendInit, TypesInv
  <2> QED
    BY <2>3, <2>4
<1>2. FormInv /\ SessionInv /\ TypesInv /\ [FrontendNext]_allVars => TypesInv'
  <2> SUFFICES ASSUME FormInv, SessionInv, TypesInv, [FrontendNext]_allVars
               PROVE  TypesInv'
    OBVIOUS
  <2>1. screen' = screen
    BY ScreenStays
  <2>2. ASSUME UNCHANGED vars PROVE PagesInv'
    BY <2>2 DEF vars, TypesInv, PagesInv, CallsTyped, UiTyped, DashboardOK
  <2>3. ASSUME UNCHANGED clientVars
        PROVE  ClientTypeOK' /\ (screen = "client" => ClientInv')
    BY <2>3, StutterPreserves DEF clientVars, TypesInv, ClientTypeOK
  <2>4. CASE UNCHANGED allVars
    BY <2>1, <2>2, <2>3, <2>4 DEF allVars, TypesInv
  <2>5. CASE screen # "client" /\ PageNext /\ UNCHANGED clientVars
    BY <2>1, <2>3, <2>5, PagesKept DEF TypesInv
  <2>6. CASE screen = "client" /\ ClientNext /\ UNCHANGED vars
    <3>1. ClientInv'
      BY <2>6, StepPreserves, BackendPreserves DEF ClientNext, TypesInv
    <3> QED
      BY <2>1, <2>2, <2>6, <3>1 DEF TypesInv, ClientInv
  <2> QED
    BY <2>4, <2>5, <2>6 DEF FrontendNext
<1> QED
  BY <1>1, <1>2, FormAlways, SessionAlways, PTL DEF FrontendSpec

\* The types of the frontend, for any number of records, of calls in flight
\* and of retries: every call a page has in flight is one the client offers,
\* it has ended in one of the ways the handlers tell apart, and no call that
\* is not repeatable goes on after the backend performed it (request() in
\* lib/api-client.ts and the handlers that await it).
THEOREM FrontendTypes == FrontendSpec => []FrontendTypeOK
<1>1. TypesInv => FrontendTypeOK
  <2> SUFFICES ASSUME TypesInv PROVE FrontendTypeOK
    OBVIOUS
  <2>1. ASSUME NEW s \in Slots, Busy(s)
        PROVE  CallTyped(screen, calls[s]) /\ screen \in AllScreens
    BY <2>1 DEF TypesInv, PagesInv, CallsTyped, Busy, Idle
  <2>2. ASSUME NEW s \in Slots, Busy(s) PROVE calls[s].op \in DOMAIN Method
    BY <2>1, <2>2, KnownOps DEF CallTyped
  <2> QED
    BY <2>1, <2>2 DEF TypesInv, PagesInv, UiTyped, FrontendTypeOK, CallTyped, Endings
<1> QED
  BY <1>1, TypesAlways, PTL
=============================================================================
