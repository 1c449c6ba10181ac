--------------------------- MODULE FrontendProofs ---------------------------
(***************************************************************************)
(* Theorems about the pages of the web frontend, for any number of records *)
(* and of calls in flight, and for every order of answers.                 *)
(*                                                                         *)
(* A behaviour stays with one page (ScreenStays), so each theorem is about *)
(* the steps of one page only.  Its invariant has the same shape for all:  *)
(* every slot is free or has a whole call (CallsOK), the state of the page *)
(* has its fields, the calls in flight are some the page makes, and the    *)
(* relation between the two that the property needs.                       *)
(***************************************************************************)
EXTENDS Frontend, TLAPS

(***************************************************************************)
(* No step leaves the page of the behaviour.                               *)
(***************************************************************************)

LEMMA NetworksStay ==
  ASSUME NetworksStep \/ \E s \in Slots : NetworksHandle(s)
  PROVE  screen' = screen
  BY DEF NetworksStep, NetworksHandle, NetworksMount, NetworksUnlocked,
         NetworksSearch, NetworksSort, NetworksRetry, NetworksRefetch,
         NetworksOpenCreate, NetworksOpenEdit, NetworksOpenDelete,
         NetworksClose, NetworksSubmitCreate, NetworksSubmitUpdate,
         NetworksSubmitDelete, NetworksFetched, NetworksCreated,
         NetworksUpdated, NetworksDeleted

LEMMA LocationsStay ==
  ASSUME LocationsStep \/ \E s \in Slots : LocationsHandle(s)
  PROVE  screen' = screen
  BY DEF LocationsStep, LocationsHandle, NetworkMount, NetworkLeaveTab,
         NetworkEnterTab, NetworkFetched, LocationsRetry, LocationsOpenCreate,
         LocationsOpenEdit, LocationsOpenDelete, LocationsClose,
         LocationsSubmitCreate, LocationsSubmitUpdate, LocationsSubmitDelete,
         LocationsSubmit, LocationsFetched, LocationsCreated, LocationsUpdated,
         LocationsDeleted

LEMMA DevicesStay ==
  ASSUME DevicesStep \/ \E s \in Slots : DevicesHandle(s)
  PROVE  screen' = screen
  BY DEF DevicesStep, DevicesHandle, NetworkMount, NetworkLeaveTab,
         NetworkEnterTab, NetworkFetched, DevicesFilter, DevicesDue,
         DevicesRetry, DevicesOpenCreate, DevicesOpenEdit, DevicesOpenDelete,
         DevicesRegenerateApiKey, DevicesRegenerateKeys, DevicesRegenerate,
         DevicesSend, DevicesClose, DevicesSubmitCreate, DevicesSubmitUpdate,
         DevicesSubmitDelete, DevicesFetched, DevicesCreated, DevicesUpdated,
         DevicesDeleted, DevicesApiKeyRegenerated, DevicesKeysRegenerated

LEMMA LintStay ==
  ASSUME LintStep \/ \E s \in Slots : LintHandle(s)
  PROVE  screen' = screen
  BY DEF LintStep, LintHandle, LintMount, LintChanged, LintRefresh,
         LintFetched, LintRead, LintAnswered

LEMMA FleetStay ==
  ASSUME FleetStep \/ \E s \in Slots : FleetHandle(s)
  PROVE  screen' = screen
  BY DEF FleetStep, FleetHandle, FleetMount, FleetRetry, FleetOpenCreate,
         FleetSubmitCreate, FleetClose, FleetRegenerateApiKey,
         FleetRegenerateKeys, FleetRegenerate, FleetFetched, FleetCreated,
         FleetApiKeyRegenerated, FleetKeysRegenerated

LEMMA FormStay ==
  ASSUME FormStep \/ \E s \in Slots : FormHandle(s)
  PROVE  screen' = screen
  BY DEF FormStep, FormHandle, FormMount, FormOpenCreate, FormClose,
         FormOpenEdit, FormGenerate, FormGeneratePsk, FormLoad, FormSubmit,
         FormGenerated, FormPskGenerated, FormLoaded, FormSubmitted

LEMMA DeviceStay ==
  ASSUME DeviceStep \/ \E s \in Slots : DeviceHandle(s)
  PROVE  screen' = screen
  BY DEF DeviceStep, DeviceHandle, DeviceMount, ApiKeyDialog, ApiKeyRegenerate,
         PreviewConfig, HideConfig, DownloadConfig, DeviceTab, DeviceFetched,
         ApiKeyRegenerated, ConfigLoaded, ConfigDownloaded

LEMMA LinksStay ==
  ASSUME LinksStep \/ \E s \in Slots : LinksHandle(s)
  PROVE  screen' = screen
  BY DEF LinksStep, LinksHandle, LinksMount, LinksRefresh, LinksPickLine,
         LinksPickDevice, LinksRevert, LinksSave, LinksEdit, LinksFetched,
         LinksSaved

LEMMA RotationStay ==
  ASSUME RotationStep \/ \E s \in Slots : RotationHandle(s)
  PROVE  screen' = screen
  BY DEF RotationStep, RotationHandle, RotationMount, RotationLeave,
         RotationSubmit, RotationEstimated, CurrentPasswordChecked,
         RotationSucceeded, RotationFailed

LEMMA AuditStay ==
  ASSUME AuditStep \/ \E s \in Slots : AuditHandle(s)
  PROVE  screen' = screen
  BY DEF AuditStep, AuditHandle, AuditFetch, AuditMount, AuditFetched,
         AuditToggleFilters, AuditFilterBy, AuditTurnPage, AuditClearFilters,
         AuditRefresh, AuditTryAgain, AuditExport, AuditExported

LEMMA SettingsStay ==
  ASSUME SettingsStep \/ \E s \in Slots : SettingsHandle(s)
  PROVE  screen' = screen
  BY DEF SettingsStep, SettingsHandle, SettingsMount, SettingsTryAgain,
         SettingsSave, ProxiesEdit, ProxiesCancelEdit, EditLimit,
         ProxiesChange, ProxiesSaveEdit, SettingsFetched, SettingsSaved,
         SettingsNotSaved

LEMMA SessionStay ==
  ASSUME SessionStep \/ \E s \in Slots : SessionHandle(s)
  PROVE  screen' = screen
  BY DEF SessionStep, SessionHandle, SessionMount, SessionReload, SessionPoll,
         SessionOpenDialog, SessionCloseDialog, SessionUnlock, SessionLock,
         SessionLockNow, SessionForceLock, SessionExtend, SessionSend,
         BackendChanges, SessionRefreshed, SessionUnlocked, SessionLocked,
         SessionExtended

LEMMA SmallStay ==
  ASSUME SmallStep \/ \E s \in Slots : SmallHandle(s)
  PROVE  screen' = screen
  BY DEF SmallStep, SmallHandle, MountOn, FetchedOn, DashboardMount,
         DashboardUnlocked, DashboardCloseUnlock, DashboardReload,
         DashboardStatistics, DashboardFetched, NetworkEditMount,
         NetworkEditFetched, NetworkEditPsk, NetworkEditGenerate,
         NetworkEditGenerated, NetworkEditSubmit, NetworkEditSubmitted,
         DeviceEditMount, DeviceEditFetched, DeviceEditSubmit,
         DeviceEditSubmitted, ExportMount, NetworkExportMount,
         NetworkExportFetched, ExportNetworks, ExportConfigs, Exported

\* A behaviour stays with the page it is about.
LEMMA ScreenStays == [FrontendNext]_allVars => screen' = screen
<1>1. CASE UNCHANGED allVars
  BY <1>1 DEF allVars, vars
<1>2. CASE screen = "client" /\ UNCHANGED vars
  BY <1>2 DEF vars
<1>3. CASE PageNext
  <2>1. CASE PageStep \/ \E s \in Slots : PageHandle(s)
    BY <2>1, NetworksStay, LocationsStay, DevicesStay, LintStay, FleetStay,
       FormStay, DeviceStay, LinksStay, RotationStay, AuditStay,
       SettingsStay, SessionStay, SmallStay
       DEF PageStep, PageHandle
  <2>2. CASE Leave
    BY <2>2 DEF Leave, Unmount
  <2>3. CASE \E s \in Slots : BackendAnswers(s) \/ AnswerLost(s)
    BY <2>3 DEF BackendAnswers, AnswerLost, Perform, Refuse, LoseAnswer
  <2> QED
    BY <1>3, <2>1, <2>2, <2>3 DEF PageNext
<1> QED
  BY <1>1, <1>2, <1>3 DEF FrontendNext

-----------------------------------------------------------------------------
(***************************************************************************)
(* Calls in flight.                                                        *)
(***************************************************************************)

CallFields == {"op", "arg", "mine", "done", "outcome", "data"}

\* Every slot is free or has a call with all its fields.
CallsOK ==
  /\ DOMAIN calls = Slots
  /\ \A s \in Slots : IF Busy(s) THEN CallFields \subseteq DOMAIN calls[s]
                      ELSE calls[s] = Idle

\* The calls in flight are those there were, as far as they go on, in their
\* slots, for the same operation and with the same argument.
SameCall(c, d) == d.op = c.op /\ d.arg = c.arg /\ d.mine = c.mine

LEMMA AwaitTakesSlot ==
  ASSUME CallsOK, NEW op_, op_ # "idle", NEW arg, Await(op_, arg)
  PROVE  /\ CallsOK'
         /\ \E s \in Slots :
              /\ ~Busy(s) /\ calls'[s] = NewCall(op_, arg)
              /\ \A t \in Slots \ {s} : calls'[t] = calls[t]
<1>1. AnyFree \in Slots /\ ~Busy(AnyFree)
  BY DEF Await, AnyFree, FreeSlots
<1> QED
  BY <1>1 DEF CallsOK, CallFields, Await, NewCall, Idle, Busy

LEMMA FinishFrees ==
  ASSUME CallsOK, NEW s \in Slots, Finish(s)
  PROVE  /\ CallsOK' /\ calls'[s] = Idle
         /\ \A t \in Slots \ {s} : calls'[t] = calls[t]
  BY DEF CallsOK, CallFields, Finish, Idle, Busy

LEMMA AwaitNextReplaces ==
  ASSUME CallsOK, NEW s \in Slots, NEW op_, op_ # "idle", NEW arg, AwaitNext(s, op_, arg)
  PROVE  /\ CallsOK' /\ calls'[s] = NewCall(op_, arg)
         /\ \A t \in Slots \ {s} : calls'[t] = calls[t]
  BY DEF CallsOK, CallFields, AwaitNext, NewCall, Idle, Busy

\* What the backend and the network do to the call in slot s.
LEMMA SettleAnswers ==
  ASSUME CallsOK, NEW s \in Slots, NEW o, NEW d, Busy(s), Settle(s, o, d)
  PROVE  /\ CallsOK'
         /\ \A t \in Slots \ {s} : calls'[t] = calls[t]
         /\ \/ calls'[s] = Idle /\ ~calls[s].mine
            \/ /\ SameCall(calls[s], calls'[s]) /\ calls[s].mine
               /\ calls'[s].outcome = o /\ calls'[s].data = d
  BY DEF CallsOK, CallFields, Settle, Finish, SameCall, Idle, Busy

LEMMA AnswerKeepsCalls ==
  ASSUME CallsOK, NEW s \in Slots, NEW replies, NEW outcomes,
         Perform(s, replies) \/ LoseAnswer(s, replies) \/ Refuse(s, outcomes)
  PROVE  /\ CallsOK' /\ ui' = ui /\ screen' = screen
         /\ \A t \in Slots \ {s} : calls'[t] = calls[t]
         /\ (calls'[s] = Idle /\ ~calls[s].mine) \/ SameCall(calls[s], calls'[s])
<1>0. Busy(s)
  BY DEF Perform, LoseAnswer, Refuse, Waiting
<1>1. CASE Perform(s, replies)
  BY <1>0, <1>1, SettleAnswers DEF Perform
<1>2. CASE Refuse(s, outcomes)
  BY <1>0, <1>2, SettleAnswers DEF Refuse
<1>3. CASE LoseAnswer(s, replies)
  <2>1. CASE Repeats(calls[s].op)
    BY <1>0, <1>3, <2>1 DEF LoseAnswer, CallsOK, CallFields, SameCall, Idle, Busy
  <2>2. CASE ~Repeats(calls[s].op)
    BY <1>0, <1>3, <2>2, SettleAnswers DEF LoseAnswer
  <2> QED
    BY <2>1, <2>2
<1> QED
  BY <1>1, <1>2, <1>3

LEMMA UnmountKeepsCalls ==
  ASSUME CallsOK, Unmount
  PROVE  /\ CallsOK' /\ ui' = Unmounted /\ screen' = screen /\ db' = db
         /\ \A t \in Slots : ~Mine(t)'
         /\ \A t \in Slots :
              \/ calls'[t] = Idle
              \/ /\ calls'[t].op = calls[t].op /\ calls'[t].arg = calls[t].arg
                 /\ ~Reads(calls[t].op)
<1>1. \A t \in Slots : calls'[t] = Orphaned(calls[t])
  BY DEF Unmount
<1>2. ASSUME NEW t \in Slots
      PROVE  \/ calls'[t] = Idle
             \/ /\ calls'[t].op = calls[t].op /\ calls'[t].arg = calls[t].arg
                /\ Busy(t) /\ ~Reads(calls[t].op) /\ ~calls'[t].mine
                /\ CallFields \subseteq DOMAIN calls'[t]
  BY <1>1 DEF CallsOK, CallFields, Orphaned, Busy
<1> QED
  BY <1>2 DEF Unmount, CallsOK, Idle, Busy, Mine
-----------------------------------------------------------------------------
(***************************************************************************)
(* The device form.  A private key can come from anywhere; a public key    *)
(* that is submitted is "new" or that of the device it is submitted for.   *)
(***************************************************************************)

FormFields == {"mode", "open", "device", "pub", "priv", "submitting"}

FormUiOK ==
  ui # Unmounted =>
    /\ FormFields \subseteq DOMAIN ui
    /\ ui.mode \in {"create", "edit"}
    /\ ui.mode = "create" => ui.pub \in {"new", Nobody}
    /\ ui.mode = "edit" /\ ui.open =>
         ui.device \in Items /\ ui.pub \in {ui.device, "new", Nobody}

FormOps == {"generateWireGuardKeys", "generateWireGuardPresharedKey",
            "getAdminDeviceConfig", "updateDevice", "createDevice", "idle"}

FormCallsOK ==
  \A s \in Slots :
    /\ calls[s].op \in FormOps
    /\ calls[s].op = "updateDevice" => calls[s].arg.pub \in {calls[s].arg.id, "new"}
    /\ calls[s].op = "createDevice" => calls[s].arg.pub = "new"

\* A page that is gone has no calls of its own.
FormMine == ui = Unmounted => \A s \in Slots : ~Mine(s)

KeysOK == /\ DOMAIN db = Items
          /\ \A i \in Items : db[i] \in {i, "new", Nobody}

FormInv == screen = "deviceForm" => CallsOK /\ FormUiOK /\ FormMine /\ FormCallsOK /\ KeysOK

LEMMA FormNextSteps ==
  ASSUME FrontendNext, screen = "deviceForm"
  PROVE  \/ FormStep \/ Unmount
         \/ \E s \in Slots : \/ FormHandle(s)
                             \/ Perform(s, FormServer(s))
                             \/ Refuse(s, Refusals(s))
                             \/ LoseAnswer(s, FormServer(s))
<1>1. \A s \in Slots : Replied(s) = FormServer(s)
  BY DEF Replied, SmallScreens
<1> QED
  BY <1>1 DEF FrontendNext, PageNext, PageStep, PageHandle, Leave,
             BackendAnswers, AnswerLost, SmallScreens

LEMMA FormInit ==
  ASSUME FrontendInit, screen = "deviceForm"
  PROVE  CallsOK /\ FormUiOK /\ FormMine /\ FormCallsOK /\ KeysOK
<1>1. db \in {[i \in Items |-> Nobody], [i \in Items |-> i]}
  BY DEF FrontendInit, Stored, SmallScreens
<1> QED
  BY <1>1 DEF FrontendInit, CallsOK, CallFields, FormUiOK, FormMine,
              FormCallsOK, FormOps, KeysOK, Idle, Busy, Mine

\* A reply changes no key, or gives a device a key that matches.
LEMMA FormReplies ==
  ASSUME FormCallsOK, KeysOK, NEW s \in Slots, NEW r \in FormServer(s), Busy(s)
  PROVE  DOMAIN r.db = Items /\ \A i \in Items : r.db[i] \in {i, "new", Nobody}
<1> USE DEF KeysOK, FormCallsOK, FormOps, Reply
<1>1. CASE calls[s].op = "updateDevice"
  <2>1. r = KeyUpdate(calls[s].arg.id, calls[s].arg.pub, calls[s].arg.priv)
    BY <1>1 DEF FormServer
  <2> QED
    BY <1>1, <2>1 DEF KeyUpdate
<1>2. CASE calls[s].op = "createDevice"
  <2>1. PICK i \in Items : r = KeyCreation(i, calls[s].arg.pub, calls[s].arg.priv)
    BY <1>2 DEF FormServer
  <2> QED
    BY <1>2, <2>1 DEF KeyCreation
<1>3. CASE calls[s].op \notin {"updateDevice", "createDevice"}
  <2>1. r.db = db
    BY <1>3 DEF FormServer, GenerateReply, Busy
  <2> QED
    BY <2>1
<1> QED
  BY <1>1, <1>2, <1>3

LEMMA FormStepKeeps ==
  ASSUME CallsOK, FormUiOK, FormMine, FormCallsOK, KeysOK, FormStep
  PROVE  CallsOK' /\ FormUiOK' /\ FormMine' /\ FormCallsOK' /\ KeysOK'
<1> USE ScreenAssumption
        DEF FormUiOK, FormFields, FormOpen, Unmounted
<1>0. ui' # Unmounted
  <2>1. CASE FormMount
    BY <2>1 DEF FormMount, FormFresh
  <2>2. CASE ~FormMount
    <3>1. FormFields \subseteq DOMAIN ui'
      BY <2>2 DEF FormStep, FormOpenCreate, FormClose, FormOpenEdit, FormReset,
                  FormGenerate, FormGenerateEnabled, FormGeneratePsk,
                  FormPskEnabled, FormLoad, FormLoadEnabled, FormSubmit,
                  FormSubmitEnabled
    <3> QED
      BY <3>1
  <2> QED
    BY <2>1, <2>2
<1>1. CASE FormMount \/ FormOpenCreate \/ FormClose \/ \E i \in Items : FormOpenEdit(i)
  <2>1. UNCHANGED <<calls, db>>
    BY <1>1 DEF FormMount, FormOpenCreate, FormClose, FormOpenEdit
  <2>2. FormUiOK'
    <3>1. CASE FormMount
      BY <3>1 DEF FormMount, FormFresh
    <3>2. CASE FormOpenCreate \/ FormClose
      BY <3>2 DEF FormOpenCreate, FormClose
    <3>3. CASE \E i \in Items : FormOpenEdit(i)
      BY <3>3 DEF FormOpenEdit, FormReset, KeysOK
    <3> QED
      BY <1>1, <3>1, <3>2, <3>3
  <2> QED
    BY <1>0, <2>1, <2>2 DEF CallsOK, Busy, FormMine, FormCallsOK, KeysOK
<1>2. CASE FormGenerate \/ FormGeneratePsk \/ FormLoad \/ FormSubmit
  <2>1. FormUiOK' /\ KeysOK'
    BY <1>2 DEF FormGenerate, FormGenerateEnabled, FormGeneratePsk,
                FormPskEnabled, FormLoad, FormLoadEnabled, FormSubmit,
                FormSubmitEnabled, KeysOK
  <2>2. CASE FormGenerate \/ FormGeneratePsk \/ FormLoad
    <3>1. PICK o \in FormOps \ {"idle", "updateDevice", "createDevice"}, arg \in {"cli", Nobody, [id |-> ui.device]} : Await(o, arg)
      BY <2>2 DEF FormGenerate, FormGeneratePsk, FormLoad, FormOps
    <3>2. /\ CallsOK'
          /\ \E s \in Slots : /\ calls'[s] = NewCall(o, arg)
                              /\ \A t \in Slots \ {s} : calls'[t] = calls[t]
      BY <3>1, AwaitTakesSlot DEF FormOps
    <3> QED
      BY <1>0, <2>1, <3>1, <3>2 DEF FormCallsOK, FormOps, NewCall, FormMine
  <2>3. CASE FormSubmit
    <3>1. PICK o \in {"createDevice", "updateDevice"},
               arg \in {[id |-> Nobody, pub |-> ui.pub, priv |-> ui.priv],
                        [id |-> ui.device, pub |-> ui.pub, priv |-> ui.priv]} :
            /\ Await(o, arg)
            /\ o = "createDevice" => arg.pub = "new"
            /\ o = "updateDevice" => arg.pub \in {arg.id, "new"}
      BY <2>3 DEF FormSubmit, FormSubmitEnabled, FormSchema
    <3>2. Await(o, arg) /\ o # "idle"
      BY <3>1
    <3>3. /\ CallsOK'
          /\ \E s \in Slots : /\ calls'[s] = NewCall(o, arg)
                              /\ \A t \in Slots \ {s} : calls'[t] = calls[t]
      BY <3>2, AwaitTakesSlot
    <3> QED
      BY <1>0, <2>1, <3>1, <3>3 DEF FormCallsOK, FormOps, NewCall, FormMine
  <2> QED
    BY <1>2, <2>2, <2>3
<1> QED
  BY <1>1, <1>2 DEF FormStep

LEMMA FormHandleKeeps ==
  ASSUME CallsOK, FormUiOK, FormMine, FormCallsOK, KeysOK,
         NEW s \in Slots, FormHandle(s)
  PROVE  CallsOK' /\ FormUiOK' /\ FormMine' /\ FormCallsOK' /\ KeysOK'
<1> USE ScreenAssumption DEF FormUiOK, FormFields, Unmounted
<1>0. ui # Unmounted
  BY DEF FormMine, FormHandle, FormGenerated, FormPskGenerated, FormLoaded, FormSubmitted, Mine
<1>1. CASE FormGenerated(s)
  <2>1. FormUiOK' /\ KeysOK' /\ (ui' # Unmounted)
    BY <1>0, <1>1 DEF FormGenerated, KeysOK
  <2>2. CASE AwaitNext(s, "generateWireGuardKeys", "crypto")
    <3>1. /\ CallsOK'
          /\ calls'[s] = NewCall("generateWireGuardKeys", "crypto")
          /\ \A t \in Slots \ {s} : calls'[t] = calls[t]
      BY <2>2, AwaitNextReplaces
    <3> QED
      BY <2>1, <3>1 DEF FormCallsOK, FormOps, NewCall, FormMine
  <2>3. CASE Finish(s)
    BY <2>1, <2>3, FinishFrees DEF FormCallsOK, FormOps, Idle, FormMine
  <2> QED
    BY <1>1, <2>2, <2>3 DEF FormGenerated
<1>2. CASE FormPskGenerated(s) \/ FormLoaded(s)
  <2>1. FormUiOK' /\ KeysOK' /\ (ui' # Unmounted) /\ Finish(s)
    BY <1>0, <1>2 DEF FormPskGenerated, FormLoaded, KeysOK
  <2> QED
    BY <2>1, FinishFrees DEF FormCallsOK, FormOps, Idle, FormMine
<1>3. CASE FormSubmitted(s)
  <2>1. FormUiOK' /\ KeysOK' /\ (ui' # Unmounted)
    BY <1>0, <1>3 DEF FormSubmitted, FormFresh, KeysOK
  <2>2. CASE calls[s].outcome = "ok"
    BY <1>3, <2>1, <2>2
       DEF FormSubmitted, CallsOK, CallFields, Orphaned, Idle, Busy,
           FormCallsOK, FormOps, FormMine
  <2>3. CASE calls[s].outcome # "ok"
    BY <1>3, <2>1, <2>3, FinishFrees
       DEF FormSubmitted, FormCallsOK, FormOps, Idle, FormMine
  <2> QED
    BY <2>2, <2>3
<1> QED
  BY <1>1, <1>2, <1>3 DEF FormHandle


LEMMA FormBackendKeeps ==
  ASSUME CallsOK, FormUiOK, FormMine, FormCallsOK, KeysOK, NEW s \in Slots,
         \/ Perform(s, FormServer(s))
         \/ Refuse(s, Refusals(s))
         \/ LoseAnswer(s, FormServer(s))
  PROVE  CallsOK' /\ FormUiOK' /\ FormMine' /\ FormCallsOK' /\ KeysOK'
<1>1. /\ CallsOK' /\ ui' = ui
      /\ \A t \in Slots \ {s} : calls'[t] = calls[t]
      /\ calls'[s] = Idle \/ SameCall(calls[s], calls'[s])
  BY AnswerKeepsCalls
<1>2. FormUiOK' /\ FormMine' /\ FormCallsOK'
  BY <1>1 DEF FormUiOK, FormMine, FormCallsOK, FormOps, SameCall, Idle, Mine, Busy
<1>3. KeysOK'
  <2>1. db' = db \/ \E r \in FormServer(s) : db' = r.db
    BY DEF Perform, Refuse, LoseAnswer
  <2>2. Busy(s)
    BY DEF Perform, Refuse, LoseAnswer, Waiting
  <2> QED
    BY <2>1, <2>2, FormReplies DEF KeysOK
<1> QED
  BY <1>1, <1>2, <1>3

LEMMA FormUnmountKeeps ==
  ASSUME CallsOK, FormCallsOK, KeysOK, Unmount
  PROVE  CallsOK' /\ FormUiOK' /\ FormMine' /\ FormCallsOK' /\ KeysOK'
  BY UnmountKeepsCalls
     DEF FormUiOK, FormMine, FormCallsOK, FormOps, KeysOK, Idle

LEMMA FormAlways == FrontendSpec => []FormInv
<1>1. FrontendInit => FormInv
  BY FormInit DEF FormInv
<1>2. FormInv /\ [FrontendNext]_allVars => FormInv'
  <2> SUFFICES ASSUME FormInv, [FrontendNext]_allVars, screen = "deviceForm"
               PROVE  FormInv'
    BY ScreenStays DEF FormInv
  <2>1. CASE UNCHANGED allVars
    BY <2>1 DEF allVars, vars, FormInv, CallsOK, Busy, FormUiOK, FormMine,
                Mine, FormCallsOK, KeysOK
  <2>2. CASE FrontendNext
    BY <2>2, FormNextSteps, FormStepKeeps, FormHandleKeeps, FormBackendKeeps,
       FormUnmountKeeps DEF FormInv
  <2> QED
    BY <2>1, <2>2
<1> QED
  BY <1>1, <1>2, PTL DEF FrontendSpec

\* However the answers of Generate, Load Private Key and Submit interleave
\* with closing the form and opening it for another device, no device ever has
\* the key pair of another: for any number of devices and of calls in flight
\* (device-form.tsx, update_device).
THEOREM FormKeepsKeys == FrontendSpec => []DevicesKeepTheirKeys
<1>1. FormInv => DevicesKeepTheirKeys
  BY DEF FormInv, KeysOK, DevicesKeepTheirKeys
<1> QED
  BY <1>1, FormAlways, PTL
-----------------------------------------------------------------------------
(***************************************************************************)
(* The key rotation page.  As long as nothing is uncertain there is one    *)
(* call in flight, its handler belongs to the page, and a password that    *)
(* has changed is about to be reported by that handler.                    *)
(***************************************************************************)

RotationOps == {"getRotationEstimate", "validateCurrentPassword",
                "rotateMasterPassword"}

RotationTypes ==
  /\ {"password", "session"} \subseteq DOMAIN db
  /\ ui # Unmounted =>
       {"estimate", "isRotating", "since", "uncertain"} \subseteq DOMAIN ui
  /\ \A s \in Slots : Busy(s) => calls[s].op \in RotationOps /\ calls[s].mine

OneRotation ==
  ui # Unmounted /\ ~ui.uncertain =>
    /\ \A s, t \in Slots : Busy(s) /\ Busy(t) => s = t
    /\ \A s \in Slots : Busy(s) /\ calls[s].op # "getRotationEstimate" => calls[s].arg.alive

PasswordKnown ==
  ui # Unmounted /\ ~ui.uncertain =>
    \/ db.password = ui.since
    \/ \E s \in Slots : calls[s].op = "rotateMasterPassword" /\ calls[s].outcome # "none"

RotationInv ==
  screen = "rotation" => CallsOK /\ RotationTypes /\ OneRotation /\ PasswordKnown

LEMMA RotationNextSteps ==
  ASSUME FrontendNext, screen = "rotation"
  PROVE  \/ RotationStep
         \/ \E s \in Slots : \/ RotationHandle(s)
                             \/ Perform(s, RotationServer(s))
                             \/ Refuse(s, Refusals(s))
                             \/ LoseAnswer(s, RotationServer(s))
<1>1. \A s \in Slots : Replied(s) = RotationServer(s)
  BY DEF Replied, SmallScreens
<1> QED
  BY <1>1 DEF FrontendNext, PageNext, PageStep, PageHandle, Leave,
             BackendAnswers, AnswerLost, SmallScreens

LEMMA RotationInit ==
  ASSUME FrontendInit, screen = "rotation"
  PROVE  CallsOK /\ RotationTypes /\ OneRotation /\ PasswordKnown
<1>1. db \in {[password |-> 0, session |-> FALSE]}
  BY DEF FrontendInit, Stored, SmallScreens
<1> QED
  BY <1>1 DEF FrontendInit, CallsOK, CallFields, RotationTypes, OneRotation,
              PasswordKnown, Idle, Busy

LEMMA RotateIsPosted == ~Repeats("rotateMasterPassword")
  BY DEF Repeats, Method, Merged, IdempotentMethods, NetworkCalls,
         LocationCalls, DeviceCalls, ConfigAndKeyCalls, ExportAndAuditCalls,
         RotationCalls, SessionAndSettingsCalls

LEMMA RotationMountKeeps ==
  ASSUME CallsOK, RotationTypes, OneRotation, PasswordKnown, RotationMount
  PROVE  CallsOK' /\ RotationTypes' /\ OneRotation' /\ PasswordKnown'
<1>1. /\ ui' = RotationFresh /\ db' = [db EXCEPT !.session = TRUE]
      /\ Await("getRotationEstimate", Nobody)
  BY DEF RotationMount
<1>2. CallsOK' /\ \E s \in Slots :
         /\ ~Busy(s) /\ calls'[s] = NewCall("getRotationEstimate", Nobody)
         /\ \A t \in Slots \ {s} : calls'[t] = calls[t]
  BY <1>1, AwaitTakesSlot
<1>3. RotationTypes'
  BY <1>1, <1>2 DEF RotationTypes, RotationOps, RotationFresh, NewCall, Busy
<1>4. ui' # Unmounted /\ (~ui'.uncertain <=> Quiet) /\ ui'.since = db'.password
  BY <1>1 DEF RotationFresh, Unmounted, RotationTypes
<1>5. OneRotation'
  BY <1>2, <1>4 DEF OneRotation, Quiet, Busy, NewCall
<1> QED
  BY <1>2, <1>3, <1>4, <1>5 DEF PasswordKnown

LEMMA RotationSubmitKeeps ==
  ASSUME CallsOK, RotationTypes, OneRotation, PasswordKnown,
         NEW c, NEW n, RotationSubmit(c, n)
  PROVE  CallsOK' /\ RotationTypes' /\ OneRotation' /\ PasswordKnown'
<1> DEFINE arg == [current |-> c, new |-> n, alive |-> TRUE]
<1>1. /\ ui # Unmounted /\ db' = db
      /\ ui' = [ui EXCEPT !.uncertain = @ \/ ~Quiet]
      /\ Await("validateCurrentPassword", arg)
  BY DEF RotationSubmit, RotateEnabled, RotationShown
<1>2. CallsOK' /\ \E s \in Slots :
         /\ ~Busy(s) /\ calls'[s] = NewCall("validateCurrentPassword", arg)
         /\ \A t \in Slots \ {s} : calls'[t] = calls[t]
  BY <1>1, AwaitTakesSlot
<1>3. RotationTypes'
  BY <1>1, <1>2 DEF RotationTypes, RotationOps, NewCall, Busy
<1>4. ~ui'.uncertain => Quiet /\ ~ui.uncertain /\ ui'.since = ui.since
  BY <1>1 DEF RotationTypes
<1>5. OneRotation'
  BY <1>2, <1>4 DEF OneRotation, Quiet, Busy, NewCall
<1>6. PasswordKnown'
  BY <1>1, <1>4 DEF PasswordKnown, Quiet, Busy
<1> QED
  BY <1>2, <1>3, <1>5, <1>6

\* The state of a page that is gone has no field to set.
LEMMA NothingToSet ==
  ASSUME ui = Unmounted
  PROVE  /\ [ui EXCEPT !.isRotating = TRUE] = Unmounted
         /\ [ui EXCEPT !.isRotating = FALSE, !.uncertain = TRUE] = Unmounted
  BY DEF Unmounted

LEMMA AbandonedGoesOn ==
  ASSUME CallsOK, NEW t \in Slots
  PROVE  LET c == Abandoned(calls[t]) IN
         \/ c = Idle
         \/ /\ Busy(t) /\ c.op = calls[t].op /\ c.mine = calls[t].mine
            /\ c.op # "idle" /\ CallFields \subseteq DOMAIN c
  BY DEF CallsOK, CallFields, Abandoned, Busy, Idle

LEMMA RotationLeaveKeeps ==
  ASSUME CallsOK, RotationTypes, RotationLeave
  PROVE  CallsOK' /\ RotationTypes' /\ OneRotation' /\ PasswordKnown'
<1>1. /\ ui' = Unmounted /\ db' = db
      /\ DOMAIN calls' = Slots
      /\ \A t \in Slots : calls'[t] = Abandoned(calls[t])
  BY DEF RotationLeave
<1>2. CallsOK'
  BY <1>1, AbandonedGoesOn DEF CallsOK, Busy, Idle
<1>3. RotationTypes'
  BY <1>1, AbandonedGoesOn DEF RotationTypes, Busy, Idle
<1> QED
  BY <1>1, <1>2, <1>3 DEF OneRotation, PasswordKnown

LEMMA RotationHandleKeeps ==
  ASSUME CallsOK, RotationTypes, OneRotation, PasswordKnown,
         NEW s \in Slots, RotationHandle(s)
  PROVE  CallsOK' /\ RotationTypes' /\ OneRotation' /\ PasswordKnown'
<1>0. Busy(s)
  BY DEF RotationHandle, RotationEstimated, CurrentPasswordChecked,
         RotationSucceeded, RotationFailed, Answered, Busy
<1>1. CASE RotationEstimated(s)
  <2>1. /\ ui # Unmounted /\ db' = db /\ ui' = [ui EXCEPT !.estimate = calls[s].outcome]
        /\ Finish(s) /\ calls[s].op = "getRotationEstimate"
    BY <1>1 DEF RotationEstimated, RotationShown, Answered
  <2>2. /\ CallsOK' /\ calls'[s] = Idle
        /\ \A t \in Slots \ {s} : calls'[t] = calls[t]
    BY <2>1, FinishFrees
  <2>3. RotationTypes'
    BY <2>1, <2>2 DEF RotationTypes, Busy, Idle
  <2>4. ui'.uncertain = ui.uncertain /\ ui'.since = ui.since
    BY <2>1 DEF RotationTypes
  <2>5. OneRotation'
    BY <2>1, <2>2, <2>4 DEF OneRotation, Busy, Idle
  <2>6. PasswordKnown'
    BY <2>1, <2>2, <2>4 DEF PasswordKnown
  <2> QED
    BY <2>2, <2>3, <2>5, <2>6
<1>2. CASE CurrentPasswordChecked(s)
  <2>1. /\ db' = db /\ calls[s].op = "validateCurrentPassword"
        /\ ui' \in {ui, [ui EXCEPT !.isRotating = TRUE]}
    BY <1>2 DEF CurrentPasswordChecked, Answered
  <2>2. \/ ui = Unmounted /\ ui' = Unmounted
        \/ /\ ui # Unmounted
           /\ {"estimate", "isRotating", "since", "uncertain"} \subseteq DOMAIN ui'
           /\ ui'.uncertain = ui.uncertain /\ ui'.since = ui.since
    <3>1. CASE ui' = ui
      BY <3>1 DEF RotationTypes
    <3>2. CASE ui' = [ui EXCEPT !.isRotating = TRUE] /\ ui = Unmounted
      BY <3>2, NothingToSet
    <3>3. CASE ui' = [ui EXCEPT !.isRotating = TRUE] /\ ui # Unmounted
      BY <3>3 DEF RotationTypes
    <3> QED
      BY <2>1, <3>1, <3>2, <3>3
  <2>3. /\ CallsOK'
        /\ \A t \in Slots \ {s} : calls'[t] = calls[t]
        /\ \/ calls'[s] = Idle
           \/ calls'[s] = NewCall("rotateMasterPassword", calls[s].arg)
    <3>1. CASE Finish(s)
      BY <3>1, FinishFrees
    <3>2. CASE AwaitNext(s, "rotateMasterPassword", calls[s].arg)
      BY <3>2, AwaitNextReplaces
    <3> QED
      BY <1>2, <3>1, <3>2 DEF CurrentPasswordChecked
  <2>4. RotationTypes'
    BY <1>0, <2>1, <2>2, <2>3 DEF RotationTypes, RotationOps, NewCall, Busy, Idle
  <2>5. OneRotation'
    BY <1>0, <2>1, <2>2, <2>3 DEF OneRotation, NewCall, Busy, Idle
  <2>6. ui' # Unmounted /\ ~ui'.uncertain => db.password = ui.since
    BY <1>0, <2>1, <2>2 DEF OneRotation, PasswordKnown, Busy
  <2>7. PasswordKnown'
    BY <2>1, <2>2, <2>6 DEF PasswordKnown
  <2> QED
    BY <2>3, <2>4, <2>5, <2>7
<1>3. CASE RotationSucceeded(s)
  <2>1. /\ ui' = Unmounted /\ db' = [db EXCEPT !.session = FALSE]
        /\ DOMAIN calls' = Slots
        /\ \A t \in Slots : calls'[t] \in {Idle, Abandoned(calls[t])}
    BY <1>3 DEF RotationSucceeded
  <2>2. CallsOK'
    BY <2>1, AbandonedGoesOn DEF CallsOK, Busy, Idle
  <2>3. RotationTypes'
    BY <2>1, AbandonedGoesOn DEF RotationTypes, Busy, Idle
  <2> QED
    BY <2>1, <2>2, <2>3 DEF OneRotation, PasswordKnown
<1>4. CASE RotationFailed(s)
  <2>1. /\ db' = db /\ Finish(s) /\ calls[s].op = "rotateMasterPassword"
        /\ ui' = IF calls[s].arg.alive
                 THEN [ui EXCEPT !.isRotating = FALSE, !.uncertain = TRUE] ELSE ui
    BY <1>4 DEF RotationFailed, Answered
  <2>2. ui' = Unmounted \/ ui'.uncertain
    BY <1>0, <2>1, NothingToSet DEF RotationTypes, OneRotation
  <2>3. /\ CallsOK' /\ calls'[s] = Idle
        /\ \A t \in Slots \ {s} : calls'[t] = calls[t]
    BY <2>1, FinishFrees
  <2>4. RotationTypes'
    BY <2>1, <2>3, NothingToSet DEF RotationTypes, Busy, Idle
  <2> QED
    BY <2>2, <2>3, <2>4 DEF OneRotation, PasswordKnown
<1> QED
  BY <1>1, <1>2, <1>3, <1>4 DEF RotationHandle

LEMMA RotationReplies ==
  ASSUME RotationTypes, NEW s \in Slots, Busy(s), NEW r \in RotationServer(s)
  PROVE  /\ {"password", "session"} \subseteq DOMAIN r.db
         /\ r.db # db => calls[s].op = "rotateMasterPassword"
         /\ r.outcome # "none"
<1>1. CASE ~db.session
  BY <1>1 DEF RotationTypes, RotationServer, Reply
<1>2. CASE db.session /\ calls[s].op \in {"getRotationEstimate", "validateCurrentPassword"}
  <2>1. r.db = db /\ r.outcome = "ok"
    BY <1>2 DEF RotationServer, Reply
  <2> QED
    BY <2>1 DEF RotationTypes
<1>3. CASE db.session /\ calls[s].op = "rotateMasterPassword"
  <2> DEFINE rotated == [db EXCEPT !.password = calls[s].arg.new]
  <2>1. r \in {Reply(db, "failed", Nobody), Reply(rotated, "failed", Nobody),
               Reply([rotated EXCEPT !.session = FALSE], "ok", Nobody)}
    BY <1>3 DEF RotationServer
  <2>2. r.db \in {db, rotated, [rotated EXCEPT !.session = FALSE]} /\ r.outcome # "none"
    BY <2>1 DEF Reply
  <2>3. DOMAIN r.db = DOMAIN db
    BY <2>2
  <2> QED
    BY <1>3, <2>2, <2>3 DEF RotationTypes
<1> QED
  BY <1>1, <1>2, <1>3 DEF RotationTypes, RotationOps

LEMMA RotationBackendKeeps ==
  ASSUME CallsOK, RotationTypes, OneRotation, PasswordKnown, NEW s \in Slots,
         \/ Perform(s, RotationServer(s))
         \/ Refuse(s, Refusals(s))
         \/ LoseAnswer(s, RotationServer(s))
  PROVE  CallsOK' /\ RotationTypes' /\ OneRotation' /\ PasswordKnown'
<1>1. /\ CallsOK' /\ ui' = ui
      /\ \A t \in Slots \ {s} : calls'[t] = calls[t]
      /\ calls'[s] = Idle \/ SameCall(calls[s], calls'[s])
  BY AnswerKeepsCalls
<1>2. Busy(s) /\ calls[s].mine /\ calls[s].outcome = "none"
  BY DEF Perform, Refuse, LoseAnswer, Waiting, RotationTypes
<1>3. \/ db' = db
      \/ /\ calls[s].op = "rotateMasterPassword"
         /\ {"password", "session"} \subseteq DOMAIN db'
         /\ calls'[s].outcome # "none"
         /\ SameCall(calls[s], calls'[s])
  <2>1. CASE Refuse(s, Refusals(s))
    BY <2>1 DEF Refuse
  <2>2. CASE Perform(s, RotationServer(s))
    <3>1. PICK r \in RotationServer(s) : db' = r.db /\ Settle(s, r.outcome, r.data)
      BY <2>2 DEF Perform
    <3>2. /\ SameCall(calls[s], calls'[s]) /\ calls'[s].outcome = r.outcome
      BY <1>2, <3>1, SettleAnswers
    <3> QED
      BY <1>2, <3>1, <3>2, RotationReplies
  <2>3. CASE LoseAnswer(s, RotationServer(s))
    <3>1. PICK r \in RotationServer(s) : r.db # db /\ db' = r.db
      BY <2>3 DEF LoseAnswer
    <3>2. calls[s].op = "rotateMasterPassword"
      BY <1>2, <3>1, RotationReplies
    <3>3. Settle(s, "failed", Nobody)
      BY <2>3, <3>2, RotateIsPosted DEF LoseAnswer
    <3>4. SameCall(calls[s], calls'[s]) /\ calls'[s].outcome = "failed"
      BY <1>2, <3>3, SettleAnswers
    <3> QED
      BY <1>2, <3>1, <3>2, <3>4, RotationReplies
  <2> QED
    BY <2>1, <2>2, <2>3
<1>4. \A t \in Slots :
         /\ calls'[t].op = calls[t].op /\ calls'[t].arg = calls[t].arg
         /\ calls'[t].mine = calls[t].mine
  BY <1>2, AnswerKeepsCalls DEF SameCall
<1>5. RotationTypes' /\ OneRotation'
  BY <1>1, <1>3, <1>4 DEF RotationTypes, OneRotation, Busy
<1>6. ui # Unmounted /\ ~ui.uncertain => db.password = ui.since
  BY <1>2 DEF OneRotation, PasswordKnown, Busy
<1>7. PasswordKnown'
  BY <1>1, <1>3, <1>6 DEF PasswordKnown, SameCall
<1> QED
  BY <1>1, <1>5, <1>7

\* A rotation that took effect never goes unnoticed, for any number of calls
\* in flight and with rotations abandoned by pages that are gone: the page has
\* been locked out or has reported a failure (executeRotation in
\* key-rotation/page.tsx).
THEOREM RotationNeverUnnoticed == FrontendSpec => []RotationIsNoticed
<1>1. FrontendInit => RotationInv
  BY RotationInit DEF RotationInv
<1>2. RotationInv /\ [FrontendNext]_allVars => RotationInv'
  <2> SUFFICES ASSUME RotationInv, [FrontendNext]_allVars, screen = "rotation"
               PROVE  RotationInv'
    BY ScreenStays DEF RotationInv
  <2>0. CallsOK /\ RotationTypes /\ OneRotation /\ PasswordKnown
    BY DEF RotationInv
  <2>1. CASE UNCHANGED allVars
    BY <2>0, <2>1 DEF allVars, vars, RotationInv, CallsOK, Busy, RotationTypes,
                      OneRotation, PasswordKnown
  <2>2. CASE RotationStep
    BY <2>0, <2>2, RotationMountKeeps, RotationSubmitKeeps, RotationLeaveKeeps
       DEF RotationStep, RotationInv
  <2>3. CASE FrontendNext
    BY <2>0, <2>2, <2>3, RotationNextSteps, RotationHandleKeeps,
       RotationBackendKeeps DEF RotationInv
  <2> QED
    BY <2>1, <2>3
<1>3. RotationInv => RotationIsNoticed
  BY DEF RotationInv, PasswordKnown, RotationIsNoticed, RotationShown, Quiet, Busy
<1> QED
  BY <1>1, <1>2, <1>3, PTL DEF FrontendSpec

-----------------------------------------------------------------------------
(***************************************************************************)
(* The audit page.  Unless fetches overlapped there is at most one, with   *)
(* the filters of the page; when there is none, the page has an error or   *)
(* has the events of its filters.                                          *)
(***************************************************************************)

AuditFields == {"filters", "auditData", "error", "loading", "overlapped"}

AuditTypes ==
  /\ ui # Unmounted => AuditFields \subseteq DOMAIN ui
  /\ \A s \in Slots : Busy(s) =>
       /\ ui # Unmounted /\ calls[s].mine
       /\ calls[s].op \in {"getAuditEvents", "exportAuditEvents"}

Fetching(s) == calls[s].op = "getAuditEvents"

AuditFetches ==
  ui # Unmounted /\ ~ui.overlapped =>
    /\ \A s, t \in Slots : Fetching(s) /\ Fetching(t) => s = t
    /\ \A s \in Slots : Fetching(s) =>
         /\ calls[s].arg = ui.filters
         /\ calls[s].outcome = "ok" => calls[s].data = ui.filters
    /\ (\A s \in Slots : ~Fetching(s)) => ui.error \/ ui.auditData = ui.filters

AuditInv == screen = "audit" => CallsOK /\ AuditTypes /\ AuditFetches

LEMMA AuditNextSteps ==
  ASSUME FrontendNext, screen = "audit"
  PROVE  \/ AuditStep \/ Unmount
         \/ \E s \in Slots : \/ AuditHandle(s)
                             \/ Perform(s, AuditServer(s))
                             \/ Refuse(s, Refusals(s))
                             \/ LoseAnswer(s, AuditServer(s))
<1>1. \A s \in Slots : Replied(s) = AuditServer(s)
  BY DEF Replied, SmallScreens
<1> QED
  BY <1>1 DEF FrontendNext, PageNext, PageStep, PageHandle, Leave,
             BackendAnswers, AnswerLost, SmallScreens

LEMMA AuditReads == Reads("getAuditEvents") /\ Reads("exportAuditEvents")
  BY DEF Reads, Method, Merged, NetworkCalls, LocationCalls, DeviceCalls,
         ConfigAndKeyCalls, ExportAndAuditCalls, RotationCalls,
         SessionAndSettingsCalls

LEMMA AuditFetchKeeps ==
  ASSUME CallsOK, AuditTypes, ui # Unmounted, NEW filters, AuditFetch(filters)
  PROVE  CallsOK' /\ AuditTypes' /\ AuditFetches'
<1>1. /\ ui' = [ui EXCEPT !.filters = filters, !.loading = TRUE, !.error = FALSE,
                          !.overlapped = InFlight("getAuditEvents") # {}]
      /\ Await("getAuditEvents", filters)
  BY DEF AuditFetch
<1>2. CallsOK' /\ \E s \in Slots :
         /\ ~Busy(s) /\ calls'[s] = NewCall("getAuditEvents", filters)
         /\ \A t \in Slots \ {s} : calls'[t] = calls[t]
  BY <1>1, AwaitTakesSlot
<1>3. /\ ui' # Unmounted /\ AuditFields \subseteq DOMAIN ui' /\ ui'.filters = filters
      /\ ~ui'.overlapped => \A s \in Slots : ~Fetching(s)
  BY <1>1 DEF AuditTypes, AuditFields, Unmounted, InFlight, Fetching
<1>4. AuditTypes'
  BY <1>2, <1>3 DEF AuditTypes, NewCall, Busy
<1>5. AuditFetches'
  BY <1>2, <1>3 DEF AuditFetches, Fetching, NewCall
<1> QED
  BY <1>2, <1>4, <1>5

LEMMA AuditStepKeeps ==
  ASSUME CallsOK, AuditTypes, AuditFetches, AuditStep
  PROVE  CallsOK' /\ AuditTypes' /\ AuditFetches'
<1>1. CASE AuditMount
  <2>1. ui = Unmounted /\ ui' = AuditFresh /\ Await("getAuditEvents", NoFilters)
    BY <1>1 DEF AuditMount
  <2>2. CallsOK' /\ \E s \in Slots :
           /\ ~Busy(s) /\ calls'[s] = NewCall("getAuditEvents", NoFilters)
           /\ \A t \in Slots \ {s} : calls'[t] = calls[t]
    BY <2>1, AwaitTakesSlot
  <2>3. AuditFields \subseteq DOMAIN ui' /\ ui' # Unmounted /\ ui'.filters = NoFilters
    BY <2>1 DEF AuditFields, AuditFresh, Unmounted
  <2>4. AuditTypes'
    BY <2>2, <2>3 DEF AuditTypes, NewCall, Busy
  <2>5. \A s \in Slots : ~Fetching(s)
    BY <2>1 DEF AuditTypes, Fetching, Busy
  <2>6. AuditFetches'
    BY <2>2, <2>3, <2>5 DEF AuditFetches, Fetching, NewCall
  <2> QED
    BY <2>2, <2>4, <2>6
<1>2. CASE AuditToggleFilters
  <2>1. /\ ui' = [ui EXCEPT !.showFilters = ~@] /\ calls' = calls /\ ui # Unmounted
    BY <1>2 DEF AuditToggleFilters, AuditContent, AuditShown
  <2>2. /\ AuditFields \subseteq DOMAIN ui' /\ ui' # Unmounted
        /\ ui'.filters = ui.filters /\ ui'.error = ui.error
        /\ ui'.auditData = ui.auditData /\ ui'.overlapped = ui.overlapped
    BY <2>1 DEF AuditTypes, AuditFields, Unmounted
  <2> QED
    BY <2>1, <2>2 DEF CallsOK, AuditTypes, AuditFetches, Fetching, Busy
<1>3. CASE \E filters : AuditFetch(filters) /\ ui # Unmounted
  BY <1>3, AuditFetchKeeps
<1>4. CASE AuditExport
  <2>1. /\ ui' = [ui EXCEPT !.exporting = TRUE] /\ ui # Unmounted
        /\ Await("exportAuditEvents", ui.filters)
    BY <1>4 DEF AuditExport, AuditExportEnabled, AuditContent, AuditShown
  <2>2. /\ AuditFields \subseteq DOMAIN ui' /\ ui' # Unmounted
        /\ ui'.filters = ui.filters /\ ui'.error = ui.error
        /\ ui'.auditData = ui.auditData /\ ui'.overlapped = ui.overlapped
    BY <2>1 DEF AuditTypes, AuditFields, Unmounted
  <2>3. CallsOK' /\ \E s \in Slots :
           /\ ~Busy(s) /\ calls'[s] = NewCall("exportAuditEvents", ui.filters)
           /\ \A t \in Slots \ {s} : calls'[t] = calls[t]
    BY <2>1, AwaitTakesSlot
  <2>4. AuditTypes'
    BY <2>2, <2>3 DEF AuditTypes, NewCall, Busy
  <2>5. AuditFetches'
    BY <2>1, <2>2, <2>3 DEF AuditFetches, Fetching, NewCall, Busy
  <2> QED
    BY <2>3, <2>4, <2>5
<1>5. AuditMount \/ AuditToggleFilters \/ AuditExport \/ \E filters : AuditFetch(filters) /\ ui # Unmounted
  BY DEF AuditStep, AuditClearFilters, AuditClearEnabled, AuditRefresh,
         AuditRefreshEnabled, AuditTryAgain, AuditFailed, AuditFilterBy,
         AuditFiltersOpen, AuditTurnPage, AuditPageLinks, AuditContent, AuditShown
<1> QED
  BY <1>1, <1>2, <1>3, <1>4, <1>5

LEMMA AuditHandleKeeps ==
  ASSUME CallsOK, AuditTypes, AuditFetches, NEW s \in Slots, AuditHandle(s)
  PROVE  CallsOK' /\ AuditTypes' /\ AuditFetches'
<1>1. /\ ui # Unmounted /\ Finish(s) /\ Mine(s)
  BY DEF AuditHandle, AuditFetched, AuditExported, AuditShown
<1>2. /\ CallsOK' /\ calls'[s] = Idle
      /\ \A t \in Slots \ {s} : calls'[t] = calls[t]
  BY <1>1, FinishFrees
<1>3. /\ AuditFields \subseteq DOMAIN ui' /\ ui' # Unmounted
      /\ ui'.filters = ui.filters /\ ui'.overlapped = ui.overlapped
  BY <1>1 DEF AuditHandle, AuditFetched, AuditExported, AuditTypes, AuditFields, Unmounted
<1>4. AuditTypes'
  BY <1>2, <1>3 DEF AuditTypes, Busy, Idle
<1>5. CASE AuditFetched(s)
  <2>1. Fetching(s)
    BY <1>5 DEF AuditFetched, Answered, Fetching
  <2>2. \/ ui'.error /\ calls[s].outcome # "ok"
        \/ ui'.auditData = calls[s].data /\ calls[s].outcome = "ok"
    BY <1>1, <1>5 DEF AuditFetched, AuditTypes, AuditFields
  <2>3. AuditFetches'
    BY <1>1, <1>2, <1>3, <2>1, <2>2 DEF AuditFetches, Fetching, Idle
  <2> QED
    BY <1>2, <1>4, <2>3
<1>6. CASE AuditExported(s)
  <2>1. ~Fetching(s)
    BY <1>6 DEF AuditExported, Answered, Fetching
  <2>2. ui'.auditData = ui.auditData /\ (ui.error => ui'.error)
    BY <1>1, <1>6 DEF AuditExported, AuditTypes, AuditFields
  <2>3. AuditFetches'
    BY <1>1, <1>2, <1>3, <2>1, <2>2 DEF AuditFetches, Fetching, Idle
  <2> QED
    BY <1>2, <1>4, <2>3
<1> QED
  BY <1>5, <1>6 DEF AuditHandle

LEMMA AuditBackendKeeps ==
  ASSUME CallsOK, AuditTypes, AuditFetches, NEW s \in Slots,
         \/ Perform(s, AuditServer(s))
         \/ Refuse(s, Refusals(s))
         \/ LoseAnswer(s, AuditServer(s))
  PROVE  CallsOK' /\ AuditTypes' /\ AuditFetches'
<1>1. /\ CallsOK' /\ ui' = ui
      /\ \A t \in Slots \ {s} : calls'[t] = calls[t]
      /\ calls'[s] = Idle \/ SameCall(calls[s], calls'[s])
  BY AnswerKeepsCalls
<1>2. Busy(s) /\ \E o, d : Settle(s, o, d) /\ (o = "ok" => d = calls[s].arg)
  <2>1. CASE Perform(s, AuditServer(s))
    BY <2>1 DEF Perform, Waiting, AuditServer, Reply
  <2>2. CASE Refuse(s, Refusals(s))
    <3>1. "ok" \notin Refusals(s)
      BY DEF Refusals
    <3> QED
      BY <2>2, <3>1 DEF Refuse, Waiting
  <2>3. CASE LoseAnswer(s, AuditServer(s))
    BY <2>3 DEF LoseAnswer, AuditServer, Reply
  <2> QED
    BY <2>1, <2>2, <2>3
<1>3. /\ SameCall(calls[s], calls'[s])
      /\ calls'[s].outcome = "ok" => calls'[s].data = calls[s].arg
  BY <1>2, SettleAnswers DEF AuditTypes
<1>4. AuditTypes'
  BY <1>1, <1>2 DEF AuditTypes, SameCall, Busy, Idle
<1>5. AuditFetches'
  BY <1>1, <1>3 DEF AuditFetches, Fetching, SameCall
<1> QED
  BY <1>1, <1>4, <1>5

LEMMA AuditUnmountKeeps ==
  ASSUME CallsOK, AuditTypes, Unmount
  PROVE  CallsOK' /\ AuditTypes' /\ AuditFetches'
<1>1. \A t \in Slots : calls'[t] = Idle
  BY UnmountKeepsCalls, AuditReads DEF AuditTypes, Busy, CallsOK, Idle, Unmount, Orphaned
<1> QED
  BY <1>1, UnmountKeepsCalls DEF AuditTypes, AuditFetches, Busy, Idle

\* When all is quiet the audit page shows the events its filters ask for,
\* unless fetches overlapped: for any filters and any number of fetches and
\* exports in flight (refreshAuditEvents in audit/page.tsx).
THEOREM AuditShowsItsFilters == FrontendSpec => []AuditMatchesFilters
<1>1. FrontendInit => AuditInv
  BY DEF FrontendInit, AuditInv, CallsOK, CallFields, AuditTypes, AuditFetches,
         Idle, Busy
<1>2. AuditInv /\ [FrontendNext]_allVars => AuditInv'
  <2> SUFFICES ASSUME AuditInv, [FrontendNext]_allVars, screen = "audit"
               PROVE  AuditInv'
    BY ScreenStays DEF AuditInv
  <2>0. CallsOK /\ AuditTypes /\ AuditFetches
    BY DEF AuditInv
  <2>1. CASE UNCHANGED allVars
    BY <2>0, <2>1 DEF allVars, vars, AuditInv, CallsOK, Busy, AuditTypes,
                      AuditFetches, Fetching
  <2>2. CASE FrontendNext
    BY <2>0, <2>2, AuditNextSteps, AuditStepKeeps, AuditHandleKeeps,
       AuditBackendKeeps, AuditUnmountKeeps DEF AuditInv
  <2> QED
    BY <2>1, <2>2
<1>3. AuditInv => AuditMatchesFilters
  BY DEF AuditInv, AuditFetches, Fetching, AuditMatchesFilters, AuditContent,
         AuditShown, Quiet, Busy
<1> QED
  BY <1>1, <1>2, <1>3, PTL DEF FrontendSpec

-----------------------------------------------------------------------------
(***************************************************************************)
(* The page of one network.  It is shown only from an answer that starts a *)
(* lint, so a lint that runs alone on a page that is shown started after   *)
(* the last change, and reads and answers what the network is.             *)
(***************************************************************************)

LintFields == {"page", "network", "lint", "linting", "overlapped"}

LintTypes ==
  /\ ui # Unmounted => LintFields \subseteq DOMAIN ui
  /\ \A s \in Slots : Busy(s) =>
       /\ calls[s].op \in {"getNetwork", "listDevices", "lintNetworkConfig"}
       /\ calls[s].mine => ui # Unmounted

Lints(s) == Mine(s) /\ calls[s].op \in {"listDevices", "lintNetworkConfig"}

ReadsTheNetwork(s) ==
  /\ calls[s].op = "lintNetworkConfig" => calls[s].arg = db
  /\ calls[s].outcome = "ok" => calls[s].data = db

LintsAlone ==
  ui # Unmounted /\ ~ui.overlapped =>
    /\ \A s, t \in Slots : Lints(s) /\ Lints(t) => s = t
    /\ ui.page = "shown" =>
         /\ \A s \in Slots : Lints(s) => ReadsTheNetwork(s)
         /\ (\A s \in Slots : ~Lints(s)) => ui.lint = db

LintInv == screen = "network" => CallsOK /\ LintTypes /\ LintsAlone

LEMMA LintNextSteps ==
  ASSUME FrontendNext, screen = "network"
  PROVE  \/ LintStep \/ Unmount
         \/ \E s \in Slots : \/ LintHandle(s)
                             \/ Perform(s, LintServer(s))
                             \/ Refuse(s, Refusals(s))
                             \/ LoseAnswer(s, LintServer(s))
<1>1. \A s \in Slots : Replied(s) = LintServer(s)
  BY DEF Replied, SmallScreens
<1> QED
  BY <1>1 DEF FrontendNext, PageNext, PageStep, PageHandle, Leave,
             BackendAnswers, AnswerLost, SmallScreens

LEMMA LintStepKeeps ==
  ASSUME CallsOK, LintTypes, LintsAlone, LintStep
  PROVE  CallsOK' /\ LintTypes' /\ LintsAlone'
<1>1. CASE LintMount \/ LintChanged
  <2>1. /\ Await("getNetwork", Nobody) /\ ui' # Unmounted
        /\ LintFields \subseteq DOMAIN ui' /\ ui'.page = "loading"
        /\ ui = Unmounted \/ ui'.overlapped = ui.overlapped
    <3>1. CASE LintMount
      <4>1. ui = Unmounted /\ ui' = LintFresh /\ Await("getNetwork", Nobody)
        BY <3>1 DEF LintMount
      <4>2. LintFields \subseteq DOMAIN ui' /\ ui'.page = "loading"
        BY <4>1 DEF LintFresh, LintFields
      <4>3. ui' # Unmounted
        BY <4>2 DEF LintFields, Unmounted
      <4> QED
        BY <4>1, <4>2, <4>3
    <3>2. CASE LintChanged
      BY <3>2 DEF LintChanged, LintShown, LintTypes, LintFields, Unmounted
    <3> QED
      BY <1>1, <3>1, <3>2
  <2>2. CallsOK' /\ \E s \in Slots :
           /\ ~Busy(s) /\ calls'[s] = NewCall("getNetwork", Nobody)
           /\ \A t \in Slots \ {s} : calls'[t] = calls[t]
    BY <2>1, AwaitTakesSlot
  <2>3. LintTypes'
    BY <2>1, <2>2 DEF LintTypes, NewCall, Busy
  <2>4. LintsAlone'
    BY <2>1, <2>2 DEF LintsAlone, LintTypes, Lints, Mine, NewCall, Busy
  <2> QED
    BY <2>2, <2>3, <2>4
<1>2. CASE LintRefresh
  <2>1. /\ Await("listDevices", ui.network) /\ ui # Unmounted
        /\ ui' = [ui EXCEPT !.linting = TRUE, !.overlapped = Linting # {}]
    BY <1>2 DEF LintRefresh, LintShown
  <2>2. /\ ui' # Unmounted /\ LintFields \subseteq DOMAIN ui'
        /\ ui'.overlapped = (Linting # {})
    BY <2>1 DEF LintTypes, LintFields, Unmounted
  <2>3. CallsOK' /\ \E s \in Slots :
           /\ ~Busy(s) /\ calls'[s] = NewCall("listDevices", ui.network)
           /\ \A t \in Slots \ {s} : calls'[t] = calls[t]
    BY <2>1, AwaitTakesSlot
  <2>4. LintTypes'
    BY <2>2, <2>3 DEF LintTypes, NewCall, Busy
  <2>5. ~ui'.overlapped => \A s \in Slots : ~Lints(s)
    BY <2>2 DEF Linting, InFlight, Lints
  <2>6. LintsAlone'
    BY <2>2, <2>3, <2>5
       DEF LintsAlone, Lints, Mine, ReadsTheNetwork, NewCall, Busy
  <2> QED
    BY <2>3, <2>4, <2>6
<1> QED
  BY <1>1, <1>2 DEF LintStep

LEMMA LintHandleKeeps ==
  ASSUME CallsOK, LintTypes, LintsAlone, NEW s \in Slots, LintHandle(s)
  PROVE  CallsOK' /\ LintTypes' /\ LintsAlone'
<1>0. ui # Unmounted /\ Mine(s) /\ db' = db /\ calls[s].outcome # "none"
  BY DEF LintHandle, LintFetched, LintRead, LintAnswered, LintShown, Answered
<1>1. /\ ui' # Unmounted /\ LintFields \subseteq DOMAIN ui'
  <2>1. DOMAIN ui' = DOMAIN ui
    <3>1. CASE LintFetched(s)
      BY <3>1 DEF LintFetched
    <3>2. CASE LintRead(s)
      BY <3>2 DEF LintRead, LintFailed
    <3>3. CASE LintAnswered(s)
      BY <3>3 DEF LintAnswered, LintFailed
    <3> QED
      BY <3>1, <3>2, <3>3 DEF LintHandle
  <2> QED
    BY <1>0, <2>1 DEF LintTypes, LintFields, Unmounted
<1>2. CASE LintFetched(s)
  <2>1. CASE calls[s].outcome = "ok"
    <3>1. /\ AwaitNext(s, "listDevices", calls[s].data)
          /\ ui'.overlapped = (Linting # {})
      BY <1>0, <1>2, <2>1 DEF LintFetched, LintTypes, LintFields
    <3>2. /\ CallsOK' /\ calls'[s] = NewCall("listDevices", calls[s].data)
          /\ \A t \in Slots \ {s} : calls'[t] = calls[t]
      BY <3>1, AwaitNextReplaces
    <3>3. LintTypes'
      BY <1>1, <3>2 DEF LintTypes, NewCall, Busy
    <3>4. ~ui'.overlapped => \A t \in Slots : ~Lints(t)
      BY <3>1 DEF Linting, InFlight, Lints
    <3>5. LintsAlone'
      BY <1>1, <3>2, <3>4
         DEF LintsAlone, Lints, Mine, ReadsTheNetwork, NewCall, Busy
    <3> QED
      BY <3>2, <3>3, <3>5
  <2>2. CASE calls[s].outcome # "ok"
    <3>1. /\ Finish(s) /\ ui'.page = "error" /\ ui'.overlapped = ui.overlapped
      BY <1>0, <1>2, <2>2 DEF LintFetched, LintTypes, LintFields
    <3>2. /\ CallsOK' /\ calls'[s] = Idle
          /\ \A t \in Slots \ {s} : calls'[t] = calls[t]
      BY <3>1, FinishFrees
    <3>3. LintTypes'
      BY <1>1, <3>2 DEF LintTypes, Busy, Idle
    <3>4. LintsAlone'
      BY <1>0, <1>1, <3>1, <3>2 DEF LintsAlone, Lints, Mine, Busy, Idle
    <3> QED
      BY <3>2, <3>3, <3>4
  <2> QED
    BY <2>1, <2>2
<1>3. CASE LintFailed(s)
  <2>1. Finish(s) /\ ui'.overlapped
    BY <1>0, <1>3 DEF LintFailed, LintTypes, LintFields
  <2>2. /\ CallsOK' /\ calls'[s] = Idle
        /\ \A t \in Slots \ {s} : calls'[t] = calls[t]
    BY <2>1, FinishFrees
  <2>3. LintTypes'
    BY <1>1, <2>2 DEF LintTypes, Busy, Idle
  <2> QED
    BY <2>1, <2>2, <2>3 DEF LintsAlone
<1>4. CASE LintRead(s) /\ calls[s].outcome = "ok"
  <2>1. /\ AwaitNext(s, "lintNetworkConfig", calls[s].data) /\ ui' = ui
        /\ Lints(s)
    BY <1>0, <1>4 DEF LintRead, Answered, Lints
  <2>2. /\ CallsOK' /\ calls'[s] = NewCall("lintNetworkConfig", calls[s].data)
        /\ \A t \in Slots \ {s} : calls'[t] = calls[t]
    BY <2>1, AwaitNextReplaces
  <2>3. LintTypes'
    BY <1>1, <2>2 DEF LintTypes, NewCall, Busy
  <2>4. \A t \in Slots \ {s} : Lints(t)' <=> Lints(t)
    BY <2>2 DEF Lints, Mine, Busy
  <2>5. Lints(s)' /\ (calls[s].data = db => ReadsTheNetwork(s)')
    BY <1>0, <2>2 DEF Lints, Mine, Busy, NewCall, ReadsTheNetwork
  <2>6. LintsAlone'
    <3> SUFFICES ASSUME ui' # Unmounted, ~ui'.overlapped
                 PROVE  LintsAlone'
      BY DEF LintsAlone
    <3>1. \A t \in Slots \ {s} : ~Lints(t)
      BY <1>0, <2>1 DEF LintsAlone
    <3>2. ui.page = "shown" => calls[s].data = db
      BY <1>0, <1>4, <2>1 DEF LintsAlone, ReadsTheNetwork
    <3> QED
      BY <2>1, <2>4, <2>5, <3>1, <3>2 DEF LintsAlone
  <2> QED
    BY <2>2, <2>3, <2>6
<1>5. CASE LintAnswered(s) /\ calls[s].outcome = "ok"
  <2>1. /\ Finish(s) /\ Lints(s) /\ ui'.lint = calls[s].data
        /\ ui'.page = ui.page /\ ui'.overlapped = ui.overlapped
    BY <1>0, <1>5 DEF LintAnswered, Answered, Lints, LintTypes, LintFields
  <2>2. /\ CallsOK' /\ calls'[s] = Idle
        /\ \A t \in Slots \ {s} : calls'[t] = calls[t]
    BY <2>1, FinishFrees
  <2>3. LintTypes'
    BY <1>1, <2>2 DEF LintTypes, Busy, Idle
  <2>4. \A t \in Slots : Lints(t)' => Lints(t) /\ t # s
    BY <2>2 DEF Lints, Mine, Busy, Idle
  <2>5. LintsAlone'
    BY <1>0, <1>5, <2>1, <2>4 DEF LintsAlone, ReadsTheNetwork
  <2> QED
    BY <2>2, <2>3, <2>5
<1> QED
  BY <1>2, <1>3, <1>4, <1>5 DEF LintHandle, LintRead, LintAnswered

LEMMA LintBackendKeeps ==
  ASSUME CallsOK, LintTypes, LintsAlone, NEW s \in Slots,
         \/ Perform(s, LintServer(s))
         \/ Refuse(s, Refusals(s))
         \/ LoseAnswer(s, LintServer(s))
  PROVE  CallsOK' /\ LintTypes' /\ LintsAlone'
<1>0. Busy(s) /\ calls[s].op \in {"getNetwork", "listDevices", "lintNetworkConfig"}
  BY DEF Perform, Refuse, LoseAnswer, Waiting, LintTypes
<1>1. /\ CallsOK' /\ ui' = ui
      /\ \A t \in Slots \ {s} : calls'[t] = calls[t]
      /\ (calls'[s] = Idle /\ ~calls[s].mine) \/ SameCall(calls[s], calls'[s])
  BY AnswerKeepsCalls
<1>2. LintServer(s) = {Reply(db, "ok", IF calls[s].op = "lintNetworkConfig"
                                       THEN calls[s].arg ELSE db)}
  BY <1>0 DEF LintServer, ListReply
<1>3. db' = db /\ \E o, d :
        /\ Settle(s, o, d)
        /\ o = "ok" => d = IF calls[s].op = "lintNetworkConfig" THEN calls[s].arg ELSE db
  <2>1. CASE Perform(s, LintServer(s))
    BY <1>2, <2>1 DEF Perform, Reply
  <2>2. CASE Refuse(s, Refusals(s))
    <3>1. "ok" \notin Refusals(s)
      BY DEF Refusals
    <3> QED
      BY <2>2, <3>1 DEF Refuse
  <2>3. CASE LoseAnswer(s, LintServer(s))
    BY <1>2, <2>3 DEF LoseAnswer, Reply
  <2> QED
    BY <2>1, <2>2, <2>3
<1>4. SameCall(calls[s], calls'[s]) =>
        (calls'[s].outcome = "ok" => calls'[s].data =
           IF calls[s].op = "lintNetworkConfig" THEN calls[s].arg ELSE db)
      \/ ~calls[s].mine
  BY <1>0, <1>3, SettleAnswers
<1>5. LintTypes'
  BY <1>0, <1>1 DEF LintTypes, SameCall, Busy, Idle
<1>6. \A t \in Slots : Lints(t)' <=> Lints(t)
  BY <1>0, <1>1 DEF Lints, Mine, SameCall, Busy, Idle
<1>7. \A t \in Slots : Lints(t) /\ ReadsTheNetwork(t) => ReadsTheNetwork(t)'
  BY <1>0, <1>1, <1>3, <1>4 DEF Lints, Mine, ReadsTheNetwork, SameCall
<1>8. LintsAlone'
  BY <1>1, <1>3, <1>6, <1>7 DEF LintsAlone
<1> QED
  BY <1>1, <1>5, <1>8

LEMMA LintUnmountKeeps ==
  ASSUME CallsOK, LintTypes, Unmount
  PROVE  CallsOK' /\ LintTypes' /\ LintsAlone'
<1>1. \A t \in Slots : Busy(t)' => calls'[t].op = calls[t].op /\ ~calls'[t].mine
  BY UnmountKeepsCalls DEF Busy, Idle, Mine
<1> QED
  BY <1>1, UnmountKeepsCalls DEF LintTypes, LintsAlone, Busy

\* The lint results on the page of a network are those of its configuration as
\* it is, once all is quiet, if no two lints ran together: for any number of
\* changes and of fetches in flight (use-config-lint.ts, networks/[id]/page.tsx).
THEOREM LintStaysCurrent == FrontendSpec => []LintIsCurrent
<1>1. FrontendInit => LintInv
  BY DEF FrontendInit, LintInv, CallsOK, CallFields, LintTypes, LintsAlone,
         Idle, Busy
<1>2. LintInv /\ [FrontendNext]_allVars => LintInv'
  <2> SUFFICES ASSUME LintInv, [FrontendNext]_allVars, screen = "network"
               PROVE  LintInv'
    BY ScreenStays DEF LintInv
  <2>0. CallsOK /\ LintTypes /\ LintsAlone
    BY DEF LintInv
  <2>1. CASE UNCHANGED allVars
    BY <2>0, <2>1 DEF allVars, vars, LintInv, CallsOK, Busy, LintTypes,
                      LintsAlone, Lints, Mine, ReadsTheNetwork
  <2>2. CASE FrontendNext
    BY <2>0, <2>2, LintNextSteps, LintStepKeeps, LintHandleKeeps,
       LintBackendKeeps, LintUnmountKeeps DEF LintInv
  <2> QED
    BY <2>1, <2>2
<1>3. LintInv => LintIsCurrent
  BY DEF LintInv, LintsAlone, Lints, Mine, LintIsCurrent, LintShown, Quiet
<1> QED
  BY <1>1, <1>2, <1>3, PTL DEF FrontendSpec

-----------------------------------------------------------------------------
(***************************************************************************)
(* The lists of networks and of locations.  One form and one selection     *)
(* serve all dialogs; while the edit dialog is open and something is       *)
(* selected, the form is that of what is selected.                         *)
(***************************************************************************)

OwnUpdate(c) ==
  c.op \in {"updateNetwork", "updateLocation"} =>
    {"id", "of"} \subseteq DOMAIN c.arg /\ c.arg.id = c.arg.of

UpdatesOwn == CallsOK /\ \A s \in Slots : OwnUpdate(calls[s])

DialogFields == {"rows", "loading", "dialogs", "selected", "form", "submitting",
                 "fetchError", "uncertain"}

\* The state of a list with its dialogs, be it of the page or of its tab.
EditsOwn(state) ==
  state # Unmounted =>
    /\ DialogFields \subseteq DOMAIN state
    /\ "edit" \in state.dialogs /\ state.selected # Nobody =>
         state.form = state.selected

TabOK ==
  ui # Unmounted =>
    {"page", "tab", "child"} \subseteq DOMAIN ui /\ EditsOwn(ui.child)

OwnInv ==
  /\ screen = "networks" => UpdatesOwn /\ EditsOwn(ui)
  /\ screen = "locations" => UpdatesOwn /\ TabOK

LEMMA AwaitKeepsOwn ==
  ASSUME UpdatesOwn, NEW op_, op_ # "idle", NEW arg, Await(op_, arg),
         OwnUpdate(NewCall(op_, arg))
  PROVE  UpdatesOwn'
  BY AwaitTakesSlot DEF UpdatesOwn, OwnUpdate

LEMMA AwaitNextKeepsOwn ==
  ASSUME UpdatesOwn, NEW s \in Slots, NEW op_, op_ # "idle", NEW arg,
         AwaitNext(s, op_, arg), OwnUpdate(NewCall(op_, arg))
  PROVE  UpdatesOwn'
<1>1. /\ CallsOK' /\ calls'[s] = NewCall(op_, arg)
      /\ \A t \in Slots \ {s} : calls'[t] = calls[t]
  BY AwaitNextReplaces DEF UpdatesOwn
<1> QED
  BY <1>1 DEF UpdatesOwn, OwnUpdate

LEMMA FinishKeepsOwn ==
  ASSUME UpdatesOwn, NEW s \in Slots, Finish(s)
  PROVE  UpdatesOwn'
  BY FinishFrees DEF UpdatesOwn, OwnUpdate, Idle

LEMMA AnswerKeepsOwn ==
  ASSUME UpdatesOwn, NEW s \in Slots, NEW replies, NEW outcomes,
         Perform(s, replies) \/ LoseAnswer(s, replies) \/ Refuse(s, outcomes)
  PROVE  UpdatesOwn' /\ ui' = ui
<1>1. /\ CallsOK' /\ ui' = ui
      /\ \A t \in Slots \ {s} : calls'[t] = calls[t]
      /\ calls'[s] = Idle \/ SameCall(calls[s], calls'[s])
  BY AnswerKeepsCalls DEF UpdatesOwn
<1>2. \A t \in Slots : OwnUpdate(calls'[t])
  BY <1>1 DEF UpdatesOwn, OwnUpdate, SameCall, Idle
<1> QED
  BY <1>1, <1>2 DEF UpdatesOwn, OwnUpdate

LEMMA UnmountKeepsOwn ==
  ASSUME UpdatesOwn, Unmount
  PROVE  UpdatesOwn' /\ ui' = Unmounted
  BY UnmountKeepsCalls DEF UpdatesOwn, OwnUpdate, Idle

LEMMA ReadsAreNoUpdates ==
  \A o \in {"listNetworks", "createNetwork", "deleteNetwork", "getNetwork",
            "listLocations", "createLocation", "deleteLocation"} :
    \A arg : o # "idle" /\ OwnUpdate(NewCall(o, arg))
  BY DEF OwnUpdate, NewCall

-----------------------------------------------------------------------------
LEMMA NetworksNextSteps ==
  ASSUME FrontendNext, screen = "networks"
  PROVE  \/ NetworksStep \/ Unmount
         \/ \E s \in Slots : \/ NetworksHandle(s)
                             \/ Perform(s, NetworksServer(s))
                             \/ Refuse(s, Refusals(s))
                             \/ LoseAnswer(s, NetworksServer(s))
<1>1. \A s \in Slots : Replied(s) = NetworksServer(s)
  BY DEF Replied, SmallScreens
<1> QED
  BY <1>1 DEF FrontendNext, PageNext, PageStep, PageHandle, Leave,
             BackendAnswers, AnswerLost, SmallScreens

LEMMA NetworksStepKeepsOwn ==
  ASSUME UpdatesOwn, EditsOwn(ui), NetworksStep
  PROVE  UpdatesOwn' /\ EditsOwn(ui')
<1> USE DEF DialogFields, Unmounted
<1>1. CASE NetworksMount
  BY <1>1, AwaitKeepsOwn, ReadsAreNoUpdates DEF NetworksMount, NetworksFresh, EditsOwn
<1>2. CASE NetworksSearch \/ NetworksSort \/ NetworksRetry
  <2>1. NetworksShown /\ NetworksRefetch
    BY <1>2 DEF NetworksSearch, NetworksSort, NetworksRetry, NetworksRetryOffered, NetworksBare
  <2>2. EditsOwn(ui')
    BY <2>1 DEF NetworksShown, NetworksRefetch, EditsOwn
  <2>3. UpdatesOwn'
    BY <2>1, AwaitKeepsOwn, ReadsAreNoUpdates DEF NetworksRefetch
  <2> QED
    BY <2>2, <2>3
<1>3. CASE NetworksUnlocked
  <2>1. EditsOwn(ui')
    BY <1>3 DEF NetworksUnlocked, NetworksDialog, NetworksShown, EditsOwn
  <2>2. UpdatesOwn'
    BY <1>3, AwaitKeepsOwn, ReadsAreNoUpdates DEF NetworksUnlocked
  <2> QED
    BY <2>1, <2>2
<1>4. CASE \/ NetworksOpenCreate
           \/ \E i \in Items : NetworksOpenEdit(i) \/ NetworksOpenDelete(i)
           \/ \E d \in {"create", "edit", "delete", "unlock"} : NetworksClose(d)
  <2>1. calls' = calls
    BY <1>4 DEF NetworksOpenCreate, NetworksOpenEdit, NetworksOpenDelete, NetworksClose
  <2>2. UpdatesOwn'
    BY <2>1 DEF UpdatesOwn, CallsOK, OwnUpdate, Busy
  <2>3. CASE NetworksOpenCreate
    BY <2>3, <2>2 DEF NetworksOpenCreate, NetworksBare, NetworksShown, EditsOwn
  <2>4. CASE \E i \in Items : NetworksOpenEdit(i)
    BY <2>4, <2>2 DEF NetworksOpenEdit, NetworksRow, NetworksBare, NetworksShown, EditsOwn
  <2>5. CASE \E i \in Items : NetworksOpenDelete(i)
    BY <2>5, <2>2 DEF NetworksOpenDelete, NetworksRow, NetworksBare, NetworksShown, EditsOwn
  <2>6. CASE \E d \in {"create", "edit", "delete", "unlock"} : NetworksClose(d)
    BY <2>6, <2>2 DEF NetworksClose, NetworksDialog, NetworksShown, EditsOwn
  <2> QED
    BY <1>4, <2>3, <2>4, <2>5, <2>6
<1>5. CASE NetworksSubmitCreate \/ NetworksSubmitUpdate \/ NetworksSubmitDelete
  <2>1. EditsOwn(ui')
    BY <1>5 DEF NetworksSubmitCreate, NetworksSubmitUpdate, NetworksSubmitDelete,
                NetworksCreateEnabled, NetworksUpdateEnabled, NetworksDeleteEnabled,
                NetworksDialog, NetworksShown, EditsOwn
  <2>2. CASE NetworksSubmitUpdate
    <3>1. /\ ui.selected # Nobody /\ "edit" \in ui.dialogs /\ ui # Unmounted
          /\ Await("updateNetwork", [id |-> ui.selected, of |-> ui.form])
      BY <2>2 DEF NetworksSubmitUpdate, NetworksUpdateEnabled, NetworksDialog, NetworksShown
    <3>2. OwnUpdate(NewCall("updateNetwork", [id |-> ui.selected, of |-> ui.form]))
      BY <3>1 DEF EditsOwn, OwnUpdate, NewCall
    <3> QED
      BY <2>1, <3>1, <3>2, AwaitKeepsOwn
  <2>3. CASE NetworksSubmitCreate
    BY <2>1, <2>3, AwaitKeepsOwn, ReadsAreNoUpdates DEF NetworksSubmitCreate
  <2>4. CASE NetworksSubmitDelete
    BY <2>1, <2>4, AwaitKeepsOwn, ReadsAreNoUpdates DEF NetworksSubmitDelete
  <2> QED
    BY <1>5, <2>2, <2>3, <2>4
<1> QED
  BY <1>1, <1>2, <1>3, <1>4, <1>5 DEF NetworksStep

LEMMA NetworksHandleKeepsOwn ==
  ASSUME UpdatesOwn, EditsOwn(ui), NEW s \in Slots, NetworksHandle(s)
  PROVE  UpdatesOwn' /\ EditsOwn(ui')
<1> USE DEF DialogFields, Unmounted
<1>0. ui # Unmounted
  BY DEF NetworksHandle, NetworksFetched, NetworksCreated, NetworksUpdated,
         NetworksDeleted, NetworksShown
<1>1. CASE NetworksFetched(s)
  <2>1. /\ DOMAIN ui' = DOMAIN ui
        /\ "edit" \in ui'.dialogs => "edit" \in ui.dialogs
        /\ ui'.selected = ui.selected /\ ui'.form = ui.form
    <3>1. CASE calls[s].outcome = "ok"
      BY <1>0, <1>1, <3>1 DEF NetworksFetched, EditsOwn
    <3>2. CASE calls[s].outcome # "ok"
      <4> DEFINE dialogs == IF calls[s].outcome = "unauthorized"
                            THEN ui.dialogs \cup {"unlock"} ELSE ui.dialogs
      <4>1. ui' = [ui EXCEPT !.fetchError = TRUE, !.loading = FALSE, !.dialogs = dialogs]
        BY <1>1, <3>2 DEF NetworksFetched
      <4>2. "edit" \in dialogs => "edit" \in ui.dialogs
        OBVIOUS
      <4> HIDE DEF dialogs
      <4> QED
        BY <1>0, <4>1, <4>2 DEF EditsOwn
    <3> QED
      BY <3>1, <3>2
  <2>2. EditsOwn(ui')
    BY <1>0, <2>1 DEF EditsOwn
  <2> QED
    BY <1>1, <2>2, FinishKeepsOwn DEF NetworksFetched
<1>2. CASE NetworksWriteFailed(s)
  <2>1. EditsOwn(ui')
    BY <1>0, <1>2 DEF NetworksWriteFailed, EditsOwn
  <2> QED
    BY <1>2, <2>1, FinishKeepsOwn DEF NetworksWriteFailed
<1>3. CASE \E closed, form : NetworksWritten(s, closed, form)
  <2>1. EditsOwn(ui')
    BY <1>0, <1>3 DEF NetworksWritten, EditsOwn
  <2>2. AwaitNext(s, "listNetworks", Nobody)
    BY <1>3 DEF NetworksWritten
  <2> QED
    BY <2>1, <2>2, AwaitNextKeepsOwn, ReadsAreNoUpdates
<1> QED
  BY <1>1, <1>2, <1>3
     DEF NetworksHandle, NetworksCreated, NetworksUpdated, NetworksDeleted

-----------------------------------------------------------------------------
LEMMA LocationsNextSteps ==
  ASSUME FrontendNext, screen = "locations"
  PROVE  \/ LocationsStep \/ Unmount
         \/ \E s \in Slots : \/ LocationsHandle(s)
                             \/ Perform(s, LocationsServer(s))
                             \/ Refuse(s, Refusals(s))
                             \/ LoseAnswer(s, LocationsServer(s))
<1>1. \A s \in Slots : Replied(s) = LocationsServer(s)
  BY DEF Replied, SmallScreens
<1> QED
  BY <1>1 DEF FrontendNext, PageNext, PageStep, PageHandle, Leave,
             BackendAnswers, AnswerLost, SmallScreens

\* A call that runs on without its tab is still for the record it was for.
LEMMA LeftKeepsOwn ==
  ASSUME UpdatesOwn, NEW t \in Slots
  PROVE  /\ OwnUpdate(Left(calls[t]))
         /\ \/ Left(calls[t]) = Idle
            \/ /\ Left(calls[t]).op # "idle"
               /\ CallFields \subseteq DOMAIN Left(calls[t])
<1> DEFINE c == calls[t]
<1>1. c = Idle \/ (c.op # "idle" /\ CallFields \subseteq DOMAIN c)
  BY DEF UpdatesOwn, CallsOK, Busy
<1>2. OwnUpdate(c) /\ OwnUpdate(Idle)
  BY DEF UpdatesOwn, OwnUpdate, Idle
<1>3. CASE Left(c) = c \/ Left(c) = Idle
  BY <1>1, <1>2, <1>3
<1>4. CASE Left(c) = [c EXCEPT !.arg.alive = FALSE] /\ c.op # "idle"
  BY <1>1, <1>2, <1>4 DEF OwnUpdate, CallFields, Idle
<1> QED
  BY <1>1, <1>3, <1>4 DEF Left

LEMMA LeftButKeepsOwn ==
  ASSUME UpdatesOwn, NEW s \in Slots, NEW next, LeftBut(s, next),
         OwnUpdate(next),
         next = Idle \/ (next.op # "idle" /\ CallFields \subseteq DOMAIN next)
  PROVE  UpdatesOwn'
<1>1. \A t \in Slots : calls'[t] = IF t = s THEN next ELSE Left(calls[t])
  BY DEF LeftBut
<1>2. DOMAIN calls' = Slots
  BY DEF LeftBut
<1>3. \A t \in Slots :
        /\ OwnUpdate(calls'[t])
        /\ calls'[t] = Idle \/ (calls'[t].op # "idle" /\ CallFields \subseteq DOMAIN calls'[t])
  BY <1>1, LeftKeepsOwn
<1>4. Idle.op = "idle"
  BY DEF Idle
<1>5. CallsOK'
  BY <1>2, <1>3, <1>4 DEF CallsOK, Busy
<1> QED
  BY <1>3, <1>5 DEF UpdatesOwn, OwnUpdate

LEMMA LocationsStepKeepsOwn ==
  ASSUME UpdatesOwn, TabOK, LocationsStep
  PROVE  UpdatesOwn' /\ TabOK'
<1> USE DEF DialogFields, Unmounted
<1>1. CASE NetworkMount("locations")
  <2>1. TabOK'
    BY <1>1 DEF NetworkMount, NetworkFresh, TabOK, EditsOwn
  <2> QED
    BY <1>1, <2>1, AwaitKeepsOwn, ReadsAreNoUpdates DEF NetworkMount
<1>2. CASE NetworkLeaveTab("locations")
  <2>1. TabOK'
    BY <1>2 DEF NetworkLeaveTab, NetworkShown, TabOK, EditsOwn
  <2>2. DOMAIN calls' = Slots /\ \A t \in Slots : calls'[t] = Left(calls[t])
    BY <1>2 DEF NetworkLeaveTab
  <2>3. Idle.op = "idle"
    BY DEF Idle
  <2>4. CallsOK'
    BY <2>2, <2>3, LeftKeepsOwn DEF CallsOK, Busy
  <2>5. \A t \in Slots : OwnUpdate(calls'[t])
    BY <2>2, LeftKeepsOwn
  <2> QED
    BY <2>1, <2>4, <2>5 DEF UpdatesOwn, OwnUpdate
<1>3. CASE NetworkEnterTab("locations", LocationsFresh(~Quiet), "listLocations", Nobody)
  <2>1. TabOK'
    BY <1>3 DEF NetworkEnterTab, NetworkShown, LocationsFresh, TabOK, EditsOwn
  <2> QED
    BY <1>3, <2>1, AwaitKeepsOwn, ReadsAreNoUpdates DEF NetworkEnterTab
<1>4. CASE LocationsRetry
  <2>1. TabOK'
    BY <1>4 DEF LocationsRetry, LocationsRetryOffered, LocationsBare,
                LocationsShown, NetworkShown, TabOK, EditsOwn
  <2> QED
    BY <1>4, <2>1, AwaitKeepsOwn, ReadsAreNoUpdates DEF LocationsRetry
<1>5. CASE \/ LocationsOpenCreate
           \/ \E i \in Items : LocationsOpenEdit(i) \/ LocationsOpenDelete(i)
           \/ \E d \in {"create", "edit", "delete"} : LocationsClose(d)
  <2>1. calls' = calls
    BY <1>5 DEF LocationsOpenCreate, LocationsOpenEdit, LocationsOpenDelete, LocationsClose
  <2>2. UpdatesOwn'
    BY <2>1 DEF UpdatesOwn, CallsOK, OwnUpdate, Busy
  <2>3. CASE LocationsOpenCreate
    BY <2>3, <2>2 DEF LocationsOpenCreate, LocationsBare, LocationsShown,
                      NetworkShown, TabOK, EditsOwn
  <2>4. CASE \E i \in Items : LocationsOpenEdit(i)
    <3>1. PICK i \in Items : LocationsOpenEdit(i)
      BY <2>4
    <3>2. ui # Unmounted /\ ui.child # Unmounted /\ TabOK
      BY <3>1 DEF LocationsOpenEdit, LocationsRow, LocationsBare, LocationsShown, NetworkShown
    <3>3. DOMAIN ui' = DOMAIN ui /\ ui'.child = [ui.child EXCEPT !.selected = i, !.form = i, !.dialogs = {"edit"}]
      BY <3>1, <3>2 DEF LocationsOpenEdit, TabOK
    <3>4. EditsOwn(ui'.child)
      BY <3>2, <3>3 DEF TabOK, EditsOwn
    <3> QED
      BY <2>2, <3>2, <3>3, <3>4 DEF TabOK
  <2>5. CASE \E i \in Items : LocationsOpenDelete(i)
    <3>1. PICK i \in Items : LocationsOpenDelete(i)
      BY <2>5
    <3>2. ui # Unmounted /\ ui.child # Unmounted /\ TabOK
      BY <3>1 DEF LocationsOpenDelete, LocationsRow, LocationsBare, LocationsShown, NetworkShown
    <3>3. DOMAIN ui' = DOMAIN ui /\ ui'.child = [ui.child EXCEPT !.selected = i, !.dialogs = {"delete"}]
      BY <3>1, <3>2 DEF LocationsOpenDelete, TabOK
    <3>4. EditsOwn(ui'.child)
      BY <3>2, <3>3 DEF TabOK, EditsOwn
    <3> QED
      BY <2>2, <3>2, <3>3, <3>4 DEF TabOK
  <2>6. CASE \E d \in {"create", "edit", "delete"} : LocationsClose(d)
    BY <2>6, <2>2 DEF LocationsClose, LocationsDialog, LocationsShown,
                      NetworkShown, TabOK, EditsOwn
  <2> QED
    BY <1>5, <2>3, <2>4, <2>5, <2>6
<1>6. CASE \E o, id, of : LocationsShown /\ LocationsSubmit(o, id, of)
             /\ o \in {"createLocation", "updateLocation", "deleteLocation"}
             /\ (o = "updateLocation" => id = of)
  <2>1. PICK o, id, of :
          /\ LocationsShown /\ LocationsSubmit(o, id, of)
          /\ o \in {"createLocation", "updateLocation", "deleteLocation"}
          /\ o = "updateLocation" => id = of
    BY <1>6
  <2>2. TabOK'
    BY <2>1 DEF LocationsSubmit, LocationsShown, NetworkShown, TabOK, EditsOwn
  <2>3. OwnUpdate(NewCall(o, [id |-> id, of |-> of, alive |-> TRUE])) /\ o # "idle"
    BY <2>1 DEF OwnUpdate, NewCall
  <2> QED
    BY <2>1, <2>2, <2>3, AwaitKeepsOwn DEF LocationsSubmit
<1>7. CASE LocationsSubmitCreate \/ LocationsSubmitDelete
  BY <1>6, <1>7 DEF LocationsSubmitCreate, LocationsSubmitDelete, LocationsCreateEnabled,
                    LocationsDeleteEnabled, LocationsDialog
<1>8. CASE LocationsSubmitUpdate
  <2>1. LocationsShown /\ LocationsSubmit("updateLocation", ui.child.selected, ui.child.form)
    BY <1>8 DEF LocationsSubmitUpdate, LocationsUpdateEnabled, LocationsDialog
  <2>2. ui.child.selected = ui.child.form
    BY <1>8 DEF LocationsSubmitUpdate, LocationsUpdateEnabled, LocationsDialog,
                LocationsShown, NetworkShown, TabOK, EditsOwn
  <2> QED
    BY <1>6, <2>1, <2>2
<1> QED
  BY <1>1, <1>2, <1>3, <1>4, <1>5, <1>7, <1>8 DEF LocationsStep

LEMMA LocationsHandleKeepsOwn ==
  ASSUME UpdatesOwn, TabOK, NEW s \in Slots, LocationsHandle(s)
  PROVE  UpdatesOwn' /\ TabOK'
<1> USE DEF DialogFields, Unmounted
<1>0. ui # Unmounted
  BY DEF LocationsHandle, LocationsFetched, LocationsCreated, LocationsUpdated,
         LocationsDeleted, LocationsAnswered, NetworkFetched, LocationsShown,
         NetworkShown
<1>1. CASE NetworkFetched(s, "locations", LocationsFresh(Others(s)), "listLocations", Nobody)
  <2>1. TabOK'
    <3>1. EditsOwn(Unmounted) /\ EditsOwn(LocationsFresh(Others(s)))
      BY DEF EditsOwn, LocationsFresh
    <3>2. CASE ui' = [NetworkFresh(ui.tab) EXCEPT !.page = "error"]
      BY <3>1, <3>2 DEF NetworkFresh, TabOK
    <3>3. CASE ui' = [ui EXCEPT !.page = "shown", !.child = LocationsFresh(Others(s))]
      <4>1. DOMAIN ui' = DOMAIN ui /\ ui'.child = LocationsFresh(Others(s))
        BY <1>0, <3>3 DEF TabOK
      <4> QED
        BY <1>0, <3>1, <4>1 DEF TabOK
    <3>4. CASE \E page : ui' = [ui EXCEPT !.page = page]
      <4>1. DOMAIN ui' = DOMAIN ui /\ ui'.child = ui.child
        BY <1>0, <3>4 DEF TabOK
      <4> QED
        BY <1>0, <4>1 DEF TabOK
    <3> QED
      BY <1>1, <3>2, <3>3, <3>4 DEF NetworkFetched
  <2>2. OwnUpdate(Idle)
    BY DEF OwnUpdate, Idle
  <2>3. LeftBut(s, Idle) \/ Finish(s) \/ AwaitNext(s, "listLocations", Nobody)
    BY <1>1 DEF NetworkFetched
  <2> QED
    BY <2>1, <2>2, <2>3, LeftButKeepsOwn, FinishKeepsOwn, AwaitNextKeepsOwn, ReadsAreNoUpdates
<1>2. CASE LocationsFetched(s)
  <2>1. TabOK'
    <3>1. ui.child # Unmounted
      BY <1>2 DEF LocationsFetched, LocationsShown
    <3>2. /\ DOMAIN ui' = DOMAIN ui /\ DOMAIN ui'.child = DOMAIN ui.child
          /\ ui'.child.dialogs = ui.child.dialogs
          /\ ui'.child.selected = ui.child.selected /\ ui'.child.form = ui.child.form
      <4>1. CASE calls[s].outcome = "ok"
        <5>1. /\ DOMAIN ui' = DOMAIN ui
              /\ ui'.child = [ui.child EXCEPT !.rows = calls[s].data, !.fetchError = FALSE, !.loading = FALSE]
          BY <1>0, <1>2, <4>1 DEF LocationsFetched, TabOK
        <5> QED
          BY <1>0, <3>1, <5>1 DEF TabOK, EditsOwn
      <4>2. CASE calls[s].outcome # "ok"
        <5>1. /\ DOMAIN ui' = DOMAIN ui
              /\ ui'.child = [ui.child EXCEPT !.fetchError = TRUE, !.loading = FALSE]
          BY <1>0, <1>2, <4>2 DEF LocationsFetched, TabOK
        <5> QED
          BY <1>0, <3>1, <5>1 DEF TabOK, EditsOwn
      <4> QED
        BY <4>1, <4>2
    <3> QED
      BY <1>0, <3>1, <3>2 DEF TabOK, EditsOwn
  <2> QED
    BY <1>2, <2>1, FinishKeepsOwn DEF LocationsFetched
<1>3. CASE LocationsWritten(s)
  <2>1. CASE NetworkReload(s)
    <3>1. TabOK'
      BY <2>1 DEF NetworkReload, NetworkFresh, TabOK, EditsOwn
    <3>2. LET next == NewCall("getNetwork", Nobody) IN
            LeftBut(s, next) /\ OwnUpdate(next) /\ next.op # "idle"
              /\ CallFields \subseteq DOMAIN next
      BY <2>1 DEF NetworkReload, NewCall, OwnUpdate, CallFields
    <3> QED
      BY <3>1, <3>2, LeftButKeepsOwn
  <2>2. CASE ui' = ui /\ Finish(s)
    BY <2>2, FinishKeepsOwn DEF TabOK
  <2>3. CASE /\ ui' = [ui EXCEPT !.child.submitting = FALSE, !.child.uncertain = TRUE]
             /\ Finish(s)
    <3>1. {"page", "tab", "child"} \subseteq DOMAIN ui'
      BY <1>0, <2>3 DEF TabOK
    <3>2. ui'.child = [ui.child EXCEPT !.submitting = FALSE, !.uncertain = TRUE]
      BY <1>0, <2>3 DEF TabOK
    <3>3. CASE ui.child = Unmounted
      <4>1. ui'.child = Unmounted
        BY <3>2, <3>3
      <4> QED
        BY <2>3, <3>1, <4>1, FinishKeepsOwn DEF TabOK, EditsOwn
    <3>4. CASE ui.child # Unmounted
      <4>1. EditsOwn(ui'.child)
        BY <1>0, <3>2, <3>4 DEF TabOK, EditsOwn
      <4> QED
        BY <2>3, <3>1, <4>1, FinishKeepsOwn DEF TabOK, EditsOwn
    <3> QED
      BY <3>3, <3>4
  <2> QED
    BY <1>3, <2>1, <2>2, <2>3 DEF LocationsWritten
<1> QED
  BY <1>1, <1>2, <1>3
     DEF LocationsHandle, LocationsCreated, LocationsUpdated, LocationsDeleted

LEMMA OwnAlways == FrontendSpec => []OwnInv
<1>1. FrontendInit => OwnInv
  BY DEF FrontendInit, OwnInv, UpdatesOwn, CallsOK, CallFields, OwnUpdate,
         EditsOwn, TabOK, Idle, Busy
<1>2. OwnInv /\ [FrontendNext]_allVars => OwnInv'
  <2> SUFFICES ASSUME OwnInv, [FrontendNext]_allVars,
                      screen \in {"networks", "locations"}
               PROVE  OwnInv'
    BY ScreenStays DEF OwnInv
  <2>0. screen' = screen
    BY ScreenStays
  <2>1. CASE UNCHANGED allVars
    BY <2>1 DEF allVars, vars, OwnInv, UpdatesOwn, CallsOK, OwnUpdate, Busy,
                EditsOwn, TabOK
  <2>2. CASE FrontendNext /\ screen = "networks"
    <3>1. UpdatesOwn /\ EditsOwn(ui)
      BY <2>2 DEF OwnInv
    <3>2. UpdatesOwn' /\ EditsOwn(ui')
      BY <2>2, <3>1, NetworksNextSteps, NetworksStepKeepsOwn,
         NetworksHandleKeepsOwn, AnswerKeepsOwn, UnmountKeepsOwn DEF EditsOwn
    <3> QED
      BY <2>0, <2>2, <3>2 DEF OwnInv, EditsOwn
  <2>3. CASE FrontendNext /\ screen = "locations"
    <3>1. UpdatesOwn /\ TabOK
      BY <2>3 DEF OwnInv
    <3>2. UpdatesOwn' /\ TabOK'
      BY <2>3, <3>1, LocationsNextSteps, LocationsStepKeepsOwn,
         LocationsHandleKeepsOwn, AnswerKeepsOwn, UnmountKeepsOwn DEF TabOK
    <3> QED
      BY <2>0, <2>3, <3>2 DEF OwnInv
  <2> QED
    BY <2>1, <2>2, <2>3
<1> QED
  BY <1>1, <1>2, PTL DEF FrontendSpec

\* An update is sent with the data of the record it is for, for any number of
\* records and whatever is in flight: the form and the selection the handler
\* reads at submit never come from two records (openEditModal and handleUpdate
\* of networks/page.tsx and of network-locations.tsx).
THEOREM UpdatesAreTheirOwn == FrontendSpec => []WritesOwnRecord
<1>1. OwnInv => WritesOwnRecord
  BY DEF OwnInv, UpdatesOwn, OwnUpdate, WritesOwnRecord
<1> QED
  BY <1>1, OwnAlways, PTL
=============================================================================
