---------------------------- MODULE DisplayProofs ----------------------------
(***************************************************************************)
(* That what the frontend tells its user is so: an API key on display is   *)
(* the one in force (KeyShownIsInForce), and the provider believes of its  *)
(* session what the backend would say (SessionAgrees), for any number of   *)
(* records, of sessions and of calls in flight, and for every order of     *)
(* answers.                                                                *)
(***************************************************************************)
EXTENDS FrontendProofs

(***************************************************************************)
(* All devices.  Unless regenerations crossed, one that the page waits for *)
(* is the only one in flight and is of the selected device; and while the  *)
(* dialog with a key is open, none is in flight.                           *)
(***************************************************************************)

FleetFields ==
  {"mounted", "page", "rows", "dialogs", "selected", "newApiKey",
   "submitting", "uncertain", "crossed"}

RegenerateOps == {"regenerateDeviceApiKey", "regenerateDeviceKeys"}
FleetOps == {"idle", "listDevices", "createDevice"} \cup RegenerateOps

FleetUi == ui # Unmounted => FleetFields \subseteq DOMAIN ui

FleetCalls ==
  /\ \A s \in Slots : calls[s].op \in FleetOps
  /\ ui = Unmounted => \A s \in Slots : ~Mine(s)

FleetTypes == CallsOK /\ db \in [Items -> Nat] /\ FleetUi /\ FleetCalls

InForce(key) == key.device \in Existing /\ key.key = db[key.device]

OneRegeneration ==
  \A s \in Regenerations : calls[s].mine =>
    /\ Regenerations = {s}
    /\ calls[s].arg.id = ui.selected
    /\ calls[s].op = "regenerateDeviceApiKey" /\ calls[s].outcome = "ok" =>
         calls[s].data.device = ui.selected /\ InForce(calls[s].data)

KeyInDialog ==
  "apiKey" \in ui.dialogs =>
    Regenerations = {} /\ ui.newApiKey.device = ui.selected /\ InForce(ui.newApiKey)

FleetKnown == ui # Unmounted /\ ~ui.crossed => OneRegeneration /\ KeyInDialog

FleetInv == screen = "fleet" => FleetTypes /\ FleetKnown

LEMMA FleetNextSteps ==
  ASSUME FrontendNext, screen = "fleet", FleetTypes
  PROVE  \/ FleetStep \/ Unmount
         \/ \E s \in Slots : \/ FleetHandle(s)
                             \/ Perform(s, FleetServer(s))
                             \/ Refuse(s, {"failed"})
                             \/ LoseAnswer(s, FleetServer(s))
<1>1. \A s \in Slots : Replied(s) = FleetServer(s)
  BY DEF Replied, SmallScreens
<1>2. \A s \in Slots : Refusals(s) = {"failed"}
  BY DEF Refusals, FleetTypes, FleetCalls, FleetOps, RegenerateOps
<1> QED
  BY <1>1, <1>2 DEF FrontendNext, PageNext, PageStep, PageHandle, Leave,
             BackendAnswers, AnswerLost, SmallScreens

LEMMA FleetInit ==
  ASSUME FrontendInit, screen = "fleet"
  PROVE  FleetTypes /\ FleetKnown
<1>1. db \in {[i \in Items |-> age] : age \in {0, 1}}
  BY DEF FrontendInit, Stored, SmallScreens
<1> QED
  BY <1>1 DEF FrontendInit, FleetTypes, FleetKnown, CallsOK, CallFields,
              FleetUi, FleetCalls, FleetOps, Idle, Busy, Mine

\* What a step does that neither sends nor ends a regeneration, and leaves
\* the dialog and the key alone.
LEMMA FleetOtherwise ==
  ASSUME FleetTypes, FleetKnown, ui # Unmounted, db' = db,
         ui'.crossed = ui.crossed, ui'.selected = ui.selected,
         "apiKey" \in ui'.dialogs => "apiKey" \in ui.dialogs /\ ui'.newApiKey = ui.newApiKey,
         \A s \in Slots : s \in Regenerations' => s \in Regenerations /\ calls'[s] = calls[s]
  PROVE  FleetKnown'
<1>1. \A s : s \in Regenerations' => s \in Slots
  BY DEF Regenerations, InFlight
<1>2. \A key : InForce(key) => InForce(key)'
  BY DEF InForce, Existing
<1> SUFFICES ASSUME ~ui.crossed, OneRegeneration, KeyInDialog
             PROVE  OneRegeneration' /\ KeyInDialog'
  BY DEF FleetKnown
<1>3. OneRegeneration'
  <2>1. SUFFICES ASSUME NEW s \in Regenerations', calls'[s].mine
                 PROVE  /\ Regenerations' = {s}
                        /\ calls'[s].arg.id = ui'.selected
                        /\ calls'[s].op = "regenerateDeviceApiKey" /\ calls'[s].outcome = "ok" =>
                             calls'[s].data.device = ui'.selected /\ InForce(calls[s].data)'
    BY <1>1 DEF OneRegeneration
  <2>2. s \in Regenerations /\ calls'[s] = calls[s]
    BY <1>1
  <2>3. Regenerations' = {s}
    BY <1>1, <2>1, <2>2 DEF OneRegeneration
  <2> QED
    BY <1>2, <2>1, <2>2, <2>3 DEF OneRegeneration
<1>4. KeyInDialog'
  BY <1>1, <1>2 DEF KeyInDialog
<1> QED
  BY <1>3, <1>4

LEMMA FleetMountKeeps ==
  ASSUME FleetTypes, FleetMount
  PROVE  FleetTypes' /\ FleetKnown'
<1>1. /\ ui = Unmounted /\ ui' # Unmounted /\ FleetUi' /\ ui'.dialogs = {} /\ db' = db
      /\ Await("listDevices", Nobody)
  BY DEF FleetMount, FleetFresh, FleetUi, FleetFields, Unmounted
<1>2. CallsOK' /\ \E s \in Slots :
         /\ ~Busy(s) /\ calls'[s] = NewCall("listDevices", Nobody)
         /\ \A t \in Slots \ {s} : calls'[t] = calls[t]
  BY <1>1, AwaitTakesSlot DEF FleetTypes
<1>3. FleetCalls'
  BY <1>1, <1>2 DEF FleetTypes, FleetCalls, FleetOps, NewCall
<1>4. \A s \in Regenerations' : ~calls'[s].mine
  BY <1>1, <1>2 DEF FleetTypes, FleetCalls, Mine, Busy, Regenerations, InFlight, NewCall
<1> QED
  BY <1>1, <1>2, <1>3, <1>4 DEF FleetTypes, FleetKnown, OneRegeneration, KeyInDialog

\* The steps of the user but for those that regenerate keys.
LEMMA FleetClickKeeps ==
  ASSUME FleetTypes, FleetKnown,
         \/ FleetRetry \/ FleetOpenCreate \/ FleetSubmitCreate
         \/ \E d \in {"create", "apiKey", "keys"} : FleetClose(d)
  PROVE  FleetTypes' /\ FleetKnown'
<1>1. /\ ui # Unmounted /\ ui' # Unmounted /\ FleetUi' /\ db' = db
      /\ ui'.crossed = ui.crossed /\ ui'.selected = ui.selected
      /\ ui'.newApiKey = ui.newApiKey
      /\ "apiKey" \in ui'.dialogs => "apiKey" \in ui.dialogs
  <2>1. CASE FleetRetry
    BY <2>1 DEF FleetRetry, FleetRetryOffered, FleetShown, FleetTypes, FleetUi,
                FleetFields, Unmounted
  <2>2. CASE FleetOpenCreate
    BY <2>2 DEF FleetOpenCreate, FleetBare, FleetShown, FleetTypes, FleetUi,
                FleetFields, Unmounted
  <2>3. CASE FleetSubmitCreate
    BY <2>3 DEF FleetSubmitCreate, FleetCreateEnabled, FleetDialog, FleetShown,
                FleetTypes, FleetUi, FleetFields, Unmounted
  <2>4. CASE \E d \in {"create", "apiKey", "keys"} : FleetClose(d)
    BY <2>4 DEF FleetClose, FleetDialog, FleetShown, FleetTypes, FleetUi,
                FleetFields, Unmounted
  <2> QED
    BY <2>1, <2>2, <2>3, <2>4
<1>2. /\ CallsOK' /\ FleetCalls'
      /\ \A s \in Slots : s \in Regenerations' => s \in Regenerations /\ calls'[s] = calls[s]
  <2>1. CASE calls' = calls
    BY <1>1, <2>1 DEF FleetTypes, FleetCalls, CallsOK, Busy, Regenerations, InFlight
  <2>2. CASE calls' # calls
    <3>1. PICK o \in {"listDevices", "createDevice"}, arg \in {Nobody, [id |-> Nobody]} :
            Await(o, arg)
      BY <2>2 DEF FleetRetry, FleetOpenCreate, FleetSubmitCreate, FleetClose
    <3>2. CallsOK' /\ \E s \in Slots :
             /\ ~Busy(s) /\ calls'[s] = NewCall(o, arg)
             /\ \A t \in Slots \ {s} : calls'[t] = calls[t]
      BY <3>1, AwaitTakesSlot DEF FleetTypes
    <3> QED
      BY <1>1, <3>2 DEF FleetTypes, FleetCalls, FleetOps, NewCall, Regenerations, InFlight
  <2> QED
    BY <2>1, <2>2
<1> QED
  BY <1>1, <1>2, FleetOtherwise DEF FleetTypes

LEMMA FleetRegenerateKeeps ==
  ASSUME FleetTypes, NEW o \in RegenerateOps, NEW i \in Items, FleetRegenerate(o, i)
  PROVE  FleetTypes' /\ FleetKnown'
<1>1. /\ ui # Unmounted /\ ui' # Unmounted /\ FleetUi' /\ db' = db
      /\ ui'.crossed = (Regenerations # {}) /\ ui'.selected = i
      /\ ui'.dialogs = {} /\ Await(o, [id |-> i])
  BY DEF FleetRegenerate, FleetRow, FleetBare, FleetShown, FleetTypes, FleetUi,
         FleetFields, Unmounted
<1>2. CallsOK' /\ \E s \in Slots :
         /\ ~Busy(s) /\ calls'[s] = NewCall(o, [id |-> i])
         /\ \A t \in Slots \ {s} : calls'[t] = calls[t]
  BY <1>1, AwaitTakesSlot DEF FleetTypes, RegenerateOps
<1>3. FleetCalls'
  BY <1>1, <1>2 DEF FleetTypes, FleetCalls, FleetOps, NewCall
<1>4. ASSUME Regenerations = {}  PROVE OneRegeneration'
  <2>1. PICK s \in Slots : /\ ~Busy(s) /\ calls'[s] = NewCall(o, [id |-> i])
                           /\ \A t \in Slots \ {s} : calls'[t] = calls[t]
    BY <1>2
  <2>2. Regenerations' = {s} /\ calls'[s].arg.id = i /\ calls'[s].outcome = "none"
    BY <1>4, <2>1 DEF Regenerations, InFlight, NewCall, RegenerateOps
  <2> QED
    BY <1>1, <2>2 DEF OneRegeneration
<1> QED
  BY <1>1, <1>2, <1>3, <1>4 DEF FleetTypes, FleetKnown, KeyInDialog

LEMMA FleetHandleKeeps ==
  ASSUME FleetTypes, FleetKnown, NEW s \in Slots, FleetHandle(s)
  PROVE  FleetTypes' /\ FleetKnown'
<1>1. /\ ui # Unmounted /\ Mine(s) /\ db' = db /\ ui' # Unmounted /\ FleetUi'
      /\ ui'.crossed = ui.crossed /\ ui'.selected = ui.selected
  <2>1. CASE FleetFetched(s)
    BY <2>1 DEF FleetFetched, FleetShown, FleetTypes, FleetUi, FleetFields, Unmounted
  <2>2. CASE FleetCreated(s) \/ FleetApiKeyRegenerated(s) \/ FleetKeysRegenerated(s)
    BY <2>2 DEF FleetCreated, FleetApiKeyRegenerated, FleetKeysRegenerated,
                FleetRefetch, FleetFailed, FleetShown, FleetTypes, FleetUi,
                FleetFields, Unmounted
  <2> QED
    BY <2>1, <2>2 DEF FleetHandle
<1>2. Finish(s) \/ AwaitNext(s, "listDevices", Nobody)
  BY DEF FleetHandle, FleetFetched, FleetCreated, FleetApiKeyRegenerated,
         FleetKeysRegenerated, FleetRefetch, FleetFailed
<1>3. /\ CallsOK' /\ \A t \in Slots \ {s} : calls'[t] = calls[t]
      /\ calls'[s] = Idle \/ calls'[s] = NewCall("listDevices", Nobody)
  BY <1>2, FinishFrees, AwaitNextReplaces DEF FleetTypes
<1>4. /\ calls'[s].op \in {"idle", "listDevices"}
      /\ FleetCalls'
      /\ \A t \in Slots : t \in Regenerations' => t \in Regenerations /\ calls'[t] = calls[t]
      /\ s \notin Regenerations'
  BY <1>1, <1>3 DEF FleetTypes, FleetCalls, FleetOps, NewCall, Idle, Regenerations, InFlight
<1>5. CASE "apiKey" \in ui'.dialogs => "apiKey" \in ui.dialogs /\ ui'.newApiKey = ui.newApiKey
  BY <1>1, <1>3, <1>4, <1>5, FleetOtherwise DEF FleetTypes
<1>6. CASE FleetApiKeyRegenerated(s) /\ calls[s].outcome = "ok"
  <2>1. s \in Regenerations /\ calls[s].mine /\ calls[s].op = "regenerateDeviceApiKey"
    BY <1>6 DEF FleetApiKeyRegenerated, Answered, Mine, Regenerations, InFlight
  <2>2. ui'.newApiKey = calls[s].data
    BY <1>1, <1>6 DEF FleetApiKeyRegenerated, FleetRefetch, FleetTypes, FleetUi, FleetFields
  <2>3. ASSUME ~ui.crossed
        PROVE  /\ Regenerations' = {}
               /\ ui'.newApiKey.device = ui'.selected /\ InForce(calls[s].data)
    <3>1. Regenerations = {s} /\ calls[s].data.device = ui.selected /\ InForce(calls[s].data)
      BY <1>1, <1>6, <2>1, <2>3 DEF FleetKnown, OneRegeneration
    <3>2. \A t \in Regenerations' : t \in Slots
      BY DEF Regenerations, InFlight
    <3> QED
      BY <1>1, <1>4, <2>2, <3>1, <3>2
  <2>4. InForce(calls[s].data) => InForce(ui.newApiKey)'
    BY <1>1, <2>2 DEF InForce, Existing
  <2> QED
    BY <1>1, <1>3, <1>4, <2>3, <2>4 DEF FleetTypes, FleetKnown, OneRegeneration, KeyInDialog
<1>7. ASSUME ~(FleetApiKeyRegenerated(s) /\ calls[s].outcome = "ok")
      PROVE  "apiKey" \in ui'.dialogs => "apiKey" \in ui.dialogs /\ ui'.newApiKey = ui.newApiKey
  <2> USE DEF FleetTypes, FleetUi, FleetFields
  <2>1. CASE FleetFetched(s)
    BY <1>1, <2>1 DEF FleetFetched
  <2>2. CASE FleetCreated(s)
    BY <1>1, <2>2 DEF FleetCreated, FleetRefetch, FleetFailed
  <2>3. CASE FleetApiKeyRegenerated(s)
    BY <1>1, <1>7, <2>3 DEF FleetApiKeyRegenerated, FleetFailed
  <2>4. CASE FleetKeysRegenerated(s)
    <3>1. CASE calls[s].outcome = "ok"
      <4>1. ui'.dialogs = ui.dialogs \cup {"keys"} /\ ui'.newApiKey = ui.newApiKey
        BY <1>1, <2>4, <3>1 DEF FleetKeysRegenerated, FleetRefetch
      <4> QED
        BY <4>1
    <3>2. CASE calls[s].outcome # "ok"
      BY <1>1, <2>4, <3>2 DEF FleetKeysRegenerated, FleetFailed
    <3> QED
      BY <3>1, <3>2
  <2> QED
    BY <2>1, <2>2, <2>3, <2>4 DEF FleetHandle
<1> QED
  BY <1>5, <1>6, <1>7

\* A reply to a regeneration has the key that is then in force; no other
\* touches the key of a device that exists.
FleetReply(s, d, out, data) ==
  LET c == calls[s] IN
  /\ d \in [Items -> Nat]
  /\ c.op # "regenerateDeviceApiKey" => \A i \in Existing : d[i] = db[i]
  /\ c.op = "regenerateDeviceApiKey" /\ out = "ok" =>
       /\ data.device = c.arg.id /\ c.arg.id \in Items
       /\ data.key = d[c.arg.id] /\ d[c.arg.id] > 0

LEMMA FleetReplies ==
  ASSUME FleetTypes, NEW s \in Slots, Busy(s), NEW r \in FleetServer(s)
  PROVE  FleetReply(s, r.db, r.outcome, r.data)
<1> USE DEF FleetReply, FleetTypes, Reply
<1>1. CASE calls[s].op = "listDevices"
  <2>1. r.db = db
    BY <1>1 DEF FleetServer
  <2> QED
    BY <1>1, <2>1
<1>2. CASE calls[s].op = "createDevice"
  <2>1. PICK i \in Items \ Existing : r.db = [db EXCEPT ![i] = 1]
    BY <1>2 DEF FleetServer
  <2> QED
    BY <1>2, <2>1 DEF Existing
<1>3. CASE calls[s].op = "regenerateDeviceApiKey"
  <2>1. PICK i \in {calls[s].arg.id} \cap Existing :
          r = Reply([db EXCEPT ![i] = @ + 1], "ok", [device |-> i, key |-> db[i] + 1])
    BY <1>3 DEF FleetServer
  <2>2. /\ i = calls[s].arg.id /\ i \in Items /\ db[i] \in Nat
        /\ r.db = [db EXCEPT ![i] = db[i] + 1]
        /\ r.data = [device |-> i, key |-> db[i] + 1]
    BY <2>1 DEF Existing
  <2>3. r.db \in [Items -> Nat] /\ r.db[i] = db[i] + 1
    BY <2>2
  <2> QED
    BY <1>3, <2>2, <2>3
<1>4. CASE calls[s].op = "regenerateDeviceKeys"
  <2>1. r.db = db
    BY <1>4 DEF FleetServer, GenerateReply
  <2> QED
    BY <1>4, <2>1
<1> QED
  BY <1>1, <1>2, <1>3, <1>4 DEF FleetCalls, FleetOps, RegenerateOps, Busy

LEMMA FleetAnswerKeeps ==
  ASSUME FleetTypes, FleetKnown, NEW s \in Slots, Waiting(s), ui' = ui, CallsOK',
         \A t \in Slots \ {s} : calls'[t] = calls[t],
         calls'[s] = Idle \/ SameCall(calls[s], calls'[s]),
         calls[s].mine => SameCall(calls[s], calls'[s]),
         NEW out, FleetReply(s, db', out, calls'[s].data) \/ (db' = db /\ out # "ok"),
         calls'[s] # Idle => calls'[s].outcome = out \/ calls'[s].outcome # "ok"
  PROVE  FleetTypes' /\ FleetKnown'
<1>1. FleetTypes'
  BY DEF FleetTypes, FleetUi, FleetCalls, FleetOps, Idle, SameCall, Mine, Busy, FleetReply
<1> SUFFICES ASSUME ui # Unmounted, ~ui.crossed, OneRegeneration, KeyInDialog
             PROVE  OneRegeneration' /\ KeyInDialog'
  BY <1>1 DEF FleetKnown
<1>2. \A t \in Slots : t \in Regenerations' => t \in Regenerations
  BY DEF Regenerations, InFlight, Idle, SameCall
<1>3. \A t \in Regenerations \cup Regenerations' : t \in Slots
  BY DEF Regenerations, InFlight
<1>4. CASE calls[s].op # "regenerateDeviceApiKey"
  <2>1. \A key : InForce(key) => InForce(key)'
    BY <1>4 DEF InForce, Existing, FleetReply, FleetTypes
  <2>2. KeyInDialog'
    BY <1>2, <1>3, <2>1 DEF KeyInDialog
  <2>3. ASSUME NEW t \in Regenerations', calls'[t].mine
        PROVE  /\ Regenerations' = {t} /\ calls'[t].arg.id = ui.selected
               /\ calls'[t].op = "regenerateDeviceApiKey" /\ calls'[t].outcome = "ok" =>
                    calls'[t].data.device = ui.selected /\ InForce(calls[t].data)'
    <3>1. t \in Slots /\ t \in Regenerations
      BY <1>2, <1>3
    <3>2. CASE t = s
      <4>1. SameCall(calls[t], calls'[t])
        BY <2>3, <3>2 DEF Regenerations, InFlight, Idle
      <4> QED
        BY <1>2, <1>3, <1>4, <2>3, <3>1, <3>2, <4>1 DEF OneRegeneration, SameCall
    <3>3. CASE t # s
      BY <1>2, <1>3, <2>1, <2>3, <3>1, <3>3 DEF OneRegeneration
    <3> QED
      BY <3>2, <3>3
  <2> QED
    BY <2>2, <2>3 DEF OneRegeneration
<1>5. CASE calls[s].op = "regenerateDeviceApiKey"
  <2>1. s \in Regenerations
    BY <1>5 DEF Regenerations, InFlight
  <2>2. KeyInDialog'
    BY <2>1 DEF KeyInDialog
  <2>3. ASSUME NEW t \in Regenerations', calls'[t].mine
        PROVE  /\ Regenerations' = {t} /\ calls'[t].arg.id = ui.selected
               /\ calls'[t].op = "regenerateDeviceApiKey" /\ calls'[t].outcome = "ok" =>
                    calls'[t].data.device = ui.selected /\ InForce(calls[t].data)'
    <3>1. t \in Slots /\ t \in Regenerations
      BY <1>2, <1>3
    <3>2. calls[t].mine
      BY <2>3, <3>1 DEF SameCall, Idle, Regenerations, InFlight
    <3>3. t = s /\ Regenerations = {s} /\ calls[s].arg.id = ui.selected
      BY <2>1, <3>1, <3>2 DEF OneRegeneration
    <3>4. Regenerations' = {t}
      BY <1>2, <1>3, <2>3, <3>3
    <3>5. SameCall(calls[s], calls'[s]) /\ calls'[s] # Idle
      BY <3>1, <3>2, <3>3, <1>5 DEF SameCall, Idle
    <3>6. ASSUME calls'[s].outcome = "ok"
          PROVE  calls'[s].data.device = ui.selected /\ InForce(calls[s].data)'
      <4>1. out = "ok" /\ FleetReply(s, db', out, calls'[s].data)
        BY <3>5, <3>6
      <4> QED
        BY <1>5, <3>3, <4>1 DEF FleetReply, InForce, Existing
    <3> QED
      BY <3>3, <3>4, <3>5, <3>6 DEF SameCall
  <2> QED
    BY <2>2, <2>3 DEF OneRegeneration
<1> QED
  BY <1>4, <1>5

LEMMA FleetBackendKeeps ==
  ASSUME FleetTypes, FleetKnown, NEW s \in Slots,
         \/ Perform(s, FleetServer(s))
         \/ Refuse(s, {"failed"})
         \/ LoseAnswer(s, FleetServer(s))
  PROVE  FleetTypes' /\ FleetKnown'
<1>1. /\ Waiting(s) /\ Busy(s) /\ ui' = ui
      /\ DOMAIN calls = Slots /\ CallFields \subseteq DOMAIN calls[s]
  BY DEF Perform, Refuse, LoseAnswer, Waiting, FleetTypes, CallsOK
<1>2. CASE Perform(s, FleetServer(s))
  <2>1. PICK r \in FleetServer(s) : db' = r.db /\ Settle(s, r.outcome, r.data)
    BY <1>2 DEF Perform
  <2>2. FleetReply(s, db', r.outcome, r.data) /\ FleetReply(s, db', "failed", calls'[s].data)
    BY <1>1, <2>1, FleetReplies DEF FleetReply
  <2>3. CallsOK' /\ \A t \in Slots \ {s} : calls'[t] = calls[t]
    BY <1>1, <2>1, SettleAnswers DEF FleetTypes
  <2>4. CASE calls'[s] = Idle /\ ~calls[s].mine
    BY <1>1, <2>2, <2>3, <2>4, FleetAnswerKeeps
  <2>5. CASE /\ SameCall(calls[s], calls'[s]) /\ calls[s].mine
             /\ calls'[s].outcome = r.outcome /\ calls'[s].data = r.data
    <3>1. PICK out : FleetReply(s, db', out, calls'[s].data) /\ calls'[s].outcome = out
      BY <2>2, <2>5
    <3>2. /\ calls'[s] = Idle \/ SameCall(calls[s], calls'[s])
          /\ calls[s].mine => SameCall(calls[s], calls'[s])
          /\ calls'[s] # Idle => calls'[s].outcome = out \/ calls'[s].outcome # "ok"
          /\ FleetReply(s, db', out, calls'[s].data) \/ (db' = db /\ out # "ok")
      BY <2>5, <3>1
    <3> QED
      BY <1>1, <2>3, <3>2, FleetAnswerKeeps
  <2> QED
    BY <1>1, <2>1, <2>4, <2>5, SettleAnswers DEF FleetTypes
<1>3. CASE Refuse(s, {"failed"})
  <2>1. Settle(s, "failed", Nobody) /\ db' = db
    BY <1>3 DEF Refuse
  <2>2. /\ CallsOK' /\ \A t \in Slots \ {s} : calls'[t] = calls[t]
        /\ \/ calls'[s] = Idle /\ ~calls[s].mine
           \/ SameCall(calls[s], calls'[s]) /\ calls[s].mine /\ calls'[s].outcome = "failed"
    BY <1>1, <2>1, SettleAnswers DEF FleetTypes
  <2> QED
    BY <1>1, <2>1, <2>2, FleetAnswerKeeps
<1>4. CASE LoseAnswer(s, FleetServer(s))
  <2>1. PICK r \in FleetServer(s) : db' = r.db
    BY <1>4 DEF LoseAnswer
  <2>2. FleetReply(s, db', "failed", calls'[s].data)
    BY <1>1, <2>1, FleetReplies DEF FleetReply
  <2>3. /\ CallsOK' /\ \A t \in Slots \ {s} : calls'[t] = calls[t]
        /\ \/ calls'[s] = Idle /\ ~calls[s].mine
           \/ SameCall(calls[s], calls'[s]) /\ calls'[s].outcome \in {"none", "failed"}
    <3>1. CASE Repeats(calls[s].op)
      BY <1>1, <1>4, <3>1
         DEF LoseAnswer, FleetTypes, CallsOK, CallFields, SameCall, Waiting, Busy, Idle
    <3>2. CASE ~Repeats(calls[s].op)
      BY <1>1, <1>4, <3>2, SettleAnswers DEF LoseAnswer, FleetTypes
    <3> QED
      BY <3>1, <3>2
  <2> QED
    BY <1>1, <2>2, <2>3, FleetAnswerKeeps
<1> QED
  BY <1>2, <1>3, <1>4

LEMMA FleetUnmountKeeps ==
  ASSUME FleetTypes, Unmount
  PROVE  FleetTypes' /\ FleetKnown'
  BY UnmountKeepsCalls
     DEF FleetTypes, FleetKnown, FleetUi, FleetCalls, FleetOps, Idle

LEMMA FleetStepKeeps ==
  ASSUME FleetTypes, FleetKnown, FleetStep
  PROVE  FleetTypes' /\ FleetKnown'
  BY FleetMountKeeps, FleetClickKeeps, FleetRegenerateKeeps
     DEF FleetStep, FleetRegenerateApiKey, FleetRegenerateKeys, RegenerateOps

FleetKeyInForce ==
  FleetDialog("apiKey") /\ ~ui.crossed =>
    ui.newApiKey.device = ui.selected /\ ui.newApiKey.key = db[ui.selected]

LEMMA FleetAlways == FrontendSpec => []FleetInv
<1>1. FrontendInit => FleetInv
  BY FleetInit DEF FleetInv
<1>2. FleetInv /\ [FrontendNext]_allVars => FleetInv'
  <2> SUFFICES ASSUME FleetInv, [FrontendNext]_allVars, screen = "fleet"
               PROVE  FleetInv'
    BY ScreenStays DEF FleetInv
  <2>1. CASE UNCHANGED allVars
    BY <2>1 DEF allVars, vars, FleetInv, FleetTypes, CallsOK, Busy, FleetUi,
                FleetCalls, Mine, FleetKnown, OneRegeneration, KeyInDialog,
                Regenerations, InFlight, InForce, Existing
  <2>2. CASE FrontendNext
    BY <2>2, FleetNextSteps, FleetStepKeeps, FleetHandleKeeps,
       FleetBackendKeeps, FleetUnmountKeeps DEF FleetInv
  <2> QED
    BY <2>1, <2>2
<1> QED
  BY <1>1, <1>2, PTL DEF FrontendSpec

LEMMA FleetShowsKey == FrontendSpec => []FleetKeyInForce
<1>1. FleetInv => FleetKeyInForce
  BY DEF FleetInv, FleetKnown, KeyInDialog, InForce, FleetKeyInForce,
         FleetDialog, FleetShown
<1> QED
  BY <1>1, FleetAlways, PTL
-----------------------------------------------------------------------------
(***************************************************************************)
(* The page of a device.  From the click that regenerates the key to the   *)
(* end of the fetch that follows the button is disabled, so unless the     *)
(* page is uncertain there is one such call at a time (Regenerating); with *)
(* none the page has no key or the one in force.                           *)
(***************************************************************************)

DeviceFields ==
  {"mounted", "page", "tab", "apiKey", "regenerating", "dialog", "preview", "uncertain"}

DeviceOps ==
  {"idle", "getDevice", "regenerateDeviceApiKey", "getAdminDeviceConfig",
   "downloadAdminDeviceConfig"}

DeviceUi == ui # Unmounted => DeviceFields \subseteq DOMAIN ui

DeviceCallsOK == \A s \in Slots : calls[s].op \in DeviceOps

DeviceTypes == CallsOK /\ DeviceUi /\ DeviceCallsOK

Regenerating ==
  {s \in Slots : \/ calls[s].op = "regenerateDeviceApiKey"
                 \/ calls[s].op = "getDevice" /\ calls[s].arg # "effect"}

OneRegenerating ==
  \A s \in Regenerating :
    ui.regenerating /\ calls[s].mine /\ \A t \in Regenerating : s = t

KeyFollows ==
  /\ InFlight("regenerateDeviceApiKey") = {} => ui.apiKey \in {Nobody, db}
  /\ \A s \in InFlight("regenerateDeviceApiKey") :
       calls[s].outcome = "ok" => calls[s].data = db

DeviceKnown == ui # Unmounted /\ ~ui.uncertain => OneRegenerating /\ KeyFollows

DeviceInv == screen = "device" => DeviceTypes /\ DeviceKnown

LEMMA DeviceNextSteps ==
  ASSUME FrontendNext, screen = "device", DeviceTypes
  PROVE  \/ DeviceStep \/ Unmount
         \/ \E s \in Slots : \/ DeviceHandle(s)
                             \/ Perform(s, DeviceServer(s))
                             \/ Refuse(s, {"failed"})
                             \/ LoseAnswer(s, DeviceServer(s))
<1>1. \A s \in Slots : Replied(s) = DeviceServer(s)
  BY DEF Replied, SmallScreens
<1>2. \A s \in Slots : Refusals(s) = {"failed"}
  BY DEF Refusals, DeviceTypes, DeviceCallsOK, DeviceOps
<1> QED
  BY <1>1, <1>2 DEF FrontendNext, PageNext, PageStep, PageHandle, Leave,
             BackendAnswers, AnswerLost, SmallScreens

LEMMA DeviceInit ==
  ASSUME FrontendInit, screen = "device"
  PROVE  DeviceTypes /\ DeviceKnown
  BY DEF FrontendInit, DeviceTypes, DeviceKnown, CallsOK, CallFields,
         DeviceUi, DeviceCallsOK, DeviceOps, Idle, Busy

\* What a step does that sends nothing but loads of the configuration.
LEMMA DeviceOtherwise ==
  ASSUME DeviceTypes, DeviceKnown, ui # Unmounted, db' = db, DeviceUi',
         ui'.uncertain = ui.uncertain, ui'.regenerating = ui.regenerating,
         ui'.apiKey = ui.apiKey, CallsOK',
         \A s \in Slots : \/ calls'[s] = calls[s]
                          \/ /\ calls[s].op \in DeviceOps \ {"getDevice", "regenerateDeviceApiKey"}
                             /\ calls'[s].op \in DeviceOps \ {"getDevice", "regenerateDeviceApiKey"}
  PROVE  DeviceTypes' /\ DeviceKnown'
<1>1. DeviceTypes'
  BY DEF DeviceTypes, DeviceCallsOK
<1>2. /\ Regenerating' = Regenerating
      /\ InFlight("regenerateDeviceApiKey")' = InFlight("regenerateDeviceApiKey")
      /\ \A s \in Regenerating : calls'[s] = calls[s]
      /\ InFlight("regenerateDeviceApiKey") \subseteq Regenerating
  BY DEF Regenerating, InFlight
<1> QED
  BY <1>1, <1>2 DEF DeviceKnown, OneRegenerating, KeyFollows

LEMMA DeviceMountKeeps ==
  ASSUME DeviceTypes, DeviceMount
  PROVE  DeviceTypes' /\ DeviceKnown'
<1>1. /\ ui' # Unmounted /\ DeviceUi' /\ ui'.apiKey = Nobody /\ ui'.uncertain = ~Quiet
      /\ Await("getDevice", "effect")
  BY DEF DeviceMount, DeviceFresh, DeviceUi, DeviceFields, Unmounted
<1>2. CallsOK' /\ \E s \in Slots :
         /\ ~Busy(s) /\ calls'[s] = NewCall("getDevice", "effect")
         /\ \A t \in Slots \ {s} : calls'[t] = calls[t]
  BY <1>1, AwaitTakesSlot DEF DeviceTypes
<1>3. DeviceCallsOK'
  BY <1>2 DEF DeviceTypes, DeviceCallsOK, DeviceOps, NewCall
<1>4. ASSUME Quiet  PROVE Regenerating' = {} /\ InFlight("regenerateDeviceApiKey")' = {}
  BY <1>2, <1>4 DEF Regenerating, InFlight, Quiet, Busy, NewCall
<1> QED
  BY <1>1, <1>2, <1>3, <1>4 DEF DeviceTypes, DeviceKnown, OneRegenerating, KeyFollows

LEMMA WithoutLoadsOK ==
  ASSUME DeviceTypes
  PROVE  /\ DOMAIN WithoutLoads = Slots
         /\ \A s \in Slots : \/ WithoutLoads[s] = calls[s]
                             \/ calls[s].op = "getAdminDeviceConfig" /\ WithoutLoads[s] = Idle
  BY DEF WithoutLoads

\* The steps of the user that leave the key alone.
LEMMA DeviceClickKeeps ==
  ASSUME DeviceTypes, DeviceKnown,
         \/ ApiKeyDialog \/ PreviewConfig \/ HideConfig \/ DownloadConfig
         \/ \E tab \in {"overview", "api", "network", "config"} : DeviceTab(tab)
  PROVE  DeviceTypes' /\ DeviceKnown'
<1>1. /\ ui # Unmounted /\ DeviceUi' /\ db' = db
      /\ ui'.uncertain = ui.uncertain /\ ui'.regenerating = ui.regenerating
      /\ ui'.apiKey = ui.apiKey
  BY DEF ApiKeyDialog, PreviewConfig, HideConfig, DownloadConfig, DeviceTab,
         RegenerateOffered, PreviewEnabled, DeviceModal, DeviceBare, DeviceTabs,
         DeviceShown, DeviceTypes, DeviceUi, DeviceFields, Unmounted
<1> DEFINE Other(s) == \/ calls'[s] = calls[s]
                       \/ /\ calls[s].op \in DeviceOps \ {"getDevice", "regenerateDeviceApiKey"}
                          /\ calls'[s].op \in DeviceOps \ {"getDevice", "regenerateDeviceApiKey"}
<1>2. CallsOK' /\ \A s \in Slots : Other(s)
  <2>1. CASE calls' = calls
    BY <2>1 DEF DeviceTypes, CallsOK, Busy
  <2>2. CASE Await("getAdminDeviceConfig", Nobody) \/ Await("downloadAdminDeviceConfig", Nobody)
    <3>1. PICK o \in {"getAdminDeviceConfig", "downloadAdminDeviceConfig"} : Await(o, Nobody)
      BY <2>2
    <3>2. CallsOK' /\ \E s \in Slots :
             /\ ~Busy(s) /\ calls'[s] = NewCall(o, Nobody)
             /\ \A t \in Slots \ {s} : calls'[t] = calls[t]
      BY <3>1, AwaitTakesSlot DEF DeviceTypes
    <3> QED
      BY <3>2 DEF NewCall, DeviceOps, Busy
  <2>3. CASE \E both \in SUBSET FreeSlots :
               calls' = [s \in Slots |->
                           IF s \in both THEN NewCall("getAdminDeviceConfig", Nobody)
                           ELSE calls[s]]
    BY <2>3 DEF FreeSlots, Busy, NewCall, DeviceOps, DeviceTypes, CallsOK, CallFields
  <2>4. CASE calls' = WithoutLoads
    BY <2>4, WithoutLoadsOK DEF DeviceTypes, CallsOK, Busy, Idle, DeviceOps
  <2> QED
    BY <2>1, <2>2, <2>3, <2>4
       DEF ApiKeyDialog, PreviewConfig, HideConfig, DownloadConfig, DeviceTab
<1> QED
  BY <1>1, <1>2, DeviceOtherwise

LEMMA ApiKeyRegenerateKeeps ==
  ASSUME DeviceTypes, DeviceKnown, ApiKeyRegenerate
  PROVE  DeviceTypes' /\ DeviceKnown'
<1>1. /\ ui # Unmounted /\ ~ui.regenerating /\ DeviceUi' /\ ui'.regenerating
      /\ ui'.uncertain = ui.uncertain /\ Await("regenerateDeviceApiKey", Nobody)
  BY DEF ApiKeyRegenerate, RegenerateEnabled, DeviceModal, DeviceTabs, DeviceShown,
         DeviceTypes, DeviceUi, DeviceFields, Unmounted
<1>2. PICK s \in Slots :
        /\ CallsOK' /\ ~Busy(s) /\ calls'[s] = NewCall("regenerateDeviceApiKey", Nobody)
        /\ \A t \in Slots \ {s} : calls'[t] = calls[t]
  BY <1>1, AwaitTakesSlot DEF DeviceTypes
<1>3. DeviceCallsOK'
  BY <1>2 DEF DeviceTypes, DeviceCallsOK, DeviceOps, NewCall
<1>4. ASSUME ~ui.uncertain  PROVE OneRegenerating' /\ KeyFollows'
  <2>1. Regenerating = {}
    BY <1>1, <1>4 DEF DeviceKnown, OneRegenerating
  <2>2. Regenerating' = {s} /\ InFlight("regenerateDeviceApiKey")' = {s}
    BY <1>2, <2>1 DEF Regenerating, InFlight, NewCall
  <2> QED
    BY <1>1, <1>2, <2>2 DEF OneRegenerating, KeyFollows, NewCall
<1> QED
  BY <1>1, <1>2, <1>3, <1>4 DEF DeviceTypes, DeviceKnown

LEMMA DeviceFetchedKeeps ==
  ASSUME DeviceTypes, DeviceKnown, NEW s \in Slots, DeviceFetched(s)
  PROVE  DeviceTypes' /\ DeviceKnown'
<1>1. /\ ui # Unmounted /\ DeviceUi' /\ db' = db /\ calls[s].op = "getDevice"
      /\ ui'.uncertain = ui.uncertain /\ ui'.apiKey = ui.apiKey
      /\ calls[s].arg = "effect" /\ ui.regenerating => ui'.regenerating
      /\ Finish(s)
  BY DEF DeviceFetched, DeviceShown, Answered, DeviceTypes, DeviceUi, DeviceFields, Unmounted
<1>2. /\ CallsOK' /\ calls'[s] = Idle
      /\ \A t \in Slots \ {s} : calls'[t] = calls[t]
  BY <1>1, FinishFrees DEF DeviceTypes
<1>3. DeviceCallsOK'
  BY <1>2 DEF DeviceTypes, DeviceCallsOK, DeviceOps, Idle
<1>4. /\ InFlight("regenerateDeviceApiKey")' = InFlight("regenerateDeviceApiKey")
      /\ Regenerating' = Regenerating \ {s}
      /\ calls[s].arg # "effect" => s \in Regenerating
      /\ \A t \in Regenerating' : t # s /\ calls'[t] = calls[t]
      /\ \A t \in InFlight("regenerateDeviceApiKey") : calls'[t] = calls[t]
  BY <1>1, <1>2 DEF InFlight, Regenerating, Idle
<1>5. ASSUME ~ui.uncertain  PROVE OneRegenerating' /\ KeyFollows'
  <2>1. OneRegenerating /\ KeyFollows
    BY <1>1, <1>5 DEF DeviceKnown
  <2>2. KeyFollows'
    BY <1>1, <1>4, <2>1 DEF KeyFollows
  <2>3. OneRegenerating'
    BY <1>1, <1>4, <2>1 DEF OneRegenerating
  <2> QED
    BY <2>2, <2>3
<1> QED
  BY <1>1, <1>2, <1>3, <1>5 DEF DeviceTypes, DeviceKnown

LEMMA ApiKeyRegeneratedKeeps ==
  ASSUME DeviceTypes, DeviceKnown, NEW s \in Slots, ApiKeyRegenerated(s)
  PROVE  DeviceTypes' /\ DeviceKnown'
<1>1. /\ ui # Unmounted /\ DeviceUi' /\ db' = db /\ calls[s].op = "regenerateDeviceApiKey"
  BY DEF ApiKeyRegenerated, DeviceShown, Answered, DeviceTypes, DeviceUi, DeviceFields, Unmounted
<1>2. CASE calls[s].outcome # "ok"
  <2>1. Finish(s) /\ ui'.uncertain
    BY <1>1, <1>2 DEF ApiKeyRegenerated, DeviceTypes, DeviceUi, DeviceFields
  <2>2. /\ CallsOK' /\ calls'[s] = Idle
        /\ \A t \in Slots \ {s} : calls'[t] = calls[t]
    BY <2>1, FinishFrees DEF DeviceTypes
  <2> QED
    BY <1>1, <2>1, <2>2 DEF DeviceTypes, DeviceCallsOK, DeviceOps, Idle, DeviceKnown
<1>3. CASE calls[s].outcome = "ok"
  <2>1. /\ calls' = [WithoutLoads EXCEPT ![s] = NewCall("getDevice", "regenerate")]
        /\ ui'.apiKey = calls[s].data /\ ui'.uncertain = ui.uncertain
        /\ ui'.regenerating = ui.regenerating
    BY <1>1, <1>3 DEF ApiKeyRegenerated, DeviceTypes, DeviceUi, DeviceFields
  <2>2. /\ DOMAIN calls' = Slots /\ calls'[s] = NewCall("getDevice", "regenerate")
        /\ \A t \in Slots \ {s} : calls'[t] = calls[t] \/ calls'[t] = Idle
    BY <2>1, WithoutLoadsOK
  <2>3. CallsOK' /\ DeviceCallsOK'
    BY <2>2 DEF DeviceTypes, CallsOK, CallFields, Busy, Idle, NewCall, DeviceCallsOK, DeviceOps
  <2>4. ASSUME ~ui.uncertain  PROVE OneRegenerating' /\ KeyFollows'
    <3>1. Regenerating = {s} /\ ui.regenerating /\ calls[s].data = db
      BY <1>1, <1>3, <2>4
         DEF DeviceKnown, OneRegenerating, KeyFollows, Regenerating, InFlight
    <3>2. Regenerating' = {s} /\ InFlight("regenerateDeviceApiKey")' = {}
      BY <2>2, <3>1 DEF Regenerating, InFlight, Idle, NewCall
    <3> QED
      BY <1>1, <2>1, <2>2, <3>1, <3>2 DEF OneRegenerating, KeyFollows, NewCall
  <2> QED
    BY <1>1, <2>1, <2>3, <2>4 DEF DeviceTypes, DeviceKnown
<1> QED
  BY <1>2, <1>3

LEMMA DeviceHandleKeeps ==
  ASSUME DeviceTypes, DeviceKnown, NEW s \in Slots, DeviceHandle(s)
  PROVE  DeviceTypes' /\ DeviceKnown'
<1>1. CASE ConfigLoaded(s) \/ ConfigDownloaded(s)
  <2>1. /\ ui # Unmounted /\ DeviceUi' /\ db' = db
        /\ ui'.uncertain = ui.uncertain /\ ui'.regenerating = ui.regenerating
        /\ ui'.apiKey = ui.apiKey /\ Finish(s)
        /\ calls[s].op \in {"getAdminDeviceConfig", "downloadAdminDeviceConfig"}
    BY <1>1 DEF ConfigLoaded, ConfigDownloaded, DeviceTabs, DeviceShown, Answered,
                DeviceTypes, DeviceUi, DeviceFields, Unmounted
  <2>2. /\ CallsOK' /\ calls'[s] = Idle
        /\ \A t \in Slots \ {s} : calls'[t] = calls[t]
    BY <2>1, FinishFrees DEF DeviceTypes
  <2>3. \A t \in Slots : \/ calls'[t] = calls[t]
                         \/ /\ calls[t].op \in DeviceOps \ {"getDevice", "regenerateDeviceApiKey"}
                            /\ calls'[t].op \in DeviceOps \ {"getDevice", "regenerateDeviceApiKey"}
    BY <2>1, <2>2 DEF Idle, DeviceOps
  <2> QED
    BY <2>1, <2>2, <2>3, DeviceOtherwise
<1> QED
  BY <1>1, DeviceFetchedKeeps, ApiKeyRegeneratedKeeps DEF DeviceHandle

LEMMA DeviceAnswerKeeps ==
  ASSUME DeviceTypes, DeviceKnown, NEW s \in Slots, ui' = ui, CallsOK',
         \A t \in Slots \ {s} : calls'[t] = calls[t],
         calls'[s] = Idle \/ SameCall(calls[s], calls'[s]),
         calls[s].mine => SameCall(calls[s], calls'[s]),
         calls[s].op # "regenerateDeviceApiKey" => db' = db,
         calls'[s] # Idle /\ calls[s].op = "regenerateDeviceApiKey"
           /\ calls'[s].outcome = "ok" => calls'[s].data = db'
  PROVE  DeviceTypes' /\ DeviceKnown'
<1>1. DeviceTypes'
  BY DEF DeviceTypes, DeviceUi, DeviceCallsOK, DeviceOps, Idle, SameCall
<1>2. ASSUME ui # Unmounted, ~ui.uncertain, OneRegenerating, KeyFollows
      PROVE  OneRegenerating' /\ KeyFollows'
  <2>1. CASE SameCall(calls[s], calls'[s])
    <3>1. /\ Regenerating' = Regenerating
          /\ InFlight("regenerateDeviceApiKey")' = InFlight("regenerateDeviceApiKey")
          /\ InFlight("regenerateDeviceApiKey") \subseteq Regenerating
          /\ Regenerating \subseteq Slots
      BY <2>1 DEF Regenerating, InFlight, SameCall
    <3>2. \A t \in Slots : calls'[t].mine = calls[t].mine
      BY <2>1 DEF SameCall
    <3>3. OneRegenerating'
      BY <1>2, <3>1, <3>2 DEF OneRegenerating
    <3>4. CASE calls[s].op # "regenerateDeviceApiKey"
      <4>1. s \notin InFlight("regenerateDeviceApiKey")
        BY <3>4 DEF InFlight
      <4> QED
        BY <1>2, <3>1, <3>3, <3>4, <4>1 DEF KeyFollows
    <3>5. CASE calls[s].op = "regenerateDeviceApiKey"
      <4>1. InFlight("regenerateDeviceApiKey") = {s} /\ calls'[s] # Idle
        BY <1>2, <2>1, <3>1, <3>5 DEF OneRegenerating, InFlight, SameCall, Idle
      <4> QED
        BY <3>1, <3>3, <3>5, <4>1 DEF KeyFollows
    <3> QED
      BY <3>4, <3>5
  <2>2. CASE calls'[s] = Idle /\ ~calls[s].mine
    <3>1. s \notin Regenerating
      BY <1>2, <2>2 DEF OneRegenerating
    <3>2. /\ Regenerating' = Regenerating
          /\ InFlight("regenerateDeviceApiKey")' = InFlight("regenerateDeviceApiKey")
          /\ s \notin InFlight("regenerateDeviceApiKey")
          /\ calls[s].op # "regenerateDeviceApiKey"
      BY <2>2, <3>1 DEF Regenerating, InFlight, Idle
    <3>3. \A t \in Regenerating \cup InFlight("regenerateDeviceApiKey") : calls'[t] = calls[t]
      BY <3>1, <3>2 DEF Regenerating, InFlight
    <3> QED
      BY <1>2, <3>2, <3>3 DEF OneRegenerating, KeyFollows
  <2> QED
    BY <2>1, <2>2
<1> QED
  BY <1>1, <1>2 DEF DeviceKnown

LEMMA DeviceReplies ==
  ASSUME NEW s \in Slots, NEW r \in DeviceServer(s)
  PROVE  IF calls[s].op = "regenerateDeviceApiKey"
         THEN r.outcome = "ok" => r.data = r.db
         ELSE r.db = db
<1>1. CASE calls[s].op = "regenerateDeviceApiKey"
  <2>1. r = Reply(db, "failed", Nobody) \/ r = Reply(db + 1, "ok", db + 1)
    BY <1>1 DEF DeviceServer
  <2> QED
    BY <1>1, <2>1 DEF Reply
<1>2. CASE calls[s].op # "regenerateDeviceApiKey"
  BY <1>2 DEF DeviceServer, GenerateReply, Reply
<1> QED
  BY <1>1, <1>2

LEMMA DeviceBackendKeeps ==
  ASSUME DeviceTypes, DeviceKnown, NEW s \in Slots,
         \/ Perform(s, DeviceServer(s))
         \/ Refuse(s, {"failed"})
         \/ LoseAnswer(s, DeviceServer(s))
  PROVE  DeviceTypes' /\ DeviceKnown'
<1>1. /\ Waiting(s) /\ Busy(s) /\ ui' = ui
      /\ DOMAIN calls = Slots /\ CallFields \subseteq DOMAIN calls[s]
  BY DEF Perform, Refuse, LoseAnswer, Waiting, DeviceTypes, CallsOK
<1>2. CASE Perform(s, DeviceServer(s))
  <2>1. PICK r \in DeviceServer(s) : db' = r.db /\ Settle(s, r.outcome, r.data)
    BY <1>2 DEF Perform
  <2>2. /\ CallsOK' /\ \A t \in Slots \ {s} : calls'[t] = calls[t]
        /\ \/ calls'[s] = Idle /\ ~calls[s].mine
           \/ /\ SameCall(calls[s], calls'[s]) /\ calls[s].mine
              /\ calls'[s].outcome = r.outcome /\ calls'[s].data = r.data
    BY <1>1, <2>1, SettleAnswers DEF DeviceTypes
  <2> QED
    BY <1>1, <2>1, <2>2, DeviceReplies, DeviceAnswerKeeps
<1>3. CASE Refuse(s, {"failed"})
  <2>1. Settle(s, "failed", Nobody) /\ db' = db
    BY <1>3 DEF Refuse
  <2>2. /\ CallsOK' /\ \A t \in Slots \ {s} : calls'[t] = calls[t]
        /\ \/ calls'[s] = Idle /\ ~calls[s].mine
           \/ SameCall(calls[s], calls'[s]) /\ calls[s].mine /\ calls'[s].outcome = "failed"
    BY <1>1, <2>1, SettleAnswers DEF DeviceTypes
  <2> QED
    BY <1>1, <2>1, <2>2, DeviceAnswerKeeps
<1>4. CASE LoseAnswer(s, DeviceServer(s))
  <2>1. PICK r \in DeviceServer(s) : db' = r.db
    BY <1>4 DEF LoseAnswer
  <2>2. /\ CallsOK' /\ \A t \in Slots \ {s} : calls'[t] = calls[t]
        /\ \/ calls'[s] = Idle /\ ~calls[s].mine
           \/ SameCall(calls[s], calls'[s]) /\ calls'[s].outcome \in {"none", "failed"}
    <3>1. CASE Repeats(calls[s].op)
      BY <1>1, <1>4, <3>1
         DEF LoseAnswer, DeviceTypes, CallsOK, CallFields, SameCall, Waiting, Busy, Idle
    <3>2. CASE ~Repeats(calls[s].op)
      BY <1>1, <1>4, <3>2, SettleAnswers DEF LoseAnswer, DeviceTypes
    <3> QED
      BY <3>1, <3>2
  <2> QED
    BY <1>1, <2>1, <2>2, DeviceReplies, DeviceAnswerKeeps
<1> QED
  BY <1>2, <1>3, <1>4

LEMMA DeviceUnmountKeeps ==
  ASSUME DeviceTypes, Unmount
  PROVE  DeviceTypes' /\ DeviceKnown'
  BY UnmountKeepsCalls
     DEF DeviceTypes, DeviceKnown, DeviceUi, DeviceCallsOK, DeviceOps, Idle

\* The API key on display is in force, and that of the device it is displayed
\* for, for any number of devices and of calls in flight: in the dialog of the
\* list of all devices unless regenerations crossed, and on the page of a
\* device, once all is quiet, unless it was told of a failure
\* (devices/page.tsx, networks/[id]/devices/[deviceId]/page.tsx).
THEOREM ShownKeysWork == FrontendSpec => []KeyShownIsInForce
<1>1. FrontendInit => DeviceInv
  BY DeviceInit DEF DeviceInv
<1>2. DeviceInv /\ [FrontendNext]_allVars => DeviceInv'
  <2> SUFFICES ASSUME DeviceInv, [FrontendNext]_allVars, screen = "device"
               PROVE  DeviceInv'
    BY ScreenStays DEF DeviceInv
  <2>1. CASE UNCHANGED allVars
    BY <2>1 DEF allVars, vars, DeviceInv, DeviceTypes, CallsOK, Busy, DeviceUi,
                DeviceCallsOK, DeviceKnown, OneRegenerating, KeyFollows,
                Regenerating, InFlight
  <2>2. CASE FrontendNext
    BY <2>2, DeviceNextSteps, DeviceMountKeeps, DeviceClickKeeps,
       ApiKeyRegenerateKeeps, DeviceHandleKeeps, DeviceBackendKeeps,
       DeviceUnmountKeeps DEF DeviceInv, DeviceStep
  <2> QED
    BY <2>1, <2>2
<1>3. FleetKeyInForce /\ DeviceInv => KeyShownIsInForce
  <2>1. ASSUME DeviceInv, Quiet, ApiKeyShown, ~ui.uncertain  PROVE ui.apiKey = db
    <3>1. InFlight("regenerateDeviceApiKey") = {}
      BY <2>1 DEF Quiet, Busy, InFlight
    <3> QED
      BY <2>1, <3>1 DEF DeviceInv, DeviceKnown, KeyFollows, ApiKeyShown, DeviceTabs, DeviceShown
  <2> QED
    BY <2>1 DEF FleetKeyInForce, KeyShownIsInForce
<1> QED
  BY <1>1, <1>2, <1>3, FleetShowsKey, PTL DEF FrontendSpec
-----------------------------------------------------------------------------
(***************************************************************************)
(* The provider that keeps the session of the browser.  As long as nothing *)
(* is uncertain there is at most one refresh in flight, asked for the      *)
(* token the provider has (RefreshIsCurrent).  The provider then believes  *)
(* what is so, or that refresh will tell, or an unlock or a lock is in     *)
(* flight, whose answer makes it ask or leaves it uncertain                *)
(* (BeliefFollows).                                                        *)
(***************************************************************************)

SessionFields ==
  {"mounted", "token", "isUnlocked", "isChecking", "known", "dialog",
   "unlocking", "uncertain"}

RefreshOps == {"isMasterPasswordUnlocked", "getMasterPasswordStatus"}
ChangeOps  == {"unlockMasterPassword", "lockMasterPassword"}
SessionOps == RefreshOps \cup ChangeOps \cup {"extendMasterPasswordTTL"}

Refreshing == {s \in Slots : calls[s].op \in RefreshOps}
Unlocking  == InFlight("unlockMasterPassword")
Locking    == InFlight("lockMasterPassword")
NoChange   == \A s \in Slots : calls[s].op \notin ChangeOps

\* What a refresh would find now.
SessionAccepted == db.open /\ ui.token \in db.sessions \cup {0}

SessionDb == {"open", "sessions", "issued"} \subseteq DOMAIN db /\ db.open \in BOOLEAN

SessionUi == ui # Unmounted =>
  SessionFields \subseteq DOMAIN ui /\ ui.isUnlocked \in BOOLEAN

SessionCalls ==
  \A s \in Slots : Busy(s) =>
    /\ ui # Unmounted
    /\ calls[s].op \in SessionOps /\ calls[s].mine
    /\ calls[s].op = "lockMasterPassword" => calls[s].arg.for \in {"lock", "dialog"}
    /\ s \in Refreshing /\ calls[s].outcome = "ok" => calls[s].data \in BOOLEAN

RefreshIsCurrent ==
  \A s \in Refreshing :
    /\ calls[s].op = RefreshOp(ui.token) /\ calls[s].arg.token = ui.token
    /\ \A t \in Refreshing : s = t
    /\ NoChange =>
         /\ calls[s].outcome = "ok" => (calls[s].data <=> SessionAccepted)
         /\ calls[s].outcome = "unauthorized" => ~SessionAccepted

BeliefFollows ==
  /\ NoChange => Refreshing # {} \/ (ui.isUnlocked <=> SessionAccepted)
  /\ Unlocking = {} => \A s \in Locking : calls[s].outcome = "ok" => ~db.open

SessionKnown == ui # Unmounted /\ ~ui.uncertain => RefreshIsCurrent /\ BeliefFollows

SessionTypes == CallsOK /\ SessionDb /\ SessionUi /\ SessionCalls

SessionInv == screen = "session" => SessionTypes /\ SessionKnown

LEMMA SessionNextSteps ==
  ASSUME FrontendNext, screen = "session", SessionTypes
  PROVE  \/ SessionStep
         \/ \E s \in Slots : \/ SessionHandle(s)
                             \/ Perform(s, SessionServer(s))
                             \/ Refuse(s, {"failed"})
                             \/ LoseAnswer(s, SessionServer(s))
<1>1. \A s \in Slots : Replied(s) = SessionServer(s)
  BY DEF Replied, SmallScreens
<1>2. \A s \in Slots : Waiting(s) => Refusals(s) = {"failed"}
  BY DEF Refusals, SessionTypes, SessionCalls, SessionOps, RefreshOps, ChangeOps, Waiting
<1> QED
  BY <1>1, <1>2 DEF FrontendNext, PageNext, PageStep, PageHandle, Leave,
             BackendAnswers, AnswerLost, SmallScreens

LEMMA SessionInit ==
  ASSUME FrontendInit, screen = "session"
  PROVE  SessionTypes /\ SessionKnown
<1>1. db \in {[open |-> b, sessions |-> {}, issued |-> 0] : b \in BOOLEAN}
  BY DEF FrontendInit, Stored, SmallScreens
<1> QED
  BY <1>1 DEF FrontendInit, SessionTypes, SessionKnown, CallsOK, CallFields,
              SessionDb, SessionUi, SessionCalls, Idle, Busy

\* A refresh that is alone in flight makes everything known.
LEMMA RefreshSettles ==
  ASSUME NEW s \in Slots, NEW for, CallsOK',
         calls'[s] = NewCall(RefreshOp(ui'.token), Asked(ui'.token, for)),
         ui'.uncertain \/ \A t \in Slots \ {s} : calls'[t] = Idle
  PROVE  SessionKnown'
<1> SUFFICES ASSUME ~ui'.uncertain  PROVE (RefreshIsCurrent /\ BeliefFollows)'
  BY DEF SessionKnown
<1>1. \A t \in Slots \ {s} : calls'[t].op = "idle"
  BY DEF Idle
<1>2. /\ calls'[s].op = RefreshOp(ui'.token) /\ calls'[s].arg.token = ui'.token
      /\ calls'[s].outcome = "none" /\ calls'[s].op \in RefreshOps
  BY DEF NewCall, Asked, RefreshOp, RefreshOps
<1>3. Refreshing' = {s}
  BY <1>1, <1>2 DEF Refreshing, RefreshOps
<1> QED
  BY <1>1, <1>2, <1>3 DEF RefreshIsCurrent, BeliefFollows, Locking, InFlight, RefreshOps

\* A call that is sent makes nothing known that was not.
LEMMA SendKeepsTypes ==
  ASSUME SessionTypes, NEW o \in SessionOps, NEW arg, Await(o, arg),
         ui' # Unmounted, o = "lockMasterPassword" => arg.for \in {"lock", "dialog"}
  PROVE  /\ CallsOK' /\ SessionCalls'
         /\ \E s \in Slots :
              /\ ~Busy(s) /\ calls'[s] = NewCall(o, arg)
              /\ \A t \in Slots \ {s} : calls'[t] = calls[t]
<1>1. /\ CallsOK'
      /\ \E s \in Slots :
           /\ ~Busy(s) /\ calls'[s] = NewCall(o, arg)
           /\ \A t \in Slots \ {s} : calls'[t] = calls[t]
  BY AwaitTakesSlot DEF SessionTypes, SessionOps, RefreshOps, ChangeOps
<1>2. SessionCalls'
  BY <1>1 DEF SessionTypes, SessionCalls, NewCall, Busy, Refreshing
<1> QED
  BY <1>1, <1>2

LEMMA ReplaceKeepsTypes ==
  ASSUME SessionTypes, NEW s \in Slots, NEW o \in SessionOps \ ChangeOps, NEW arg,
         AwaitNext(s, o, arg), ui' # Unmounted
  PROVE  /\ CallsOK' /\ SessionCalls'
         /\ calls'[s] = NewCall(o, arg)
         /\ \A t \in Slots \ {s} : calls'[t] = calls[t]
<1>1. /\ CallsOK' /\ calls'[s] = NewCall(o, arg)
      /\ \A t \in Slots \ {s} : calls'[t] = calls[t]
  BY AwaitNextReplaces DEF SessionTypes, SessionOps, RefreshOps, ChangeOps
<1>2. SessionCalls'
  BY <1>1 DEF SessionTypes, SessionCalls, NewCall, Busy, Refreshing, ChangeOps
<1> QED
  BY <1>1, <1>2

LEMMA FinishKeepsTypes ==
  ASSUME SessionTypes, NEW s \in Slots, Finish(s), ui' # Unmounted
  PROVE  /\ CallsOK' /\ SessionCalls' /\ calls'[s] = Idle
         /\ \A t \in Slots \ {s} : calls'[t] = calls[t]
<1>1. /\ CallsOK' /\ calls'[s] = Idle
      /\ \A t \in Slots \ {s} : calls'[t] = calls[t]
  BY FinishFrees DEF SessionTypes
<1>2. SessionCalls'
  BY <1>1 DEF SessionTypes, SessionCalls, Idle, Busy, Refreshing
<1> QED
  BY <1>1, <1>2

LEMMA RefreshOpIs == \A token : RefreshOp(token) \in SessionOps \ ChangeOps
  BY DEF RefreshOp, SessionOps, RefreshOps, ChangeOps

LEMMA SessionFreshIs ==
  ASSUME NEW token, NEW doubt
  PROVE  LET u == SessionFresh(token, doubt) IN
         /\ u # Unmounted /\ SessionFields \subseteq DOMAIN u
         /\ u.isUnlocked \in BOOLEAN /\ u.token = token /\ u.uncertain = doubt
  BY DEF SessionFresh, Unmounted, SessionFields

LEMMA SessionMountKeeps ==
  ASSUME SessionTypes, SessionMount
  PROVE  SessionTypes' /\ SessionKnown'
<1>1. /\ ui' # Unmounted /\ SessionUi' /\ ui'.token = 0 /\ SessionDb'
      /\ Await(RefreshOp(ui'.token), Asked(ui'.token, "nobody"))
  BY SessionFreshIs DEF SessionMount, SessionUi, SessionTypes, SessionDb
<1>2. PICK s \in Slots : /\ calls'[s] = NewCall(RefreshOp(ui'.token), Asked(ui'.token, "nobody"))
                         /\ \A t \in Slots \ {s} : calls'[t] = calls[t]
  BY <1>1, SendKeepsTypes, RefreshOpIs DEF ChangeOps
<1>3. CallsOK' /\ SessionCalls'
  BY <1>1, SendKeepsTypes, RefreshOpIs DEF ChangeOps
<1>4. \A t \in Slots \ {s} : calls'[t] = Idle
  BY <1>2 DEF SessionMount, SessionTypes, SessionCalls, CallsOK
<1> QED
  BY <1>1, <1>2, <1>3, <1>4, RefreshSettles DEF SessionTypes

LEMMA SessionReloadKeeps ==
  ASSUME SessionTypes, SessionReload
  PROVE  SessionTypes' /\ SessionKnown'
<1>0. 1 \in Slots
  BY ScreenAssumption DEF Slots
<1>1. /\ ui' # Unmounted /\ SessionUi' /\ ui'.token = ui.token /\ SessionDb'
  BY SessionFreshIs DEF SessionReload, SessionUi, SessionTypes, SessionDb
<1>2. /\ DOMAIN calls' = Slots
      /\ calls'[1] = NewCall(RefreshOp(ui'.token), Asked(ui'.token, "nobody"))
      /\ \A t \in Slots \ {1} : calls'[t] = Idle
  BY <1>0, <1>1 DEF SessionReload
<1>3. CallsOK'
  BY <1>2, RefreshOpIs
     DEF CallsOK, CallFields, NewCall, Idle, Busy, SessionOps, RefreshOps, ChangeOps
<1>4. SessionCalls'
  BY <1>1, <1>2, RefreshOpIs
     DEF SessionCalls, NewCall, Idle, Busy, Refreshing, ChangeOps
<1> QED
  BY <1>0, <1>1, <1>2, <1>3, <1>4, RefreshSettles DEF SessionTypes

LEMMA SessionAskKeeps ==
  ASSUME SessionTypes, SessionPoll \/ SessionForceLock
  PROVE  SessionTypes' /\ SessionKnown'
<1>1. /\ ui' # Unmounted /\ SessionUi' /\ SessionDb' /\ ui'.uncertain = ~Quiet
      /\ Await(RefreshOp(ui'.token), Asked(ui'.token, "nobody"))
  BY DEF SessionPoll, SessionForceLock, SessionShown, SessionUi, SessionFields,
         SessionTypes, SessionDb, Unmounted
<1>2. PICK s \in Slots : /\ calls'[s] = NewCall(RefreshOp(ui'.token), Asked(ui'.token, "nobody"))
                         /\ \A t \in Slots \ {s} : calls'[t] = calls[t]
  BY <1>1, SendKeepsTypes, RefreshOpIs DEF ChangeOps
<1>3. CallsOK' /\ SessionCalls'
  BY <1>1, SendKeepsTypes, RefreshOpIs DEF ChangeOps
<1>4. Quiet => \A t \in Slots \ {s} : calls'[t] = Idle
  BY <1>2 DEF SessionTypes, CallsOK, Quiet
<1> QED
  BY <1>1, <1>2, <1>3, <1>4, RefreshSettles DEF SessionTypes

\* What opens or closes the dialog changes nothing that is known.
LEMMA SessionDialogKeeps ==
  ASSUME SessionTypes, SessionKnown, SessionOpenDialog \/ SessionCloseDialog
  PROVE  SessionTypes' /\ SessionKnown'
<1>1. /\ ui # Unmounted /\ ui' # Unmounted /\ UNCHANGED <<calls, db>>
      /\ SessionUi' /\ ui'.token = ui.token /\ ui'.isUnlocked = ui.isUnlocked
      /\ ui'.uncertain = ui.uncertain
  BY DEF SessionOpenDialog, SessionCloseDialog, SessionShown, SessionUi,
         SessionFields, SessionTypes, Unmounted
<1>2. SessionTypes'
  BY <1>1 DEF SessionTypes, CallsOK, Busy, SessionDb, SessionCalls, Refreshing
<1>3. SessionKnown'
  BY <1>1 DEF SessionKnown, RefreshIsCurrent, BeliefFollows, Refreshing,
              NoChange, SessionAccepted, Unlocking, Locking, InFlight
<1> QED
  BY <1>2, <1>3

LEMMA SessionSendKeeps ==
  ASSUME SessionTypes, SessionKnown,
         SessionUnlock \/ SessionLock \/ SessionLockNow \/ SessionExtend
  PROVE  SessionTypes' /\ SessionKnown'
<1>1. /\ ui # Unmounted /\ ui' # Unmounted /\ db' = db
      /\ SessionUi' /\ ui'.token = ui.token /\ ui'.isUnlocked = ui.isUnlocked
      /\ ui'.uncertain = ui.uncertain
  BY DEF SessionUnlock, SessionLock, SessionLockNow, SessionExtend, UnlockEnabled,
         UnlockFormShown, StatusDialogShown, SessionShown, SessionUi, SessionSend,
         SessionFields, SessionTypes, Unmounted
<1>2. PICK o \in SessionOps \ RefreshOps, arg \in {Asked(ui.token, f) : f \in {"unlock", "lock", "dialog", "extend"}} :
        Await(o, arg) /\ (o = "lockMasterPassword" => arg.for \in {"lock", "dialog"})
  BY DEF SessionUnlock, SessionLock, SessionLockNow, SessionExtend, SessionSend,
         SessionOps, RefreshOps, ChangeOps, Asked
<1>3. /\ CallsOK' /\ SessionCalls'
      /\ \E s \in Slots : /\ ~Busy(s) /\ calls'[s] = NewCall(o, arg)
                          /\ \A t \in Slots \ {s} : calls'[t] = calls[t]
  BY <1>1, <1>2, SendKeepsTypes
<1>4. PICK s \in Slots : /\ ~Busy(s) /\ calls'[s].op = o /\ calls'[s].outcome = "none"
                         /\ \A t \in Slots \ {s} : calls'[t] = calls[t]
  BY <1>3 DEF NewCall
<1>5. Refreshing' = Refreshing
  BY <1>2, <1>4 DEF Refreshing, Busy, RefreshOps
<1>6. NoChange' => NoChange
  BY <1>4 DEF NoChange, Busy, ChangeOps
<1>7. (Unlocking' = {} => Unlocking = {}) /\ \A t \in Locking' : t = s \/ t \in Locking
  BY <1>4 DEF Unlocking, Locking, InFlight, Busy
<1>8. s \notin Refreshing
  BY <1>4 DEF Refreshing, Busy, RefreshOps
<1>9. SessionAccepted' <=> SessionAccepted
  BY <1>1 DEF SessionAccepted
<1>10. ASSUME RefreshIsCurrent  PROVE RefreshIsCurrent'
  <2>1. \A t \in Refreshing : calls'[t] = calls[t]
    BY <1>4, <1>8 DEF Refreshing
  <2> QED
    BY <1>1, <1>5, <1>6, <1>9, <1>10, <2>1 DEF RefreshIsCurrent
<1>11. ASSUME BeliefFollows  PROVE BeliefFollows'
  <2>1. \A t \in Locking' : calls'[t].outcome = "ok" => t \in Locking /\ calls[t].outcome = "ok"
    BY <1>4, <1>7 DEF Locking, InFlight
  <2> QED
    BY <1>1, <1>5, <1>6, <1>7, <1>9, <1>11, <2>1 DEF BeliefFollows
<1> QED
  BY <1>1, <1>3, <1>10, <1>11 DEF SessionTypes, SessionDb, SessionKnown

LEMMA BackendChangesKeeps ==
  ASSUME SessionTypes, BackendChanges
  PROVE  SessionTypes' /\ SessionKnown'
<1>1. /\ ui # Unmounted /\ ui' # Unmounted /\ calls' = calls
      /\ SessionUi' /\ ui'.uncertain /\ SessionDb'
  BY DEF BackendChanges, SessionShown, SessionUi, SessionFields, SessionTypes,
         SessionDb, Unmounted
<1> QED
  BY <1>1 DEF SessionTypes, SessionKnown, CallsOK, Busy, SessionCalls, Refreshing

\* A belief that changes is asked about.
LEMMA BeliefChanges ==
  ASSUME SessionTypes, NEW s \in Slots, NEW next, NEW unlocked \in BOOLEAN,
         Believe(s, next, unlocked), unlocked # ui.isUnlocked, db' = db,
         SessionFields \subseteq DOMAIN next
  PROVE  SessionTypes' /\ SessionKnown'
<1>1. /\ ui' # Unmounted /\ SessionUi' /\ ui'.uncertain = Others(s)
      /\ AwaitNext(s, RefreshOp(ui'.token), Asked(ui'.token, "nobody"))
  BY DEF Believe, SessionUi, SessionFields, Unmounted
<1>2. /\ CallsOK' /\ SessionCalls'
      /\ calls'[s] = NewCall(RefreshOp(ui'.token), Asked(ui'.token, "nobody"))
      /\ \A t \in Slots \ {s} : calls'[t] = calls[t]
  BY <1>1, ReplaceKeepsTypes, RefreshOpIs
<1>3. ~Others(s) => \A t \in Slots \ {s} : calls'[t] = Idle
  BY <1>2 DEF Others, SessionTypes, CallsOK
<1> QED
  BY <1>1, <1>2, <1>3, RefreshSettles DEF SessionTypes, SessionDb

\* A refresh that changes no belief tells what is so.
LEMMA RefreshConfirms ==
  ASSUME SessionTypes, SessionKnown, NEW s \in Refreshing, Finish(s), db' = db,
         ui' # Unmounted, SessionUi', ui'.token = ui.token,
         \/ ui'.uncertain
         \/ ~ui.uncertain /\ (NoChange /\ RefreshIsCurrent => (ui'.isUnlocked <=> SessionAccepted))
  PROVE  SessionTypes' /\ SessionKnown'
<1>1. s \in Slots /\ Busy(s) /\ ui # Unmounted
  BY DEF Refreshing, RefreshOps, Busy, SessionTypes, SessionCalls
<1>2. /\ CallsOK' /\ SessionCalls' /\ calls'[s] = Idle
      /\ \A t \in Slots \ {s} : calls'[t] = calls[t]
  BY <1>1, FinishKeepsTypes
<1>3. SessionTypes'
  BY <1>2 DEF SessionTypes, SessionDb
<1> SUFFICES ASSUME ~ui'.uncertain  PROVE RefreshIsCurrent' /\ BeliefFollows'
  BY <1>3 DEF SessionKnown
<1>4. /\ RefreshIsCurrent /\ BeliefFollows
      /\ NoChange => (ui'.isUnlocked <=> SessionAccepted)
  BY <1>1 DEF SessionKnown
<1>5. Refreshing' = {}
  BY <1>2, <1>4 DEF RefreshIsCurrent, Refreshing, Idle, RefreshOps
<1>6. /\ NoChange' => NoChange
      /\ Unlocking' = Unlocking /\ Locking' = Locking /\ s \notin Locking
  BY <1>1, <1>2 DEF NoChange, ChangeOps, Unlocking, Locking, InFlight, Refreshing,
                    RefreshOps, Idle
<1>7. \A t \in Locking : calls'[t] = calls[t]
  BY <1>2, <1>6 DEF Locking, InFlight
<1>8. SessionAccepted' <=> SessionAccepted
  BY DEF SessionAccepted
<1> QED
  BY <1>4, <1>5, <1>6, <1>7, <1>8 DEF RefreshIsCurrent, BeliefFollows

LEMMA SessionRefreshedKeeps ==
  ASSUME SessionTypes, SessionKnown, NEW s \in Slots, SessionRefreshed(s)
  PROVE  SessionTypes' /\ SessionKnown'
<1> DEFINE c == calls[s]
           ended == [ui EXCEPT !.isChecking = FALSE,
                               !.known = c.outcome = "ok" /\ c.op = "getMasterPasswordStatus",
                               !.unlocking = @ /\ c.arg.for # "unlock",
                               !.dialog = @ /\ c.arg.for = "nobody"]
           doubtful == [ended EXCEPT !.uncertain = @ \/ c.outcome # "unauthorized"]
<1>1. ui # Unmounted /\ s \in Refreshing /\ db' = db
  BY DEF SessionRefreshed, SessionShown, Answered, Refreshing, RefreshOps
<1>2. /\ SessionFields \subseteq DOMAIN ended /\ SessionFields \subseteq DOMAIN doubtful
      /\ ended.token = ui.token /\ doubtful.token = ui.token
      /\ ended.isUnlocked = ui.isUnlocked /\ doubtful.isUnlocked = ui.isUnlocked
      /\ ended.uncertain = ui.uncertain
      /\ doubtful.uncertain = (ui.uncertain \/ c.outcome # "unauthorized")
  BY <1>1 DEF SessionTypes, SessionUi, SessionFields
<1>3. CASE c.outcome = "ok"
  <2>1. PICK expired \in BOOLEAN :
          /\ expired => c.op = "getMasterPasswordStatus" /\ ~db.open
          /\ Believe(s, ended, c.data /\ ~expired)
    BY <1>3 DEF SessionRefreshed
  <2>2. c.data \in BOOLEAN /\ ui.isUnlocked \in BOOLEAN
    BY <1>1, <1>3 DEF SessionTypes, SessionUi, SessionCalls, Refreshing, RefreshOps, Busy
  <2>3. CASE (c.data /\ ~expired) = ui.isUnlocked
    <3>1. ui' = ended /\ Finish(s)
      BY <2>1, <2>3 DEF Believe
    <3>2. ui' # Unmounted /\ SessionUi' /\ ui'.token = ui.token
      BY <1>2, <2>2, <3>1 DEF SessionUi, SessionFields, Unmounted
    <3>3. NoChange /\ RefreshIsCurrent => (ui'.isUnlocked <=> SessionAccepted)
      BY <1>1, <1>2, <1>3, <2>1, <2>2, <2>3, <3>1 DEF RefreshIsCurrent, SessionAccepted
    <3>4. ui'.uncertain \/ ~ui.uncertain
      BY <1>2, <3>1
    <3> QED
      BY <1>1, <3>1, <3>2, <3>3, <3>4, RefreshConfirms
  <2>4. CASE (c.data /\ ~expired) # ui.isUnlocked
    BY <1>1, <1>2, <2>1, <2>2, <2>4, BeliefChanges
  <2> QED
    BY <2>3, <2>4
<1>4. CASE c.outcome # "ok"
  <2>1. Believe(s, doubtful, FALSE)
    BY <1>4 DEF SessionRefreshed
  <2>2. CASE FALSE = ui.isUnlocked
    <3>1. ui' = doubtful /\ Finish(s)
      BY <2>1, <2>2 DEF Believe
    <3>2. ui' # Unmounted /\ SessionUi' /\ ui'.token = ui.token
      BY <1>2, <2>2, <3>1 DEF SessionUi, SessionFields, Unmounted
    <3>3. ~ui'.uncertain => ~ui.uncertain /\ c.outcome = "unauthorized"
      BY <1>2, <3>1
    <3>4. c.outcome = "unauthorized" /\ NoChange /\ RefreshIsCurrent
            => (ui'.isUnlocked <=> SessionAccepted)
      BY <1>1, <1>2, <2>2, <3>1 DEF RefreshIsCurrent
    <3> QED
      BY <1>1, <3>1, <3>2, <3>3, <3>4, RefreshConfirms
  <2>3. CASE FALSE # ui.isUnlocked
    BY <1>1, <1>2, <2>1, <2>3, BeliefChanges
  <2> QED
    BY <2>2, <2>3
<1> QED
  BY <1>3, <1>4

\* The handler that awaits an unlock or an extension asks when it succeeded.
LEMMA SessionAsksNext ==
  ASSUME SessionTypes, NEW s \in Slots, NEW for, db' = db,
         ui' # Unmounted, SessionUi', ui'.uncertain = Others(s),
         AwaitNext(s, RefreshOp(ui'.token), Asked(ui'.token, for))
  PROVE  SessionTypes' /\ SessionKnown'
<1>2. /\ CallsOK' /\ SessionCalls'
      /\ calls'[s] = NewCall(RefreshOp(ui'.token), Asked(ui'.token, for))
      /\ \A t \in Slots \ {s} : calls'[t] = calls[t]
  BY ReplaceKeepsTypes, RefreshOpIs
<1>3. ~Others(s) => \A t \in Slots \ {s} : calls'[t] = Idle
  BY <1>2 DEF Others, SessionTypes, CallsOK
<1> QED
  BY <1>2, <1>3, RefreshSettles DEF SessionTypes, SessionDb

LEMMA FinishInDoubt ==
  ASSUME SessionTypes, NEW s \in Slots, Finish(s), db' = db,
         ui' # Unmounted, SessionUi', ui'.uncertain
  PROVE  SessionTypes' /\ SessionKnown'
  BY FinishKeepsTypes DEF SessionTypes, SessionDb, SessionKnown

LEMMA SessionUnlockedKeeps ==
  ASSUME SessionTypes, NEW s \in Slots, SessionUnlocked(s)
  PROVE  SessionTypes' /\ SessionKnown'
<1>1. ui # Unmounted /\ db' = db /\ ui' # Unmounted /\ SessionUi'
  BY DEF SessionUnlocked, SessionShown, SessionTypes, SessionUi, SessionFields, Unmounted
<1>2. CASE calls[s].outcome = "ok"
  BY <1>1, <1>2, SessionAsksNext
     DEF SessionUnlocked, SessionTypes, SessionUi, SessionFields
<1>3. CASE calls[s].outcome # "ok"
  BY <1>1, <1>3, FinishInDoubt
     DEF SessionUnlocked, SessionTypes, SessionUi, SessionFields
<1> QED
  BY <1>2, <1>3

LEMMA SessionExtendedKeeps ==
  ASSUME SessionTypes, SessionKnown, NEW s \in Slots, SessionExtended(s)
  PROVE  SessionTypes' /\ SessionKnown'
<1>1. /\ ui # Unmounted /\ db' = db /\ ui' # Unmounted /\ SessionUi'
      /\ calls[s].op = "extendMasterPasswordTTL"
  BY DEF SessionExtended, SessionShown, Answered, SessionTypes, SessionUi,
         SessionFields, Unmounted
<1>2. CASE calls[s].outcome = "ok"
  BY <1>1, <1>2, SessionAsksNext
     DEF SessionExtended, SessionTypes, SessionUi, SessionFields
<1>3. CASE calls[s].outcome # "ok"
  <2>1. Finish(s) /\ ui' = ui
    BY <1>3 DEF SessionExtended
  <2>2. /\ CallsOK' /\ SessionCalls' /\ calls'[s] = Idle
        /\ \A t \in Slots \ {s} : calls'[t] = calls[t]
    BY <1>1, <2>1, FinishKeepsTypes
  <2>3. Refreshing' = Refreshing /\ s \notin Refreshing
    BY <1>1, <2>2 DEF Refreshing, RefreshOps, Idle
  <2>4. /\ NoChange' <=> NoChange
        /\ Unlocking' = Unlocking /\ Locking' = Locking /\ s \notin Locking
    BY <1>1, <2>2 DEF NoChange, ChangeOps, Unlocking, Locking, InFlight, Idle
  <2>5. \A t \in Refreshing \cup Locking : calls'[t] = calls[t]
    BY <2>2, <2>3, <2>4 DEF Locking, InFlight, Refreshing
  <2>6. SessionAccepted' <=> SessionAccepted
    BY <1>1, <2>1 DEF SessionAccepted
  <2>7. RefreshIsCurrent => RefreshIsCurrent'
    BY <2>1, <2>3, <2>4, <2>5, <2>6 DEF RefreshIsCurrent
  <2>8. BeliefFollows => BeliefFollows'
    BY <1>1, <2>1, <2>3, <2>4, <2>5, <2>6 DEF BeliefFollows
  <2> QED
    BY <1>1, <2>1, <2>2, <2>7, <2>8 DEF SessionKnown, SessionTypes, SessionDb
<1> QED
  BY <1>2, <1>3

LEMMA SessionLockedKeeps ==
  ASSUME SessionTypes, SessionKnown, NEW s \in Slots, SessionLocked(s)
  PROVE  SessionTypes' /\ SessionKnown'
<1> DEFINE next == [ui EXCEPT !.token = 0, !.known = FALSE, !.uncertain = @ \/ Others(s)]
<1>1. /\ ui # Unmounted /\ db' = db
      /\ calls[s].op = "lockMasterPassword" /\ calls[s].arg.for \in {"lock", "dialog"}
  BY DEF SessionLocked, SessionShown, Answered, SessionTypes, SessionCalls, Busy
<1>2. CASE calls[s].outcome # "ok" \/ calls[s].arg.for = "dialog"
  <2>1. /\ Finish(s) /\ ui' # Unmounted /\ SessionUi' /\ ui'.uncertain
    <3>1. CASE calls[s].outcome # "ok"
      BY <1>1, <3>1 DEF SessionLocked, SessionTypes, SessionUi, SessionFields, Unmounted
    <3>2. CASE calls[s].outcome = "ok" /\ calls[s].arg.for = "dialog"
      BY <1>1, <3>2 DEF SessionLocked, SessionTypes, SessionUi, SessionFields, Unmounted
    <3> QED
      BY <1>2, <3>1, <3>2
  <2> QED
    BY <1>1, <2>1, FinishInDoubt
<1>3. CASE calls[s].outcome = "ok" /\ calls[s].arg.for = "lock"
  <2>1. Believe(s, next, FALSE)
    BY <1>3 DEF SessionLocked
  <2>2. /\ SessionFields \subseteq DOMAIN next /\ next.isUnlocked = ui.isUnlocked
        /\ next.uncertain = (ui.uncertain \/ Others(s)) /\ ui.isUnlocked \in BOOLEAN
    BY <1>1 DEF SessionTypes, SessionUi, SessionFields
  <2>3. CASE FALSE # ui.isUnlocked
    BY <1>1, <2>1, <2>2, <2>3, BeliefChanges
  <2>4. CASE FALSE = ui.isUnlocked
    <3>1. ui' = next /\ Finish(s)
      BY <2>1, <2>4 DEF Believe
    <3>2. ui' # Unmounted /\ SessionUi' /\ ui'.isUnlocked = FALSE
      BY <2>2, <2>4, <3>1 DEF SessionUi, SessionFields, Unmounted
    <3>3. /\ CallsOK' /\ SessionCalls' /\ calls'[s] = Idle
          /\ \A t \in Slots \ {s} : calls'[t] = calls[t]
      BY <3>1, <3>2, FinishKeepsTypes
    <3>4. ASSUME ~ui'.uncertain  PROVE RefreshIsCurrent' /\ BeliefFollows'
      <4>1. ~ui.uncertain /\ ~Others(s)
        BY <2>2, <3>1, <3>4
      <4>2. \A t \in Slots : calls'[t].op = "idle"
        BY <3>3, <4>1 DEF Others, Busy, Idle
      <4>3. Unlocking = {} /\ s \in Locking
        BY <1>1, <4>1 DEF Unlocking, Locking, InFlight, Others, Busy
      <4>4. ~db'.open
        BY <1>1, <1>3, <4>1, <4>3 DEF SessionKnown, BeliefFollows
      <4> QED
        BY <3>2, <4>2, <4>4
           DEF RefreshIsCurrent, BeliefFollows, Refreshing, RefreshOps, Locking,
               InFlight, SessionAccepted
    <3> QED
      BY <1>1, <3>2, <3>3, <3>4 DEF SessionTypes, SessionDb, SessionKnown
  <2> QED
    BY <2>3, <2>4
<1> QED
  BY <1>1, <1>2, <1>3

LEMMA SessionHandleKeeps ==
  ASSUME SessionTypes, SessionKnown, NEW s \in Slots, SessionHandle(s)
  PROVE  SessionTypes' /\ SessionKnown'
  BY SessionRefreshedKeeps, SessionUnlockedKeeps, SessionLockedKeeps,
     SessionExtendedKeeps DEF SessionHandle

\* What the backend does with a call: only an unlock or a lock changes what
\* it holds, a lock locks, and a refresh is told the truth about the token it
\* was asked for.
SessionAnswer(s, d, out, data) ==
  LET c == calls[s]
      current == c.op = RefreshOp(ui.token) /\ c.arg.token = ui.token IN
  /\ {"open", "sessions", "issued"} \subseteq DOMAIN d /\ d.open \in BOOLEAN
  /\ c.op \notin ChangeOps => d = db
  /\ c.op = "lockMasterPassword" => (d.open => db.open) /\ (out = "ok" => ~d.open)
  /\ c.op \in RefreshOps /\ out = "ok" => data \in BOOLEAN
  /\ c.op \in RefreshOps /\ out = "ok" /\ current => (data <=> SessionAccepted)
  /\ c.op \in RefreshOps /\ out = "unauthorized" /\ current => ~SessionAccepted

LEMMA SessionReplies ==
  ASSUME SessionTypes, NEW s \in Slots, Busy(s), NEW r \in SessionServer(s)
  PROVE  SessionAnswer(s, r.db, r.outcome, r.data)
<1> USE DEF SessionAnswer, SessionTypes, SessionDb, SessionOps, RefreshOps,
            ChangeOps, Unauthorized, Reply
<1>1. CASE calls[s].op = "isMasterPasswordUnlocked"
  <2>1. r = Reply(db, "ok", db.open)
    BY <1>1 DEF SessionServer
  <2>2. calls[s].op = RefreshOp(ui.token) => (db.open <=> SessionAccepted)
    BY <1>1 DEF RefreshOp, SessionAccepted
  <2> QED
    BY <1>1, <2>1, <2>2
<1>2. CASE calls[s].op = "getMasterPasswordStatus"
  <2>1. \/ r = Unauthorized /\ ~(Presented(s) \subseteq db.sessions)
        \/ r = Reply(db, "ok", db.open) /\ Accepted(s) # {}
    BY <1>2 DEF SessionServer
  <2>2. calls[s].op = RefreshOp(ui.token) /\ calls[s].arg.token = ui.token
          => ui.token # 0 /\ Presented(s) = {ui.token}
    BY <1>2 DEF RefreshOp, Presented
  <2> QED
    BY <1>2, <2>1, <2>2 DEF Accepted, SessionAccepted
<1>3. CASE calls[s].op = "unlockMasterPassword"
  <2>1. \/ r = Unauthorized
        \/ \E n : r = Reply([open |-> TRUE, sessions |-> db.sessions \cup {n},
                             issued |-> n], "ok", n)
    BY <1>3 DEF SessionServer
  <2>2. CASE r = Unauthorized
    BY <1>3, <2>2
  <2>3. CASE r # Unauthorized
    <3>1. PICK n : r = Reply([open |-> TRUE, sessions |-> db.sessions \cup {n},
                              issued |-> n], "ok", n)
      BY <2>1, <2>3
    <3>2. r.db = [open |-> TRUE, sessions |-> db.sessions \cup {n}, issued |-> n]
      BY <3>1
    <3> QED
      BY <1>3, <3>2
  <2> QED
    BY <2>2, <2>3
<1>4. CASE calls[s].op = "lockMasterPassword"
  <2>1. \/ r = Unauthorized
        \/ \E t : r = Reply([db EXCEPT !.open = FALSE, !.sessions = @ \ {t}], "ok", t)
    BY <1>4 DEF SessionServer
  <2>2. CASE r = Unauthorized
    BY <1>4, <2>2
  <2>3. CASE r # Unauthorized
    <3>1. PICK t : r = Reply([db EXCEPT !.open = FALSE, !.sessions = @ \ {t}], "ok", t)
      BY <2>1, <2>3
    <3>2. r.db = [db EXCEPT !.open = FALSE, !.sessions = @ \ {t}]
      BY <3>1
    <3> QED
      BY <1>4, <3>2
  <2> QED
    BY <2>2, <2>3
<1>5. CASE calls[s].op = "extendMasterPasswordTTL"
  <2>1. r.db = db
    BY <1>5 DEF SessionServer
  <2> QED
    BY <1>5, <2>1
<1> QED
  BY <1>1, <1>2, <1>3, <1>4, <1>5 DEF SessionCalls

LEMMA SessionAnswerKeeps ==
  ASSUME SessionTypes, SessionKnown, NEW s \in Slots, Waiting(s), ui' = ui,
         CallsOK', \A t \in Slots \ {s} : calls'[t] = calls[t],
         SameCall(calls[s], calls'[s]),
         SessionAnswer(s, db', calls'[s].outcome, calls'[s].data)
  PROVE  SessionTypes' /\ SessionKnown'
<1>1. SessionDb' /\ SessionUi'
  BY DEF SessionAnswer, SessionDb, SessionTypes, SessionUi
<1>2. SessionCalls'
  BY DEF SessionTypes, SessionCalls, SessionAnswer, SameCall, Busy, Refreshing, Waiting
<1>3. /\ Refreshing' = Refreshing /\ Locking' = Locking /\ Unlocking' = Unlocking
      /\ NoChange' <=> NoChange
  BY DEF SameCall, Refreshing, Locking, Unlocking, InFlight, NoChange
<1>4. NoChange => db' = db
  BY DEF NoChange, SessionAnswer
<1>5. NoChange => (SessionAccepted' <=> SessionAccepted)
  BY <1>4 DEF SessionAccepted
<1>6. ASSUME RefreshIsCurrent  PROVE RefreshIsCurrent'
  <2>1. ASSUME NEW t \in Refreshing
        PROVE  /\ calls'[t].op = RefreshOp(ui.token) /\ calls'[t].arg.token = ui.token
               /\ NoChange =>
                    /\ calls'[t].outcome = "ok" => (calls'[t].data <=> SessionAccepted)
                    /\ calls'[t].outcome = "unauthorized" => ~SessionAccepted
    <3>1. CASE t = s
      BY <1>6, <3>1 DEF RefreshIsCurrent, SessionAnswer, SameCall, Refreshing
    <3>2. CASE t # s
      BY <1>6, <3>2 DEF RefreshIsCurrent, Refreshing
    <3> QED
      BY <3>1, <3>2
  <2> QED
    BY <1>3, <1>5, <1>6, <2>1 DEF RefreshIsCurrent
<1>7. ASSUME BeliefFollows  PROVE BeliefFollows'
  <2>1. ASSUME Unlocking = {}, NEW t \in Locking, calls'[t].outcome = "ok"
        PROVE  ~db'.open
    <3>1. CASE t = s
      BY <2>1, <3>1 DEF SessionAnswer, Locking, InFlight
    <3>2. CASE t # s
      <4>1. ~db.open
        BY <1>7, <2>1, <3>2 DEF BeliefFollows, Locking, InFlight
      <4>2. calls[s].op # "unlockMasterPassword"
        BY <2>1 DEF Unlocking, InFlight
      <4> QED
        BY <4>1, <4>2 DEF SessionAnswer, ChangeOps
    <3> QED
      BY <3>1, <3>2
  <2> QED
    BY <1>3, <1>5, <1>7, <2>1 DEF BeliefFollows
<1> QED
  BY <1>1, <1>2, <1>6, <1>7 DEF SessionTypes, SessionKnown

LEMMA SessionBackendKeeps ==
  ASSUME SessionTypes, SessionKnown, NEW s \in Slots,
         \/ Perform(s, SessionServer(s))
         \/ Refuse(s, {"failed"})
         \/ LoseAnswer(s, SessionServer(s))
  PROVE  SessionTypes' /\ SessionKnown'
<1>1. Waiting(s) /\ Busy(s) /\ calls[s].mine
  BY DEF Perform, Refuse, LoseAnswer, Waiting, SessionTypes, SessionCalls
<1>2. CASE Perform(s, SessionServer(s))
  <2>1. PICK r \in SessionServer(s) : db' = r.db /\ Settle(s, r.outcome, r.data)
    BY <1>2 DEF Perform
  <2>2. ui' = ui
    BY <1>2 DEF Perform
  <2>3. /\ CallsOK' /\ \A t \in Slots \ {s} : calls'[t] = calls[t]
        /\ SameCall(calls[s], calls'[s])
        /\ calls'[s].outcome = r.outcome /\ calls'[s].data = r.data
    BY <1>1, <2>1, SettleAnswers DEF SessionTypes
  <2> QED
    BY <1>1, <2>1, <2>2, <2>3, SessionReplies, SessionAnswerKeeps
<1>3. CASE Refuse(s, {"failed"})
  <2>1. Settle(s, "failed", Nobody) /\ ui' = ui /\ db' = db
    BY <1>3 DEF Refuse
  <2>2. /\ CallsOK' /\ \A t \in Slots \ {s} : calls'[t] = calls[t]
        /\ SameCall(calls[s], calls'[s]) /\ calls'[s].outcome = "failed"
    BY <1>1, <2>1, SettleAnswers DEF SessionTypes
  <2>3. SessionAnswer(s, db', calls'[s].outcome, calls'[s].data)
    BY <2>1, <2>2 DEF SessionAnswer, SessionTypes, SessionDb
  <2> QED
    BY <1>1, <2>1, <2>2, <2>3, SessionAnswerKeeps
<1>4. CASE LoseAnswer(s, SessionServer(s))
  <2>1. PICK r \in SessionServer(s) : db' = r.db
    BY <1>4 DEF LoseAnswer
  <2>2. ui' = ui
    BY <1>4 DEF LoseAnswer
  <2>3. /\ CallsOK' /\ \A t \in Slots \ {s} : calls'[t] = calls[t]
        /\ SameCall(calls[s], calls'[s]) /\ calls'[s].outcome \in {"none", "failed"}
    <3>1. CASE Repeats(calls[s].op)
      BY <1>1, <1>4, <3>1
         DEF LoseAnswer, SessionTypes, CallsOK, CallFields, SameCall, Waiting, Busy, Idle
    <3>2. CASE ~Repeats(calls[s].op)
      BY <1>1, <1>4, <3>2, SettleAnswers DEF LoseAnswer, SessionTypes
    <3> QED
      BY <3>1, <3>2
  <2>4. SessionAnswer(s, db', calls'[s].outcome, calls'[s].data)
    BY <1>1, <2>1, <2>3, SessionReplies DEF SessionAnswer
  <2> QED
    BY <1>1, <2>2, <2>3, <2>4, SessionAnswerKeeps
<1> QED
  BY <1>2, <1>3, <1>4

LEMMA SessionStepKeeps ==
  ASSUME SessionTypes, SessionKnown, SessionStep
  PROVE  SessionTypes' /\ SessionKnown'
  BY SessionMountKeeps, SessionReloadKeeps, SessionAskKeeps, SessionDialogKeeps,
     SessionSendKeeps, BackendChangesKeeps DEF SessionStep

LEMMA SessionAlways == FrontendSpec => []SessionInv
<1>1. FrontendInit => SessionInv
  BY SessionInit DEF SessionInv
<1>2. SessionInv /\ [FrontendNext]_allVars => SessionInv'
  <2> SUFFICES ASSUME SessionInv, [FrontendNext]_allVars, screen = "session"
               PROVE  SessionInv'
    BY ScreenStays DEF SessionInv
  <2>1. CASE UNCHANGED allVars
    BY <2>1 DEF allVars, vars, SessionInv, SessionTypes, CallsOK, Busy, SessionDb,
                SessionUi, SessionCalls, SessionKnown, RefreshIsCurrent, BeliefFollows,
                Refreshing, Unlocking, Locking, InFlight, NoChange, SessionAccepted
  <2>2. CASE FrontendNext
    BY <2>2, SessionNextSteps, SessionStepKeeps, SessionHandleKeeps,
       SessionBackendKeeps DEF SessionInv
  <2> QED
    BY <2>1, <2>2
<1> QED
  BY <1>1, <1>2, PTL DEF FrontendSpec

\* When all is quiet the provider believes what its session can do, for any
\* number of sessions and of calls in flight, and whatever the order of the
\* answers, unless the backend changed since it last asked or it was told of a
\* failure (refreshStatus and the effects of unlock-context.tsx).
THEOREM ProviderAgrees == FrontendSpec => []SessionAgrees
<1>1. SessionInv => SessionAgrees
  <2> SUFFICES ASSUME SessionInv, Quiet, SessionShown, ~ui.uncertain
               PROVE  ui.isUnlocked <=> db.open /\ ui.token \in db.sessions \cup {0}
    BY DEF SessionAgrees
  <2>1. Refreshing = {} /\ NoChange
    BY DEF Quiet, Busy, Refreshing, RefreshOps, NoChange, ChangeOps
  <2> QED
    BY <2>1 DEF SessionInv, SessionKnown, SessionShown, BeliefFollows, SessionAccepted
<1> QED
  BY <1>1, SessionAlways, PTL
==============================================================================
