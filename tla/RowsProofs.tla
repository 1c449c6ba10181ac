----------------------------- MODULE RowsProofs -----------------------------
(***************************************************************************)
(* What the pages that list records show, once all is quiet, is what the   *)
(* backend holds (RowsFollowWrites), for any number of records and of      *)
(* calls in flight, and for every order of answers.                        *)
(*                                                                         *)
(* A fetch is made after a write that was answered, never during one, so   *)
(* while nothing but a fetch is in flight nothing changes what it reads.   *)
(* That is the invariant of every page (FetchesFollow); each page adds     *)
(* what tells it that something else may be in flight.                     *)
(***************************************************************************)
EXTENDS DisplayProofs

\* What the backend's answer to a fetch would be now.
Truth == IF screen = "fleet" THEN Existing ELSE db

\* No call is one of a page that is gone, there is one fetch at a time, and
\* while nothing else is in flight its answer is still true.
FetchesFollow(list) ==
  /\ \A s \in Slots : Busy(s) => calls[s].mine
  /\ \A s, t \in InFlight(list) : s = t
  /\ (\A s \in Slots : calls[s].op \in {"idle", list}) =>
       \A s \in InFlight(list) : calls[s].outcome = "ok" => calls[s].data = Truth

\* A fetch that is started while nothing is in flight.
LEMMA FetchStarts ==
  ASSUME CallsOK, NEW list, list # "idle", NEW arg,
         \/ Quiet /\ Await(list, arg)
         \/ \E s \in Slots : ~Others(s) /\ AwaitNext(s, list, arg)
  PROVE  CallsOK' /\ FetchesFollow(list)' /\ ~Quiet'
<1>1. CallsOK' /\ \E s \in Slots : /\ calls'[s] = NewCall(list, arg)
                                   /\ \A t \in Slots \ {s} : calls'[t] = Idle
  <2>1. CASE Quiet /\ Await(list, arg)
    <3>1. CallsOK' /\ \E s \in Slots : /\ calls'[s] = NewCall(list, arg)
                                       /\ \A t \in Slots \ {s} : calls'[t] = calls[t]
      BY <2>1, AwaitTakesSlot
    <3> QED
      BY <2>1, <3>1 DEF Quiet, CallsOK
  <2>2. CASE \E s \in Slots : ~Others(s) /\ AwaitNext(s, list, arg)
    <3>1. PICK s \in Slots : ~Others(s) /\ AwaitNext(s, list, arg)
      BY <2>2
    <3>2. CallsOK' /\ calls'[s] = NewCall(list, arg)
          /\ \A t \in Slots \ {s} : calls'[t] = calls[t]
      BY <3>1, AwaitNextReplaces
    <3> QED
      BY <3>1, <3>2 DEF Others, CallsOK
  <2> QED
    BY <2>1, <2>2
<1>2. PICK s \in Slots : /\ calls'[s] = NewCall(list, arg)
                         /\ \A t \in Slots \ {s} : calls'[t] = Idle
  BY <1>1
<1>3. /\ calls'[s].op = list /\ calls'[s].mine = TRUE /\ calls'[s].outcome = "none"
      /\ \A t \in Slots \ {s} : calls'[t].op = "idle"
  BY <1>2 DEF NewCall, Idle
<1> QED
  BY <1>1, <1>3 DEF FetchesFollow, Quiet, Busy, InFlight

\* Any other call that the page sends.
LEMMA SendFollows ==
  ASSUME CallsOK, NEW list, FetchesFollow(list), NEW op_, op_ \notin {"idle", list},
         NEW arg, Await(op_, arg)
  PROVE  CallsOK' /\ FetchesFollow(list)' /\ ~Quiet'
<1>1. CallsOK' /\ \E s \in Slots :
         /\ ~Busy(s) /\ calls'[s] = NewCall(op_, arg)
         /\ \A t \in Slots \ {s} : calls'[t] = calls[t]
  BY AwaitTakesSlot
<1>2. PICK s \in Slots : /\ calls'[s] = NewCall(op_, arg)
                         /\ \A t \in Slots \ {s} : calls'[t] = calls[t]
  BY <1>1
<1>3. calls'[s].op = op_ /\ calls'[s].mine = TRUE
  BY <1>2 DEF NewCall
<1> QED
  BY <1>1, <1>2, <1>3 DEF FetchesFollow, Quiet, Busy, InFlight

\* The handler of a fetch ends.
LEMMA FetchEnds ==
  ASSUME CallsOK, NEW list, list # "idle", FetchesFollow(list), NEW s \in Slots,
         calls[s].op = list, Finish(s), db' = db, screen' = screen
  PROVE  /\ CallsOK' /\ FetchesFollow(list)'
         /\ Quiet' /\ calls[s].outcome = "ok" => calls[s].data = Truth'
<1>1. /\ CallsOK' /\ calls'[s] = Idle /\ calls'[s].op = "idle"
      /\ \A t \in Slots \ {s} : calls'[t] = calls[t]
  BY FinishFrees DEF Idle
<1>2. Truth' = Truth
  BY DEF Truth, Existing
<1>3. Quiet' => \A t \in Slots : calls[t].op \in {"idle", list}
  BY <1>1 DEF Quiet, Busy
<1>4. FetchesFollow(list)'
  <2>1. \A t \in Slots : Busy(t)' => t # s /\ Busy(t) /\ calls'[t] = calls[t]
    BY <1>1 DEF Busy
  <2>2. \A t \in Slots : calls[t].op = list => t = s
    BY DEF FetchesFollow, InFlight
  <2>3. \A t \in Slots : calls'[t].op # list
    BY <1>1, <2>2
  <2> QED
    BY <2>1, <2>3 DEF FetchesFollow, InFlight
<1> QED
  BY <1>1, <1>2, <1>3, <1>4 DEF FetchesFollow, InFlight

\* The backend or the network answers: a fetch is answered with the truth,
\* and a call of the page stays in flight until its handler goes on.
LEMMA AnswerFollows ==
  ASSUME CallsOK, NEW list, FetchesFollow(list), NEW s \in Slots, NEW replies,
         NEW outcomes, "ok" \notin outcomes,
         Perform(s, replies) \/ LoseAnswer(s, replies) \/ Refuse(s, outcomes),
         calls[s].op = list => \A r \in replies : r.db = db /\ r.data = Truth
  PROVE  CallsOK' /\ FetchesFollow(list)' /\ ~Quiet' /\ ui' = ui /\ screen' = screen
<1>1. /\ CallsOK' /\ ui' = ui /\ screen' = screen
      /\ \A t \in Slots \ {s} : calls'[t] = calls[t]
      /\ (calls'[s] = Idle /\ ~calls[s].mine) \/ SameCall(calls[s], calls'[s])
  BY AnswerKeepsCalls
<1>2. Busy(s) /\ Waiting(s) /\ calls[s].outcome = "none"
  BY DEF Perform, LoseAnswer, Refuse, Waiting
<1>3. SameCall(calls[s], calls'[s]) /\ calls'[s].op = calls[s].op /\ calls'[s].mine
  BY <1>1, <1>2 DEF FetchesFollow, SameCall
<1>4. ASSUME calls[s].op = list
      PROVE  /\ db' = db
             /\ calls'[s].outcome = "ok" => calls'[s].data = Truth
  <2>1. CASE Perform(s, replies)
    <3>1. PICK r \in replies : db' = r.db /\ Settle(s, r.outcome, r.data)
      BY <2>1 DEF Perform
    <3> QED
      BY <1>2, <1>4, <3>1, SettleAnswers DEF FetchesFollow
  <2>2. CASE Refuse(s, outcomes)
    <3>1. PICK k \in outcomes : Settle(s, k, Nobody)
      BY <2>2 DEF Refuse
    <3> QED
      BY <1>2, <2>2, <3>1, SettleAnswers DEF FetchesFollow, Refuse
  <2>3. ~LoseAnswer(s, replies)
    BY <1>4 DEF LoseAnswer
  <2> QED
    BY <2>1, <2>2, <2>3
<1>5. db' = db => Truth' = Truth
  BY <1>1 DEF Truth, Existing
<1>6. \A t \in Slots : calls'[t].op = calls[t].op
  BY <1>1, <1>3
<1>7. ASSUME \A t \in Slots : calls[t].op \in {"idle", list}
      PROVE  \A t \in Slots : calls'[t].op = list /\ calls'[t].outcome = "ok" => calls'[t].data = Truth'
  <2>1. calls[s].op = list
    BY <1>2, <1>7 DEF Busy
  <2>2. \A t \in Slots : calls[t].op = list => t = s
    BY <2>1 DEF FetchesFollow, InFlight
  <2> QED
    BY <1>4, <1>5, <1>6, <2>1, <2>2
<1>8. FetchesFollow(list)'
  BY <1>1, <1>3, <1>6, <1>7 DEF FetchesFollow, Busy, InFlight
<1>9. ~Quiet'
  BY <1>2, <1>6 DEF Quiet, Busy
<1> QED
  BY <1>1, <1>8, <1>9

\* A step that makes no call and changes nothing in the backend.
LEMMA ClickFollows ==
  ASSUME CallsOK, NEW list, FetchesFollow(list), UNCHANGED <<screen, calls, db>>
  PROVE  CallsOK' /\ FetchesFollow(list)' /\ (Quiet' <=> Quiet) /\ Truth' = Truth
  BY DEF CallsOK, FetchesFollow, Quiet, Busy, InFlight, Truth, Existing

\* No refusal is a success.
LEMMA NoRefusalIsOk == \A s \in Slots : "ok" \notin Refusals(s)
  BY DEF Refusals
-----------------------------------------------------------------------------
(***************************************************************************)
(* The list of networks.                                                   *)
(***************************************************************************)

NetworksRows ==
  ui # Unmounted /\ ~ui.uncertain =>
    /\ FetchesFollow("listNetworks")
    /\ Quiet /\ ~ui.loading /\ ~ui.fetchError => ui.rows = Truth

LEMMA NetworksStepKeepsRows ==
  ASSUME UpdatesOwn, EditsOwn(ui), NetworksRows, NetworksStep
  PROVE  NetworksRows'
<1> USE DEF UpdatesOwn, EditsOwn, DialogFields
<1>1. CASE \/ NetworksMount \/ NetworksUnlocked
           \/ NetworksSearch \/ NetworksSort \/ NetworksRetry
  <2>1. ui'.uncertain = ~Quiet /\ Await("listNetworks", Nobody)
    <3>1. CASE NetworksMount
      BY <3>1 DEF NetworksMount, NetworksFresh
    <3>2. CASE NetworksUnlocked
      BY <3>2 DEF NetworksUnlocked, NetworksDialog, NetworksShown
    <3>3. CASE NetworksBare /\ NetworksRefetch
      BY <3>3 DEF NetworksBare, NetworksShown, NetworksRefetch
    <3> QED
      BY <1>1, <3>1, <3>2, <3>3 DEF NetworksSearch, NetworksSort, NetworksRetry,
                                    NetworksRetryOffered
  <2> QED
    BY <2>1, FetchStarts DEF NetworksRows
<1>2. CASE \/ NetworksOpenCreate
           \/ \E i \in Items : NetworksOpenEdit(i) \/ NetworksOpenDelete(i)
           \/ \E d \in {"create", "edit", "delete", "unlock"} : NetworksClose(d)
  <2>1. /\ ui # Unmounted /\ ui'.uncertain = ui.uncertain /\ ui'.rows = ui.rows
        /\ ui'.loading = ui.loading /\ ui'.fetchError = ui.fetchError
    BY <1>2 DEF NetworksOpenCreate, NetworksOpenEdit, NetworksOpenDelete, NetworksClose,
                NetworksBare, NetworksRow, NetworksDialog, NetworksShown
  <2>2. UNCHANGED <<screen, calls, db>>
    BY <1>2 DEF NetworksOpenCreate, NetworksOpenEdit, NetworksOpenDelete, NetworksClose
  <2> QED
    BY <2>1, <2>2, ClickFollows DEF NetworksRows
<1>3. CASE NetworksSubmitCreate \/ NetworksSubmitUpdate \/ NetworksSubmitDelete
  <2>1. /\ ui # Unmounted /\ ui'.uncertain = ui.uncertain
        /\ \E o \in {"createNetwork", "updateNetwork", "deleteNetwork"} : \E arg : Await(o, arg)
    BY <1>3 DEF NetworksSubmitCreate, NetworksSubmitUpdate, NetworksSubmitDelete,
                NetworksCreateEnabled, NetworksUpdateEnabled, NetworksDeleteEnabled,
                NetworksDialog, NetworksShown
  <2> QED
    BY <2>1, SendFollows DEF NetworksRows
<1> QED
  BY <1>1, <1>2, <1>3 DEF NetworksStep

LEMMA NetworksHandleKeepsRows ==
  ASSUME UpdatesOwn, EditsOwn(ui), NetworksRows, NEW s \in Slots, NetworksHandle(s)
  PROVE  NetworksRows'
<1> USE DEF UpdatesOwn, EditsOwn, DialogFields
<1>1. CASE NetworksFetched(s)
  <2>1. /\ ui # Unmounted /\ ui'.uncertain = ui.uncertain
        /\ IF calls[s].outcome = "ok" THEN ui'.rows = calls[s].data ELSE ui'.fetchError
        /\ calls[s].op = "listNetworks" /\ Finish(s) /\ db' = db /\ screen' = screen
    BY <1>1 DEF NetworksFetched, NetworksShown, Answered
  <2> QED
    BY <2>1, FetchEnds DEF NetworksRows
<1>2. CASE NetworksCreated(s) \/ NetworksUpdated(s) \/ NetworksDeleted(s)
  <2>1. ui # Unmounted /\ ( ui'.uncertain \/ ( ui'.uncertain = Others(s)
                                               /\ AwaitNext(s, "listNetworks", Nobody) ) )
    BY <1>2 DEF NetworksCreated, NetworksUpdated, NetworksDeleted, NetworksShown,
                NetworksWritten, NetworksWriteFailed
  <2> QED
    BY <2>1, FetchStarts DEF NetworksRows
<1> QED
  BY <1>1, <1>2 DEF NetworksHandle

LEMMA NetworksAnswerKeepsRows ==
  ASSUME screen = "networks", UpdatesOwn, NetworksRows, NEW s \in Slots,
         \/ Perform(s, NetworksServer(s))
         \/ Refuse(s, Refusals(s))
         \/ LoseAnswer(s, NetworksServer(s))
  PROVE  NetworksRows'
<1>1. calls[s].op = "listNetworks" => \A r \in NetworksServer(s) : r.db = db /\ r.data = Truth
  BY DEF NetworksServer, ListReply, Reply, Truth
<1>2. ui' = ui
  BY DEF Perform, Refuse, LoseAnswer
<1> QED
  BY <1>1, <1>2, AnswerFollows, NoRefusalIsOk DEF NetworksRows, UpdatesOwn

LEMMA NetworksKeepRows ==
  ASSUME screen = "networks", OwnInv, NetworksRows, [FrontendNext]_allVars
  PROVE  NetworksRows'
<1>1. UpdatesOwn /\ EditsOwn(ui)
  BY DEF OwnInv
<1>2. CASE UNCHANGED allVars
  BY <1>1, <1>2, ClickFollows DEF allVars, vars, NetworksRows, UpdatesOwn
<1>3. CASE Unmount
  BY <1>3 DEF Unmount, NetworksRows
<1> QED
  BY <1>1, <1>2, <1>3, NetworksNextSteps, NetworksStepKeepsRows,
     NetworksHandleKeepsRows, NetworksAnswerKeepsRows
-----------------------------------------------------------------------------
(***************************************************************************)
(* The list of all devices.                                                *)
(***************************************************************************)

FleetRows ==
  ui # Unmounted /\ ~ui.uncertain =>
    /\ FetchesFollow("listDevices")
    /\ Quiet /\ ui.page = "shown" => ui.rows = Truth

LEMMA FleetStepKeepsRows ==
  ASSUME FleetTypes, FleetRows, FleetStep
  PROVE  FleetRows'
<1> USE DEF FleetTypes, FleetUi, FleetFields
<1>1. CASE FleetMount \/ FleetRetry
  <2>1. ui'.uncertain = ~Quiet /\ Await("listDevices", Nobody)
    <3>1. CASE FleetMount
      BY <3>1 DEF FleetMount, FleetFresh
    <3>2. CASE FleetRetry
      BY <3>2 DEF FleetRetry, FleetRetryOffered, FleetShown
    <3> QED
      BY <1>1, <3>1, <3>2
  <2> QED
    BY <2>1, FetchStarts DEF FleetRows
<1>2. CASE FleetOpenCreate \/ \E d \in {"create", "apiKey", "keys"} : FleetClose(d)
  <2>1. /\ ui # Unmounted /\ ui'.uncertain = ui.uncertain /\ ui'.rows = ui.rows
        /\ ui'.page = ui.page
    BY <1>2 DEF FleetOpenCreate, FleetClose, FleetBare, FleetDialog, FleetShown
  <2>2. UNCHANGED <<screen, calls, db>>
    BY <1>2 DEF FleetOpenCreate, FleetClose
  <2> QED
    BY <2>1, <2>2, ClickFollows DEF FleetRows
<1>3. CASE FleetSubmitCreate \/ \E i \in Items : FleetRegenerateApiKey(i) \/ FleetRegenerateKeys(i)
  <2>1. /\ ui # Unmounted /\ ui'.uncertain = ui.uncertain
        /\ \E o \in {"createDevice", "regenerateDeviceApiKey", "regenerateDeviceKeys"} :
             \E arg : Await(o, arg)
    BY <1>3 DEF FleetSubmitCreate, FleetCreateEnabled, FleetRegenerateApiKey,
                FleetRegenerateKeys, FleetRegenerate, FleetRow, FleetBare,
                FleetDialog, FleetShown
  <2> QED
    BY <2>1, SendFollows DEF FleetRows
<1> QED
  BY <1>1, <1>2, <1>3 DEF FleetStep

LEMMA FleetHandleKeepsRows ==
  ASSUME FleetTypes, FleetRows, NEW s \in Slots, FleetHandle(s)
  PROVE  FleetRows'
<1> USE DEF FleetTypes, FleetUi, FleetFields
<1>1. CASE FleetFetched(s)
  <2>1. /\ ui # Unmounted /\ ui'.uncertain = ui.uncertain
        /\ IF calls[s].outcome = "ok" THEN ui'.rows = calls[s].data ELSE ui'.page = "error"
        /\ calls[s].op = "listDevices" /\ Finish(s) /\ db' = db /\ screen' = screen
    BY <1>1 DEF FleetFetched, FleetShown, Answered
  <2> QED
    BY <2>1, FetchEnds DEF FleetRows
<1>2. CASE FleetCreated(s) \/ FleetApiKeyRegenerated(s) \/ FleetKeysRegenerated(s)
  <2>1. ui # Unmounted /\ ( ui'.uncertain \/ ( ui'.uncertain = Others(s)
                                               /\ AwaitNext(s, "listDevices", Nobody) ) )
    BY <1>2 DEF FleetCreated, FleetApiKeyRegenerated, FleetKeysRegenerated, FleetShown,
                FleetRefetch, FleetFailed
  <2> QED
    BY <2>1, FetchStarts DEF FleetRows
<1> QED
  BY <1>1, <1>2 DEF FleetHandle

LEMMA FleetAnswerKeepsRows ==
  ASSUME screen = "fleet", FleetTypes, FleetRows, NEW s \in Slots,
         \/ Perform(s, FleetServer(s))
         \/ Refuse(s, {"failed"})
         \/ LoseAnswer(s, FleetServer(s))
  PROVE  FleetRows'
<1>1. calls[s].op = "listDevices" => \A r \in FleetServer(s) : r.db = db /\ r.data = Truth
  BY DEF FleetServer, Reply, Truth
<1>2. ui' = ui
  BY DEF Perform, Refuse, LoseAnswer
<1>3. "ok" \notin {"failed"}
  OBVIOUS
<1> QED
  BY <1>1, <1>2, <1>3, AnswerFollows DEF FleetRows, FleetTypes

LEMMA FleetKeepRows ==
  ASSUME screen = "fleet", FleetInv, FleetRows, [FrontendNext]_allVars
  PROVE  FleetRows'
<1>1. FleetTypes
  BY DEF FleetInv
<1>2. CASE UNCHANGED allVars
  BY <1>1, <1>2, ClickFollows DEF allVars, vars, FleetRows, FleetTypes
<1>3. CASE Unmount
  BY <1>3 DEF Unmount, FleetRows
<1> QED
  BY <1>1, <1>2, <1>3, FleetNextSteps, FleetStepKeepsRows,
     FleetHandleKeepsRows, FleetAnswerKeepsRows
-----------------------------------------------------------------------------
(***************************************************************************)
(* The tabs of a network.  A tab that is not uncertain was mounted while   *)
(* nothing was in flight, so all calls are its own: the page does not      *)
(* fetch, and no write is one of an earlier tab (TabAlive).                *)
(***************************************************************************)

TabAlive(list) ==
  \A s \in Slots : /\ calls[s].op # "getNetwork"
                   /\ calls[s].op \notin {"idle", list} => calls[s].arg.alive = TRUE

LEMMA StartIsAlive ==
  ASSUME CallsOK, NEW list, list \notin {"idle", "getNetwork"}, NEW arg,
         \/ Quiet /\ Await(list, arg)
         \/ \E s \in Slots : ~Others(s) /\ AwaitNext(s, list, arg)
  PROVE  TabAlive(list)'
<1>1. CASE Quiet /\ Await(list, arg)
  <2>1. \E s \in Slots : /\ calls'[s] = NewCall(list, arg)
                         /\ \A t \in Slots \ {s} : calls'[t] = calls[t]
    BY <1>1, AwaitTakesSlot
  <2> QED
    BY <1>1, <2>1 DEF TabAlive, NewCall, Quiet, Busy
<1>2. CASE \E s \in Slots : ~Others(s) /\ AwaitNext(s, list, arg)
  <2>1. PICK s \in Slots : ~Others(s) /\ AwaitNext(s, list, arg)
    BY <1>2
  <2>2. calls'[s] = NewCall(list, arg) /\ \A t \in Slots \ {s} : calls'[t] = calls[t]
    BY <2>1, AwaitNextReplaces
  <2> QED
    BY <2>1, <2>2 DEF TabAlive, NewCall, Others, Busy
<1> QED
  BY <1>1, <1>2

LEMMA SendIsAlive ==
  ASSUME CallsOK, NEW list, TabAlive(list), NEW op_, op_ \notin {"idle", "getNetwork"},
         NEW arg, op_ = list \/ arg.alive = TRUE, Await(op_, arg)
  PROVE  TabAlive(list)'
<1>1. \E s \in Slots : /\ calls'[s] = NewCall(op_, arg)
                       /\ \A t \in Slots \ {s} : calls'[t] = calls[t]
  BY AwaitTakesSlot
<1> QED
  BY <1>1 DEF TabAlive, NewCall

LEMMA EndIsAlive ==
  ASSUME CallsOK, NEW list, TabAlive(list), NEW s \in Slots, Finish(s)
  PROVE  TabAlive(list)'
  BY FinishFrees DEF TabAlive, Idle

LEMMA AnswerIsAlive ==
  ASSUME CallsOK, NEW list, TabAlive(list), NEW s \in Slots, NEW replies, NEW outcomes,
         Perform(s, replies) \/ LoseAnswer(s, replies) \/ Refuse(s, outcomes)
  PROVE  TabAlive(list)'
<1>1. /\ \A t \in Slots \ {s} : calls'[t] = calls[t]
      /\ (calls'[s] = Idle /\ ~calls[s].mine) \/ SameCall(calls[s], calls'[s])
  BY AnswerKeepsCalls
<1>2. calls'[s].op = "idle" \/ SameCall(calls[s], calls'[s])
  BY <1>1 DEF Idle
<1> QED
  BY <1>1, <1>2 DEF TabAlive, SameCall

LocationsRows ==
  ui # Unmounted /\ ui.child # Unmounted /\ ~ui.child.uncertain =>
    /\ FetchesFollow("listLocations") /\ TabAlive("listLocations")
    /\ Quiet /\ ~ui.child.loading /\ ~ui.child.fetchError => ui.child.rows = Truth

LEMMA LocationsStepKeepsRows ==
  ASSUME UpdatesOwn, TabOK, LocationsRows, LocationsStep
  PROVE  LocationsRows'
<1> USE DEF UpdatesOwn, TabOK, EditsOwn, DialogFields
<1>1. CASE NetworkMount("locations") \/ NetworkLeaveTab("locations")
  <2>1. ui'.child = Unmounted
    <3>1. CASE NetworkMount("locations")
      BY <3>1 DEF NetworkMount, NetworkFresh
    <3>2. CASE NetworkLeaveTab("locations")
      BY <3>2 DEF NetworkLeaveTab, NetworkShown
    <3> QED
      BY <1>1, <3>1, <3>2
  <2> QED
    BY <2>1 DEF LocationsRows
<1>2. CASE \/ NetworkEnterTab("locations", LocationsFresh(~Quiet), "listLocations", Nobody)
           \/ LocationsRetry
  <2>1. ui'.child.uncertain = ~Quiet /\ Await("listLocations", Nobody)
    <3>1. CASE NetworkEnterTab("locations", LocationsFresh(~Quiet), "listLocations", Nobody)
      <4>1. ui'.child = LocationsFresh(~Quiet)
        BY <3>1 DEF NetworkEnterTab, NetworkShown
      <4> QED
        BY <3>1, <4>1 DEF NetworkEnterTab, LocationsFresh
    <3>2. CASE LocationsRetry
      <4>1. /\ ui # Unmounted /\ ui.child # Unmounted
            /\ ui'.child = [ui.child EXCEPT !.loading = TRUE, !.fetchError = FALSE,
                                            !.uncertain = ~Quiet]
        BY <3>2 DEF LocationsRetry, LocationsRetryOffered, LocationsBare,
                    LocationsShown, NetworkShown
      <4> QED
        BY <3>2, <4>1 DEF LocationsRetry
    <3> QED
      BY <1>2, <3>1, <3>2
  <2> QED
    BY <2>1, FetchStarts, StartIsAlive DEF LocationsRows
<1>3. CASE \/ LocationsOpenCreate
           \/ \E i \in Items : LocationsOpenEdit(i) \/ LocationsOpenDelete(i)
           \/ \E d \in {"create", "edit", "delete"} : LocationsClose(d)
  <2>1. ui # Unmounted /\ ui.child # Unmounted /\ UNCHANGED <<screen, calls, db>>
    BY <1>3 DEF LocationsOpenCreate, LocationsOpenEdit, LocationsOpenDelete,
                LocationsClose, LocationsRow, LocationsBare, LocationsDialog,
                LocationsShown, NetworkShown
  <2>2. \/ \E d : ui'.child = [ui.child EXCEPT !.dialogs = d]
        \/ \E i, d : ui'.child = [ui.child EXCEPT !.selected = i, !.form = i, !.dialogs = d]
        \/ \E i, d : ui'.child = [ui.child EXCEPT !.selected = i, !.dialogs = d]
    <3>1. CASE LocationsOpenCreate
      BY <2>1, <3>1 DEF LocationsOpenCreate
    <3>2. ASSUME NEW i \in Items, LocationsOpenEdit(i)
          PROVE  ui'.child = [ui.child EXCEPT !.selected = i, !.form = i, !.dialogs = {"edit"}]
      BY <2>1, <3>2 DEF LocationsOpenEdit
    <3>3. ASSUME NEW i \in Items, LocationsOpenDelete(i)
          PROVE  ui'.child = [ui.child EXCEPT !.selected = i, !.dialogs = {"delete"}]
      BY <2>1, <3>3 DEF LocationsOpenDelete
    <3>4. ASSUME NEW d, LocationsClose(d)
          PROVE  ui'.child = [ui.child EXCEPT !.dialogs = @ \ {d}]
      BY <2>1, <3>4 DEF LocationsClose
    <3> QED
      BY <1>3, <3>1, <3>2, <3>3, <3>4
  <2>3. /\ ui'.child.uncertain = ui.child.uncertain /\ ui'.child.rows = ui.child.rows
        /\ ui'.child.loading = ui.child.loading
        /\ ui'.child.fetchError = ui.child.fetchError
    BY <2>1, <2>2
  <2>4. TabAlive("listLocations") => TabAlive("listLocations")'
    BY <2>1 DEF TabAlive
  <2> QED
    BY <2>1, <2>3, <2>4, ClickFollows DEF LocationsRows
<1>4. ASSUME NEW o \in {"createLocation", "updateLocation", "deleteLocation"},
             NEW id, NEW of, LocationsSubmit(o, id, of), LocationsShown
      PROVE  LocationsRows'
  <2>1. /\ ui # Unmounted /\ ui.child # Unmounted
        /\ ui'.child = [ui.child EXCEPT !.submitting = TRUE]
    BY <1>4 DEF LocationsShown, NetworkShown, LocationsSubmit
  <2>2. /\ ui'.child.uncertain = ui.child.uncertain
        /\ Await(o, [id |-> id, of |-> of, alive |-> TRUE])
    BY <1>4, <2>1 DEF LocationsSubmit
  <2>3. PICK arg : arg = [id |-> id, of |-> of, alive |-> TRUE]
    OBVIOUS
  <2>4. arg.alive = TRUE /\ Await(o, arg)
    BY <2>2, <2>3
  <2> QED
    BY <2>1, <2>2, <2>4, SendFollows, SendIsAlive DEF LocationsRows
<1>5. CASE LocationsSubmitCreate \/ LocationsSubmitUpdate \/ LocationsSubmitDelete
  BY <1>4, <1>5 DEF LocationsSubmitCreate, LocationsSubmitUpdate, LocationsSubmitDelete,
                    LocationsCreateEnabled, LocationsUpdateEnabled,
                    LocationsDeleteEnabled, LocationsDialog
<1> QED
  BY <1>1, <1>2, <1>3, <1>5 DEF LocationsStep

LEMMA LocationsHandleKeepsRows ==
  ASSUME UpdatesOwn, TabOK, LocationsRows, NEW s \in Slots, LocationsHandle(s)
  PROVE  LocationsRows'
<1> USE DEF UpdatesOwn, TabOK, EditsOwn, DialogFields
<1>1. CASE NetworkFetched(s, "locations", LocationsFresh(Others(s)), "listLocations", Nobody)
  <2>1. ui # Unmounted /\ calls[s].op = "getNetwork"
    BY <1>1 DEF NetworkFetched, Answered
  <2>2. ui.child = Unmounted \/ ui.child.uncertain
    BY <2>1 DEF LocationsRows, TabAlive
  <2>3. \/ ui'.child = Unmounted
        \/ ui'.child = ui.child
        \/ /\ ui'.child = LocationsFresh(Others(s))
           /\ AwaitNext(s, "listLocations", Nobody)
    BY <1>1, <2>1 DEF NetworkFetched, NetworkFresh
  <2>4. CASE /\ ui'.child = LocationsFresh(Others(s))
             /\ AwaitNext(s, "listLocations", Nobody)
    <3>1. ui'.child.uncertain = Others(s)
      BY <2>4 DEF LocationsFresh
    <3> QED
      BY <2>4, <3>1, FetchStarts, StartIsAlive DEF LocationsRows
  <2> QED
    BY <2>2, <2>3, <2>4 DEF LocationsRows
<1>2. CASE LocationsFetched(s)
  <2>1. /\ ui # Unmounted /\ ui.child # Unmounted /\ calls[s].op = "listLocations"
        /\ Finish(s) /\ db' = db /\ screen' = screen
    BY <1>2 DEF LocationsFetched, LocationsShown, NetworkShown, Answered
  <2>2. /\ ui'.child.uncertain = ui.child.uncertain
        /\ IF calls[s].outcome = "ok" THEN ui'.child.rows = calls[s].data
                                      ELSE ui'.child.fetchError
    <3>1. CASE calls[s].outcome = "ok"
      <4>1. ui'.child = [ui.child EXCEPT !.rows = calls[s].data, !.fetchError = FALSE,
                                         !.loading = FALSE]
        BY <1>2, <2>1, <3>1 DEF LocationsFetched
      <4> QED
        BY <2>1, <3>1, <4>1
    <3>2. CASE calls[s].outcome # "ok"
      <4>1. ui'.child = [ui.child EXCEPT !.fetchError = TRUE, !.loading = FALSE]
        BY <1>2, <2>1, <3>2 DEF LocationsFetched
      <4> QED
        BY <2>1, <3>2, <4>1
    <3> QED
      BY <3>1, <3>2
  <2> QED
    BY <2>1, <2>2, FetchEnds, EndIsAlive DEF LocationsRows
<1>3. ASSUME NEW o \in {"createLocation", "updateLocation", "deleteLocation"},
             LocationsAnswered(s, o), LocationsWritten(s)
      PROVE  LocationsRows'
  <2>1. ui # Unmounted /\ calls[s].op = o
    BY <1>3 DEF LocationsAnswered, Answered
  <2>2. CASE NetworkReload(s)
    BY <2>2 DEF NetworkReload, NetworkFresh, LocationsRows
  <2>3. CASE calls[s].arg.alive /\ ui' = [ui EXCEPT !.child.submitting = FALSE,
                                                    !.child.uncertain = TRUE]
    <3>1. ui'.child = [ui.child EXCEPT !.submitting = FALSE, !.uncertain = TRUE]
      BY <2>1, <2>3
    <3>2. CASE ui.child = Unmounted
      <4>1. ui'.child = Unmounted
        BY <3>1, <3>2 DEF Unmounted
      <4> QED
        BY <4>1 DEF LocationsRows
    <3>3. CASE ui.child # Unmounted
      <4>1. ui'.child.uncertain
        BY <2>1, <3>1, <3>3
      <4> QED
        BY <4>1 DEF LocationsRows
    <3> QED
      BY <3>2, <3>3
  <2>4. CASE ~calls[s].arg.alive /\ ui' = ui
    BY <2>1, <2>4 DEF LocationsRows, TabAlive
  <2> QED
    BY <1>3, <2>2, <2>3, <2>4 DEF LocationsWritten
<1> QED
  BY <1>1, <1>2, <1>3 DEF LocationsHandle, LocationsCreated, LocationsUpdated, LocationsDeleted

LEMMA LocationsAnswerKeepsRows ==
  ASSUME screen = "locations", UpdatesOwn, LocationsRows, NEW s \in Slots,
         \/ Perform(s, LocationsServer(s))
         \/ Refuse(s, Refusals(s))
         \/ LoseAnswer(s, LocationsServer(s))
  PROVE  LocationsRows'
<1>1. calls[s].op = "listLocations" => \A r \in LocationsServer(s) : r.db = db /\ r.data = Truth
  BY DEF LocationsServer, ListReply, Reply, Truth
<1>2. ui' = ui
  BY DEF Perform, Refuse, LoseAnswer
<1> QED
  BY <1>1, <1>2, AnswerFollows, AnswerIsAlive, NoRefusalIsOk DEF LocationsRows, UpdatesOwn

LEMMA LocationsKeepRows ==
  ASSUME screen = "locations", OwnInv, LocationsRows, [FrontendNext]_allVars
  PROVE  LocationsRows'
<1>1. UpdatesOwn /\ TabOK
  BY DEF OwnInv
<1>2. CASE UNCHANGED allVars
  BY <1>1, <1>2, ClickFollows DEF allVars, vars, LocationsRows, UpdatesOwn, TabAlive
<1>3. CASE Unmount
  BY <1>3 DEF Unmount, LocationsRows
<1> QED
  BY <1>1, <1>2, <1>3, LocationsNextSteps, LocationsStepKeepsRows,
     LocationsHandleKeepsRows, LocationsAnswerKeepsRows
-----------------------------------------------------------------------------
(***************************************************************************)
(* The devices of a network.  A fetch made with filters that have changed  *)
(* since is followed by another one (`due').                               *)
(***************************************************************************)

DeviceTabFields ==
  {"rows", "fitting", "due", "loading", "dialogs", "selected", "submitting",
   "fetchError", "uncertain"}

DevicesUi ==
  ui # Unmounted =>
    /\ {"page", "tab", "child"} \subseteq DOMAIN ui
    /\ ui.child # Unmounted => DeviceTabFields \subseteq DOMAIN ui.child

DevicesRows ==
  ui # Unmounted /\ ui.child # Unmounted /\ ~ui.child.uncertain =>
    /\ FetchesFollow("listDevices") /\ TabAlive("listDevices")
    /\ \A s \in Slots :
         /\ calls[s].op \in RegenerateOps => "alive" \in DOMAIN calls[s].arg
         /\ calls[s].op = "listDevices" => calls[s].arg.current \/ ui.child.due
    /\ Quiet /\ ~ui.child.loading /\ ~ui.child.fetchError /\ ~ui.child.due =>
         ui.child.rows = Truth /\ ui.child.fitting

DevicesInv == screen = "devices" => CallsOK /\ DevicesUi /\ DevicesRows

LEMMA DevicesNextSteps ==
  ASSUME FrontendNext, screen = "devices"
  PROVE  \/ DevicesStep \/ Unmount
         \/ \E s \in Slots : \/ DevicesHandle(s)
                             \/ Perform(s, DevicesServer(s))
                             \/ Refuse(s, Refusals(s))
                             \/ LoseAnswer(s, DevicesServer(s))
<1>1. \A s \in Slots : Replied(s) = DevicesServer(s)
  BY DEF Replied, SmallScreens
<1> QED
  BY <1>1 DEF FrontendNext, PageNext, PageStep, PageHandle, Leave,
             BackendAnswers, AnswerLost, SmallScreens

\* The calls a tab leaves behind, and those its filters outdate, are calls.
LEMMA LeftIsCall ==
  ASSUME NEW c, c = Idle \/ (c.op # "idle" /\ CallFields \subseteq DOMAIN c)
  PROVE  Left(c) = Idle \/ (Left(c).op # "idle" /\ CallFields \subseteq DOMAIN Left(c))
<1>1. CASE Left(c) = c \/ Left(c) = Idle
  BY <1>1
<1>2. CASE Left(c) = [c EXCEPT !.arg.alive = FALSE] /\ c.op # "idle"
  BY <1>2 DEF CallFields, Idle
<1> QED
  BY <1>1, <1>2 DEF Left

LEMMA LeftKeepsCalls ==
  ASSUME CallsOK, NEW next,
         next = Idle \/ (next.op # "idle" /\ CallFields \subseteq DOMAIN next),
         \/ calls' = [t \in Slots |-> Left(calls[t])]
         \/ \E s \in Slots : LeftBut(s, next)
         \/ \E s \in Slots : calls' = [t \in Slots |-> IF t = s THEN Idle ELSE Orphaned(calls[t])]
  PROVE  CallsOK'
<1>1. \A t \in Slots : calls[t] = Idle \/ (calls[t].op # "idle" /\ CallFields \subseteq DOMAIN calls[t])
  BY DEF CallsOK, Busy
<1>2. \A t \in Slots : Left(calls[t]) = Idle \/ ( Left(calls[t]).op # "idle"
                         /\ CallFields \subseteq DOMAIN Left(calls[t]) )
  BY <1>1, LeftIsCall
<1>3. \A t \in Slots : Orphaned(calls[t]) = Idle \/ ( Orphaned(calls[t]).op # "idle"
                         /\ CallFields \subseteq DOMAIN Orphaned(calls[t]) )
  BY <1>1 DEF Orphaned, CallFields, Idle
<1>4. Idle.op = "idle" /\ DOMAIN calls' = Slots
  BY DEF Idle, LeftBut
<1>5. \A t \in Slots : calls'[t] = Idle \/ ( calls'[t].op # "idle"
                         /\ CallFields \subseteq DOMAIN calls'[t] )
  BY <1>1, <1>2, <1>3 DEF LeftBut
<1> QED
  BY <1>4, <1>5 DEF CallsOK, Busy

\* A change of the filters makes and ends no call.
LEMMA FilterKeepsCalls ==
  ASSUME CallsOK, FetchesFollow("listDevices"), TabAlive("listDevices"),
         \A s \in Slots : calls[s].op \in RegenerateOps => "alive" \in DOMAIN calls[s].arg,
         calls' = [s \in Slots |-> Outdated(calls[s])], db' = db, screen' = screen
  PROVE  /\ FetchesFollow("listDevices")' /\ TabAlive("listDevices")'
         /\ \A s \in Slots : calls'[s].op \in RegenerateOps => "alive" \in DOMAIN calls'[s].arg
<1>1. ASSUME NEW s \in Slots
      PROVE  /\ calls'[s].op = calls[s].op
             /\ Busy(s) => calls'[s].mine = calls[s].mine
             /\ calls'[s].outcome = calls[s].outcome /\ calls'[s].data = calls[s].data
             /\ calls[s].op \in RegenerateOps =>
                  "alive" \in DOMAIN calls'[s].arg /\ calls'[s].arg.alive = calls[s].arg.alive
             /\ calls[s].op \notin {"listDevices"} \cup RegenerateOps => calls'[s].arg = calls[s].arg
  <2>1. calls'[s] = Outdated(calls[s])
    OBVIOUS
  <2>2. CASE calls[s].op \notin {"listDevices"} \cup RegenerateOps
    BY <2>1, <2>2 DEF Outdated, RegenerateOps
  <2>3. CASE calls[s].op \in {"listDevices"} \cup RegenerateOps
    <3>1. calls'[s] = [calls[s] EXCEPT !.arg = [calls[s].arg EXCEPT !.current = FALSE]]
      BY <2>1, <2>3 DEF Outdated, RegenerateOps
    <3>2. CallFields \subseteq DOMAIN calls[s]
      BY <2>3 DEF CallsOK, Busy, Idle, RegenerateOps
    <3>3. calls'[s].arg = [calls[s].arg EXCEPT !.current = FALSE]
      BY <3>1, <3>2 DEF CallFields
    <3>4. /\ calls'[s].op = calls[s].op /\ calls'[s].mine = calls[s].mine
          /\ calls'[s].outcome = calls[s].outcome /\ calls'[s].data = calls[s].data
      BY <3>1, <3>2 DEF CallFields
    <3>5. calls[s].op \in RegenerateOps =>
            "alive" \in DOMAIN calls'[s].arg /\ calls'[s].arg.alive = calls[s].arg.alive
      BY <3>3
    <3> QED
      BY <2>3, <3>4, <3>5
  <2> QED
    BY <2>2, <2>3
<1>2. Truth' = Truth
  BY DEF Truth, Existing
<1>3. FetchesFollow("listDevices")'
  BY <1>1, <1>2 DEF FetchesFollow, Busy, InFlight
<1>4. TabAlive("listDevices")'
  BY <1>1 DEF TabAlive
<1> QED
  BY <1>1, <1>3, <1>4

LEMMA FilterKeepsCallsOK ==
  ASSUME CallsOK, calls' = [s \in Slots |-> Outdated(calls[s])]
  PROVE  CallsOK'
<1>1. ASSUME NEW s \in Slots
      PROVE  \/ calls'[s] = Idle
             \/ calls'[s].op # "idle" /\ CallFields \subseteq DOMAIN calls'[s]
  <2>1. CASE calls'[s] = calls[s]
    BY <2>1 DEF CallsOK, Busy
  <2>2. CASE /\ calls'[s] = [calls[s] EXCEPT !.arg.current = FALSE]
             /\ calls[s].op \in {"listDevices"} \cup RegenerateOps
    BY <2>2 DEF CallsOK, CallFields, Busy, RegenerateOps
  <2> QED
    BY <2>1, <2>2 DEF Outdated, RegenerateOps
<1> QED
  BY <1>1 DEF CallsOK, Busy, Idle

LEMMA DevicesTabKeepsRows ==
  ASSUME CallsOK, DevicesUi,
         \/ NetworkMount("devices") \/ NetworkLeaveTab("devices")
         \/ NetworkEnterTab("devices", DevicesFresh(~Quiet), "listDevices", DevicesQuery(TRUE))
  PROVE  CallsOK' /\ DevicesUi' /\ DevicesRows'
<1> USE DEF DevicesUi, DeviceTabFields
<1>1. CASE NetworkMount("devices")
  <2>1. ui' # Unmounted /\ ui'.child = Unmounted /\ {"page", "tab", "child"} \subseteq DOMAIN ui'
    BY <1>1 DEF NetworkMount, NetworkFresh, Unmounted
  <2>2. CallsOK'
    BY <1>1, AwaitTakesSlot DEF NetworkMount
  <2> QED
    BY <2>1, <2>2 DEF DevicesRows
<1>2. CASE NetworkLeaveTab("devices")
  <2>1. ui # Unmounted
    BY <1>2 DEF NetworkLeaveTab, NetworkShown
  <2>2. ui'.child = Unmounted /\ {"page", "tab", "child"} \subseteq DOMAIN ui'
    BY <1>2, <2>1 DEF NetworkLeaveTab
  <2>3. CallsOK'
    BY <1>2, LeftKeepsCalls DEF NetworkLeaveTab
  <2> QED
    BY <2>2, <2>3 DEF DevicesRows
<1>3. CASE NetworkEnterTab("devices", DevicesFresh(~Quiet), "listDevices", DevicesQuery(TRUE))
  <2>1. ui # Unmounted /\ Await("listDevices", DevicesQuery(TRUE))
    BY <1>3 DEF NetworkEnterTab, NetworkShown
  <2>2. ui'.child = DevicesFresh(~Quiet) /\ {"page", "tab", "child"} \subseteq DOMAIN ui'
    BY <1>3, <2>1 DEF NetworkEnterTab
  <2>3. DevicesUi' /\ ui'.child.uncertain = ~Quiet
    BY <2>2 DEF DevicesFresh
  <2>4. CallsOK' /\ \E s \in Slots : /\ calls'[s] = NewCall("listDevices", DevicesQuery(TRUE))
                                     /\ \A t \in Slots \ {s} : calls'[t] = calls[t]
    BY <2>1, AwaitTakesSlot
  <2>5. ASSUME Quiet
        PROVE  \A s \in Slots :
                 /\ calls'[s].op \in RegenerateOps => "alive" \in DOMAIN calls'[s].arg
                 /\ calls'[s].op = "listDevices" => calls'[s].arg.current
    BY <2>4, <2>5 DEF NewCall, DevicesQuery, Quiet, Busy, RegenerateOps
  <2> QED
    BY <2>1, <2>3, <2>4, <2>5, FetchStarts, StartIsAlive DEF DevicesRows
<1> QED
  BY <1>1, <1>2, <1>3

\* The timer and Retry fetch with the filters shown.
LEMMA DevicesFetchKeepsRows ==
  ASSUME CallsOK, DevicesUi, DevicesDue \/ DevicesRetry
  PROVE  CallsOK' /\ DevicesUi' /\ DevicesRows'
<1> USE DEF DevicesUi, DeviceTabFields
<1>1. ui # Unmounted /\ ui.child # Unmounted /\ Await("listDevices", DevicesQuery(TRUE))
  BY DEF DevicesDue, DevicesRetry, DevicesRetryOffered, DevicesBare, DevicesShown, NetworkShown
<1>2. /\ DOMAIN ui' = DOMAIN ui /\ DOMAIN ui'.child = DOMAIN ui.child
      /\ ui'.child.uncertain = ~Quiet
  <2>1. CASE DevicesDue
    <3>1. DOMAIN ui' = DOMAIN ui /\ ui'.child = [ui.child EXCEPT !.due = FALSE,
             !.fetchError = FALSE, !.uncertain = ~Quiet]
      BY <1>1, <2>1 DEF DevicesDue
    <3> QED
      BY <1>1, <3>1
  <2>2. CASE DevicesRetry
    <3>1. DOMAIN ui' = DOMAIN ui /\ ui'.child = [ui.child EXCEPT
             !.fetchError = FALSE, !.uncertain = ~Quiet]
      BY <1>1, <2>2 DEF DevicesRetry
    <3> QED
      BY <1>1, <3>1
  <2> QED
    BY <2>1, <2>2
<1>3. CallsOK' /\ \E s \in Slots : /\ calls'[s] = NewCall("listDevices", DevicesQuery(TRUE))
                                   /\ \A t \in Slots \ {s} : calls'[t] = calls[t]
  BY <1>1, AwaitTakesSlot
<1>4. ASSUME Quiet
      PROVE  \A s \in Slots :
               /\ calls'[s].op \in RegenerateOps => "alive" \in DOMAIN calls'[s].arg
               /\ calls'[s].op = "listDevices" => calls'[s].arg.current
  BY <1>3, <1>4 DEF NewCall, DevicesQuery, Quiet, Busy, RegenerateOps
<1> QED
  BY <1>1, <1>2, <1>3, <1>4, FetchStarts, StartIsAlive DEF DevicesRows

LEMMA DevicesFilterKeepsRows ==
  ASSUME CallsOK, DevicesUi, DevicesRows, DevicesFilter
  PROVE  CallsOK' /\ DevicesUi' /\ DevicesRows'
<1> USE DEF DevicesUi, DeviceTabFields
<1>1. /\ ui # Unmounted /\ ui.child # Unmounted /\ db' = db /\ screen' = screen
      /\ calls' = [s \in Slots |-> Outdated(calls[s])]
  BY DEF DevicesFilter, DevicesBare, DevicesShown, NetworkShown
<1>2. DOMAIN ui' = DOMAIN ui /\ ui'.child = [ui.child EXCEPT !.due = TRUE, !.fitting = FALSE]
  BY <1>1 DEF DevicesFilter
<1>3. /\ DevicesUi' /\ ui'.child.uncertain = ui.child.uncertain /\ ui'.child.due
      /\ CallsOK'
  BY <1>1, <1>2, FilterKeepsCallsOK
<1> QED
  BY <1>1, <1>3, FilterKeepsCalls DEF DevicesRows

\* The dialogs.
LEMMA DevicesClickKeepsRows ==
  ASSUME CallsOK, DevicesUi, DevicesRows,
         \/ DevicesOpenCreate
         \/ \E i \in Devices : DevicesOpenEdit(i) \/ DevicesOpenDelete(i)
         \/ \E d \in {"create", "edit", "delete", "issued"} : DevicesClose(d)
  PROVE  CallsOK' /\ DevicesUi' /\ DevicesRows'
<1> USE DEF DevicesUi, DeviceTabFields
<1>1. ui # Unmounted /\ ui.child # Unmounted /\ UNCHANGED <<screen, calls, db>>
  BY DEF DevicesOpenCreate, DevicesOpenEdit, DevicesOpenDelete, DevicesClose,
         DevicesRow, DevicesBare, DevicesDialog, DevicesShown, NetworkShown
<1>2. \E i, d : DOMAIN ui' = DOMAIN ui /\ ui'.child = [ui.child EXCEPT !.selected = i, !.dialogs = d]
  <2>1. CASE DevicesOpenCreate
    <3>1. ui'.child = [ui.child EXCEPT !.dialogs = {"create"}] /\ DOMAIN ui' = DOMAIN ui
      BY <1>1, <2>1 DEF DevicesOpenCreate
    <3>2. ui'.child = [ui.child EXCEPT !.selected = ui.child.selected, !.dialogs = {"create"}]
      BY <1>1, <3>1
    <3> QED
      BY <3>1, <3>2
  <2>2. ASSUME NEW i \in Devices, DevicesOpenEdit(i) \/ DevicesOpenDelete(i)
        PROVE  \E i_, d_ : DOMAIN ui' = DOMAIN ui /\ ui'.child = [ui.child EXCEPT !.selected = i_, !.dialogs = d_]
    BY <1>1, <2>2 DEF DevicesOpenEdit, DevicesOpenDelete, DevicesSelect
  <2>3. ASSUME NEW d \in {"create", "edit", "delete", "issued"}, DevicesClose(d)
        PROVE  \E i_, d_ : DOMAIN ui' = DOMAIN ui /\ ui'.child = [ui.child EXCEPT !.selected = i_, !.dialogs = d_]
    <3>1. DOMAIN ui' = DOMAIN ui /\ ui'.child = [ui.child EXCEPT !.dialogs = @ \ {d},
             !.selected = IF d = "edit" THEN Nobody ELSE @]
      BY <1>1, <2>3 DEF DevicesClose
    <3>2. \E i_ : ui'.child = [ui.child EXCEPT !.selected = i_, !.dialogs = ui.child.dialogs \ {d}]
      BY <1>1, <3>1
    <3> QED
      BY <3>1, <3>2
  <2> QED
    BY <2>1, <2>2, <2>3
<1>3. /\ DOMAIN ui'.child = DOMAIN ui.child
      /\ ui'.child.uncertain = ui.child.uncertain /\ ui'.child.rows = ui.child.rows
      /\ ui'.child.loading = ui.child.loading /\ ui'.child.due = ui.child.due
      /\ ui'.child.fetchError = ui.child.fetchError
      /\ ui'.child.fitting = ui.child.fitting
  BY <1>1, <1>2
<1>4. DOMAIN ui' = DOMAIN ui
  BY <1>2
<1>5. TabAlive("listDevices") => TabAlive("listDevices")'
  BY <1>1 DEF TabAlive
<1>6. CallsOK' /\ DevicesUi'
  BY <1>1, <1>3, <1>4 DEF CallsOK, Busy
<1>7. CASE ui.child.uncertain
  BY <1>3, <1>6, <1>7 DEF DevicesRows
<1>8. CASE ~ui.child.uncertain
  <2>1. /\ FetchesFollow("listDevices")' /\ (Quiet' <=> Quiet) /\ Truth' = Truth
    BY <1>1, <1>8, ClickFollows DEF DevicesRows
  <2>2. TabAlive("listDevices")'
    BY <1>1, <1>5, <1>8 DEF DevicesRows
  <2>3. \A s \in Slots :
          /\ calls'[s].op \in RegenerateOps => "alive" \in DOMAIN calls'[s].arg
          /\ calls'[s].op = "listDevices" => calls'[s].arg.current \/ ui'.child.due
    BY <1>1, <1>3, <1>8 DEF DevicesRows
  <2>4. Quiet' /\ ~ui'.child.loading /\ ~ui'.child.fetchError /\ ~ui'.child.due =>
          ui'.child.rows = Truth' /\ ui'.child.fitting
    BY <1>1, <1>3, <1>8, <2>1 DEF DevicesRows
  <2> QED
    BY <1>6, <2>1, <2>2, <2>3, <2>4 DEF DevicesRows
<1> QED
  BY <1>7, <1>8

\* What the tab sends: every handler is told that the tab is there.
LEMMA DevicesSendKeepsRows ==
  ASSUME CallsOK, DevicesUi, DevicesRows,
         \/ DevicesSubmitCreate \/ DevicesSubmitUpdate \/ DevicesSubmitDelete
         \/ \E i \in Devices : DevicesRegenerateApiKey(i) \/ DevicesRegenerateKeys(i)
  PROVE  CallsOK' /\ DevicesUi' /\ DevicesRows'
<1> USE DEF DevicesUi, DeviceTabFields
<1>1. ui # Unmounted /\ ui.child # Unmounted
  BY DEF DevicesSubmitCreate, DevicesSubmitUpdate, DevicesSubmitDelete,
         DevicesDeleteEnabled, DevicesFormEnabled, DevicesRegenerateApiKey,
         DevicesRegenerateKeys, DevicesRegenerate, DevicesRow, DevicesBare,
         DevicesDialog, DevicesShown, NetworkShown
<1>2. PICK o \in {"createDevice", "updateDevice", "deleteDevice"} \cup RegenerateOps, i \in Devices \cup {Nobody, ui.child.selected} :
        DevicesSend(o, i)
  BY DEF DevicesSubmitCreate, DevicesSubmitUpdate, DevicesSubmitDelete,
         DevicesRegenerateApiKey, DevicesRegenerateKeys, DevicesRegenerate, RegenerateOps
<1>3. DOMAIN ui' = DOMAIN ui /\ \E i_ : ui'.child = [ui.child EXCEPT !.selected = i_, !.submitting = TRUE]
  <2>1. CASE DevicesSubmitCreate \/ DevicesSubmitUpdate \/ DevicesSubmitDelete
    <3>1. DOMAIN ui' = DOMAIN ui /\ ui'.child = [ui.child EXCEPT !.submitting = TRUE]
      BY <1>1, <2>1 DEF DevicesSubmitCreate, DevicesSubmitUpdate, DevicesSubmitDelete
    <3>2. ui'.child = [ui.child EXCEPT !.selected = ui.child.selected, !.submitting = TRUE]
      BY <1>1, <3>1
    <3> QED
      BY <3>1, <3>2
  <2>2. ASSUME NEW j \in Devices, DevicesRegenerateApiKey(j) \/ DevicesRegenerateKeys(j)
        PROVE  DOMAIN ui' = DOMAIN ui /\ ui'.child = [ui.child EXCEPT !.selected = j, !.submitting = TRUE]
    BY <1>1, <2>2 DEF DevicesRegenerateApiKey, DevicesRegenerateKeys, DevicesRegenerate
  <2> QED
    BY <2>1, <2>2
<1>4. /\ DOMAIN ui'.child = DOMAIN ui.child
      /\ ui'.child.uncertain = ui.child.uncertain /\ ui'.child.due = ui.child.due
  BY <1>1, <1>3
<1>5. PICK arg : arg = [id |-> i, current |-> TRUE, alive |-> TRUE]
  OBVIOUS
<1>6. /\ arg.alive = TRUE /\ "alive" \in DOMAIN arg /\ Await(o, arg)
      /\ o \notin {"idle", "getNetwork", "listDevices"}
  BY <1>2, <1>5 DEF DevicesSend, RegenerateOps
<1>7. CallsOK' /\ \E s \in Slots : /\ calls'[s] = NewCall(o, arg)
                                   /\ \A t \in Slots \ {s} : calls'[t] = calls[t]
  BY <1>6, AwaitTakesSlot
<1>8. PICK s \in Slots : /\ calls'[s] = NewCall(o, arg)
                         /\ \A t \in Slots \ {s} : calls'[t] = calls[t]
  BY <1>7
<1>9. calls'[s].op = o /\ calls'[s].arg = arg
  BY <1>8 DEF NewCall
<1>10. ASSUME ~ui.child.uncertain
       PROVE  \A t \in Slots :
                /\ calls'[t].op \in RegenerateOps => "alive" \in DOMAIN calls'[t].arg
                /\ calls'[t].op = "listDevices" => calls'[t].arg.current \/ ui'.child.due
  BY <1>1, <1>4, <1>6, <1>8, <1>9, <1>10 DEF DevicesRows
<1>11. DevicesUi' /\ ui'.child # Unmounted
  BY <1>1, <1>3, <1>4 DEF Unmounted
<1> QED
  BY <1>1, <1>4, <1>6, <1>7, <1>10, <1>11, SendFollows, SendIsAlive DEF DevicesRows

LEMMA DevicesReloadKeepsRows ==
  ASSUME CallsOK, DevicesUi, ui # Unmounted, NEW s \in Slots, NetworkReload(s)
  PROVE  CallsOK' /\ DevicesUi' /\ DevicesRows'
<1>1. ui' # Unmounted /\ ui'.child = Unmounted /\ {"page", "tab", "child"} \subseteq DOMAIN ui'
  BY DEF NetworkReload, NetworkFresh, Unmounted
<1>2. PICK next : next = NewCall("getNetwork", Nobody)
  OBVIOUS
<1>3. next.op # "idle" /\ CallFields \subseteq DOMAIN next /\ LeftBut(s, next)
  BY <1>2 DEF NewCall, CallFields, NetworkReload
<1>4. CallsOK'
  BY <1>3, LeftKeepsCalls
<1> QED
  BY <1>1, <1>4 DEF DevicesUi, DevicesRows

LEMMA DevicesPageKeepsRows ==
  ASSUME CallsOK, DevicesUi, DevicesRows, NEW s \in Slots,
         NetworkFetched(s, "devices", DevicesFresh(Others(s)), "listDevices", DevicesQuery(TRUE))
  PROVE  CallsOK' /\ DevicesUi' /\ DevicesRows'
<1> USE DEF DevicesUi, DeviceTabFields
<1>1. ui # Unmounted /\ calls[s].op = "getNetwork"
  BY DEF NetworkFetched, Answered
<1>2. ui.child = Unmounted \/ ui.child.uncertain
  BY <1>1 DEF DevicesRows, TabAlive
<1>3. CASE LeftBut(s, Idle) /\ ui' = [NetworkFresh(ui.tab) EXCEPT !.page = "error"]
  <2>1. ui' # Unmounted /\ ui'.child = Unmounted /\ {"page", "tab", "child"} \subseteq DOMAIN ui'
    BY <1>3 DEF NetworkFresh, Unmounted
  <2>2. CallsOK'
    BY <1>3, LeftKeepsCalls
  <2> QED
    BY <2>1, <2>2 DEF DevicesRows
<1>4. CASE /\ ui' = [ui EXCEPT !.page = "shown", !.child = DevicesFresh(Others(s))]
           /\ AwaitNext(s, "listDevices", DevicesQuery(TRUE))
  <2>1. ui'.child = DevicesFresh(Others(s)) /\ {"page", "tab", "child"} \subseteq DOMAIN ui'
    BY <1>1, <1>4
  <2>2. DevicesUi' /\ ui'.child.uncertain = Others(s)
    BY <2>1 DEF DevicesFresh
  <2>3. CallsOK' /\ calls'[s] = NewCall("listDevices", DevicesQuery(TRUE))
        /\ \A t \in Slots \ {s} : calls'[t] = calls[t]
    BY <1>4, AwaitNextReplaces
  <2>4. ASSUME ~Others(s)
        PROVE  \A t \in Slots :
                 /\ calls'[t].op \in RegenerateOps => "alive" \in DOMAIN calls'[t].arg
                 /\ calls'[t].op = "listDevices" => calls'[t].arg.current
    BY <2>3, <2>4 DEF NewCall, DevicesQuery, Others, Busy, RegenerateOps
  <2> QED
    BY <1>4, <2>2, <2>3, <2>4, FetchStarts, StartIsAlive DEF DevicesRows
<1>5. CASE Finish(s) /\ ui' = [ui EXCEPT !.page = IF @ = "error" THEN @ ELSE "shown"]
  <2>1. ui'.child = ui.child /\ DOMAIN ui' = DOMAIN ui
    BY <1>1, <1>5
  <2>2. CallsOK'
    BY <1>5, FinishFrees
  <2> QED
    BY <1>1, <1>2, <2>1, <2>2 DEF DevicesRows
<1> QED
  BY <1>3, <1>4, <1>5 DEF NetworkFetched

LEMMA DevicesFetchedKeepsRows ==
  ASSUME CallsOK, DevicesUi, DevicesRows, NEW s \in Slots, DevicesFetched(s)
  PROVE  CallsOK' /\ DevicesUi' /\ DevicesRows'
<1> USE DEF DevicesUi, DeviceTabFields
<1>1. /\ ui # Unmounted /\ ui.child # Unmounted /\ calls[s].op = "listDevices"
      /\ Finish(s) /\ db' = db /\ screen' = screen
  BY DEF DevicesFetched, DevicesShown, NetworkShown, Answered
<1>2. /\ DOMAIN ui' = DOMAIN ui /\ DOMAIN ui'.child = DOMAIN ui.child
      /\ ui'.child.uncertain = ui.child.uncertain /\ ui'.child.due = ui.child.due
      /\ IF calls[s].outcome = "ok"
         THEN ui'.child.rows = calls[s].data /\ ui'.child.fitting = calls[s].arg.current
         ELSE ui'.child.fetchError
  <2>1. CASE calls[s].outcome = "ok"
    <3>1. DOMAIN ui' = DOMAIN ui
          /\ ui'.child = [ui.child EXCEPT !.rows = calls[s].data, !.fitting = calls[s].arg.current,
                                          !.fetchError = FALSE, !.loading = FALSE]
      BY <1>1, <2>1 DEF DevicesFetched
    <3> QED
      BY <1>1, <2>1, <3>1
  <2>2. CASE calls[s].outcome # "ok"
    <3>1. DOMAIN ui' = DOMAIN ui
          /\ ui'.child = [ui.child EXCEPT !.fetchError = TRUE, !.loading = FALSE]
      BY <1>1, <2>2 DEF DevicesFetched
    <3> QED
      BY <1>1, <2>2, <3>1
  <2> QED
    BY <2>1, <2>2
<1>3. /\ CallsOK' /\ calls'[s] = Idle /\ calls'[s].op = "idle"
      /\ \A t \in Slots \ {s} : calls'[t] = calls[t]
  BY <1>1, FinishFrees DEF Idle
<1>4. DevicesUi'
  BY <1>1, <1>2
<1>5. CASE ui.child.uncertain
  BY <1>2, <1>3, <1>4, <1>5 DEF DevicesRows
<1>6. CASE ~ui.child.uncertain
  <2>1. \A t \in Slots :
          /\ calls'[t].op \in RegenerateOps => "alive" \in DOMAIN calls'[t].arg
          /\ calls'[t].op = "listDevices" => calls'[t].arg.current \/ ui'.child.due
    BY <1>1, <1>2, <1>3, <1>6 DEF DevicesRows, RegenerateOps
  <2>2. calls[s].arg.current \/ ui.child.due
    BY <1>1, <1>6 DEF DevicesRows
  <2> QED
    BY <1>1, <1>2, <1>3, <1>4, <1>6, <2>1, <2>2, FetchEnds, EndIsAlive DEF DevicesRows
<1> QED
  BY <1>5, <1>6

\* A failure leaves its tab uncertain.
LEMMA DevicesFailedKeepsRows ==
  ASSUME CallsOK, DevicesUi, DevicesRows, ui # Unmounted, NEW s \in Slots,
         calls[s].op \notin {"idle", "getNetwork", "listDevices"},
         DevicesFailed(s) \/ (~calls[s].arg.alive /\ Finish(s) /\ UNCHANGED ui)
  PROVE  CallsOK' /\ DevicesUi' /\ DevicesRows'
<1> USE DEF DevicesUi, DeviceTabFields
<1>1. CallsOK'
  BY FinishFrees DEF DevicesFailed
<1>2. CASE ~calls[s].arg.alive /\ ui' = ui
  <2>1. ui.child = Unmounted \/ ui.child.uncertain
    BY <1>2 DEF DevicesRows, TabAlive
  <2> QED
    BY <1>1, <1>2, <2>1 DEF DevicesRows
<1>3. CASE ui' = [ui EXCEPT !.child.submitting = FALSE, !.child.uncertain = TRUE]
  <2>1. DOMAIN ui' = DOMAIN ui /\ ui'.child = [ui.child EXCEPT !.submitting = FALSE, !.uncertain = TRUE]
    BY <1>3
  <2>2. CASE ui.child = Unmounted
    <3>1. ui'.child = Unmounted
      BY <2>1, <2>2 DEF Unmounted
    <3> QED
      BY <1>1, <2>1, <3>1 DEF DevicesRows
  <2>3. CASE ui.child # Unmounted
    <3>1. ui'.child.uncertain /\ DOMAIN ui'.child = DOMAIN ui.child
      BY <2>1, <2>3
    <3> QED
      BY <1>1, <2>1, <2>3, <3>1 DEF DevicesRows
  <2> QED
    BY <2>2, <2>3
<1> QED
  BY <1>2, <1>3 DEF DevicesFailed

\* A regeneration fetches with the filters of its click.
LEMMA DevicesRegeneratedKeepsRows ==
  ASSUME CallsOK, DevicesUi, ui # Unmounted, NEW s \in Slots,
         ui' = [ui EXCEPT !.child.dialogs = @ \cup {"issued"},
                          !.child.submitting = FALSE,
                          !.child.fetchError = FALSE,
                          !.child.uncertain = Others(s) \/ ~calls[s].arg.current],
         AwaitNext(s, "listDevices", DevicesQuery(calls[s].arg.current))
  PROVE  CallsOK' /\ DevicesUi' /\ DevicesRows'
<1> USE DEF DevicesUi, DeviceTabFields
<1>1. PICK arg : arg = DevicesQuery(calls[s].arg.current)
  OBVIOUS
<1>2. AwaitNext(s, "listDevices", arg) /\ arg.current = calls[s].arg.current
  BY <1>1 DEF DevicesQuery
<1>3. CallsOK' /\ calls'[s] = NewCall("listDevices", arg)
      /\ \A t \in Slots \ {s} : calls'[t] = calls[t]
  BY <1>2, AwaitNextReplaces
<1>4. DOMAIN ui' = DOMAIN ui
      /\ ui'.child = [ui.child EXCEPT !.dialogs = @ \cup {"issued"}, !.submitting = FALSE,
                        !.fetchError = FALSE, !.uncertain = Others(s) \/ ~calls[s].arg.current]
  OBVIOUS
<1>5. CASE ui.child = Unmounted
  <2>1. ui'.child = Unmounted
    BY <1>4, <1>5 DEF Unmounted
  <2> QED
    BY <1>3, <1>4, <2>1 DEF DevicesRows
<1>6. CASE ui.child # Unmounted
  <2>1. /\ DOMAIN ui'.child = DOMAIN ui.child
        /\ ui'.child.uncertain = (Others(s) \/ ~calls[s].arg.current)
    BY <1>4, <1>6
  <2>2. ASSUME ~Others(s), calls[s].arg.current
        PROVE  \A t \in Slots :
                 /\ calls'[t].op \in RegenerateOps => "alive" \in DOMAIN calls'[t].arg
                 /\ calls'[t].op = "listDevices" => calls'[t].arg.current
    <3>1. calls'[s].op = "listDevices" /\ calls'[s].arg = arg
      BY <1>3 DEF NewCall
    <3> QED
      BY <1>2, <1>3, <2>2, <3>1 DEF Others, Busy, RegenerateOps
  <2>3. DevicesUi'
    BY <1>4, <1>6, <2>1
  <2> QED
    BY <1>2, <1>3, <2>1, <2>2, <2>3, FetchStarts, StartIsAlive DEF DevicesRows
<1> QED
  BY <1>5, <1>6

LEMMA DevicesHandleKeepsRows ==
  ASSUME CallsOK, DevicesUi, DevicesRows, NEW s \in Slots, DevicesHandle(s)
  PROVE  CallsOK' /\ DevicesUi' /\ DevicesRows'
<1>1. ASSUME NEW o \in {"createDevice", "updateDevice", "deleteDevice"},
             DevicesAnswered(s, o), DevicesWritten(s)
      PROVE  CallsOK' /\ DevicesUi' /\ DevicesRows'
  BY <1>1, DevicesReloadKeepsRows, DevicesFailedKeepsRows
     DEF DevicesAnswered, Answered, DevicesWritten
<1>2. ASSUME NEW o \in RegenerateOps, DevicesAnswered(s, o), DevicesRegenerated(s)
      PROVE  CallsOK' /\ DevicesUi' /\ DevicesRows'
  BY <1>2, DevicesRegeneratedKeepsRows, DevicesFailedKeepsRows
     DEF DevicesAnswered, Answered, DevicesRegenerated, RegenerateOps
<1>3. CASE /\ ui' = Unmounted
           /\ calls' = [t \in Slots |-> IF t = s THEN Idle ELSE Orphaned(calls[t])]
  BY <1>3, LeftKeepsCalls DEF DevicesUi, DevicesRows
<1> QED
  BY <1>1, <1>2, <1>3, DevicesPageKeepsRows, DevicesFetchedKeepsRows
     DEF DevicesHandle, DevicesCreated, DevicesUpdated, DevicesDeleted,
         DevicesApiKeyRegenerated, DevicesKeysRegenerated, RegenerateOps

LEMMA DevicesAnswerKeepsRows ==
  ASSUME screen = "devices", CallsOK, DevicesUi, DevicesRows, NEW s \in Slots,
         \/ Perform(s, DevicesServer(s))
         \/ Refuse(s, Refusals(s))
         \/ LoseAnswer(s, DevicesServer(s))
  PROVE  CallsOK' /\ DevicesUi' /\ DevicesRows'
<1>1. calls[s].op = "listDevices" => \A r \in DevicesServer(s) : r.db = db /\ r.data = Truth
  BY DEF DevicesServer, ListReply, Reply, Truth
<1>2. /\ CallsOK' /\ ui' = ui
      /\ \A t \in Slots \ {s} : calls'[t] = calls[t]
      /\ calls'[s] = Idle \/ SameCall(calls[s], calls'[s])
  BY AnswerKeepsCalls
<1>3. \A t \in Slots : \/ calls'[t].op = "idle"
                       \/ calls'[t].op = calls[t].op /\ calls'[t].arg = calls[t].arg
  BY <1>2 DEF SameCall, Idle
<1>4. (\A t \in Slots : /\ calls[t].op \in RegenerateOps => "alive" \in DOMAIN calls[t].arg
                        /\ calls[t].op = "listDevices" => calls[t].arg.current \/ ui.child.due)
      => (\A t \in Slots : /\ calls'[t].op \in RegenerateOps => "alive" \in DOMAIN calls'[t].arg
                           /\ calls'[t].op = "listDevices" => calls'[t].arg.current \/ ui.child.due)
  BY <1>3 DEF RegenerateOps
<1>5. DevicesUi'
  BY <1>2 DEF DevicesUi
<1>6. FetchesFollow("listDevices") => FetchesFollow("listDevices")' /\ ~Quiet'
  BY <1>1, AnswerFollows, NoRefusalIsOk
<1>7. TabAlive("listDevices") => TabAlive("listDevices")'
  BY AnswerIsAlive
<1> QED
  BY <1>2, <1>4, <1>5, <1>6, <1>7 DEF DevicesRows

LEMMA DevicesKeepRows ==
  ASSUME screen = "devices", DevicesInv, [FrontendNext]_allVars
  PROVE  CallsOK' /\ DevicesUi' /\ DevicesRows'
<1>1. CallsOK /\ DevicesUi /\ DevicesRows
  BY DEF DevicesInv
<1>2. CASE UNCHANGED allVars
  BY <1>1, <1>2, ClickFollows
     DEF allVars, vars, DevicesRows, DevicesUi, TabAlive, CallsOK, Busy
<1>3. CASE Unmount
  BY <1>1, <1>3, UnmountKeepsCalls DEF DevicesUi, DevicesRows
<1>4. CASE DevicesStep
  BY <1>1, <1>4, DevicesTabKeepsRows, DevicesFetchKeepsRows, DevicesFilterKeepsRows,
     DevicesClickKeepsRows, DevicesSendKeepsRows DEF DevicesStep
<1> QED
  BY <1>1, <1>2, <1>3, <1>4, DevicesNextSteps, DevicesHandleKeepsRows,
     DevicesAnswerKeepsRows

-----------------------------------------------------------------------------
(***************************************************************************)
(* The settings.                                                           *)
(***************************************************************************)

SettingsFields == {"mounted", "settings", "error", "card", "uncertain"}

SettingsUi == ui # Unmounted => SettingsFields \subseteq DOMAIN ui

SettingsRows ==
  ui # Unmounted /\ ~ui.uncertain =>
    /\ FetchesFollow("getOperationalSettings")
    /\ Quiet /\ ui.settings # Nobody /\ ~ui.error => ui.settings = Truth

SettingsInv == screen = "settings" => CallsOK /\ SettingsUi /\ SettingsRows

LEMMA SettingsNextSteps ==
  ASSUME FrontendNext, screen = "settings"
  PROVE  \/ SettingsStep \/ Unmount
         \/ \E s \in Slots : \/ SettingsHandle(s)
                             \/ Perform(s, SettingsServer(s))
                             \/ Refuse(s, Refusals(s))
                             \/ LoseAnswer(s, SettingsServer(s))
<1>1. \A s \in Slots : Replied(s) = SettingsServer(s)
  BY DEF Replied, SmallScreens
<1> QED
  BY <1>1 DEF FrontendNext, PageNext, PageStep, PageHandle, Leave,
             BackendAnswers, AnswerLost, SmallScreens

LEMMA SettingsStepKeepsRows ==
  ASSUME CallsOK, SettingsUi, SettingsRows, SettingsStep
  PROVE  CallsOK' /\ SettingsUi' /\ SettingsRows'
<1> USE DEF SettingsUi, SettingsFields
<1>1. CASE SettingsMount \/ SettingsTryAgain
  <2>1. SettingsUi' /\ ui'.uncertain = ~Quiet /\ Await("getOperationalSettings", Nobody)
    <3>1. CASE SettingsMount
      BY <3>1 DEF SettingsMount, SettingsFresh
    <3>2. CASE SettingsTryAgain
      BY <3>2 DEF SettingsTryAgain, SettingsFailed, SettingsShown
    <3> QED
      BY <1>1, <3>1, <3>2
  <2>2. CallsOK'
    BY <2>1, AwaitTakesSlot
  <2> QED
    BY <2>1, <2>2, FetchStarts DEF SettingsRows
<1>2. CASE \/ ProxiesEdit \/ ProxiesCancelEdit
           \/ \E v \in 0..Rejected : EditLimit(v) \/ ProxiesChange(v) \/ ProxiesSaveEdit(v)
  <2>1. /\ ui # Unmounted /\ UNCHANGED <<screen, calls, db>>
        /\ \E c : ui' = [ui EXCEPT !.card = c]
    BY <1>2 DEF ProxiesEdit, ProxiesCancelEdit, EditLimit, ProxiesChange,
                ProxiesSaveEdit, SaveEnabled, CardShown, SettingsShown
  <2>2. /\ DOMAIN ui' = DOMAIN ui /\ ui'.uncertain = ui.uncertain
        /\ ui'.settings = ui.settings /\ ui'.error = ui.error
    BY <2>1
  <2>3. CallsOK'
    BY <2>1 DEF CallsOK, Busy
  <2> QED
    BY <2>1, <2>2, <2>3, ClickFollows DEF SettingsRows
<1>3. CASE SettingsSave
  <2>1. /\ ui # Unmounted /\ ui' = [ui EXCEPT !.card.isSaving = TRUE]
        /\ \E arg : Await("updateOperationalSettings", arg)
    BY <1>3 DEF SettingsSave, SaveEnabled, CardShown, SettingsShown
  <2>2. SettingsUi' /\ ui'.uncertain = ui.uncertain
    BY <2>1
  <2>3. CallsOK'
    BY <2>1, AwaitTakesSlot
  <2> QED
    BY <2>1, <2>2, <2>3, SendFollows DEF SettingsRows
<1> QED
  BY <1>1, <1>2, <1>3 DEF SettingsStep

LEMMA SettingsHandleKeepsRows ==
  ASSUME CallsOK, SettingsUi, SettingsRows, NEW s \in Slots, SettingsHandle(s)
  PROVE  CallsOK' /\ SettingsUi' /\ SettingsRows'
<1> USE DEF SettingsUi, SettingsFields
<1>1. CASE SettingsFetched(s) /\ calls[s].outcome = "ok"
  <2>1. /\ ui # Unmounted /\ \E c : ui' = [ui EXCEPT !.settings = calls[s].data, !.card = c]
        /\ calls[s].op = "getOperationalSettings" /\ Finish(s) /\ db' = db /\ screen' = screen
    BY <1>1 DEF SettingsFetched, SettingsShown, Answered
  <2>2. SettingsUi' /\ ui'.uncertain = ui.uncertain /\ ui'.settings = calls[s].data
    BY <2>1
  <2>3. CallsOK'
    BY <2>1, FinishFrees
  <2> QED
    BY <1>1, <2>1, <2>2, <2>3, FetchEnds DEF SettingsRows
<1>2. CASE SettingsFetched(s) /\ calls[s].outcome # "ok"
  <2>1. /\ ui # Unmounted /\ ui' = [ui EXCEPT !.error = TRUE, !.card = NoCard, !.uncertain = TRUE]
        /\ calls' = [t \in Slots |-> IF t = s THEN Idle ELSE CardLeft(calls[t])]
    BY <1>2 DEF SettingsFetched, SettingsShown
  <2>2. SettingsUi' /\ ui'.uncertain
    BY <2>1
  <2>3. ASSUME NEW t \in Slots
        PROVE  calls'[t] = Idle \/ (calls'[t].op # "idle" /\ CallFields \subseteq DOMAIN calls'[t])
    <3>1. CASE calls'[t] = Idle \/ calls'[t] = calls[t]
      BY <3>1 DEF CallsOK, Busy
    <3>2. CASE calls'[t] = [calls[t] EXCEPT !.arg.alive = FALSE] /\ Busy(t)
      BY <3>2 DEF CallsOK, CallFields, Busy
    <3> QED
      BY <2>1, <3>1, <3>2 DEF CardLeft, Busy
  <2>4. CallsOK'
    BY <2>1, <2>3 DEF CallsOK, Busy, Idle
  <2> QED
    BY <2>2, <2>4 DEF SettingsRows
<1>3. CASE SettingsSaved(s)
  <2>1. /\ ui # Unmounted /\ AwaitNext(s, "getOperationalSettings", Nobody)
        /\ \/ ui' = [ui EXCEPT !.uncertain = Others(s)]
           \/ \E c : ui' = [ui EXCEPT !.card = c, !.uncertain = Others(s)]
    <3>1. ui # Unmounted /\ AwaitNext(s, "getOperationalSettings", Nobody)
      BY <1>3 DEF SettingsSaved, SettingsShown
    <3>2. CASE calls[s].arg.alive
      <4>1. ui' = [ui EXCEPT !.card = [ui.card EXCEPT
                       !.values = [ui.card.values EXCEPT !["limits"] = calls[s].data["limits"]],
                       !.isSaving = FALSE], !.uncertain = Others(s)]
        BY <1>3, <3>1, <3>2 DEF SettingsSaved
      <4> QED
        BY <3>1, <4>1
    <3> QED
      BY <1>3, <3>1, <3>2 DEF SettingsSaved
  <2>2. SettingsUi' /\ ui'.uncertain = Others(s)
    BY <2>1
  <2>3. CallsOK'
    BY <2>1, AwaitNextReplaces
  <2> QED
    BY <2>1, <2>2, <2>3, FetchStarts DEF SettingsRows
<1>4. CASE SettingsNotSaved(s)
  <2>1. /\ ui # Unmounted /\ Finish(s)
        /\ \/ ui' = [ui EXCEPT !.uncertain = TRUE]
           \/ ui' = [ui EXCEPT !.card.isSaving = FALSE, !.uncertain = TRUE]
    BY <1>4 DEF SettingsNotSaved, SettingsShown
  <2>2. SettingsUi' /\ ui'.uncertain
    BY <2>1
  <2>3. CallsOK'
    BY <2>1, FinishFrees
  <2> QED
    BY <2>2, <2>3 DEF SettingsRows
<1> QED
  BY <1>1, <1>2, <1>3, <1>4 DEF SettingsHandle

LEMMA SettingsAnswerKeepsRows ==
  ASSUME screen = "settings", CallsOK, SettingsUi, SettingsRows, NEW s \in Slots,
         \/ Perform(s, SettingsServer(s))
         \/ Refuse(s, Refusals(s))
         \/ LoseAnswer(s, SettingsServer(s))
  PROVE  CallsOK' /\ SettingsUi' /\ SettingsRows'
<1>1. calls[s].op = "getOperationalSettings" =>
        \A r \in SettingsServer(s) : r.db = db /\ r.data = Truth
  BY DEF SettingsServer, ListReply, Reply, Truth
<1>2. CallsOK' /\ ui' = ui
  BY AnswerKeepsCalls
<1> QED
  BY <1>1, <1>2, AnswerFollows, NoRefusalIsOk DEF SettingsRows, SettingsUi

LEMMA SettingsKeepRows ==
  ASSUME screen = "settings", SettingsInv, [FrontendNext]_allVars
  PROVE  CallsOK' /\ SettingsUi' /\ SettingsRows'
<1>1. CallsOK /\ SettingsUi /\ SettingsRows
  BY DEF SettingsInv
<1>2. CASE UNCHANGED allVars
  BY <1>1, <1>2, ClickFollows DEF allVars, vars, SettingsRows, SettingsUi, CallsOK, Busy
<1>3. CASE Unmount
  BY <1>1, <1>3, UnmountKeepsCalls DEF SettingsUi, SettingsRows
<1> QED
  BY <1>1, <1>2, <1>3, SettingsNextSteps, SettingsStepKeepsRows,
     SettingsHandleKeepsRows, SettingsAnswerKeepsRows

-----------------------------------------------------------------------------
(***************************************************************************)
(* The connections of a network.  A page that is not uncertain has one     *)
(* save in flight at most, and no fetch beside it; what it shows differs   *)
(* from what the backend holds only where that save is for.                *)
(***************************************************************************)

LinkWriteOps == {"upsertDevicePeerLink", "deleteDevicePeerLink"}

LinksFields ==
  {"mounted", "page", "links", "draft", "active", "selected", "saving", "uncertain"}

Links(f) == f = [i \in Items |-> f[i]]

LinksTypes ==
  /\ CallsOK /\ Links(db)
  /\ ui # Unmounted => LinksFields \subseteq DOMAIN ui
  /\ \A s \in Slots :
       /\ calls[s].op \in {"idle", "listDevicePeerLinks"} \cup LinkWriteOps
       /\ calls[s].op \in LinkWriteOps => calls[s].arg.id \in Items

FetchAlone ==
  \A s \in Slots : calls[s].op = "listDevicePeerLinks" =>
    /\ \A t \in Slots \ {s} : calls[t].op = "idle"
    /\ ui.page = "loading"
    /\ calls[s].outcome = "ok" => calls[s].data = db

SaveAlone ==
  \A s \in Slots : calls[s].op \in LinkWriteOps =>
    /\ \A t \in Slots : calls[t].op \in LinkWriteOps => s = t
    /\ calls[s].outcome = "ok" => calls[s].data = db[calls[s].arg.id]

ShownButForSave ==
  ui.page = "shown" =>
    /\ Links(ui.links)
    /\ \A i \in Items :
         ui.links[i] = db[i] \/ \E s \in Slots : calls[s].op \in LinkWriteOps /\ calls[s].arg.id = i

LinksRows ==
  ui # Unmounted /\ ~ui.uncertain =>
    /\ \A s \in Slots : Busy(s) => calls[s].mine
    /\ FetchAlone /\ SaveAlone /\ ShownButForSave

LinksInv == screen = "connections" => LinksTypes /\ LinksRows

LEMMA SavesAreNoReads == \A o \in LinkWriteOps : ~Reads(o)
<1>1. ~Reads("upsertDevicePeerLink") /\ ~Reads("deleteDevicePeerLink")
  BY DEF Reads, Method, Merged, NetworkCalls, LocationCalls, DeviceCalls,
         ConfigAndKeyCalls, ExportAndAuditCalls, RotationCalls,
         SessionAndSettingsCalls
<1> QED
  BY <1>1 DEF LinkWriteOps

LEMMA LinksNextSteps ==
  ASSUME FrontendNext, screen = "connections"
  PROVE  \/ LinksStep \/ Unmount
         \/ \E s \in Slots : \/ LinksHandle(s)
                             \/ Perform(s, LinksServer(s))
                             \/ Refuse(s, Refusals(s))
                             \/ LoseAnswer(s, LinksServer(s))
<1>1. \A s \in Slots : Replied(s) = LinksServer(s)
  BY DEF Replied, SmallScreens
<1> QED
  BY <1>1 DEF FrontendNext, PageNext, PageStep, PageHandle, Leave,
             BackendAnswers, AnswerLost, SmallScreens

LEMMA LinksFetchStarts ==
  ASSUME LinksTypes, LinksMount \/ LinksRefresh
  PROVE  LinksTypes' /\ LinksRows'
<1> USE DEF LinksTypes, LinksFields
<1>1. /\ Await("listDevicePeerLinks", Nobody) /\ db' = db
      /\ LinksFields \subseteq DOMAIN ui' /\ ui'.uncertain = ~Quiet /\ ui'.page = "loading"
  <2>1. CASE LinksMount
    BY <2>1 DEF LinksMount, LinksFresh
  <2>2. CASE LinksRefresh
    BY <2>2 DEF LinksRefresh, LinksMesh, LinksShown
  <2> QED
    BY <2>1, <2>2
<1>2. CallsOK' /\ \E s \in Slots :
         /\ calls'[s] = NewCall("listDevicePeerLinks", Nobody)
         /\ \A t \in Slots \ {s} : calls'[t] = calls[t]
  BY <1>1, AwaitTakesSlot
<1>3. PICK s \in Slots : /\ calls'[s] = NewCall("listDevicePeerLinks", Nobody)
                         /\ \A t \in Slots \ {s} : calls'[t] = calls[t]
  BY <1>2
<1>4. /\ calls'[s].op = "listDevicePeerLinks" /\ calls'[s].outcome = "none"
      /\ calls'[s].mine = TRUE
  BY <1>3 DEF NewCall
<1>5. LinksTypes'
  BY <1>1, <1>2, <1>3, <1>4 DEF Links, LinkWriteOps
<1>6. ASSUME Quiet
      PROVE  /\ \A t \in Slots : Busy(t)' => calls'[t].mine
             /\ FetchAlone' /\ SaveAlone' /\ ShownButForSave'
  <2>1. \A t \in Slots \ {s} : calls'[t].op = "idle"
    BY <1>3, <1>6 DEF Quiet, Busy
  <2> QED
    BY <1>1, <1>4, <2>1 DEF Busy, FetchAlone, SaveAlone, ShownButForSave, LinkWriteOps
<1> QED
  BY <1>1, <1>5, <1>6 DEF LinksRows

LEMMA LinksClickKeepsRows ==
  ASSUME LinksTypes, LinksRows, ui # Unmounted, UNCHANGED <<screen, calls, db>>,
         LinksFields \subseteq DOMAIN ui', ui'.uncertain = ui.uncertain,
         ui'.page = ui.page, ui'.links = ui.links
  PROVE  LinksTypes' /\ LinksRows'
<1>1. LinksTypes'
  BY DEF LinksTypes, CallsOK, Busy, Links
<1>2. (FetchAlone <=> FetchAlone') /\ (SaveAlone <=> SaveAlone') /\ (ShownButForSave <=> ShownButForSave')
  BY DEF FetchAlone, SaveAlone, ShownButForSave, Links
<1> QED
  BY <1>1, <1>2 DEF LinksRows, Busy

LEMMA LinksSaveKeepsRows ==
  ASSUME LinksTypes, LinksRows, NEW i \in Items, LinksSave(i)
  PROVE  LinksTypes' /\ LinksRows'
<1> USE DEF LinksTypes, LinksFields
<1>1. /\ ui # Unmounted /\ ui.page = "shown" /\ db' = db
      /\ ui' = [ui EXCEPT !.saving = i, !.uncertain = @ \/ Writing # {}]
  BY DEF LinksSave, LinksSaveEnabled, LinksEditor, LinksMesh, LinksShown
<1>2. /\ LinksFields \subseteq DOMAIN ui' /\ ui'.page = ui.page /\ ui'.links = ui.links
      /\ ui'.uncertain = (ui.uncertain \/ Writing # {})
  BY <1>1
<1>3. PICK o, arg : o \in LinkWriteOps /\ Await(o, arg) /\ arg.id = i
  BY DEF LinksSave, LinkWriteOps
<1>4. CallsOK' /\ \E s \in Slots :
         /\ ~Busy(s) /\ calls'[s] = NewCall(o, arg)
         /\ \A t \in Slots \ {s} : calls'[t] = calls[t]
  BY <1>3, AwaitTakesSlot DEF LinkWriteOps
<1>5. PICK s \in Slots : /\ ~Busy(s) /\ calls'[s] = NewCall(o, arg)
                         /\ \A t \in Slots \ {s} : calls'[t] = calls[t]
  BY <1>4
<1>6. /\ calls'[s].op = o /\ calls'[s].outcome = "none" /\ calls'[s].mine = TRUE
      /\ calls'[s].arg.id = i
  BY <1>3, <1>5 DEF NewCall
<1>7. LinksTypes'
  <2>1. \A t \in Slots :
          /\ calls'[t].op \in {"idle", "listDevicePeerLinks"} \cup LinkWriteOps
          /\ calls'[t].op \in LinkWriteOps => calls'[t].arg.id \in Items
    BY <1>3, <1>5, <1>6
  <2> QED
    BY <1>1, <1>2, <1>4, <2>1 DEF Links
<1>8. ASSUME ~ui.uncertain, Writing = {}
      PROVE  /\ \A t \in Slots : Busy(t)' => calls'[t].mine
             /\ FetchAlone' /\ SaveAlone' /\ ShownButForSave'
  <2>1. /\ \A t \in Slots : Busy(t) => calls[t].mine
        /\ FetchAlone /\ SaveAlone /\ ShownButForSave
    BY <1>1, <1>8 DEF LinksRows
  <2>2. \A t \in Slots : calls[t].op = "idle"
    BY <1>1, <1>8, <2>1, SavesAreNoReads
       DEF Writing, Mine, Busy, FetchAlone, LinkWriteOps
  <2>3. \A t \in Slots \ {s} : calls'[t].op = "idle"
    BY <1>5, <2>2
  <2>4. FetchAlone' /\ SaveAlone' /\ \A t \in Slots : Busy(t)' => calls'[t].mine
    BY <1>3, <1>6, <2>3 DEF FetchAlone, SaveAlone, Busy, LinkWriteOps
  <2>5. ShownButForSave'
    BY <1>1, <1>2, <2>1, <2>2 DEF ShownButForSave, LinkWriteOps, Links
  <2> QED
    BY <2>4, <2>5
<1> QED
  BY <1>2, <1>7, <1>8 DEF LinksRows

LEMMA LinksStepKeepsRows ==
  ASSUME LinksTypes, LinksRows, LinksStep
  PROVE  LinksTypes' /\ LinksRows'
<1>1. CASE \/ LinksPickLine
           \/ \E i \in Items : \/ LinksPickDevice(i) \/ LinksRevert(i)
                               \/ \E d \in LinksDrafts : LinksEdit(i, d)
  <2>1. /\ ui # Unmounted /\ UNCHANGED <<screen, calls, db>>
        /\ LinksFields \subseteq DOMAIN ui' /\ ui'.uncertain = ui.uncertain
        /\ ui'.page = ui.page /\ ui'.links = ui.links
    <3> USE DEF LinksTypes, LinksFields, LinksMesh, LinksShown
    <3>1. CASE LinksPickLine
      BY <3>1 DEF LinksPickLine, LinksSelect
    <3>2. ASSUME NEW i \in Items, LinksPickDevice(i)  PROVE  /\ ui # Unmounted /\ UNCHANGED <<screen, calls, db>>
                 /\ LinksFields \subseteq DOMAIN ui' /\ ui'.uncertain = ui.uncertain
                 /\ ui'.page = ui.page /\ ui'.links = ui.links
      BY <3>2 DEF LinksPickDevice, LinksSelect
    <3>3. ASSUME NEW i \in Items, LinksRevert(i)  PROVE  /\ ui # Unmounted /\ UNCHANGED <<screen, calls, db>>
                 /\ LinksFields \subseteq DOMAIN ui' /\ ui'.uncertain = ui.uncertain
                 /\ ui'.page = ui.page /\ ui'.links = ui.links
      BY <3>3 DEF LinksRevert, LinksSaveEnabled, LinksEditor
    <3>4. ASSUME NEW i \in Items, NEW d, LinksEdit(i, d)  PROVE  /\ ui # Unmounted /\ UNCHANGED <<screen, calls, db>>
                 /\ LinksFields \subseteq DOMAIN ui' /\ ui'.uncertain = ui.uncertain
                 /\ ui'.page = ui.page /\ ui'.links = ui.links
      BY <3>4 DEF LinksEdit, LinksEditor
    <3> QED
      BY <1>1, <3>1, <3>2, <3>3, <3>4
  <2> QED
    BY <2>1, LinksClickKeepsRows
<1> QED
  BY <1>1, LinksFetchStarts, LinksSaveKeepsRows DEF LinksStep

LEMMA LinksFetchedKeepsRows ==
  ASSUME LinksTypes, LinksRows, NEW s \in Slots, LinksFetched(s)
  PROVE  LinksTypes' /\ LinksRows'
<1> USE DEF LinksTypes, LinksFields
<1>1. /\ ui # Unmounted /\ calls[s].op = "listDevicePeerLinks" /\ Finish(s) /\ db' = db
  BY DEF LinksFetched, LinksShown, Answered
<1>2. /\ LinksFields \subseteq DOMAIN ui' /\ ui'.uncertain = ui.uncertain
      /\ IF calls[s].outcome = "ok" THEN ui'.links = calls[s].data
                                    ELSE ui'.page = "error"
  BY <1>1 DEF LinksFetched
<1>3. /\ CallsOK' /\ calls'[s].op = "idle" /\ \A t \in Slots \ {s} : calls'[t] = calls[t]
  BY <1>1, FinishFrees DEF Idle
<1>4. LinksTypes'
  BY <1>1, <1>2, <1>3 DEF Links, LinkWriteOps
<1>5. ASSUME ~ui.uncertain
      PROVE  /\ \A t \in Slots : Busy(t)' => calls'[t].mine
             /\ FetchAlone' /\ SaveAlone' /\ ShownButForSave'
  <2>1. /\ \A t \in Slots \ {s} : calls[t].op = "idle"
        /\ calls[s].outcome = "ok" => calls[s].data = db
    BY <1>1, <1>5 DEF LinksRows, FetchAlone
  <2>2. \A t \in Slots : calls'[t].op = "idle"
    BY <1>3, <2>1
  <2>3. ShownButForSave'
    BY <1>1, <1>2, <2>1 DEF ShownButForSave, Links
  <2> QED
    BY <2>2, <2>3 DEF FetchAlone, SaveAlone, LinkWriteOps, Busy
<1> QED
  BY <1>2, <1>4, <1>5 DEF LinksRows

LEMMA LinksSavedKeepsRows ==
  ASSUME LinksTypes, LinksRows, NEW s \in Slots, LinksSaved(s)
  PROVE  LinksTypes' /\ LinksRows'
<1> USE DEF LinksTypes, LinksFields
<1>1. /\ ui # Unmounted /\ calls[s].op \in LinkWriteOps /\ Finish(s) /\ db' = db
  BY DEF LinksSaved, LinksShown, Answered, LinkWriteOps
<1>2. /\ CallsOK' /\ calls'[s].op = "idle" /\ \A t \in Slots \ {s} : calls'[t] = calls[t]
  BY <1>1, FinishFrees DEF Idle
<1>3. CASE calls[s].outcome # "ok"
  <2>1. LinksFields \subseteq DOMAIN ui' /\ ui'.uncertain
    BY <1>1, <1>3 DEF LinksSaved
  <2> QED
    BY <1>1, <1>2, <2>1 DEF LinksRows, Links, LinkWriteOps
<1>4. CASE calls[s].outcome = "ok"
  <2>1. /\ LinksFields \subseteq DOMAIN ui' /\ ui'.uncertain = ui.uncertain
        /\ ui'.page = ui.page
        /\ ui'.links = [ui.links EXCEPT ![calls[s].arg.id] = calls[s].data]
    BY <1>1, <1>4 DEF LinksSaved
  <2>2. LinksTypes'
    BY <1>1, <1>2, <2>1 DEF Links, LinkWriteOps
  <2>3. ASSUME ~ui.uncertain
        PROVE  /\ \A t \in Slots : Busy(t)' => calls'[t].mine
               /\ FetchAlone' /\ SaveAlone' /\ ShownButForSave'
    <3>1. /\ \A t \in Slots : Busy(t) => calls[t].mine
          /\ FetchAlone /\ SaveAlone /\ ShownButForSave
      BY <1>1, <2>3 DEF LinksRows
    <3>2. \A t \in Slots : calls'[t].op # "idle" => t # s /\ calls'[t] = calls[t]
      BY <1>2
    <3>3. \A t \in Slots : calls'[t].op \notin LinkWriteOps /\ calls'[t].op # "listDevicePeerLinks"
      BY <1>1, <1>2, <3>1 DEF SaveAlone, FetchAlone, LinkWriteOps
    <3>4. FetchAlone' /\ SaveAlone' /\ \A t \in Slots : Busy(t)' => calls'[t].mine
      BY <3>1, <3>2, <3>3 DEF FetchAlone, SaveAlone, Busy
    <3>5. ASSUME ui.page = "shown"
          PROVE  Links(ui'.links) /\ \A i \in Items : ui'.links[i] = db[i]
      <4>1. /\ calls[s].data = db[calls[s].arg.id] /\ calls[s].arg.id \in Items
            /\ Links(ui.links)
            /\ \A i \in Items : i # calls[s].arg.id => ui.links[i] = db[i]
        BY <1>1, <1>4, <3>1, <3>5 DEF SaveAlone, ShownButForSave
      <4> QED
        BY <2>1, <4>1 DEF Links
    <3>6. ShownButForSave'
      BY <1>1, <2>1, <3>5 DEF ShownButForSave, Links
    <3> QED
      BY <3>4, <3>6
  <2> QED
    BY <2>1, <2>2, <2>3 DEF LinksRows
<1> QED
  BY <1>3, <1>4

\* A save changes its own link only, and is answered with what it stored.
LinkReply(s, d, out, data) ==
  /\ Links(d)
  /\ \A i \in Items : i # calls[s].arg.id => d[i] = db[i]
  /\ calls[s].op = "listDevicePeerLinks" => d = db /\ data = db
  /\ calls[s].op \in LinkWriteOps /\ out = "ok" => data = d[calls[s].arg.id]

LEMMA LinkReplies ==
  ASSUME LinksTypes, NEW s \in Slots, Busy(s), NEW r \in LinksServer(s)
  PROVE  LinkReply(s, r.db, r.outcome, r.data)
<1> USE DEF LinkReply, LinksTypes, Links, Reply, LinkWriteOps
<1>1. CASE calls[s].op = "listDevicePeerLinks"
  <2>1. r = Reply(db, "ok", db)
    BY <1>1 DEF LinksServer, ListReply
  <2> QED
    BY <1>1, <2>1
<1>2. CASE calls[s].op = "upsertDevicePeerLink"
  <2>1. CASE r = Reply(db, "invalid", Nobody)
    BY <1>2, <2>1
  <2>2. CASE r = Reply([db EXCEPT ![calls[s].arg.id] = calls[s].arg.draft], "ok", calls[s].arg.draft)
    BY <1>2, <2>2
  <2> QED
    BY <1>2, <2>1, <2>2 DEF LinksServer
<1>3. CASE calls[s].op = "deleteDevicePeerLink"
  <2>1. /\ r.db = [db EXCEPT ![calls[s].arg.id] = 0] /\ r.data = 0
    BY <1>3 DEF LinksServer
  <2> QED
    BY <1>3, <2>1
<1> QED
  BY <1>1, <1>2, <1>3 DEF Busy

LEMMA LinksAnswered ==
  ASSUME LinksTypes, LinksRows, NEW s \in Slots, Busy(s), ui' = ui, CallsOK',
         \A t \in Slots \ {s} : calls'[t] = calls[t],
         (calls'[s] = Idle /\ ~calls[s].mine) \/ SameCall(calls[s], calls'[s]),
         Links(db)', \A i \in Items : i # calls[s].arg.id => db'[i] = db[i],
         calls[s].op = "listDevicePeerLinks" => db' = db,
         SameCall(calls[s], calls'[s]) /\ calls'[s].outcome = "ok" =>
           /\ calls[s].op = "listDevicePeerLinks" => calls'[s].data = db
           /\ calls[s].op \in LinkWriteOps => calls'[s].data = db'[calls[s].arg.id]
  PROVE  LinksTypes' /\ LinksRows'
<1>1. LinksTypes'
  BY DEF LinksTypes, SameCall, Idle, LinkWriteOps
<1> SUFFICES ASSUME ui # Unmounted, ~ui.uncertain
             PROVE  /\ \A t \in Slots : Busy(t)' => calls'[t].mine
                    /\ FetchAlone' /\ SaveAlone' /\ ShownButForSave'
  BY <1>1 DEF LinksRows
<1>2. /\ \A t \in Slots : Busy(t) => calls[t].mine
      /\ FetchAlone /\ SaveAlone /\ ShownButForSave
  BY DEF LinksRows
<1>3. SameCall(calls[s], calls'[s])
  BY <1>2
<1>4. \A t \in Slots : calls'[t].op = calls[t].op /\ (t # s => calls'[t] = calls[t])
  BY <1>3 DEF SameCall
<1>5. \A t \in Slots : Busy(t)' => calls'[t].mine
  BY <1>2, <1>3, <1>4 DEF Busy, SameCall
<1>6. CASE calls[s].op = "listDevicePeerLinks"
  <2>1. /\ \A t \in Slots \ {s} : calls[t].op = "idle"
        /\ ui.page = "loading"
    BY <1>2, <1>6 DEF FetchAlone
  <2>2. FetchAlone'
    BY <1>3, <1>4, <1>6, <2>1 DEF FetchAlone
  <2>3. SaveAlone' /\ ShownButForSave'
    BY <1>4, <1>6, <2>1 DEF SaveAlone, ShownButForSave, LinkWriteOps
  <2> QED
    BY <1>5, <2>2, <2>3
<1>7. CASE calls[s].op \in LinkWriteOps
  <2>1. \A t \in Slots : calls[t].op # "listDevicePeerLinks"
    BY <1>2, <1>7 DEF FetchAlone, LinkWriteOps
  <2>2. \A t \in Slots : calls[t].op \in LinkWriteOps => t = s
    BY <1>2, <1>7 DEF SaveAlone
  <2>3. FetchAlone'
    BY <1>4, <2>1 DEF FetchAlone
  <2>4. SaveAlone'
    <3>1. calls'[s].arg = calls[s].arg
      BY <1>3 DEF SameCall
    <3> QED
      BY <1>3, <1>4, <1>7, <2>2, <3>1 DEF SaveAlone
  <2>5. ASSUME ui.page = "shown", NEW i \in Items
        PROVE  ui.links[i] = db'[i] \/ \E t \in Slots : calls'[t].op \in LinkWriteOps /\ calls'[t].arg.id = i
    <3>1. CASE i = calls[s].arg.id
      BY <1>3, <1>7, <3>1 DEF SameCall
    <3>2. CASE i # calls[s].arg.id
      BY <1>2, <1>7, <2>2, <2>5, <3>2 DEF ShownButForSave
    <3> QED
      BY <3>1, <3>2
  <2>6. ShownButForSave'
    BY <1>2, <2>5 DEF ShownButForSave, Links
  <2> QED
    BY <1>5, <2>3, <2>4, <2>6
<1> QED
  BY <1>6, <1>7 DEF LinksTypes, Busy

LEMMA LinksAnswerKeepsRows ==
  ASSUME screen = "connections", LinksTypes, LinksRows, NEW s \in Slots,
         \/ Perform(s, LinksServer(s))
         \/ Refuse(s, Refusals(s))
         \/ LoseAnswer(s, LinksServer(s))
  PROVE  LinksTypes' /\ LinksRows'
<1>1. /\ CallsOK' /\ ui' = ui /\ \A t \in Slots \ {s} : calls'[t] = calls[t]
      /\ (calls'[s] = Idle /\ ~calls[s].mine) \/ SameCall(calls[s], calls'[s])
  BY AnswerKeepsCalls DEF LinksTypes
<1>2. Busy(s) /\ calls[s].outcome = "none" /\ CallsOK
  BY DEF Perform, Refuse, LoseAnswer, Waiting, LinksTypes
<1>3. ~SameCall(Idle, calls[s]) /\ ~SameCall(calls[s], Idle)
  BY <1>2 DEF SameCall, Idle, Busy
<1>4. CASE Perform(s, LinksServer(s))
  <2>1. PICK r \in LinksServer(s) : db' = r.db /\ Settle(s, r.outcome, r.data)
    BY <1>4 DEF Perform
  <2>2. LinkReply(s, db', r.outcome, r.data)
    BY <1>2, <2>1, LinkReplies
  <2>3. SameCall(calls[s], calls'[s]) =>
          calls'[s].outcome = r.outcome /\ calls'[s].data = r.data
    BY <1>2, <1>3, <2>1, SettleAnswers
  <2> QED
    BY <1>1, <1>2, <2>2, <2>3, LinksAnswered DEF LinkReply, Links
<1>5. CASE Refuse(s, Refusals(s))
  <2>1. PICK k \in Refusals(s) : db' = db /\ Settle(s, k, Nobody)
    BY <1>5 DEF Refuse
  <2>2. SameCall(calls[s], calls'[s]) => calls'[s].outcome # "ok"
    BY <1>2, <1>3, <2>1, SettleAnswers, NoRefusalIsOk
  <2> QED
    BY <1>1, <1>2, <2>1, <2>2, LinksAnswered DEF LinksTypes, Links
<1>6. CASE LoseAnswer(s, LinksServer(s))
  <2>1. PICK r \in LinksServer(s) : db' = r.db
    BY <1>6 DEF LoseAnswer
  <2>2. LinkReply(s, db', r.outcome, r.data)
    BY <1>2, <2>1, LinkReplies
  <2>3. SameCall(calls[s], calls'[s]) => calls'[s].outcome # "ok"
    <3>1. CASE Repeats(calls[s].op)
      BY <1>2, <1>6, <3>1 DEF LoseAnswer, CallsOK, CallFields
    <3>2. CASE ~Repeats(calls[s].op)
      BY <1>2, <1>3, <1>6, <3>2, SettleAnswers DEF LoseAnswer
    <3> QED
      BY <3>1, <3>2
  <2> QED
    BY <1>1, <1>2, <2>2, <2>3, LinksAnswered DEF LinkReply, Links
<1> QED
  BY <1>4, <1>5, <1>6

LEMMA LinksKeepRows ==
  ASSUME screen = "connections", LinksInv, [FrontendNext]_allVars
  PROVE  LinksTypes' /\ LinksRows'
<1>1. LinksTypes /\ LinksRows
  BY DEF LinksInv
<1>2. CASE UNCHANGED allVars
  BY <1>1, <1>2 DEF allVars, vars, LinksTypes, LinksRows, CallsOK, Busy, Links,
                    FetchAlone, SaveAlone, ShownButForSave
<1>3. CASE Unmount
  <2>1. LinksTypes'
    BY <1>1, <1>3, UnmountKeepsCalls DEF LinksTypes, Links, Idle, LinkWriteOps
  <2> QED
    BY <1>3, <2>1 DEF Unmount, LinksRows
<1> QED
  BY <1>1, <1>2, <1>3, LinksNextSteps, LinksStepKeepsRows, LinksFetchedKeepsRows,
     LinksSavedKeepsRows, LinksAnswerKeepsRows DEF LinksHandle

-----------------------------------------------------------------------------
\* The invariant of all the pages that list records.
RowsInv ==
  /\ screen = "networks" => NetworksRows
  /\ screen = "locations" => LocationsRows
  /\ screen = "fleet" => FleetRows
  /\ DevicesInv /\ SettingsInv /\ LinksInv

LEMMA RowsAlways == FrontendSpec => []RowsInv
<1>1. FrontendInit => RowsInv
  <2> SUFFICES ASSUME FrontendInit  PROVE RowsInv
    OBVIOUS
  <2>1. CallsOK /\ ui = Unmounted
    BY DEF FrontendInit, CallsOK, CallFields, Busy, Idle
  <2>2. ASSUME screen = "connections"  PROVE LinksTypes
    <3>1. db \in {[i \in Items |-> n] : n \in 0..MaxProperties}
      BY <2>2 DEF FrontendInit, Stored, SmallScreens
    <3>2. Links(db)
      BY <3>1 DEF Links
    <3> QED
      BY <2>1, <3>2 DEF FrontendInit, LinksTypes, Idle, LinkWriteOps
  <2> QED
    BY <2>1, <2>2 DEF RowsInv, NetworksRows, LocationsRows, FleetRows, DevicesInv,
       DevicesUi, DevicesRows, SettingsInv, SettingsUi, SettingsRows, LinksInv, LinksRows
<1>2. OwnInv /\ FleetInv /\ RowsInv /\ [FrontendNext]_allVars => RowsInv'
  <2> SUFFICES ASSUME OwnInv, FleetInv, RowsInv, [FrontendNext]_allVars
               PROVE  RowsInv'
    OBVIOUS
  <2>1. screen' = screen
    BY ScreenStays
  <2>2. /\ screen = "networks" => NetworksRows'
        /\ screen = "locations" => LocationsRows'
        /\ screen = "fleet" => FleetRows'
    BY NetworksKeepRows, LocationsKeepRows, FleetKeepRows DEF RowsInv
  <2>3. DevicesInv' /\ SettingsInv' /\ LinksInv'
    BY <2>1, DevicesKeepRows, SettingsKeepRows, LinksKeepRows
       DEF RowsInv, DevicesInv, SettingsInv, LinksInv
  <2> QED
    BY <2>1, <2>2, <2>3 DEF RowsInv
<1> QED
  BY <1>1, <1>2, OwnAlways, FleetAlways, PTL DEF FrontendSpec

\* Once all is quiet a page that lists records shows what the backend holds,
\* for any number of records and of calls in flight: however the answers of
\* its fetches and writes came, in whatever order it was left and entered,
\* unless a failure or a fetch beside another call left it uncertain
\* (networks/page.tsx, network-locations.tsx, network-devices.tsx,
\* devices/page.tsx, connections/page.tsx, settings/page.tsx).
THEOREM RowsAreTheBackends == FrontendSpec => []RowsFollowWrites
<1>1. RowsInv => RowsFollowWrites
  <2> SUFFICES ASSUME RowsInv, Quiet, ui # Unmounted  PROVE RowsFollowWrites
    BY DEF RowsFollowWrites
  <2>1. screen # "fleet" => Truth = db
    BY DEF Truth
  <2>2. screen = "fleet" => Truth = Existing
    BY DEF Truth
  <2>3. LinksShown /\ ui.page = "shown" /\ ~ui.uncertain => ui.links = db
    <3> SUFFICES ASSUME LinksShown, ui.page = "shown", ~ui.uncertain
                 PROVE  ui.links = db
      OBVIOUS
    <3>1. LinksTypes /\ ShownButForSave
      BY DEF RowsInv, LinksInv, LinksShown, LinksRows
    <3>2. Links(db) /\ Links(ui.links) /\ \A i \in Items : ui.links[i] = db[i]
      BY <3>1 DEF LinksTypes, ShownButForSave, Quiet, Busy, LinkWriteOps
    <3> QED
      BY <3>2 DEF Links
  <2> QED
    BY <2>1, <2>2, <2>3
       DEF RowsFollowWrites, RowsInv, NetworksShown, NetworksRows, LocationsShown,
           NetworkShown, LocationsRows, DevicesShown, DevicesInv, DevicesRows,
           FleetShown, FleetRows, SettingsShown, SettingsLoading, SettingsInv, SettingsRows
<1> QED
  BY <1>1, RowsAlways, PTL
=============================================================================
