----------------------------- MODULE WriteProofs -----------------------------
(***************************************************************************)
(* That a page whose writes share one flag never has two of them under way *)
(* (OneWriteAtATime), for any number of records and of calls in flight,    *)
(* and for every order of answers.                                         *)
(*                                                                         *)
(* What a page says of its writes in flight is the flag alone.  It is set  *)
(* by a handler that finds it clear, and cleared by the handler of the     *)
(* write; a part of the page that goes away leaves its write to nobody, so *)
(* the next part, whose flag is clear, finds none of its own (WritesInv).  *)
(***************************************************************************)
EXTENDS RowsProofs, FiniteSetTheorems

\* The pages where it is a part of the page that writes.
WithParts == {"locations", "settings"}

WritePages == WithParts \cup {"networks", "deviceForm", "networkEdit", "deviceEdit"}

\* The write in slot s is one of the part that is mounted, if it still is.
UnderWay(s) ==
  /\ calls[s].op \in RecordWrites /\ calls[s].mine
  /\ screen \in WithParts => calls[s].arg.alive

\* The flag that keeps the buttons of the page from being clicked.
WritesDisabled ==
  /\ ui # Unmounted
  /\ IF screen = "locations" THEN ui.child # Unmounted /\ ui.child.submitting
     ELSE IF screen = "settings" THEN ui.card # NoCard /\ ui.card.isSaving
     ELSE ui.submitting

NoneUnderWay == \A s \in Slots : ~UnderWay(s)
OneUnderWay  == \A s, t \in Slots : UnderWay(s) /\ UnderWay(t) => s = t

\* The handler of a part's write looks whether the part is still there.
WriteArgs ==
  screen \in WithParts =>
    \A s \in Slots : calls[s].op \in RecordWrites =>
      /\ "alive" \in DOMAIN calls[s].arg
      /\ screen = "settings" => calls[s].op = "updateOperationalSettings"

WritesKnown ==
  OneUnderWay /\ (~WritesDisabled => NoneUnderWay) /\ WriteArgs

-----------------------------------------------------------------------------
(***************************************************************************)
(* The calls, whatever the page.                                           *)
(***************************************************************************)

LEMMA WritesAreNotIdle == "idle" \notin RecordWrites
  BY DEF RecordWrites

\* A step that sends no write keeps what is known, if it keeps the flag.
LEMMA NothingSent ==
  ASSUME WritesKnown, WriteArgs', \A s \in Slots : UnderWay(s)' => UnderWay(s),
         WritesDisabled => WritesDisabled'
  PROVE  WritesKnown'
  BY DEF WritesKnown, OneUnderWay, NoneUnderWay

LEMMA NoneIsKnown ==
  ASSUME NoneUnderWay', WriteArgs'
  PROVE  WritesKnown'
  BY DEF WritesKnown, OneUnderWay, NoneUnderWay

\* A write is sent only when the flag is clear, and sets it.
LEMMA WriteSent ==
  ASSUME CallsOK, WritesKnown, ~WritesDisabled, WritesDisabled', screen' = screen,
         NEW op_, op_ # "idle", NEW arg, Await(op_, arg),
         screen \in WithParts => "alive" \in DOMAIN arg,
         screen = "settings" => op_ = "updateOperationalSettings"
  PROVE  CallsOK' /\ WritesKnown'
<1>1. /\ CallsOK'
      /\ \E s \in Slots : /\ calls'[s] = NewCall(op_, arg)
                          /\ \A t \in Slots \ {s} : calls'[t] = calls[t]
  BY AwaitTakesSlot
<1>2. OneUnderWay'
  BY <1>1 DEF WritesKnown, OneUnderWay, NoneUnderWay, UnderWay
<1>3. WriteArgs'
  BY <1>1 DEF WritesKnown, WriteArgs, NewCall
<1> QED
  BY <1>1, <1>2, <1>3 DEF WritesKnown

\* What a handler of any other call does with the calls in flight.
LEMMA NoWriteSent ==
  ASSUME CallsOK, WritesKnown, screen' = screen, NEW op_, op_ \notin RecordWrites \cup {"idle"}, NEW arg,
         NEW s \in Slots, Await(op_, arg) \/ AwaitNext(s, op_, arg) \/ Finish(s)
  PROVE  /\ CallsOK' /\ WriteArgs'
         /\ \A t \in Slots : UnderWay(t)' => UnderWay(t)
<1>1. CASE Await(op_, arg)
  <2>1. /\ CallsOK'
        /\ \E r \in Slots : /\ calls'[r] = NewCall(op_, arg)
                            /\ \A t \in Slots \ {r} : calls'[t] = calls[t]
    BY <1>1, AwaitTakesSlot
  <2> QED
    BY <2>1 DEF UnderWay, WritesKnown, WriteArgs, NewCall
<1>2. CASE AwaitNext(s, op_, arg)
  <2>1. /\ CallsOK' /\ calls'[s] = NewCall(op_, arg)
        /\ \A t \in Slots \ {s} : calls'[t] = calls[t]
    BY <1>2, AwaitNextReplaces
  <2> QED
    BY <2>1 DEF UnderWay, WritesKnown, WriteArgs, NewCall
<1>3. CASE Finish(s)
  <2>1. /\ CallsOK' /\ calls'[s].op = "idle"
        /\ \A t \in Slots \ {s} : calls'[t] = calls[t]
    BY <1>3, FinishFrees DEF Idle
  <2> QED
    BY <2>1, WritesAreNotIdle DEF UnderWay, WritesKnown, WriteArgs
<1> QED
  BY <1>1, <1>2, <1>3

\* The handler of the write under way ends it, or goes on to a fetch.
LEMMA WriteEnds ==
  ASSUME CallsOK, WritesKnown, screen' = screen, NEW s \in Slots, UnderWay(s),
         NEW op_, op_ \notin RecordWrites \cup {"idle"}, NEW arg,
         AwaitNext(s, op_, arg) \/ Finish(s)
  PROVE  CallsOK' /\ WritesKnown'
<1>1. CallsOK' /\ WriteArgs' /\ \A t \in Slots : UnderWay(t)' => UnderWay(t)
  BY NoWriteSent
<1>2. ~UnderWay(s)'
  <2>1. CASE AwaitNext(s, op_, arg)
    <3>1. calls'[s] = NewCall(op_, arg)
      BY <2>1, AwaitNextReplaces
    <3> QED
      BY <3>1 DEF UnderWay, NewCall
  <2>2. CASE Finish(s)
    <3>1. calls'[s].op = "idle"
      BY <2>2, FinishFrees DEF Idle
    <3> QED
      BY <3>1, WritesAreNotIdle DEF UnderWay
  <2> QED
    BY <2>1, <2>2
<1> QED
  BY <1>1, <1>2, NoneIsKnown DEF WritesKnown, OneUnderWay, NoneUnderWay

LEMMA AnswerKeepsWrites ==
  ASSUME CallsOK, WritesKnown, NEW s \in Slots, NEW replies, NEW outcomes,
         Perform(s, replies) \/ LoseAnswer(s, replies) \/ Refuse(s, outcomes)
  PROVE  CallsOK' /\ WritesKnown'
<1>1. /\ CallsOK' /\ ui' = ui /\ screen' = screen
      /\ \A t \in Slots \ {s} : calls'[t] = calls[t]
      /\ (calls'[s] = Idle /\ ~calls[s].mine) \/ SameCall(calls[s], calls'[s])
  BY AnswerKeepsCalls
<1>2. calls'[s].op = "idle" \/ SameCall(calls[s], calls'[s])
  BY <1>1 DEF Idle
<1>3. \A t \in Slots : UnderWay(t)' => UnderWay(t)
  BY <1>1, <1>2, WritesAreNotIdle DEF UnderWay, SameCall
<1>4. WritesDisabled' = WritesDisabled
  BY <1>1 DEF WritesDisabled
<1>5. WriteArgs'
  BY <1>1, <1>2, WritesAreNotIdle DEF WritesKnown, WriteArgs, SameCall
<1> QED
  BY <1>1, <1>3, <1>4, <1>5, NothingSent

\* A page that goes away leaves its writes to nobody.
LEMMA OrphansAreNotUnderWay ==
  ASSUME CallsOK, WritesKnown, screen' = screen, DOMAIN calls' = Slots,
         \A t \in Slots : \/ calls'[t] = Idle
                          \/ calls'[t] = Orphaned(calls[t])
  PROVE  CallsOK' /\ WritesKnown'
<1>1. ASSUME NEW t \in Slots
      PROVE  \/ calls'[t] = Idle
             \/ /\ calls'[t].op # "idle" /\ ~calls'[t].mine
                /\ calls'[t].op = calls[t].op /\ calls'[t].arg = calls[t].arg
                /\ CallFields \subseteq DOMAIN calls'[t]
  BY <1>1 DEF Orphaned, CallsOK, CallFields, Busy
<1>2. \A t \in Slots : \/ calls'[t].op = "idle"
                       \/ /\ ~calls'[t].mine
                          /\ calls'[t].op = calls[t].op /\ calls'[t].arg = calls[t].arg
  BY <1>1 DEF Idle
<1>3. NoneUnderWay'
  BY <1>2, WritesAreNotIdle DEF NoneUnderWay, UnderWay
<1>4. WriteArgs'
  BY <1>2, WritesAreNotIdle DEF WritesKnown, WriteArgs
<1>5. CallsOK'
  BY <1>1 DEF CallsOK, Busy, Idle
<1> QED
  BY <1>3, <1>4, <1>5, NoneIsKnown

LEMMA UnmountEndsWrites ==
  ASSUME CallsOK, WritesKnown, Unmount
  PROVE  CallsOK' /\ WritesKnown'
  BY OrphansAreNotUnderWay DEF Unmount

LEMMA ClickKeepsWrites ==
  ASSUME CallsOK, WritesKnown, UNCHANGED <<screen, calls>>,
         WritesDisabled => WritesDisabled'
  PROVE  CallsOK' /\ WritesKnown'
<1>1. WriteArgs'
  BY DEF WritesKnown, WriteArgs
<1> QED
  BY <1>1, NothingSent DEF CallsOK, Busy, UnderWay
-----------------------------------------------------------------------------
(***************************************************************************)
(* The list of networks.                                                   *)
(***************************************************************************)

LEMMA NetworksStepKeepsWrites ==
  ASSUME CallsOK, EditsOwn(ui), WritesKnown, NetworksStep
  PROVE  CallsOK' /\ WritesKnown'
<1> USE DEF EditsOwn, DialogFields
<1>0. screen = "networks" /\ screen' = screen
  BY DEF NetworksStep, NetworksMount, NetworksUnlocked, NetworksSearch,
         NetworksSort, NetworksRetry, NetworksRetryOffered, NetworksRefetch,
         NetworksOpenCreate, NetworksOpenEdit, NetworksOpenDelete, NetworksRow,
         NetworksClose, NetworksDialog, NetworksBare, NetworksShown,
         NetworksSubmitCreate, NetworksCreateEnabled, NetworksSubmitUpdate,
         NetworksUpdateEnabled, NetworksSubmitDelete, NetworksDeleteEnabled
<1>1. CASE \/ NetworksMount \/ NetworksUnlocked
           \/ NetworksSearch \/ NetworksSort \/ NetworksRetry
  <2>1. Await("listNetworks", Nobody) /\ (WritesDisabled => WritesDisabled')
    <3>1. CASE NetworksMount
      BY <3>1 DEF NetworksMount, WritesDisabled
    <3>2. CASE NetworksUnlocked
      BY <1>0, <3>2 DEF NetworksUnlocked, NetworksDialog, NetworksShown, WritesDisabled, Unmounted
    <3>3. CASE NetworksSearch \/ NetworksSort \/ NetworksRetry
      BY <1>0, <3>3 DEF NetworksSearch, NetworksSort, NetworksRetry, NetworksRefetch,
                        NetworksRetryOffered, NetworksBare, NetworksShown,
                        WritesDisabled, Unmounted
    <3> QED
      BY <1>1, <3>1, <3>2, <3>3
  <2>2. CallsOK' /\ WriteArgs' /\ \A t \in Slots : UnderWay(t)' => UnderWay(t)
    BY <1>0, <2>1, NoWriteSent, AwaitTakesSlot DEF RecordWrites
  <2> QED
    BY <2>1, <2>2, NothingSent
<1>2. CASE \/ NetworksOpenCreate
           \/ \E i \in Items : NetworksOpenEdit(i) \/ NetworksOpenDelete(i)
           \/ \E d \in {"create", "edit", "delete", "unlock"} : NetworksClose(d)
  <2>1. /\ ui # Unmounted /\ UNCHANGED <<screen, calls>>
        /\ DOMAIN ui' = DOMAIN ui /\ ui'.submitting = ui.submitting
    BY <1>2 DEF NetworksOpenCreate, NetworksOpenEdit, NetworksOpenDelete,
                NetworksClose, NetworksRow, NetworksBare, NetworksDialog, NetworksShown
  <2>2. WritesDisabled => WritesDisabled'
    BY <1>0, <2>1 DEF WritesDisabled, Unmounted
  <2> QED
    BY <2>1, <2>2, ClickKeepsWrites
<1>3. CASE NetworksSubmitCreate \/ NetworksSubmitUpdate \/ NetworksSubmitDelete
  <2>1. /\ ui # Unmounted /\ ~ui.submitting /\ ui' = [ui EXCEPT !.submitting = TRUE]
        /\ \E o, arg : o \in RecordWrites /\ Await(o, arg)
    BY <1>3 DEF NetworksSubmitCreate, NetworksCreateEnabled, NetworksSubmitUpdate,
                NetworksUpdateEnabled, NetworksSubmitDelete, NetworksDeleteEnabled,
                NetworksDialog, NetworksShown, RecordWrites
  <2>2. ~WritesDisabled /\ WritesDisabled'
    BY <1>0, <2>1 DEF WritesDisabled, Unmounted
  <2> QED
    BY <1>0, <2>1, <2>2, WriteSent, WritesAreNotIdle DEF WithParts
<1> QED
  BY <1>1, <1>2, <1>3 DEF NetworksStep

LEMMA NetworksHandleKeepsWrites ==
  ASSUME CallsOK, EditsOwn(ui), WritesKnown, NEW s \in Slots, NetworksHandle(s)
  PROVE  CallsOK' /\ WritesKnown'
<1> USE DEF EditsOwn, DialogFields
<1>0. screen = "networks" /\ screen' = screen /\ ui # Unmounted
  BY DEF NetworksHandle, NetworksFetched, NetworksCreated, NetworksUpdated,
         NetworksDeleted, NetworksShown
<1>1. CASE NetworksFetched(s)
  <2>1. Finish(s) /\ DOMAIN ui' = DOMAIN ui /\ ui'.submitting = ui.submitting
    BY <1>0, <1>1 DEF NetworksFetched
  <2>2. WritesDisabled => WritesDisabled'
    BY <1>0, <2>1 DEF WritesDisabled, Unmounted
  <2>3. "listNetworks" \notin RecordWrites \cup {"idle"}
    BY DEF RecordWrites
  <2> QED
    BY <1>0, <2>1, <2>2, <2>3, NoWriteSent, NothingSent
<1>2. CASE NetworksCreated(s) \/ NetworksUpdated(s) \/ NetworksDeleted(s)
  <2>1. /\ UnderWay(s)
        /\ AwaitNext(s, "listNetworks", Nobody) \/ Finish(s)
    BY <1>0, <1>2 DEF NetworksCreated, NetworksUpdated, NetworksDeleted, NetworksWritten,
                      NetworksWriteFailed, Mine, Answered, UnderWay, RecordWrites, WithParts
  <2>2. "listNetworks" \notin RecordWrites \cup {"idle"}
    BY DEF RecordWrites
  <2> QED
    BY <1>0, <2>1, <2>2, WriteEnds
<1> QED
  BY <1>1, <1>2 DEF NetworksHandle

LEMMA NetworksKeepWrites ==
  ASSUME screen = "networks", CallsOK, EditsOwn(ui), WritesKnown, [FrontendNext]_allVars
  PROVE  CallsOK' /\ WritesKnown'
<1>1. CASE UNCHANGED allVars
  <2>1. UNCHANGED <<screen, ui, calls>>
    BY <1>1 DEF allVars, vars
  <2> QED
    BY <2>1, ClickKeepsWrites DEF WritesDisabled
<1> QED
  BY <1>1, NetworksNextSteps, NetworksStepKeepsWrites, NetworksHandleKeepsWrites,
     AnswerKeepsWrites, UnmountEndsWrites
-----------------------------------------------------------------------------
(***************************************************************************)
(* The locations of a network.  The tab is the part that writes.           *)
(***************************************************************************)

\* A tab that goes away leaves its write to nobody, and all of them with it.
LEMMA LeftAreNotUnderWay ==
  ASSUME CallsOK, WritesKnown, screen = "locations", screen' = screen, NEW next,
         next = Idle \/ next = NewCall("getNetwork", Nobody),
         \/ calls' = [t \in Slots |-> Left(calls[t])]
         \/ \E s \in Slots : LeftBut(s, next)
  PROVE  CallsOK' /\ WritesKnown'
<1>1. next = Idle \/ (next.op # "idle" /\ CallFields \subseteq DOMAIN next)
  BY DEF NewCall, CallFields
<1>2. CallsOK'
  BY <1>1, LeftKeepsCalls
<1>3. next.op \notin RecordWrites
  BY DEF Idle, NewCall, RecordWrites
<1>4. ASSUME NEW t \in Slots
      PROVE  \/ Left(calls[t]).op \notin RecordWrites
             \/ /\ "alive" \in DOMAIN Left(calls[t]).arg
                /\ ~Left(calls[t]).mine \/ Left(calls[t]).arg.alive = FALSE
  <2> DEFINE c == calls[t]
  <2>1. CASE Left(c) = c /\ (c.op \in {"idle", "getNetwork"} \/ ~c.mine)
    BY <2>1 DEF WithParts, WritesKnown, WriteArgs, RecordWrites
  <2>2. CASE Left(c) = Idle
    BY <2>2 DEF Idle, RecordWrites
  <2>3. CASE c.op # "idle" /\ Left(c) = [c EXCEPT !.arg.alive = FALSE]
    <3>1. CallFields \subseteq DOMAIN c
      BY <2>3 DEF CallsOK, Busy
    <3>2. Left(c).op = c.op /\ Left(c).arg = [c.arg EXCEPT !.alive = FALSE]
      BY <2>3, <3>1 DEF CallFields
    <3> QED
      BY <3>2 DEF WithParts, WritesKnown, WriteArgs
  <2> QED
    BY <2>1, <2>2, <2>3 DEF Left
<1>5. \A t \in Slots : \/ calls'[t].op \notin RecordWrites
                       \/ /\ "alive" \in DOMAIN calls'[t].arg
                          /\ ~calls'[t].mine \/ calls'[t].arg.alive = FALSE
  BY <1>3, <1>4 DEF LeftBut
<1>6. NoneUnderWay' /\ WriteArgs'
  BY <1>5 DEF NoneUnderWay, UnderWay, WriteArgs, WithParts
<1> QED
  BY <1>2, <1>6, NoneIsKnown

\* Only the tab that is open is mounted.
TabHidden == ui # Unmounted /\ ui.tab # "here" => ui.child = Unmounted

LEMMA LocationsStepKeepsWrites ==
  ASSUME CallsOK, TabOK, TabHidden, WritesKnown, LocationsStep
  PROVE  CallsOK' /\ TabHidden' /\ WritesKnown'
<1> USE DEF TabOK, EditsOwn, DialogFields
<1>0. screen = "locations" /\ screen' = screen
  BY DEF LocationsStep, NetworkMount, NetworkLeaveTab, NetworkEnterTab,
         LocationsRetry, LocationsRetryOffered, LocationsOpenCreate,
         LocationsOpenEdit, LocationsOpenDelete, LocationsRow, LocationsClose,
         LocationsDialog, LocationsBare, LocationsShown, LocationsSubmitCreate,
         LocationsCreateEnabled, LocationsSubmitUpdate, LocationsUpdateEnabled,
         LocationsSubmitDelete, LocationsDeleteEnabled, LocationsSubmit
<1>1. CASE NetworkMount("locations")
  <2>1. ~WritesDisabled /\ Await("getNetwork", Nobody)
    BY <1>1 DEF NetworkMount, WritesDisabled
  <2>2. CallsOK' /\ WriteArgs' /\ \A t \in Slots : UnderWay(t)' => UnderWay(t)
    BY <1>0, <2>1, NoWriteSent, AwaitTakesSlot DEF RecordWrites
  <2>3. TabHidden'
    BY <1>1 DEF NetworkMount, NetworkFresh, TabHidden
  <2> QED
    BY <2>1, <2>2, <2>3, NothingSent
<1>2. CASE NetworkLeaveTab("locations")
  <2>1. /\ calls' = [t \in Slots |-> Left(calls[t])]
        /\ ui # Unmounted /\ ui' = [ui EXCEPT !.tab = "other", !.child = Unmounted]
    BY <1>2 DEF NetworkLeaveTab, NetworkShown
  <2>2. TabHidden'
    BY <2>1 DEF TabHidden
  <2> QED
    BY <1>0, <2>1, <2>2, LeftAreNotUnderWay
<1>3. CASE NetworkEnterTab("locations", LocationsFresh(~Quiet), "listLocations", Nobody)
  <2>1. /\ ui # Unmounted /\ ui.child = Unmounted /\ Await("listLocations", Nobody)
        /\ ui' = [ui EXCEPT !.tab = "here", !.child = LocationsFresh(~Quiet)]
    BY <1>3 DEF NetworkEnterTab, NetworkShown, TabHidden
  <2>2. ~WritesDisabled
    BY <1>0, <2>1 DEF WritesDisabled
  <2>3. CallsOK' /\ WriteArgs' /\ \A t \in Slots : UnderWay(t)' => UnderWay(t)
    BY <1>0, <2>1, NoWriteSent, AwaitTakesSlot DEF RecordWrites
  <2>4. TabHidden'
    BY <2>1 DEF TabHidden
  <2> QED
    BY <2>2, <2>3, <2>4, NothingSent
<1>4. ASSUME ui # Unmounted, ui.child # Unmounted, NEW child,
             ui' = [ui EXCEPT !.child = child]
      PROVE  TabHidden' /\ ui' # Unmounted /\ ui'.child = child
  <2>1. ui'.tab = ui.tab /\ ui'.child = child /\ "tab" \in DOMAIN ui'
    BY <1>4
  <2> QED
    BY <1>4, <2>1 DEF TabHidden, Unmounted
<1>5. CASE LocationsRetry
  <2>1. /\ ui # Unmounted /\ ui.child # Unmounted /\ Await("listLocations", Nobody)
        /\ ui' = [ui EXCEPT !.child = [ui.child EXCEPT !.loading = TRUE, !.fetchError = FALSE,
                                                       !.uncertain = ~Quiet]]
    BY <1>5 DEF LocationsRetry, LocationsRetryOffered, LocationsBare,
                LocationsShown, NetworkShown
  <2>2. /\ TabHidden' /\ ui' # Unmounted
        /\ ui'.child = [ui.child EXCEPT !.loading = TRUE, !.fetchError = FALSE, !.uncertain = ~Quiet]
    BY <1>4, <2>1
  <2>3. WritesDisabled => WritesDisabled'
    BY <1>0, <2>1, <2>2 DEF WritesDisabled, Unmounted
  <2>4. CallsOK' /\ WriteArgs' /\ \A t \in Slots : UnderWay(t)' => UnderWay(t)
    BY <1>0, <2>1, NoWriteSent, AwaitTakesSlot DEF RecordWrites
  <2> QED
    BY <2>2, <2>3, <2>4, NothingSent
<1>6. CASE \/ LocationsOpenCreate
           \/ \E i \in Items : LocationsOpenEdit(i) \/ LocationsOpenDelete(i)
           \/ \E d \in {"create", "edit", "delete"} : LocationsClose(d)
  <2>1. ui # Unmounted /\ ui.child # Unmounted /\ UNCHANGED <<screen, calls, db>>
    BY <1>6 DEF LocationsOpenCreate, LocationsOpenEdit, LocationsOpenDelete,
                LocationsClose, LocationsRow, LocationsBare, LocationsDialog,
                LocationsShown, NetworkShown
  <2>2. \/ \E d : ui' = [ui EXCEPT !.child = [ui.child EXCEPT !.dialogs = d]]
        \/ \E i, d : ui' = [ui EXCEPT !.child = [ui.child EXCEPT !.selected = i, !.form = i, !.dialogs = d]]
        \/ \E i, d : ui' = [ui EXCEPT !.child = [ui.child EXCEPT !.selected = i, !.dialogs = d]]
    <3>1. CASE LocationsOpenCreate
      <4>1. ui' = [ui EXCEPT !.child = [ui.child EXCEPT !.dialogs = {"create"}]]
        BY <2>1, <3>1 DEF LocationsOpenCreate
      <4> QED
        BY <4>1
    <3>2. ASSUME NEW i \in Items, LocationsOpenEdit(i)
          PROVE  ui' = [ui EXCEPT !.child = [ui.child EXCEPT !.selected = i, !.form = i,
                                                             !.dialogs = {"edit"}]]
      BY <2>1, <3>2 DEF LocationsOpenEdit
    <3>3. ASSUME NEW i \in Items, LocationsOpenDelete(i)
          PROVE  ui' = [ui EXCEPT !.child = [ui.child EXCEPT !.selected = i,
                                                             !.dialogs = {"delete"}]]
      BY <2>1, <3>3 DEF LocationsOpenDelete
    <3>4. ASSUME NEW d, LocationsClose(d)
          PROVE  ui' = [ui EXCEPT !.child = [ui.child EXCEPT !.dialogs = ui.child.dialogs \ {d}]]
      BY <2>1, <3>4 DEF LocationsClose
    <3> QED
      BY <1>6, <3>1, <3>2, <3>3, <3>4
  <2>3. PICK child : /\ ui' = [ui EXCEPT !.child = child]
                     /\ child.submitting = ui.child.submitting
                     /\ DOMAIN child = DOMAIN ui.child
    BY <2>1, <2>2
  <2>4. TabHidden' /\ ui' # Unmounted /\ ui'.child = child
    BY <1>4, <2>1, <2>3
  <2>5. WritesDisabled => WritesDisabled'
    BY <1>0, <2>1, <2>3, <2>4 DEF WritesDisabled, Unmounted
  <2> QED
    BY <2>1, <2>4, <2>5, ClickKeepsWrites
<1>7. CASE LocationsSubmitCreate \/ LocationsSubmitUpdate \/ LocationsSubmitDelete
  <2>1. /\ ui # Unmounted /\ ui.child # Unmounted /\ ~ui.child.submitting
        /\ \E o, id, of : o \in RecordWrites /\ LocationsSubmit(o, id, of)
    BY <1>7 DEF LocationsSubmitCreate, LocationsCreateEnabled, LocationsSubmitUpdate,
                LocationsUpdateEnabled, LocationsSubmitDelete, LocationsDeleteEnabled,
                LocationsDialog, LocationsShown, NetworkShown, RecordWrites
  <2>2. PICK o, id, of : o \in RecordWrites /\ LocationsSubmit(o, id, of)
    BY <2>1
  <2>3. PICK arg : arg = [id |-> id, of |-> of, alive |-> TRUE]
    OBVIOUS
  <2>4. /\ Await(o, arg) /\ "alive" \in DOMAIN arg
        /\ ui' = [ui EXCEPT !.child = [ui.child EXCEPT !.submitting = TRUE]]
    BY <2>2, <2>3 DEF LocationsSubmit
  <2>5. TabHidden' /\ ui' # Unmounted /\ ui'.child = [ui.child EXCEPT !.submitting = TRUE]
    BY <1>4, <2>1, <2>4
  <2>6. ~WritesDisabled /\ WritesDisabled'
    BY <1>0, <2>1, <2>5 DEF WritesDisabled, Unmounted
  <2>7. CallsOK' /\ WritesKnown'
    BY <1>0, <2>2, <2>4, <2>6, WriteSent, WritesAreNotIdle
  <2> QED
    BY <2>5, <2>7
<1> QED
  BY <1>1, <1>2, <1>3, <1>5, <1>6, <1>7 DEF LocationsStep

LEMMA LocationsHandleKeepsWrites ==
  ASSUME CallsOK, TabOK, TabHidden, WritesKnown, NEW s \in Slots, LocationsHandle(s)
  PROVE  CallsOK' /\ TabHidden' /\ WritesKnown'
<1> USE DEF TabOK, EditsOwn, DialogFields
<1>0. screen = "locations" /\ screen' = screen /\ ui # Unmounted
  BY DEF LocationsHandle, NetworkFetched, LocationsFetched, LocationsShown,
         NetworkShown, LocationsCreated, LocationsUpdated, LocationsDeleted,
         LocationsAnswered
<1>1. CASE NetworkFetched(s, "locations", LocationsFresh(Others(s)), "listLocations", Nobody)
  <2>1. CASE calls[s].outcome # "ok"
    <3>1. LeftBut(s, Idle) /\ ui' = [NetworkFresh(ui.tab) EXCEPT !.page = "error"]
      BY <1>1, <2>1 DEF NetworkFetched
    <3>2. TabHidden'
      BY <3>1 DEF TabHidden, NetworkFresh
    <3> QED
      BY <1>0, <3>1, <3>2, LeftAreNotUnderWay
  <2>2. CASE calls[s].outcome = "ok" /\ ui.page # "error" /\ ui.tab = "here" /\ ui.child = Unmounted
    <3>1. /\ ui' = [ui EXCEPT !.page = "shown", !.child = LocationsFresh(Others(s))]
          /\ AwaitNext(s, "listLocations", Nobody)
      BY <1>1, <2>2 DEF NetworkFetched
    <3>2. TabHidden' /\ ~WritesDisabled
      BY <1>0, <2>2, <3>1 DEF TabHidden, WritesDisabled
    <3>3. CallsOK' /\ WriteArgs' /\ \A t \in Slots : UnderWay(t)' => UnderWay(t)
      BY <1>0, <3>1, NoWriteSent DEF RecordWrites
    <3> QED
      BY <3>2, <3>3, NothingSent
  <2>3. CASE calls[s].outcome = "ok" /\ ~(ui.page # "error" /\ ui.tab = "here" /\ ui.child = Unmounted)
    <3>1. /\ ui' = [ui EXCEPT !.page = IF ui.page = "error" THEN ui.page ELSE "shown"]
          /\ Finish(s)
      BY <1>1, <2>3 DEF NetworkFetched
    <3>2. ui'.child = ui.child /\ ui'.tab = ui.tab /\ ui' # Unmounted
      <4>1. ui'.child = ui.child /\ ui'.tab = ui.tab /\ "child" \in DOMAIN ui'
        BY <1>0, <3>1
      <4> QED
        BY <4>1 DEF Unmounted
    <3>3. TabHidden' /\ (WritesDisabled => WritesDisabled')
      BY <1>0, <3>2 DEF TabHidden, WritesDisabled
    <3>4. "listLocations" \notin RecordWrites \cup {"idle"}
      BY DEF RecordWrites
    <3>5. CallsOK' /\ WriteArgs' /\ \A t \in Slots : UnderWay(t)' => UnderWay(t)
      BY <1>0, <3>1, <3>4, NoWriteSent
    <3> QED
      BY <3>3, <3>5, NothingSent
  <2> QED
    BY <2>1, <2>2, <2>3
<1>2. ASSUME ui.child # Unmounted, NEW child, ui' = [ui EXCEPT !.child = child]
      PROVE  TabHidden' /\ ui' # Unmounted /\ ui'.child = child
  <2>1. ui'.tab = ui.tab /\ ui'.child = child /\ "tab" \in DOMAIN ui'
    BY <1>0, <1>2
  <2> QED
    BY <1>0, <1>2, <2>1 DEF TabHidden, Unmounted
<1>3. "listLocations" \notin RecordWrites \cup {"idle"}
  BY DEF RecordWrites
<1>4. CASE LocationsFetched(s)
  <2>1. ui.child # Unmounted /\ Finish(s)
    BY <1>4 DEF LocationsFetched, LocationsShown
  <2>2. PICK child : /\ ui' = [ui EXCEPT !.child = child]
                     /\ child.submitting = ui.child.submitting
                     /\ DOMAIN child = DOMAIN ui.child
    <3>1. CASE calls[s].outcome = "ok"
      <4>1. ui' = [ui EXCEPT !.child = [ui.child EXCEPT !.rows = calls[s].data,
                                          !.fetchError = FALSE, !.loading = FALSE]]
        BY <1>0, <1>4, <3>1 DEF LocationsFetched
      <4>2. PICK k : k = [ui.child EXCEPT !.rows = calls[s].data,
                                          !.fetchError = FALSE, !.loading = FALSE]
        OBVIOUS
      <4>3. k.submitting = ui.child.submitting /\ DOMAIN k = DOMAIN ui.child
        BY <1>0, <2>1, <4>2
      <4> QED
        BY <4>1, <4>2, <4>3
    <3>2. CASE calls[s].outcome # "ok"
      <4>1. ui' = [ui EXCEPT !.child = [ui.child EXCEPT !.fetchError = TRUE, !.loading = FALSE]]
        BY <1>0, <1>4, <3>2 DEF LocationsFetched
      <4>2. PICK k : k = [ui.child EXCEPT !.fetchError = TRUE, !.loading = FALSE]
        OBVIOUS
      <4>3. k.submitting = ui.child.submitting /\ DOMAIN k = DOMAIN ui.child
        BY <1>0, <2>1, <4>2
      <4> QED
        BY <4>1, <4>2, <4>3
    <3> QED
      BY <3>1, <3>2
  <2>3. TabHidden' /\ ui' # Unmounted /\ ui'.child = child
    BY <1>2, <2>1, <2>2
  <2>4. WritesDisabled => WritesDisabled'
    BY <1>0, <2>1, <2>2, <2>3 DEF WritesDisabled, Unmounted
  <2>5. CallsOK' /\ WriteArgs' /\ \A t \in Slots : UnderWay(t)' => UnderWay(t)
    BY <1>0, <1>3, <2>1, NoWriteSent
  <2> QED
    BY <2>3, <2>4, <2>5, NothingSent
<1>5. ASSUME NEW o \in {"createLocation", "updateLocation", "deleteLocation"},
             LocationsAnswered(s, o), LocationsWritten(s)
      PROVE  CallsOK' /\ TabHidden' /\ WritesKnown'
  <2>1. calls[s].op \in RecordWrites /\ calls[s].mine
    BY <1>5 DEF LocationsAnswered, Answered, Mine, RecordWrites
  <2>2. CASE NetworkReload(s)
    <3>1. LeftBut(s, NewCall("getNetwork", Nobody)) /\ ui' = NetworkFresh(ui.tab)
      BY <2>2 DEF NetworkReload
    <3>2. TabHidden'
      BY <3>1 DEF TabHidden, NetworkFresh
    <3> QED
      BY <1>0, <3>1, <3>2, LeftAreNotUnderWay
  <2>3. CASE /\ calls[s].arg.alive /\ Finish(s)
             /\ ui' = [ui EXCEPT !.child.submitting = FALSE, !.child.uncertain = TRUE]
    <3>1. UnderWay(s)
      BY <2>1, <2>3 DEF UnderWay
    <3>2. ui.child # Unmounted
      BY <1>0, <3>1 DEF WritesKnown, NoneUnderWay, WritesDisabled
    <3>3. ui' = [ui EXCEPT !.child = [ui.child EXCEPT !.submitting = FALSE, !.uncertain = TRUE]]
      BY <1>0, <2>3
    <3>4. TabHidden'
      BY <1>2, <3>2, <3>3
    <3> QED
      BY <1>0, <1>3, <2>3, <3>1, <3>4, WriteEnds
  <2>4. CASE ~calls[s].arg.alive /\ ui' = ui /\ Finish(s)
    <3>1. TabHidden' /\ (WritesDisabled => WritesDisabled')
      BY <1>0, <2>4 DEF TabHidden, WritesDisabled
    <3>2. CallsOK' /\ WriteArgs' /\ \A t \in Slots : UnderWay(t)' => UnderWay(t)
      BY <1>0, <1>3, <2>4, NoWriteSent
    <3> QED
      BY <3>1, <3>2, NothingSent
  <2> QED
    BY <1>5, <2>2, <2>3, <2>4 DEF LocationsWritten
<1> QED
  BY <1>1, <1>4, <1>5 DEF LocationsHandle, LocationsCreated, LocationsUpdated, LocationsDeleted

LEMMA LocationsKeepWrites ==
  ASSUME screen = "locations", CallsOK, TabOK, TabHidden, WritesKnown, [FrontendNext]_allVars
  PROVE  CallsOK' /\ TabHidden' /\ WritesKnown'
<1>1. CASE UNCHANGED allVars
  <2>1. UNCHANGED <<screen, ui, calls>>
    BY <1>1 DEF allVars, vars
  <2> QED
    BY <2>1, ClickKeepsWrites DEF WritesDisabled, TabHidden
<1>2. CASE Unmount
  BY <1>2, UnmountEndsWrites DEF Unmount, TabHidden
<1>3. ASSUME NEW s \in Slots,
             \/ Perform(s, LocationsServer(s))
             \/ Refuse(s, Refusals(s))
             \/ LoseAnswer(s, LocationsServer(s))
      PROVE  CallsOK' /\ TabHidden' /\ WritesKnown'
  <2>1. ui' = ui
    BY <1>3 DEF Perform, Refuse, LoseAnswer
  <2> QED
    BY <1>3, <2>1, AnswerKeepsWrites DEF TabHidden
<1> QED
  BY <1>1, <1>2, <1>3, LocationsNextSteps, LocationsStepKeepsWrites, LocationsHandleKeepsWrites
-----------------------------------------------------------------------------
(***************************************************************************)
(* The settings.  The card is the part that writes.                        *)
(***************************************************************************)

CardOK ==
  ui # Unmounted =>
    /\ ui.error => ui.card = NoCard
    /\ ui.card # NoCard => {"values", "isSaving", "editing"} \subseteq DOMAIN ui.card

LEMMA SettingsStepKeepsWrites ==
  ASSUME CallsOK, SettingsUi, CardOK, WritesKnown, SettingsStep
  PROVE  CallsOK' /\ CardOK' /\ WritesKnown'
<1> USE DEF SettingsUi, SettingsFields
<1>0. screen = "settings" /\ screen' = screen
  BY DEF SettingsStep, SettingsMount, SettingsTryAgain, SettingsFailed,
         SettingsSave, ProxiesEdit, ProxiesCancelEdit, EditLimit, ProxiesChange,
         ProxiesSaveEdit, SaveEnabled, CardShown, SettingsShown
<1>1. CASE SettingsMount
  <2>1. ~WritesDisabled /\ CardOK' /\ Await("getOperationalSettings", Nobody)
    BY <1>1 DEF SettingsMount, SettingsFresh, WritesDisabled, CardOK
  <2>2. CallsOK' /\ WriteArgs' /\ \A t \in Slots : UnderWay(t)' => UnderWay(t)
    BY <1>0, <2>1, NoWriteSent, AwaitTakesSlot DEF RecordWrites
  <2> QED
    BY <2>1, <2>2, NothingSent
<1>2. CASE SettingsTryAgain
  <2>1. /\ ui # Unmounted /\ ui.error /\ Await("getOperationalSettings", Nobody)
        /\ ui' = [ui EXCEPT !.error = FALSE, !.card = SettingsCard(ui.settings),
                            !.uncertain = ~Quiet]
    BY <1>2 DEF SettingsTryAgain, SettingsFailed, SettingsShown
  <2>2. ~WritesDisabled
    BY <1>0, <2>1 DEF CardOK, WritesDisabled
  <2>3. ui'.error = FALSE /\ ui'.card = SettingsCard(ui.settings)
    BY <2>1
  <2>4. CardOK'
    BY <2>3 DEF CardOK, SettingsCard
  <2>5. CallsOK' /\ WriteArgs' /\ \A t \in Slots : UnderWay(t)' => UnderWay(t)
    BY <1>0, <2>1, NoWriteSent, AwaitTakesSlot DEF RecordWrites
  <2> QED
    BY <2>2, <2>4, <2>5, NothingSent
<1>3. ASSUME ui # Unmounted, ui.card # NoCard, NEW card,
             ui' = [ui EXCEPT !.card = card], DOMAIN card = DOMAIN ui.card
      PROVE  CardOK' /\ ui' # Unmounted /\ ui'.card = card /\ card # NoCard
  <2>1. ui'.error = ui.error /\ ui'.card = card /\ "card" \in DOMAIN ui'
    BY <1>3
  <2>2. {"values", "isSaving", "editing"} \subseteq DOMAIN card
    BY <1>3 DEF CardOK
  <2> QED
    BY <1>3, <2>1, <2>2 DEF CardOK, NoCard, Unmounted
<1>4. CASE \/ ProxiesEdit \/ ProxiesCancelEdit
           \/ \E v \in 0..Rejected : EditLimit(v) \/ ProxiesChange(v) \/ ProxiesSaveEdit(v)
  <2>1. ui # Unmounted /\ ui.card # NoCard /\ UNCHANGED <<screen, calls, db>>
    BY <1>4 DEF ProxiesEdit, ProxiesCancelEdit, EditLimit, ProxiesChange,
                ProxiesSaveEdit, SaveEnabled, CardShown, SettingsShown
  <2>2. {"values", "isSaving", "editing"} \subseteq DOMAIN ui.card
    BY <2>1 DEF CardOK
  <2>3. \E values, editing :
          ui' = [ui EXCEPT !.card = [ui.card EXCEPT !.values = values, !.editing = editing]]
    <3>1. CASE ProxiesEdit
      <4>1. ui' = [ui EXCEPT !.card = [ui.card EXCEPT !.values = ui.card.values, !.editing = TRUE]]
        BY <2>2, <3>1 DEF ProxiesEdit
      <4> QED
        BY <4>1
    <3>2. CASE ProxiesCancelEdit
      <4>1. ui' = [ui EXCEPT !.card = [ui.card EXCEPT !.values = ui.card.values, !.editing = FALSE]]
        BY <2>2, <3>2 DEF ProxiesCancelEdit
      <4> QED
        BY <4>1
    <3>3. ASSUME NEW v, EditLimit(v)
          PROVE  ui' = [ui EXCEPT !.card = [ui.card EXCEPT !.values = [ui.card.values EXCEPT !["limits"] = v],
                                                          !.editing = ui.card.editing]]
      BY <2>2, <3>3 DEF EditLimit
    <3>4. ASSUME NEW v, ProxiesChange(v)
          PROVE  ui' = [ui EXCEPT !.card = [ui.card EXCEPT !.values = [ui.card.values EXCEPT !["proxies"] = v],
                                                          !.editing = ui.card.editing]]
      BY <2>2, <3>4 DEF ProxiesChange
    <3>5. ASSUME NEW v, ProxiesSaveEdit(v)
          PROVE  ui' = [ui EXCEPT !.card = [ui.card EXCEPT !.values = [ui.card.values EXCEPT !["proxies"] = v],
                                                          !.editing = FALSE]]
      BY <2>2, <3>5 DEF ProxiesSaveEdit
    <3> QED
      BY <1>4, <3>1, <3>2, <3>3, <3>4, <3>5
  <2>4. PICK values, editing :
          ui' = [ui EXCEPT !.card = [ui.card EXCEPT !.values = values, !.editing = editing]]
    BY <2>3
  <2>5. PICK card : card = [ui.card EXCEPT !.values = values, !.editing = editing]
    OBVIOUS
  <2>6. card.isSaving = ui.card.isSaving /\ DOMAIN card = DOMAIN ui.card
    BY <2>2, <2>5
  <2>7. CardOK' /\ ui' # Unmounted /\ ui'.card = card /\ card # NoCard
    BY <1>3, <2>1, <2>4, <2>5, <2>6
  <2>8. WritesDisabled => WritesDisabled'
    BY <1>0, <2>1, <2>6, <2>7 DEF WritesDisabled
  <2> QED
    BY <2>1, <2>7, <2>8, ClickKeepsWrites
<1>5. CASE SettingsSave
  <2>1. /\ ui # Unmounted /\ ui.card # NoCard /\ ~ui.card.isSaving
        /\ ui' = [ui EXCEPT !.card = [ui.card EXCEPT !.isSaving = TRUE]]
        /\ Await("updateOperationalSettings", [fields |-> SavePayload, alive |-> TRUE])
    BY <1>5 DEF SettingsSave, SaveEnabled, CardShown, SettingsShown
  <2>2. PICK card : card = [ui.card EXCEPT !.isSaving = TRUE]
    OBVIOUS
  <2>3. card.isSaving /\ DOMAIN card = DOMAIN ui.card
    BY <2>1, <2>2 DEF CardOK
  <2>4. CardOK' /\ ui' # Unmounted /\ ui'.card = card /\ card # NoCard
    BY <1>3, <2>1, <2>2, <2>3
  <2>5. ~WritesDisabled /\ WritesDisabled'
    BY <1>0, <2>1, <2>3, <2>4 DEF WritesDisabled
  <2>6. PICK arg : arg = [fields |-> SavePayload, alive |-> TRUE]
    OBVIOUS
  <2>7. "alive" \in DOMAIN arg
    BY <2>6
  <2>8. CallsOK' /\ WritesKnown'
    BY <1>0, <2>1, <2>5, <2>6, <2>7, WriteSent
  <2> QED
    BY <2>4, <2>8
<1> QED
  BY <1>1, <1>2, <1>4, <1>5 DEF SettingsStep

\* The card that gives way to an error leaves its write to nobody.
LEMMA CardLeftEndsWrites ==
  ASSUME CallsOK, WritesKnown, screen = "settings", screen' = screen,
         NEW s \in Slots,
         calls' = [t \in Slots |-> IF t = s THEN Idle ELSE CardLeft(calls[t])]
  PROVE  WritesKnown'
<1>1. ASSUME NEW t \in Slots, t # s, calls'[t].op \in RecordWrites
      PROVE  /\ calls'[t].op = "updateOperationalSettings"
             /\ "alive" \in DOMAIN calls'[t].arg /\ calls'[t].arg.alive = FALSE
  <2>1. CASE calls[t].op = "updateOperationalSettings"
    <3>1. calls'[t] = [calls[t] EXCEPT !.arg.alive = FALSE]
      BY <1>1, <2>1 DEF CardLeft
    <3>2. CallFields \subseteq DOMAIN calls[t]
      BY <2>1 DEF CallsOK, Busy
    <3>3. calls'[t].op = calls[t].op /\ calls'[t].arg = [calls[t].arg EXCEPT !.alive = FALSE]
      BY <3>1, <3>2 DEF CallFields
    <3>4. "alive" \in DOMAIN calls[t].arg
      BY <2>1 DEF WritesKnown, WriteArgs, WithParts, RecordWrites
    <3> QED
      BY <2>1, <3>3, <3>4
  <2>2. CASE calls[t].op # "updateOperationalSettings"
    BY <1>1, <2>2 DEF CardLeft, WritesKnown, WriteArgs, WithParts
  <2> QED
    BY <2>1, <2>2
<1>2. calls'[s].op \notin RecordWrites
  BY WritesAreNotIdle DEF Idle
<1>3. NoneUnderWay' /\ WriteArgs'
  BY <1>1, <1>2 DEF NoneUnderWay, UnderWay, WriteArgs, WithParts
<1> QED
  BY <1>3, NoneIsKnown
LEMMA SettingsHandleKeepsWrites ==
  ASSUME CallsOK, SettingsUi, CardOK, WritesKnown, NEW s \in Slots, SettingsHandle(s)
  PROVE  CardOK' /\ WritesKnown'
<1> USE DEF SettingsUi, SettingsFields
<1>0. screen = "settings" /\ screen' = screen /\ ui # Unmounted
  BY DEF SettingsHandle, SettingsFetched, SettingsSaved, SettingsNotSaved, SettingsShown
<1>1. "getOperationalSettings" \notin RecordWrites \cup {"idle"}
  BY DEF RecordWrites
<1>2. CASE SettingsFetched(s) /\ calls[s].outcome = "ok"
  <2>1. /\ Finish(s)
        /\ ui' = [ui EXCEPT !.settings = calls[s].data,
                            !.card = IF ui.card = NoCard /\ ~ui.error
                                     THEN SettingsCard(calls[s].data) ELSE ui.card]
    BY <1>0, <1>2 DEF SettingsFetched
  <2>2. /\ ui'.error = ui.error /\ "card" \in DOMAIN ui'
        /\ ui'.card = IF ui.card = NoCard /\ ~ui.error
                      THEN SettingsCard(calls[s].data) ELSE ui.card
    BY <1>0, <2>1
  <2>3. CardOK' /\ (WritesDisabled => WritesDisabled')
    BY <1>0, <2>2 DEF CardOK, SettingsCard, WritesDisabled, Unmounted
  <2>4. CallsOK' /\ WriteArgs' /\ \A t \in Slots : UnderWay(t)' => UnderWay(t)
    BY <1>0, <1>1, <2>1, NoWriteSent
  <2> QED
    BY <2>3, <2>4, NothingSent
<1>3. CASE SettingsFetched(s) /\ calls[s].outcome # "ok"
  <2>1. /\ ui' = [ui EXCEPT !.error = TRUE, !.card = NoCard, !.uncertain = TRUE]
        /\ calls' = [t \in Slots |-> IF t = s THEN Idle ELSE CardLeft(calls[t])]
    BY <1>3 DEF SettingsFetched
  <2>2. CardOK'
    BY <1>0, <2>1 DEF CardOK
  <2> QED
    BY <1>0, <2>1, <2>2, CardLeftEndsWrites
<1>4. CASE SettingsSaved(s) \/ SettingsNotSaved(s)
  <2>1. /\ calls[s].op \in RecordWrites /\ calls[s].mine
        /\ AwaitNext(s, "getOperationalSettings", Nobody) \/ Finish(s)
    BY <1>4 DEF SettingsSaved, SettingsNotSaved, Answered, Mine, RecordWrites
  <2>2. CASE calls[s].arg.alive
    <3>1. UnderWay(s)
      BY <2>1, <2>2 DEF UnderWay
    <3>2. ui.card # NoCard
      BY <1>0, <3>1 DEF WritesKnown, NoneUnderWay, WritesDisabled
    <3>3. {"values", "isSaving", "editing"} \subseteq DOMAIN ui.card /\ ~ui.error
      BY <1>0, <3>2 DEF CardOK
    <3>4. /\ ui'.error = ui.error
          /\ {"values", "isSaving", "editing"} \subseteq DOMAIN ui'.card
      <4>1. CASE SettingsSaved(s)
        <5>1. ui' = [ui EXCEPT !.card = [ui.card EXCEPT
                        !.values = [ui.card.values EXCEPT !["limits"] = calls[s].data["limits"]],
                        !.isSaving = FALSE], !.uncertain = Others(s)]
          BY <1>0, <2>2, <3>3, <4>1 DEF SettingsSaved
        <5> QED
          BY <1>0, <3>3, <5>1
      <4>2. CASE SettingsNotSaved(s)
        <5>1. ui' = [ui EXCEPT !.card = [ui.card EXCEPT !.isSaving = FALSE], !.uncertain = TRUE]
          BY <1>0, <2>2, <4>2 DEF SettingsNotSaved
        <5> QED
          BY <1>0, <3>3, <5>1
      <4> QED
        BY <1>4, <4>1, <4>2
    <3>5. CardOK'
      BY <3>3, <3>4 DEF CardOK
    <3> QED
      BY <1>0, <1>1, <2>1, <3>1, <3>5, WriteEnds
  <2>3. CASE ~calls[s].arg.alive
    <3>1. \E u : ui' = [ui EXCEPT !.uncertain = u]
      BY <1>4, <2>3 DEF SettingsSaved, SettingsNotSaved
    <3>2. ui'.error = ui.error /\ ui'.card = ui.card /\ "card" \in DOMAIN ui'
      BY <1>0, <3>1
    <3>3. CardOK' /\ (WritesDisabled => WritesDisabled')
      BY <1>0, <3>2 DEF CardOK, WritesDisabled, Unmounted
    <3>4. CallsOK' /\ WriteArgs' /\ \A t \in Slots : UnderWay(t)' => UnderWay(t)
      BY <1>0, <1>1, <2>1, NoWriteSent
    <3> QED
      BY <3>3, <3>4, NothingSent
  <2> QED
    BY <2>2, <2>3
<1> QED
  BY <1>2, <1>3, <1>4 DEF SettingsHandle

LEMMA SettingsKeepWrites ==
  ASSUME screen = "settings", CallsOK, SettingsUi, CardOK, WritesKnown, [FrontendNext]_allVars
  PROVE  CardOK' /\ WritesKnown'
<1>1. CASE UNCHANGED allVars
  <2>1. UNCHANGED <<screen, ui, calls>>
    BY <1>1 DEF allVars, vars
  <2> QED
    BY <2>1, ClickKeepsWrites DEF WritesDisabled, CardOK
<1>2. CASE Unmount
  BY <1>2, UnmountEndsWrites DEF Unmount, CardOK
<1>3. ASSUME NEW s \in Slots,
             \/ Perform(s, SettingsServer(s))
             \/ Refuse(s, Refusals(s))
             \/ LoseAnswer(s, SettingsServer(s))
      PROVE  CardOK' /\ WritesKnown'
  <2>1. ui' = ui
    BY <1>3 DEF Perform, Refuse, LoseAnswer
  <2> QED
    BY <1>3, <2>1, AnswerKeepsWrites DEF CardOK
<1> QED
  BY <1>1, <1>2, <1>3, SettingsNextSteps, SettingsStepKeepsWrites, SettingsHandleKeepsWrites
-----------------------------------------------------------------------------
(***************************************************************************)
(* The device form.                                                        *)
(***************************************************************************)

LEMMA FormStepKeepsWrites ==
  ASSUME CallsOK, FormUiOK, WritesKnown, FormStep
  PROVE  WritesKnown'
<1> USE DEF FormUiOK, FormFields, FormOpen
<1>0. screen = "deviceForm" /\ screen' = screen
  BY DEF FormStep, FormMount, FormOpenCreate, FormClose, FormOpenEdit,
         FormGenerate, FormGenerateEnabled, FormGeneratePsk, FormPskEnabled,
         FormLoad, FormLoadEnabled, FormSubmit, FormSubmitEnabled
<1>1. CASE FormMount
  BY <1>1, ClickKeepsWrites DEF FormMount, WritesDisabled
<1>2. CASE FormOpenCreate \/ FormClose \/ \E i \in Items : FormOpenEdit(i)
  <2>1. /\ ui # Unmounted /\ UNCHANGED <<screen, calls>>
        /\ DOMAIN ui' = DOMAIN ui /\ ui'.submitting = ui.submitting
    BY <1>2 DEF FormOpenCreate, FormClose, FormOpenEdit, FormReset
  <2>2. WritesDisabled => WritesDisabled'
    BY <1>0, <2>1 DEF WritesDisabled, Unmounted
  <2> QED
    BY <2>1, <2>2, ClickKeepsWrites
<1>3. CASE FormGenerate \/ FormGeneratePsk \/ FormLoad
  <2>1. /\ ui # Unmounted /\ DOMAIN ui' = DOMAIN ui /\ ui'.submitting = ui.submitting
        /\ \E o, arg : o \notin RecordWrites \cup {"idle"} /\ Await(o, arg)
    BY <1>3 DEF FormGenerate, FormGenerateEnabled, FormGeneratePsk, FormPskEnabled,
                FormLoad, FormLoadEnabled, RecordWrites
  <2>2. WritesDisabled => WritesDisabled'
    BY <1>0, <2>1 DEF WritesDisabled, Unmounted
  <2>3. \E s \in Slots : s \in Slots
    BY <2>1, AwaitTakesSlot
  <2>4. WriteArgs' /\ \A t \in Slots : UnderWay(t)' => UnderWay(t)
    BY <1>0, <2>1, <2>3, NoWriteSent
  <2> QED
    BY <2>2, <2>4, NothingSent
<1>4. CASE FormSubmit
  <2>1. /\ ui # Unmounted /\ ~ui.submitting /\ ui' = [ui EXCEPT !.submitting = TRUE]
        /\ \E o, arg : o \in RecordWrites /\ Await(o, arg)
    <3>1. \E o, arg : o \in RecordWrites /\ Await(o, arg)
      <4>1. CASE ui.mode = "create"
        BY <1>4, <4>1 DEF FormSubmit, RecordWrites
      <4>2. CASE ui.mode # "create"
        BY <1>4, <4>2 DEF FormSubmit, RecordWrites
      <4> QED
        BY <4>1, <4>2
    <3> QED
      BY <1>4, <3>1 DEF FormSubmit, FormSubmitEnabled
  <2>2. ~WritesDisabled /\ WritesDisabled'
    BY <1>0, <2>1 DEF WritesDisabled, Unmounted
  <2> QED
    BY <1>0, <2>1, <2>2, WriteSent, WritesAreNotIdle DEF WithParts
<1> QED
  BY <1>1, <1>2, <1>3, <1>4 DEF FormStep

LEMMA FormHandleKeepsWrites ==
  ASSUME screen = "deviceForm", CallsOK, FormUiOK, FormMine, WritesKnown,
         NEW s \in Slots, FormHandle(s)
  PROVE  WritesKnown'
<1> USE DEF FormUiOK, FormFields
<1>0. screen' = screen /\ ui # Unmounted
  BY DEF FormMine, FormHandle, FormGenerated, FormPskGenerated, FormLoaded, FormSubmitted, Mine
<1>1. CASE FormGenerated(s) \/ FormPskGenerated(s) \/ FormLoaded(s)
  <2>1. DOMAIN ui' = DOMAIN ui /\ ui'.submitting = ui.submitting
    <3>1. CASE FormGenerated(s)
      BY <1>0, <3>1 DEF FormGenerated
    <3>2. CASE FormPskGenerated(s)
      BY <1>0, <3>2 DEF FormPskGenerated
    <3>3. CASE FormLoaded(s)
      BY <1>0, <3>3 DEF FormLoaded
    <3> QED
      BY <1>1, <3>1, <3>2, <3>3
  <2>2. AwaitNext(s, "generateWireGuardKeys", "crypto") \/ Finish(s)
    BY <1>1 DEF FormGenerated, FormPskGenerated, FormLoaded
  <2>3. WritesDisabled => WritesDisabled'
    BY <1>0, <2>1 DEF WritesDisabled, Unmounted
  <2>4. "generateWireGuardKeys" \notin RecordWrites \cup {"idle"}
    BY DEF RecordWrites
  <2>5. WriteArgs' /\ \A t \in Slots : UnderWay(t)' => UnderWay(t)
    BY <1>0, <2>2, <2>4, NoWriteSent
  <2> QED
    BY <2>3, <2>5, NothingSent
<1>2. CASE FormSubmitted(s)
  <2>1. UnderWay(s)
    BY <1>2 DEF FormSubmitted, Mine, Answered, UnderWay, RecordWrites, WithParts
  <2>2. CASE Finish(s)
    <3>1. "listDevices" \notin RecordWrites \cup {"idle"}
      BY DEF RecordWrites
    <3> QED
      BY <1>0, <2>1, <2>2, <3>1, WriteEnds
  <2>3. CASE calls' = [t \in Slots |-> IF t = s THEN Idle ELSE Orphaned(calls[t])]
    BY <1>0, <2>3, OrphansAreNotUnderWay
  <2> QED
    BY <1>2, <2>2, <2>3 DEF FormSubmitted
<1> QED
  BY <1>1, <1>2 DEF FormHandle

LEMMA FormKeepsWrites ==
  ASSUME screen = "deviceForm", FormInv, WritesKnown, [FrontendNext]_allVars
  PROVE  WritesKnown'
<1>1. CallsOK /\ FormUiOK /\ FormMine
  BY DEF FormInv
<1>2. CASE UNCHANGED allVars
  <2>1. UNCHANGED <<screen, ui, calls>>
    BY <1>2 DEF allVars, vars
  <2> QED
    BY <1>1, <2>1, ClickKeepsWrites DEF WritesDisabled
<1> QED
  BY <1>1, <1>2, FormNextSteps, FormStepKeepsWrites, FormHandleKeepsWrites,
     AnswerKeepsWrites, UnmountEndsWrites
-----------------------------------------------------------------------------
(***************************************************************************)
(* The edit pages of a network and of a device.                            *)
(***************************************************************************)

EditPages == {"networkEdit", "deviceEdit"}

EditTypes ==
  /\ CallsOK
  /\ ui # Unmounted => {"page", "submitting"} \subseteq DOMAIN ui
  /\ \A s \in Slots : calls[s].op \notin ExportOps

LEMMA EditNextSteps ==
  ASSUME FrontendNext, screen \in EditPages
  PROVE  \/ SmallStep \/ Unmount
         \/ \E s \in Slots : \/ SmallHandle(s)
                             \/ Perform(s, SmallServer(s))
                             \/ Refuse(s, Refusals(s))
                             \/ LoseAnswer(s, SmallServer(s))
<1>1. \A s \in Slots : Replied(s) = SmallServer(s)
  BY DEF Replied, SmallScreens, EditPages
<1> QED
  BY <1>1 DEF FrontendNext, PageNext, PageStep, PageHandle, Leave,
             BackendAnswers, AnswerLost, SmallScreens, EditPages

\* The calls of an edit page are not exports.
LEMMA EditCallsKept ==
  ASSUME EditTypes, NEW op_, op_ \notin ExportOps \cup {"idle"}, NEW arg, NEW s \in Slots,
         Await(op_, arg) \/ Finish(s),
         ui' # Unmounted => {"page", "submitting"} \subseteq DOMAIN ui'
  PROVE  EditTypes'
<1>1. CASE Await(op_, arg)
  <2>1. /\ CallsOK'
        /\ \E r \in Slots : /\ calls'[r] = NewCall(op_, arg)
                            /\ \A t \in Slots \ {r} : calls'[t] = calls[t]
    BY <1>1, AwaitTakesSlot DEF EditTypes
  <2> QED
    BY <2>1 DEF EditTypes, NewCall
<1>2. CASE Finish(s)
  <2>1. CallsOK' /\ calls'[s].op = "idle" /\ \A t \in Slots \ {s} : calls'[t] = calls[t]
    BY <1>2, FinishFrees DEF EditTypes, Idle
  <2> QED
    BY <2>1 DEF EditTypes, ExportOps
<1> QED
  BY <1>1, <1>2

LEMMA EditStepKeepsWrites ==
  ASSUME screen \in EditPages, EditTypes, WritesKnown, SmallStep
  PROVE  EditTypes' /\ WritesKnown'
<1> USE DEF EditPages, On
<1>0. \/ NetworkEditMount \/ NetworkEditPsk \/ NetworkEditGenerate \/ NetworkEditSubmit
      \/ DeviceEditMount \/ DeviceEditSubmit
  BY DEF SmallStep, DashboardMount, MountOn, DashboardUnlocked, DashboardCloseUnlock,
         DashboardReload, DashboardShown, DashboardError, ExportMount, NetworkExportMount,
         ExportConfigs, NetworkExportEnabled, ExportNetworks, ExportEnabled
<1>1. screen' = screen /\ CallsOK
  BY <1>0 DEF NetworkEditMount, MountOn, NetworkEditPsk, NetworkEditGenerate,
              NetworkEditSubmit, DeviceEditMount, DeviceEditSubmit, EditTypes
<1>2. CASE NetworkEditMount \/ DeviceEditMount
  <2>1. /\ ~WritesDisabled /\ ui' = SmallPage("loading")
        /\ \E o : o \in {"getNetwork", "getDevice"} /\ Await(o, Nobody)
    BY <1>2 DEF NetworkEditMount, DeviceEditMount, MountOn, WritesDisabled
  <2>2. PICK o : o \in {"getNetwork", "getDevice"} /\ Await(o, Nobody)
    BY <2>1
  <2>3. PICK s \in Slots : TRUE
    BY <1>1, <2>2, AwaitTakesSlot
  <2>4. o \notin RecordWrites \cup ExportOps \cup {"idle"}
    BY <2>2 DEF RecordWrites, ExportOps
  <2>5. WriteArgs' /\ \A t \in Slots : UnderWay(t)' => UnderWay(t)
    BY <1>1, <2>2, <2>3, <2>4, NoWriteSent
  <2>6. {"page", "submitting"} \subseteq DOMAIN ui'
    BY <2>1 DEF SmallPage
  <2>7. EditTypes'
    BY <2>2, <2>3, <2>4, <2>6, EditCallsKept
  <2> QED
    BY <2>1, <2>5, <2>7, NothingSent
<1>3. CASE NetworkEditPsk
  <2>1. /\ ui # Unmounted /\ UNCHANGED <<screen, calls>>
        /\ ui' = [ui EXCEPT !.psk = ~ui.psk]
    BY <1>3 DEF NetworkEditPsk, NetworkEditEnabled, NetworkEditShown
  <2>2. /\ {"page", "submitting"} \subseteq DOMAIN ui'
        /\ ui'.submitting = ui.submitting
    BY <2>1 DEF EditTypes
  <2>3. WritesDisabled => WritesDisabled'
    BY <1>1, <2>2 DEF WritesDisabled, Unmounted
  <2>4. EditTypes'
    BY <2>1, <2>2 DEF EditTypes, CallsOK, Busy
  <2> QED
    BY <1>1, <2>1, <2>3, <2>4, ClickKeepsWrites
<1>4. CASE NetworkEditGenerate
  <2>1. /\ ui # Unmounted /\ ui' = [ui EXCEPT !.generating = TRUE]
        /\ Await("generateWireGuardPresharedKey", Nobody)
    BY <1>4 DEF NetworkEditGenerate, NetworkEditPskEnabled, NetworkEditEnabled, NetworkEditShown
  <2>2. /\ {"page", "submitting"} \subseteq DOMAIN ui'
        /\ ui'.submitting = ui.submitting
    BY <2>1 DEF EditTypes
  <2>3. WritesDisabled => WritesDisabled'
    BY <1>1, <2>2 DEF WritesDisabled, Unmounted
  <2>4. PICK s \in Slots : TRUE
    BY <1>1, <2>1, AwaitTakesSlot
  <2>5. "generateWireGuardPresharedKey" \notin RecordWrites \cup ExportOps \cup {"idle"}
    BY DEF RecordWrites, ExportOps
  <2>6. WriteArgs' /\ \A t \in Slots : UnderWay(t)' => UnderWay(t)
    BY <1>1, <2>1, <2>4, <2>5, NoWriteSent
  <2>7. EditTypes'
    BY <2>1, <2>2, <2>4, <2>5, EditCallsKept
  <2> QED
    BY <2>3, <2>6, <2>7, NothingSent
<1>5. CASE NetworkEditSubmit \/ DeviceEditSubmit
  <2>1. /\ ui # Unmounted /\ ~ui.submitting /\ ui' = [ui EXCEPT !.submitting = TRUE]
        /\ \E o, arg : o \in {"updateNetwork", "updateDevice"} /\ Await(o, arg)
    BY <1>5 DEF NetworkEditSubmit, NetworkEditEnabled, NetworkEditShown,
                DeviceEditSubmit, DeviceEditEnabled
  <2>2. PICK o, arg : o \in {"updateNetwork", "updateDevice"} /\ Await(o, arg)
    BY <2>1
  <2>3. /\ {"page", "submitting"} \subseteq DOMAIN ui'
        /\ ui'.submitting
    BY <2>1 DEF EditTypes
  <2>4. ~WritesDisabled /\ WritesDisabled'
    BY <1>1, <2>1, <2>3 DEF WritesDisabled, Unmounted
  <2>5. PICK s \in Slots : TRUE
    BY <1>1, <2>2, AwaitTakesSlot, WritesAreNotIdle
  <2>6. o \notin ExportOps \cup {"idle"}
    BY <2>2 DEF ExportOps
  <2>7. EditTypes'
    BY <2>2, <2>3, <2>5, <2>6, EditCallsKept
  <2>8. WritesKnown'
    BY <1>1, <2>2, <2>4, <2>6, WriteSent DEF WithParts
  <2> QED
    BY <2>7, <2>8
<1> QED
  BY <1>0, <1>2, <1>3, <1>4, <1>5

LEMMA EditHandleKeepsWrites ==
  ASSUME screen \in EditPages, EditTypes, WritesKnown, NEW s \in Slots, SmallHandle(s)
  PROVE  EditTypes' /\ WritesKnown'
<1> USE DEF EditPages, On
<1>0. \/ NetworkEditFetched(s) \/ NetworkEditGenerated(s) \/ NetworkEditSubmitted(s)
      \/ DeviceEditFetched(s) \/ DeviceEditSubmitted(s)
  BY DEF SmallHandle, DashboardStatistics, DashboardFetched, NetworkExportFetched,
         FetchedOn, Exported, Answered, EditTypes
<1>1. screen' = screen /\ CallsOK /\ ui # Unmounted
  BY <1>0 DEF NetworkEditFetched, FetchedOn, NetworkEditGenerated, NetworkEditSubmitted,
              DeviceEditFetched, DeviceEditSubmitted, EditTypes
<1>2. "getNetwork" \notin RecordWrites \cup ExportOps \cup {"idle"}
  BY DEF RecordWrites, ExportOps
<1>3. CASE NetworkEditFetched(s) \/ NetworkEditGenerated(s) \/ DeviceEditFetched(s)
  <2>1. /\ Finish(s)
        /\ {"page", "submitting"} \subseteq DOMAIN ui' /\ ui'.submitting = ui.submitting
    BY <1>1, <1>3 DEF NetworkEditFetched, DeviceEditFetched, FetchedOn,
                      NetworkEditGenerated, EditTypes
  <2>2. WritesDisabled => WritesDisabled'
    BY <1>1, <2>1 DEF WritesDisabled, Unmounted
  <2>3. WriteArgs' /\ \A t \in Slots : UnderWay(t)' => UnderWay(t)
    BY <1>1, <1>2, <2>1, NoWriteSent
  <2>4. EditTypes'
    BY <1>2, <2>1, EditCallsKept
  <2> QED
    BY <2>2, <2>3, <2>4, NothingSent
<1>4. CASE NetworkEditSubmitted(s) \/ DeviceEditSubmitted(s)
  <2>1. UnderWay(s)
    BY <1>4 DEF NetworkEditSubmitted, DeviceEditSubmitted, Mine, Answered, UnderWay,
                RecordWrites, WithParts
  <2>2. ui' # Unmounted => {"page", "submitting"} \subseteq DOMAIN ui'
    BY <1>1, <1>4 DEF NetworkEditSubmitted, DeviceEditSubmitted, EditTypes
  <2>3. CASE Finish(s)
    BY <1>1, <1>2, <2>1, <2>2, <2>3, WriteEnds, EditCallsKept
  <2>4. CASE calls' = [t \in Slots |-> IF t = s THEN Idle ELSE Orphaned(calls[t])]
    <3>1. CallsOK' /\ WritesKnown'
      BY <1>1, <2>4, OrphansAreNotUnderWay
    <3>2. \A t \in Slots : calls'[t] = Idle \/ calls'[t].op = calls[t].op
      BY <2>4 DEF Orphaned
    <3>3. EditTypes'
      BY <2>2, <3>1, <3>2 DEF EditTypes, Idle, ExportOps
    <3> QED
      BY <3>1, <3>3
  <2> QED
    BY <1>4, <2>3, <2>4 DEF NetworkEditSubmitted, DeviceEditSubmitted
<1> QED
  BY <1>0, <1>3, <1>4

LEMMA EditKeepWrites ==
  ASSUME screen \in EditPages, EditTypes, WritesKnown, [FrontendNext]_allVars
  PROVE  EditTypes' /\ WritesKnown'
<1>0. CallsOK
  BY DEF EditTypes
<1>1. CASE UNCHANGED allVars
  <2>1. UNCHANGED <<screen, ui, calls>>
    BY <1>1 DEF allVars, vars
  <2> QED
    BY <1>0, <2>1, ClickKeepsWrites DEF WritesDisabled, EditTypes
<1>2. CASE Unmount
  <2>1. /\ CallsOK' /\ ui' = Unmounted
        /\ \A t \in Slots : calls'[t] = Idle \/ calls'[t].op = calls[t].op
    BY <1>0, <1>2, UnmountKeepsCalls
  <2>2. EditTypes'
    BY <2>1 DEF EditTypes, Idle, ExportOps
  <2> QED
    BY <1>0, <1>2, <2>2, UnmountEndsWrites
<1>3. ASSUME NEW s \in Slots,
             \/ Perform(s, SmallServer(s))
             \/ Refuse(s, Refusals(s))
             \/ LoseAnswer(s, SmallServer(s))
      PROVE  EditTypes' /\ WritesKnown'
  <2>1. /\ CallsOK' /\ ui' = ui
        /\ \A t \in Slots \ {s} : calls'[t] = calls[t]
        /\ (calls'[s] = Idle /\ ~calls[s].mine) \/ SameCall(calls[s], calls'[s])
    BY <1>0, <1>3, AnswerKeepsCalls
  <2>2. EditTypes'
    BY <2>1 DEF EditTypes, SameCall, Idle, ExportOps
  <2>3. WritesKnown'
    BY <1>0, <1>3, AnswerKeepsWrites
  <2> QED
    BY <2>2, <2>3
<1> QED
  BY <1>1, <1>2, <1>3, EditNextSteps, EditStepKeepsWrites, EditHandleKeepsWrites

-----------------------------------------------------------------------------
\* The invariant of all the pages whose writes share a flag.
WritesInv ==
  /\ screen \in WritePages => WritesKnown
  /\ screen = "locations" => TabHidden
  /\ screen = "settings" => CardOK
  /\ screen \in EditPages => EditTypes

LEMMA WritesAlways == FrontendSpec => []WritesInv
<1>1. FrontendInit => WritesInv
  <2> SUFFICES ASSUME FrontendInit  PROVE WritesInv
    OBVIOUS
  <2>1. CallsOK /\ ui = Unmounted /\ \A s \in Slots : calls[s].op = "idle"
    BY DEF FrontendInit, CallsOK, CallFields, Busy, Idle
  <2>2. WritesKnown
    BY <2>1, WritesAreNotIdle
       DEF WritesKnown, OneUnderWay, NoneUnderWay, UnderWay, WriteArgs
  <2> QED
    BY <2>1, <2>2 DEF WritesInv, TabHidden, CardOK, EditTypes, ExportOps
<1>2. OwnInv /\ RowsInv /\ FormInv /\ WritesInv /\ [FrontendNext]_allVars => WritesInv'
  <2> SUFFICES ASSUME OwnInv, RowsInv, FormInv, WritesInv, [FrontendNext]_allVars
               PROVE  WritesInv'
    OBVIOUS
  <2>1. screen' = screen
    BY ScreenStays
  <2>2. CASE screen = "networks"
    BY <2>1, <2>2, NetworksKeepWrites
       DEF WritesInv, WritePages, WithParts, EditPages, OwnInv, UpdatesOwn
  <2>3. CASE screen = "locations"
    BY <2>1, <2>3, LocationsKeepWrites
       DEF WritesInv, WritePages, WithParts, EditPages, OwnInv, UpdatesOwn
  <2>4. CASE screen = "settings"
    BY <2>1, <2>4, SettingsKeepWrites
       DEF WritesInv, WritePages, WithParts, EditPages, RowsInv, SettingsInv
  <2>5. CASE screen = "deviceForm"
    BY <2>1, <2>5, FormKeepsWrites DEF WritesInv, WritePages, WithParts, EditPages
  <2>6. CASE screen \in EditPages
    BY <2>1, <2>6, EditKeepWrites DEF WritesInv, WritePages, WithParts, EditPages
  <2> QED
    BY <2>1, <2>2, <2>3, <2>4, <2>5, <2>6 DEF WritesInv, WritePages, WithParts, EditPages
<1> QED
  BY <1>1, <1>2, OwnAlways, RowsAlways, FormAlways, PTL DEF FrontendSpec

\* A page whose writes share one flag never has two of them under way, for
\* any number of records and of calls in flight: not by a double click, not
\* through another dialog, not after a dialog, a tab or a card has gone and
\* come back with the write still in flight (isSubmitting in
\* networks/page.tsx, network-locations.tsx and the forms, isSaving in
\* security-configuration-card.tsx).
THEOREM WritesComeOneByOne == FrontendSpec => []OneWriteAtATime
<1>1. WritesInv => OneWriteAtATime
  <2> SUFFICES ASSUME WritesInv, screen \in WritePages
               PROVE  Cardinality({s \in Slots : calls[s].op \in RecordWrites /\ OfMountedPart(s)}) <= 1
    BY DEF OneWriteAtATime, WritePages, WithParts
  <2> DEFINE W == {s \in Slots : calls[s].op \in RecordWrites /\ OfMountedPart(s)}
  <2>1. \A s \in W : UnderWay(s)
    BY DEF OfMountedPart, UnderWay, WritesInv, WritesKnown, WriteArgs
  <2>2. \A s, t \in W : s = t
    BY <2>1 DEF WritesInv, WritesKnown, OneUnderWay
  <2>3. CASE W = {}
    <3>1. Cardinality(W) = 0
      BY <2>3, FS_EmptySet
    <3> QED
      BY <3>1
  <2>4. CASE W # {}
    <3>1. PICK s \in W : W = {s}
      BY <2>2, <2>4
    <3>2. Cardinality(W) = 1
      BY <3>1, FS_Singleton
    <3> QED
      BY <3>2
  <2> QED
    BY <2>3, <2>4
<1> QED
  BY <1>1, WritesAlways, PTL
=============================================================================
