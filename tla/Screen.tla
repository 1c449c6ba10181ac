------------------------------- MODULE Screen -------------------------------
(***************************************************************************)
(* What every page of the frontend shares: one page is mounted at a time,  *)
(* its React state is `ui', and it has calls to the backend in flight.     *)
(*                                                                         *)
(* A call is made through WireGuardApiClient.request.  Between the moment  *)
(* a handler awaits it and the moment the handler goes on, the backend may *)
(* perform it, the answer may be lost and, for the methods request()       *)
(* repeats, the backend may perform it again.  Calls are answered in any   *)
(* order, and nothing in the frontend aborts or numbers them.              *)
(*                                                                         *)
(* The shell mounts a page only while the provider says the session is     *)
(* unlocked, so a lock, a failed status poll and a navigation all unmount  *)
(* it: its state is gone, but the handlers that were waiting run on.       *)
(***************************************************************************)
EXTENDS Endpoints, Naturals, FiniteSets

CONSTANTS Items,     \* the records the mounted page manages
          Nobody,    \* no record: null in the code
          MaxCalls   \* bound: calls a page has in flight at a time

ASSUME ScreenAssumption ==
  /\ Nobody \notin Items
  /\ MaxCalls \in Nat \ {0}

VARIABLES screen,    \* which page the address bar names
          ui,        \* the useState variables of the mounted page, or Unmounted
          calls,     \* the calls in flight, by slot
          db         \* the part of the backend's data the page works on

vars == <<screen, ui, calls, db>>

Slots == 1..MaxCalls
Idle  == [op |-> "idle"]
Unmounted == [mounted |-> FALSE]

Failures == {"unauthorized", "locked", "invalid", "failed"}

\* `mine' tells a call of the mounted page from one whose page is gone, and
\* `done' that the backend has performed it at least once.
NewCall(op, arg) ==
  [op |-> op, arg |-> arg, mine |-> TRUE, done |-> FALSE,
   outcome |-> "none", data |-> Nobody]

Busy(s)     == calls[s].op # "idle"
Waiting(s)  == Busy(s) /\ calls[s].outcome = "none"
Answered(s, op) == calls[s].op = op /\ calls[s].outcome # "none"
Mine(s)     == Busy(s) /\ calls[s].mine
InFlight(op) == {s \in Slots : calls[s].op = op}
Quiet       == \A s \in Slots : ~Busy(s)
Writing     == {s \in Slots : Mine(s) /\ ~Reads(calls[s].op)}

FreeSlots   == {s \in Slots : ~Busy(s)}
AnyFree     == CHOOSE s \in FreeSlots : TRUE

\* A handler awaits one call, or one call after another.
Others(s)           == \E t \in Slots \ {s} : Busy(t)
Await(op, arg)      == /\ FreeSlots # {}
                       /\ calls' = [calls EXCEPT ![AnyFree] = NewCall(op, arg)]
AwaitNext(s, op, arg) == calls' = [calls EXCEPT ![s] = NewCall(op, arg)]
Finish(s)           == calls' = [calls EXCEPT ![s] = Idle]

\* The handler of a page that is gone runs on, but whatever state it sets is
\* nobody's: the answer of its call makes no difference.
Settle(s, outcome, data) ==
  IF calls[s].mine
  THEN calls' = [calls EXCEPT ![s].outcome = outcome, ![s].data = data]
  ELSE Finish(s)

-----------------------------------------------------------------------------
(***************************************************************************)
(* The backend and the network, for the call in slot s.  `replies' is the  *)
(* set of what the backend may do with it: the data it then holds, and its *)
(* answer.                                                                 *)
(***************************************************************************)

Reply(d, outcome, data) == [db |-> d, outcome |-> outcome, data |-> data]

\* A collection of records, by id: what the list, create, update and delete
\* endpoints of networks, locations and devices do with it.
ListReply        == {Reply(db, "ok", db)}
CreateReplies(all) == IF db = all THEN {Reply(db, "invalid", Nobody)}
                      ELSE {Reply(db \cup {i}, "ok", i) : i \in all \ db}
UpdateReply(i)   == {Reply(db, IF i \in db THEN "ok" ELSE "failed", i)}
DeleteReply(i)   == {Reply(db \ {i}, IF i \in db THEN "ok" ELSE "failed", i)}
GenerateReply    == {Reply(db, "ok", Nobody)}

Perform(s, replies) ==
  /\ Waiting(s)
  /\ \E r \in replies :
       /\ db' = r.db
       /\ Settle(s, r.outcome, r.data)
  /\ UNCHANGED <<screen, ui>>

\* Not the code: repeats whatever the method.
RepeatAnyway(s, replies) ==
  /\ Waiting(s) /\ ~calls[s].done
  /\ \E r \in replies : r.outcome = "ok" /\ r.db # db /\ db' = r.db
  /\ calls' = [calls EXCEPT ![s].done = TRUE]
  /\ UNCHANGED <<screen, ui>>

\* The backend performs the call, to some effect, and its answer is lost.
\* request() repeats an idempotent one; any other is reported as failed.
LoseAnswer(s, replies) ==
  /\ Waiting(s)
  /\ ~calls[s].done
  /\ \E r \in replies :
       /\ r.outcome = "ok" /\ r.db # db
       /\ db' = r.db
  /\ IF Repeats(calls[s].op)
     THEN calls' = [calls EXCEPT ![s].done = TRUE]
     ELSE Settle(s, "failed", Nobody)
  /\ UNCHANGED <<screen, ui>>

\* The call is turned down, or the attempts request() makes are used up.
Refuse(s, outcomes) ==
  /\ Waiting(s)
  /\ \E k \in outcomes : Settle(s, k, Nobody)
  /\ UNCHANGED <<screen, ui, db>>

-----------------------------------------------------------------------------
(***************************************************************************)
(* Mounting and unmounting.  A page that goes away keeps its writes in     *)
(* flight; what a waiting read would have shown is shown nowhere.          *)
(***************************************************************************)

Orphaned(c) ==
  IF c.op = "idle" THEN c
  ELSE IF Reads(c.op) \/ c.outcome # "none" THEN Idle
  ELSE [c EXCEPT !.mine = FALSE]

Unmount ==
  /\ ui # Unmounted
  /\ ui' = Unmounted
  /\ calls' = [s \in Slots |-> Orphaned(calls[s])]
  /\ UNCHANGED <<screen, db>>
=============================================================================
